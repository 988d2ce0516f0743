---------------------------- MODULE NumberSheets ----------------------------
(***************************************************************************)
(* Reading a file of numbers: Parse of internal/bulk/parse.go as far as    *)
(* ParseDIDFile and ParseDIDs of dids.go use it.  A file is its lines, a   *)
(* line two cells; formatting has been taken off a cell, and whether it    *)
(* reads as a number is a fact about it.  One action per row.              *)
(***************************************************************************)
EXTENDS Integers, FiniteSets, Sifting

CONSTANTS
  Files,       \* files: sequences of lines, each a pair of cells
  MaxDIDs,     \* numbers of one import
  Base         \* digits are 0 .. Base - 1

ASSUME NumberSheetsAssumption == MaxDIDs \in Nat \ {0} /\ Base \in Nat \ {0, 1}

Power(n) == LET P[i \in 0 .. n] == IF i = 0 THEN 1 ELSE Base * P[i - 1] IN P[n]

(***************************************************************************)
(* A cell: <<"empty">>, <<"word", w>> for the name of a column or anything *)
(* else with a letter in it, <<"number", width, value>>, or                *)
(* <<"block", width, value, width, value>> for "number..tail".             *)
(***************************************************************************)
Empty == <<"empty">>
IsCell(c) ==
  \/ c = Empty
  \/ c[1] = "word"
  \/ c[1] = "number" /\ c[2] \in Nat /\ c[3] \in Nat
  \/ c[1] = "block" /\ {c[2], c[3], c[4]} \subseteq Nat /\ c[5] \in 0 .. Power(c[4]) - 1

\* A file has a first line.
ASSUME CellsAssumption ==
  \A file \in Files :
    /\ file # << >> /\ file \in Seq({file[i] : i \in DOMAIN file})
    /\ \A i \in DOMAIN file, c \in 1 .. 2 : IsCell(file[i][c])

VARIABLES
  sheet,       \* the file
  line,        \* the next of its lines to be read
  numbers,     \* DIDs.Numbers: <<width, value>>, the extension, the row it is said to come from
  refusals,    \* DIDs.Refused, by the row they are said to be of
  repeated,    \* DIDs.Repeated
  verdict      \* "rows" while they are read, then why that ended

fileVars == <<sheet, line, numbers, refusals, repeated, verdict>>

BlankLine(l) == l[1] = Empty /\ l[2] = Empty

-----------------------------------------------------------------------------
\* Cells.

\* expandDID refuses a tail longer than its number, a block that ends before it
\* starts, and one of too many.
Tail0(cell) == cell[3] % Power(cell[4])
Reads(cell) ==
  \/ cell[1] = "number"
  \/ /\ cell[1] = "block" /\ cell[4] <= cell[2]
     /\ cell[5] >= Tail0(cell) /\ cell[5] - Tail0(cell) + 1 <= MaxDIDs

\* The tail replaces as many digits off the end, padded to its width.
Expand(cell) ==
  IF cell[1] = "number" THEN <<<<cell[2], cell[3]>>>>
  ELSE LET stem == (cell[3] \div Power(cell[4])) * Power(cell[4])
       IN  [i \in 1 .. cell[5] - Tail0(cell) + 1 |-> <<cell[2], stem + Tail0(cell) + i - 1>>]

\* extensionOf: empty, a number, or refused.
Assigns(cell) == cell[1] \in {"empty", "number"}

-----------------------------------------------------------------------------
\* Lines.

\* Parse drops what is blank, the first line apart.
SheetRows == Sift(Tail(sheet), {i \in 1 .. Len(sheet) - 1 : ~BlankLine(sheet[i + 1])})
Head0 == Head(sheet)
IsWord(cell, w) == cell = <<"word", w>>

\* didColumn, by name or the first.
DidColumn == IF IsWord(Head0[1], "did") THEN 1 ELSE IF IsWord(Head0[2], "did") THEN 2 ELSE 1
\* Mutant: the first line is always names.
HeadlessNever == FALSE
\* looksLikeData: a first cell that reads as a number was never a name.
Headless == Reads(Head0[DidColumn])
\* extensionColumn: by name; by place only where there are no names.
ToColumn ==
  LET other == 3 - DidColumn IN
  IF IsWord(Head0[other], "extension") THEN other ELSE IF Headless /\ DidColumn = 1 THEN 2 ELSE 0

\* The rows there are to read, with the lines they are said to be.
Lines == (IF Headless THEN <<<<Head0, 1>>>> ELSE <<>>) \o [i \in DOMAIN SheetRows |-> <<SheetRows[i], i + 1>>]
Did(row) == row[1][DidColumn]
To(row) == IF ToColumn = 0 THEN Empty ELSE row[1][ToColumn]

NumbersInit ==
  /\ sheet \in Files /\ line = 1 /\ numbers = <<>> /\ refusals = {} /\ repeated = 0
  /\ verdict = "rows"

Listed(n) == \E i \in DOMAIN numbers : numbers[i].number = n

\* Of a row's numbers, those nobody named yet.
Fresh(new) == Sift(new, {i \in DOMAIN new : ~Listed(new[i])})

\* One row.  At the limit its numbers are taken as far as they go, it is refused,
\* and that is the end.
ReadRow ==
  /\ verdict = "rows" /\ line \in DOMAIN Lines
  /\ LET row == Lines[line] IN
     \/ Did(row) = Empty /\ UNCHANGED <<numbers, refusals, repeated, verdict>>
     \/ /\ Did(row) # Empty /\ ~(Reads(Did(row)) /\ Assigns(To(row)))
        /\ refusals' = refusals \cup {row[2]} /\ UNCHANGED <<numbers, repeated, verdict>>
     \/ /\ Did(row) # Empty /\ Reads(Did(row)) /\ Assigns(To(row))
        /\ LET new == Expand(Did(row))
               fresh == Fresh(new)
               room == MaxDIDs - Len(numbers)
               kept == IF Len(fresh) <= room THEN fresh ELSE SubSeq(fresh, 1, room)
           IN  /\ numbers' = numbers \o [i \in DOMAIN kept |-> [number |-> kept[i], to |-> To(row), row |-> row[2]]]
               /\ IF Len(fresh) <= room
                  THEN repeated' = repeated + Len(new) - Len(fresh) /\ UNCHANGED <<refusals, verdict>>
                  ELSE /\ refusals' = refusals \cup {row[2]} /\ verdict' = "full"
                       /\ repeated' = repeated + Cardinality({i \in DOMAIN new : Listed(new[i]) /\ new[i][2] < fresh[room + 1][2]})
  /\ line' = line + 1
  /\ UNCHANGED sheet

EndOfFile ==
  /\ verdict = "rows" /\ line \notin DOMAIN Lines /\ verdict' = "end"
  /\ UNCHANGED <<sheet, line, numbers, refusals, repeated>>

NumbersNext == ReadRow \/ EndOfFile

NumbersSpec == NumbersInit /\ [][NumbersNext]_fileVars

-----------------------------------------------------------------------------

\* What a cell names, digit by digit: the numbers as wide as it, alike up to the
\* tail, from it to the one that ends in the tail.
Names(cell, n) ==
  IF cell[1] = "number" THEN n = <<cell[2], cell[3]>>
  ELSE /\ n[1] = cell[2] /\ n[2] >= cell[3]
       /\ n[2] \div Power(cell[4]) = cell[3] \div Power(cell[4]) /\ n[2] % Power(cell[4]) <= cell[5]

\* The lines of the file with something where its numbers are.
Told == {i \in DOMAIN sheet : sheet[i][DidColumn] # Empty /\ (i > 1 \/ Reads(sheet[1][DidColumn]))}
AtFault(i) == ~(Reads(sheet[i][DidColumn]) /\ (ToColumn = 0 \/ Assigns(sheet[i][ToColumn])))
NoGaps == \A i \in 2 .. Len(sheet) : ~BlankLine(sheet[i])
Digits == {<<w, v>> : w \in 1 .. 2, v \in 0 .. Base * Base - 1}

\* "Silently lose its first number -- the one case where being wrong costs a
\* working phone number": when all is read, exactly the numbers that sound lines
\* name are there, each once; the first line's too where it is a number; and what
\* is refused is as many lines as are at fault.
EveryNumberArrives ==
  /\ \A i, j \in DOMAIN numbers : numbers[i].number = numbers[j].number => i = j
  /\ verdict = "end" =>
       /\ \A n \in Digits : Listed(n) <=> \E i \in Told : ~AtFault(i) /\ Names(sheet[i][DidColumn], n)
       /\ Cardinality(refusals) = Cardinality({i \in Told : AtFault(i)})

\* "Line numbers as the person sees them in a text editor": a refused row is said
\* to be the line it is.
RefusalsNameTheirLines == verdict = "end" => refusals = {i \in Told : AtFault(i)}

\* They are, unless blank lines come before.
RefusalsNameTheirLinesUndisturbed == NoGaps => RefusalsNameTheirLines

FilesAreRead == EveryNumberArrives /\ RefusalsNameTheirLinesUndisturbed

=============================================================================
