---------------------------- MODULE ChangesProofs ----------------------------
(***************************************************************************)
(* What Azir promises about the changes it makes and the lists it reads: a *)
(* claimed row is changed once (OneChangePerClaim, which                   *)
(* JobSchedulerProofs and ProposalsProofs prove implemented); what a sheet *)
(* changed is put back by its undo, and nothing else is touched (Sheets);  *)
(* a file of numbers is read whole (NumberSheets); and what is put         *)
(* together from pages is whole or says what it lacks (Histories).         *)
(***************************************************************************)
EXTENDS OneChangePerClaim, Sheets, NumberSheets, Histories, FiniteSetTheorems, SequenceTheorems, TLAPS

-----------------------------------------------------------------------------
(***************************************************************************)
(* OneChangePerClaim: what the abstract promise comes to, for any rows.    *)
(***************************************************************************)

\* Where the one change of a row is: not made while the row is open or its
\* ticket is out.
OnceInv ==
  \A w \in Work \cap Once :
    /\ changes[w] \in {0, 1}
    /\ state[w] = "open" => w \notin tickets
    /\ state[w] = "open" \/ w \in tickets => changes[w] = 0

IInv == TypeOK /\ OnceInv

\* The inductive invariant at the start.
LEMMA InitIInv == Init => IInv
BY DEF Init, IInv, TypeOK, OnceInv

\* Claiming, changing and giving up keep it.
LEMMA NextIInv == IInv /\ [Next]_vars => IInv'
<1> SUFFICES ASSUME IInv, [Next]_vars PROVE IInv'
  OBVIOUS
<1> USE DEF IInv, TypeOK, OnceInv
<1>1. ASSUME NEW w \in Work, Claim(w)
      PROVE  IInv'
  BY <1>1 DEF Claim
<1>2. ASSUME NEW w \in Work, Change(w)
      PROVE  IInv'
  BY <1>2 DEF Change
<1>3. ASSUME NEW w \in Work, Reopen(w) \/ Close(w)
      PROVE  IInv'
  BY <1>3 DEF Reopen, Close
<1>4. ASSUME NEW S \in SUBSET Work, GiveUp(S) \/ Settle(S)
      PROVE  IInv'
  BY <1>4 DEF GiveUp, Settle
<1>5. CASE UNCHANGED vars
  BY <1>5 DEF vars
<1>6. QED
  BY <1>1, <1>2, <1>3, <1>4, <1>5 DEF Next

\* Whatever implements the promise changes the outside system at most once for
\* work that happens once.
THEOREM OnceOnly == Spec => []OnceChangesOnce
<1>1. IInv => OnceChangesOnce
  <2>1. ASSUME IInv, NEW w \in Work \cap Once
        PROVE  changes[w] <= 1
    <3>1. changes[w] = 0 \/ changes[w] = 1
      BY <2>1 DEF IInv, OnceInv
    <3>2. QED
      BY <3>1
  <2>2. QED
    BY <2>1 DEF OnceChangesOnce
<1>2. QED
  BY <1>1, InitIInv, NextIInv, PTL DEF Spec

-----------------------------------------------------------------------------
(***************************************************************************)
(* Sheets: plans, and the sheets that undo them.                           *)
(***************************************************************************)

\* How many members come before one of them.
Below(E, f, e) == Cardinality({d \in E : f[d] < f[e]})

\* Members of a finite set that are told apart by a number are ranked by it, and
\* every rank below their count is taken.
LEMMA EveryRankIsTaken ==
  ASSUME NEW E, IsFiniteSet(E), NEW f \in [E -> Nat], \A d, e \in E : f[d] = f[e] => d = e
  PROVE  /\ Cardinality(E) \in Nat
         /\ \A e \in E : Below(E, f, e) \in 0 .. Cardinality(E) - 1
         /\ \A d, e \in E : Below(E, f, d) = Below(E, f, e) => d = e
         /\ \A n \in 0 .. Cardinality(E) - 1 : \E e \in E : Below(E, f, e) = n
<1> DEFINE lower(e) == {d \in E : f[d] < f[e]}
           below(e) == Cardinality(lower(e))
           place == [e \in E |-> below(e)]
           top == Cardinality(E) - 1
<1>1. Cardinality(E) \in Nat BY FS_CardinalityType
<1>2. ASSUME NEW e \in E PROVE IsFiniteSet(lower(e)) /\ below(e) \in 0 .. top
  <2>1. lower(e) \in SUBSET E /\ e \notin lower(e)
    <3>1. f[e] \in Nat OBVIOUS
    <3> QED BY <3>1
  <2>2. IsFiniteSet(lower(e)) /\ below(e) <= Cardinality(E) /\ (Cardinality(E) = below(e) => E = lower(e))
    BY <2>1, FS_Subset
  <2>3. below(e) \in Nat BY <2>2, FS_CardinalityType
  <2>4. below(e) # Cardinality(E) BY <2>1, <2>2
  <2> HIDE DEF below
  <2> QED BY <1>1, <2>2, <2>3, <2>4
<1>3. ASSUME NEW d \in E, NEW e \in E, f[d] < f[e] PROVE below(d) # below(e)
  <2>1. lower(d) \in SUBSET lower(e)
    <3>1. \A x \in E : f[x] \in Nat OBVIOUS
    <3> QED BY <1>3, <3>1
  <2>2. d \in lower(e) /\ d \notin lower(d)
    <3>1. f[d] \in Nat OBVIOUS
    <3> QED BY <1>3, <3>1
  <2>3. IsFiniteSet(lower(e)) BY <1>2
  <2>4. below(e) = below(d) => lower(e) = lower(d) BY <2>1, <2>3, FS_Subset
  <2> QED BY <2>2, <2>4
<1>4. ASSUME NEW d \in E, NEW e \in E, below(d) = below(e) PROVE d = e
  <2>1. f[d] \in Nat /\ f[e] \in Nat OBVIOUS
  <2>2. f[d] = f[e] \/ f[d] < f[e] \/ f[e] < f[d] BY <2>1
  <2> QED BY <1>3, <1>4, <2>2
<1>5. place \in [E -> 0 .. top] BY <1>2
<1>6. DOMAIN place = E /\ \A e \in E : place[e] = below(e) OBVIOUS
<1> HIDE DEF place, below
<1>7. place \in Injection(E, 0 .. top) BY <1>4, <1>5, <1>6 DEF Injection, IsInjective
<1>8. IsFiniteSet(0 .. top) /\ Cardinality(0 .. top) = Cardinality(E)
  <2>1. top \in Int /\ IsFiniteSet(0 .. top) /\ Cardinality(0 .. top) = (IF 0 > top THEN 0 ELSE top - 0 + 1)
    BY <1>1, FS_Interval, SMTT(30)
  <2> QED BY <1>1, <2>1
<1>9. place \in Surjection(E, 0 .. top) BY <1>7, <1>8, FS_Injection
<1>10. \A n \in 0 .. top : \E e \in E : place[e] = n BY <1>9 DEF Surjection
<1>11. \A e \in E : below(e) = Below(E, f, e) BY DEF below, Below
<1>12. \A e \in E : Below(E, f, e) \in 0 .. Cardinality(E) - 1 BY <1>2, <1>11
<1>13. \A d, e \in E : Below(E, f, d) = Below(E, f, e) => d = e BY <1>4, <1>11
<1>14. \A n \in 0 .. Cardinality(E) - 1 : \E e \in E : Below(E, f, e) = n BY <1>6, <1>10, <1>11
<1> QED BY <1>1, <1>12, <1>13, <1>14

\* A finite set whose members are told apart by a number has a first one.
LEMMA HasFirst ==
  ASSUME NEW E, IsFiniteSet(E), E # {}, NEW f \in [E -> Nat], \A d, e \in E : f[d] = f[e] => d = e
  PROVE  \E e \in E : \A d \in E : f[e] <= f[d]
<1>1. /\ Cardinality(E) \in Nat
      /\ \A n \in 0 .. Cardinality(E) - 1 : \E e \in E : Below(E, f, e) = n
  BY EveryRankIsTaken
<1>2. Cardinality(E) # 0 BY FS_EmptySet
<1>3. PICK e \in E : Below(E, f, e) = 0 BY <1>1, <1>2
<1>4. {d \in E : f[d] < f[e]} = {}
  <2>1. {d \in E : f[d] < f[e]} \in SUBSET E OBVIOUS
  <2>2. IsFiniteSet({d \in E : f[d] < f[e]}) BY <2>1, FS_Subset
  <2> QED BY <1>3, <2>2, FS_EmptySet DEF Below
<1>5. ASSUME NEW d \in E PROVE f[e] <= f[d]
  <2>1. ~(f[d] < f[e]) /\ f[d] \in Nat /\ f[e] \in Nat BY <1>4
  <2> QED BY <2>1
<1> QED BY <1>5

\* Numbers up to a bound have a highest one.
LEMMA HasHighest ==
  ASSUME NEW N \in Nat, NEW S \in SUBSET (0 .. N), S # {}
  PROVE  \E m \in S : \A k \in S : k <= m
<1>1. IsFiniteSet(S)
  <2>1. IsFiniteSet(0 .. N) BY FS_Interval
  <2> QED BY <2>1, FS_Subset
<1>2. PICK f \in [S -> Nat] : \A n \in S : f[n] = N - n
  <2>1. [n \in S |-> N - n] \in [S -> Nat] OBVIOUS
  <2> QED BY <2>1
<1>3. \A d, e \in S : f[d] = f[e] => d = e
  <2>1. ASSUME NEW d \in S, NEW e \in S, f[d] = f[e] PROVE d = e
    <3>1. N - d = N - e /\ d \in Int /\ e \in Int BY <1>2, <2>1
    <3> QED BY <3>1
  <2> QED BY <2>1
<1>4. PICK e \in S : \A d \in S : f[e] <= f[d] BY <1>1, <1>3, HasFirst
<1>5. ASSUME NEW k \in S PROVE k <= e
  <2>1. N - e <= N - k /\ k \in Int /\ e \in Int BY <1>2, <1>4
  <2> QED BY <2>1
<1> QED BY <1>5

\* A set that has 0, and with a number the next, has all of them.
LEMMA UpTo ==
  ASSUME NEW N \in Nat, NEW S, 0 \in S, \A n \in 0 .. N - 1 : n \in S => n + 1 \in S
  PROVE  0 .. N \subseteq S
<1> DEFINE B == {n \in 0 .. N : N - n \notin S}
<1>1. SUFFICES ASSUME B # {} PROVE FALSE
  <2>1. ASSUME NEW n \in 0 .. N PROVE n \in S
    <3>1. N - n \in 0 .. N /\ N - (N - n) = n OBVIOUS
    <3> QED BY <1>1, <3>1
  <2> QED BY <2>1
<1>2. B \in SUBSET (0 .. N) OBVIOUS
<1>3. PICK m \in B : \A k \in B : k <= m BY <1>1, <1>2, HasHighest
<1>4. m \in 0 .. N /\ N - m \notin S OBVIOUS
<1>5. N - m # 0 BY <1>4
<1>6. m + 1 \in 0 .. N /\ m + 1 \notin B BY <1>3, <1>4, <1>5
<1>7. N - (m + 1) \in S /\ N - (m + 1) \in 0 .. N - 1 /\ N - (m + 1) + 1 = N - m BY <1>4, <1>6
<1> QED BY <1>4, <1>7

-----------------------------------------------------------------------------
\* Telling addresses apart.

\* A tagged address is longer than one somebody typed without an extension in it.
LEMMA TagIsLonger ==
  ASSUME NEW v, IsValue(v, 2), NEW n \in Extensions
  PROVE  Len(Tag(v, n)) \in 2 .. 3
<1>1. PICK S : S = {v[i] : i \in 1 .. Len(v)} \cup {n} OBVIOUS
<1>2. Len(v) \in 1 .. 2 /\ v \in Seq(S)
  <2>1. Len(v) \in 1 .. 2 /\ v = [i \in 1 .. Len(v) |-> v[i]] BY DEF IsValue
  <2>2. \A i \in 1 .. Len(v) : v[i] \in S BY <1>1
  <2>3. v \in [1 .. Len(v) -> S] BY <2>1, <2>2
  <2> QED BY <2>1, <2>3, SeqDef
<1>3. Len(Append(v, n)) = Len(v) + 1 BY <1>1, <1>2, AppendProperties
<1> QED BY <1>2, <1>3, SMTT(30) DEF Tag

\* The recursion has a value, and takes one extension after the other.
LEMMA StepsExist ==
  ASSUME NEW want
  PROVE  \E f : /\ f[0] = Untold(want)
                /\ \A n \in 1 .. TopNumber : f[n] = TellApart(want, f[n - 1], n)
                /\ ToldApart(want) = f[TopNumber].out
<1> DEFINE Fits(f, n) == /\ DOMAIN f = 0 .. n /\ f[0] = Untold(want)
                         /\ \A i \in 1 .. n : f[i] = TellApart(want, f[i - 1], i)
           S == {n \in 0 .. TopNumber : \E f : Fits(f, n)}
           Body(g) == [n \in 0 .. TopNumber |->
                         IF n = 0 THEN Untold(want) ELSE TellApart(want, g[n - 1], n)]
<1>0. TopNumber \in Nat BY NumbersAssumption
<1>1. 0 \in S
  <2>1. PICK f : f = [i \in 0 .. 0 |-> Untold(want)] OBVIOUS
  <2>2. Fits(f, 0) BY <2>1
  <2>3. 0 \in 0 .. TopNumber BY <1>0
  <2> HIDE DEF Fits
  <2> QED BY <2>2, <2>3
<1>2. ASSUME NEW n \in 0 .. TopNumber - 1, n \in S PROVE n + 1 \in S
  <2>1. PICK f : Fits(f, n) BY <1>2
  <2>2. PICK g : g = [i \in 0 .. n + 1 |-> IF i = n + 1 THEN TellApart(want, f[n], n + 1) ELSE f[i]]
    OBVIOUS
  <2>3. \A i \in 0 .. n : g[i] = f[i] BY <1>0, <2>2
  <2>4. g[n + 1] = TellApart(want, g[n], n + 1) BY <1>0, <2>2, <2>3
  <2>5. \A i \in 1 .. n : g[i] = TellApart(want, g[i - 1], i) BY <1>0, <2>1, <2>3
  <2>6. \A i \in 1 .. n + 1 : g[i] = TellApart(want, g[i - 1], i)
    <3>1. \A i \in 1 .. n + 1 : i = n + 1 \/ i \in 1 .. n BY <1>0
    <3> QED BY <1>0, <2>4, <2>5, <3>1
  <2>7. DOMAIN g = 0 .. n + 1 /\ g[0] = Untold(want) BY <1>0, <2>1, <2>2, <2>3
  <2>8. Fits(g, n + 1) BY <2>6, <2>7
  <2>9. n + 1 \in 0 .. TopNumber BY <1>0
  <2> QED BY <2>8, <2>9
<1>3. TopNumber \in S
  <2>1. 0 .. TopNumber \subseteq S
    <3> HIDE DEF S
    <3> QED BY <1>0, <1>1, <1>2, UpTo
  <2> QED BY <1>0, <2>1
<1>4. PICK f : Fits(f, TopNumber) BY <1>3
<1>5. \E g : g = Body(g)
  <2>1. PICK g : g = [n \in 0 .. TopNumber |-> f[n]] OBVIOUS
  <2>2. \A n \in 0 .. TopNumber : g[n] = f[n] BY <2>1
  <2>3. ASSUME NEW n \in 0 .. TopNumber
        PROVE  g[n] = IF n = 0 THEN Untold(want) ELSE TellApart(want, g[n - 1], n)
    <3>1. CASE n = 0 BY <1>0, <1>4, <2>2, <3>1
    <3>2. CASE n # 0
      <4>1. n \in 1 .. TopNumber /\ n - 1 \in 0 .. TopNumber BY <1>0, <3>2
      <4> QED BY <1>4, <2>2, <3>2, <4>1
    <3> QED BY <3>1, <3>2
  <2>4. g = Body(g)
    <3>1. g = [n \in 0 .. TopNumber |-> g[n]] BY <2>1
    <3> QED BY <2>3, <3>1
  <2> QED BY <2>4
<1>6. PICK g : g = CHOOSE h : h = Body(h) OBVIOUS
<1>7. g = Body(g) BY <1>5, <1>6
<1>8. ToldApart(want) = g[TopNumber].out BY <1>6 DEF ToldApart
<1>9. g[0] = Untold(want) BY <1>0, <1>7
<1>10. \A n \in 1 .. TopNumber : g[n] = TellApart(want, g[n - 1], n) BY <1>0, <1>7
<1> QED BY <1>8, <1>9, <1>10

\* What an extension is given: what was wanted, where nobody else wants it or it
\* has it already, or that with the extension in it.
Holds(n, v) == n \in there /\ has[n]["email"] = v
Given(want, n, v) ==
  \/ v = want[n] /\ (want[n] \in {Unasked, Blank} \/ Holds(n, v) \/ ~AskedByOthers(want, v))
  \/ v = Tag(want[n], n) /\ want[n] \notin {Unasked, Blank}

\* Up to an extension: who else holds an address came before, and is told apart.
GivenUpTo(want, sofar, n) ==
  /\ \A u \in sofar.taken : Holds(u[2], u[1]) \/ u[2] \in 1 .. n
  /\ DOMAIN sofar.out = Extensions
  /\ \A m \in Extensions : IF m <= n THEN Given(want, m, sofar.out[m]) ELSE sofar.out[m] = want[m]

\* One extension more.
LEMMA OneMoreGiven ==
  ASSUME NEW want, NEW n \in Extensions, NEW before, GivenUpTo(want, before, n - 1)
  PROVE  GivenUpTo(want, TellApart(want, before, n), n)
<1>0. TopNumber \in Nat /\ n \in 1 .. TopNumber /\ Extensions = 1 .. TopNumber
  BY NumbersAssumption DEF Extensions
<1>1. PICK v : v = want[n] OBVIOUS
<1>2. PICK after : after = TellApart(want, before, n) OBVIOUS
<1>3. \A m \in Extensions : m <= n <=> m <= n - 1 \/ m = n BY <1>0
<1>4. \A m \in 1 .. n - 1 : m \in 1 .. n BY <1>0
<1>5. n \in 1 .. n /\ ~(n <= n - 1) BY <1>0
<1> DEFINE holders == {t[2] : t \in {u \in before.taken : u[1] = v}}
<1>6. CASE v \in {Unasked, Blank} \/ n \in holders
  <2>1. after = before BY <1>1, <1>2, <1>6 DEF TellApart
  <2>2. n \in holders => Holds(n, v) BY <1>5 DEF GivenUpTo
  <2>3. before.out[n] = v BY <1>1, <1>5 DEF GivenUpTo
  <2>4. Given(want, n, after.out[n]) BY <1>1, <1>6, <2>1, <2>2, <2>3 DEF Given
  <2>5. \A u \in after.taken : Holds(u[2], u[1]) \/ u[2] \in 1 .. n BY <1>4, <2>1 DEF GivenUpTo
  <2> QED BY <1>2, <1>3, <2>1, <2>4, <2>5 DEF GivenUpTo
<1>7. CASE v \notin {Unasked, Blank} /\ n \notin holders /\ holders = {} /\ ~AskedByOthers(want, v)
  <2>1. after = [taken |-> before.taken \cup {<<v, n>>}, out |-> before.out]
    BY <1>1, <1>2, <1>7 DEF TellApart
  <2>2. before.out[n] = v BY <1>1, <1>5 DEF GivenUpTo
  <2>3. Given(want, n, after.out[n]) BY <1>1, <1>7, <2>1, <2>2 DEF Given
  <2>4. \A u \in after.taken : Holds(u[2], u[1]) \/ u[2] \in 1 .. n
    BY <1>4, <1>5, <2>1 DEF GivenUpTo
  <2> QED BY <1>2, <1>3, <2>1, <2>3, <2>4 DEF GivenUpTo
<1>8. CASE v \notin {Unasked, Blank} /\ n \notin holders /\ (holders # {} \/ AskedByOthers(want, v))
  <2>1. after = [taken |-> {u \in before.taken : u[1] # Tag(v, n)} \cup {<<Tag(v, n), n>>},
                 out |-> [before.out EXCEPT ![n] = Tag(v, n)]]
    BY <1>1, <1>2, <1>8 DEF TellApart
  <2>2. DOMAIN before.out = Extensions BY DEF GivenUpTo
  <2>3. after.out[n] = Tag(v, n) /\ DOMAIN after.out = Extensions
        /\ \A m \in Extensions \ {n} : after.out[m] = before.out[m]
    BY <2>1, <2>2
  <2>4. Given(want, n, after.out[n]) BY <1>1, <1>8, <2>3 DEF Given
  <2>5. \A u \in after.taken : Holds(u[2], u[1]) \/ u[2] \in 1 .. n
    BY <1>4, <1>5, <2>1 DEF GivenUpTo
  <2> QED BY <1>2, <1>3, <1>5, <2>3, <2>4, <2>5 DEF GivenUpTo
<1> QED BY <1>6, <1>7, <1>8

\* disambiguate, for every extension.
LEMMA ToldFine ==
  ASSUME there \subseteq Extensions, NEW want \in Picks, NEW n \in Extensions
  PROVE  Given(want, n, ToldApart(want)[n])
<1>0. TopNumber \in Nat /\ Extensions = 1 .. TopNumber BY NumbersAssumption DEF Extensions
<1>1. PICK f : /\ f[0] = Untold(want)
               /\ \A i \in 1 .. TopNumber : f[i] = TellApart(want, f[i - 1], i)
               /\ ToldApart(want) = f[TopNumber].out
  BY StepsExist
<1>2. PICK S : S = {i \in 0 .. TopNumber : GivenUpTo(want, f[i], i)} OBVIOUS
<1>3. 0 \in S
  <2>1. f[0].out = want /\ DOMAIN want = Extensions BY <1>1, ValuesAssumption DEF Untold
  <2>2. \A u \in f[0].taken : Holds(u[2], u[1]) BY <1>1 DEF Untold, Holds
  <2>3. \A m \in Extensions : ~(m <= 0) BY <1>0
  <2>4. GivenUpTo(want, f[0], 0) BY <2>1, <2>2, <2>3 DEF GivenUpTo
  <2> QED BY <1>0, <1>2, <2>4
<1>4. ASSUME NEW i \in 0 .. TopNumber - 1, i \in S PROVE i + 1 \in S
  <2>1. i + 1 \in 1 .. TopNumber /\ i + 1 \in Extensions /\ (i + 1) - 1 = i BY <1>0
  <2>2. GivenUpTo(want, f[i], (i + 1) - 1) BY <1>2, <1>4, <2>1
  <2>3. GivenUpTo(want, TellApart(want, f[i], i + 1), i + 1) BY <2>1, <2>2, OneMoreGiven
  <2>4. f[i + 1] = TellApart(want, f[i], i + 1) BY <1>1, <2>1
  <2> QED BY <1>0, <1>2, <2>1, <2>3, <2>4
<1>5. TopNumber \in S
  <2>1. 0 .. TopNumber \subseteq S BY <1>0, <1>3, <1>4, UpTo
  <2> QED BY <1>0, <2>1
<1>6. GivenUpTo(want, f[TopNumber], TopNumber) /\ n <= TopNumber BY <1>0, <1>2, <1>5
<1> QED BY <1>1, <1>6 DEF GivenUpTo

-----------------------------------------------------------------------------
\* What is planned of the phone system as it is.

Short(v) == Len(v) \in 1 .. 3

SystemTyped ==
  /\ there \subseteq Extensions /\ DOMAIN has = Extensions
  /\ \A n \in Extensions : DOMAIN has[n] = Columns /\ \A f \in Columns : Short(has[n][f])

\* A row of a first plan: what is there is changed, what is not is made.
PlannedOf(row) ==
  /\ row.kind \in {"change", "create", "same", "problem"}
  /\ row.kind = "change" =>
       /\ row.ext \in there /\ DOMAIN row.sets \subseteq Columns
       /\ \A f \in DOMAIN row.sets :
            /\ row.sets[f].before = has[row.ext][f]
            /\ Short(row.sets[f].before) /\ Short(row.sets[f].after)
  /\ row.kind = "create" => row.ext \in Nat \ {0} /\ row.ext \notin there

\* An empty value is one.
LEMMA BlankIsShort == Short(Blank) /\ Len(Blank) = 1
BY DEF Short, Blank

\* What somebody types is short enough.
LEMMA ValuesAreShort == \A v : IsValue(v, 2) => Short(v)
BY DEF IsValue, Short

\* A row that changes something, from what its cells say.
LEMMA ChangeRowFine ==
  ASSUME SystemTyped, NEW n \in there, NEW D \in SUBSET Columns, NEW cells,
         \A f \in D : Short(cells[f])
  PROVE  PlannedOf(ChangeRow(n, [f \in D |-> [before |-> has[n][f], after |-> cells[f]]]))
<1>1. PICK sets : sets = [f \in D |-> [before |-> has[n][f], after |-> cells[f]]] OBVIOUS
<1>2. DOMAIN sets = D /\ \A f \in D : sets[f].before = has[n][f] /\ sets[f].after = cells[f]
  BY <1>1
<1>3. \A f \in D : Short(has[n][f]) BY DEF SystemTyped
<1>4. PICK row : row = ChangeRow(n, sets) OBVIOUS
<1>5. row.ext = n /\ row.sets = sets /\ row.kind \in {"same", "change"}
  BY <1>4 DEF ChangeRow, PlanRow
<1>6. PlannedOf(row) BY <1>2, <1>3, <1>5 DEF PlannedOf
<1> QED BY <1>1, <1>4, <1>6

\* A row of a plan, where the extension is there.
LEMMA DifferencesFine ==
  ASSUME SystemTyped, NEW n \in there, NEW cells, \A f \in Columns : Short(cells[f])
  PROVE  PlannedOf(ChangeRow(n, Differences(n, cells)))
<1>1. PICK D : D = {f \in Columns : cells[f] # Unasked /\ Filled(cells[f]) /\ cells[f] # has[n][f]}
  OBVIOUS
<1>2. D \in SUBSET Columns BY <1>1
<1>3. Differences(n, cells) = [f \in D |-> [before |-> has[n][f], after |-> cells[f]]]
  BY <1>1 DEF Differences
<1> QED BY <1>2, <1>3, ChangeRowFine

\* The highest extension is there and no other is higher.
LEMMA HighestFine ==
  ASSUME SystemTyped
  PROVE  Highest \in Nat /\ \A m \in there : m <= Highest
<1>1. TopNumber \in Nat /\ there \in SUBSET (0 .. TopNumber)
  BY NumbersAssumption DEF SystemTyped, Extensions
<1>2. CASE there = {} BY <1>2 DEF Highest
<1>3. CASE there # {}
  <2>1. \E m \in there : \A k \in there : k <= m BY <1>1, <1>3, HasHighest
  <2>2. Highest \in there /\ \A k \in there : k <= Highest BY <1>3, <2>1 DEF Highest
  <2> QED BY <1>1, <2>2
<1> QED BY <1>2, <1>3

\* Build, row by row.
LEMMA BuiltFine ==
  ASSUME SystemTyped, NEW upload \in Uploads, NEW k \in DOMAIN upload, NEW create \in BOOLEAN
  PROVE  PlannedOf(BuiltRow(upload, k, create))
<1>1. PICK n, cells : n = upload[k][1] /\ cells = Cells(upload[k][2], upload[k][3]) OBVIOUS
<1>2. n \in Nat /\ \A f \in Columns : Short(cells[f])
  <2>1. upload[k][1] \in Nat /\ IsValue(upload[k][2], 2) /\ IsValue(upload[k][3], 2)
    BY ValuesAssumption
  <2> QED BY <1>1, <2>1, ValuesAreShort DEF Cells
<1>3. \A m : PlannedOf(PlanRow(m, "problem", << >>)) BY DEF PlanRow, PlannedOf
<1>4. ASSUME NEW m \in Nat \ {0}, m \notin there PROVE PlannedOf(Newcomer(m, cells))
  BY <1>4 DEF Newcomer, PlanRow, PlannedOf
<1>5. CASE n = 0 /\ create
  <2>1. Blanks(upload, k) \in Nat
    <3>1. k \in Nat BY ValuesAssumption
    <3>2. IsFiniteSet(1 .. k - 1) BY <3>1, FS_Interval
    <3>3. IsFiniteSet({j \in 1 .. k - 1 : upload[j][1] = 0}) BY <3>2, FS_Subset
    <3> QED BY <3>3, FS_CardinalityType DEF Blanks
  <2>2. PICK m : m = Highest + Blanks(upload, k) + 1 OBVIOUS
  <2>3. m \in Nat \ {0} /\ m > Highest /\ Highest \in Nat BY <2>1, <2>2, HighestFine
  <2>4. m \notin there BY <2>3, HighestFine
  <2>5. BuiltRow(upload, k, create) = Newcomer(m, cells) BY <1>1, <1>5, <2>2 DEF BuiltRow
  <2> QED BY <1>4, <2>3, <2>4, <2>5
<1>6. CASE ~(n = 0 /\ create) /\ (n = 0 \/ \E j \in 1 .. k - 1 : upload[j][1] = n)
  <2>1. BuiltRow(upload, k, create) = PlanRow(n, "problem", << >>) BY <1>1, <1>6 DEF BuiltRow
  <2> QED BY <1>3, <2>1
<1>7. CASE n # 0 /\ ~(\E j \in 1 .. k - 1 : upload[j][1] = n) /\ n \in there
  <2>1. BuiltRow(upload, k, create) = ChangeRow(n, Differences(n, cells)) BY <1>1, <1>7 DEF BuiltRow
  <2> QED BY <1>2, <1>7, <2>1, DifferencesFine
<1>8. CASE n # 0 /\ ~(\E j \in 1 .. k - 1 : upload[j][1] = n) /\ n \notin there
  <2>1. BuiltRow(upload, k, create) = IF create THEN Newcomer(n, cells) ELSE PlanRow(n, "problem", << >>)
    BY <1>1, <1>8 DEF BuiltRow
  <2> QED BY <1>2, <1>3, <1>4, <1>8, <2>1
<1> QED BY <1>5, <1>6, <1>7, <1>8

\* Choose, one extension.
LEMMA ChosenFine ==
  ASSUME SystemTyped, NEW n \in Extensions, NEW email, Short(email), NEW row, row = ChosenRow(n, email)
  PROVE  /\ PlannedOf(row) /\ row.ext = n
         /\ row.kind = "change" =>
              /\ ~Collides(n, email) /\ email # has[n]["email"]
              /\ row.sets["email"].after = email
<1>1. CASE n \notin there \/ Collides(n, email)
  <2>1. row = PlanRow(n, "problem", << >>) BY <1>1 DEF ChosenRow
  <2> QED BY <2>1 DEF PlanRow, PlannedOf
<1>2. CASE n \in there /\ ~Collides(n, email)
  <2>1. PICK D : D = {f \in {"email"} : email # has[n][f]} OBVIOUS
  <2>2. D \in SUBSET Columns BY <2>1 DEF Columns
  <2>3. PICK cells : cells = [f \in D |-> email] OBVIOUS
  <2>4. PICK sets : sets = [f \in D |-> [before |-> has[n][f], after |-> email]] OBVIOUS
  <2>5. sets = [f \in D |-> [before |-> has[n][f], after |-> cells[f]]] BY <2>3, <2>4
  <2>6. row = ChangeRow(n, sets) BY <1>2, <2>1, <2>4 DEF ChosenRow
  <2>7. PlannedOf(row)
    <3>1. \A f \in D : Short(cells[f]) BY <2>3
    <3> QED BY <1>2, <2>2, <2>5, <2>6, <3>1, ChangeRowFine
  <2>8. row.ext = n /\ row.sets = sets /\ (row.kind = "change" => DOMAIN sets # {})
    BY <2>6 DEF ChangeRow, PlanRow
  <2>9. DOMAIN sets # {} => "email" \in D /\ sets["email"].after = email BY <2>1, <2>4
  <2> QED BY <1>2, <2>1, <2>7, <2>8, <2>9
<1> QED BY <1>1, <1>2

\* Members of a set of numbers are the first, the second and so on.
LEMMA NthFine ==
  ASSUME NEW S \in SUBSET Extensions, NEW k \in 1 .. Cardinality(S)
  PROVE  \E n \in S : Cardinality({m \in S : m <= n}) = k
<1>0. Extensions \subseteq Nat /\ IsFiniteSet(Extensions)
  <2>1. TopNumber \in Nat BY NumbersAssumption
  <2> QED BY <2>1, FS_Interval DEF Extensions
<1>1. IsFiniteSet(S) BY <1>0, FS_Subset
<1>2. PICK f \in [S -> Nat] : \A n \in S : f[n] = n
  <2>1. [n \in S |-> n] \in [S -> Nat] BY <1>0
  <2> QED BY <2>1
<1>3. /\ Cardinality(S) \in Nat
      /\ \A n \in 0 .. Cardinality(S) - 1 : \E e \in S : Below(S, f, e) = n
  <2>1. \A d, e \in S : f[d] = f[e] => d = e BY <1>2
  <2> QED BY <1>1, <2>1, EveryRankIsTaken
<1>4. k - 1 \in 0 .. Cardinality(S) - 1 BY <1>3
<1>5. PICK n \in S : Below(S, f, n) = k - 1 BY <1>3, <1>4
<1>6. PICK T : T = {m \in S : m < n} OBVIOUS
<1>7. Cardinality(T) = k - 1
  <2>1. {d \in S : f[d] < f[n]} = T BY <1>2, <1>6
  <2> QED BY <1>5, <2>1 DEF Below
<1>8. {m \in S : m <= n} = T \cup {n} /\ n \notin T
  <2>1. n \in Nat /\ \A m \in S : m \in Nat BY <1>0
  <2>2. \A m \in S : m <= n <=> m < n \/ m = n BY <2>1
  <2>3. \A m \in {i \in S : i <= n} : m \in T \cup {n} BY <1>6, <2>2
  <2>4. \A m \in T \cup {n} : m \in {i \in S : i <= n} BY <1>6, <2>2
  <2>5. n \notin T BY <1>6, <2>1
  <2> QED BY <2>3, <2>4, <2>5
<1>9. IsFiniteSet(T) BY <1>1, <1>6, FS_Subset
<1>10. Cardinality(T \cup {n}) = (k - 1) + 1 BY <1>7, <1>8, <1>9, FS_AddElement
<1>11. (k - 1) + 1 = k BY <1>3
<1>12. Cardinality({m \in S : m <= n}) = (k - 1) + 1 BY <1>8, <1>10
<1> QED BY <1>11, <1>12

\* Choose: a row for each extension that is to have an address of its own.
LEMMA ChooseFine ==
  ASSUME SystemTyped, NEW want \in Picks, NEW plan, plan = Choose(want)
  PROVE  /\ \E N \in Nat : DOMAIN plan = 1 .. N
         /\ \A k \in DOMAIN plan :
              /\ plan[k].ext \in Extensions /\ want[plan[k].ext] # Unasked
              /\ plan[k] = ChosenRow(plan[k].ext, ToldApart(want)[plan[k].ext])
              /\ Short(ToldApart(want)[plan[k].ext])
         /\ \A j, k \in DOMAIN plan : plan[j].ext = plan[k].ext => j = k
<1>1. PICK S : S = {n \in Extensions : want[n] # Unasked} OBVIOUS
<1>2. PICK told : told = ToldApart(want) OBVIOUS
<1> DEFINE Nth(k) == CHOOSE n \in S : Cardinality({m \in S : m <= n}) = k
<1>3. plan = [k \in 1 .. Cardinality(S) |-> ChosenRow(Nth(k), told[Nth(k)])]
  BY <1>1, <1>2 DEF Choose
<1>4. Cardinality(S) \in Nat
  <2>1. TopNumber \in Nat BY NumbersAssumption
  <2>2. IsFiniteSet(Extensions) BY <2>1, FS_Interval DEF Extensions
  <2>3. IsFiniteSet(S) BY <1>1, <2>2, FS_Subset
  <2> QED BY <2>3, FS_CardinalityType
<1>5. ASSUME NEW k \in 1 .. Cardinality(S)
      PROVE  Nth(k) \in S /\ Cardinality({m \in S : m <= Nth(k)}) = k
  <2>1. S \in SUBSET Extensions BY <1>1
  <2>2. \E n \in S : Cardinality({m \in S : m <= n}) = k BY <2>1, NthFine
  <2> QED BY <2>2
<1> HIDE DEF Nth
<1>6. ASSUME NEW n \in S PROVE Short(told[n])
  <2>1. n \in Extensions /\ IsValue(want[n], 2) BY <1>1, ValuesAssumption
  <2>2. Given(want, n, told[n]) BY <1>2, <2>1, ToldFine DEF SystemTyped
  <2>3. Short(want[n]) BY <2>1, ValuesAreShort
  <2>4. Short(Tag(want[n], n)) BY <2>1, TagIsLonger DEF Short
  <2> QED BY <2>2, <2>3, <2>4 DEF Given
<1>7. ASSUME NEW k \in DOMAIN plan
      PROVE  plan[k].ext = Nth(k) /\ plan[k] = ChosenRow(Nth(k), told[Nth(k)]) /\ Nth(k) \in S
  <2>1. k \in 1 .. Cardinality(S) /\ plan[k] = ChosenRow(Nth(k), told[Nth(k)]) BY <1>3
  <2>2. Nth(k) \in S /\ Nth(k) \in Extensions BY <1>1, <1>5, <2>1
  <2>3. Short(told[Nth(k)]) BY <1>6, <2>2
  <2>4. plan[k].ext = Nth(k) BY <2>1, <2>2, <2>3, ChosenFine
  <2> QED BY <2>1, <2>2, <2>4
<1>8. ASSUME NEW k \in DOMAIN plan
      PROVE  /\ plan[k].ext \in Extensions /\ want[plan[k].ext] # Unasked
             /\ plan[k] = ChosenRow(plan[k].ext, ToldApart(want)[plan[k].ext])
             /\ Short(ToldApart(want)[plan[k].ext])
  BY <1>1, <1>2, <1>6, <1>7
<1>9. ASSUME NEW j \in DOMAIN plan, NEW k \in DOMAIN plan, plan[j].ext = plan[k].ext PROVE j = k
  <2>1. Nth(j) = Nth(k) /\ j \in 1 .. Cardinality(S) /\ k \in 1 .. Cardinality(S) BY <1>3, <1>7, <1>9
  <2> QED BY <1>5, <2>1
<1> QED BY <1>3, <1>4, <1>8, <1>9

-----------------------------------------------------------------------------
\* The inductive invariant.

Touched(n) == \E f \in Columns : <<n, f>> \in console

RowTyped(row) ==
  /\ row.kind \in {"change", "create", "remove", "same", "problem"}
  /\ row.kind \in {"change", "create", "remove"} => row.ext \in Extensions
  /\ row.kind = "change" =>
       /\ DOMAIN row.sets \subseteq Columns
       /\ \A f \in DOMAIN row.sets : Short(row.sets[f].before) /\ Short(row.sets[f].after)

PlanTyped(steps) == \E N \in Nat : DOMAIN steps = 1 .. N /\ \A k \in 1 .. N : RowTyped(steps[k])

SheetsTyped ==
  /\ SystemTyped /\ edit \in EditStages /\ picked \in BOOLEAN
  /\ went \subseteq Extensions /\ made \subseteq Extensions /\ ours \subseteq Extensions
  /\ PlanTyped(rows) /\ PlanTyped(planned) /\ left \subseteq Actionable(rows)
  /\ IsFiniteSet(console) /\ Cardinality(console) <= MaxMeddling

\* What the stages of an edit say of the rest.
StagesFine ==
  /\ edit \in {"free", "planned"} =>
       /\ went = {} /\ made = {} /\ ours = {}
       /\ \A n \in Extensions, f \in Columns : has[n][f] # Unasked
  /\ edit \notin {"applying", "undoing"} => left = {}
  /\ edit = "applying" => rows = planned
  /\ edit \in {"planned", "applying"} => \A k \in DOMAIN rows : rows[k].kind # "remove"
  /\ edit \notin {"free", "planned"} =>
       /\ origin.there \subseteq Extensions
       /\ \A n \in Extensions, f \in Columns : origin.has[n][f] # Unasked

\* What is to be made is not there, or the sheet or the console made it meanwhile;
\* so what a sheet said it made it did, or the console was there before it.
CreatesFine ==
  /\ edit \in {"planned", "applying"} =>
       \A k \in DOMAIN rows : rows[k].kind = "create" /\ rows[k].ext \in there =>
         rows[k].ext \in ours \/ Touched(rows[k].ext)
  /\ \A n \in made : n \in there => n \in ours \/ Touched(n)

\* A row of the undo goes back over one that went through.
UndoesOne(row) ==
  \/ row.kind = "remove" /\ row.ext \in made
  \/ /\ row.kind = "change" /\ row.ext \in went
     /\ \E j \in DOMAIN planned : /\ planned[j].kind = "change" /\ planned[j].ext = row.ext
                                  /\ DOMAIN row.sets \subseteq DOMAIN planned[j].sets
UndoFine == edit \in {"undoPlanned", "undoing"} => \A k \in Actionable(rows) : UndoesOne(rows[k])

\* What was there stays there, and what it had it has, but for what the sheet sets.
OriginKept ==
  /\ origin.there \subseteq there /\ made \cap origin.there = {}
  /\ \A j \in DOMAIN planned :
       /\ planned[j].kind = "change" =>
            /\ planned[j].ext \in origin.there
            /\ \A f \in DOMAIN planned[j].sets :
                 planned[j].sets[f].before = origin.has[planned[j].ext][f]
       /\ planned[j].kind = "create" => planned[j].ext \notin origin.there
  /\ \A n \in origin.there, f \in Columns : has[n][f] # origin.has[n][f] =>
       \E j \in DOMAIN planned : /\ planned[j].kind = "change" /\ planned[j].ext = n
                                 /\ f \in DOMAIN planned[j].sets
  /\ edit = "nothing" => Actionable(UndoRows) = {}

\* While nobody is at the console.
Undisturbed ==
  console = {} =>
    /\ edit = "planned" =>
         \A k \in DOMAIN rows : rows[k].kind = "change" =>
           /\ rows[k].ext \in there
           /\ \A f \in DOMAIN rows[k].sets : rows[k].sets[f].before = has[rows[k].ext][f]
    /\ edit \notin {"free", "planned"} => OriginKept

SheetsInv ==
  /\ SheetsTyped /\ StagesFine /\ CreatesFine /\ UndoFine /\ Undisturbed /\ UniqueStaysUnique

\* At the start.
LEMMA SheetsStart == SheetsInit => SheetsInv
<1> SUFFICES ASSUME SheetsInit PROVE SheetsInv
  OBVIOUS
<1> USE DEF SheetsInit
<1>1. PICK s \in Starts : /\ there = {n \in Extensions : s[n] # << >>}
                          /\ has = [n \in Extensions |-> IF s[n] = << >> THEN Cells(Blank, Blank)
                                                         ELSE Cells(s[n][1], s[n][2])]
  OBVIOUS
<1>2. ASSUME NEW n \in Extensions, NEW f \in Columns
      PROVE  DOMAIN has[n] = Columns /\ Short(has[n][f]) /\ has[n][f] # Unasked
  <2>1. CASE s[n] = << >>
    <3>1. has[n] = Cells(Blank, Blank) BY <1>1, <2>1
    <3>2. Blank # Unasked BY DEF Blank, Unasked
    <3> QED BY <3>1, <3>2, BlankIsShort DEF Cells
  <2>2. CASE s[n] # << >>
    <3>1. has[n] = Cells(s[n][1], s[n][2]) BY <1>1, <2>2
    <3>2. \A i \in 1 .. 2 : IsValue(s[n][i], 2) /\ s[n][i] # Unasked BY <2>2, ValuesAssumption
    <3>3. IsValue(s[n][1], 2) /\ s[n][1] # Unasked /\ IsValue(s[n][2], 2) /\ s[n][2] # Unasked
      BY <3>2
    <3>4. Short(s[n][1]) /\ Short(s[n][2]) BY <3>3, ValuesAreShort
    <3> QED BY <3>1, <3>3, <3>4 DEF Cells
  <2> QED BY <2>1, <2>2
<1>3. SystemTyped
  <2>1. \A n \in Extensions : DOMAIN has[n] = Columns
    <3>1. "name" \in Columns BY DEF Columns
    <3> QED BY <1>2, <3>1
  <2> QED BY <1>1, <1>2, <2>1 DEF SystemTyped
<1>4. PlanTyped(<< >>)
  <2>1. DOMAIN << >> = 1 .. 0 /\ \A k \in 1 .. 0 : RowTyped(<< >>[k]) OBVIOUS
  <2> QED BY <2>1 DEF PlanTyped
<1>5. SheetsTyped
  <2>1. IsFiniteSet({}) /\ Cardinality({}) = 0 BY FS_EmptySet
  <2>2. 0 <= MaxMeddling BY NumbersAssumption
  <2> QED BY <1>3, <1>4, <2>1, <2>2 DEF SheetsTyped, EditStages
<1>6. StagesFine BY <1>2 DEF StagesFine
<1>7. CreatesFine /\ UndoFine /\ Undisturbed /\ UniqueStaysUnique
  BY DEF CreatesFine, UndoFine, Undisturbed, UniqueStaysUnique
<1> QED BY <1>5, <1>6, <1>7 DEF SheetsInv

\* A plan is staged.
LEMMA StageFine ==
  ASSUME SheetsInv, NEW plan, NEW screen \in BOOLEAN, StagePlan(plan, screen),
         \A k \in DOMAIN plan : PlannedOf(plan[k]), NEW N \in Nat, DOMAIN plan = 1 .. N
  PROVE  SheetsTyped' /\ StagesFine' /\ CreatesFine' /\ UndoFine' /\ Undisturbed'
<1>1. /\ edit = "free" /\ edit' = "planned" /\ rows' = plan /\ picked' = screen
      /\ \A k \in DOMAIN plan : plan[k].ext <= TopNumber
      /\ UNCHANGED <<there, has, left, went, made, planned, ours, origin, console>>
  BY DEF StagePlan
<1>2. went = {} /\ made = {} /\ ours = {} /\ left = {} BY <1>1 DEF SheetsInv, StagesFine
<1>3. PlanTyped(plan)
  <2>1. ASSUME NEW k \in 1 .. N PROVE RowTyped(plan[k])
    <3>1. PlannedOf(plan[k]) /\ plan[k].ext <= TopNumber BY <1>1
    <3>2. TopNumber \in Nat /\ there \subseteq Extensions
      BY NumbersAssumption DEF SheetsInv, SheetsTyped, SystemTyped
    <3>3. plan[k].kind = "create" => plan[k].ext \in Extensions BY <3>1, <3>2 DEF PlannedOf, Extensions
    <3> QED BY <3>1, <3>2, <3>3 DEF PlannedOf, RowTyped
  <2> QED BY <2>1 DEF PlanTyped
<1>4. SystemTyped' BY <1>1 DEF SheetsInv, SheetsTyped, SystemTyped
<1>5. SheetsTyped'
  BY <1>1, <1>2, <1>3, <1>4 DEF SheetsInv, SheetsTyped, EditStages, Actionable
<1>6. StagesFine' BY <1>1, <1>2 DEF SheetsInv, StagesFine, PlannedOf
<1>7. CreatesFine' BY <1>1, <1>2 DEF CreatesFine, PlannedOf
<1>8. UndoFine' /\ Undisturbed' BY <1>1 DEF UndoFine, Undisturbed, PlannedOf
<1> QED BY <1>5, <1>6, <1>7, <1>8

\* A sheet is uploaded and its plan saved.
LEMMA PlanSheetKeeps ==
  ASSUME SheetsInv, PlanSheet
  PROVE  SheetsInv'
<1>1. PICK upload \in Uploads, create \in BOOLEAN : StagePlan(Build(upload, create), FALSE)
  BY DEF PlanSheet
<1>2. PICK plan : plan = Build(upload, create) OBVIOUS
<1>3. DOMAIN plan = 1 .. Len(upload) /\ Len(upload) \in Nat BY <1>2, ValuesAssumption DEF Build
<1>4. \A k \in DOMAIN plan : PlannedOf(plan[k])
  <2>1. SystemTyped BY DEF SheetsInv, SheetsTyped
  <2> QED BY <1>2, <2>1, BuiltFine DEF Build
<1>5. StagePlan(plan, FALSE) BY <1>1, <1>2
<1>6. SheetsTyped' /\ StagesFine' /\ CreatesFine' /\ UndoFine' /\ Undisturbed'
  BY <1>3, <1>4, <1>5, StageFine
<1>7. UniqueStaysUnique' BY <1>5 DEF StagePlan, UniqueStaysUnique
<1> QED BY <1>6, <1>7 DEF SheetsInv

\* From the screen: of two extensions that are to have one address, one has it
\* with another extension in it.
LEMMA PlanPicksKeeps ==
  ASSUME SheetsInv, PlanPicks
  PROVE  SheetsInv'
<1>1. PICK want \in Picks : StagePlan(Choose(want), TRUE) BY DEF PlanPicks
<1>2. PICK plan : plan = Choose(want) OBVIOUS
<1>3. StagePlan(plan, TRUE) /\ SystemTyped BY <1>1, <1>2 DEF SheetsInv, SheetsTyped
<1>4. PICK told : told = ToldApart(want) OBVIOUS
<1>5. /\ \E N \in Nat : DOMAIN plan = 1 .. N
      /\ \A k \in DOMAIN plan :
           /\ plan[k].ext \in Extensions /\ want[plan[k].ext] # Unasked
           /\ plan[k] = ChosenRow(plan[k].ext, told[plan[k].ext])
           /\ Short(told[plan[k].ext])
      /\ \A j, k \in DOMAIN plan : plan[j].ext = plan[k].ext => j = k
  BY <1>2, <1>3, <1>4, ChooseFine
<1>6. ASSUME NEW k \in DOMAIN plan
      PROVE  /\ PlannedOf(plan[k])
             /\ plan[k].kind = "change" =>
                  /\ ~Collides(plan[k].ext, told[plan[k].ext])
                  /\ told[plan[k].ext] # has[plan[k].ext]["email"]
                  /\ plan[k].sets["email"].after = told[plan[k].ext]
  BY <1>3, <1>5, ChosenFine
<1>7. SheetsTyped' /\ StagesFine' /\ CreatesFine' /\ UndoFine' /\ Undisturbed'
  BY <1>3, <1>5, <1>6, StageFine
<1>8. rows' = plan /\ there' = there /\ has' = has BY <1>3 DEF StagePlan
<1>9. ASSUME NEW k \in DOMAIN plan, NEW v \in StagedFor(k)'
      PROVE  /\ plan[k].kind = "change" /\ v = told[plan[k].ext] /\ v # Blank
             /\ v # has[plan[k].ext]["email"] /\ ~Collides(plan[k].ext, v)
  BY <1>6, <1>8, <1>9 DEF StagedFor
<1>10. ASSUME NEW k \in DOMAIN plan, NEW j \in DOMAIN plan \ {k}, NEW v,
              v \in StagedFor(k)', v \in StagedFor(j)', ~TypedTagged(k, v)', ~TypedTagged(j, v)'
       PROVE  FALSE
  <2>1. PICK n \in Extensions : n = plan[k].ext BY <1>5
  <2>2. PICK m \in Extensions : m = plan[j].ext BY <1>5
  <2>3. n # m BY <1>5, <2>1, <2>2
  <2>4. v = told[n] /\ v = told[m] /\ v # Blank /\ v # has[n]["email"] /\ v # has[m]["email"]
    BY <1>9, <1>10, <2>1, <2>2
  <2>5. ~(Len(v) > 1)
    <3>1. Len(v) > 1 => v[Len(v)] = n /\ v[Len(v)] = m BY <1>8, <1>10, <2>1, <2>2 DEF TypedTagged
    <3> QED BY <2>3, <3>1
  <2>6. there \subseteq Extensions BY <1>3 DEF SystemTyped
  <2>7. ASSUME NEW x \in Extensions, v = told[x], v # has[x]["email"], want[x] # Unasked
        PROVE  v = want[x] /\ ~AskedByOthers(want, v)
    <3>1. Given(want, x, v) BY <1>4, <2>6, <2>7, ToldFine
    <3>2. IsValue(want[x], 2) BY ValuesAssumption
    <3>3. Len(Tag(want[x], x)) \in 2 .. 3 BY <3>2, TagIsLonger
    <3>4. v # Tag(want[x], x)
      <4>1. PICK t : t = Tag(want[x], x) OBVIOUS
      <4>2. PICK l : l = Len(t) OBVIOUS
      <4>3. l \in 2 .. 3 BY <3>3, <4>1, <4>2
      <4>4. l > 1 BY <4>3
      <4>5. v # t BY <2>5, <4>2, <4>4
      <4> QED BY <4>1, <4>5
    <3>5. ~Holds(x, v) BY <2>7 DEF Holds
    <3> QED BY <2>4, <2>7, <3>1, <3>4, <3>5 DEF Given
  <2>8. want[n] = v /\ want[m] = v /\ ~AskedByOthers(want, v)
    BY <1>5, <2>1, <2>2, <2>4, <2>7
  <2>9. PICK A : A = {x \in Extensions : want[x] = v} OBVIOUS
  <2>10. IsFiniteSet(A)
    <3>1. TopNumber \in Nat BY NumbersAssumption
    <3>2. IsFiniteSet(Extensions) BY <3>1, FS_Interval DEF Extensions
    <3> QED BY <2>9, <3>2, FS_Subset
  <2>11. {n} \cup {m} \in SUBSET A BY <2>8, <2>9
  <2>12. Cardinality({n} \cup {m}) = 2
    <3>1. IsFiniteSet({n}) /\ Cardinality({n}) = 1 BY FS_Singleton
    <3>2. Cardinality({n} \cup {m}) = Cardinality({n}) + 1 BY <2>3, <3>1, FS_AddElement
    <3> QED BY <3>1, <3>2
  <2>13. Cardinality({n} \cup {m}) <= Cardinality(A) /\ Cardinality(A) \in Nat
    BY <2>10, <2>11, FS_Subset, FS_CardinalityType
  <2>14. Cardinality(A) >= 2 BY <2>12, <2>13
  <2> QED BY <2>8, <2>9, <2>14 DEF AskedByOthers, Asking
<1>11. StagedOnce' BY <1>8, <1>10 DEF StagedOnce
<1>12. \A k \in DOMAIN rows' : \A v \in StagedFor(k)' : ~Collides(rows[k].ext, v)'
  BY <1>8, <1>9 DEF Collides
<1>13. UniqueStaysUnique' BY <1>11, <1>12 DEF UniqueStaysUnique
<1> QED BY <1>7, <1>13 DEF SheetsInv

\* What the bound allows one more of.
LEMMA OneMoreAtMost ==
  ASSUME IsFiniteSet(console), Cardinality(console) < MaxMeddling, NEW e
  PROVE  IsFiniteSet(console \cup {e}) /\ Cardinality(console \cup {e}) <= MaxMeddling
<1>1. IsFiniteSet(console \cup {e}) BY FS_AddElement
<1>2. PICK c : c = Cardinality(console) OBVIOUS
<1>3. c \in Nat /\ MaxMeddling \in Nat /\ c < MaxMeddling
  BY <1>2, FS_CardinalityType, NumbersAssumption
<1>4. Cardinality(console \cup {e}) \in {c, c + 1} BY <1>2, FS_AddElement
<1>5. \A d \in {c, c + 1} : d <= MaxMeddling BY <1>3
<1> QED BY <1>1, <1>4, <1>5

\* One of the rows that are left is done, the first.
LEMMA LeftFine ==
  ASSUME SheetsInv, NEW k \in left
  PROVE  /\ k \in DOMAIN rows /\ k \in Actionable(rows) /\ k \in Nat /\ RowTyped(rows[k])
         /\ rows[k].kind \in {"change", "create", "remove"} /\ rows[k].ext \in Extensions
<1>1. k \in Actionable(rows) /\ PlanTyped(rows) BY DEF SheetsInv, SheetsTyped
<1>2. k \in DOMAIN rows /\ rows[k].kind \in {"change", "create", "remove"} BY <1>1 DEF Actionable
<1>3. PICK N \in Nat : DOMAIN rows = 1 .. N /\ \A j \in 1 .. N : RowTyped(rows[j])
  BY <1>1 DEF PlanTyped
<1>4. RowTyped(rows[k]) /\ k \in Nat BY <1>2, <1>3
<1> QED BY <1>1, <1>2, <1>4 DEF RowTyped

\* The first of them is one of them.
LEMMA FirstIsLeft ==
  ASSUME SheetsInv, left # {}
  PROVE  (CHOOSE j \in left : \A i \in left : j <= i) \in left
<1>1. left \subseteq Nat BY LeftFine
<1>2. IsFiniteSet(left)
  <2>1. PICK N \in Nat : DOMAIN rows = 1 .. N BY DEF SheetsInv, SheetsTyped, PlanTyped
  <2>2. IsFiniteSet(1 .. N) BY <2>1, FS_Interval
  <2>3. left \in SUBSET (1 .. N) BY <2>1, LeftFine
  <2> QED BY <2>2, <2>3, FS_Subset
<1>3. PICK f \in [left -> Nat] : \A n \in left : f[n] = n
  <2>1. [n \in left |-> n] \in [left -> Nat] BY <1>1
  <2> QED BY <2>1
<1>4. \E e \in left : \A d \in left : f[e] <= f[d]
  <2>1. \A d, e \in left : f[d] = f[e] => d = e BY <1>3
  <2> QED BY <1>2, <2>1, HasFirst
<1>5. \E e \in left : \A d \in left : e <= d BY <1>3, <1>4
<1> QED BY <1>5

\* What a row does, as relations between the old and the new system.
Changes(row) ==
  /\ row.kind = "change" /\ UNCHANGED <<there, ours, made>>
  /\ went' = IF edit = "applying" THEN went \cup {row.ext} ELSE went
  /\ DOMAIN has' = DOMAIN has /\ DOMAIN has'[row.ext] = Columns
  /\ \A n \in DOMAIN has \ {row.ext} : has'[n] = has[n]
  /\ \A f \in Columns : has'[row.ext][f] = IF f \in DOMAIN row.sets THEN row.sets[f].after
                                           ELSE has[row.ext][f]
Makes(row) ==
  /\ row.kind = "create" /\ row.ext \notin there /\ went' = went /\ made' = made \cup {row.ext}
  /\ there' = there \cup {row.ext} /\ ours' = ours \cup {row.ext}
  /\ DOMAIN has' = DOMAIN has /\ DOMAIN has'[row.ext] = Columns
  /\ \A n \in DOMAIN has \ {row.ext} : has'[n] = has[n]
  /\ \A f \in Columns : has'[row.ext][f] = Blank
Finds(row) ==
  /\ row.kind = "create" /\ row.ext \in there /\ made' = made \cup {row.ext}
  /\ UNCHANGED <<there, has, ours, went>>
Removes(row) ==
  /\ row.kind = "remove" /\ UNCHANGED <<has, went, made>>
  /\ there' = there \ {row.ext} /\ ours' = ours \ {row.ext}

\* What applying one row comes to: a change, something made, something that was
\* there already, something removed, or a refusal.
LEMMA OneApplied ==
  ASSUME SheetsInv, ApplyOne
  PROVE  /\ edit \in {"applying", "undoing"}
         /\ UNCHANGED <<edit, picked, rows, planned, origin, console>>
         /\ \E k \in left :
              /\ left' = left \ {k}
              /\ \/ UNCHANGED <<there, has, ours, went, made>>
                 \/ Changes(rows[k]) \/ Makes(rows[k]) \/ Finds(rows[k]) \/ Removes(rows[k])
<1>1. /\ edit \in {"applying", "undoing"} /\ left # {}
      /\ UNCHANGED <<edit, picked, rows, planned, origin, console>>
  BY DEF ApplyOne
<1>2. PICK k : k = CHOOSE j \in left : \A i \in left : j <= i OBVIOUS
<1>3. k \in left BY <1>1, <1>2, FirstIsLeft
<1>4. PICK row : row = rows[k] OBVIOUS
<1>5. /\ left' = left \ {k}
      /\ IF Refuses(row) THEN UNCHANGED <<there, has, ours, went, made>>
         ELSE /\ Does(row)
              /\ went' = IF row.kind = "change" /\ edit = "applying" THEN went \cup {row.ext} ELSE went
              /\ made' = IF row.kind = "create" THEN made \cup {row.ext} ELSE made
  BY <1>2, <1>4 DEF ApplyOne
<1>6. row.kind \in {"change", "create", "remove"} /\ row.ext \in DOMAIN has
  BY <1>3, <1>4, LeftFine DEF SheetsInv, SheetsTyped, SystemTyped
<1>7. CASE Refuses(row) BY <1>1, <1>3, <1>5, <1>7
<1>8. CASE ~Refuses(row) /\ row.kind = "change"
  <2>1. /\ has' = [has EXCEPT ![row.ext] = [f \in Columns |->
                    IF f \in DOMAIN row.sets THEN row.sets[f].after ELSE has[row.ext][f]]]
        /\ UNCHANGED <<there, ours>>
    BY <1>5, <1>8 DEF Does
  <2>2. PICK new : new = [f \in Columns |->
                            IF f \in DOMAIN row.sets THEN row.sets[f].after ELSE has[row.ext][f]]
    OBVIOUS
  <2>3. has' = [has EXCEPT ![row.ext] = new] BY <2>1, <2>2
  <2>4. DOMAIN has' = DOMAIN has /\ has'[row.ext] = new /\ \A n \in DOMAIN has \ {row.ext} : has'[n] = has[n]
    BY <1>6, <2>3
  <2>5. Changes(row) BY <1>5, <1>8, <2>1, <2>2, <2>4 DEF Changes
  <2> QED BY <1>1, <1>3, <1>4, <1>5, <2>5
<1>9. CASE row.kind = "create"
  <2>1. ~Refuses(row) BY <1>9 DEF Refuses
  <2>2. Does(row) /\ went' = went /\ made' = made \cup {row.ext} BY <1>5, <1>9, <2>1
  <2>3. CASE row.ext \in there
    <3>1. Finds(row) BY <1>9, <2>2, <2>3 DEF Does, Finds
    <3> QED BY <1>1, <1>3, <1>4, <1>5, <3>1
  <2>4. CASE row.ext \notin there
    <3>1. /\ there' = there \cup {row.ext} /\ ours' = ours \cup {row.ext}
          /\ has' = [has EXCEPT ![row.ext] = [f \in Columns |-> Blank]]
      BY <1>9, <2>2, <2>4 DEF Does
    <3>2. PICK new : new = [f \in Columns |-> Blank] OBVIOUS
    <3>3. has' = [has EXCEPT ![row.ext] = new] BY <3>1, <3>2
    <3>4. DOMAIN has' = DOMAIN has /\ has'[row.ext] = new /\ \A n \in DOMAIN has \ {row.ext} : has'[n] = has[n]
      BY <1>6, <3>3
    <3>5. Makes(row) BY <1>9, <2>2, <2>4, <3>1, <3>2, <3>4 DEF Makes
    <3> QED BY <1>1, <1>3, <1>4, <1>5, <3>5
  <2> QED BY <2>3, <2>4
<1>10. CASE row.kind = "remove"
  <2>1. ~Refuses(row) BY <1>10 DEF Refuses
  <2>2. Removes(row) BY <1>5, <1>10, <2>1 DEF Does, Removes
  <2> QED BY <1>1, <1>3, <1>4, <1>5, <2>2
<1> QED BY <1>6, <1>7, <1>8, <1>9, <1>10

\* The sheet that undoes: a row for each row of the one it undoes.
LEMMA UndoneFine ==
  ASSUME SheetsInv, NEW k \in DOMAIN planned
  PROVE  /\ RowTyped(UndoRows[k])
         /\ UndoRows[k].kind \in {"change", "create", "remove"} => UndoesOne(UndoRows[k])
         /\ PutBack(planned[k]) /\ planned[k].ext \in there =>
              UndoRows[k] = ChangeRow(planned[k].ext, Differences(planned[k].ext, UndoCells(planned[k])))
<1>1. PICK row : row = planned[k] OBVIOUS
<1>2. RowTyped(row) /\ made \subseteq Extensions /\ SystemTyped
  BY <1>1 DEF SheetsInv, SheetsTyped, PlanTyped
<1>3. \A m, kind : kind \in {"same", "problem"} =>
        /\ RowTyped(PlanRow(m, kind, << >>))
        /\ PlanRow(m, kind, << >>).kind \notin {"change", "create", "remove"}
  BY DEF PlanRow, RowTyped
<1>4. PICK u : u = UndoRows[k] OBVIOUS
<1>5. CASE PutBack(row)
  <2>1. row.kind = "change" /\ row.ext \in went BY <1>5 DEF PutBack
  <2>2. CASE row.ext \notin there
    <3>1. u = PlanRow(row.ext, "problem", << >>) BY <1>1, <1>4, <1>5, <2>2 DEF UndoRows
    <3> QED BY <1>1, <1>3, <1>4, <2>2, <3>1
  <2>3. CASE row.ext \in there
    <3>1. PICK sets : sets = Differences(row.ext, UndoCells(row)) OBVIOUS
    <3>2. u = ChangeRow(row.ext, sets)
      <4>1. PutBack(planned[k]) /\ planned[k].ext \in there BY <1>1, <1>5, <2>3
      <4>2. UndoRows[k] = ChangeRow(planned[k].ext, Differences(planned[k].ext, UndoCells(planned[k])))
        BY <4>1 DEF UndoRows, PutBack
      <4> QED BY <1>1, <1>4, <3>1, <4>2
    <3>3. u.ext = row.ext /\ u.sets = sets /\ u.kind \in {"same", "change"}
      BY <3>2 DEF ChangeRow, PlanRow
    <3>4. \A f \in Columns : Short(UndoCells(row)[f])
      BY <1>2, <2>1, BlankIsShort DEF UndoCells, RowTyped
    <3>5. PlannedOf(u) BY <1>2, <2>3, <3>1, <3>2, <3>4, DifferencesFine
    <3>6. row.ext \in Extensions BY <1>2, <2>1 DEF RowTyped
    <3>7. RowTyped(u) BY <3>3, <3>5, <3>6 DEF PlannedOf, RowTyped
    <3>8. DOMAIN sets \subseteq DOMAIN row.sets
      <4>1. DOMAIN sets \subseteq {f \in Columns : UndoCells(row)[f] # Blank}
        BY <3>1 DEF Differences, Filled
      <4>2. \A f \in Columns : UndoCells(row)[f] # Blank => f \in DOMAIN row.sets BY DEF UndoCells
      <4> QED BY <4>1, <4>2
    <3>9. UndoesOne(u) \/ u.kind = "same" BY <1>1, <2>1, <3>3, <3>8 DEF UndoesOne
    <3> QED BY <1>1, <1>4, <2>3, <3>1, <3>2, <3>3, <3>7, <3>9
  <2> QED BY <2>2, <2>3
<1>6. CASE ~PutBack(row) /\ row.kind = "create" /\ row.ext \in made /\ row.ext \in there
  <2>1. u = PlanRow(row.ext, "remove", << >>) BY <1>1, <1>4, <1>6 DEF UndoRows
  <2>2. RowTyped(u) /\ UndoesOne(u) BY <1>2, <1>6, <2>1 DEF PlanRow, RowTyped, UndoesOne
  <2> QED BY <1>1, <1>4, <1>6, <2>2
<1>7. CASE ~PutBack(row) /\ ~(row.kind = "create" /\ row.ext \in made /\ row.ext \in there)
  <2>1. u = PlanRow(row.ext, "same", << >>) BY <1>1, <1>4, <1>7 DEF UndoRows
  <2> QED BY <1>1, <1>3, <1>4, <1>7, <2>1
<1> QED BY <1>5, <1>6, <1>7

\* The plan is applied: what is there now is what the undo is measured against.
LEMMA ApplyKeeps ==
  ASSUME SheetsInv, Apply
  PROVE  SheetsInv'
<1>1. /\ edit \in {"planned", "undoPlanned"} /\ left' \in SUBSET Actionable(rows)
      /\ IF edit = "planned"
         THEN edit' = "applying" /\ planned' = rows /\ origin' = [there |-> there, has |-> has]
         ELSE edit' = "undoing" /\ UNCHANGED <<planned, origin>>
      /\ UNCHANGED <<there, has, picked, rows, went, made, ours, console>>
  BY DEF Apply
<1>2. SheetsTyped' BY <1>1 DEF SheetsInv, SheetsTyped, SystemTyped, PlanTyped, EditStages, Actionable
<1>3. UniqueStaysUnique' BY <1>1 DEF UniqueStaysUnique
<1>4. CASE edit = "planned"
  <2>1. StagesFine' BY <1>1, <1>4 DEF SheetsInv, StagesFine, SheetsTyped, SystemTyped
  <2>2. CreatesFine' BY <1>1, <1>4 DEF SheetsInv, CreatesFine, Touched
  <2>3. UndoFine' BY <1>1, <1>4 DEF UndoFine
  <2>4. ASSUME console = {} PROVE OriginKept'
    <3>1. made = {} /\ ours = {} BY <1>4 DEF SheetsInv, StagesFine
    <3>2. \A k \in DOMAIN rows : rows[k].kind = "change" =>
             /\ rows[k].ext \in there
             /\ \A f \in DOMAIN rows[k].sets : rows[k].sets[f].before = has[rows[k].ext][f]
      BY <1>4, <2>4 DEF SheetsInv, Undisturbed
    <3>3. \A k \in DOMAIN rows : rows[k].kind = "create" => rows[k].ext \notin there
      BY <1>4, <2>4, <3>1 DEF SheetsInv, CreatesFine, Touched
    <3>4. origin'.there = there /\ origin'.has = has BY <1>1, <1>4
    <3> QED BY <1>1, <1>4, <3>1, <3>2, <3>3, <3>4 DEF OriginKept
  <2>5. Undisturbed' BY <1>1, <1>4, <2>4 DEF Undisturbed
  <2> QED BY <1>2, <1>3, <2>1, <2>2, <2>3, <2>5 DEF SheetsInv
<1>5. CASE edit = "undoPlanned"
  <2>1. StagesFine' BY <1>1, <1>5 DEF SheetsInv, StagesFine
  <2>2. CreatesFine' BY <1>1, <1>5 DEF SheetsInv, CreatesFine, Touched
  <2>3. UndoFine' BY <1>1, <1>5 DEF SheetsInv, UndoFine, UndoesOne, Actionable
  <2>4. Undisturbed' BY <1>1, <1>5 DEF SheetsInv, Undisturbed, OriginKept
  <2> QED BY <1>2, <1>3, <2>1, <2>2, <2>3, <2>4 DEF SheetsInv
<1> QED BY <1>1, <1>4, <1>5

\* One row: what the sheet changes is in its rows, and so is what its undo does.
LEMMA ApplyOneKeeps ==
  ASSUME SheetsInv, ApplyOne
  PROVE  SheetsInv'
<1>1. /\ edit \in {"applying", "undoing"}
      /\ UNCHANGED <<edit, picked, rows, planned, origin, console>>
  BY OneApplied
<1>2. PICK k \in left :
        /\ left' = left \ {k}
        /\ \/ UNCHANGED <<there, has, ours, went, made>>
           \/ Changes(rows[k]) \/ Makes(rows[k]) \/ Finds(rows[k]) \/ Removes(rows[k])
  BY OneApplied
<1>3. PICK row : row = rows[k] OBVIOUS
<1>4. /\ k \in DOMAIN rows /\ k \in Actionable(rows) /\ RowTyped(row)
      /\ row.kind \in {"change", "create", "remove"} /\ row.ext \in Extensions
  BY <1>3, LeftFine
<1>5. SystemTyped /\ DOMAIN has = Extensions BY DEF SheetsInv, SheetsTyped, SystemTyped
<1>6. UniqueStaysUnique' BY <1>1 DEF UniqueStaysUnique
<1>7. StagesFine' BY <1>1 DEF SheetsInv, StagesFine
<1>8. row.kind = "create" => edit = "applying" /\ row \in {planned[j] : j \in DOMAIN planned}
  <2>1. edit = "undoing" => UndoesOne(row) BY <1>3, <1>4 DEF SheetsInv, UndoFine
  <2>2. edit = "applying" => rows = planned BY DEF SheetsInv, StagesFine
  <2> QED BY <1>1, <1>3, <1>4, <2>1, <2>2 DEF UndoesOne
<1>9. row.kind = "remove" => edit = "undoing" /\ row.ext \in made
  <2>1. edit = "undoing" => UndoesOne(row) BY <1>3, <1>4 DEF SheetsInv, UndoFine
  <2>2. edit = "applying" => row.kind # "remove" BY <1>3, <1>4 DEF SheetsInv, StagesFine
  <2> QED BY <1>1, <2>1, <2>2 DEF UndoesOne
<1>10. row.kind = "change" =>
         \E j \in DOMAIN planned : /\ planned[j].kind = "change" /\ planned[j].ext = row.ext
                                   /\ DOMAIN row.sets \subseteq DOMAIN planned[j].sets
  <2>1. edit = "undoing" => UndoesOne(row) BY <1>3, <1>4 DEF SheetsInv, UndoFine
  <2>2. edit = "applying" => rows = planned BY DEF SheetsInv, StagesFine
  <2> QED BY <1>1, <1>3, <1>4, <2>1, <2>2 DEF UndoesOne
<1> DEFINE kept == /\ SystemTyped' /\ CreatesFine'
                   /\ went' \subseteq Extensions /\ made' \subseteq Extensions /\ ours' \subseteq Extensions
                   /\ went \subseteq went' /\ made \subseteq made'
                   /\ (console = {} => OriginKept')
<1>11. ASSUME UNCHANGED <<there, has, ours, went, made>> PROVE kept
  <2>1. SystemTyped' BY <1>5, <1>11 DEF SystemTyped
  <2>2. CreatesFine' BY <1>1, <1>11 DEF SheetsInv, CreatesFine, Touched
  <2>3. console = {} => OriginKept' BY <1>1, <1>11 DEF SheetsInv, Undisturbed, OriginKept
  <2> QED BY <1>11, <2>1, <2>2, <2>3 DEF SheetsInv, SheetsTyped
<1>12. ASSUME Changes(row) PROVE kept
  <2>1. SystemTyped'
    <3>1. ASSUME NEW n \in Extensions, NEW f \in Columns PROVE Short(has'[n][f]) /\ DOMAIN has'[n] = Columns
      <4>1. CASE n # row.ext BY <1>5, <1>12, <4>1 DEF Changes, SystemTyped
      <4>2. CASE n = row.ext
        <5>1. Short(has[n][f]) BY <1>5 DEF SystemTyped
        <5>2. f \in DOMAIN row.sets => Short(row.sets[f].after) BY <1>4, <1>12 DEF RowTyped, Changes
        <5> QED BY <1>12, <4>2, <5>1, <5>2 DEF Changes
      <4> QED BY <4>1, <4>2
    <3>2. "name" \in Columns BY DEF Columns
    <3> QED BY <1>5, <1>12, <3>1, <3>2 DEF Changes, SystemTyped
  <2>2. CreatesFine' BY <1>1, <1>12 DEF SheetsInv, CreatesFine, Touched, Changes
  <2>3. ASSUME console = {} PROVE OriginKept'
    <3>1. OriginKept BY <1>1, <2>3 DEF SheetsInv, Undisturbed
    <3>2. ASSUME NEW n \in origin.there, NEW f \in Columns, has'[n][f] # origin.has[n][f]
          PROVE  \E j \in DOMAIN planned : /\ planned[j].kind = "change" /\ planned[j].ext = n
                                           /\ f \in DOMAIN planned[j].sets
      <4>1. n \in Extensions BY <1>5, <3>1 DEF OriginKept, SystemTyped
      <4>2. CASE has'[n][f] = has[n][f] BY <3>1, <3>2, <4>2 DEF OriginKept
      <4>3. CASE has'[n][f] # has[n][f]
        <5>1. n = row.ext /\ f \in DOMAIN row.sets BY <1>5, <1>12, <4>1, <4>3 DEF Changes
        <5> QED BY <1>10, <1>12, <5>1 DEF Changes
      <4> QED BY <4>2, <4>3
    <3> QED BY <1>1, <1>12, <3>1, <3>2 DEF OriginKept, Changes
  <2> QED BY <1>4, <1>12, <2>1, <2>2, <2>3 DEF SheetsInv, SheetsTyped, Changes
<1>13. ASSUME Makes(row) PROVE kept
  <2>1. SystemTyped'
    <3>1. ASSUME NEW n \in Extensions, NEW f \in Columns PROVE Short(has'[n][f]) /\ DOMAIN has'[n] = Columns
      BY <1>5, <1>13, BlankIsShort DEF Makes, SystemTyped
    <3>2. "name" \in Columns BY DEF Columns
    <3> QED BY <1>4, <1>5, <1>13, <3>1, <3>2 DEF Makes, SystemTyped
  <2>2. CreatesFine' BY <1>1, <1>13 DEF SheetsInv, CreatesFine, Touched, Makes
  <2>3. ASSUME console = {} PROVE OriginKept'
    <3>1. OriginKept BY <1>1, <2>3 DEF SheetsInv, Undisturbed
    <3>2. row.ext \notin origin.there BY <1>8, <1>13, <3>1 DEF OriginKept, Makes
    <3>3. \A n \in origin.there : has'[n] = has[n] BY <1>5, <1>13, <3>1, <3>2 DEF OriginKept, Makes, SystemTyped
    <3> QED BY <1>1, <1>13, <3>1, <3>2, <3>3 DEF OriginKept, Makes
  <2> QED BY <1>4, <1>13, <2>1, <2>2, <2>3 DEF SheetsInv, SheetsTyped, Makes
<1>14. ASSUME Finds(row) PROVE kept
  <2>1. SystemTyped' BY <1>5, <1>14 DEF SystemTyped, Finds
  <2>2. CreatesFine'
    <3>1. row.ext \in ours \/ Touched(row.ext) BY <1>3, <1>4, <1>8, <1>14 DEF SheetsInv, CreatesFine, Finds
    <3> QED BY <1>1, <1>14, <3>1 DEF SheetsInv, CreatesFine, Touched, Finds
  <2>3. ASSUME console = {} PROVE OriginKept'
    <3>1. OriginKept BY <1>1, <2>3 DEF SheetsInv, Undisturbed
    <3>2. row.ext \notin origin.there BY <1>8, <1>14, <3>1 DEF OriginKept, Finds
    <3> QED BY <1>1, <1>14, <3>1, <3>2 DEF OriginKept, Finds
  <2> QED BY <1>4, <1>14, <2>1, <2>2, <2>3 DEF SheetsInv, SheetsTyped, Finds
<1>15. ASSUME Removes(row) PROVE kept
  <2>1. SystemTyped' BY <1>5, <1>15 DEF SystemTyped, Removes
  <2>2. CreatesFine' BY <1>1, <1>9, <1>15 DEF SheetsInv, CreatesFine, Touched, Removes
  <2>3. ASSUME console = {} PROVE OriginKept'
    <3>1. OriginKept BY <1>1, <2>3 DEF SheetsInv, Undisturbed
    <3>2. row.ext \notin origin.there BY <1>9, <1>15, <3>1 DEF OriginKept, Removes
    <3> QED BY <1>1, <1>15, <3>1, <3>2 DEF OriginKept, Removes
  <2> QED BY <1>15, <2>1, <2>2, <2>3 DEF SheetsInv, SheetsTyped, Removes
<1>16. kept BY <1>2, <1>3, <1>11, <1>12, <1>13, <1>14, <1>15
<1>17. SheetsTyped' BY <1>1, <1>2, <1>16 DEF SheetsInv, SheetsTyped, PlanTyped, Actionable
<1>18. UndoFine' BY <1>1, <1>16 DEF SheetsInv, UndoFine, UndoesOne, Actionable
<1>19. Undisturbed' BY <1>1, <1>16 DEF Undisturbed
<1> QED BY <1>6, <1>7, <1>16, <1>17, <1>18, <1>19 DEF SheetsInv

\* A row fails, and counts as somebody else's doing.
LEMMA FailOneKeeps ==
  ASSUME SheetsInv, FailOne
  PROVE  SheetsInv'
<1>1. PICK k : k = CHOOSE j \in left : \A i \in left : j <= i OBVIOUS
<1>2. /\ edit \in {"applying", "undoing"} /\ Cardinality(console) < MaxMeddling
      /\ left' = left \ {k} /\ console' = console \cup {<<rows[k].ext, "failed">>}
      /\ UNCHANGED <<there, has, edit, picked, rows, went, made, planned, ours, origin>>
  BY <1>1 DEF FailOne
<1>3. IsFiniteSet(console') /\ Cardinality(console') <= MaxMeddling
  BY <1>2, OneMoreAtMost DEF SheetsInv, SheetsTyped
<1>4. SheetsTyped'
  BY <1>2, <1>3 DEF SheetsInv, SheetsTyped, SystemTyped, PlanTyped, Actionable
<1>5. StagesFine' BY <1>2 DEF SheetsInv, StagesFine
<1>6. CreatesFine' BY <1>2 DEF SheetsInv, CreatesFine, Touched
<1>7. UndoFine' BY <1>2 DEF SheetsInv, UndoFine, UndoesOne, Actionable
<1>8. Undisturbed' /\ UniqueStaysUnique' BY <1>2 DEF Undisturbed, UniqueStaysUnique
<1> QED BY <1>4, <1>5, <1>6, <1>7, <1>8 DEF SheetsInv

\* The last row is done.
LEMMA FinishKeeps ==
  ASSUME SheetsInv, Finish
  PROVE  SheetsInv'
<1>1. /\ edit \in {"applying", "undoing"} /\ left = {}
      /\ edit' = IF edit = "applying" THEN "applied" ELSE "undone"
      /\ UNCHANGED <<there, has, picked, rows, left, went, made, planned, ours, origin, console>>
  BY DEF Finish
<1>2. edit' \in {"applied", "undone"} BY <1>1
<1>3. SheetsTyped'
  BY <1>1, <1>2 DEF SheetsInv, SheetsTyped, SystemTyped, PlanTyped, EditStages, Actionable
<1>4. StagesFine' BY <1>1, <1>2 DEF SheetsInv, StagesFine
<1>5. CreatesFine' BY <1>1, <1>2 DEF SheetsInv, CreatesFine, Touched
<1>6. UndoFine' /\ UniqueStaysUnique' BY <1>2 DEF UndoFine, UniqueStaysUnique
<1>7. Undisturbed' BY <1>1, <1>2 DEF SheetsInv, Undisturbed, OriginKept
<1> QED BY <1>3, <1>4, <1>5, <1>6, <1>7 DEF SheetsInv

\* The undo is planned, or there is nothing to undo.
LEMMA RevertKeeps ==
  ASSUME SheetsInv, Revert
  PROVE  SheetsInv'
<1>1. /\ edit = "applied"
      /\ IF Actionable(UndoRows) = {} THEN edit' = "nothing" /\ UNCHANGED rows
         ELSE edit' = "undoPlanned" /\ rows' = UndoRows
      /\ UNCHANGED <<there, has, picked, left, went, made, planned, ours, origin, console>>
  BY DEF Revert
<1>2. left = {} BY <1>1 DEF SheetsInv, StagesFine
<1>3. PlanTyped(UndoRows)
  <2>1. PICK N \in Nat : DOMAIN planned = 1 .. N BY DEF SheetsInv, SheetsTyped, PlanTyped
  <2>2. DOMAIN UndoRows = 1 .. N BY <2>1 DEF UndoRows
  <2>3. \A k \in 1 .. N : RowTyped(UndoRows[k]) BY <2>1, UndoneFine
  <2> QED BY <2>2, <2>3 DEF PlanTyped
<1>4. SheetsTyped'
  <2>1. PlanTyped(rows)' BY <1>1, <1>3 DEF SheetsInv, SheetsTyped, PlanTyped
  <2> QED BY <1>1, <1>2, <2>1 DEF SheetsInv, SheetsTyped, SystemTyped, PlanTyped, EditStages
<1>5. StagesFine' BY <1>1 DEF SheetsInv, StagesFine
<1>6. CreatesFine' BY <1>1 DEF SheetsInv, CreatesFine, Touched
<1>7. UndoFine'
  <2>1. ASSUME edit' = "undoPlanned", NEW k \in Actionable(rows') PROVE UndoesOne(rows'[k])
    <3>1. rows' = UndoRows BY <1>1, <2>1
    <3>2. k \in DOMAIN planned /\ UndoRows[k].kind \in {"change", "create", "remove"}
      BY <2>1, <3>1 DEF Actionable, UndoRows
    <3> QED BY <3>1, <3>2, UndoneFine
  <2> QED BY <1>1, <2>1 DEF UndoFine, UndoesOne, Actionable
<1>8. Undisturbed'
  <2>1. UndoRows' = UndoRows
    <3>1. \A n, cells : Differences(n, cells)' = Differences(n, cells) BY <1>1 DEF Differences
    <3>2. \A row : PutBack(row)' = PutBack(row) BY <1>1 DEF PutBack
    <3> QED BY <1>1, <3>1, <3>2 DEF UndoRows
  <2>2. Actionable(UndoRows)' = Actionable(UndoRows') BY DEF Actionable
  <2>3. edit' = "nothing" => Actionable(UndoRows)' = {} BY <1>1, <2>1, <2>2
  <2> QED BY <1>1, <2>3 DEF SheetsInv, Undisturbed, OriginKept
<1>9. UniqueStaysUnique' BY <1>1 DEF UniqueStaysUnique
<1> QED BY <1>4, <1>5, <1>6, <1>7, <1>8, <1>9 DEF SheetsInv

\* At the console an address is never set.
LEMMA MeddleKeeps ==
  ASSUME SheetsInv, Meddle
  PROVE  SheetsInv'
<1>1. PICK n \in Extensions, f \in Columns :
        /\ console' = console \cup {<<n, f>>}
        /\ \/ n \in there /\ f = "name" /\ has' = [has EXCEPT ![n][f] = <<"console">>] /\ UNCHANGED there
           \/ n \in there /\ f = "email" /\ there' = there \ {n} /\ UNCHANGED has
           \/ n \notin there /\ there' = there \cup {n}
              /\ has' = [has EXCEPT ![n] = [g \in Columns |-> IF g = "name" THEN <<"console">> ELSE Blank]]
  BY DEF Meddle
<1>2. /\ edit # "free" /\ Cardinality(console) < MaxMeddling /\ ours' = ours \cap there'
      /\ UNCHANGED <<edit, picked, rows, left, went, made, planned, origin>>
  BY DEF Meddle
<1>3. SystemTyped /\ DOMAIN has = Extensions /\ DOMAIN has[n] = Columns
  BY DEF SheetsInv, SheetsTyped, SystemTyped
<1>4. PICK said : said = <<"console">> OBVIOUS
<1>5. Short(said) /\ said # Unasked BY <1>4 DEF Short, Unasked
<1>6. DOMAIN has' = Extensions /\ \A m \in Extensions : DOMAIN has'[m] = Columns
  BY <1>1, <1>3 DEF SystemTyped
<1>7. ASSUME NEW m \in Extensions, NEW g \in Columns
      PROVE  \/ has'[m][g] = has[m][g]
             \/ m \in there' /\ g = "name" /\ has'[m][g] = said
             \/ m = n /\ m \notin there /\ g # "name" /\ has'[m][g] = Blank
  BY <1>1, <1>3, <1>4 DEF SystemTyped
<1>8. \A m \in Extensions, g \in Columns : Short(has'[m][g])
  BY <1>3, <1>5, <1>7, BlankIsShort DEF SystemTyped
<1>9. there' \subseteq there \cup {n} /\ there' \subseteq Extensions BY <1>1, <1>3 DEF SystemTyped
<1>10. IsFiniteSet(console') /\ Cardinality(console') <= MaxMeddling
  BY <1>1, <1>2, OneMoreAtMost DEF SheetsInv, SheetsTyped
<1>11. SheetsTyped'
  <2>1. SystemTyped' BY <1>6, <1>8, <1>9 DEF SystemTyped
  <2> QED BY <1>2, <1>10, <2>1 DEF SheetsInv, SheetsTyped, PlanTyped, Actionable
<1>12. StagesFine'
  <2>1. edit \in {"free", "planned"} => \A m \in Extensions, g \in Columns : has'[m][g] # Unasked
    <3>1. Blank # Unasked BY DEF Blank, Unasked
    <3> QED BY <1>5, <1>7, <3>1 DEF SheetsInv, StagesFine
  <2> QED BY <1>2, <2>1 DEF SheetsInv, StagesFine
<1>13. CreatesFine'
  <2>1. ASSUME NEW m, m \in there => m \in ours \/ Touched(m), m \in there'
        PROVE  m \in ours' \/ \E g \in Columns : <<m, g>> \in console'
    <3>1. m \in there \/ m = n BY <1>9, <2>1
    <3>2. m \in ours => m \in ours' BY <1>2, <2>1
    <3>3. Touched(m) => \E g \in Columns : <<m, g>> \in console' BY <1>1 DEF Touched
    <3>4. \E g \in Columns : <<n, g>> \in console' BY <1>1
    <3> QED BY <2>1, <3>1, <3>2, <3>3, <3>4
  <2>2. edit \in {"planned", "applying"} =>
          \A k \in DOMAIN rows : rows[k].kind = "create" =>
            (rows[k].ext \in there => rows[k].ext \in ours \/ Touched(rows[k].ext))
    BY DEF SheetsInv, CreatesFine
  <2>3. \A m \in made : m \in there => m \in ours \/ Touched(m) BY DEF SheetsInv, CreatesFine
  <2>4. edit \in {"planned", "applying"} =>
          \A k \in DOMAIN rows : rows[k].kind = "create" =>
            (rows[k].ext \in there' =>
               rows[k].ext \in ours' \/ \E g \in Columns : <<rows[k].ext, g>> \in console')
    BY <2>1, <2>2
  <2>5. \A m \in made : m \in there' => m \in ours' \/ \E g \in Columns : <<m, g>> \in console'
    BY <2>1, <2>3
  <2> QED BY <1>2, <2>4, <2>5 DEF CreatesFine, Touched
<1>14. UndoFine' BY <1>2 DEF SheetsInv, UndoFine, UndoesOne, Actionable
<1>15. Undisturbed' BY <1>1 DEF Undisturbed
<1>16. UniqueStaysUnique'
  <2>1. SUFFICES ASSUME edit = "planned", picked PROVE UniqueStaysUnique'
    BY <1>2 DEF UniqueStaysUnique
  <2>2. StagedOnce /\ \A k \in DOMAIN rows : \A v \in StagedFor(k) : ~Collides(rows[k].ext, v)
    BY <2>1 DEF SheetsInv, UniqueStaysUnique
  <2>3. \A k : StagedFor(k)' = StagedFor(k) BY <1>2 DEF StagedFor
  <2>4. StagedOnce' BY <1>2, <2>2, <2>3 DEF StagedOnce, TypedTagged
  <2>5. ASSUME NEW m, NEW v, Collides(m, v)' PROVE Collides(m, v)
    <3>1. PICK x \in there' \ {m} : has'[x]["email"] = v /\ v # Blank BY <2>5 DEF Collides
    <3>2. x \in Extensions /\ "email" \in Columns /\ "email" # "name" BY <1>9 DEF Columns
    <3>3. has'[x]["email"] = has[x]["email"] \/ has'[x]["email"] = Blank BY <1>7, <3>2
    <3>4. x \in there
      <4>1. ASSUME x \notin there PROVE FALSE
        <5>1. x = n /\ n \notin there BY <1>9, <4>1
        <5>2. has'[n] = [g \in Columns |-> IF g = "name" THEN <<"console">> ELSE Blank]
          BY <1>1, <1>3, <5>1
        <5>3. has'[n]["email"] = Blank BY <3>2, <5>2
        <5> QED BY <3>1, <5>1, <5>3
      <4> QED BY <4>1
    <3> QED BY <3>1, <3>3, <3>4 DEF Collides
  <2>6. \A k \in DOMAIN rows : \A v \in StagedFor(k)' : ~Collides(rows[k].ext, v)'
    <3>1. ASSUME NEW k \in DOMAIN rows, NEW v \in StagedFor(k)' PROVE ~Collides(rows[k].ext, v)'
      <4>1. PICK m : m = rows[k].ext OBVIOUS
      <4>2. ~Collides(m, v)' BY <2>2, <2>3, <2>5, <3>1, <4>1
      <4> QED BY <1>2, <4>1, <4>2 DEF Collides
    <3> QED BY <3>1
  <2> QED BY <1>2, <2>4, <2>6 DEF UniqueStaysUnique, Collides
<1> QED BY <1>11, <1>12, <1>13, <1>14, <1>15, <1>16 DEF SheetsInv

\* Every step keeps the invariant.
LEMMA StepKeeps == SheetsInv /\ [SheetsNext]_sheetVars => SheetsInv'
<1> SUFFICES ASSUME SheetsInv, [SheetsNext]_sheetVars PROVE SheetsInv'
  OBVIOUS
<1>1. CASE PlanSheet BY <1>1, PlanSheetKeeps
<1>2. CASE PlanPicks BY <1>2, PlanPicksKeeps
<1>3. CASE Apply BY <1>3, ApplyKeeps
<1>4. CASE ApplyOne BY <1>4, ApplyOneKeeps
<1>5. CASE FailOne BY <1>5, FailOneKeeps
<1>6. CASE Finish BY <1>6, FinishKeeps
<1>7. CASE Revert BY <1>7, RevertKeeps
<1>8. CASE Meddle BY <1>8, MeddleKeeps
<1>9. CASE UNCHANGED sheetVars
  <2>1. SheetsTyped' BY <1>9 DEF sheetVars, SheetsInv, SheetsTyped, SystemTyped, PlanTyped, Actionable
  <2>2. StagesFine' BY <1>9 DEF sheetVars, SheetsInv, StagesFine
  <2>3. CreatesFine' BY <1>9 DEF sheetVars, SheetsInv, CreatesFine, Touched
  <2>4. UndoFine' BY <1>9 DEF sheetVars, SheetsInv, UndoFine, UndoesOne, Actionable
  <2>5. Undisturbed'
    <3>1. UndoRows' = UndoRows
      <4>1. \A n, cells : Differences(n, cells)' = Differences(n, cells) BY <1>9 DEF sheetVars, Differences
      <4>2. \A row : PutBack(row)' = PutBack(row) BY <1>9 DEF sheetVars, PutBack
      <4> QED BY <1>9, <4>1, <4>2 DEF sheetVars, UndoRows
    <3>2. Actionable(UndoRows)' = Actionable(UndoRows) BY <3>1 DEF Actionable
    <3> QED BY <1>9, <3>2 DEF sheetVars, SheetsInv, Undisturbed, OriginKept
  <2>6. UniqueStaysUnique'
    BY <1>9 DEF sheetVars, SheetsInv, UniqueStaysUnique, StagedOnce, StagedFor, TypedTagged, Collides
  <2> QED BY <2>1, <2>2, <2>3, <2>4, <2>5, <2>6 DEF SheetsInv
<1> QED BY <1>1, <1>2, <1>3, <1>4, <1>5, <1>6, <1>7, <1>8, <1>9 DEF SheetsNext

\* Every row of the undo that was to put a value back puts it back.
LEMMA InvIsTheirWord == SheetsInv => SheetsKeepTheirWord
<1> SUFFICES ASSUME SheetsInv PROVE SheetsKeepTheirWord
  OBVIOUS
<1>1. SheetsTypeOK
  <2>1. /\ there \subseteq Extensions /\ edit \in EditStages /\ picked \in BOOLEAN
        /\ went \subseteq Extensions /\ made \subseteq Extensions /\ ours \subseteq Extensions
        /\ \A n \in Extensions, f \in Columns : Len(has[n][f]) \in 1 .. 3
    BY DEF SheetsInv, SheetsTyped, SystemTyped, Short
  <2>2. left \subseteq DOMAIN rows BY LeftFine
  <2>3. \A k \in DOMAIN rows : rows[k].kind \in {"change", "create", "remove", "same", "problem"}
    BY DEF SheetsInv, SheetsTyped, PlanTyped, RowTyped
  <2>4. Cardinality(console) <= MaxMeddling * 2
    <3>1. PICK c : c = Cardinality(console) OBVIOUS
    <3>2. c \in Nat /\ MaxMeddling \in Nat /\ c <= MaxMeddling
      BY <3>1, FS_CardinalityType, NumbersAssumption DEF SheetsInv, SheetsTyped
    <3>3. c <= MaxMeddling * 2 BY <3>2
    <3> QED BY <3>1, <3>3
  <2> QED BY <2>1, <2>2, <2>3, <2>4 DEF SheetsTypeOK
<1>2. UndoPutsBack
  <2>1. SUFFICES ASSUME edit \in {"undone", "nothing"}, console = {}, AllWent(planned),
                        edit = "undone" => Actionable(UndoRows) = {},
                        NEW n \in origin.there
                 PROVE  n \in there /\ \A f \in Columns :
                          has[n][f] = origin.has[n][f] \/ origin.has[n][f] = Blank
    BY DEF UndoPutsBack, PutBackUndisturbed
  <2>2. OriginKept BY <2>1 DEF SheetsInv, Undisturbed
  <2>3. n \in there /\ Actionable(UndoRows) = {} BY <2>1, <2>2 DEF OriginKept
  <2>4. ASSUME NEW f \in Columns, has[n][f] # origin.has[n][f] PROVE origin.has[n][f] = Blank
    <3>1. PICK j \in DOMAIN planned : /\ planned[j].kind = "change" /\ planned[j].ext = n
                                      /\ f \in DOMAIN planned[j].sets
      BY <2>2, <2>4 DEF OriginKept
    <3>2. PICK row : row = planned[j] OBVIOUS
    <3>3. row.kind = "change" /\ row.ext = n /\ f \in DOMAIN row.sets BY <3>1, <3>2
    <3>4. row.sets[f].before = origin.has[n][f] BY <2>2, <3>1, <3>2 DEF OriginKept
    <3>5. n \in went BY <2>1, <3>1 DEF AllWent, Actionable
    <3>6. PICK sets : sets = Differences(n, UndoCells(row)) OBVIOUS
    <3>7. UndoRows[j] = ChangeRow(n, sets)
      BY <2>3, <3>2, <3>3, <3>5, <3>6, UndoneFine DEF PutBack
    <3>8. DOMAIN sets = {}
      <4>1. j \in DOMAIN UndoRows /\ j \notin Actionable(UndoRows) BY <2>3 DEF UndoRows
      <4>2. UndoRows[j].kind # "change" BY <4>1 DEF Actionable
      <4> QED BY <3>7, <4>2 DEF ChangeRow, PlanRow
    <3>9. UndoCells(row)[f] = origin.has[n][f] BY <3>3, <3>4 DEF UndoCells
    <3>10. origin.has[n][f] # Unasked
      <4>1. n \in Extensions BY <2>3 DEF SheetsInv, SheetsTyped, SystemTyped
      <4> QED BY <2>1, <4>1 DEF SheetsInv, StagesFine
    <3>11. f \notin {g \in Columns : /\ UndoCells(row)[g] # Unasked /\ Filled(UndoCells(row)[g])
                                     /\ UndoCells(row)[g] # has[n][g]}
      BY <3>6, <3>8 DEF Differences
    <3> QED BY <2>4, <3>9, <3>10, <3>11 DEF Filled
  <2> QED BY <2>3, <2>4
<1> QED BY <1>1, <1>2 DEF SheetsKeepTheirWord, SheetsInv

\* An edit and its undo put back what was there, values that were empty excepted,
\* and a batch set on the screen stages no address twice, nor one that is taken.
THEOREM UndoTruly == SheetsSpec => []SheetsKeepTheirWord
<1> QED BY SheetsStart, StepKeeps, InvIsTheirWord, PTL DEF SheetsSpec

\* The undo touches what the sheet changed and made, and nothing else.
THEOREM UndoIsNarrow == SheetsSpec => UndoTouchesOnlyTheSheet
<1> DEFINE Narrow ==
      edit = "undoing" /\ ~Meddle =>
        \A n \in there :
          /\ \A f \in Columns : has'[n][f] # has[n][f] =>
               n \in went /\ \E k \in DOMAIN planned : planned[k].ext = n /\ f \in DOMAIN planned[k].sets
          /\ n \notin there' => n \in ours \/ <<n, "name">> \in console \/ <<n, "email">> \in console
<1>1. ASSUME SheetsInv, [SheetsNext]_sheetVars PROVE [Narrow]_sheetVars
  <2>1. SUFFICES ASSUME edit = "undoing", ~Meddle, NEW n \in there, SheetsNext
                 PROVE  /\ \A f \in Columns : has'[n][f] # has[n][f] =>
                             n \in went /\ \E k \in DOMAIN planned :
                                             planned[k].ext = n /\ f \in DOMAIN planned[k].sets
                        /\ n \notin there' => n \in ours \/ <<n, "name">> \in console
                                                         \/ <<n, "email">> \in console
    BY <1>1
  <2>2. n \in Extensions /\ DOMAIN has = Extensions BY <1>1 DEF SheetsInv, SheetsTyped, SystemTyped
  <2>3. CASE UNCHANGED <<there, has>> BY <2>3
  <2>4. CASE ApplyOne
    <3>1. PICK k \in left :
            \/ UNCHANGED <<there, has, ours, went, made>>
            \/ Changes(rows[k]) \/ Makes(rows[k]) \/ Finds(rows[k]) \/ Removes(rows[k])
      BY <1>1, <2>4, OneApplied
    <3>2. PICK row : row = rows[k] OBVIOUS
    <3>3. UndoesOne(row) BY <1>1, <2>1, <3>2, LeftFine DEF SheetsInv, UndoFine
    <3>4. CASE UNCHANGED <<there, has, ours, went, made>> BY <3>4
    <3>5. CASE Changes(row)
      <4>1. row.ext \in went /\ \E j \in DOMAIN planned :
              planned[j].ext = row.ext /\ DOMAIN row.sets \subseteq DOMAIN planned[j].sets
        BY <3>3, <3>5 DEF Changes, UndoesOne
      <4>2. n # row.ext => has'[n] = has[n] BY <2>2, <3>5 DEF Changes
      <4>3. \A f \in Columns : f \notin DOMAIN row.sets => has'[row.ext][f] = has[row.ext][f]
        BY <3>5 DEF Changes
      <4> QED BY <3>5, <4>1, <4>2, <4>3 DEF Changes
    <3>6. CASE Makes(row) \/ Finds(row) BY <3>3, <3>6 DEF Makes, Finds, UndoesOne
    <3>7. CASE Removes(row)
      <4>1. row.ext \in made BY <3>3, <3>7 DEF Removes, UndoesOne
      <4>2. n \notin there' => n = row.ext BY <3>7 DEF Removes
      <4>3. n \in made => n \in ours \/ Touched(n) BY <1>1 DEF SheetsInv, CreatesFine
      <4>4. Touched(n) => <<n, "name">> \in console \/ <<n, "email">> \in console
        BY DEF Touched, Columns
      <4> QED BY <3>7, <4>1, <4>2, <4>3, <4>4 DEF Removes
    <3> QED BY <3>1, <3>2, <3>4, <3>5, <3>6, <3>7
  <2> QED BY <2>1, <2>3, <2>4
          DEF SheetsNext, PlanSheet, PlanPicks, StagePlan, Apply, FailOne, Finish, Revert
<1>2. SheetsInv /\ [SheetsNext]_sheetVars => [Narrow]_sheetVars BY <1>1
<1>3. SheetsSpec => [][Narrow]_sheetVars BY SheetsStart, StepKeeps, <1>2, PTL DEF SheetsSpec
<1> QED BY <1>3 DEF UndoTouchesOnlyTheSheet

-----------------------------------------------------------------------------
(***************************************************************************)
(* NumberSheets: files of numbers.                                         *)
(***************************************************************************)

\* A recursion over the numbers up to N, and that it has a value.
Follows(N, V, v, step, f) ==
  f \in [0 .. N -> V] /\ f[0] = v /\ \A i \in 1 .. N : f[i] = step[<<i, f[i - 1]>>]
LEMMA StepByStep ==
  ASSUME NEW N \in Nat, NEW V, NEW v \in V, NEW step \in [(1 .. N) \X V -> V]
  PROVE  \E f : Follows(N, V, v, step, f)
<1> DEFINE Fits(f, n) == f \in [0 .. n -> V] /\ f[0] = v /\ \A i \in 1 .. n : f[i] = step[<<i, f[i - 1]>>]
           S == {n \in 0 .. N : \E f : Fits(f, n)}
<1>1. 0 \in S
  <2>1. PICK f : f = [i \in 0 .. 0 |-> v] OBVIOUS
  <2>2. Fits(f, 0) BY <2>1
  <2> HIDE DEF Fits
  <2> QED BY <2>2
<1>2. ASSUME NEW n \in 0 .. N - 1, n \in S PROVE n + 1 \in S
  <2>1. PICK f : Fits(f, n) BY <1>2
  <2>2. PICK w : w = step[<<n + 1, f[n]>>] OBVIOUS
  <2>3. w \in V
    <3>1. n + 1 \in 1 .. N /\ f[n] \in V BY <2>1
    <3> QED BY <2>2, <3>1
  <2>4. PICK g : g = [i \in 0 .. n + 1 |-> IF i = n + 1 THEN w ELSE f[i]] OBVIOUS
  <2>5. \A i \in 0 .. n : g[i] = f[i] BY <2>4
  <2>6. g[n + 1] = w BY <2>4
  <2>7. g \in [0 .. n + 1 -> V]
    <3>1. \A i \in 0 .. n + 1 : i = n + 1 \/ i \in 0 .. n OBVIOUS
    <3>2. \A i \in 0 .. n : f[i] \in V BY <2>1
    <3> QED BY <2>3, <2>4, <3>1, <3>2
  <2>8. \A i \in 1 .. n + 1 : g[i] = step[<<i, g[i - 1]>>]
    <3>1. \A i \in 1 .. n + 1 : i = n + 1 \/ i \in 1 .. n OBVIOUS
    <3>2. \A i \in 1 .. n : g[i] = step[<<i, g[i - 1]>>]
      <4>1. ASSUME NEW i \in 1 .. n PROVE g[i] = step[<<i, g[i - 1]>>]
        <5>1. i \in 0 .. n /\ i - 1 \in 0 .. n OBVIOUS
        <5> QED BY <2>1, <2>5, <5>1
      <4> QED BY <4>1
    <3>3. g[n + 1] = step[<<n + 1, g[(n + 1) - 1]>>]
      <4>1. (n + 1) - 1 = n /\ n \in 0 .. n OBVIOUS
      <4> QED BY <2>2, <2>5, <2>6, <4>1
    <3> QED BY <3>1, <3>2, <3>3
  <2>9. g[0] = v BY <2>1, <2>5
  <2>10. Fits(g, n + 1) BY <2>7, <2>8, <2>9
  <2>11. n + 1 \in 0 .. N OBVIOUS
  <2> HIDE DEF Fits
  <2> QED BY <2>10, <2>11
<1>3. N \in S
  <2>1. 0 .. N \subseteq S
    <3> HIDE DEF S
    <3> QED BY <1>1, <1>2, UpTo
  <2> QED BY <2>1
<1> QED BY <1>3 DEF Follows

\* A power of the base is positive.
LEMMA PowerFine ==
  ASSUME NEW n \in Nat
  PROVE  Power(n) \in Nat \ {0}
<1> DEFINE Body(P) == [i \in 0 .. n |-> IF i = 0 THEN 1 ELSE Base * P[i - 1]]
           V == Nat \ {0}
<1>1. \E P : P = Body(P)
  <2>1. PICK step : step = [x \in (1 .. n) \X V |-> Base * x[2]] OBVIOUS
  <2>2. ASSUME NEW i \in 1 .. n, NEW w \in V PROVE step[<<i, w>>] = Base * w /\ Base * w \in V
    <3>1. Base * w \in V BY NumberSheetsAssumption
    <3> QED BY <2>1, <3>1
  <2>3. PICK f \in [0 .. n -> V] : f[0] = 1 /\ \A i \in 1 .. n : f[i] = step[<<i, f[i - 1]>>]
    <3>1. PICK W, one : W = V /\ one = 1 OBVIOUS
    <3>2. one \in W BY <3>1
    <3>3. step \in [(1 .. n) \X W -> W]
      <4>1. step \in [(1 .. n) \X V -> V]
        <5>1. \A x \in (1 .. n) \X V : Base * x[2] \in V BY NumberSheetsAssumption
        <5> HIDE DEF V
        <5> QED BY <2>1, <5>1
      <4> QED BY <3>1, <4>1
    <3>4. \E f : Follows(n, W, one, step, f)
      <4> HIDE DEF V
      <4> QED BY <3>2, <3>3, StepByStep
    <3> QED BY <3>1, <3>4 DEF Follows
  <2>4. ASSUME NEW i \in 0 .. n PROVE f[i] = IF i = 0 THEN 1 ELSE Base * f[i - 1]
    <3>1. i # 0 => i \in 1 .. n /\ i - 1 \in 0 .. n OBVIOUS
    <3> QED BY <2>2, <2>3, <3>1
  <2>5. f = [i \in 0 .. n |-> f[i]] BY <2>3
  <2>6. f = Body(f) BY <2>4, <2>5
  <2> QED BY <2>6
<1>2. PICK P : P = CHOOSE Q : Q = Body(Q) OBVIOUS
<1>3. P = Body(P) BY <1>1, <1>2
<1>4. Power(n) = P[n] BY <1>2 DEF Power
<1>5. 0 .. n \subseteq {m \in 0 .. n : P[m] \in V}
  <2>1. 0 \in {m \in 0 .. n : P[m] \in V} BY <1>3
  <2>2. ASSUME NEW m \in 0 .. n - 1, P[m] \in V PROVE P[m + 1] \in V
    <3>1. m + 1 \in 0 .. n /\ m + 1 # 0 /\ (m + 1) - 1 = m OBVIOUS
    <3>2. P[m + 1] = Base * P[m] BY <1>3, <3>1
    <3>3. Base * P[m] \in V BY <2>2, NumberSheetsAssumption
    <3> QED BY <3>2, <3>3
  <2>3. PICK S : S = {m \in 0 .. n : P[m] \in V} OBVIOUS
  <2>4. 0 \in S /\ \A m \in 0 .. n - 1 : m \in S => m + 1 \in S BY <2>1, <2>2, <2>3
  <2>5. 0 .. n \subseteq S BY <2>4, UpTo
  <2> QED BY <2>3, <2>5
<1>6. P[n] \in V BY <1>5
<1> QED BY <1>4, <1>6

\* What is kept of the first m members of s, and where each of it was.
Places(s, keep, m, r, at) ==
  /\ at \in [1 .. Len(r) -> keep \cap (1 .. m)]
  /\ \A j \in 1 .. Len(r) : r[j] = s[at[j]]
  /\ \A j, k \in 1 .. Len(r) : at[j] = at[k] => j = k
  /\ \A i \in keep \cap (1 .. m) : \E j \in 1 .. Len(r) : at[j] = i
  /\ 1 .. m \subseteq keep => Len(r) = m /\ \A j \in 1 .. m : at[j] = j
Sifted(s, keep, m, r) ==
  /\ Len(r) \in Nat /\ r \in Seq({s[i] : i \in 1 .. Len(s)})
  /\ \E at : Places(s, keep, m, r, at)

LEMMA SiftOne ==
  ASSUME NEW s, Len(s) \in Nat, NEW keep, NEW m \in 0 .. Len(s) - 1, NEW r, Sifted(s, keep, m, r)
  PROVE  Sifted(s, keep, m + 1, IF m + 1 \in keep THEN Append(r, s[m + 1]) ELSE r)
<1> DEFINE V == {s[i] : i \in 1 .. Len(s)}
<1>1. Len(r) \in Nat /\ r \in Seq(V) BY DEF Sifted
<1>a. PICK at : Places(s, keep, m, r, at) BY DEF Sifted
<1>2. /\ at \in [1 .. Len(r) -> keep \cap (1 .. m)]
      /\ \A j \in 1 .. Len(r) : r[j] = s[at[j]]
      /\ \A j, k \in 1 .. Len(r) : at[j] = at[k] => j = k
      /\ \A i \in keep \cap (1 .. m) : \E j \in 1 .. Len(r) : at[j] = i
      /\ 1 .. m \subseteq keep => Len(r) = m /\ \A j \in 1 .. m : at[j] = j
  BY <1>a DEF Places
<1>3. m + 1 \in 1 .. m + 1 /\ m + 1 \notin 1 .. m /\ \A i : i \in 1 .. m + 1 <=> i \in 1 .. m \/ i = m + 1
  OBVIOUS
<1>4. CASE m + 1 \notin keep
  <2>1. at \in [1 .. Len(r) -> keep \cap (1 .. m + 1)] BY <1>2, <1>3
  <2>2. keep \cap (1 .. m + 1) = keep \cap (1 .. m) BY <1>3, <1>4
  <2>3. ~(1 .. m + 1 \subseteq keep) BY <1>3, <1>4
  <2>4. Places(s, keep, m + 1, r, at) BY <1>2, <2>1, <2>2, <2>3 DEF Places
  <2> QED BY <1>1, <1>4, <2>4 DEF Sifted
<1>5. CASE m + 1 \in keep
  <2>1. PICK q : q = Append(r, s[m + 1]) OBVIOUS
  <2>2. PICK l \in Nat : l = Len(r) BY <1>1
  <2>3. q \in Seq(V) /\ Len(q) = l + 1 /\ (\A i \in 1 .. l : q[i] = r[i]) /\ q[l + 1] = s[m + 1]
    <3>1. m + 1 \in 1 .. Len(s) OBVIOUS
    <3>2. s[m + 1] \in V BY <3>1
    <3> HIDE DEF V
    <3> QED BY <1>1, <2>1, <2>2, <3>2, AppendProperties
  <2>4. PICK to : to = [j \in 1 .. l + 1 |-> IF j = l + 1 THEN m + 1 ELSE at[j]] OBVIOUS
  <2>5. \A j \in 1 .. l + 1 : j = l + 1 \/ j \in 1 .. l OBVIOUS
  <2>6. l + 1 \notin 1 .. l /\ l + 1 \in 1 .. l + 1 /\ \A j \in 1 .. l : j \in 1 .. l + 1 OBVIOUS
  <2>7. to[l + 1] = m + 1 /\ \A j \in 1 .. l : to[j] = at[j] BY <2>4, <2>6
  <2>8. \A j \in 1 .. l : at[j] \in keep \cap (1 .. m) BY <1>2, <2>2
  <2>9. to \in [1 .. l + 1 -> keep \cap (1 .. m + 1)]
    <3>1. \A j \in 1 .. l + 1 : to[j] \in keep \cap (1 .. m + 1) BY <1>3, <1>5, <2>5, <2>7, <2>8
    <3> QED BY <2>4, <3>1
  <2>10. \A j \in 1 .. l + 1 : q[j] = s[to[j]] BY <1>2, <2>2, <2>3, <2>5, <2>7
  <2>11. \A j, k \in 1 .. l + 1 : to[j] = to[k] => j = k
    <3>1. \A j \in 1 .. l : to[j] # m + 1 BY <1>3, <2>7, <2>8
    <3> QED BY <1>2, <2>2, <2>5, <2>7, <3>1, SMTT(30)
  <2>12. \A i \in keep \cap (1 .. m + 1) : \E j \in 1 .. l + 1 : to[j] = i
    BY <1>2, <1>3, <2>2, <2>6, <2>7
  <2>13. 1 .. m + 1 \subseteq keep => l + 1 = m + 1 /\ \A j \in 1 .. m + 1 : to[j] = j
    <3>1. ASSUME 1 .. m + 1 \subseteq keep PROVE l = m /\ \A j \in 1 .. m : at[j] = j
      BY <1>2, <1>3, <2>2, <3>1
    <3> QED BY <1>3, <2>5, <2>7, <3>1
  <2>14. Places(s, keep, m + 1, q, to) BY <2>3, <2>9, <2>10, <2>11, <2>12, <2>13 DEF Places
  <2>15. Sifted(s, keep, m + 1, q) BY <2>3, <2>14 DEF Sifted
  <2> QED BY <1>5, <2>1, <2>15
<1> QED BY <1>4, <1>5

LEMMA SiftFine ==
  ASSUME NEW s, Len(s) \in Nat, NEW keep
  PROVE  Sifted(s, keep, Len(s), Sift(s, keep))
<1> DEFINE V == Seq({s[i] : i \in 1 .. Len(s)})
           One(i, w) == IF i \in keep THEN Append(w, s[i]) ELSE w
           Body(F) == [i \in 0 .. Len(s) |->
                         IF i = 0 THEN << >> ELSE IF i \in keep THEN Append(F[i - 1], s[i]) ELSE F[i - 1]]
<1>0. PICK N \in Nat : N = Len(s) OBVIOUS
<1>1. \E F : F = Body(F)
  <2>1. PICK step : step = [x \in (1 .. N) \X V |-> One(x[1], x[2])] OBVIOUS
  <2>2. ASSUME NEW i \in 1 .. N, NEW w \in V PROVE step[<<i, w>>] = One(i, w) /\ One(i, w) \in V
    <3>1. s[i] \in {s[j] : j \in 1 .. Len(s)} BY <1>0
    <3>2. Append(w, s[i]) \in V BY <3>1, AppendProperties
    <3>3. One(i, w) \in V BY <3>2
    <3>4. step[<<i, w>>] = One(i, w)
      <4>1. <<i, w>> \in (1 .. N) \X V OBVIOUS
      <4> HIDE DEF V, One
      <4> QED BY <2>1, <4>1
    <3> QED BY <3>3, <3>4
  <2>3. PICK f \in [0 .. N -> V] : f[0] = << >> /\ \A i \in 1 .. N : f[i] = step[<<i, f[i - 1]>>]
    <3>1. PICK W, none : W = V /\ none = << >> OBVIOUS
    <3>2. none \in W BY <3>1
    <3>3. step \in [(1 .. N) \X W -> W]
      <4>1. \A i \in 1 .. N, w \in V : One(i, w) \in V BY <2>2
      <4>2. step \in [(1 .. N) \X V -> V]
        <5> HIDE DEF V, One
        <5>1. \A x \in (1 .. N) \X V : One(x[1], x[2]) \in V BY <4>1
        <5> QED BY <2>1, <5>1
      <4> QED BY <3>1, <4>2
    <3>4. \E f : Follows(N, W, none, step, f)
      <4> HIDE DEF V, One
      <4> QED BY <3>2, <3>3, StepByStep
    <3> HIDE DEF V, One
    <3> QED BY <3>1, <3>4 DEF Follows
  <2>4. ASSUME NEW i \in 0 .. N PROVE f[i] = IF i = 0 THEN << >> ELSE One(i, f[i - 1])
    <3>1. i # 0 => i \in 1 .. N /\ i - 1 \in 0 .. N OBVIOUS
    <3>2. i # 0 => f[i - 1] \in V BY <2>3, <3>1
    <3> HIDE DEF V, One
    <3> QED BY <2>2, <2>3, <3>1, <3>2
  <2>5. f = [i \in 0 .. N |-> f[i]] BY <2>3
  <2>6. f = [i \in 0 .. N |-> IF i = 0 THEN << >> ELSE One(i, f[i - 1])]
    <3> HIDE DEF One
    <3> QED BY <2>4, <2>5
  <2>7. f = Body(f) BY <1>0, <2>6
  <2> QED BY <2>7
<1>2. PICK F : F = CHOOSE G : G = Body(G) OBVIOUS
<1>3. F = Body(F) BY <1>1, <1>2
<1>4. Sift(s, keep) = F[Len(s)] BY <1>2 DEF Sift
<1>5. PICK S : S = {m \in 0 .. N : Sifted(s, keep, m, F[m])} OBVIOUS
<1>6. 0 \in S
  <2>1. F[0] = << >> BY <1>0, <1>3
  <2>2. Sifted(s, keep, 0, << >>)
    <3>1. PICK at : at = [j \in 1 .. 0 |-> j] OBVIOUS
    <3>2. at \in [1 .. 0 -> keep \cap (1 .. 0)] BY <3>1
    <3>3. Len(<< >>) = 0 OBVIOUS
    <3>4. Places(s, keep, 0, << >>, at) BY <3>2, <3>3 DEF Places
    <3> QED BY <3>3, <3>4 DEF Sifted
  <2> QED BY <1>5, <2>1, <2>2
<1>7. ASSUME NEW m \in 0 .. N - 1, m \in S PROVE m + 1 \in S
  <2>1. m + 1 \in 0 .. N /\ m + 1 # 0 /\ (m + 1) - 1 = m OBVIOUS
  <2>2. F[m + 1] = IF m + 1 \in keep THEN Append(F[m], s[m + 1]) ELSE F[m] BY <1>0, <1>3, <2>1
  <2>3. Sifted(s, keep, m, F[m]) BY <1>5, <1>7
  <2>4. Sifted(s, keep, m + 1, F[m + 1]) BY <1>0, <2>2, <2>3, SiftOne
  <2> QED BY <1>5, <2>1, <2>4
<1>8. N \in S
  <2>1. 0 .. N \subseteq S BY <1>6, <1>7, UpTo
  <2> QED BY <2>1
<1> QED BY <1>0, <1>4, <1>5, <1>8
\* Division leaves a rest.
LEMMA DivisionLeavesARest ==
  ASSUME NEW p \in Nat \ {0}, NEW v \in Nat, NEW q, NEW t, q = v \div p, t = v % p
  PROVE  q \in Nat /\ t \in 0 .. p - 1 /\ v = q * p + t
OBVIOUS

\* What the numbers of a block are, counted from its first.
InBlock(x, v, p, q, last) == x >= v /\ x \div p = q /\ x % p <= last
Counted(x, a, t, last) == \E i \in 1 .. last - t + 1 : x = a + t + i - 1
LEMMA BlockFine ==
  ASSUME NEW p \in Nat \ {0}, NEW v \in Nat, NEW last \in 0 .. p - 1,
         NEW q \in Nat, NEW t \in 0 .. p - 1, NEW a \in Nat,
         q = v \div p, t = v % p, a = q * p, last >= t, NEW x \in Nat
  PROVE  InBlock(x, v, p, q, last) <=> Counted(x, a, t, last)
<1>1. v = a + t BY DivisionLeavesARest
<1>3. ASSUME x >= v, x \div p = q, x % p <= last
      PROVE  \E i \in 1 .. last - t + 1 : x = a + t + i - 1
  <2>1. PICK r, b : r = x \div p /\ b = x % p OBVIOUS
  <2>2. r \in Nat /\ b \in 0 .. p - 1 /\ x = r * p + b BY <2>1, Z3
  <2>3. x = a + b BY <1>3, <2>1, <2>2
  <2>4. b >= t /\ b <= last BY <1>1, <1>3, <2>1, <2>2, <2>3
  <2>5. PICK i : i = b - t + 1 OBVIOUS
  <2>6. i \in 1 .. last - t + 1 /\ x = a + t + i - 1 BY <2>2, <2>3, <2>4, <2>5
  <2> QED BY <2>6
<1>4. ASSUME NEW i \in 1 .. last - t + 1, x = a + t + i - 1
      PROVE  x >= v /\ x \div p = q /\ x % p <= last
  <2>1. PICK b : b = t + i - 1 OBVIOUS
  <2>2. b \in 0 .. p - 1 /\ t <= b /\ b <= last BY <2>1
  <2>3. x = a + b BY <1>4, <2>1
  <2>4. x \div p = q /\ x % p = b
    <3>1. (q * p + b) \div p = q /\ (q * p + b) % p = b BY <2>2
    <3> QED BY <2>3, <3>1
  <2>5. x >= v BY <1>1, <2>2, <2>3
  <2> QED BY <2>2, <2>4, <2>5
<1> QED BY <1>3, <1>4 DEF InBlock, Counted

\* A cell with something in it that reads.
NumbersOf(cell, e) ==
  /\ \E m \in Nat : Len(e) = m /\ DOMAIN e = 1 .. m /\ e \in Seq(Nat \X Nat)
  /\ \A i, j \in DOMAIN e : e[i] = e[j] => i = j
  /\ \A n \in Nat \X Nat : Names(cell, n) <=> \E i \in DOMAIN e : e[i] = n

\* A cell that reads is expanded to the numbers it names, each once.
LEMMA ExpandFine ==
  ASSUME NEW cell, IsCell(cell), Reads(cell)
  PROVE  NumbersOf(cell, Expand(cell))
<1>1. CASE cell[1] = "number"
  <2>1. cell[2] \in Nat /\ cell[3] \in Nat
    <3>1. "number" # "word" /\ "number" # "block" OBVIOUS
    <3>2. cell # Empty
      <4>1. cell = Empty => cell[1] = "empty" BY DEF Empty
      <4> QED BY <1>1, <4>1
    <3> QED BY <1>1, <3>1, <3>2 DEF IsCell
  <2>2. PICK o : o = <<cell[2], cell[3]>> OBVIOUS
  <2>3. o \in Nat \X Nat BY <2>1, <2>2
  <2>4. PICK e : e = <<o>> OBVIOUS
  <2>5. Len(e) = 1 /\ DOMAIN e = 1 .. 1 /\ e[1] = o /\ e \in Seq(Nat \X Nat)
    <3>1. PICK V : V = Nat \X Nat OBVIOUS
    <3>2. <<o>> \in Seq(V) BY <2>3, <3>1
    <3> QED BY <2>4, <3>1, <3>2
  <2>6. Expand(cell) = e BY <1>1, <2>2, <2>4 DEF Expand
  <2>7. \A n : Names(cell, n) <=> n = o BY <1>1, <2>2 DEF Names
  <2> QED BY <2>5, <2>6, <2>7, SMTT(30) DEF NumbersOf
<1>2. CASE cell[1] # "number"
  <2>1. PICK w, v, l, last : w = cell[2] /\ v = cell[3] /\ l = cell[4] /\ last = cell[5] OBVIOUS
  <2>2. PICK p : p = Power(l) OBVIOUS
  <2>3. cell[1] = "block" BY <1>2 DEF Reads
  <2>4. cell # Empty
    <3>1. cell = Empty => cell[1] = "empty" BY DEF Empty
    <3> QED BY <2>3, <3>1
  <2>5. w \in Nat /\ v \in Nat /\ l \in Nat /\ last \in 0 .. p - 1
    <3>1. "block" # "word" /\ "block" # "number" OBVIOUS
    <3> QED BY <2>1, <2>2, <2>3, <2>4, <3>1 DEF IsCell
  <2>6. p \in Nat \ {0} BY <2>2, <2>5, PowerFine
  <2>7. PICK q, t : q = v \div p /\ t = v % p OBVIOUS
  <2>8. q \in Nat /\ t \in 0 .. p - 1 BY <2>5, <2>6, <2>7, Z3
  <2>9. PICK a \in Nat : a = q * p
    <3>1. q * p \in Nat BY <2>6, <2>8
    <3> QED BY <3>1
  <2>10. Tail0(cell) = t BY <2>1, <2>2, <2>7 DEF Tail0
  <2>11. last >= t BY <1>2, <2>1, <2>10 DEF Reads
  <2>12. PICK m \in Nat : m = last - t + 1 BY <2>5, <2>8, <2>11
  <2>13. PICK e : e = [i \in 1 .. m |-> <<w, a + t + i - 1>>] OBVIOUS
  <2>14. Expand(cell) = e
    <3>1. ((v \div p) * p) = a BY <2>7, <2>9
    <3>2. Expand(cell) = [i \in 1 .. last - t + 1 |-> <<w, ((v \div p) * p) + t + i - 1>>]
      BY <1>2, <2>1, <2>2, <2>10 DEF Expand
    <3> QED BY <2>12, <2>13, <3>1, <3>2
  <2>15. \A i \in 1 .. m : e[i] = <<w, a + t + i - 1>> /\ a + t + i - 1 \in Nat BY <2>5, <2>8, <2>13
  <2>16. e \in Seq(Nat \X Nat) /\ DOMAIN e = 1 .. m /\ Len(e) = m
    <3>1. PICK V : V = Nat \X Nat OBVIOUS
    <3>2. \A i \in 1 .. m : e[i] \in V BY <2>5, <2>15, <3>1
    <3>3. e \in [1 .. m -> V] BY <2>13, <3>2
    <3>4. e \in Seq(V) BY <3>3
    <3> QED BY <2>13, <3>1, <3>4
  <2>17. \A i, j \in 1 .. m : e[i] = e[j] => i = j
    <3>1. ASSUME NEW i \in 1 .. m, NEW j \in 1 .. m, e[i] = e[j] PROVE i = j
      <4>1. a + t + i - 1 = a + t + j - 1 BY <2>15, <3>1
      <4> QED BY <2>8, <4>1
    <3> QED BY <3>1
  <2>18. ASSUME NEW n \in Nat \X Nat PROVE Names(cell, n) <=> \E i \in 1 .. m : e[i] = n
    <3>1. PICK x \in Nat, y \in Nat : n = <<y, x>> OBVIOUS
    <3>2. InBlock(x, v, p, q, last) <=> Counted(x, a, t, last)
      BY <2>5, <2>6, <2>7, <2>8, <2>9, <2>11, BlockFine
    <3>3. n[1] = y /\ n[2] = x BY <3>1
    <3>4. Names(cell, n) <=> y = w /\ x >= v /\ x \div p = q /\ x % p <= last
      BY <1>2, <2>1, <2>2, <2>7, <3>3 DEF Names
    <3>5. \A i \in 1 .. m : e[i] = n <=> y = w /\ x = a + t + i - 1 BY <2>15, <3>1
    <3> QED BY <2>12, <3>2, <3>4, <3>5 DEF InBlock, Counted
  <2> QED BY <2>14, <2>16, <2>17, <2>18, ZenonT(30) DEF NumbersOf
<1> QED BY <1>1, <1>2

\* The lines there are to read are the file's, each once and each with a row number
\* of its own: the first where it reads, the others that are not blank.
LinesOf(at, N) ==
  /\ Len(Lines) = N /\ DOMAIN Lines = 1 .. N
  /\ at \in [1 .. N -> 1 .. Len(sheet)]
  /\ \A k \in 1 .. N : Lines[k][1] = sheet[at[k]] /\ Lines[k][2] \in Nat
  /\ \A j, k \in 1 .. N : at[j] = at[k] => j = k
  /\ \A j, k \in 1 .. N : Lines[j][2] = Lines[k][2] => j = k
  /\ \A k \in 1 .. N : at[k] = 1 => Headless
  /\ \A i \in 1 .. Len(sheet) :
       (IF i = 1 THEN Headless ELSE ~BlankLine(sheet[i])) => \E k \in 1 .. N : at[k] = i
  /\ NoGaps => \A k \in 1 .. N : Lines[k][2] = at[k]

LEMMA LinesFine ==
  ASSUME sheet \in Files
  PROVE  \E N \in Nat : \E at : LinesOf(at, N)
<1> DEFINE V == {sheet[i] : i \in DOMAIN sheet}
           keep == {i \in 1 .. Len(sheet) - 1 : ~BlankLine(sheet[i + 1])}
<1>1. sheet \in Seq(V) /\ sheet # << >> BY CellsAssumption
<1>2. PICK L \in Nat \ {0} : Len(sheet) = L /\ DOMAIN sheet = 1 .. L
  <2> HIDE DEF V
  <2> QED BY <1>1, EmptySeq, LenProperties
<1>3. PICK tl : tl = Tail(sheet) OBVIOUS
<1>4. Len(tl) = L - 1 /\ \A i \in 1 .. L - 1 : tl[i] = sheet[i + 1]
  <2> HIDE DEF V
  <2> QED BY <1>1, <1>2, <1>3, HeadTailProperties
<1>5. Head0 = sheet[1] BY <1>1, <1>2 DEF Head0
<1>6. PICK r : r = SheetRows OBVIOUS
<1>7. Sifted(tl, keep, L - 1, r)
  <2>1. r = Sift(tl, keep) BY <1>3, <1>6 DEF SheetRows
  <2> HIDE DEF keep
  <2> QED BY <1>4, <2>1, SiftFine
<1>8. PICK m \in Nat : m = Len(r) BY <1>7 DEF Sifted
<1>9. DOMAIN r = 1 .. m
  <2>1. PICK W : r \in Seq(W) BY <1>7 DEF Sifted
  <2> QED BY <1>8, <2>1, LenProperties
<1>10. PICK to : Places(tl, keep, L - 1, r, to) BY <1>7 DEF Sifted
<1>11. /\ \A j \in 1 .. m : to[j] \in keep /\ to[j] \in 1 .. L - 1
       /\ \A j \in 1 .. m : r[j] = tl[to[j]]
       /\ \A j, k \in 1 .. m : to[j] = to[k] => j = k
       /\ \A i \in keep : \E j \in 1 .. m : to[j] = i
       /\ 1 .. L - 1 \subseteq keep => \A j \in 1 .. m : to[j] = j
  <2>1. keep \subseteq 1 .. L - 1 BY <1>2
  <2> HIDE DEF keep
  <2> QED BY <1>8, <1>10, <2>1 DEF Places
<1>a. \A j \in 1 .. m : to[j] \in 1 .. L - 1 /\ to[j] + 1 \in 2 .. L /\ r[j] = sheet[to[j] + 1]
  <2>1. ASSUME NEW j \in 1 .. m PROVE to[j] \in 1 .. L - 1 /\ to[j] + 1 \in 2 .. L /\ r[j] = sheet[to[j] + 1]
    <3>1. PICK i : i = to[j] OBVIOUS
    <3>2. i \in 1 .. L - 1 /\ r[j] = tl[i] BY <1>11, <3>1
    <3>3. i + 1 \in 2 .. L BY <3>2
    <3> QED BY <1>4, <3>1, <3>2, <3>3
  <2> QED BY <2>1
<1>12. PICK h \in 0 .. 1 : h = IF Headless THEN 1 ELSE 0 OBVIOUS
<1>13. PICK first : first = (IF Headless THEN <<<<Head0, 1>>>> ELSE << >>) OBVIOUS
<1>14. PICK rest : rest = [i \in 1 .. m |-> <<r[i], i + 1>>] OBVIOUS
<1>15. PICK lines : lines = first \o rest OBVIOUS
<1>16. Lines = lines BY <1>6, <1>9, <1>13, <1>14, <1>15 DEF Lines
<1>17. PICK P : P = V \X Nat OBVIOUS
<1>18. first \in Seq(P) /\ Len(first) = h /\ (h = 1 => first[1] = <<sheet[1], 1>>)
  <2>1. sheet[1] \in V BY <1>2
  <2>2. PICK o : o = <<sheet[1], 1>> OBVIOUS
  <2>3. o \in P
    <3> HIDE DEF V
    <3> QED BY <1>17, <2>1, <2>2
  <2>4. first = (IF h = 1 THEN <<o>> ELSE << >>) BY <1>5, <1>12, <1>13, <2>2
  <2>5. CASE h = 1
    <3>1. <<o>> \in Seq(P) /\ Len(<<o>>) = 1 /\ <<o>>[1] = o BY <2>3
    <3> QED BY <2>2, <2>4, <2>5, <3>1
  <2>6. CASE h = 0
    <3>1. first = << >> BY <2>4, <2>6
    <3> QED BY <2>6, <3>1, EmptySeq
  <2> QED BY <2>5, <2>6
<1>19. rest \in Seq(P) /\ Len(rest) = m /\ \A i \in 1 .. m : rest[i] = <<r[i], i + 1>>
  <2>1. \A i \in 1 .. m : r[i] \in V
    <3>1. \A i \in 2 .. L : sheet[i] \in V BY <1>2
    <3> HIDE DEF V
    <3> QED BY <1>a, <3>1
  <2>2. \A i \in 1 .. m : <<r[i], i + 1>> \in P
    <3> HIDE DEF V
    <3> QED BY <1>17, <2>1
  <2>3. rest \in [1 .. m -> P] BY <1>14, <2>2
  <2> QED BY <1>14, <2>3
<1>20. /\ lines \in Seq(P) /\ Len(lines) = h + m
       /\ \A k \in 1 .. h + m : lines[k] = IF k <= h THEN first[k] ELSE rest[k - h]
  BY <1>15, <1>18, <1>19, ConcatProperties, ZenonT(30)
<1>21. PICK N \in Nat : N = h + m BY <1>12
<1>22. DOMAIN lines = 1 .. N BY <1>20, <1>21, LenProperties
<1>23. PICK at : at = [k \in 1 .. N |-> IF k <= h THEN 1 ELSE to[k - h] + 1] OBVIOUS
<1>24. \A k \in 1 .. N : k <= h => h = 1 /\ k = 1 /\ at[k] = 1 /\ lines[k] = <<sheet[1], 1>>
  BY <1>12, <1>18, <1>20, <1>21, <1>23
<1>25. \A k \in 1 .. N : ~(k <= h) =>
         /\ k - h \in 1 .. m /\ at[k] = to[k - h] + 1
         /\ lines[k] = <<sheet[to[k - h] + 1], (k - h) + 1>>
  <2>1. ASSUME NEW k \in 1 .. N, ~(k <= h) PROVE k - h \in 1 .. m BY <1>12, <1>21, <2>1
  <2>2. ASSUME NEW k \in 1 .. N, ~(k <= h) PROVE at[k] = to[k - h] + 1 BY <1>23, <2>2
  <2>3. ASSUME NEW k \in 1 .. N, ~(k <= h) PROVE lines[k] = <<sheet[to[k - h] + 1], (k - h) + 1>>
    <3>1. PICK j : j = k - h OBVIOUS
    <3>2. j \in 1 .. m BY <2>1, <2>3, <3>1
    <3>3. lines[k] = rest[j] BY <1>20, <1>21, <2>3, <3>1
    <3>4. rest[j] = <<sheet[to[j] + 1], j + 1>> BY <1>a, <1>19, <3>2
    <3> QED BY <3>1, <3>3, <3>4
  <2> QED BY <2>1, <2>2, <2>3
<1>26. \A k \in 1 .. N : at[k] \in 1 .. L /\ (at[k] = 1 <=> k <= h)
  <2>1. ASSUME NEW k \in 1 .. N, ~(k <= h) PROVE at[k] \in 2 .. L
    <3>1. PICK j \in 1 .. m : at[k] = to[j] + 1 BY <1>25, <2>1
    <3> QED BY <1>a, <3>1
  <2>2. \A i \in 2 .. L : i \in 1 .. L /\ i # 1 OBVIOUS
  <2>3. 1 \in 1 .. L OBVIOUS
  <2> QED BY <1>24, <2>1, <2>2, <2>3
<1>27. at \in [1 .. N -> 1 .. Len(sheet)] BY <1>2, <1>23, <1>26
<1>28. \A k \in 1 .. N : lines[k][1] = sheet[at[k]] /\ lines[k][2] = (IF k <= h THEN 1 ELSE (k - h) + 1)
  BY <1>24, <1>25
<1>29. \A j, k \in 1 .. N : at[j] = at[k] => j = k
  <2>1. ASSUME NEW j \in 1 .. N, NEW k \in 1 .. N, at[j] = at[k] PROVE j = k
    <3>1. CASE j <= h BY <1>24, <1>26, <2>1, <3>1
    <3>2. CASE ~(j <= h)
      <4>1. ~(k <= h) BY <1>26, <2>1, <3>2
      <4>2. PICK i \in 1 .. m : i = j - h /\ at[j] = to[i] + 1 BY <1>25, <3>2
      <4>4. PICK l \in 1 .. m : l = k - h /\ at[k] = to[l] + 1 BY <1>25, <4>1
      <4>5. to[i] = to[l]
        <5>1. PICK x \in 1 .. L - 1, y \in 1 .. L - 1 : x = to[i] /\ y = to[l] BY <1>a
        <5>2. x + 1 = y + 1 BY <2>1, <4>2, <4>4, <5>1
        <5> QED BY <5>1, <5>2
      <4>3. j - h = k - h BY <1>11, <4>2, <4>4, <4>5
      <4> QED BY <1>12, <4>3
    <3> QED BY <3>1, <3>2
  <2> QED BY <2>1
<1>30. \A j, k \in 1 .. N : lines[j][2] = lines[k][2] => j = k
  <2>1. ASSUME NEW j \in 1 .. N, NEW k \in 1 .. N,
               (IF j <= h THEN 1 ELSE (j - h) + 1) = (IF k <= h THEN 1 ELSE (k - h) + 1)
        PROVE  j = k
    BY <1>12, <2>1
  <2> QED BY <1>28, <2>1
<1>31. \A k \in 1 .. N : lines[k][2] \in Nat
  <2>1. \A k \in 1 .. N : (IF k <= h THEN 1 ELSE (k - h) + 1) \in Nat BY <1>12
  <2> QED BY <1>28, <2>1
<1>32. \A k \in 1 .. N : at[k] = 1 => Headless BY <1>12, <1>24, <1>26
<1>33. ASSUME NEW i \in 1 .. L, IF i = 1 THEN Headless ELSE ~BlankLine(sheet[i])
       PROVE  \E k \in 1 .. N : at[k] = i
  <2>1. CASE i = 1
    <3>1. h = 1 BY <1>12, <1>33, <2>1
    <3>2. 1 \in 1 .. N /\ 1 <= h BY <1>21, <3>1
    <3> QED BY <1>24, <2>1, <3>2
  <2>2. CASE i # 1
    <3>1. i - 1 \in 1 .. Len(sheet) - 1 /\ (i - 1) + 1 = i BY <1>2, <2>2
    <3>2. i - 1 \in keep BY <1>33, <2>2, <3>1
    <3>3. PICK j \in 1 .. m : to[j] = i - 1
      <4> HIDE DEF keep
      <4> QED BY <1>11, <3>2
    <3>4. j + h \in 1 .. N /\ ~(j + h <= h) /\ (j + h) - h = j BY <1>12, <1>21
    <3>5. at[j + h] = i BY <1>25, <3>1, <3>3, <3>4
    <3> QED BY <3>4, <3>5
  <2> QED BY <2>1, <2>2
<1>34. ASSUME NoGaps, NEW k \in 1 .. N PROVE lines[k][2] = at[k]
  <2>1. 1 .. L - 1 \subseteq keep
    <3>1. ASSUME NEW i \in 1 .. L - 1 PROVE i \in keep
      <4>1. i + 1 \in 2 .. Len(sheet) BY <1>2
      <4> QED BY <1>2, <1>34, <4>1 DEF NoGaps
    <3> QED BY <3>1
  <2>2. \A j \in 1 .. m : to[j] = j BY <1>11, <2>1
  <2> QED BY <1>24, <1>25, <1>28, <2>2
<1>35. LinesOf(at, N)
  <2> HIDE DEF keep, V
  <2> QED BY <1>2, <1>16, <1>20, <1>21, <1>22, <1>27, <1>28, <1>29, <1>30, <1>31, <1>32, <1>33, <1>34 DEF LinesOf
<1> QED BY <1>35

\* What a line is for.
Something(k) == Did(Lines[k]) # Empty
Sound(k) == Reads(Did(Lines[k])) /\ Assigns(To(Lines[k]))
Named(n, m) == \E k \in 1 .. m : Something(k) /\ Sound(k) /\ Names(Did(Lines[k]), n)
Refused(m) == {Lines[k][2] : k \in {j \in 1 .. m : Something(j) /\ ~Sound(j)}}

\* While rows are read: what is listed is what the rows so far name, each number
\* once and no more than the limit; what is refused are those at fault.
NoneTwice == \A i, j \in DOMAIN numbers : numbers[i].number = numbers[j].number => i = j
ReadSoFar ==
  /\ \A n \in Nat \X Nat : Listed(n) <=> Named(n, line - 1)
  /\ refusals = Refused(line - 1)
FilesInv ==
  /\ sheet \in Files
  /\ line \in 1 .. Len(Lines) + 1
  /\ \E V : numbers \in Seq(V)
  /\ Len(numbers) <= MaxDIDs
  /\ NoneTwice
  /\ verdict \in {"rows", "end"} => ReadSoFar
  /\ verdict = "end" => line = Len(Lines) + 1

\* What a row adds: the numbers it names that are not listed, as far as there is
\* room; each with the row's extension.
LEMMA FreshFine ==
  ASSUME NEW new, NEW V, new \in Seq(V), \A i, j \in DOMAIN new : new[i] = new[j] => i = j
  PROVE  /\ Len(Fresh(new)) \in Nat /\ DOMAIN Fresh(new) = 1 .. Len(Fresh(new))
         /\ \A i, j \in DOMAIN Fresh(new) : Fresh(new)[i] = Fresh(new)[j] => i = j
         /\ \A i \in DOMAIN Fresh(new) : ~Listed(Fresh(new)[i]) /\ \E j \in DOMAIN new : Fresh(new)[i] = new[j]
         /\ \A j \in DOMAIN new : ~Listed(new[j]) => \E i \in DOMAIN Fresh(new) : Fresh(new)[i] = new[j]
<1>1. PICK L \in Nat : L = Len(new) /\ DOMAIN new = 1 .. L BY LenProperties
<1>2. PICK keep : keep = {i \in DOMAIN new : ~Listed(new[i])} OBVIOUS
<1>3. PICK r : r = Fresh(new) OBVIOUS
<1>4. Sifted(new, keep, L, r) BY <1>1, <1>2, <1>3, SiftFine DEF Fresh
<1>5. PICK m \in Nat : m = Len(r) BY <1>4 DEF Sifted
<1>6. DOMAIN r = 1 .. m
  <2>1. PICK W : r \in Seq(W) BY <1>4 DEF Sifted
  <2> QED BY <1>5, <2>1, LenProperties
<1>7. PICK at : Places(new, keep, L, r, at) BY <1>4 DEF Sifted
<1>8. /\ \A j \in 1 .. m : at[j] \in keep /\ r[j] = new[at[j]]
      /\ \A j, k \in 1 .. m : at[j] = at[k] => j = k
      /\ \A i \in keep : \E j \in 1 .. m : at[j] = i
  <2>1. keep \subseteq 1 .. L BY <1>1, <1>2
  <2> QED BY <1>5, <1>7, <2>1 DEF Places
<1>9. \A i \in keep : i \in DOMAIN new /\ ~Listed(new[i]) BY <1>2
<1>10. \A i, j \in DOMAIN r : r[i] = r[j] => i = j BY <1>6, <1>8, <1>9
<1>11. \A i \in DOMAIN r : ~Listed(r[i]) /\ \E j \in DOMAIN new : r[i] = new[j] BY <1>6, <1>8, <1>9
<1>12. ASSUME NEW j \in DOMAIN new, ~Listed(new[j]) PROVE \E i \in DOMAIN r : r[i] = new[j]
  <2>1. j \in keep BY <1>2, <1>12
  <2> QED BY <1>6, <1>8, <2>1
<1>13. Len(r) \in Nat /\ DOMAIN r = 1 .. Len(r) BY <1>5, <1>6
<1>14. \A j \in DOMAIN new : ~Listed(new[j]) => \E i \in DOMAIN r : r[i] = new[j] BY <1>12
<1> HIDE DEF Listed
<1> QED BY <1>3, <1>10, <1>11, <1>13, <1>14

\* Numbers appended to the list: m of them, none of them twice or there already.
NewOnes(kept, m) ==
  /\ Len(kept) = m /\ DOMAIN kept = 1 .. m
  /\ \A i, j \in 1 .. m : kept[i] = kept[j] => i = j
  /\ \A i \in 1 .. m : ~Listed(kept[i])

Joined(kept, to, row) ==
  numbers' = numbers \o [i \in DOMAIN kept |-> [number |-> kept[i], to |-> to, row |-> row]]
Grown(kept, m) ==
  /\ NoneTwice' /\ (\E W : numbers' \in Seq(W)) /\ Len(numbers') = Len(numbers) + m
  /\ \A n : Listed(n)' <=> Listed(n) \/ \E i \in 1 .. m : kept[i] = n

LEMMA Appended ==
  ASSUME NEW kept, NEW m \in Nat, NewOnes(kept, m),
         NEW to, NEW row, Joined(kept, to, row), NEW V, numbers \in Seq(V), NoneTwice
  PROVE  Grown(kept, m)
<1>0. /\ Len(kept) = m /\ DOMAIN kept = 1 .. m
      /\ \A i, j \in 1 .. m : kept[i] = kept[j] => i = j
      /\ \A i \in 1 .. m : ~Listed(kept[i])
  BY DEF NewOnes
<1>1. PICK add : add = [i \in 1 .. m |-> [number |-> kept[i], to |-> to, row |-> row]] OBVIOUS
<1>2. PICK W : W = V \cup {add[i] : i \in 1 .. m} OBVIOUS
<1>3. numbers \in Seq(W)
  <2>1. V \subseteq W BY <1>2
  <2> QED BY <2>1
<1>4. add \in Seq(W) /\ Len(add) = m
  <2>1. add \in [1 .. m -> W] BY <1>1, <1>2
  <2> QED BY <1>1, <2>1
<1>5. PICK l \in Nat : l = Len(numbers) /\ DOMAIN numbers = 1 .. l BY LenProperties
<1>6. PICK all : all = numbers' OBVIOUS
<1>7. all = numbers \o add BY <1>0, <1>1, <1>6 DEF Joined
<1>8. /\ all \in Seq(W) /\ Len(all) = l + m
      /\ \A i \in 1 .. l + m : all[i] = IF i <= l THEN numbers[i] ELSE add[i - l]
  <2>1. PICK nums : nums = numbers OBVIOUS
  <2>2. nums \in Seq(W) /\ all = nums \o add /\ Len(nums) = l BY <1>3, <1>5, <1>7, <2>1
  <2>3. /\ all \in Seq(W) /\ Len(all) = l + m
        /\ \A i \in 1 .. l + m : all[i] = IF i <= l THEN nums[i] ELSE add[i - l]
    <3>1. /\ nums \o add \in Seq(W) /\ Len(nums \o add) = Len(nums) + Len(add)
          /\ \A i \in 1 .. Len(nums) + Len(add) :
               (nums \o add)[i] = IF i <= Len(nums) THEN nums[i] ELSE add[i - Len(nums)]
      BY <1>4, <2>2, ConcatProperties
    <3> QED BY <1>4, <2>2, <3>1
  <2> QED BY <2>1, <2>3
<1>9. DOMAIN all = 1 .. l + m BY <1>8, LenProperties
<1>10. ASSUME NEW p \in 1 .. l PROVE p \in 1 .. l + m /\ all[p].number = numbers[p].number BY <1>8
<1>11. ASSUME NEW i \in 1 .. m PROVE \E p \in 1 .. l + m : p = i + l /\ all[p].number = kept[i]
  <2>1. PICK p \in 1 .. l + m : p = i + l OBVIOUS
  <2>2. ~(p <= l) /\ p - l = i BY <2>1
  <2>3. all[p] = add[i] BY <1>8, <2>2
  <2> QED BY <1>1, <2>1, <2>3
<1>12. ASSUME NEW p \in 1 .. l + m, p \notin 1 .. l
       PROVE  \E i \in 1 .. m : p = i + l /\ all[p].number = kept[i]
  <2>1. PICK i \in 1 .. m : p = i + l
    <3>1. p - l \in 1 .. m /\ p = (p - l) + l BY <1>12
    <3> QED BY <3>1
  <2>2. ~(p <= l) /\ p - l = i BY <2>1
  <2>3. all[p] = add[i] BY <1>8, <2>2
  <2> QED BY <1>1, <2>1, <2>3
<1>13. \A n : Listed(n) <=> \E i \in 1 .. l : numbers[i].number = n BY <1>5 DEF Listed
<1>14. ASSUME NEW n PROVE Listed(n)' <=> \E i \in 1 .. l + m : all[i].number = n BY <1>6, <1>9 DEF Listed
<1>15. ASSUME NEW n PROVE Listed(n)' <=> Listed(n) \/ \E i \in 1 .. m : kept[i] = n
  <2>1. Listed(n) => \E p \in 1 .. l + m : all[p].number = n BY <1>10, <1>13
  <2>2. (\E i \in 1 .. m : kept[i] = n) => \E p \in 1 .. l + m : all[p].number = n BY <1>11
  <2>3. (\E p \in 1 .. l + m : all[p].number = n) => Listed(n) \/ \E i \in 1 .. m : kept[i] = n
    BY <1>10, <1>12, <1>13
  <2> QED BY <1>14, <2>1, <2>2, <2>3
<1>16. \A i, j \in 1 .. l + m : all[i].number = all[j].number => i = j
  <2>1. ASSUME NEW i \in 1 .. l + m, NEW j \in 1 .. l + m, all[i].number = all[j].number PROVE i = j
    <3>1. CASE i \in 1 .. l /\ j \in 1 .. l BY <1>5, <1>10, <2>1, <3>1 DEF NoneTwice
    <3>2. CASE i \in 1 .. l /\ j \notin 1 .. l
      <4>1. PICK x \in 1 .. m : all[j].number = kept[x] BY <1>12, <3>2
      <4> QED BY <1>0, <1>10, <1>13, <2>1, <3>2, <4>1
    <3>3. CASE i \notin 1 .. l /\ j \in 1 .. l
      <4>1. PICK x \in 1 .. m : all[i].number = kept[x] BY <1>12, <3>3
      <4> QED BY <1>0, <1>10, <1>13, <2>1, <3>3, <4>1
    <3>4. CASE i \notin 1 .. l /\ j \notin 1 .. l
      <4>1. PICK x \in 1 .. m : i = x + l /\ all[i].number = kept[x] BY <1>12, <3>4
      <4>2. PICK y \in 1 .. m : j = y + l /\ all[j].number = kept[y] BY <1>12, <3>4
      <4> QED BY <1>0, <2>1, <4>1, <4>2
    <3> QED BY <3>1, <3>2, <3>3, <3>4
  <2> QED BY <2>1
<1> QED BY <1>5, <1>6, <1>8, <1>9, <1>15, <1>16 DEF NoneTwice, Grown

\* A row moves on by one; what it does with a number so far unlisted is its own.
LEMMA OneMore ==
  ASSUME NEW m \in Nat
  PROVE  /\ \A n : Named(n, m + 1) <=> Named(n, m) \/ (Something(m + 1) /\ Sound(m + 1) /\ Names(Did(Lines[m + 1]), n))
         /\ Refused(m + 1) = Refused(m) \cup (IF Something(m + 1) /\ ~Sound(m + 1) THEN {Lines[m + 1][2]} ELSE {})
<1>1. \A k : k \in 1 .. m + 1 <=> k \in 1 .. m \/ k = m + 1 OBVIOUS
<1> QED BY <1>1 DEF Named, Refused

\* What a sound row adds.
LEMMA RowAdds ==
  ASSUME NEW cell, IsCell(cell), Reads(cell), NEW to, NEW row,
         NEW V, numbers \in Seq(V), NoneTwice, Len(numbers) <= MaxDIDs,
         NEW kept, NEW fresh, NEW room, fresh = Fresh(Expand(cell)), room = MaxDIDs - Len(numbers),
         kept = IF Len(fresh) <= room THEN fresh ELSE SubSeq(fresh, 1, room),
         numbers' = numbers \o [i \in DOMAIN kept |-> [number |-> kept[i], to |-> to, row |-> row]]
  PROVE  /\ NoneTwice' /\ (\E W : numbers' \in Seq(W)) /\ Len(numbers') <= MaxDIDs
         /\ Len(fresh) <= room => \A n \in Nat \X Nat : Listed(n)' <=> Listed(n) \/ Names(cell, n)
<1>1. PICK new : new = Expand(cell) OBVIOUS
<1>2. NumbersOf(cell, new) BY <1>1, ExpandFine
<1>3. PICK P : P = Nat \X Nat OBVIOUS
<1>4. /\ new \in Seq(P)
      /\ \A i, j \in DOMAIN new : new[i] = new[j] => i = j
      /\ \A n \in P : Names(cell, n) <=> \E i \in DOMAIN new : new[i] = n
  BY <1>2, <1>3 DEF NumbersOf
<1>5. /\ Len(fresh) \in Nat /\ DOMAIN fresh = 1 .. Len(fresh)
      /\ \A i, j \in DOMAIN fresh : fresh[i] = fresh[j] => i = j
      /\ \A i \in DOMAIN fresh : ~Listed(fresh[i]) /\ \E j \in DOMAIN new : fresh[i] = new[j]
      /\ \A j \in DOMAIN new : ~Listed(new[j]) => \E i \in DOMAIN fresh : fresh[i] = new[j]
  <2> HIDE DEF Listed
  <2> QED BY <1>1, <1>4, FreshFine, SMTT(30)
<1>6. PICK l \in Nat : l = Len(numbers) BY LenProperties
<1>7. room \in Nat BY <1>6, NumberSheetsAssumption
<1>8. PICK f \in Nat : f = Len(fresh) BY <1>5
<1>a. DOMAIN fresh = 1 .. f BY <1>5, <1>8
<1>9. CASE f <= room
  <2>1. kept = fresh BY <1>8, <1>9
  <2>2. /\ NoneTwice' /\ (\E W : numbers' \in Seq(W)) /\ Len(numbers') = Len(numbers) + f
        /\ \A n : Listed(n)' <=> Listed(n) \/ \E i \in 1 .. f : kept[i] = n
    <3>1. NewOnes(fresh, f)
      <4> HIDE DEF Listed
      <4> QED BY <1>5, <1>8, <1>a DEF NewOnes
    <3>2. NewOnes(kept, f) BY <2>1, <3>1
    <3>3. Joined(kept, to, row) BY DEF Joined
    <3>4. Grown(kept, f) BY <3>2, <3>3, Appended
    <3> QED BY <3>4 DEF Grown
  <2>3. Len(numbers') <= MaxDIDs BY <1>6, <1>9, <2>2, NumberSheetsAssumption
  <2>4. ASSUME NEW n \in P PROVE Listed(n)' <=> Listed(n) \/ Names(cell, n)
    <3>1. Listed(n)' <=> Listed(n) \/ \E i \in DOMAIN fresh : fresh[i] = n
      <4>1. Listed(n)' <=> Listed(n) \/ \E i \in 1 .. f : kept[i] = n BY <2>2
      <4> HIDE DEF Listed
      <4>2. (\E i \in 1 .. f : kept[i] = n) <=> \E i \in DOMAIN fresh : fresh[i] = n
        <5>1. \A i : i \in 1 .. f <=> i \in DOMAIN fresh BY <1>a
        <5>2. \A i : kept[i] = fresh[i] BY <2>1
        <5> QED BY <5>1, <5>2, Zenon
      <4> QED BY <4>1, <4>2
    <3>2. (\E i \in DOMAIN fresh : fresh[i] = n) => \E j \in DOMAIN new : new[j] = n BY <1>5
    <3>3. ~Listed(n) /\ (\E j \in DOMAIN new : new[j] = n) => \E i \in DOMAIN fresh : fresh[i] = n BY <1>5
    <3> QED BY <1>4, <3>1, <3>2, <3>3
  <2> QED BY <1>3, <2>2, <2>3, <2>4
<1>10. CASE ~(f <= room)
  <2>1. kept = SubSeq(fresh, 1, room) BY <1>8, <1>10
  <2>2. PICK W : W = {fresh[i] : i \in 1 .. f} OBVIOUS
  <2>3. Len(kept) = room /\ (\A i \in 1 .. room : kept[i] = fresh[i] /\ i \in DOMAIN fresh) /\ DOMAIN kept = 1 .. room
    <3>1. \A i \in 1 .. room : i \in 1 .. f /\ fresh[i] \in W BY <1>7, <1>10, <2>2
    <3>2. /\ SubSeq(fresh, 1, room) \in Seq(W)
          /\ Len(SubSeq(fresh, 1, room)) = IF 1 <= room THEN room - 1 + 1 ELSE 0
          /\ \A i \in 1 .. room - 1 + 1 : SubSeq(fresh, 1, room)[i] = fresh[1 + i - 1]
      BY <1>7, <3>1, SubSeqProperties
    <3>3. kept \in Seq(W) /\ Len(kept) = room
      <4>1. (IF 1 <= room THEN room - 1 + 1 ELSE 0) = room BY <1>7
      <4> QED BY <2>1, <3>2, <4>1
    <3>4. \A i \in 1 .. room : i \in 1 .. room - 1 + 1 /\ 1 + i - 1 = i BY <1>7
    <3>5. \A i \in 1 .. room : kept[i] = fresh[i] BY <2>1, <3>2, <3>4
    <3> QED BY <1>5, <1>8, <3>1, <3>3, <3>5, LenProperties
  <2>4. /\ NoneTwice' /\ (\E X : numbers' \in Seq(X)) /\ Len(numbers') = Len(numbers) + room
    <3>1. NewOnes(kept, room)
      <4>1. ASSUME NEW i \in 1 .. room, NEW j \in 1 .. room, kept[i] = kept[j] PROVE i = j
        <5>1. fresh[i] = fresh[j] /\ i \in DOMAIN fresh /\ j \in DOMAIN fresh BY <2>3, <4>1
        <5> QED BY <1>5, <5>1
      <4>2. ASSUME NEW i \in 1 .. room PROVE ~Listed(kept[i])
        <5>1. kept[i] = fresh[i] /\ i \in DOMAIN fresh BY <2>3
        <5> QED BY <1>5, <5>1
      <4> HIDE DEF Listed
      <4> QED BY <2>3, <4>1, <4>2 DEF NewOnes
    <3>2. Joined(kept, to, row) BY DEF Joined
    <3>3. Grown(kept, room) BY <1>7, <3>1, <3>2, Appended
    <3> QED BY <3>3 DEF Grown
  <2>5. Len(numbers') <= MaxDIDs BY <1>6, <2>4, NumberSheetsAssumption
  <2> QED BY <1>8, <1>10, <2>4, <2>5
<1> QED BY <1>8, <1>9, <1>10

LEMMA FilesRow ==
  ASSUME FilesInv, ReadRow
  PROVE  FilesInv'
<1>N. PICK N \in Nat : \E at : LinesOf(at, N) BY LinesFine DEF FilesInv
<1>1. PICK at : LinesOf(at, N) BY <1>N
<1>2. Len(Lines) = N /\ DOMAIN Lines = 1 .. N BY <1>1 DEF LinesOf
<1>3. line \in 1 .. N /\ line' = line + 1 /\ sheet' = sheet /\ verdict = "rows"
  BY <1>2 DEF ReadRow
<1>4. PICK m \in Nat : line = m + 1 /\ line - 1 = m /\ line' - 1 = m + 1 /\ line' \in 1 .. N + 1
  <2>1. PICK m : m = line - 1 OBVIOUS
  <2> QED BY <1>3, <2>1
<1>5. /\ \A n \in Nat \X Nat : Listed(n) <=> Named(n, m)
      /\ refusals = Refused(m)
  BY <1>3, <1>4 DEF FilesInv, ReadSoFar
<1>6. /\ Lines' = Lines
      /\ \A k : Something(k)' = Something(k) /\ Sound(k)' = Sound(k) /\ Did(Lines[k])' = Did(Lines[k])
  <2>1. Lines' = Lines /\ DidColumn' = DidColumn /\ ToColumn' = ToColumn
    BY <1>3 DEF Lines, SheetRows, Headless, Head0, DidColumn, ToColumn
  <2> QED BY <2>1 DEF Something, Sound, Did, To
<1>7. PICK row : row = Lines[m + 1] OBVIOUS
<1>8. Something(m + 1) <=> Did(row) # Empty BY <1>7 DEF Something
<1>9. Sound(m + 1) <=> Reads(Did(row)) /\ Assigns(To(row)) BY <1>7 DEF Sound
<1>10. SUFFICES /\ \E V : numbers' \in Seq(V)
                /\ Len(numbers') <= MaxDIDs
                /\ NoneTwice'
                /\ verdict' \in {"rows", "full"}
                /\ verdict' = "rows" =>
                     /\ \A n \in Nat \X Nat : Listed(n)' <=> Named(n, m + 1)
                     /\ refusals' = Refused(m + 1)
  <2>1. sheet' \in Files /\ line' \in 1 .. Len(Lines') + 1 BY <1>2, <1>3, <1>4, <1>6 DEF FilesInv
  <2>2. ASSUME verdict' = "rows" PROVE ReadSoFar'
    <3>1. ASSUME NEW n \in Nat \X Nat PROVE Listed(n)' <=> Named(n, line - 1)'
      <4>1. Named(n, line - 1)' <=> Named(n, m + 1) BY <1>4, <1>6 DEF Named
      <4> QED BY <1>10, <2>2, <4>1
    <3>2. Refused(line - 1)' = Refused(m + 1) BY <1>4, <1>6 DEF Refused
    <3> QED BY <1>10, <2>2, <3>1, <3>2 DEF ReadSoFar
  <2>3. verdict' # "end" BY <1>10
  <2> QED BY <1>10, <2>1, <2>2, <2>3 DEF FilesInv
<1>11. PICK V : numbers \in Seq(V) BY DEF FilesInv
<1>12. Len(numbers) <= MaxDIDs /\ NoneTwice BY DEF FilesInv
<1>13. CASE Did(row) = Empty /\ UNCHANGED <<numbers, refusals, repeated, verdict>>
  <2>1. ~Something(m + 1) BY <1>8, <1>13
  <2>2. (\A n : Named(n, m + 1) <=> Named(n, m)) /\ Refused(m + 1) = Refused(m) BY <2>1, OneMore
  <2>3. \A n : Listed(n)' <=> Listed(n) BY <1>13 DEF Listed
  <2>4. NoneTwice' BY <1>12, <1>13 DEF NoneTwice
  <2> QED BY <1>3, <1>5, <1>11, <1>12, <1>13, <2>2, <2>3, <2>4
<1>14. CASE /\ Did(row) # Empty /\ ~(Reads(Did(row)) /\ Assigns(To(row)))
            /\ refusals' = refusals \cup {row[2]} /\ UNCHANGED <<numbers, repeated, verdict>>
  <2>1. Something(m + 1) /\ ~Sound(m + 1) BY <1>8, <1>9, <1>14
  <2>2. (\A n : Named(n, m + 1) <=> Named(n, m)) /\ Refused(m + 1) = Refused(m) \cup {row[2]}
    BY <1>7, <2>1, OneMore
  <2>3. \A n : Listed(n)' <=> Listed(n) BY <1>14 DEF Listed
  <2>4. NoneTwice' BY <1>12, <1>14 DEF NoneTwice
  <2> QED BY <1>3, <1>5, <1>11, <1>12, <1>14, <2>2, <2>3, <2>4
<1>15. ASSUME NEW fresh, NEW room, NEW kept, NEW new,
              Did(row) # Empty, Reads(Did(row)), Assigns(To(row)),
              new = Expand(Did(row)), fresh = Fresh(new), room = MaxDIDs - Len(numbers),
              kept = IF Len(fresh) <= room THEN fresh ELSE SubSeq(fresh, 1, room),
              numbers' = numbers \o [i \in DOMAIN kept |-> [number |-> kept[i], to |-> To(row), row |-> row[2]]],
              IF Len(fresh) <= room THEN UNCHANGED <<refusals, verdict>> ELSE verdict' = "full"
       PROVE  /\ \E W : numbers' \in Seq(W)
              /\ Len(numbers') <= MaxDIDs
              /\ NoneTwice'
              /\ verdict' \in {"rows", "full"}
              /\ verdict' = "rows" =>
                   /\ \A n \in Nat \X Nat : Listed(n)' <=> Named(n, m + 1)
                   /\ refusals' = Refused(m + 1)
  <2>1. Something(m + 1) /\ Sound(m + 1) BY <1>8, <1>9, <1>15
  <2>2. \A n : Named(n, m + 1) <=> Named(n, m) \/ Names(Did(row), n) BY <1>7, <2>1, OneMore
  <2>3. Refused(m + 1) = Refused(m) BY <2>1, OneMore
  <2>4. IsCell(Did(row))
    <3>1. PICK i : i = at[m + 1] OBVIOUS
    <3>2. m + 1 \in 1 .. N BY <1>3, <1>4
    <3>3. i \in 1 .. Len(sheet) /\ row[1] = sheet[i] BY <1>1, <1>7, <3>1, <3>2 DEF LinesOf
    <3>4. i \in DOMAIN sheet
      <4>1. sheet \in Seq({sheet[j] : j \in DOMAIN sheet}) BY CellsAssumption DEF FilesInv
      <4> QED BY <3>3, <4>1, LenProperties
    <3>5. DidColumn \in 1 .. 2 BY DEF DidColumn
    <3>6. IsCell(sheet[i][DidColumn]) BY <3>4, <3>5, CellsAssumption DEF FilesInv
    <3> QED BY <3>3, <3>6 DEF Did
  <2>5. /\ NoneTwice' /\ (\E W : numbers' \in Seq(W)) /\ Len(numbers') <= MaxDIDs
        /\ Len(fresh) <= room => \A n \in Nat \X Nat : Listed(n)' <=> Listed(n) \/ Names(Did(row), n)
    BY <1>11, <1>12, <1>15, <2>4, RowAdds, ZenonT(30)
  <2>6. CASE Len(fresh) <= room BY <1>3, <1>5, <1>15, <2>2, <2>3, <2>5, <2>6
  <2>7. CASE ~(Len(fresh) <= room)
    <3>1. verdict' = "full" BY <1>15, <2>7
    <3> QED BY <2>5, <3>1
  <2> QED BY <2>6, <2>7
<1> QED
  <2>1. CASE /\ Did(row) # Empty /\ Reads(Did(row)) /\ Assigns(To(row))
             /\ LET new == Expand(Did(row))
                    fresh == Fresh(new)
                    room == MaxDIDs - Len(numbers)
                    kept == IF Len(fresh) <= room THEN fresh ELSE SubSeq(fresh, 1, room)
                IN  /\ numbers' = numbers \o [i \in DOMAIN kept |-> [number |-> kept[i], to |-> To(row), row |-> row[2]]]
                    /\ IF Len(fresh) <= room THEN UNCHANGED <<refusals, verdict>> ELSE verdict' = "full"
    <3>1. PICK new : new = Expand(Did(row)) OBVIOUS
    <3>2. PICK fresh : fresh = Fresh(new) OBVIOUS
    <3>3. PICK room : room = MaxDIDs - Len(numbers) OBVIOUS
    <3>4. PICK kept : kept = IF Len(fresh) <= room THEN fresh ELSE SubSeq(fresh, 1, room) OBVIOUS
    <3>5. numbers' = numbers \o [i \in DOMAIN kept |-> [number |-> kept[i], to |-> To(row), row |-> row[2]]]
      BY <2>1, <3>1, <3>2, <3>3, <3>4
    <3>6. IF Len(fresh) <= room THEN UNCHANGED <<refusals, verdict>> ELSE verdict' = "full"
      BY <2>1, <3>1, <3>2, <3>3
    <3> QED BY <1>15, <2>1, <3>1, <3>2, <3>3, <3>4, <3>5, <3>6
  <2>2. line = m + 1 /\ Lines[line] = row BY <1>4, <1>7
  <2> QED BY <1>13, <1>14, <2>1, <2>2 DEF ReadRow

\* Told apart, as many.
LEMMA AsMany ==
  ASSUME NEW B, IsFiniteSet(B), NEW f, DOMAIN f = B, \A j, k \in B : f[j] = f[k] => j = k, NEW T,
         T = {f[k] : k \in B}, f \in [B -> T]
  PROVE  Cardinality(T) = Cardinality(B)
<1>1. f \in Injection(B, T) BY DEF Injection, IsInjective
<1>2. f \in Surjection(B, T) BY DEF Surjection
<1>3. ExistsBijection(B, T) BY <1>1, <1>2 DEF Bijection, ExistsBijection
<1> QED BY <1>3, FS_Bijection

\* At the end of the file the rows are the lines that say something.
LEMMA FilesHold ==
  ASSUME FilesInv
  PROVE  FilesAreRead
<1>N. PICK N \in Nat : \E at : LinesOf(at, N) BY LinesFine DEF FilesInv
<1>1. PICK at : LinesOf(at, N) BY <1>N
<1>2. /\ Len(Lines) = N /\ \A k \in 1 .. N : at[k] \in 1 .. Len(sheet) /\ Lines[k][1] = sheet[at[k]] /\ Lines[k][2] \in Nat
      /\ \A j, k \in 1 .. N : at[j] = at[k] => j = k
      /\ \A j, k \in 1 .. N : Lines[j][2] = Lines[k][2] => j = k
      /\ \A k \in 1 .. N : at[k] = 1 => Headless
      /\ \A i \in 1 .. Len(sheet) :
           (IF i = 1 THEN Headless ELSE ~BlankLine(sheet[i])) => \E k \in 1 .. N : at[k] = i
      /\ NoGaps => \A k \in 1 .. N : Lines[k][2] = at[k]
  BY <1>1 DEF LinesOf
<1>3. DOMAIN sheet = 1 .. Len(sheet)
  <2>1. sheet \in Seq({sheet[j] : j \in DOMAIN sheet}) BY CellsAssumption DEF FilesInv
  <2> QED BY <2>1, LenProperties
<1>4. Len(sheet) \in Nat /\ Len(sheet) # 0
  <2>1. sheet \in Seq({sheet[j] : j \in DOMAIN sheet}) /\ sheet # << >> BY CellsAssumption DEF FilesInv
  <2> QED BY <2>1, EmptySeq
<1>5. Headless <=> Reads(sheet[1][DidColumn])
  <2>1. Head0 = sheet[1]
    <3>1. sheet \in Seq({sheet[j] : j \in DOMAIN sheet}) /\ sheet # << >> BY CellsAssumption DEF FilesInv
    <3> QED BY <3>1 DEF Head0
  <2> QED BY <2>1 DEF Headless
<1>6. ASSUME NEW k \in 1 .. N
      PROVE  /\ Did(Lines[k]) = sheet[at[k]][DidColumn]
             /\ Something(k) <=> at[k] \in Told
             /\ Sound(k) <=> ~AtFault(at[k])
  <2>1. PICK i \in 1 .. Len(sheet) : i = at[k] BY <1>2
  <2>2. Lines[k][1] = sheet[i] /\ (i = 1 => Headless) BY <1>2, <2>1
  <2>3. Did(Lines[k]) = sheet[i][DidColumn] BY <2>2 DEF Did
  <2>4. i \in Told <=> sheet[i][DidColumn] # Empty
    <3>1. i > 1 \/ i = 1 BY <1>4
    <3> QED BY <1>3, <1>5, <2>2, <3>1 DEF Told
  <2>5. Assigns(Empty) BY DEF Assigns, Empty
  <2>6. Assigns(To(Lines[k])) <=> ToColumn = 0 \/ Assigns(sheet[i][ToColumn]) BY <2>2, <2>5 DEF To
  <2> QED BY <2>1, <2>3, <2>4, <2>6 DEF Something, Sound, AtFault
<1>7. ASSUME NEW i \in Told PROVE \E k \in 1 .. N : at[k] = i
  <2>1. i \in 1 .. Len(sheet) /\ sheet[i][DidColumn] # Empty /\ (i > 1 \/ Reads(sheet[1][DidColumn]))
    BY <1>3 DEF Told
  <2>2. i = 1 => Headless BY <1>5, <2>1
  <2>3. ~BlankLine(sheet[i])
    <3>1. DidColumn = 1 \/ DidColumn = 2 BY DEF DidColumn
    <3> QED BY <2>1, <3>1 DEF BlankLine
  <2> QED BY <1>2, <2>1, <2>2, <2>3
<1>8. PICK B : B = {k \in 1 .. N : Something(k) /\ ~Sound(k)} OBVIOUS
<1>9. PICK T : T = {i \in Told : AtFault(i)} OBVIOUS
<1>10. T = {at[k] : k \in B}
  <2>1. ASSUME NEW i \in T PROVE i \in {at[k] : k \in B}
    <3>1. i \in Told /\ AtFault(i) BY <1>9
    <3>2. PICK k \in 1 .. N : at[k] = i BY <1>7, <3>1
    <3>3. k \in B BY <1>6, <1>8, <3>1, <3>2
    <3> QED BY <3>2, <3>3
  <2>2. ASSUME NEW k \in B PROVE at[k] \in T
    <3>1. k \in 1 .. N /\ Something(k) /\ ~Sound(k) BY <1>8
    <3> QED BY <1>6, <1>9, <3>1
  <2> QED BY <2>1, <2>2
<1>11. Refused(N) = {Lines[k][2] : k \in B} BY <1>8 DEF Refused
<1>12. IsFiniteSet(B)
  <2>1. B \in SUBSET (1 .. N) /\ IsFiniteSet(1 .. N) BY <1>8, FS_Interval
  <2> QED BY <2>1, FS_Subset
<1>13. Cardinality(T) = Cardinality(B)
  <2>1. PICK f : f = [k \in B |-> at[k]] OBVIOUS
  <2>2. DOMAIN f = B /\ \A k \in B : f[k] = at[k] BY <2>1
  <2>3. \A j, k \in B : f[j] = f[k] => j = k BY <1>2, <1>8, <2>2
  <2>4. T = {f[k] : k \in B} BY <1>10, <2>2
  <2>5. f \in [B -> T] BY <2>1, <2>4
  <2> QED BY <1>12, <2>2, <2>3, <2>4, <2>5, AsMany
<1>14. Cardinality(Refused(N)) = Cardinality(B)
  <2>1. PICK f : f = [k \in B |-> Lines[k][2]] OBVIOUS
  <2>2. DOMAIN f = B /\ \A k \in B : f[k] = Lines[k][2] BY <2>1
  <2>3. \A j, k \in B : f[j] = f[k] => j = k BY <1>2, <1>8, <2>2
  <2>4. PICK R : R = Refused(N) OBVIOUS
  <2>5. R = {f[k] : k \in B} BY <1>11, <2>2, <2>4
  <2>6. f \in [B -> R] BY <2>1, <2>5
  <2> QED BY <1>12, <2>2, <2>3, <2>4, <2>5, <2>6, AsMany
<1>15. ASSUME verdict = "end"
       PROVE  refusals = Refused(N) /\ \A n \in Nat \X Nat : Listed(n) <=> Named(n, N)
  <2>1. line - 1 = N BY <1>2, <1>15 DEF FilesInv
  <2> QED BY <1>15, <2>1 DEF FilesInv, ReadSoFar
<1>16. ASSUME NEW n \in Digits PROVE n \in Nat \X Nat
  <2>1. PICK w \in 1 .. 2, v \in 0 .. Base * Base - 1 : n = <<w, v>> BY DEF Digits
  <2>2. w \in Nat /\ v \in Nat
    <3>1. Base * Base - 1 \in Int BY NumberSheetsAssumption
    <3> QED BY <3>1
  <2> QED BY <2>1, <2>2
<1>17. ASSUME NEW n PROVE Named(n, N) <=> \E i \in Told : ~AtFault(i) /\ Names(sheet[i][DidColumn], n)
  <2>1. ASSUME Named(n, N) PROVE \E i \in Told : ~AtFault(i) /\ Names(sheet[i][DidColumn], n)
    <3>1. PICK k \in 1 .. N : Something(k) /\ Sound(k) /\ Names(Did(Lines[k]), n) BY <2>1 DEF Named
    <3> QED BY <1>6, <3>1
  <2>2. ASSUME NEW i \in Told, ~AtFault(i), Names(sheet[i][DidColumn], n) PROVE Named(n, N)
    <3>1. PICK k \in 1 .. N : at[k] = i BY <1>7
    <3>2. Something(k) /\ Sound(k) /\ Did(Lines[k]) = sheet[i][DidColumn] BY <1>6, <2>2, <3>1
    <3> QED BY <2>2, <3>2 DEF Named
  <2> QED BY <2>1, <2>2
<1>18. EveryNumberArrives
  <2>1. NoneTwice BY DEF FilesInv
  <2>2. verdict = "end" => \A n \in Digits : Listed(n) <=> \E i \in Told : ~AtFault(i) /\ Names(sheet[i][DidColumn], n)
    BY <1>15, <1>16, <1>17
  <2>3. verdict = "end" => Cardinality(refusals) = Cardinality({i \in Told : AtFault(i)})
    BY <1>9, <1>13, <1>14, <1>15
  <2> QED BY <2>1, <2>2, <2>3 DEF EveryNumberArrives, NoneTwice
<1>19. RefusalsNameTheirLinesUndisturbed
  <2>1. ASSUME NoGaps, verdict = "end" PROVE refusals = T
    <3>1. \A k \in B : Lines[k][2] = at[k] BY <1>2, <1>8, <2>1
    <3>2. {Lines[k][2] : k \in B} = {at[k] : k \in B} BY <3>1
    <3> QED BY <1>10, <1>11, <1>15, <2>1, <3>2
  <2> QED BY <1>9, <2>1 DEF RefusalsNameTheirLinesUndisturbed, RefusalsNameTheirLines
<1> QED BY <1>18, <1>19 DEF FilesAreRead

\* ParseDIDFile: when a file has been read to its end, exactly the numbers that its
\* sound lines name are there, each once, the first line's where it is a number, and
\* as many lines are refused as are at fault; under their own numbers where no line
\* before them is blank.
THEOREM FilesRead == NumbersSpec => []FilesAreRead
<1>1. NumbersInit => FilesInv
  <2>1. SUFFICES ASSUME NumbersInit PROVE FilesInv OBVIOUS
  <2>2. sheet \in Files /\ line = 1 /\ numbers = << >> /\ refusals = {} /\ verdict = "rows"
    BY <2>1 DEF NumbersInit
  <2>N. PICK N \in Nat : \E at : LinesOf(at, N) BY <2>2, LinesFine
  <2>3. PICK at : LinesOf(at, N) BY <2>N
  <2>4. Len(Lines) = N BY <2>3 DEF LinesOf
  <2>5. numbers \in Seq({}) /\ Len(numbers) = 0 /\ DOMAIN numbers = {} BY <2>2
  <2>6. ReadSoFar BY <2>2, <2>5 DEF ReadSoFar, Listed, Named, Refused
  <2>7. NoneTwice BY <2>5 DEF NoneTwice
  <2>8. Len(numbers) <= MaxDIDs BY <2>5, NumberSheetsAssumption
  <2>9. line \in 1 .. Len(Lines) + 1 BY <2>2, <2>4
  <2> QED BY <2>2, <2>5, <2>6, <2>7, <2>8, <2>9 DEF FilesInv
<1>2. FilesInv /\ [NumbersNext]_fileVars => FilesInv'
  <2>1. SUFFICES ASSUME FilesInv, [NumbersNext]_fileVars PROVE FilesInv' OBVIOUS
  <2>2. CASE ReadRow BY <2>1, <2>2, FilesRow
  <2>3. ASSUME EndOfFile \/ UNCHANGED fileVars PROVE FilesInv'
    <3>1. UNCHANGED <<sheet, line, numbers, refusals>> BY <2>3 DEF EndOfFile, fileVars
    <3>2. Lines' = Lines /\ DidColumn' = DidColumn /\ ToColumn' = ToColumn
      BY <3>1 DEF Lines, SheetRows, Headless, Head0, DidColumn, ToColumn
    <3>3. \A k : Something(k)' = Something(k) /\ Sound(k)' = Sound(k) /\ Did(Lines[k])' = Did(Lines[k])
      BY <3>2 DEF Something, Sound, Did, To
    <3>4. NoneTwice' BY <2>1, <3>1 DEF FilesInv, NoneTwice
    <3>5. ReadSoFar => ReadSoFar' BY <3>1, <3>2, <3>3 DEF ReadSoFar, Listed, Named, Refused
    <3>6. CASE EndOfFile
      <4>1. verdict = "rows" /\ verdict' = "end" /\ line \notin DOMAIN Lines BY <3>6 DEF EndOfFile
      <4>N. PICK N \in Nat : \E at : LinesOf(at, N) BY <2>1, LinesFine DEF FilesInv
      <4>2. PICK at : LinesOf(at, N) BY <4>N
      <4>3. line = Len(Lines) + 1 BY <2>1, <4>1, <4>2 DEF FilesInv, LinesOf
      <4> QED BY <2>1, <3>1, <3>2, <3>4, <3>5, <4>1, <4>3 DEF FilesInv
    <3>7. CASE UNCHANGED fileVars
      <4>1. verdict' = verdict BY <3>7 DEF fileVars
      <4> QED BY <2>1, <3>1, <3>2, <3>4, <3>5, <4>1 DEF FilesInv
    <3> QED BY <2>3, <3>6, <3>7
  <2> QED BY <2>1, <2>2, <2>3 DEF NumbersNext
<1>3. FilesInv => FilesAreRead BY FilesHold
<1> QED BY <1>1, <1>2, <1>3, PTL DEF NumbersSpec

-----------------------------------------------------------------------------
(***************************************************************************)
(* Histories: what is put together from pages.                             *)
(***************************************************************************)

\* What is kept of a sequence, member by member.
LEMMA KeptFine ==
  ASSUME NEW V, NEW s \in Seq(V), NEW keep \in SUBSET (1 .. Len(s))
  PROVE  /\ Sift(s, keep) \in Seq(V) /\ Len(Sift(s, keep)) = Cardinality(keep)
         /\ \A i \in 1 .. Len(Sift(s, keep)) : \E j \in keep : Sift(s, keep)[i] = s[j]
         /\ \A j \in keep : \E i \in 1 .. Len(Sift(s, keep)) : Sift(s, keep)[i] = s[j]
<1>1. PICK N \in Nat : N = Len(s) /\ \A i \in 1 .. N : s[i] \in V BY LenProperties
<1>2. PICK r : r = Sift(s, keep) OBVIOUS
<1>3. Sifted(s, keep, N, r) BY <1>1, <1>2, SiftFine
<1>4. PICK m \in Nat : m = Len(r) BY <1>3 DEF Sifted
<1>5. PICK at : Places(s, keep, N, r, at) BY <1>3 DEF Sifted
<1>6. /\ \A j \in 1 .. m : at[j] \in keep /\ r[j] = s[at[j]]
      /\ \A j, k \in 1 .. m : at[j] = at[k] => j = k
      /\ \A i \in keep : \E j \in 1 .. m : at[j] = i
      /\ DOMAIN at = 1 .. m
  <2>1. keep = keep \cap (1 .. N) BY <1>1
  <2> QED BY <1>4, <1>5, <2>1 DEF Places
<1>7. r \in Seq(V)
  <2>1. PICK W : W = {s[i] : i \in 1 .. Len(s)} OBVIOUS
  <2>2. W \subseteq V BY <1>1, <2>1
  <2>3. r \in Seq(W) BY <1>3, <2>1 DEF Sifted
  <2>4. r \in [1 .. m -> V] BY <1>4, <2>2, <2>3, LenProperties
  <2> QED BY <2>4
<1>8. m = Cardinality(keep)
  <2>1. PICK B : B = 1 .. m OBVIOUS
  <2>2. IsFiniteSet(B) /\ Cardinality(B) = m BY <2>1, FS_Interval
  <2>3. keep = {at[j] : j \in B}
    <3>1. \A j \in B : at[j] \in keep BY <1>6, <2>1
    <3>2. \A x \in keep : \E j \in B : at[j] = x BY <1>6, <2>1
    <3> QED BY <3>1, <3>2
  <2>4. at \in [B -> keep]
    <3>1. at \in [1 .. m -> keep \cap (1 .. N)] BY <1>4, <1>5 DEF Places
    <3> QED BY <1>6, <2>1, <3>1
  <2> QED BY <1>6, <2>1, <2>2, <2>3, <2>4, AsMany
<1>9. \A i \in 1 .. m : \E j \in keep : r[i] = s[j] BY <1>6
<1>10. \A j \in keep : \E i \in 1 .. m : r[i] = s[j] BY <1>6
<1> QED BY <1>2, <1>4, <1>7, <1>8, <1>9, <1>10

\* How far pages go.
LEMMA PagesFine ==
  ASSUME NEW V, NEW list \in Seq(V)
  PROVE  /\ TotalPages(list) \in Nat /\ TotalPages(list) * PerPage \in Nat
         /\ Len(list) <= TotalPages(list) * PerPage
         /\ TotalPages(list) <= 1 => Len(list) <= PerPage
<1>1. PICK N \in Nat : N = Len(list) BY LenProperties
<1>2. PICK c \in Nat \ {0} : c = PerPage BY HistoriesAssumption
<1>3. PICK a \in Nat : a = N + c - 1 BY <1>2
<1>4. PICK q, t : q = a \div c /\ t = a % c OBVIOUS
<1>5. q \in Nat /\ t \in 0 .. c - 1 /\ a = q * c + t BY <1>4, Z3
<1>6. TotalPages(list) = q BY <1>1, <1>2, <1>3, <1>4 DEF TotalPages
<1>7. PICK b \in Nat : b = q * c
  <2>1. q * c \in Nat BY <1>2, <1>5
  <2> QED BY <2>1
<1>8. N <= b BY <1>3, <1>5, <1>7
<1>9. ASSUME q <= 1 PROVE N <= c
  <2>1. q = 0 \/ q = 1 BY <1>5, <1>9
  <2>2. b = 0 \/ b = c BY <1>2, <1>7, <2>1
  <2> QED BY <1>8, <2>2
<1> QED BY <1>1, <1>2, <1>5, <1>6, <1>7, <1>8, <1>9

\* A row's place on a page that begins after a.
LEMMA Offset ==
  \A a, i, z \in Nat : a < i /\ i <= z =>
    a + 1 <= z /\ i - a \in 1 .. z - (a + 1) + 1 /\ a + 1 + (i - a) - 1 = i
OBVIOUS

\* What is on a page: the rows after the first a.
HasRows(page, list, a) ==
  \A i \in 1 .. Len(list) : a < i /\ i <= a + PerPage => \E j \in 1 .. Len(page) : page[j] = list[i]

\* Those rows are on it, and there are some.
LEMMA PageFine ==
  ASSUME NEW V, NEW list \in Seq(V), NEW p \in Nat, NEW a \in Nat, a = p * PerPage
  PROVE  /\ PageOf(list, p + 1) \in Seq(V)
         /\ HasRows(PageOf(list, p + 1), list, a)
         /\ a < Len(list) => PageOf(list, p + 1) # << >>
<1>1. PICK N \in Nat : N = Len(list) /\ \A i \in 1 .. N : list[i] \in V BY LenProperties
<1>2. PICK c \in Nat \ {0} : c = PerPage BY HistoriesAssumption
<1>3. PICK z \in Nat : z = IF a + c < N THEN a + c ELSE N BY <1>2
<1>4. PICK g : g = SubSeq(list, a + 1, z) OBVIOUS
<1>5. PageOf(list, p + 1) = g
  <2>1. (p + 1 - 1) * PerPage + 1 = a + 1
    <3>1. p + 1 - 1 = p OBVIOUS
    <3> QED BY <3>1
  <2>2. (p + 1) * PerPage = a + c
    <3>1. (p + 1) * c = p * c + c OBVIOUS
    <3> QED BY <1>2, <3>1
  <2>a. PICK q : q = p + 1 OBVIOUS
  <2>3. PICK lo, hi : lo = (q - 1) * PerPage + 1 /\ hi = q * PerPage OBVIOUS
  <2>4. PageOf(list, q) = SubSeq(list, lo, IF hi < Len(list) THEN hi ELSE Len(list)) BY <2>3 DEF PageOf
  <2>5. lo = a + 1 /\ hi = a + c BY <2>1, <2>2, <2>3, <2>a
  <2> QED BY <1>1, <1>3, <1>4, <2>4, <2>5, <2>a
<1>6. /\ g \in Seq(V) /\ Len(g) = (IF a + 1 <= z THEN z - (a + 1) + 1 ELSE 0)
      /\ \A i \in 1 .. z - (a + 1) + 1 : g[i] = list[a + 1 + i - 1]
  <2>1. \A i \in a + 1 .. z : list[i] \in V
    <3>1. \A i \in a + 1 .. z : i \in 1 .. N BY <1>2, <1>3
    <3> QED BY <1>1, <3>1
  <2> QED BY <1>4, <2>1, SubSeqProperties
<1>7. ASSUME NEW i \in 1 .. N, a < i, i <= a + c PROVE \E j \in 1 .. Len(g) : g[j] = list[i]
  <2>1. PICK j : j = i - a OBVIOUS
  <2>2. i <= z BY <1>3, <1>7
  <2>5. i \in Nat /\ a \in Nat /\ z \in Nat BY <1>7
  <2>4. a + 1 <= z /\ j \in 1 .. z - (a + 1) + 1 /\ a + 1 + j - 1 = i BY <1>7, <2>1, <2>2, <2>5, Offset
  <2>3. j \in 1 .. Len(g) BY <1>6, <2>4
  <2> QED BY <1>6, <2>3, <2>4
<1>8. ASSUME a < N PROVE g # << >>
  <2>1. Len(g) # 0 BY <1>2, <1>3, <1>6, <1>8
  <2> QED BY <2>1
<1> QED BY <1>1, <1>2, <1>5, <1>6, <1>7, <1>8 DEF HasRows

\* A list that fits on a page is its first page.
LEMMA OnePage ==
  ASSUME NEW V, NEW list \in Seq(V)
  PROVE  PageOf(list, 1) \in Seq(V) /\ (Len(list) <= PerPage => PageOf(list, 1) = list)
<1>1. PICK N \in Nat : N = Len(list) /\ list \in [1 .. N -> V] BY LenProperties
<1>2. PICK c \in Nat \ {0} : c = PerPage BY HistoriesAssumption
<1>3. PICK z \in Nat : z = IF c < N THEN c ELSE N BY <1>2
<1>4. PICK g : g = SubSeq(list, 1, z) OBVIOUS
<1>5. PageOf(list, 1) = g
  <2>1. (1 - 1) * PerPage + 1 = 1 /\ 1 * PerPage = c BY <1>2
  <2> QED BY <1>1, <1>3, <1>4, <2>1 DEF PageOf
<1>6. g \in Seq(V) /\ Len(g) = (IF 1 <= z THEN z - 1 + 1 ELSE 0) /\ \A i \in 1 .. z - 1 + 1 : g[i] = list[1 + i - 1]
  <2>1. \A i \in 1 .. z : list[i] \in V
    <3>1. \A i \in 1 .. z : i \in 1 .. N BY <1>2, <1>3
    <3>2. \A i \in 1 .. N : list[i] \in V BY <1>1
    <3> QED BY <3>1, <3>2
  <2> QED BY <1>4, <2>1, SubSeqProperties
<1>7. ASSUME N <= c PROVE g = list
  <2>1. z = N BY <1>3, <1>7
  <2>2. Len(g) = N BY <1>6, <2>1
  <2>3. \A i \in 1 .. N : g[i] = list[i] BY <1>6, <2>1
  <2>4. g \in [1 .. N -> V] BY <1>6, <2>2, LenProperties
  <2> QED BY <1>1, <2>3, <2>4
<1> QED BY <1>1, <1>2, <1>5, <1>6, <1>7

\* Sorting by the time as it is written: every entry gets a place of its own.
Before(es, i, j) == es[i].text < es[j].text \/ (es[i].text = es[j].text /\ i <= j)
SortedBy(es, L, rank, s) ==
  /\ rank \in [1 .. L -> 1 .. L]
  /\ \A i, j \in 1 .. L : rank[i] = rank[j] => i = j
  /\ \A r \in 1 .. L : \E i \in 1 .. L : rank[i] = r
  /\ \A i, j \in 1 .. L : Before(es, i, j) /\ i # j => rank[i] < rank[j]
  /\ Len(s) = L /\ DOMAIN s = 1 .. L /\ s = [r \in 1 .. L |-> s[r]]
  /\ \A i \in 1 .. L : s[rank[i]] = es[i]

\* Sorted does it.
LEMMA SortedFine ==
  ASSUME NEW es, NEW L \in Nat, Len(es) = L, DOMAIN es = 1 .. L, \A i \in 1 .. L : es[i].text \in Nat
  PROVE  \E rank : SortedBy(es, L, rank, Sorted(es))
<1> DEFINE up(i) == {j \in 1 .. L : Before(es, j, i)}
<1>1. PICK rank : rank = [i \in 1 .. L |-> Cardinality(up(i))] OBVIOUS
<1>2. ASSUME NEW i \in 1 .. L
      PROVE  /\ up(i) \in SUBSET (1 .. L) /\ i \in up(i) /\ IsFiniteSet(up(i))
             /\ rank[i] = Cardinality(up(i)) /\ rank[i] \in 1 .. L
  <2>1. up(i) \in SUBSET (1 .. L) /\ i \in up(i) BY DEF Before
  <2>2. PICK U : U = up(i) OBVIOUS
  <2>3. IsFiniteSet(1 .. L) /\ Cardinality(1 .. L) = L BY FS_Interval
  <2>4. IsFiniteSet(U) /\ Cardinality(U) <= L BY <2>1, <2>2, <2>3, FS_Subset
  <2>5. Cardinality(U) \in Nat BY <2>4, FS_CardinalityType
  <2>6. Cardinality(U) # 0 BY <2>1, <2>2, <2>4, FS_EmptySet
  <2>7. rank[i] = Cardinality(U) BY <1>1, <2>2
  <2> QED BY <2>1, <2>2, <2>4, <2>5, <2>6, <2>7
<1>3. ASSUME NEW i \in 1 .. L, NEW j \in 1 .. L, Before(es, i, j), i # j PROVE rank[i] < rank[j]
  <2>1. PICK x \in Nat, y \in Nat : x = es[i].text /\ y = es[j].text OBVIOUS
  <2>2. up(i) \subseteq up(j)
    <3>1. ASSUME NEW k \in 1 .. L, Before(es, k, i) PROVE Before(es, k, j)
      <4>1. PICK z \in Nat : z = es[k].text OBVIOUS
      <4> QED BY <1>3, <2>1, <3>1, <4>1 DEF Before
    <3> QED BY <3>1
  <2>3. j \notin up(i) BY <1>3, <2>1 DEF Before
  <2>4. PICK A, B : A = up(i) /\ B = up(j) OBVIOUS
  <2>5. A \in SUBSET B /\ A # B /\ IsFiniteSet(B) BY <1>2, <2>2, <2>3, <2>4
  <2>6. Cardinality(A) <= Cardinality(B) /\ (Cardinality(B) = Cardinality(A) => B = A) BY <2>5, FS_Subset
  <2>7. rank[i] = Cardinality(A) /\ rank[j] = Cardinality(B) /\ rank[i] \in 1 .. L /\ rank[j] \in 1 .. L
    BY <1>2, <2>4
  <2> QED BY <2>5, <2>6, <2>7
<1>4. ASSUME NEW i \in 1 .. L, NEW j \in 1 .. L, rank[i] = rank[j] PROVE i = j
  <2>1. PICK x \in Nat, y \in Nat : x = es[i].text /\ y = es[j].text OBVIOUS
  <2>2. Before(es, i, j) \/ Before(es, j, i) BY <2>1 DEF Before
  <2>3. rank[i] \in 1 .. L /\ rank[j] \in 1 .. L BY <1>2
  <2> QED BY <1>3, <1>4, <2>2, <2>3
<1> HIDE DEF up
<1>5. rank \in [1 .. L -> 1 .. L]
  <2>1. \A i \in 1 .. L : Cardinality(up(i)) \in 1 .. L BY <1>2
  <2> QED BY <1>1, <2>1
<1>6. rank \in Surjection(1 .. L, 1 .. L)
  <2>1. rank \in Injection(1 .. L, 1 .. L) BY <1>4, <1>5 DEF Injection, IsInjective
  <2>2. IsFiniteSet(1 .. L) BY FS_Interval
  <2> QED BY <2>1, <2>2, FS_Injection
<1>7. \A r \in 1 .. L : \E i \in 1 .. L : rank[i] = r BY <1>6 DEF Surjection
<1>8. PICK s : s = Sorted(es) OBVIOUS
<1>9. DOMAIN s = 1 .. L /\ Len(s) = L /\ s = [r \in 1 .. L |-> s[r]] BY <1>8 DEF Sorted
<1>10. ASSUME NEW r \in 1 .. L PROVE s[r] = es[CHOOSE i \in 1 .. L : rank[i] = r]
  <2>1. \A i \in 1 .. L : Cardinality({j \in DOMAIN es : es[j].text < es[i].text \/ (es[j].text = es[i].text /\ j <= i)}) = rank[i]
    BY <1>2 DEF up, Before
  <2>2. (CHOOSE i \in DOMAIN es :
           Cardinality({j \in DOMAIN es : es[j].text < es[i].text \/ (es[j].text = es[i].text /\ j <= i)}) = r)
          = CHOOSE i \in 1 .. L : rank[i] = r
    BY <2>1
  <2>3. s[r] = es[CHOOSE i \in DOMAIN es :
                    Cardinality({j \in DOMAIN es : es[j].text < es[i].text \/ (es[j].text = es[i].text /\ j <= i)}) = r]
    BY <1>8 DEF Sorted
  <2> QED BY <2>2, <2>3
<1>11. ASSUME NEW i \in 1 .. L PROVE s[rank[i]] = es[i]
  <2>1. PICK r \in 1 .. L : r = rank[i] BY <1>5
  <2>2. PICK j : j = CHOOSE k \in 1 .. L : rank[k] = r OBVIOUS
  <2>3. j \in 1 .. L /\ rank[j] = r BY <2>1, <2>2
  <2>4. j = i BY <1>4, <2>1, <2>3
  <2>5. s[r] = es[j] BY <1>10, <2>2
  <2> QED BY <2>1, <2>4, <2>5
<1> QED BY <1>3, <1>4, <1>5, <1>7, <1>8, <1>9, <1>11 DEF SortedBy

\* A ticket's messages, blocks of time and what a timeline has of them.
Posts == [at : 0 .. MaxHour, from : Origins]
Blocks == [ours : BOOLEAN, at : 0 .. MaxHour]
EntrySet == [kind : {"created", "comment", "customer_message", "time_logged"}, at : 0 .. MaxHour, text : Nat]
InOrder(th) == \A i, j \in DOMAIN th : i <= j => th[i].at <= th[j].at

\* Its entries, before they are sorted: the beginning, the n messages, m blocks.
Shape(es, th, n, m) ==
  /\ es \in Seq(EntrySet) /\ Len(es) = 1 + n + m /\ DOMAIN es = 1 .. 1 + n + m
  /\ es[1].kind = "created"
  /\ \A i \in 2 .. 1 + n : es[i].kind = Side(th[i - 1]) /\ es[i].at = th[i - 1].at /\ es[i].text = th[i - 1].at
  /\ \A i \in 2 + n .. 1 + n + m : es[i].kind = "time_logged"
  /\ zone = 0 => \A i \in 1 .. 1 + n + m : es[i].text = es[i].at

\* What the timers of a page make.
LEMMA TimersFine ==
  ASSUME NEW ts \in Seq(Blocks), zone \in 0 .. 1
  PROVE  /\ OfTimers(ts) \in Seq(EntrySet)
         /\ Len(OfTimers(ts)) = Cardinality({i \in 1 .. Len(ts) : ts[i].ours})
         /\ \A i \in 1 .. Len(OfTimers(ts)) :
              OfTimers(ts)[i].kind = "time_logged" /\ (zone = 0 => OfTimers(ts)[i].text = OfTimers(ts)[i].at)
<1>1. DOMAIN ts = 1 .. Len(ts) BY LenProperties
<1>2. PICK keep : keep = {i \in 1 .. Len(ts) : ts[i].ours} OBVIOUS
<1>3. PICK r : r = Sift(ts, keep) OBVIOUS
<1>4. r \in Seq(Blocks) /\ Len(r) = Cardinality(keep)
  <2>1. keep \in SUBSET (1 .. Len(ts)) BY <1>2
  <2>2. PICK B : B = Blocks OBVIOUS
  <2>3. ts \in Seq(B) BY <2>2
  <2>4. r \in Seq(B) /\ Len(r) = Cardinality(keep) BY <1>3, <2>1, <2>3, KeptFine
  <2> QED BY <2>2, <2>4
<1>5. PICK m \in Nat : m = Len(r) /\ DOMAIN r = 1 .. m /\ \A i \in 1 .. m : r[i] \in Blocks
  BY <1>4, LenProperties
<1>6. PICK o : o = OfTimers(ts) OBVIOUS
<1>7. o = [i \in 1 .. m |-> [kind |-> "time_logged", at |-> r[i].at, text |-> r[i].at + zone]]
  BY <1>1, <1>2, <1>3, <1>5, <1>6 DEF OfTimers
<1>8. ASSUME NEW i \in 1 .. m
      PROVE  o[i] \in EntrySet /\ o[i].kind = "time_logged" /\ (zone = 0 => o[i].text = o[i].at)
  <2>1. PICK h \in 0 .. MaxHour : h = r[i].at BY <1>5 DEF Blocks
  <2>2. h \in Nat BY HistoriesAssumption
  <2>3. o[i] = [kind |-> "time_logged", at |-> h, text |-> h + zone] BY <1>7, <2>1
  <2> QED BY <2>2, <2>3 DEF EntrySet
<1>9. o \in Seq(EntrySet) /\ Len(o) = m
  <2>1. PICK E : E = EntrySet OBVIOUS
  <2>2. o \in [1 .. m -> E] BY <1>7, <1>8, <2>1
  <2> QED BY <1>7, <2>1, <2>2
<1> QED BY <1>2, <1>4, <1>5, <1>6, <1>8, <1>9

\* The entries of a timeline have that shape.
LEMMA EntriesFine ==
  ASSUME NEW th \in Seq(Posts), NEW n \in Nat, n = Len(th), NEW tm \in Seq(EntrySet), NEW m \in Nat, m = Len(tm),
         \A i \in 1 .. m : tm[i].kind = "time_logged" /\ (zone = 0 => tm[i].text = tm[i].at)
  PROVE  Shape(Begun \o OfThread(th) \o tm, th, n, m)
<1>1. DOMAIN th = 1 .. n /\ \A i \in 1 .. n : th[i] \in Posts BY LenProperties
<1>2. PICK E : E = EntrySet OBVIOUS
<1>3. PICK first, said : first = Begun /\ said = OfThread(th) OBVIOUS
<1>4. first \in Seq(E) /\ Len(first) = 1 /\ first[1] = [kind |-> "created", at |-> 0, text |-> 0]
  <2>1. PICK c : c = [kind |-> "created", at |-> 0, text |-> 0] OBVIOUS
  <2>2. 0 \in 0 .. MaxHour BY HistoriesAssumption
  <2>3. c \in E BY <1>2, <2>1, <2>2 DEF EntrySet
  <2>4. first = <<c>> BY <1>3, <2>1 DEF Begun
  <2>5. <<c>> \in Seq(E) /\ Len(<<c>>) = 1 /\ <<c>>[1] = c BY <2>3
  <2> QED BY <2>1, <2>4, <2>5
<1>5. said = [i \in 1 .. n |-> [kind |-> Side(th[i]), at |-> th[i].at, text |-> th[i].at]]
  BY <1>1, <1>3 DEF OfThread
<1>6. ASSUME NEW i \in 1 .. n
      PROVE  said[i] \in E /\ said[i].kind = Side(th[i]) /\ said[i].at = th[i].at /\ said[i].text = th[i].at
  <2>1. PICK h \in 0 .. MaxHour : h = th[i].at BY <1>1 DEF Posts
  <2>2. h \in Nat BY HistoriesAssumption
  <2>3. PICK k : k = Side(th[i]) OBVIOUS
  <2>4. k \in {"created", "comment", "customer_message", "time_logged"} BY <2>3 DEF Side
  <2>5. said[i] = [kind |-> k, at |-> h, text |-> h] BY <1>5, <2>1, <2>3
  <2>6. said[i] \in E BY <1>2, <2>2, <2>4, <2>5 DEF EntrySet
  <2> QED BY <2>1, <2>3, <2>5, <2>6
<1>7. said \in Seq(E) /\ Len(said) = n
  <2>1. said \in [1 .. n -> E] BY <1>5, <1>6
  <2> QED BY <1>5, <2>1
<1>8. PICK begun : begun = first \o said OBVIOUS
<1>9. /\ begun \in Seq(E) /\ Len(begun) = 1 + n
      /\ \A i \in 1 .. 1 + n : begun[i] = IF i <= 1 THEN first[i] ELSE said[i - 1]
  <2>1. /\ first \o said \in Seq(E) /\ Len(first \o said) = Len(first) + Len(said)
        /\ \A i \in 1 .. Len(first) + Len(said) :
             (first \o said)[i] = IF i <= Len(first) THEN first[i] ELSE said[i - Len(first)]
    BY <1>4, <1>7, ConcatProperties
  <2> QED BY <1>4, <1>7, <1>8, <2>1
<1>10. PICK es : es = begun \o tm OBVIOUS
<1>11. /\ es \in Seq(E) /\ Len(es) = 1 + n + m
       /\ \A i \in 1 .. 1 + n + m : es[i] = IF i <= 1 + n THEN begun[i] ELSE tm[i - (1 + n)]
  <2>0. tm \in Seq(E) BY <1>2
  <2>1. /\ begun \o tm \in Seq(E) /\ Len(begun \o tm) = Len(begun) + Len(tm)
        /\ \A i \in 1 .. Len(begun) + Len(tm) :
             (begun \o tm)[i] = IF i <= Len(begun) THEN begun[i] ELSE tm[i - Len(begun)]
    BY <1>9, <2>0, ConcatProperties
  <2> QED BY <1>9, <1>10, <2>1
<1>12. DOMAIN es = 1 .. 1 + n + m BY <1>11, LenProperties
<1>13. es[1] = [kind |-> "created", at |-> 0, text |-> 0] BY <1>4, <1>9, <1>11
<1>14. ASSUME NEW i \in 2 .. 1 + n
       PROVE  es[i].kind = Side(th[i - 1]) /\ es[i].at = th[i - 1].at /\ es[i].text = th[i - 1].at
  <2>1. PICK j \in 1 .. n : j = i - 1 OBVIOUS
  <2>2. es[i] = said[j]
    <3>1. i \in 1 .. 1 + n /\ ~(i <= 1) /\ i <= 1 + n /\ i \in 1 .. 1 + n + m BY <1>14
    <3>2. es[i] = begun[i] BY <1>11, <3>1
    <3>3. begun[i] = said[i - 1] BY <1>9, <3>1
    <3> QED BY <2>1, <3>2, <3>3
  <2> QED BY <1>6, <2>1, <2>2
<1>15. ASSUME NEW i \in 2 + n .. 1 + n + m
       PROVE  es[i].kind = "time_logged" /\ (zone = 0 => es[i].text = es[i].at)
  <2>1. PICK j : j = i - (1 + n) OBVIOUS
  <2>3. j \in 1 .. m /\ ~(i <= 1 + n) /\ i \in 1 .. 1 + n + m BY <1>15, <2>1
  <2>2. es[i] = tm[j] BY <1>11, <2>1, <2>3
  <2> QED BY <2>2, <2>3
<1>16. ASSUME zone = 0, NEW i \in 1 .. 1 + n + m PROVE es[i].text = es[i].at
  <2>1. i = 1 \/ i \in 2 .. 1 + n \/ i \in 2 + n .. 1 + n + m OBVIOUS
  <2> QED BY <1>13, <1>14, <1>15, <1>16, <2>1
<1>17. es = Begun \o OfThread(th) \o tm BY <1>3, <1>8, <1>10
<1>18. es[1].kind = "created" BY <1>13
<1>19. Shape(es, th, n, m) BY <1>2, <1>11, <1>12, <1>14, <1>15, <1>16, <1>18 DEF Shape
<1> QED BY <1>17, <1>19

\* A timeline: the entries in the order of their written times, and where each of
\* them went.
TellsOf(s, th, n, m, L, rank, es) == L = 1 + n + m /\ Shape(es, th, n, m) /\ SortedBy(es, L, rank, s)

\* What is in T is what the entries from lo to hi became.
RunTo(T, L, rank, lo, hi) == T \in SUBSET (1 .. L) /\ \A r \in 1 .. L : r \in T <=> \E i \in lo .. hi : rank[i] = r

\* Entries are kinds of entries wherever they went.
LEMMA PlacesTold ==
  ASSUME NEW s, NEW th, NEW n \in Nat, NEW m \in Nat, NEW L \in Nat,
         NEW rank, NEW es, TellsOf(s, th, n, m, L, rank, es)
  PROVE  /\ s \in Seq(EntrySet) /\ Len(s) = L /\ DOMAIN s = 1 .. L
         /\ RunTo({r \in DOMAIN s : s[r].kind = "time_logged"}, L, rank, 2 + n, L)
         /\ RunTo({r \in DOMAIN s : s[r].kind \in Talk}, L, rank, 2, 1 + n)
<1>1. L = 1 + n + m BY DEF TellsOf
<1>2. SortedBy(es, L, rank, s) /\ Shape(es, th, n, m) BY <1>1 DEF TellsOf
<1>3. \A i \in 1 .. L : es[i] \in EntrySet BY <1>1, <1>2, LenProperties DEF Shape
<1>4. rank \in [1 .. L -> 1 .. L] /\ Len(s) = L /\ DOMAIN s = 1 .. L /\ s = [r \in 1 .. L |-> s[r]] BY <1>2 DEF SortedBy
<1>5. ASSUME NEW r \in 1 .. L
      PROVE  /\ s[r] \in EntrySet
             /\ s[r].kind = "time_logged" <=> \E i \in 2 + n .. L : rank[i] = r
             /\ s[r].kind \in Talk <=> \E i \in 2 .. 1 + n : rank[i] = r
  <2>1. PICK k \in 1 .. L : rank[k] = r BY <1>2 DEF SortedBy
  <2>2. s[r] = es[k] BY <1>2, <2>1 DEF SortedBy
  <2>3. \A i \in 1 .. L : rank[i] = r => i = k BY <1>2, <2>1 DEF SortedBy
  <2>4. k = 1 \/ k \in 2 .. 1 + n \/ k \in 2 + n .. L BY <1>1
  <2>5. CASE k = 1
    <3>1. s[r].kind = "created" BY <1>2, <2>2, <2>5 DEF Shape
    <3>2. \A i \in 2 .. L : rank[i] # r BY <2>3, <2>5
    <3>3. \A i \in 2 .. 1 + n : i \in 2 .. L BY <1>1
    <3>4. \A i \in 2 + n .. L : i \in 2 .. L BY <1>1
    <3> QED BY <1>3, <2>2, <3>1, <3>2, <3>3, <3>4 DEF Talk
  <2>6. CASE k \in 2 .. 1 + n
    <3>1. s[r].kind = Side(th[k - 1]) BY <1>2, <2>2, <2>6 DEF Shape
    <3>2. s[r].kind \in Talk BY <3>1 DEF Side, Talk
    <3>3. \A i \in 2 + n .. L : rank[i] # r BY <1>1, <2>3, <2>6
    <3> QED BY <1>3, <2>1, <2>2, <2>6, <3>2, <3>3 DEF Talk
  <2>7. CASE k \in 2 + n .. L
    <3>1. s[r].kind = "time_logged" BY <1>1, <1>2, <2>2, <2>7 DEF Shape
    <3>2. \A i \in 2 .. 1 + n : rank[i] # r BY <1>1, <2>3, <2>7
    <3> QED BY <1>3, <2>1, <2>2, <2>7, <3>1, <3>2 DEF Talk
  <2> QED BY <2>4, <2>5, <2>6, <2>7
<1>6. s \in Seq(EntrySet)
  <2>1. PICK E : E = EntrySet OBVIOUS
  <2>2. s \in [1 .. L -> E] BY <1>4, <1>5, <2>1
  <2> QED BY <2>1, <2>2
<1>7. /\ \A r \in 1 .. L : s[r].kind = "time_logged" <=> \E i \in 2 + n .. L : rank[i] = r
      /\ \A r \in 1 .. L : s[r].kind \in Talk <=> \E i \in 2 .. 1 + n : rank[i] = r BY <1>5
<1> QED BY <1>4, <1>6, <1>7 DEF RunTo

\* A run of c entries after the a-th are c entries wherever they went.
LEMMA RunOfAsMany ==
  ASSUME NEW L \in Nat, NEW rank \in [1 .. L -> 1 .. L], \A i, j \in 1 .. L : rank[i] = rank[j] => i = j,
         NEW a \in Nat, NEW c \in Nat, a + c <= L, NEW T, RunTo(T, L, rank, a + 1, a + c)
  PROVE  Cardinality(T) = c
<1>1. PICK B : B = a + 1 .. a + c OBVIOUS
<1>0. T \in SUBSET (1 .. L) /\ \A r \in 1 .. L : r \in T <=> \E i \in B : rank[i] = r BY <1>1 DEF RunTo
<1>2. IsFiniteSet(B) /\ Cardinality(B) = c
  <2>1. IsFiniteSet(B) /\ Cardinality(B) = IF a + 1 > a + c THEN 0 ELSE (a + c) - (a + 1) + 1 BY <1>1, FS_Interval
  <2> QED BY <2>1
<1>3. \A i \in B : i \in 1 .. L BY <1>1
<1>4. PICK f : f = [i \in B |-> rank[i]] OBVIOUS
<1>5. \A i \in B : f[i] = rank[i] /\ f[i] \in T BY <1>0, <1>3, <1>4
<1>6. \A r \in T : \E i \in B : f[i] = r BY <1>0, <1>4
<1>7. T = {f[k] : k \in B}
  <2>1. \A i \in B : f[i] \in T BY <1>5
  <2> QED BY <1>6, <2>1
<1>8. f \in [B -> T] /\ DOMAIN f = B BY <1>4, <1>5
<1>9. \A j, k \in B : f[j] = f[k] => j = k BY <1>3, <1>5
<1> QED BY <1>2, <1>7, <1>8, <1>9, AsMany

\* All messages are in the timeline, and all timers that were given.
LEMMA AllAreTold ==
  ASSUME NEW s, NEW th, NEW n \in Nat, NEW m \in Nat, NEW L \in Nat,
         NEW rank, NEW es, TellsOf(s, th, n, m, L, rank, es)
  PROVE  /\ Cardinality({r \in DOMAIN s : s[r].kind = "time_logged"}) = m
         /\ Len(Sift(s, {r \in DOMAIN s : s[r].kind \in Talk})) = n
<1>1. L = 1 + n + m BY DEF TellsOf
<1>4. PICK T, K : T = {r \in DOMAIN s : s[r].kind = "time_logged"} /\ K = {r \in DOMAIN s : s[r].kind \in Talk} OBVIOUS
<1>2. s \in Seq(EntrySet) /\ Len(s) = L /\ RunTo(T, L, rank, 2 + n, L) /\ RunTo(K, L, rank, 2, 1 + n)
  BY <1>4, PlacesTold
<1>3. rank \in [1 .. L -> 1 .. L] /\ \A i, j \in 1 .. L : rank[i] = rank[j] => i = j
  BY DEF TellsOf, SortedBy
<1>5. Cardinality(T) = m
  <2>2. PICK a \in Nat : a = 1 + n OBVIOUS
  <2>3. a + 1 = 2 + n /\ a + m = L BY <1>1, <2>2
  <2>4. RunTo(T, L, rank, a + 1, a + m) /\ a + m <= L BY <1>2, <2>3
  <2> QED BY <1>3, <2>4, RunOfAsMany
<1>6. Cardinality(K) = n
  <2>2. PICK a \in Nat : a = 1 OBVIOUS
  <2>3. a + 1 = 2 /\ a + n = 1 + n /\ a + n <= L BY <1>1, <2>2
  <2>4. RunTo(K, L, rank, a + 1, a + n) BY <1>2, <2>3
  <2>5. a + n <= L BY <2>3
  <2> QED BY <1>3, <2>4, <2>5, RunOfAsMany
<1>7. Len(Sift(s, K)) = Cardinality(K)
  <2>1. PICK E : E = EntrySet OBVIOUS
  <2>2. s \in Seq(E) /\ K \in SUBSET (1 .. Len(s)) BY <1>2, <2>1 DEF RunTo
  <2> QED BY <2>2, KeptFine
<1> QED BY <1>4, <1>5, <1>6, <1>7

\* computeSignals goes through the entries one by one.
Tallies == [first : Int, trips : Nat, last : Talk \cup {"nobody"}, gap : Nat, previous : Int]
Scan(s, L, f) ==
  /\ f \in [0 .. L -> Tallies] /\ f[0] = NoTally
  /\ \A p \in 1 .. L : f[p] = Tally(f[p - 1], s[p])

\* One more entry makes a tally of a tally.
LEMMA TallyFine ==
  ASSUME NEW t \in Tallies, NEW e \in EntrySet
  PROVE  Tally(t, e) \in Tallies
<1>1. PICK h \in Nat : h = e.at
  <2>1. \A h \in 0 .. MaxHour : h \in Nat BY HistoriesAssumption
  <2> QED BY <2>1 DEF EntrySet
<1>2. t.first \in Int /\ t.trips \in Nat /\ t.last \in Talk \cup {"nobody"} /\ t.gap \in Nat /\ t.previous \in Int
  BY DEF Tallies
<1>3. PICK g : g = IF t.previous # -1 /\ e.at - t.previous > t.gap THEN e.at - t.previous ELSE t.gap OBVIOUS
<1>4. g \in Nat BY <1>1, <1>2, <1>3
<1>5. PICK a : a = IF e.kind = "comment" /\ t.first = -1 THEN e.at ELSE t.first OBVIOUS
<1>6. a \in Int BY <1>1, <1>2, <1>5
<1>7. PICK b : b = IF e.kind \in Talk /\ t.last \notin {"nobody", e.kind} THEN t.trips + 1 ELSE t.trips OBVIOUS
<1>8. b \in Nat BY <1>2, <1>7
<1>9. PICK c : c = IF e.kind \in Talk THEN e.kind ELSE t.last OBVIOUS
<1>10. c \in Talk \cup {"nobody"} BY <1>2, <1>9
<1>11. Tally(t, e) = [first |-> a, trips |-> b, last |-> c, gap |-> g, previous |-> h]
  BY <1>1, <1>3, <1>5, <1>7, <1>9 DEF Tally
<1> QED BY <1>1, <1>4, <1>6, <1>8, <1>10, <1>11 DEF Tallies

\* Signals is the last of the tallies.
LEMMA ScanFine ==
  ASSUME NEW s \in Seq(EntrySet), NEW L \in Nat, Len(s) = L
  PROVE  \E f : Scan(s, L, f) /\ Signals(s) = f[L]
<1> DEFINE Body(F) == [n \in 0 .. Len(s) |-> IF n = 0 THEN NoTally ELSE Tally(F[n - 1], s[n])]
<1>1. PICK V : V = Tallies OBVIOUS
<1>2. NoTally \in V
  <2>1. "nobody" \in Talk \cup {"nobody"} /\ -1 \in Int /\ 0 \in Nat OBVIOUS
  <2> QED BY <1>1, <2>1 DEF NoTally, Tallies
<1>3. \A i \in 1 .. L : s[i] \in EntrySet BY LenProperties
<1>4. PICK step : step = [x \in (1 .. L) \X V |-> Tally(x[2], s[x[1]])] OBVIOUS
<1>5. ASSUME NEW i \in 1 .. L, NEW w \in V PROVE step[<<i, w>>] = Tally(w, s[i]) /\ Tally(w, s[i]) \in V
  <2>1. Tally(w, s[i]) \in V BY <1>1, <1>3, TallyFine
  <2>2. <<i, w>> \in (1 .. L) \X V OBVIOUS
  <2> QED BY <1>4, <2>1, <2>2
<1>6. step \in [(1 .. L) \X V -> V]
  <2>1. \A x \in (1 .. L) \X V : Tally(x[2], s[x[1]]) \in V
    <3>1. \A i \in 1 .. L, w \in V : Tally(w, s[i]) \in V BY <1>5
    <3> QED BY <3>1
  <2> QED BY <1>4, <2>1
<1>7. PICK none : none = NoTally OBVIOUS
<1>8. \E f : Follows(L, V, none, step, f)
  <2>1. none \in V BY <1>2, <1>7
  <2> QED BY <1>6, <2>1, StepByStep
<1>9. PICK f \in [0 .. L -> V] : f[0] = NoTally /\ \A i \in 1 .. L : f[i] = step[<<i, f[i - 1]>>]
  BY <1>7, <1>8 DEF Follows
<1>10. ASSUME NEW i \in 0 .. L PROVE f[i] = IF i = 0 THEN NoTally ELSE Tally(f[i - 1], s[i])
  <2>1. i # 0 => i \in 1 .. L /\ i - 1 \in 0 .. L OBVIOUS
  <2>2. i # 0 => f[i - 1] \in V BY <1>9, <2>1
  <2> QED BY <1>5, <1>9, <2>1, <2>2
<1>11. f = [i \in 0 .. L |-> f[i]] BY <1>9
<1>12. f = [i \in 0 .. L |-> IF i = 0 THEN NoTally ELSE Tally(f[i - 1], s[i])] BY <1>10, <1>11
<1>13. f = Body(f) BY <1>12
<1>14. PICK F : F = CHOOSE G : G = Body(G) OBVIOUS
<1>15. F = Body(F) BY <1>13, <1>14
<1>16. Signals(s) = F[L] BY <1>14 DEF Signals
<1>17. PICK S : S = {p \in 0 .. L : F[p] = f[p]} OBVIOUS
<1>18. 0 \in S
  <2>1. F[0] = NoTally BY <1>15
  <2> QED BY <1>9, <1>17, <2>1
<1>19. ASSUME NEW p \in 0 .. L - 1, p \in S PROVE p + 1 \in S
  <2>1. p + 1 \in 0 .. L /\ p + 1 # 0 /\ (p + 1) - 1 = p OBVIOUS
  <2>2. F[p + 1] = Tally(F[p], s[p + 1]) BY <1>15, <2>1
  <2>3. f[p + 1] = Tally(f[p], s[p + 1]) BY <1>10, <2>1
  <2> QED BY <1>17, <1>19, <2>1, <2>2, <2>3
<1>20. 0 .. L \subseteq S BY <1>18, <1>19, UpTo
<1>21. F[L] = f[L] BY <1>17, <1>20
<1>22. Scan(s, L, f)
  <2>1. \A p \in 1 .. L : f[p] = Tally(f[p - 1], s[p]) BY <1>10
  <2> QED BY <1>1, <1>9, <2>1 DEF Scan
<1> QED BY <1>16, <1>21, <1>22

\* The times of what is told: no earlier one after a later one.
Onward(s, L) ==
  /\ \A r \in 1 .. L : s[r].at \in Nat
  /\ \A p, r \in 1 .. L : p <= r => s[p].at <= s[r].at

\* In one zone the entries are in the order of their times.
LEMMA ToldInOrder ==
  ASSUME NEW s, NEW th, NEW n \in Nat, NEW m \in Nat, NEW L \in Nat,
         NEW rank, NEW es, TellsOf(s, th, n, m, L, rank, es), zone = 0
  PROVE  Onward(s, L)
<1>1. L = 1 + n + m /\ SortedBy(es, L, rank, s) /\ Shape(es, th, n, m) BY DEF TellsOf
<1>2. s \in Seq(EntrySet) /\ Len(s) = L BY PlacesTold
<1>3. ASSUME NEW r \in 1 .. L PROVE s[r].at \in Nat
  <2>1. s[r] \in EntrySet BY <1>2, LenProperties
  <2>2. \A h \in 0 .. MaxHour : h \in Nat BY HistoriesAssumption
  <2> QED BY <2>1, <2>2 DEF EntrySet
<1>4. ASSUME NEW p \in 1 .. L, NEW r \in 1 .. L, p <= r PROVE s[p].at <= s[r].at
  <2>1. PICK i \in 1 .. L, j \in 1 .. L : rank[i] = p /\ rank[j] = r BY <1>1 DEF SortedBy
  <2>2. s[p] = es[i] /\ s[r] = es[j] BY <1>1, <2>1 DEF SortedBy
  <2>3. es[i].text = s[p].at /\ es[j].text = s[r].at BY <1>1, <2>2 DEF Shape
  <2>4. s[p].at \in Nat /\ s[r].at \in Nat BY <1>3
  <2>5. CASE i = j BY <2>2, <2>4, <2>5
  <2>6. CASE i # j
    <3>1. ~Before(es, j, i)
      <4>1. Before(es, j, i) => rank[j] < rank[i] BY <1>1, <2>6 DEF SortedBy
      <4> QED BY <1>4, <2>1, <4>1
    <3> QED BY <2>3, <2>4, <3>1 DEF Before
  <2> QED BY <2>5, <2>6
<1> QED BY <1>3, <1>4 DEF Onward

\* The messages stay in their order.
InTurn(pos, n, L) ==
  /\ pos \in [1 .. n -> 1 .. L]
  /\ \A i, j \in 1 .. n : i < j => pos[i] < pos[j]
Says(s, th, n, L, pos) ==
  /\ InTurn(pos, n, L)
  /\ \A i \in 1 .. n : s[pos[i]].kind = Side(th[i]) /\ s[pos[i]].at = th[i].at
  /\ \A r \in 1 .. L : s[r].kind \in Talk => \E i \in 1 .. n : pos[i] = r

\* The messages are told one after the other.
LEMMA MessagesInTurn ==
  ASSUME NEW s, NEW th \in Seq(Posts), InOrder(th), NEW n \in Nat, n = Len(th), NEW m \in Nat, NEW L \in Nat,
         NEW rank, NEW es, TellsOf(s, th, n, m, L, rank, es)
  PROVE  \E pos : Says(s, th, n, L, pos)
<1>1. L = 1 + n + m /\ SortedBy(es, L, rank, s) /\ Shape(es, th, n, m) BY DEF TellsOf
<1>2. PICK K : K = {r \in DOMAIN s : s[r].kind \in Talk} OBVIOUS
<1>3. RunTo(K, L, rank, 2, 1 + n) /\ DOMAIN s = 1 .. L BY <1>2, PlacesTold
<1>4. PICK pos : pos = [i \in 1 .. n |-> rank[i + 1]] OBVIOUS
<1>5. ASSUME NEW i \in 1 .. n
      PROVE  /\ pos[i] \in 1 .. L /\ pos[i] = rank[i + 1] /\ i + 1 \in 2 .. 1 + n /\ i + 1 \in 1 .. L
             /\ s[pos[i]].kind = Side(th[i]) /\ s[pos[i]].at = th[i].at
             /\ es[i + 1].text = th[i].at /\ th[i].at \in Nat
  <2>1. PICK j : j = i + 1 OBVIOUS
  <2>2. j \in 2 .. 1 + n /\ j \in 1 .. L /\ j - 1 = i BY <1>1, <2>1
  <2>3. es[j].kind = Side(th[i]) /\ es[j].at = th[i].at /\ es[j].text = th[i].at BY <1>1, <2>2 DEF Shape
  <2>4. pos[i] = rank[j] BY <1>4, <2>1
  <2>5. pos[i] \in 1 .. L /\ s[pos[i]] = es[j] BY <1>1, <2>2, <2>4 DEF SortedBy
  <2>6. th[i] \in Posts BY LenProperties
  <2>7. \A h \in 0 .. MaxHour : h \in Nat BY HistoriesAssumption
  <2>8. th[i].at \in Nat BY <2>6, <2>7 DEF Posts
  <2> QED BY <2>1, <2>2, <2>3, <2>4, <2>5, <2>8
<1>6. ASSUME NEW i \in 1 .. n, NEW j \in 1 .. n, i < j PROVE pos[i] < pos[j]
  <2>1. th[i].at <= th[j].at BY <1>6, LenProperties DEF InOrder
  <2>2. PICK a \in 1 .. L, b \in 1 .. L : a = i + 1 /\ b = j + 1 BY <1>5
  <2>3. es[a].text <= es[b].text /\ es[a].text \in Nat /\ es[b].text \in Nat BY <1>5, <2>1, <2>2
  <2>4. a < b /\ a # b BY <1>6, <2>2
  <2>7. PICK x \in Nat, y \in Nat : x = es[a].text /\ y = es[b].text BY <2>3
  <2>8. x < y \/ x = y
    <3>1. x <= y BY <2>3, <2>7
    <3> QED BY <3>1
  <2>9. a <= b BY <2>4
  <2>5. Before(es, a, b) BY <2>7, <2>8, <2>9 DEF Before
  <2>6. rank[a] < rank[b] BY <1>1, <2>4, <2>5 DEF SortedBy
  <2> QED BY <1>5, <2>2, <2>6
<1>7. InTurn(pos, n, L)
  <2>1. pos \in [1 .. n -> 1 .. L] BY <1>4, <1>5
  <2> QED BY <1>6, <2>1 DEF InTurn
<1>8. ASSUME NEW r \in 1 .. L, s[r].kind \in Talk PROVE \E i \in 1 .. n : pos[i] = r
  <2>1. PICK j \in 2 .. 1 + n : rank[j] = r BY <1>2, <1>3, <1>8 DEF RunTo
  <2>2. PICK i : i = j - 1 OBVIOUS
  <2>3. i \in 1 .. n /\ i + 1 = j BY <2>1, <2>2
  <2> QED BY <1>5, <2>1, <2>3
<1> QED BY <1>5, <1>7, <1>8 DEF Says

\* How long nothing happened: the longest of the steps from one entry to the next.
Quiet(s, p, t) ==
  /\ t.previous = IF p = 0 THEN -1 ELSE s[p].at
  /\ p < 2 => t.gap = 0
  /\ p >= 2 => /\ \E i \in 2 .. p : t.gap = s[i].at - s[i - 1].at
               /\ \A i \in 2 .. p : s[i].at - s[i - 1].at <= t.gap

\* One more entry.
LEMMA OneMoreQuiet ==
  ASSUME NEW s, NEW L \in Nat, Onward(s, L), NEW p \in 0 .. L - 1, NEW t \in Tallies, Quiet(s, p, t)
  PROVE  Quiet(s, p + 1, Tally(t, s[p + 1]))
<1>1. PICK q \in 1 .. L : q = p + 1 OBVIOUS
<1>2. PICK h \in Nat : h = s[q].at BY DEF Onward
<1>3. PICK g \in Nat : g = t.gap BY DEF Tallies
<1>4. PICK u : u = Tally(t, s[q]) OBVIOUS
<1>5. u.previous = h /\ u.gap = IF t.previous # -1 /\ h - t.previous > g THEN h - t.previous ELSE g
  BY <1>2, <1>3, <1>4 DEF Tally
<1>6. CASE p = 0
  <2>1. t.previous = -1 /\ g = 0 BY <1>3, <1>6 DEF Quiet
  <2>2. u.gap = 0 BY <1>5, <2>1
  <2> QED BY <1>1, <1>2, <1>4, <1>5, <1>6, <2>2 DEF Quiet
<1>7. CASE p # 0
  <2>1. p \in 1 .. L /\ q - 1 = p /\ q >= 2 BY <1>1, <1>7
  <2>2. PICK b \in Nat : b = s[p].at BY <2>1 DEF Onward
  <2>3. b <= h BY <1>1, <1>2, <2>1, <2>2 DEF Onward
  <2>4. t.previous = b BY <1>7, <2>2 DEF Quiet
  <2>5. u.gap = IF h - b > g THEN h - b ELSE g BY <1>5, <2>4
  <2>6. s[q].at - s[q - 1].at = h - b BY <1>2, <2>1, <2>2
  <2>7. CASE p = 1
    <3>1. g = 0 BY <1>3, <2>7 DEF Quiet
    <3>2. u.gap = h - b BY <2>3, <2>5, <3>1
    <3>3. q = 2 /\ \A i \in 2 .. q : i = q BY <1>1, <2>7
    <3>4. \A i \in 2 .. q : s[i].at - s[i - 1].at = h - b BY <2>6, <3>3
    <3>5. q \in 2 .. q /\ h - b <= h - b BY <3>3
    <3>6. \E i \in 2 .. q : u.gap = s[i].at - s[i - 1].at BY <2>6, <3>2, <3>5
    <3>7. \A i \in 2 .. q : s[i].at - s[i - 1].at <= u.gap BY <3>2, <3>4, <3>5
    <3> QED BY <1>1, <1>2, <1>4, <1>5, <2>1, <3>6, <3>7 DEF Quiet
  <2>8. CASE p >= 2
    <3>1. PICK i \in 2 .. p : g = s[i].at - s[i - 1].at BY <1>3, <2>8 DEF Quiet
    <3>2. \A j \in 2 .. p : s[j].at - s[j - 1].at <= g BY <1>3, <2>8 DEF Quiet
    <3>3. i \in 2 .. q /\ q \in 2 .. q BY <1>1, <2>1
    <3>4. \E j \in 2 .. q : u.gap = s[j].at - s[j - 1].at
      <4>1. u.gap = s[i].at - s[i - 1].at \/ u.gap = s[q].at - s[q - 1].at BY <2>5, <2>6, <3>1
      <4> QED BY <3>3, <4>1
    <3>5. ASSUME NEW j \in 2 .. q PROVE s[j].at - s[j - 1].at <= u.gap
      <4>1. CASE j = q BY <2>5, <2>6, <4>1
      <4>2. CASE j # q
        <5>1. j \in 2 .. p BY <1>1, <3>5, <4>2
        <5>2. j \in 1 .. L /\ j - 1 \in 1 .. L BY <5>1
        <5>3. PICK v : v = s[j].at - s[j - 1].at OBVIOUS
        <5>4. PICK x \in Nat, y \in Nat : x = s[j].at /\ y = s[j - 1].at BY <5>2 DEF Onward
        <5>5. v \in Int /\ v <= g BY <3>2, <5>1, <5>3, <5>4
        <5> QED BY <2>5, <5>3, <5>5
      <4> QED BY <4>1, <4>2
    <3> QED BY <1>1, <1>2, <1>4, <1>5, <2>1, <3>4, <3>5 DEF Quiet
  <2> QED BY <1>7, <2>7, <2>8
<1> QED BY <1>6, <1>7

\* What has been heard when k messages have been.
Heard(th, k, t) ==
  /\ t.last = IF k = 0 THEN "nobody" ELSE Side(th[k])
  /\ t.trips = Cardinality({i \in 2 .. k : Side(th[i]) # Side(th[i - 1])})
  /\ \/ t.first = -1 /\ \A i \in 1 .. k : Side(th[i]) # "comment"
     \/ /\ \E i \in 1 .. k : Side(th[i]) = "comment" /\ t.first = th[i].at
        /\ \A i \in 1 .. k : Side(th[i]) = "comment" => t.first <= th[i].at

\* One more message.
LEMMA OneMoreHeard ==
  ASSUME NEW th, NEW n \in Nat, \A i \in 1 .. n : th[i].at \in Nat,
         \A i, j \in 1 .. n : i <= j => th[i].at <= th[j].at,
         NEW k \in 0 .. n - 1, NEW t \in Tallies, Heard(th, k, t), NEW e,
         e.kind = Side(th[k + 1]), e.at = th[k + 1].at
  PROVE  Heard(th, k + 1, Tally(t, e))
<1>1. PICK q \in 1 .. n : q = k + 1 OBVIOUS
<1>2. PICK u : u = Tally(t, e) OBVIOUS
<1>3. PICK c : c = Side(th[q]) OBVIOUS
<1>4. c \in Talk /\ e.kind = c /\ e.at = th[q].at BY <1>1, <1>3 DEF Side, Talk
<1>5. /\ u.last = c
      /\ u.trips = IF t.last \notin {"nobody", c} THEN t.trips + 1 ELSE t.trips
      /\ u.first = IF c = "comment" /\ t.first = -1 THEN th[q].at ELSE t.first
  BY <1>2, <1>4 DEF Tally
<1>6. PICK A : A = {i \in 2 .. k : Side(th[i]) # Side(th[i - 1])} OBVIOUS
<1>7. PICK B : B = {i \in 2 .. q : Side(th[i]) # Side(th[i - 1])} OBVIOUS
<1>8. IsFiniteSet(A) /\ t.trips = Cardinality(A) /\ Cardinality(A) \in Nat
  <2>1. IsFiniteSet(2 .. k) BY FS_Interval
  <2>2. A \in SUBSET (2 .. k) BY <1>6
  <2>3. IsFiniteSet(A) BY <2>1, <2>2, FS_Subset
  <2> QED BY <1>6, <2>3, FS_CardinalityType DEF Heard
<1>9. u.trips = Cardinality(B)
  <2>1. CASE k = 0
    <3>1. 2 .. k = {} /\ 2 .. q = {} BY <1>1, <2>1
    <3>2. A = B BY <1>6, <1>7, <3>1
    <3>3. t.last = "nobody" BY <2>1 DEF Heard
    <3> QED BY <1>5, <1>8, <3>2, <3>3
  <2>2. CASE k # 0
    <3>1. t.last = Side(th[k]) /\ t.last # "nobody" BY <2>2 DEF Heard, Side
    <3>2. q - 1 = k /\ q \in 2 .. q /\ 2 .. q = (2 .. k) \cup {q} /\ q \notin 2 .. k BY <1>1, <2>2
    <3>3. CASE Side(th[k]) = c
      <4>1. B = A
        <5>1. \A i \in 2 .. q : Side(th[i]) # Side(th[i - 1]) => i # q BY <1>3, <3>2, <3>3
        <5> QED BY <1>6, <1>7, <3>2, <5>1
      <4> QED BY <1>5, <1>8, <3>1, <3>3, <4>1
    <3>4. CASE Side(th[k]) # c
      <4>1. B = A \cup {q} /\ q \notin A
        <5>1. Side(th[q]) # Side(th[q - 1]) BY <1>3, <3>2, <3>4
        <5> QED BY <1>6, <1>7, <3>2, <5>1
      <4>2. Cardinality(B) = Cardinality(A) + 1 BY <1>8, <4>1, FS_AddElement
      <4> QED BY <1>5, <1>8, <3>1, <3>4, <4>2
    <3> QED BY <3>3, <3>4
  <2> QED BY <2>1, <2>2
<1>10. \A i \in 1 .. q : i = q \/ i \in 1 .. k BY <1>1
<1>11. 1 .. k \subseteq 1 .. q /\ q \in 1 .. q BY <1>1
<1>12. \/ u.first = -1 /\ \A i \in 1 .. q : Side(th[i]) # "comment"
       \/ /\ \E i \in 1 .. q : Side(th[i]) = "comment" /\ u.first = th[i].at
          /\ \A i \in 1 .. q : Side(th[i]) = "comment" => u.first <= th[i].at
  <2>1. CASE t.first = -1 /\ \A i \in 1 .. k : Side(th[i]) # "comment"
    <3>1. CASE c = "comment"
      <4>1. u.first = th[q].at BY <1>5, <2>1, <3>1
      <4>2. \A i \in 1 .. q : Side(th[i]) = "comment" => i = q BY <1>10, <2>1
      <4>3. u.first <= th[q].at BY <4>1
      <4> QED BY <1>3, <1>11, <3>1, <4>1, <4>2, <4>3
    <3>2. CASE c # "comment"
      <4>1. u.first = -1 BY <1>5, <2>1, <3>2
      <4> QED BY <1>3, <1>10, <2>1, <3>2, <4>1
    <3> QED BY <3>1, <3>2
  <2>2. CASE /\ \E i \in 1 .. k : Side(th[i]) = "comment" /\ t.first = th[i].at
             /\ \A i \in 1 .. k : Side(th[i]) = "comment" => t.first <= th[i].at
    <3>1. PICK j \in 1 .. k : Side(th[j]) = "comment" /\ t.first = th[j].at BY <2>2
    <3>2. j \in 1 .. n /\ j <= q BY <1>1
    <3>3. t.first \in Nat /\ t.first <= th[q].at BY <3>1, <3>2
    <3>4. u.first = t.first BY <1>5, <3>3
    <3> QED BY <1>10, <1>11, <2>2, <3>3, <3>4
  <2> QED BY <2>1, <2>2 DEF Heard
<1> QED BY <1>1, <1>2, <1>3, <1>5, <1>7, <1>9, <1>12 DEF Heard

\* How many messages are among the first p entries.
Reached(pos, n, p, k) == k \in 0 .. n /\ \A i \in 1 .. n : pos[i] <= p <=> i <= k
Along(th, n, pos, p, t) == \E k : Reached(pos, n, p, k) /\ Heard(th, k, t)
Dated(th, n) ==
  /\ \A i \in 1 .. n : th[i].at \in Nat
  /\ \A i, j \in 1 .. n : i <= j => th[i].at <= th[j].at

\* One more entry, a message or not.
LEMMA OneMoreAlong ==
  ASSUME NEW s, NEW th, NEW n \in Nat, NEW L \in Nat, NEW pos, Says(s, th, n, L, pos), Dated(th, n),
         NEW p \in 0 .. L - 1, NEW t \in Tallies, Along(th, n, pos, p, t)
  PROVE  Along(th, n, pos, p + 1, Tally(t, s[p + 1]))
<1>1. PICK q \in 1 .. L : q = p + 1 OBVIOUS
<1>2. PICK k : Reached(pos, n, p, k) /\ Heard(th, k, t) BY DEF Along
<1>3. k \in 0 .. n /\ \A i \in 1 .. n : pos[i] <= p <=> i <= k BY <1>2 DEF Reached
<1>4. /\ \A i \in 1 .. n : pos[i] \in 1 .. L
      /\ \A i, j \in 1 .. n : i < j => pos[i] < pos[j]
      /\ \A i \in 1 .. n : s[pos[i]].kind = Side(th[i]) /\ s[pos[i]].at = th[i].at
      /\ \A r \in 1 .. L : s[r].kind \in Talk => \E i \in 1 .. n : pos[i] = r
  BY DEF Says, InTurn
<1>5. PICK e : e = s[q] OBVIOUS
<1>6. CASE e.kind \in Talk
  <2>1. PICK j \in 1 .. n : pos[j] = q BY <1>4, <1>5, <1>6
  <2>2. j > k
    <3>1. ~(pos[j] <= p) BY <1>1, <2>1
    <3> QED BY <1>3, <2>1, <3>1
  <2>3. j = k + 1
    <3>1. ASSUME j # k + 1 PROVE FALSE
      <4>1. PICK i \in 1 .. n : i = k + 1 BY <1>3, <2>2
      <4>2. i < j
        <5>1. i \in Nat /\ j \in Nat /\ k \in Nat BY <1>3
        <5> QED BY <2>2, <3>1, <4>1, <5>1
      <4>3. pos[i] < pos[j] BY <1>4, <4>2
      <4>4. pos[i] \in 1 .. L /\ pos[i] <= p BY <1>1, <1>4, <2>1, <4>3
      <4>5. i <= k BY <1>3, <4>4
      <4> QED BY <1>3, <4>1, <4>5
    <3> QED BY <3>1
  <2>4. \A i \in 1 .. n : pos[i] <= q <=> i <= j
    <3>1. ASSUME NEW i \in 1 .. n PROVE pos[i] <= q <=> i <= j
      <4>1. pos[i] \in 1 .. L BY <1>4
      <4>2. CASE i < j
        <5>1. pos[i] < pos[j] BY <1>4, <4>2
        <5> QED BY <2>1, <4>1, <4>2, <5>1
      <4>3. CASE i = j BY <2>1, <4>3
      <4>4. CASE i > j
        <5>1. pos[j] < pos[i] BY <1>4, <4>4
        <5> QED BY <2>1, <4>1, <4>4, <5>1
      <4> QED BY <4>2, <4>3, <4>4
    <3> QED BY <3>1
  <2>5. Reached(pos, n, q, j) BY <2>4 DEF Reached
  <2>6. k \in 0 .. n - 1 BY <1>3, <2>3
  <2>7. e.kind = Side(th[k + 1]) /\ e.at = th[k + 1].at BY <1>4, <1>5, <2>1, <2>3
  <2>8. Heard(th, k + 1, Tally(t, e)) BY <1>2, <2>6, <2>7, OneMoreHeard DEF Dated
  <2> QED BY <1>1, <1>5, <2>3, <2>5, <2>8 DEF Along
<1>7. CASE e.kind \notin Talk
  <2>1. \A i \in 1 .. n : pos[i] # q
    <3>1. \A i \in 1 .. n : Side(th[i]) \in Talk BY DEF Side, Talk
    <3> QED BY <1>4, <1>5, <1>7, <3>1
  <2>2. \A i \in 1 .. n : pos[i] <= q <=> pos[i] <= p BY <1>1, <1>4, <2>1
  <2>3. Reached(pos, n, q, k) BY <1>3, <2>2 DEF Reached
  <2>4. PICK u : u = Tally(t, e) OBVIOUS
  <2>5. u.last = t.last /\ u.trips = t.trips /\ u.first = t.first
    <3>1. e.kind # "comment" BY <1>7 DEF Talk
    <3> QED BY <1>7, <2>4, <3>1 DEF Tally
  <2>6. Heard(th, k, u) BY <1>2, <2>5 DEF Heard
  <2> QED BY <1>1, <1>5, <2>3, <2>4, <2>6 DEF Along
<1> QED BY <1>6, <1>7

\* At the last entry every message has been heard.
LEMMA ScanTells ==
  ASSUME NEW s, NEW th, NEW n \in Nat, NEW L \in Nat, NEW pos, Says(s, th, n, L, pos), Dated(th, n),
         Onward(s, L), NEW f, Scan(s, L, f)
  PROVE  Quiet(s, L, f[L]) /\ Heard(th, n, f[L])
<1>1. f \in [0 .. L -> Tallies] /\ f[0] = NoTally /\ \A p \in 1 .. L : f[p] = Tally(f[p - 1], s[p]) BY DEF Scan
<1>2. PICK S : S = {p \in 0 .. L : Quiet(s, p, f[p]) /\ Along(th, n, pos, p, f[p])} OBVIOUS
<1>3. \A i \in 1 .. n : pos[i] \in 1 .. L BY DEF Says, InTurn
<1>4. 0 \in S
  <2>1. Quiet(s, 0, NoTally) BY DEF Quiet, NoTally
  <2>2. Reached(pos, n, 0, 0)
    <3>1. \A i \in 1 .. n : ~(pos[i] <= 0) /\ ~(i <= 0) BY <1>3
    <3> QED BY <3>1 DEF Reached
  <2>3. Heard(th, 0, NoTally)
    <3>1. PICK A : A = {i \in 2 .. 0 : Side(th[i]) # Side(th[i - 1])} OBVIOUS
    <3>2. A = {} BY <3>1
    <3>3. Cardinality(A) = 0 BY <3>2, FS_EmptySet
    <3>4. Cardinality({i \in 2 .. 0 : Side(th[i]) # Side(th[i - 1])}) = 0 BY <3>1, <3>3
    <3>5. \A i \in 1 .. 0 : Side(th[i]) # "comment" OBVIOUS
    <3> QED BY <3>4, <3>5 DEF Heard, NoTally
  <2>4. Along(th, n, pos, 0, NoTally) BY <2>2, <2>3 DEF Along
  <2> QED BY <1>1, <1>2, <2>1, <2>4
<1>5. ASSUME NEW p \in 0 .. L - 1, p \in S PROVE p + 1 \in S
  <2>1. p + 1 \in 0 .. L /\ p + 1 \in 1 .. L /\ (p + 1) - 1 = p /\ p \in 0 .. L OBVIOUS
  <2>2. f[p] \in Tallies /\ f[p + 1] = Tally(f[p], s[p + 1]) BY <1>1, <2>1
  <2>3. Quiet(s, p, f[p]) /\ Along(th, n, pos, p, f[p]) BY <1>2, <1>5
  <2>4. Quiet(s, p + 1, f[p + 1]) BY <2>2, <2>3, OneMoreQuiet
  <2>5. Along(th, n, pos, p + 1, f[p + 1]) BY <2>2, <2>3, OneMoreAlong
  <2> QED BY <1>2, <2>1, <2>4, <2>5
<1>6. L \in S
  <2>1. 0 .. L \subseteq S BY <1>4, <1>5, UpTo
  <2> QED BY <2>1
<1>7. PICK k : Reached(pos, n, L, k) /\ Heard(th, k, f[L]) BY <1>2, <1>6 DEF Along
<1>8. k = n
  <2>1. k \in 0 .. n /\ \A i \in 1 .. n : i <= k BY <1>3, <1>7 DEF Reached
  <2>2. n # 0 => n <= k BY <2>1
  <2> QED BY <2>1, <2>2
<1> QED BY <1>2, <1>6, <1>7, <1>8

\* Hours are numbers.
LEMMA HoursFine == \A h \in 0 .. MaxHour : h \in Nat
BY HistoriesAssumption
\* A sequence is as long as its domain.
LEMMA LengthOf == \A n \in Nat : \A w : w = [i \in 1 .. n |-> w[i]] => Len(w) = n
OBVIOUS
\* A number's predecessors.
LEMMA OneBack ==
  \A n \in Nat : (\A i \in 2 .. n : i \in 1 .. n /\ i - 1 \in 1 .. n /\ ~(n < 2)) /\ (n < 2 \/ n >= 2)
OBVIOUS

\* The signals of a timeline in one zone are those of the conversation.
SidesSaid(notes, th) == "sides unknown" \notin notes => th = << >> \/ \E i \in DOMAIN th : FromCustomer(th[i])
LEMMA SignalsFine ==
  ASSUME NEW th \in Seq(Posts), InOrder(th), NEW n \in Nat, n = Len(th), NEW m \in Nat, NEW L \in Nat,
         NEW rank, NEW es, NEW s, TellsOf(s, th, n, m, L, rank, es), zone = 0, zone' = 0,
         view'.thread = th, view'.entries = s,
         SidesSaid(view'.notes, th)
  PROVE  SignalsAreTrueUndisturbed'
<1>1. s \in Seq(EntrySet) /\ Len(s) = L /\ DOMAIN s = 1 .. L BY PlacesTold
<1>2. Onward(s, L) BY ToldInOrder
<1>3. PICK pos : Says(s, th, n, L, pos) BY MessagesInTurn
<1>4. DOMAIN th = 1 .. n /\ \A i \in 1 .. n : th[i] \in Posts BY LenProperties
<1>5. Dated(th, n)
  <2>2. \A i \in 1 .. n : th[i].at \in Nat BY <1>4, HoursFine DEF Posts
  <2> QED BY <1>4, <2>2 DEF Dated, InOrder
<1>6. PICK f : Scan(s, L, f) /\ Signals(s) = f[L] BY <1>1, ScanFine
<1>7. PICK t : t = f[L] OBVIOUS
<1>8. Quiet(s, L, t) /\ Heard(th, n, t) BY <1>2, <1>3, <1>5, <1>6, <1>7, ScanTells
<1>9. Signals(view'.entries) = t BY <1>6, <1>7
<1>10. PICK own : own = {view'.thread[i].at : i \in {j \in DOMAIN view'.thread : view'.thread[j].from.by = "tech"}}
  OBVIOUS
<1>11. PICK gaps : gaps = {view'.entries[i].at - view'.entries[i - 1].at : i \in 2 .. Len(view'.entries)} OBVIOUS
<1>12. PICK turns : turns = Cardinality({i \in 2 .. Len(Wrote') : Wrote'[i] # Wrote'[i - 1]}) OBVIOUS
<1>13. \A i \in 1 .. n : Wrote'[i] = IF th[i].from.by = "tech" THEN "comment" ELSE "customer_message"
  BY <1>4 DEF Wrote
<1>14. \A i, j \in DOMAIN view'.entries : i <= j => view'.entries[i].at <= view'.entries[j].at
  BY <1>1, <1>2 DEF Onward
<1>a. ASSUME ~Filed', ~Taken', NEW i \in 1 .. n PROVE Side(th[i]) = "comment" <=> th[i].from.by = "tech"
  <2>1. th[i].from \in Origins BY <1>4 DEF Posts
  <2>2. th[i].from.by \in {"tech", "customer"} BY <2>1 DEF Origins
  <2>3. th[i].from.by = "customer" => th[i].from.says \/ ~th[i].from.named BY <1>4, <1>a DEF Filed
  <2>4. th[i].from.by = "tech" => ~(th[i].from.says \/ ~th[i].from.named) BY <1>4, <1>a DEF Taken
  <2> QED BY <2>2, <2>3, <2>4 DEF Side, FromCustomer
<1>16. ASSUME ~Filed', ~Taken'
       PROVE  IF own = {} THEN t.first = -1 ELSE t.first \in own /\ \A o \in own : t.first <= o
  <2>a. \A i \in 1 .. n : Side(th[i]) = "comment" <=> th[i].from.by = "tech" BY <1>a, <1>16
  <2>1. \A i \in 1 .. n : Side(th[i]) = "comment" => th[i].at \in own BY <1>4, <1>10, <2>a
  <2>2. \A o \in own : \E i \in 1 .. n : Side(th[i]) = "comment" /\ th[i].at = o BY <1>4, <1>10, <2>a
  <2>3. CASE t.first = -1 /\ \A i \in 1 .. n : Side(th[i]) # "comment"
    <3>1. own = {} BY <2>2, <2>3
    <3> QED BY <2>3, <3>1
  <2>4. CASE /\ \E i \in 1 .. n : Side(th[i]) = "comment" /\ t.first = th[i].at
             /\ \A i \in 1 .. n : Side(th[i]) = "comment" => t.first <= th[i].at
    <3>1. t.first \in own BY <2>1, <2>4
    <3>2. \A o \in own : t.first <= o BY <2>2, <2>4
    <3> QED BY <3>1, <3>2
  <2> QED BY <1>8, <2>3, <2>4 DEF Heard
<1>17. ASSUME ~Filed', ~Taken' PROVE t.trips = turns
  <2>2. \A i \in 1 .. n : Side(th[i]) \in {"comment", "customer_message"} BY DEF Side
  <2>3. \A i \in 1 .. n : Side(th[i]) = Wrote'[i] BY <1>13, <1>a, <1>17, <2>2
  <2>4. Len(Wrote') = n
    <3>1. Wrote' = [i \in 1 .. n |-> IF th[i].from.by = "tech" THEN "comment" ELSE "customer_message"]
      BY <1>4 DEF Wrote
    <3> QED BY <3>1, LengthOf
  <2>5. PICK A, B : /\ A = {i \in 2 .. n : Side(th[i]) # Side(th[i - 1])}
                    /\ B = {i \in 2 .. Len(Wrote') : Wrote'[i] # Wrote'[i - 1]} OBVIOUS
  <2>6. A = B
    <3>1. \A i \in 2 .. n : i \in 1 .. n /\ i - 1 \in 1 .. n BY OneBack
    <3>2. \A i \in 2 .. n : Side(th[i]) = Wrote'[i] /\ Side(th[i - 1]) = Wrote'[i - 1] BY <2>3, <3>1
    <3> QED BY <2>4, <2>5, <3>2
  <2> QED BY <1>8, <1>12, <2>5, <2>6 DEF Heard
<1>18. IF gaps = {} THEN t.gap = 0 ELSE t.gap \in gaps /\ \A g \in gaps : g <= t.gap
  <2>1. gaps = {s[i].at - s[i - 1].at : i \in 2 .. L} BY <1>1, <1>11
  <2>2. CASE L < 2
    <3>0. \A i \in 2 .. L : FALSE BY <2>2, OneBack
    <3>1. gaps = {} BY <2>1, <3>0
    <3> QED BY <1>8, <2>2, <3>1 DEF Quiet
  <2>3. CASE L >= 2
    <3>1. PICK i \in 2 .. L : t.gap = s[i].at - s[i - 1].at BY <1>8, <2>3 DEF Quiet
    <3>2. t.gap \in gaps BY <2>1, <3>1
    <3>3. \A g \in gaps : g <= t.gap BY <1>8, <2>1, <2>3 DEF Quiet
    <3> QED BY <3>2, <3>3
  <2>4. L < 2 \/ L >= 2 BY OneBack
  <2> QED BY <2>2, <2>3, <2>4
<1>19. \/ "sides unknown" \in view'.notes \/ view'.thread = <<>> \/ Taken'
       \/ \E i \in DOMAIN view'.thread : Wrote'[i] = "customer_message"
  <2>1. SUFFICES ASSUME "sides unknown" \notin view'.notes, th # << >>, ~Taken'
                 PROVE  \E i \in 1 .. n : Wrote'[i] = "customer_message"
    BY <1>4
  <2>2. PICK i \in 1 .. n : FromCustomer(th[i]) BY <1>4, <2>1 DEF SidesSaid
  <2>3. th[i].from.by # "tech" BY <1>4, <2>1, <2>2 DEF Taken, FromCustomer
  <2> QED BY <1>13, <2>3
<1> QED BY <1>9, <1>10, <1>11, <1>12, <1>14, <1>16, <1>17, <1>18, <1>19 DEF SignalsAreTrueUndisturbed

\* The desk, and what is being put together from it.
TicketSet == [id : Nat, done : BOOLEAN]
OneEach(heap, N) ==
  /\ \A i \in 1 .. N : heap[i].id \in 1 .. N
  /\ \A i, j \in 1 .. N : heap[i].id = heap[j].id => i = j
PileFine == pile \in Seq(TicketSet) /\ OneEach(pile, Len(pile))
DeskTyped ==
  /\ thread \in Seq(Posts) /\ InOrder(thread) /\ booked \in Seq(Blocks) /\ PileFine
  /\ owed \in Seq(BOOLEAN) /\ zone \in 0 .. 1 /\ doings \in 0 .. MaxWork /\ hour \in 0 .. MaxHour

NoteSet == {"no time", "sides unknown"}
Views ==
  [kind : {"none", "timeline", "open", "standing"}, at : {"idle", "timers", "page", "over"}, thread : Seq(Posts),
   entries : Seq(EntrySet), notes : SUBSET NoteSet, logged : Nat, page : Nat, read : 0 .. MaxScan,
   items : Seq(TicketSet), pages : Nat, partial : BOOLEAN, were : SUBSET Nat, whole : BOOLEAN]

\* A block of time that was there is there, counted from the oldest.
StillBooked(w) == \A i \in w : i \in 1 .. Len(booked) /\ booked[Len(booked) + 1 - i].ours
TimelineKept ==
  view.kind = "timeline" =>
    /\ view.at \in {"timers", "over"} /\ InOrder(view.thread)
    /\ view.at = "timers" => StillBooked(view.were)
    /\ view.at = "over" => TimelineIsWholeUndisturbed /\ SignalsAreTrueUndisturbed

\* A ticket that was open and is not touched is found, or is still to be come to:
\* what comes to the front only moves it back.
FoundOne(id) == \E j \in DOMAIN view.items : view.items[j].id = id
StillAhead(id) == \E k \in 1 .. Len(pile) : pile[k].id = id /\ (FoundOne(id) \/ k > view.page * PerPage)
OpenKept ==
  view.kind = "open" =>
    /\ view.at \in {"page", "over"} /\ (view.at = "page" => view.read < MaxScan)
    /\ \A id \in view.were : StillAhead(id)
    /\ view.at = "over" /\ view.page >= view.pages => \A id \in view.were : FoundOne(id)

StandingKept == view.kind = "standing" => view.at = "over" /\ TotalsSayWhatTheyAre

HistInv == DeskTyped /\ view \in Views /\ TimelineKept /\ OpenKept /\ StandingKept

\* Nothing is being put together at first.
LEMMA NothingShown == NoView \in Views /\ NoView.kind = "none"
<1>1. PICK P, E, T : P = Posts /\ E = EntrySet /\ T = TicketSet OBVIOUS
<1>2. << >> \in Seq(P) /\ << >> \in Seq(E) /\ << >> \in Seq(T) OBVIOUS
<1>3. 0 \in 0 .. MaxScan BY HistoriesAssumption
<1> QED BY <1>1, <1>2, <1>3 DEF NoView, Views

\* The inductive invariant at the start.
LEMMA HistStart == HistoriesInit => HistInv
<1> SUFFICES ASSUME HistoriesInit PROVE HistInv OBVIOUS
<1>1. view = NoView /\ view \in Views /\ view.kind = "none" BY NothingShown DEF HistoriesInit
<1>2. thread \in Seq(Posts) /\ InOrder(thread) /\ booked \in Seq(Blocks)
  <2>1. thread \in Threads /\ booked \in Books BY DEF HistoriesInit
  <2>2. PICK P, B : P = Posts /\ B = Blocks OBVIOUS
  <2>3. \A t \in Threads : t \in Seq(P) /\ \A i, j \in DOMAIN t : i <= j => t[i].at <= t[j].at
    BY <2>2, ThreadsAssumption DEF Posts
  <2>4. Books \subseteq Seq(B) BY <2>2, ThreadsAssumption DEF Blocks
  <2> QED BY <2>1, <2>2, <2>3, <2>4 DEF InOrder
<1>3. PileFine
  <2>1. PICK N \in 0 .. PerPage + 1 : \E D \in SUBSET (1 .. N) :
               pile = [i \in 1 .. N |-> [id |-> N + 1 - i, done |-> N + 1 - i \in D]]
    BY DEF HistoriesInit
  <2>3. PICK D \in SUBSET (1 .. N) : pile = [i \in 1 .. N |-> [id |-> N + 1 - i, done |-> N + 1 - i \in D]]
    BY <2>1
  <2>4. N \in Nat BY HistoriesAssumption
  <2>5. PICK T : T = TicketSet OBVIOUS
  <2>6. ASSUME NEW i \in 1 .. N PROVE pile[i] \in T /\ pile[i].id = N + 1 - i
    <3>1. PICK k, d : k = N + 1 - i /\ d = (k \in D) OBVIOUS
    <3>2. k \in Nat BY <2>4, <3>1
    <3>3. d \in BOOLEAN BY <3>1
    <3>4. pile[i] = [id |-> k, done |-> d] BY <2>3, <3>1
    <3>5. [id |-> k, done |-> d] \in [id : Nat, done : BOOLEAN] BY <3>2, <3>3
    <3> QED BY <2>5, <3>1, <3>4, <3>5 DEF TicketSet
  <2>7. DOMAIN pile = 1 .. N /\ pile = [i \in 1 .. N |-> pile[i]]
    <3>1. PICK w : w = [i \in 1 .. N |-> [id |-> N + 1 - i, done |-> N + 1 - i \in D]] OBVIOUS
    <3>2. DOMAIN w = 1 .. N /\ w = [i \in 1 .. N |-> w[i]] BY <3>1
    <3> QED BY <2>3, <3>1, <3>2
  <2>8. pile \in [1 .. N -> T] BY <2>6, <2>7
  <2>9. pile \in Seq(T) BY <2>4, <2>8
  <2>10. Len(pile) = N BY <2>4, <2>7, LengthOf
  <2>11. \A i \in 1 .. N : N + 1 - i \in 1 .. N BY <2>4
  <2>12. \A i, j \in 1 .. N : N + 1 - i = N + 1 - j => i = j BY <2>4
  <2>13. OneEach(pile, N) BY <2>6, <2>11, <2>12 DEF OneEach
  <2> QED BY <2>5, <2>9, <2>10, <2>13 DEF PileFine
<1>4. owed \in Seq(BOOLEAN)
  <2>1. PICK N \in 0 .. PerPage + 1 : owed \in [1 .. N -> BOOLEAN] BY DEF HistoriesInit
  <2>2. N \in Nat BY HistoriesAssumption
  <2> QED BY <2>1, <2>2
<1>5. zone \in 0 .. 1 /\ doings \in 0 .. MaxWork /\ hour \in 0 .. MaxHour
  BY HistoriesAssumption DEF HistoriesInit
<1>6. DeskTyped BY <1>2, <1>3, <1>4, <1>5 DEF DeskTyped
<1> QED BY <1>1, <1>6 DEF HistInv, TimelineKept, OpenKept, StandingKept

\* Meanwhile, at the helpdesk: what is shown stays as it is, and what it was put
\* together from is still there.
LEMMA ShownStays ==
  ASSUME HistInv, DeskTyped', view' = view, zone' = zone,
         view.at = "timers" => (StillBooked(view.were) => StillBooked(view.were)'),
         view.kind = "open" => \A id \in view.were : StillAhead(id) => StillAhead(id)'
  PROVE  HistInv'
<1>1. view' \in Views BY DEF HistInv, Views
<1>2. TimelineIsWholeUndisturbed <=> TimelineIsWholeUndisturbed'
  BY DEF TimelineIsWholeUndisturbed, TimelineIsWhole, IsGiven, Messages, TimesIn
<1>3. SignalsAreTrueUndisturbed <=> SignalsAreTrueUndisturbed'
  BY DEF SignalsAreTrueUndisturbed, IsGiven, Wrote, Filed, Taken
<1>4. TotalsSayWhatTheyAre <=> TotalsSayWhatTheyAre' BY DEF TotalsSayWhatTheyAre, IsGiven
<1>5. TimelineKept' BY <1>2, <1>3 DEF HistInv, TimelineKept, InOrder
<1>6. \A id : FoundOne(id) <=> FoundOne(id)' BY DEF FoundOne
<1>7. OpenKept' BY <1>6 DEF HistInv, OpenKept
<1>8. StandingKept' BY <1>4 DEF HistInv, StandingKept
<1> QED BY <1>1, <1>5, <1>7, <1>8 DEF HistInv

\* What people do is one more thing done, and it is the last hour.
LEMMA WorksFine == DeskTyped /\ Works => doings' \in 0 .. MaxWork /\ hour' = MaxHour /\ hour' \in 0 .. MaxHour
BY HistoriesAssumption DEF DeskTyped, Works

\* A list with one more in front.
LEMMA InFront ==
  ASSUME NEW V, NEW s \in Seq(V), NEW v \in V, NEW N \in Nat, N = Len(s), NEW t, t = <<v>> \o s
  PROVE  /\ t \in Seq(V) /\ Len(t) = N + 1 /\ t[1] = v /\ DOMAIN t = 1 .. N + 1
         /\ \A i \in 2 .. N + 1 : t[i] = s[i - 1]
         /\ \A i \in 1 .. N : t[N + 1 + 1 - i] = s[N + 1 - i]
<1>1. PICK one : one = <<v>> OBVIOUS
<1>2. one \in Seq(V) /\ Len(one) = 1 /\ one[1] = v BY <1>1
<1>3. /\ one \o s \in Seq(V) /\ Len(one \o s) = Len(one) + Len(s)
      /\ \A i \in 1 .. Len(one) + Len(s) : (one \o s)[i] = IF i <= Len(one) THEN one[i] ELSE s[i - Len(one)]
  BY <1>2, ConcatProperties
<1>4. t \in Seq(V) /\ Len(t) = N + 1 /\ \A i \in 1 .. N + 1 : t[i] = IF i <= 1 THEN v ELSE s[i - 1]
  <2>1. t = one \o s BY <1>1
  <2> QED BY <1>2, <1>3, <2>1
<1>5. t[1] = v BY <1>4
<1>6. \A i \in 2 .. N + 1 : t[i] = s[i - 1]
  <2>1. \A i \in 2 .. N + 1 : i \in 1 .. N + 1 /\ ~(i <= 1) OBVIOUS
  <2> QED BY <1>4, <2>1
<1>7. ASSUME NEW i \in 1 .. N PROVE t[N + 1 + 1 - i] = s[N + 1 - i]
  <2>1. PICK k : k = N + 1 + 1 - i OBVIOUS
  <2>2. k \in 2 .. N + 1 /\ k - 1 = N + 1 - i BY <2>1
  <2> QED BY <1>6, <2>1, <2>2
<1>8. DOMAIN t = 1 .. N + 1 BY <1>4, LenProperties
<1> QED BY <1>4, <1>5, <1>6, <1>7, <1>8

\* A message comes last, at the last hour.
LEMMA AddMessageKeeps == ASSUME HistInv, NEW from \in Origins, AddMessage(from) PROVE HistInv'
<1>1. DeskTyped /\ Works /\ UNCHANGED <<booked, pile, owed, zone, view>>
      /\ thread' = Append(thread, [at |-> hour', from |-> from])
  BY DEF HistInv, AddMessage
<1>2. doings' \in 0 .. MaxWork /\ hour' = MaxHour /\ hour' \in 0 .. MaxHour BY <1>1, WorksFine
<1>3. PICK P, v : P = Posts /\ v = [at |-> hour', from |-> from] OBVIOUS
<1>4. v \in P /\ v.at = MaxHour BY <1>2, <1>3 DEF Posts
<1>5. thread \in Seq(P) BY <1>1, <1>3 DEF DeskTyped
<1>6. PICK N \in Nat : N = Len(thread) /\ DOMAIN thread = 1 .. N /\ \A i \in 1 .. N : thread[i] \in P
  BY <1>5, LenProperties
<1>7. PICK t : t = Append(thread, v) OBVIOUS
<1>8. t \in Seq(P) /\ Len(t) = N + 1 /\ t[N + 1] = v /\ \A i \in 1 .. N : t[i] = thread[i]
  BY <1>4, <1>5, <1>6, <1>7, AppendProperties
<1>9. DOMAIN t = 1 .. N + 1 BY <1>8, LenProperties
<1>10. InOrder(t)
  <2>1. ASSUME NEW i \in 1 .. N + 1, NEW j \in 1 .. N + 1, i <= j PROVE t[i].at <= t[j].at
    <3>1. CASE j = N + 1
      <4>1. t[j].at = MaxHour BY <1>4, <1>8, <3>1
      <4>2. t[i] \in P BY <1>8, <1>9, LenProperties
      <4>3. t[i].at \in 0 .. MaxHour BY <1>3, <4>2 DEF Posts
      <4> QED BY <4>1, <4>3, HistoriesAssumption
    <3>2. CASE j # N + 1
      <4>1. i \in 1 .. N /\ j \in 1 .. N BY <2>1, <3>2
      <4>2. thread[i].at <= thread[j].at BY <1>1, <1>6, <2>1, <4>1 DEF DeskTyped, InOrder
      <4> QED BY <1>8, <4>1, <4>2
    <3> QED BY <3>1, <3>2
  <2> QED BY <1>9, <2>1 DEF InOrder
<1>11. DeskTyped' BY <1>1, <1>2, <1>3, <1>7, <1>8, <1>10 DEF DeskTyped, PileFine, InOrder
<1>12. StillBooked(view.were) => StillBooked(view.were)' BY <1>1 DEF StillBooked
<1>13. \A id \in view.were : StillAhead(id) => StillAhead(id)' BY <1>1 DEF StillAhead, FoundOne
<1> QED BY <1>1, <1>11, <1>12, <1>13, ShownStays

\* A block of time comes first, and the others are as far from the end as they were.
LEMMA BookKeeps == ASSUME HistInv, NEW own \in BOOLEAN, Book(own) PROVE HistInv'
<1>1. DeskTyped /\ Works /\ UNCHANGED <<thread, pile, owed, zone, view>>
      /\ booked' = <<[ours |-> own, at |-> hour']>> \o booked
  BY DEF HistInv, Book
<1>2. doings' \in 0 .. MaxWork /\ hour' = MaxHour /\ hour' \in 0 .. MaxHour BY <1>1, WorksFine
<1>3. PICK B, v : B = Blocks /\ v = [ours |-> own, at |-> hour'] OBVIOUS
<1>4. v \in B BY <1>2, <1>3 DEF Blocks
<1>5. booked \in Seq(B) BY <1>1, <1>3 DEF DeskTyped
<1>6. PICK N \in Nat : N = Len(booked) BY <1>5, LenProperties
<1>7. booked' \in Seq(B) /\ Len(booked') = N + 1 /\ \A i \in 1 .. N : booked'[N + 1 + 1 - i] = booked[N + 1 - i]
  BY <1>1, <1>3, <1>4, <1>5, <1>6, InFront
<1>8. DeskTyped' BY <1>1, <1>2, <1>3, <1>7 DEF DeskTyped, PileFine, InOrder
<1>9. StillBooked(view.were) => StillBooked(view.were)'
  <2>1. ASSUME StillBooked(view.were), NEW i \in view.were
        PROVE  i \in 1 .. Len(booked') /\ booked'[Len(booked') + 1 - i].ours
    <3>1. i \in 1 .. N /\ booked[N + 1 - i].ours BY <1>6, <2>1 DEF StillBooked
    <3> QED BY <1>7, <3>1
  <2> QED BY <1>1, <2>1 DEF StillBooked
<1>10. \A id \in view.were : StillAhead(id) => StillAhead(id)' BY <1>1 DEF StillAhead, FoundOne
<1> QED BY <1>1, <1>8, <1>9, <1>10, ShownStays

\* How many rows have been read.
LEMMA RowsRead == ASSUME HistInv PROVE view.page * PerPage \in Nat
<1>1. PICK p \in Nat : p = view.page BY DEF HistInv, Views
<1>2. PICK c \in Nat : c = PerPage BY HistoriesAssumption
<1>3. p * c \in Nat OBVIOUS
<1> QED BY <1>1, <1>2, <1>3

\* A ticket comes first, and those still ahead are further ahead.
LEMMA NewTicketKeeps == ASSUME HistInv, NewTicket PROVE HistInv'
<1>1. DeskTyped /\ Works /\ UNCHANGED <<thread, booked, owed, zone, view>>
      /\ pile' = <<[id |-> Len(pile) + 1, done |-> FALSE]>> \o pile
  BY DEF HistInv, NewTicket
<1>2. doings' \in 0 .. MaxWork /\ hour' = MaxHour /\ hour' \in 0 .. MaxHour BY <1>1, WorksFine
<1>3. PICK T, v : T = TicketSet /\ v = [id |-> Len(pile) + 1, done |-> FALSE] OBVIOUS
<1>4. pile \in Seq(T) BY <1>1, <1>3 DEF DeskTyped, PileFine
<1>5. PICK N \in Nat : N = Len(pile) BY <1>4, LenProperties
<1>6. v \in T /\ v.id = N + 1 BY <1>3, <1>5 DEF TicketSet
<1>7. /\ pile' \in Seq(T) /\ Len(pile') = N + 1 /\ pile'[1] = v
      /\ \A i \in 2 .. N + 1 : pile'[i] = pile[i - 1]
  BY <1>1, <1>3, <1>4, <1>5, <1>6, InFront
<1>8. OneEach(pile', N + 1)
  <2>1. OneEach(pile, N) BY <1>1, <1>5 DEF DeskTyped, PileFine
  <2>2. \A i \in 2 .. N + 1 : i - 1 \in 1 .. N /\ pile'[i].id = pile[i - 1].id BY <1>7
  <2>3. \A i \in 2 .. N + 1 : pile'[i].id \in 1 .. N BY <2>1, <2>2 DEF OneEach
  <2>4. pile'[1].id = N + 1 BY <1>6, <1>7
  <2>5. \A i, j \in 2 .. N + 1 : pile'[i].id = pile'[j].id => i - 1 = j - 1 BY <2>1, <2>2 DEF OneEach
  <2>6. \A i, j \in 2 .. N + 1 : i - 1 = j - 1 => i = j OBVIOUS
  <2>7. \A i \in 1 .. N + 1 : i = 1 \/ i \in 2 .. N + 1 OBVIOUS
  <2>8. N + 1 \in 1 .. N + 1 /\ N + 1 \notin 1 .. N /\ \A x \in 1 .. N : x \in 1 .. N + 1 OBVIOUS
  <2>9. \A i \in 1 .. N + 1 : pile'[i].id \in 1 .. N + 1 BY <2>3, <2>4, <2>7, <2>8
  <2>10. ASSUME NEW i \in 1 .. N + 1, NEW j \in 1 .. N + 1, pile'[i].id = pile'[j].id PROVE i = j
    <3>1. CASE i \in 2 .. N + 1 /\ j \in 2 .. N + 1 BY <2>5, <2>6, <2>10, <3>1
    <3>2. CASE i = 1 /\ j \in 2 .. N + 1 BY <2>3, <2>4, <2>8, <2>10, <3>2
    <3>3. CASE j = 1 /\ i \in 2 .. N + 1 BY <2>3, <2>4, <2>8, <2>10, <3>3
    <3> QED BY <2>7, <3>1, <3>2, <3>3
  <2> QED BY <2>9, <2>10 DEF OneEach
<1>9. PileFine' BY <1>3, <1>7, <1>8 DEF PileFine
<1>10. DeskTyped' BY <1>1, <1>2, <1>9 DEF DeskTyped, InOrder
<1>11. ASSUME NEW id \in view.were, StillAhead(id) PROVE StillAhead(id)'
  <2>1. PICK a \in Nat : a = view.page * PerPage BY RowsRead
  <2>2. PICK k \in 1 .. N : pile[k].id = id /\ (FoundOne(id) \/ k > a) BY <1>5, <1>11, <2>1 DEF StillAhead
  <2>3. PICK l : l = k + 1 OBVIOUS
  <2>4. l \in 2 .. N + 1 /\ l \in 1 .. N + 1 /\ l - 1 = k /\ (k > a => l > a) BY <2>1, <2>3
  <2>5. pile'[l].id = id BY <1>7, <2>2, <2>4
  <2>6. FoundOne(id)' <=> FoundOne(id) BY <1>1 DEF FoundOne
  <2>7. view'.page * PerPage = a BY <1>1, <2>1
  <2> QED BY <1>7, <2>2, <2>4, <2>5, <2>6, <2>7 DEF StillAhead
<1>12. StillBooked(view.were) => StillBooked(view.were)' BY <1>1 DEF StillBooked
<1> QED BY <1>1, <1>10, <1>11, <1>12, ShownStays

\* What is shown, field by field.
LEMMA ViewIs ==
  ASSUME NEW v \in Views
  PROVE  v = [kind |-> v.kind, at |-> v.at, thread |-> v.thread, entries |-> v.entries, notes |-> v.notes,
              logged |-> v.logged, page |-> v.page, read |-> v.read, items |-> v.items, pages |-> v.pages,
              partial |-> v.partial, were |-> v.were, whole |-> v.whole]
<1>1. PICK A, B, C, D, E, F, G : /\ A = {"none", "timeline", "open", "standing"} /\ B = {"idle", "timers", "page", "over"}
         /\ C = Seq(Posts) /\ D = Seq(EntrySet) /\ E = SUBSET NoteSet /\ F = 0 .. MaxScan
         /\ G = Seq(TicketSet) OBVIOUS
<1>2. v \in [kind : A, at : B, thread : C, entries : D, notes : E, logged : Nat, page : Nat, read : F,
             items : G, pages : Nat, partial : BOOLEAN, were : SUBSET Nat, whole : BOOLEAN]
  BY <1>1 DEF Views
<1> QED BY <1>2

\* v is in front, in the place of the i-th.
CameFirst(heap, N, i, v) ==
  /\ heap \in Seq(TicketSet) /\ Len(heap) = N /\ heap[1] = v
  /\ \A k \in 1 .. N \ {i} : \E l \in 2 .. N : l >= k /\ heap[l] = pile[k]
  /\ \A l \in 2 .. N : \E k \in 1 .. N \ {i} : k = (IF l <= i THEN l - 1 ELSE l) /\ heap[l] = pile[k]

\* A row comes to the front: the others keep their order and none comes nearer.
LEMMA FrontFine ==
  ASSUME pile \in Seq(TicketSet), NEW N \in Nat, N = Len(pile), NEW i \in 1 .. N, NEW v \in TicketSet
  PROVE  CameFirst(ToFront(i, v), N, i, v)
<1>a. PICK V, heap : V = TicketSet /\ heap = ToFront(i, v) OBVIOUS
<1>b. pile \in Seq(V) /\ v \in V BY <1>a
<1>1. DOMAIN pile = 1 .. N /\ \A k \in 1 .. N : pile[k] \in V BY <1>b, LenProperties
<1>2. heap = [j \in 1 .. N |-> IF j = 1 THEN v ELSE IF j <= i THEN pile[j - 1] ELSE pile[j]]
  BY <1>1, <1>a DEF ToFront
<1>3. ASSUME NEW k \in 1 .. N \ {i} PROVE \E l \in 2 .. N : l >= k /\ heap[l] = pile[k]
  <2>1. PICK l : l = IF k < i THEN k + 1 ELSE k OBVIOUS
  <2>2. CASE k < i
    <3>1. l = k + 1 /\ l \in 2 .. N /\ l >= k /\ l <= i /\ l - 1 = k /\ l # 1 BY <2>1, <2>2
    <3>2. heap[l] = pile[l - 1] BY <1>2, <3>1
    <3> QED BY <3>1, <3>2
  <2>3. CASE ~(k < i)
    <3>1. l = k /\ l \in 2 .. N /\ l >= k /\ ~(l <= i) /\ l # 1 BY <2>1, <2>3
    <3>2. heap[l] = pile[l] BY <1>2, <3>1
    <3> QED BY <3>1, <3>2
  <2> QED BY <2>2, <2>3
<1>4. ASSUME NEW l \in 2 .. N
      PROVE  \E k \in 1 .. N \ {i} : k = (IF l <= i THEN l - 1 ELSE l) /\ heap[l] = pile[k]
  <2>1. PICK k : k = IF l <= i THEN l - 1 ELSE l OBVIOUS
  <2>2. k \in 1 .. N \ {i} /\ l \in 1 .. N /\ l # 1 BY <2>1
  <2>3. heap[l] = pile[k] BY <1>2, <2>1, <2>2
  <2> QED BY <2>1, <2>2, <2>3
<1>5. heap[1] = v BY <1>2
<1>6. heap \in [1 .. N -> V]
  <2>1. ASSUME NEW l \in 1 .. N PROVE heap[l] \in V
    <3>1. l = 1 \/ l \in 2 .. N OBVIOUS
    <3> QED BY <1>1, <1>4, <1>5, <1>b, <3>1
  <2>2. \A l \in 1 .. N : heap[l] \in V BY <2>1
  <2> QED BY <1>2, <2>2
<1>7. heap \in Seq(V) /\ Len(heap) = N
  <2>1. heap \in Seq(V) BY <1>6
  <2> QED BY <1>2, <2>1, LengthOf
<1> QED BY <1>3, <1>4, <1>5, <1>7, <1>a DEF CameFirst

\* A ticket comes to the front; those nobody touched are no nearer.
LEMMA TouchKeeps == ASSUME HistInv, NEW i \in DOMAIN pile, NEW done \in BOOLEAN, Touch(i, done) PROVE HistInv'
<1>1. /\ DeskTyped /\ Works /\ UNCHANGED <<thread, booked, owed, zone>>
      /\ pile' = ToFront(i, [pile[i] EXCEPT !.done = done])
      /\ view' = IF view.kind = "open" THEN [view EXCEPT !.were = @ \ {pile[i].id}] ELSE view
  BY DEF HistInv, Touch
<1>2. doings' \in 0 .. MaxWork /\ hour' = MaxHour /\ hour' \in 0 .. MaxHour BY <1>1, WorksFine
<1>3. PICK T : T = TicketSet OBVIOUS
<1>4. pile \in Seq(T) BY <1>1, <1>3 DEF DeskTyped, PileFine
<1>5. PICK N \in Nat : N = Len(pile) /\ DOMAIN pile = 1 .. N /\ \A j \in 1 .. N : pile[j] \in T BY <1>4, LenProperties
<1>6. OneEach(pile, N) BY <1>1, <1>5 DEF DeskTyped, PileFine
<1>7. PICK w : w = [pile[i] EXCEPT !.done = done] OBVIOUS
<1>8. w \in T /\ w.id = pile[i].id
  <2>1. PICK d \in Nat, b \in BOOLEAN : pile[i] = [id |-> d, done |-> b] BY <1>3, <1>5 DEF TicketSet
  <2>2. w = [id |-> d, done |-> done] BY <1>7, <2>1
  <2> QED BY <1>3, <2>1, <2>2 DEF TicketSet
<1>9. /\ pile' \in Seq(T) /\ Len(pile') = N /\ pile'[1] = w
      /\ \A k \in 1 .. N \ {i} : \E l \in 2 .. N : l >= k /\ pile'[l] = pile[k]
      /\ \A l \in 2 .. N : \E k \in 1 .. N \ {i} : k = (IF l <= i THEN l - 1 ELSE l) /\ pile'[l] = pile[k]
  <2>1. i \in 1 .. N /\ w \in TicketSet /\ pile \in Seq(TicketSet) BY <1>3, <1>4, <1>5, <1>8
  <2>2. CameFirst(ToFront(i, w), N, i, w) BY <1>5, <2>1, FrontFine
  <2>3. pile' = ToFront(i, w) BY <1>1, <1>7
  <2>4. CameFirst(pile', N, i, w) BY <2>2, <2>3
  <2> QED BY <1>3, <2>4 DEF CameFirst
<1>10. OneEach(pile', N)
  <2>1. \A l \in 1 .. N : l = 1 \/ l \in 2 .. N OBVIOUS
  <2>2. pile'[1].id = pile[i].id /\ pile[i].id \in 1 .. N BY <1>5, <1>6, <1>8, <1>9 DEF OneEach
  <2>3. \A l \in 2 .. N : pile'[l].id \in 1 .. N /\ pile'[l].id # pile[i].id BY <1>5, <1>6, <1>9 DEF OneEach
  <2>4. ASSUME NEW l \in 2 .. N, NEW m \in 2 .. N, pile'[l].id = pile'[m].id PROVE l = m
    <3>1. PICK k \in 1 .. N \ {i} : k = (IF l <= i THEN l - 1 ELSE l) /\ pile'[l] = pile[k] BY <1>9
    <3>2. PICK j \in 1 .. N \ {i} : j = (IF m <= i THEN m - 1 ELSE m) /\ pile'[m] = pile[j] BY <1>9
    <3>3. k = j BY <1>6, <2>4, <3>1, <3>2 DEF OneEach
    <3>4. i \in 1 .. N BY <1>5
    <3> QED BY <3>1, <3>2, <3>3, <3>4
  <2>5. \A l \in 1 .. N : pile'[l].id \in 1 .. N BY <2>1, <2>2, <2>3
  <2>6. ASSUME NEW l \in 1 .. N, NEW m \in 1 .. N, pile'[l].id = pile'[m].id PROVE l = m
    BY <2>1, <2>2, <2>3, <2>4, <2>6
  <2> QED BY <2>5, <2>6 DEF OneEach
<1>11. PileFine' BY <1>3, <1>9, <1>10 DEF PileFine
<1>12. DeskTyped' BY <1>1, <1>2, <1>11 DEF DeskTyped, InOrder
<1>13. CASE view.kind # "open"
  <2>1. view' = view BY <1>1, <1>13
  <2>2. StillBooked(view.were) => StillBooked(view.were)' BY <1>1, <2>1 DEF StillBooked
  <2> QED BY <1>1, <1>12, <1>13, <2>1, <2>2, ShownStays
<1>14. CASE view.kind = "open"
  <2>1. PICK W : W = view.were \ {pile[i].id} OBVIOUS
  <2>2. view' = [view EXCEPT !.were = W] BY <1>1, <1>14, <2>1
  <2>3. view \in Views BY DEF HistInv
  <2>4. PICK v : v = view OBVIOUS
  <2>5. v = [kind |-> v.kind, at |-> v.at, thread |-> v.thread, entries |-> v.entries, notes |-> v.notes,
             logged |-> v.logged, page |-> v.page, read |-> v.read, items |-> v.items, pages |-> v.pages,
             partial |-> v.partial, were |-> v.were, whole |-> v.whole] BY <2>3, <2>4, ViewIs
  <2>6. view' = [kind |-> v.kind, at |-> v.at, thread |-> v.thread, entries |-> v.entries, notes |-> v.notes,
             logged |-> v.logged, page |-> v.page, read |-> v.read, items |-> v.items, pages |-> v.pages,
             partial |-> v.partial, were |-> W, whole |-> v.whole] BY <2>2, <2>4, <2>5
  <2>7. view' \in Views
    <3>1. PICK A, B, C, D, E, F, G : /\ A = {"none", "timeline", "open", "standing"} /\ B = {"idle", "timers", "page", "over"}
             /\ C = Seq(Posts) /\ D = Seq(EntrySet) /\ E = SUBSET NoteSet /\ F = 0 .. MaxScan
             /\ G = Seq(TicketSet) OBVIOUS
    <3>2. v \in [kind : A, at : B, thread : C, entries : D, notes : E, logged : Nat, page : Nat, read : F,
                 items : G, pages : Nat, partial : BOOLEAN, were : SUBSET Nat, whole : BOOLEAN]
      BY <2>3, <2>4, <3>1 DEF Views
    <3>3. v.were \in SUBSET Nat BY <3>2
    <3>4. W \in SUBSET Nat BY <2>1, <2>4, <3>3
    <3>5. view' \in [kind : A, at : B, thread : C, entries : D, notes : E, logged : Nat, page : Nat, read : F,
                 items : G, pages : Nat, partial : BOOLEAN, were : SUBSET Nat, whole : BOOLEAN]
      BY <2>6, <3>2, <3>4
    <3> QED BY <3>1, <3>5 DEF Views
  <2>8. /\ view'.kind = "open" /\ view'.at = view.at /\ view'.page = view.page /\ view'.pages = view.pages
        /\ view'.read = view.read /\ view'.items = view.items /\ view'.were = W
    BY <1>14, <2>4, <2>6
  <2>9. \A id : FoundOne(id)' <=> FoundOne(id) BY <2>8 DEF FoundOne
  <2>10. PICK a \in Nat : a = view.page * PerPage BY RowsRead
  <2>11. ASSUME NEW id \in W PROVE StillAhead(id)'
    <3>1. id \in view.were /\ id # pile[i].id BY <2>1, <2>11
    <3>2. PICK k \in 1 .. N : pile[k].id = id /\ (FoundOne(id) \/ k > a)
      BY <1>5, <1>14, <2>10, <3>1 DEF HistInv, OpenKept, StillAhead
    <3>3. k # i BY <3>1, <3>2
    <3>4. PICK l \in 2 .. N : l >= k /\ pile'[l] = pile[k] BY <1>9, <3>3
    <3>5. l \in 1 .. N /\ (k > a => l > a) BY <3>4
    <3>6. view'.page * PerPage = a BY <2>8, <2>10
    <3> QED BY <1>9, <2>9, <3>2, <3>4, <3>5, <3>6 DEF StillAhead
  <2>12. OpenKept' BY <1>14, <2>1, <2>8, <2>9, <2>11 DEF OpenKept, HistInv
  <2> QED BY <1>12, <2>7, <2>8, <2>12 DEF HistInv, TimelineKept, StandingKept
<1> QED BY <1>13, <1>14

\* Reading changes nothing at the desk.
LEMMA DeskStays == DeskTyped /\ UNCHANGED <<thread, booked, pile, owed, zone, doings, hour>> => DeskTyped'
BY DEF DeskTyped, PileFine, InOrder

\* The ticket is read, and what is booked on it is noted.
LEMMA ReadTicketKeeps == ASSUME HistInv, ReadTicket PROVE HistInv'
<1>1. DeskTyped /\ UNCHANGED <<thread, booked, pile, owed, zone, doings, hour>> BY DEF HistInv, ReadTicket
<1>2. DeskTyped' BY <1>1, DeskStays
<1>3. PICK W : W = {i \in DOMAIN booked : booked[Len(booked) + 1 - i].ours} OBVIOUS
<1>4. PICK b \in BOOLEAN : b = (Len(booked) <= PerPage)
  <2>1. PICK N \in Nat, c \in Nat : N = Len(booked) /\ c = PerPage
    BY <1>1, LenProperties, HistoriesAssumption DEF DeskTyped
  <2>2. (N <= c) \in BOOLEAN OBVIOUS
  <2> QED BY <2>1, <2>2
<1>5. view' = [NoView EXCEPT !.kind = "timeline", !.at = "timers", !.thread = thread, !.whole = b, !.were = W]
  BY <1>3, <1>4 DEF ReadTicket
<1>6. PICK P, E, T : P = Posts /\ E = EntrySet /\ T = TicketSet OBVIOUS
<1>7. view' = [kind |-> "timeline", at |-> "timers", thread |-> thread, entries |-> <<>>, notes |-> {}, logged |-> 0,
               page |-> 0, read |-> 0, items |-> <<>>, pages |-> 0, partial |-> FALSE, were |-> W, whole |-> b]
  BY <1>5 DEF NoView
<1>8. DOMAIN booked = 1 .. Len(booked) BY <1>1, LenProperties DEF DeskTyped
<1>9. W \in SUBSET Nat BY <1>3, <1>8
<1>10. view' \in Views
  <2>1. << >> \in Seq(E) /\ << >> \in Seq(T) /\ {} \in SUBSET NoteSet OBVIOUS
  <2>2. 0 \in 0 .. MaxScan BY HistoriesAssumption
  <2>3. thread \in Seq(P) BY <1>1, <1>6 DEF DeskTyped
  <2> QED BY <1>6, <1>7, <1>9, <2>1, <2>2, <2>3 DEF Views
<1>11. view'.kind = "timeline" /\ view'.at = "timers" /\ view'.thread = thread /\ view'.were = W BY <1>7
<1>12. StillBooked(W)' BY <1>1, <1>3, <1>8 DEF StillBooked
<1>13. TimelineKept'
  <2>1. InOrder(thread) BY <1>1 DEF DeskTyped
  <2> QED BY <1>1, <1>11, <1>12, <2>1 DEF TimelineKept, InOrder, StillBooked
<1> QED BY <1>2, <1>10, <1>11, <1>13 DEF HistInv, OpenKept, StandingKept

\* The customer's invoices are all on the first page when there is but one.
LEMMA ReadStandingKeeps == ASSUME HistInv, ReadStanding PROVE HistInv'
<1>1. DeskTyped /\ UNCHANGED <<thread, booked, pile, owed, zone, doings, hour>> BY DEF HistInv, ReadStanding
<1>2. DeskTyped' BY <1>1, DeskStays
<1>3. PICK W : W = {i \in DOMAIN owed : owed[i]} OBVIOUS
<1>4. owed \in Seq(BOOLEAN) BY <1>1 DEF DeskTyped
<1>5. PICK N \in Nat : N = Len(owed) /\ DOMAIN owed = 1 .. N BY <1>4, LenProperties
<1>6. PICK b \in BOOLEAN : b = CutShort(owed)
  <2>1. CutShort(owed) \in BOOLEAN BY DEF CutShort
  <2> QED BY <2>1
<1>7. PICK page : page = PageOf(owed, 1) OBVIOUS
<1>8. page \in Seq(BOOLEAN) /\ (N <= PerPage => page = owed) BY <1>4, <1>5, <1>7, OnePage
<1>9. PICK keep : keep = {i \in DOMAIN page : page[i]} OBVIOUS
<1>10. DOMAIN page = 1 .. Len(page) /\ Len(page) \in Nat BY <1>8, LenProperties
<1>11. keep \in SUBSET (1 .. Len(page)) BY <1>9, <1>10
<1>12. Sift(page, keep) \in Seq(BOOLEAN) /\ Len(Sift(page, keep)) = Cardinality(keep) BY <1>8, <1>11, KeptFine
<1>13. PICK k \in Nat : k = Cardinality(keep) BY <1>12, LenProperties
<1>14. Len(Unpaid(owed)) = k
  <2>1. Unpaid(owed) = Sift(page, keep) BY <1>7, <1>9 DEF Unpaid
  <2> QED BY <1>12, <1>13, <2>1
<1>15. ~b => k = Cardinality(W)
  <2>1. SUFFICES ASSUME ~b PROVE k = Cardinality(W) OBVIOUS
  <2>2. PICK q \in Nat : q = TotalPages(owed) /\ (q <= 1 => N <= PerPage) BY <1>4, <1>5, PagesFine
  <2>3. q <= 1
    <3>1. CutShort(owed) <=> q > 1 BY <2>2 DEF CutShort
    <3>2. ~CutShort(owed) BY <1>6, <2>1
    <3> QED BY <2>2, <3>1, <3>2
  <2>4. page = owed BY <1>8, <2>2, <2>3
  <2>5. keep = W BY <1>3, <1>9, <2>4
  <2> QED BY <1>13, <2>5
<1>16. view' = [NoView EXCEPT !.kind = "standing", !.at = "over", !.partial = b, !.logged = k, !.were = W]
  BY <1>3, <1>6, <1>14 DEF ReadStanding
<1>17. view' = [kind |-> "standing", at |-> "over", thread |-> <<>>, entries |-> <<>>, notes |-> {}, logged |-> k,
                page |-> 0, read |-> 0, items |-> <<>>, pages |-> 0, partial |-> b, were |-> W, whole |-> TRUE]
  BY <1>16 DEF NoView
<1>18. view' \in Views
  <2>1. PICK P, E, T : P = Posts /\ E = EntrySet /\ T = TicketSet OBVIOUS
  <2>2. << >> \in Seq(P) /\ << >> \in Seq(E) /\ << >> \in Seq(T) /\ {} \in SUBSET NoteSet OBVIOUS
  <2>3. 0 \in 0 .. MaxScan BY HistoriesAssumption
  <2>4. W \in SUBSET Nat BY <1>3, <1>5
  <2> QED BY <1>17, <2>1, <2>2, <2>3, <2>4 DEF Views
<1>19. view'.kind = "standing" /\ view'.at = "over" /\ view'.partial = b /\ view'.logged = k /\ view'.were = W BY <1>17
<1>20. StandingKept' BY <1>15, <1>19 DEF StandingKept, TotalsSayWhatTheyAre, IsGiven
<1> QED BY <1>2, <1>18, <1>19, <1>20 DEF HistInv, TimelineKept, OpenKept

\* A search begins with every open ticket ahead of it, or goes on where it stopped.
LEMMA SearchOpenKeeps == ASSUME HistInv, SearchOpen PROVE HistInv'
<1>1. DeskTyped /\ UNCHANGED <<thread, booked, pile, owed, zone, doings, hour>> BY DEF HistInv, SearchOpen
<1>2. DeskTyped' BY <1>1, DeskStays
<1>3. PICK N \in Nat : N = Len(pile) /\ DOMAIN pile = 1 .. N /\ \A i \in 1 .. N : pile[i].id \in 1 .. N
  BY <1>1, LenProperties DEF DeskTyped, PileFine, OneEach
<1>4. CASE view.kind = "none" /\ view' = [NoView EXCEPT !.kind = "open", !.at = "page", !.were = OpenIds(pile)]
  <2>1. PICK W : W = OpenIds(pile) OBVIOUS
  <2>2. view' = [kind |-> "open", at |-> "page", thread |-> <<>>, entries |-> <<>>, notes |-> {}, logged |-> 0,
                 page |-> 0, read |-> 0, items |-> <<>>, pages |-> 0, partial |-> FALSE, were |-> W, whole |-> TRUE]
    BY <1>4, <2>1 DEF NoView
  <2>3. \A id \in W : id \in 1 .. N /\ \E k \in 1 .. N : pile[k].id = id BY <1>3, <2>1 DEF OpenIds
  <2>4. view' \in Views
    <3>1. PICK P, E, T : P = Posts /\ E = EntrySet /\ T = TicketSet OBVIOUS
    <3>2. << >> \in Seq(P) /\ << >> \in Seq(E) /\ << >> \in Seq(T) /\ {} \in SUBSET NoteSet OBVIOUS
    <3>3. 0 \in 0 .. MaxScan BY HistoriesAssumption
    <3>4. W \in SUBSET Nat BY <2>3
    <3> QED BY <2>2, <3>1, <3>2, <3>3, <3>4 DEF Views
  <2>5. view'.kind = "open" /\ view'.at = "page" /\ view'.page = 0 /\ view'.read = 0 /\ view'.were = W BY <2>2
  <2>6. ASSUME NEW id \in W PROVE StillAhead(id)'
    <3>1. PICK k \in 1 .. N : pile[k].id = id BY <2>3
    <3>2. 0 * PerPage = 0 BY HistoriesAssumption
    <3>3. k > 0 OBVIOUS
    <3> QED BY <1>1, <1>3, <2>5, <3>1, <3>2, <3>3 DEF StillAhead
  <2>7. 0 < MaxScan BY HistoriesAssumption
  <2>8. OpenKept' BY <2>5, <2>6, <2>7 DEF OpenKept
  <2> QED BY <1>2, <2>4, <2>5, <2>8 DEF HistInv, TimelineKept, StandingKept
<1>5. CASE /\ view.kind = "open" /\ view.at = "over" /\ view.page < view.pages
           /\ view' = [view EXCEPT !.at = "page", !.read = 0, !.logged = Len(view.items)]
  <2>1. view \in Views BY DEF HistInv
  <2>2. PICK k \in Nat : k = Len(view.items) BY <2>1, LenProperties DEF Views
  <2>3. PICK v : v = view OBVIOUS
  <2>4. v = [kind |-> v.kind, at |-> v.at, thread |-> v.thread, entries |-> v.entries, notes |-> v.notes,
             logged |-> v.logged, page |-> v.page, read |-> v.read, items |-> v.items, pages |-> v.pages,
             partial |-> v.partial, were |-> v.were, whole |-> v.whole] BY <2>1, <2>3, ViewIs
  <2>5. view' = [kind |-> v.kind, at |-> "page", thread |-> v.thread, entries |-> v.entries, notes |-> v.notes,
             logged |-> k, page |-> v.page, read |-> 0, items |-> v.items, pages |-> v.pages,
             partial |-> v.partial, were |-> v.were, whole |-> v.whole] BY <1>5, <2>2, <2>3, <2>4
  <2>6. view' \in Views
    <3>1. 0 \in 0 .. MaxScan BY HistoriesAssumption
    <3>2. PICK A, B, C, D, E, F, G : /\ A = {"none", "timeline", "open", "standing"} /\ B = {"idle", "timers", "page", "over"}
             /\ C = Seq(Posts) /\ D = Seq(EntrySet) /\ E = SUBSET NoteSet /\ F = 0 .. MaxScan
             /\ G = Seq(TicketSet) OBVIOUS
    <3>3. v \in [kind : A, at : B, thread : C, entries : D, notes : E, logged : Nat, page : Nat, read : F,
                 items : G, pages : Nat, partial : BOOLEAN, were : SUBSET Nat, whole : BOOLEAN]
      BY <2>1, <2>3, <3>2 DEF Views
    <3>4. "page" \in B /\ 0 \in F BY <3>1, <3>2
    <3>5. view' \in [kind : A, at : B, thread : C, entries : D, notes : E, logged : Nat, page : Nat, read : F,
                 items : G, pages : Nat, partial : BOOLEAN, were : SUBSET Nat, whole : BOOLEAN]
      BY <2>2, <2>5, <3>3, <3>4
    <3> QED BY <3>2, <3>5 DEF Views
  <2>7. /\ view'.kind = "open" /\ view'.at = "page" /\ view'.page = view.page /\ view'.read = 0
        /\ view'.were = view.were /\ view'.items = view.items BY <1>5, <2>3, <2>5
  <2>8. \A id \in view.were : StillAhead(id) BY <1>5 DEF HistInv, OpenKept
  <2>9. \A id \in view.were : StillAhead(id)' BY <1>1, <2>7, <2>8 DEF StillAhead, FoundOne
  <2>10. 0 < MaxScan BY HistoriesAssumption
  <2>11. OpenKept' BY <2>7, <2>9, <2>10 DEF OpenKept
  <2> QED BY <1>2, <2>6, <2>7, <2>11 DEF HistInv, TimelineKept, StandingKept
<1> QED BY <1>4, <1>5 DEF SearchOpen

\* Every ticket that is open and on a page is kept of it.
KeptOfPage(kept, a) ==
  \A k \in 1 .. Len(pile) : ~pile[k].done /\ a < k /\ k <= a + PerPage => \E j \in 1 .. Len(kept) : kept[j] = pile[k]

\* Open leaves none out.
LEMMA PageAdds ==
  ASSUME DeskTyped, NEW p \in Nat, NEW a \in Nat, a = p * PerPage, NEW kept, kept = Open(PageOf(pile, p + 1))
  PROVE  kept \in Seq(TicketSet) /\ KeptOfPage(kept, a)
<1>0. PICK N \in Nat : N = Len(pile) BY LenProperties DEF DeskTyped, PileFine
<1>1. PICK T : T = TicketSet OBVIOUS
<1>2. pile \in Seq(T) BY <1>1 DEF DeskTyped, PileFine
<1>3. DOMAIN pile = 1 .. N BY <1>0, <1>2, LenProperties
<1>4. PICK list : list = PageOf(pile, p + 1) OBVIOUS
<1>12. list \in Seq(T) /\ HasRows(list, pile, a) BY <1>2, <1>4, PageFine
<1>5. /\ list \in Seq(T)
      /\ \A i \in 1 .. N : a < i /\ i <= a + PerPage => \E j \in 1 .. Len(list) : list[j] = pile[i]
  BY <1>0, <1>12 DEF HasRows
<1>6. DOMAIN list = 1 .. Len(list) BY <1>5, LenProperties
<1>7. PICK keep : keep = {i \in DOMAIN list : ~list[i].done} OBVIOUS
<1>8. keep \in SUBSET (1 .. Len(list)) BY <1>6, <1>7
<1>9. kept = Sift(list, keep) BY <1>4, <1>7 DEF Open
<1>10. kept \in Seq(T) /\ \A j \in keep : \E i \in 1 .. Len(kept) : kept[i] = list[j]
  <2>1. list \in Seq(T) BY <1>5
  <2>2. Sift(list, keep) \in Seq(T) /\ \A j \in keep : \E i \in 1 .. Len(Sift(list, keep)) : Sift(list, keep)[i] = list[j]
    BY <2>1, <1>8, KeptFine
  <2> QED BY <1>9, <2>2
<1>11. ASSUME NEW k \in 1 .. N, ~pile[k].done, a < k, k <= a + PerPage
       PROVE  \E j \in 1 .. Len(kept) : kept[j] = pile[k]
  <2>1. PICK j \in 1 .. Len(list) : list[j] = pile[k] BY <1>5, <1>11
  <2>2. j \in keep BY <1>6, <1>7, <1>11, <2>1
  <2>3. PICK i \in 1 .. Len(kept) : kept[i] = list[j] BY <1>10, <2>2
  <2> QED BY <2>1, <2>3
<1> QED BY <1>0, <1>1, <1>10, <1>11 DEF KeptOfPage

\* A page later, what was open on it is found; after the last page nothing is ahead.
LEMMA ReadPageKeeps == ASSUME HistInv, ReadPage PROVE HistInv'
<1>1. /\ DeskTyped /\ UNCHANGED <<thread, booked, pile, owed, zone, doings, hour>>
      /\ view.kind = "open" /\ view.at = "page" /\ view \in Views /\ view.read < MaxScan
      /\ \A id \in view.were : StillAhead(id)
  BY DEF HistInv, OpenKept, ReadPage
<1>2. DeskTyped' BY <1>1, DeskStays
<1>3. PICK v : v = view OBVIOUS
<1>4. v = [kind |-> v.kind, at |-> v.at, thread |-> v.thread, entries |-> v.entries, notes |-> v.notes,
           logged |-> v.logged, page |-> v.page, read |-> v.read, items |-> v.items, pages |-> v.pages,
           partial |-> v.partial, were |-> v.were, whole |-> v.whole] BY <1>1, <1>3, ViewIs
<1>5. PICK p \in Nat, r \in Nat : p = view.page /\ r = view.read /\ r + 1 \in 0 .. MaxScan
  <2>1. view.page \in Nat /\ view.read \in 0 .. MaxScan BY <1>1 DEF Views
  <2>2. MaxScan \in Nat BY HistoriesAssumption
  <2> QED BY <1>1, <2>1, <2>2
<1>6. PICK c \in Nat : c = PerPage BY HistoriesAssumption
<1>7. PICK a \in Nat : a = p * PerPage BY <1>5, RowsRead
<1>8. (p + 1) * PerPage = a + c
  <2>1. (p + 1) * c = p * c + c OBVIOUS
  <2> QED BY <1>6, <1>7, <2>1
<1>9. PICK N \in Nat : N = Len(pile) BY <1>1, LenProperties DEF DeskTyped, PileFine
<1>10. PICK kept : kept = Open(PageOf(pile, p + 1)) OBVIOUS
<1>11. /\ kept \in Seq(TicketSet)
       /\ \A k \in 1 .. N : ~pile[k].done /\ a < k /\ k <= a + PerPage => \E j \in 1 .. Len(kept) : kept[j] = pile[k]
  <2>1. kept \in Seq(TicketSet) /\ KeptOfPage(kept, a) BY <1>1, <1>5, <1>7, <1>10, PageAdds
  <2> QED BY <1>9, <2>1 DEF KeptOfPage
<1>12. PICK T, old, all : T = TicketSet /\ old = view.items /\ all = With(view.items, PageOf(pile, p + 1)) OBVIOUS
<1>13. old \in Seq(T) BY <1>1, <1>12 DEF Views
<1>14. /\ all \in Seq(T) /\ DOMAIN old = 1 .. Len(old) /\ DOMAIN all = 1 .. Len(all)
       /\ \A j \in 1 .. Len(old) : \E i \in 1 .. Len(all) : all[i] = old[j]
       /\ \A j \in 1 .. Len(kept) : \E i \in 1 .. Len(all) : all[i] = kept[j]
  <2>1. all = old \o kept BY <1>10, <1>12 DEF With
  <2>2. PICK x \in Nat, y \in Nat : x = Len(old) /\ y = Len(kept) BY <1>11, <1>12, <1>13, LenProperties
  <2>3. kept \in Seq(T) BY <1>11, <1>12
  <2>4. /\ old \o kept \in Seq(T) /\ Len(old \o kept) = Len(old) + Len(kept)
        /\ \A i \in 1 .. Len(old) + Len(kept) :
             (old \o kept)[i] = IF i <= Len(old) THEN old[i] ELSE kept[i - Len(old)]
    BY <1>13, <2>3, ConcatProperties
  <2>5. /\ all \in Seq(T) /\ Len(all) = x + y
        /\ \A i \in 1 .. x + y : all[i] = IF i <= x THEN old[i] ELSE kept[i - x]
    BY <2>1, <2>2, <2>4
  <2>6. \A j \in 1 .. x : j \in 1 .. x + y /\ j <= x OBVIOUS
  <2>7. ASSUME NEW j \in 1 .. y PROVE \E i \in 1 .. x + y : all[i] = kept[j]
    <3>1. PICK i : i = x + j OBVIOUS
    <3>2. i \in 1 .. x + y /\ ~(i <= x) /\ i - x = j BY <3>1
    <3> QED BY <2>5, <3>2
  <2>8. DOMAIN old = 1 .. Len(old) /\ DOMAIN all = 1 .. Len(all) BY <1>13, <2>5, LenProperties
  <2>9. \A j \in 1 .. x : \E i \in 1 .. x + y : all[i] = old[j] BY <2>5, <2>6
  <2> QED BY <2>2, <2>5, <2>7, <2>8, <2>9
<1>15. PICK q \in Nat : q = TotalPages(pile) /\ N <= q * PerPage /\ q * PerPage \in Nat
  <2>1. PICK b, M : b = pile /\ M = TicketSet OBVIOUS
  <2>2. b \in Seq(M) BY <1>1, <2>1 DEF DeskTyped, PileFine
  <2> QED BY <1>9, <2>1, <2>2, PagesFine
<1>16. PICK W : W = view.were \cap OpenIds(pile) OBVIOUS
<1>17. PICK h \in {"page", "over"} :
         /\ h = "page" => r + 1 # MaxScan
         /\ view' = [view EXCEPT !.page = p + 1, !.read = r + 1, !.items = all, !.pages = q, !.were = W, !.at = h]
  <2>1. PICK found : found = (Len(all) - view.logged >= PerPage) OBVIOUS
  <2>2. PICK last : last = (PageOf(pile, p + 1) = <<>> \/ p + 1 >= q) OBVIOUS
  <2>3. PICK h : h = IF found \/ last \/ r + 1 = MaxScan THEN "over" ELSE "page" OBVIOUS
  <2>4. view' = [view EXCEPT !.page = p + 1, !.read = r + 1, !.items = all, !.pages = q, !.were = W, !.at = h]
    BY <1>5, <1>12, <1>15, <1>16, <2>1, <2>2, <2>3 DEF ReadPage
  <2>5. h \in {"page", "over"} /\ (h = "page" => r + 1 # MaxScan) BY <2>3
  <2> QED BY <2>4, <2>5
<1>18. view' = [kind |-> v.kind, at |-> h, thread |-> v.thread, entries |-> v.entries, notes |-> v.notes,
                logged |-> v.logged, page |-> p + 1, read |-> r + 1, items |-> all, pages |-> q,
                partial |-> v.partial, were |-> W, whole |-> v.whole]
  BY <1>3, <1>4, <1>17
<1>19. view' \in Views
  <2>1. PICK A, B, C, D, E, F, G : /\ A = {"none", "timeline", "open", "standing"} /\ B = {"idle", "timers", "page", "over"}
           /\ C = Seq(Posts) /\ D = Seq(EntrySet) /\ E = SUBSET NoteSet /\ F = 0 .. MaxScan
           /\ G = Seq(TicketSet) OBVIOUS
  <2>2. v \in [kind : A, at : B, thread : C, entries : D, notes : E, logged : Nat, page : Nat, read : F,
               items : G, pages : Nat, partial : BOOLEAN, were : SUBSET Nat, whole : BOOLEAN]
    BY <1>1, <1>3, <2>1 DEF Views
  <2>3. h \in B /\ r + 1 \in F /\ all \in G /\ p + 1 \in Nat /\ q \in Nat
    <3>1. h \in B BY <2>1
    <3>2. r + 1 \in F BY <1>5, <2>1
    <3>3. all \in G BY <1>12, <1>14, <2>1
    <3> QED BY <3>1, <3>2, <3>3
  <2>4. v.were \in SUBSET Nat BY <2>2
  <2>5. W \in SUBSET Nat BY <1>3, <1>16, <2>4
  <2>6. view' \in [kind : A, at : B, thread : C, entries : D, notes : E, logged : Nat, page : Nat, read : F,
               items : G, pages : Nat, partial : BOOLEAN, were : SUBSET Nat, whole : BOOLEAN]
    BY <1>18, <2>2, <2>3, <2>5
  <2> QED BY <2>1, <2>6 DEF Views
<1>20. /\ view'.kind = "open" /\ view'.at = h /\ view'.page = p + 1 /\ view'.read = r + 1 /\ view'.items = all
       /\ view'.pages = q /\ view'.were = W
  BY <1>1, <1>3, <1>18
<1>21. h = "page" => r + 1 < MaxScan BY <1>5, <1>17, HistoriesAssumption
<1>22. Len(pile)' = N BY <1>1, <1>9
<1>23. ASSUME NEW id \in W PROVE \E k \in 1 .. N : pile[k].id = id /\ (FoundOne(id)' \/ k > a + c)
  <2>1. PICK k \in 1 .. N : pile[k].id = id /\ (FoundOne(id) \/ k > a)
    BY <1>1, <1>5, <1>7, <1>9, <1>16, <1>23 DEF StillAhead
  <2>a. ~pile[k].done
    <3>1. PICK l \in DOMAIN pile : ~pile[l].done /\ pile[l].id = id BY <1>16, <1>23 DEF OpenIds
    <3>2. DOMAIN pile = 1 .. N BY <1>1, <1>9, LenProperties DEF DeskTyped, PileFine
    <3>3. l = k BY <1>1, <1>9, <2>1, <3>1, <3>2 DEF DeskTyped, PileFine, OneEach
    <3> QED BY <3>1, <3>3
  <2>2. FoundOne(id)' <=> \E i \in 1 .. Len(all) : all[i].id = id BY <1>14, <1>20 DEF FoundOne
  <2>3. CASE FoundOne(id)
    <3>1. PICK j \in 1 .. Len(old) : old[j].id = id BY <1>12, <1>14, <2>3 DEF FoundOne
    <3> QED BY <1>14, <2>1, <2>2, <3>1
  <2>4. CASE k > a /\ k <= a + c
    <3>1. PICK j \in 1 .. Len(kept) : kept[j].id = id BY <1>6, <1>11, <2>1, <2>a, <2>4
    <3> QED BY <1>14, <2>1, <2>2, <3>1
  <2> QED BY <2>1, <2>3, <2>4
<1>24. \A id \in W : StillAhead(id)' BY <1>1, <1>8, <1>20, <1>22, <1>23 DEF StillAhead
<1>25. ASSUME p + 1 >= q PROVE \A id \in W : FoundOne(id)'
  <2>1. N <= a + c
    <3>1. PICK d \in Nat : d = p + 1 - q BY <1>25
    <3>2. p + 1 = q + d BY <3>1
    <3>3. (q + d) * c = q * c + d * c /\ d * c \in Nat /\ q * c \in Nat OBVIOUS
    <3>4. a + c = q * c + d * c BY <1>6, <1>8, <3>2, <3>3
    <3> QED BY <1>6, <1>15, <3>3, <3>4
  <2> QED BY <1>23, <2>1
<1>26. OpenKept' BY <1>20, <1>21, <1>24, <1>25 DEF OpenKept
<1> QED BY <1>2, <1>19, <1>20, <1>26 DEF HistInv, TimelineKept, StandingKept

\* The timeline is given: all that was read is in it, and the notes say what was not.
LEMMA ReadTimersKeeps == ASSUME HistInv, NEW answered \in BOOLEAN, ReadTimers(answered) PROVE HistInv'
<1>1. /\ DeskTyped /\ UNCHANGED <<thread, booked, pile, owed, zone, doings, hour>>
      /\ view.kind = "timeline" /\ view.at = "timers" /\ view \in Views
      /\ InOrder(view.thread) /\ StillBooked(view.were)
  BY DEF HistInv, TimelineKept, ReadTimers
<1>2. DeskTyped' BY <1>1, DeskStays
<1>3. PICK v : v = view OBVIOUS
<1>4. v = [kind |-> v.kind, at |-> v.at, thread |-> v.thread, entries |-> v.entries, notes |-> v.notes,
           logged |-> v.logged, page |-> v.page, read |-> v.read, items |-> v.items, pages |-> v.pages,
           partial |-> v.partial, were |-> v.were, whole |-> v.whole] BY <1>1, <1>3, ViewIs
<1>5. PICK N \in Nat : N = Len(booked) BY <1>1, LenProperties DEF DeskTyped
<1>6. PICK c \in Nat : c = PerPage BY HistoriesAssumption
<1>7. PICK got : got = PageOf(booked, 1) OBVIOUS
<1>8. got \in Seq(Blocks) /\ (N <= c => got = booked)
  <2>1. PICK b, B : b = booked /\ B = Blocks OBVIOUS
  <2>2. b \in Seq(B) BY <1>1, <2>1 DEF DeskTyped
  <2> QED BY <1>5, <1>6, <1>7, <2>1, <2>2, OnePage
<1>9. PICK tm : tm = IF answered THEN OfTimers(got) ELSE <<>> OBVIOUS
<1>10. zone \in 0 .. 1 BY <1>1 DEF DeskTyped
<1>11. /\ tm \in Seq(EntrySet)
       /\ \A i \in 1 .. Len(tm) : tm[i].kind = "time_logged" /\ (zone = 0 => tm[i].text = tm[i].at)
       /\ answered => Len(tm) = Cardinality({i \in 1 .. Len(got) : got[i].ours})
  <2>1. CASE answered BY <1>8, <1>9, <1>10, <2>1, TimersFine
  <2>2. CASE ~answered
    <3>1. PICK E : E = EntrySet OBVIOUS
    <3>2. tm \in Seq(E) /\ \A i \in 1 .. Len(tm) : FALSE BY <1>9, <2>2
    <3> QED BY <2>2, <3>1, <3>2
  <2> QED BY <2>1, <2>2
<1>12. PICK th : th = view.thread OBVIOUS
<1>13. th \in Seq(Posts) BY <1>1, <1>12 DEF Views
<1>14. PICK n \in Nat : n = Len(th) BY <1>13, LenProperties
<1>15. PICK m \in Nat : m = Len(tm) BY <1>11, LenProperties
<1>16. PICK es : es = Begun \o OfThread(th) \o tm OBVIOUS
<1>17. Shape(es, th, n, m) BY <1>11, <1>13, <1>14, <1>15, <1>16, EntriesFine
<1>18. PICK L \in Nat : L = 1 + n + m OBVIOUS
<1>19. PICK s : s = Sorted(es) OBVIOUS
<1>20. PICK rank : SortedBy(es, L, rank, s)
  <2>1. es \in Seq(EntrySet) /\ Len(es) = L /\ DOMAIN es = 1 .. L BY <1>17, <1>18 DEF Shape
  <2>2. \A i \in 1 .. L : es[i] \in EntrySet BY <2>1, LenProperties
  <2>3. \A i \in 1 .. L : es[i].text \in Nat BY <2>2 DEF EntrySet
  <2> QED BY <1>19, <2>1, <2>3, SortedFine
<1>21. TellsOf(s, th, n, m, L, rank, es) BY <1>17, <1>18, <1>20 DEF TellsOf
<1>22. /\ s \in Seq(EntrySet) /\ Cardinality({r \in DOMAIN s : s[r].kind = "time_logged"}) = m
       /\ Len(Sift(s, {r \in DOMAIN s : s[r].kind \in Talk})) = n
  BY <1>21, PlacesTold, AllAreTold
<1>23. PICK sides : sides = \A i \in DOMAIN th : ~FromCustomer(th[i]) OBVIOUS
<1>24. PICK notes : notes = (IF answered THEN {} ELSE {"no time"})
                            \cup (IF sides /\ th # <<>> THEN {"sides unknown"} ELSE {}) OBVIOUS
<1>25. PICK w \in BOOLEAN : w = (v.whole /\ N <= c)
  <2>1. v.whole \in BOOLEAN BY <1>1, <1>3 DEF Views
  <2>2. (v.whole /\ N <= c) \in BOOLEAN BY <2>1
  <2> QED BY <2>2
<1>26. view' = [view EXCEPT !.at = "over", !.entries = s, !.logged = m, !.whole = w, !.notes = notes]
  <2>1. LET timers == IF answered THEN OfTimers(PageOf(booked, 1)) ELSE <<>>
            customers == \A i \in DOMAIN view.thread : ~FromCustomer(view.thread[i])
        IN  view' = [view EXCEPT !.at = "over", !.entries = Sorted(Begun \o OfThread(view.thread) \o timers),
                     !.logged = Len(timers), !.whole = @ /\ Len(booked) <= PerPage,
                     !.notes = (IF answered THEN {} ELSE {"no time"})
                               \cup (IF customers /\ view.thread # <<>> THEN {"sides unknown"} ELSE {})]
    BY DEF ReadTimers
  <2>2. view' = [view EXCEPT !.at = "over", !.entries = Sorted(Begun \o OfThread(th) \o tm),
                     !.logged = Len(tm), !.whole = @ /\ N <= c, !.notes = notes]
    BY <1>5, <1>6, <1>7, <1>9, <1>12, <1>23, <1>24, <2>1
  <2>3. view' = [view EXCEPT !.at = "over", !.entries = s, !.logged = m, !.whole = @ /\ N <= c, !.notes = notes]
    BY <1>15, <1>16, <1>19, <2>2
  <2> QED BY <1>3, <1>25, <2>3
<1>27. view' = [kind |-> v.kind, at |-> "over", thread |-> v.thread, entries |-> s, notes |-> notes,
                logged |-> m, page |-> v.page, read |-> v.read, items |-> v.items, pages |-> v.pages,
                partial |-> v.partial, were |-> v.were, whole |-> w]
  BY <1>3, <1>4, <1>26
<1>28. view' \in Views
  <2>1. PICK A, B, C, D, E, F, G : /\ A = {"none", "timeline", "open", "standing"} /\ B = {"idle", "timers", "page", "over"}
           /\ C = Seq(Posts) /\ D = Seq(EntrySet) /\ E = SUBSET NoteSet /\ F = 0 .. MaxScan
           /\ G = Seq(TicketSet) OBVIOUS
  <2>2. v \in [kind : A, at : B, thread : C, entries : D, notes : E, logged : Nat, page : Nat, read : F,
               items : G, pages : Nat, partial : BOOLEAN, were : SUBSET Nat, whole : BOOLEAN]
    BY <1>1, <1>3, <2>1 DEF Views
  <2>3. "over" \in B BY <2>1
  <2>4. s \in D BY <1>22, <2>1
  <2>5. notes \in E
    <3>1. notes \in SUBSET NoteSet BY <1>24 DEF NoteSet
    <3> QED BY <2>1, <3>1
  <2>6. view' \in [kind : A, at : B, thread : C, entries : D, notes : E, logged : Nat, page : Nat, read : F,
               items : G, pages : Nat, partial : BOOLEAN, were : SUBSET Nat, whole : BOOLEAN]
    BY <1>27, <2>2, <2>3, <2>4, <2>5
  <2> QED BY <2>1, <2>6 DEF Views
<1>29. /\ view'.kind = "timeline" /\ view'.at = "over" /\ view'.thread = th /\ view'.entries = s /\ view'.notes = notes
       /\ view'.logged = m /\ view'.were = view.were /\ view'.whole = w
  BY <1>1, <1>3, <1>12, <1>27
<1>30. w /\ answered => Cardinality(view.were) <= m
  <2>1. SUFFICES ASSUME w, answered PROVE Cardinality(view.were) <= m OBVIOUS
  <2>2. got = booked BY <1>8, <1>25, <2>1
  <2>3. PICK O : O = {i \in 1 .. N : booked[i].ours} OBVIOUS
  <2>4. m = Cardinality(O) BY <1>5, <1>11, <1>15, <2>1, <2>2, <2>3
  <2>5. \A i \in view.were : i \in 1 .. N /\ booked[N + 1 - i].ours BY <1>1, <1>5 DEF StillBooked
  <2>6. PICK W : W = view.were OBVIOUS
  <2>7. PICK f : f = [i \in W |-> N + 1 - i] OBVIOUS
  <2>8. PICK T : T = {f[i] : i \in W} OBVIOUS
  <2>9. \A i \in W : i \in 1 .. N /\ f[i] = N + 1 - i /\ N + 1 - i \in 1 .. N /\ booked[N + 1 - i].ours
    BY <2>5, <2>6, <2>7
  <2>10. \A i, j \in W : f[i] = f[j] => i = j BY <2>9
  <2>11. \A i \in W : f[i] \in O BY <2>3, <2>9
  <2>12. T \in SUBSET O BY <2>8, <2>11
  <2>13. IsFiniteSet(1 .. N) /\ W \in SUBSET (1 .. N) /\ O \in SUBSET (1 .. N) BY <2>3, <2>9, FS_Interval
  <2>14. IsFiniteSet(W) /\ IsFiniteSet(O) BY <2>13, FS_Subset
  <2>15. f \in [W -> T] /\ DOMAIN f = W BY <2>7, <2>8
  <2>16. Cardinality(T) = Cardinality(W) BY <2>8, <2>10, <2>14, <2>15, AsMany
  <2>17. Cardinality(T) <= Cardinality(O) BY <2>12, <2>14, FS_Subset
  <2> QED BY <2>4, <2>6, <2>16, <2>17
<1>31. TimelineIsWholeUndisturbed'
  <2>1. Len(Sift(s, {r \in DOMAIN s : s[r].kind \in Talk})) = Len(th) BY <1>14, <1>22
  <2>2. Len(Messages)' = Len(view.thread)' BY <1>29, <2>1 DEF Messages
  <2>3. TimesIn' = m BY <1>22, <1>29 DEF TimesIn
  <2>4. w /\ m < Cardinality(view.were) => "no time" \in notes
    <3>1. answered => (w => ~(m < Cardinality(view.were)))
      <4>1. PICK W : W = view.were OBVIOUS
      <4>2. W \in SUBSET (1 .. N) BY <1>1, <1>5, <4>1 DEF StillBooked
      <4>3. IsFiniteSet(1 .. N) BY FS_Interval
      <4>4. IsFiniteSet(W) BY <4>2, <4>3, FS_Subset
      <4>5. Cardinality(W) \in Nat BY <4>4, FS_CardinalityType
      <4> QED BY <1>30, <4>1, <4>5
    <3>2. ~answered => "no time" \in notes BY <1>24
    <3> QED BY <3>1, <3>2
  <2> QED BY <1>29, <2>2, <2>3, <2>4 DEF TimelineIsWholeUndisturbed, TimelineIsWhole
<1>32. SignalsAreTrueUndisturbed'
  <2>1. CASE zone # 0 BY <1>1, <2>1 DEF SignalsAreTrueUndisturbed
  <2>2. CASE zone = 0
    <3>1. SidesSaid(notes, th) BY <1>23, <1>24 DEF SidesSaid
    <3>2. zone' = 0 /\ SidesSaid(view'.notes, th) BY <1>1, <1>29, <2>2, <3>1
    <3> QED BY <1>1, <1>12, <1>13, <1>14, <1>21, <1>29, <2>2, <3>2, SignalsFine
  <2> QED BY <2>1, <2>2
<1>33. InOrder(th)' BY <1>1, <1>12 DEF InOrder
<1>34. TimelineKept' BY <1>1, <1>12, <1>29, <1>31, <1>32 DEF TimelineKept
<1> QED BY <1>2, <1>28, <1>29, <1>34 DEF HistInv, OpenKept, StandingKept

\* Every step keeps it.
LEMMA HistStep == HistInv /\ [HistoriesNext]_deskVars => HistInv'
<1> SUFFICES ASSUME HistInv, [HistoriesNext]_deskVars PROVE HistInv' OBVIOUS
<1>1. CASE ReadTicket BY <1>1, ReadTicketKeeps
<1>2. CASE SearchOpen BY <1>2, SearchOpenKeeps
<1>3. CASE ReadPage BY <1>3, ReadPageKeeps
<1>4. CASE ReadStanding BY <1>4, ReadStandingKeeps
<1>5. CASE NewTicket BY <1>5, NewTicketKeeps
<1>6. ASSUME NEW yes \in BOOLEAN, ReadTimers(yes) PROVE HistInv' BY <1>6, ReadTimersKeeps
<1>7. ASSUME NEW yes \in BOOLEAN, Book(yes) PROVE HistInv' BY <1>7, BookKeeps
<1>8. ASSUME NEW from \in Origins, AddMessage(from) PROVE HistInv' BY <1>8, AddMessageKeeps
<1>9. ASSUME NEW i \in DOMAIN pile, NEW done \in BOOLEAN, Touch(i, done) PROVE HistInv' BY <1>9, TouchKeeps
<1>10. CASE UNCHANGED deskVars
  <2>1. UNCHANGED <<thread, booked, pile, owed, zone, doings, hour, view>> BY <1>10 DEF deskVars
  <2>2. DeskTyped' BY <2>1, DeskStays DEF HistInv
  <2>3. StillBooked(view.were) => StillBooked(view.were)' BY <2>1 DEF StillBooked
  <2>4. \A id \in view.were : StillAhead(id) => StillAhead(id)' BY <2>1 DEF StillAhead, FoundOne
  <2> QED BY <2>1, <2>2, <2>3, <2>4, ShownStays
<1> QED BY <1>1, <1>2, <1>3, <1>4, <1>5, <1>6, <1>7, <1>8, <1>9, <1>10 DEF HistoriesNext

\* It implies what the run checks.
LEMMA HistHolds == HistInv => HistoriesAreKept
<1> SUFFICES ASSUME HistInv PROVE HistoriesAreKept OBVIOUS
<1>1. view \in Views BY DEF HistInv
<1>2. /\ view.kind \in {"none", "timeline", "open", "standing"} /\ view.at \in {"idle", "timers", "page", "over"}
      /\ view.notes \subseteq {"no time", "sides unknown"} /\ view.read \in 0 .. MaxScan
  <2>1. view.notes \in SUBSET NoteSet BY <1>1 DEF Views
  <2>2. view.notes \subseteq {"no time", "sides unknown"} BY <2>1 DEF NoteSet
  <2>3. view.kind \in {"none", "timeline", "open", "standing"} /\ view.at \in {"idle", "timers", "page", "over"} /\ view.read \in 0 .. MaxScan
    BY <1>1 DEF Views
  <2> QED BY <2>2, <2>3
<1>3. HistoriesTypeOK
  <2>1. \A i \in DOMAIN thread : thread[i] \in Posts BY LenProperties DEF HistInv, DeskTyped
  <2>2. \A i \in DOMAIN booked : booked[i] \in Blocks BY LenProperties DEF HistInv, DeskTyped
  <2>3. \A i \in DOMAIN pile : pile[i] \in TicketSet BY LenProperties DEF HistInv, DeskTyped, PileFine
  <2>4. \A i \in DOMAIN thread : thread[i].at \in 0 .. MaxHour /\ thread[i].from \in Origins BY <2>1 DEF Posts
  <2>5. \A i \in DOMAIN booked : booked[i].ours \in BOOLEAN /\ booked[i].at \in 0 .. MaxHour BY <2>2 DEF Blocks
  <2>6. \A i \in DOMAIN pile : pile[i].done \in BOOLEAN BY <2>3 DEF TicketSet
  <2> QED BY <1>2, <2>4, <2>5, <2>6 DEF HistoriesTypeOK, HistInv, DeskTyped
<1>4. TimelineIsWholeUndisturbed
  BY DEF HistInv, TimelineKept, TimelineIsWholeUndisturbed, TimelineIsWhole, IsGiven
<1>5. SignalsAreTrueUndisturbed
  BY DEF HistInv, TimelineKept, SignalsAreTrueUndisturbed, IsGiven
<1>6. OpenAreFound
  <2>1. SUFFICES ASSUME view.kind = "open", view.at = "over", view.page >= view.pages, NEW id \in view.were
                 PROVE  id \in {view.items[i].id : i \in DOMAIN view.items}
    BY DEF OpenAreFound, IsGiven
  <2>2. FoundOne(id) BY <2>1 DEF HistInv, OpenKept
  <2> QED BY <2>2 DEF FoundOne
<1>7. TotalsSayWhatTheyAre
  BY DEF HistInv, StandingKept, TotalsSayWhatTheyAre, IsGiven
<1> QED BY <1>3, <1>4, <1>5, <1>6, <1>7 DEF HistoriesAreKept

\* What is put together from pages is whole, in order and truly counted, or says
\* what it is not.
THEOREM HistoriesKept == HistoriesSpec => []HistoriesAreKept
BY HistStart, HistStep, HistHolds, PTL DEF HistoriesSpec

=============================================================================
