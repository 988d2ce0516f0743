------------------------------- MODULE Sifting -------------------------------
(***************************************************************************)
(* A loop over a slice that appends what it wants to another one: the      *)
(* blank lines Parse drops, the timers of one ticket, the open tickets of  *)
(* a page, the invoices of one customer, the numbers not listed yet.       *)
(***************************************************************************)
EXTENDS Integers, Sequences

\* What s has at the places to keep, in order.
Sift(s, keep) ==
  LET F[i \in 0 .. Len(s)] ==
        IF i = 0 THEN <<>> ELSE IF i \in keep THEN Append(F[i - 1], s[i]) ELSE F[i - 1]
  IN F[Len(s)]

=============================================================================
