---------------------------- MODULE MCProposals ----------------------------
(***************************************************************************)
(* Proposals for TLC: one change and a few requests about it.  Requests    *)
(* are interchangeable.                                                    *)
(***************************************************************************)
EXTENDS Proposals, TLC

MCSymmetry == Permutations(Requests)

=============================================================================
