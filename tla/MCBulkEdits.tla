---------------------------- MODULE MCBulkEdits ----------------------------
(***************************************************************************)
(* BulkEdits for TLC: a sheet that removes one extension, and renames one  *)
(* and sets options on it.  Requests are interchangeable.                  *)
(***************************************************************************)
EXTENDS BulkEdits, TLC

CONSTANTS removed, both

MCExtensions == {removed, both}
MCOptionRows == {both}
MCWholeRows == {removed}
MCSymmetry == Permutations(Requests)

=============================================================================
