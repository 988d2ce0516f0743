--------------------------- MODULE MCJobScheduler ---------------------------
(***************************************************************************)
(* JobScheduler for TLC: one job that happens once and one that repeats.   *)
(***************************************************************************)
EXTENDS JobScheduler

CONSTANTS once, weekly

MCJobs == {once, weekly}
MCRepeating == {weekly}

=============================================================================
