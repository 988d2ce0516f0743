----------------------------- MODULE MCScreens ------------------------------
(***************************************************************************)
(* Screens for TLC.  Each behaviour has one trouble, chosen at the         *)
(* beginning: a message or a stream is lost, or a statement fails; several *)
(* deliveries come within one window; or things the screens do not show    *)
(* keep changing.                                                          *)
(***************************************************************************)
EXTENDS Screens

VARIABLE trouble

mcVars == <<trouble, vars>>

MCInit == trouble \in {"losses", "burst", "elsewhere"} /\ Init

\* Deliveries are alike: they come in one order, and one does outside a burst.
First == CHOOSE d \in Deliveries : TRUE
Later == {d \in Deliveries \ {First} : delivery'[d] # "idle"}

\* Where nothing is lost, one change, every delivery is let in and nobody insists
\* on the present answer.
Plain ==
  /\ world' <= 1
  /\ \A d \in Deliveries : delivery'[d] # "refused"
  /\ \A b \in Browsers : reader'[b].by # "refresh"

MCNext ==
  /\ UNCHANGED trouble /\ Next
  /\ Later = {} \/ (trouble = "burst" /\ delivery[First] # "idle")
  /\ (drops' = 0 /\ cacheFaults' = 0) \/ (trouble = "losses" /\ (drops' = 0 \/ cacheFaults' = 0))
  /\ trouble # "losses" => Plain
  /\ trouble # "elsewhere" => recent' \subseteq Watched

MCSpec == MCInit /\ [][MCNext]_mcVars /\ Fairness

=============================================================================
