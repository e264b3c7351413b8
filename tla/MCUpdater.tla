----------------------------- MODULE MCUpdater -----------------------------
(***************************************************************************)
(* Updater for TLC: the polling loop and two administrators' requests.     *)
(***************************************************************************)
EXTENDS Updater

CONSTANTS r1, r2, loop

OneRequest  == {r1}
TwoRequests == {r1, r2}
=============================================================================
