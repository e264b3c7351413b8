-------------------------- MODULE MCPendingActions --------------------------
(***************************************************************************)
(* PendingActions for TLC: two workers, two messages at a time.            *)
(***************************************************************************)
EXTENDS PendingActions, TLC

CONSTANTS w1, w2, r1, r2, s1, s2

TwoWorkers  == {w1, w2}
OneRequest  == {r1}
TwoRequests == {r1, r2}
TwoSessions == {s1, s2}

\* Bound: one message at a time is between its arrival and its turn.  Until then a message
\* changes no plan and learns only whether its session is there, and two turns are taken one
\* after the other anyway.
Arriving(r) == chat[r].pc \in {"context", "accepted"}
OneArrival == \A q, r \in Requests : Arriving(q) /\ Arriving(r) => q = r

Symmetric == Permutations(Workers) \cup Permutations(Requests) \cup Permutations(Sessions)
=============================================================================
