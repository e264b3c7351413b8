--------------------------- MODULE PlanLifecycle ---------------------------
(***************************************************************************)
(* What the approval flow promises the user about a plan, with workers,    *)
(* messages and handlers left out.  A plan is previewed once, in one       *)
(* session, and waits there; it leaves its place for good when it is       *)
(* approved, cancelled, or replaced by the next preview of that session.   *)
(* An approved plan changes Jamf or comes to nothing, and neither an       *)
(* error, a closed browser nor a restart brings a plan back.               *)
(***************************************************************************)
CONSTANTS Plans, Sessions

VARIABLES
    phase,   \* phase[p]: where plan p is in its life
    home     \* home[p]: the session a plan was previewed in

Phases == {"unborn", "waiting", "approved", "posted", "withdrawn", "dropped"}

Init ==
    /\ phase = [p \in Plans |-> "unborn"]
    /\ home = [p \in {} |-> "unborn"]

\* Plan p is the next preview of session s.
Housed(p, s) ==
    /\ phase[p] = "unborn"
    /\ home' = [q \in DOMAIN home \cup {p} |-> IF q = p THEN s ELSE home[q]]

Preview(p, s) ==
    /\ Housed(p, s)
    /\ phase' = [phase EXCEPT ![p] = "waiting"]

\* The same, when plan q is waiting in that session.
Replace(p, q) ==
    /\ phase[q] = "waiting" /\ Housed(p, home[q])
    /\ phase' = [phase EXCEPT ![p] = "waiting", ![q] = "withdrawn"]

Answer(p, reply) ==
    /\ phase[p] = "waiting"
    /\ phase' = [phase EXCEPT ![p] = reply]
    /\ UNCHANGED home

\* Approvals come to their end: of the plans in L those in X changed Jamf.  A restart
\* ends several at once, and forgets what was waiting.
Leave(L, X) ==
    /\ UNCHANGED home
    /\ \A p \in L : phase[p] \in {"waiting", "approved"}
    /\ \A p \in X : phase[p] = "approved"
    /\ phase' = [p \in Plans |-> IF p \in X THEN "posted"
                                 ELSE IF p \in L THEN "dropped" ELSE phase[p]]

Next ==
    \/ \E L \in SUBSET Plans : \E X \in SUBSET L : Leave(L, X)
    \/ \E p \in Plans, s \in Sessions : Preview(p, s)
    \/ \E p, q \in Plans : Replace(p, q)
    \/ \E p \in Plans : Answer(p, "approved") \/ Answer(p, "withdrawn")

Spec == Init /\ [][Next]_<<phase, home>>
=============================================================================
