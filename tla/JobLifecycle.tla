---------------------------- MODULE JobLifecycle ----------------------------
(***************************************************************************)
(* What a scrape job promises its readers (the knowledge page, the updater *)
(* and the knowledge-base deletion guard), with workers, requests and      *)
(* coroutines left out: the life of one row of scrape_jobs.  A job id is   *)
(* accepted once, runs at most once, is final once it has completed or     *)
(* failed, and never comes back after deletion.  An interrupted job is the *)
(* one whose crawl may still report an outcome afterwards; and a job is    *)
(* taken away while it is pending or running only with its knowledge base, *)
(* and only if it was accepted while that base was being deleted.          *)
(***************************************************************************)
CONSTANT Jobs

VARIABLES
    phase,
    exposed  \* the jobs accepted while their knowledge base was being deleted

vars == <<phase, exposed>>

Outcomes == {"completed", "completed_with_errors", "failed"}

Phases == {"unborn", "pending", "running", "interrupted", "deleted"} \cup Outcomes

Init == phase = [j \in Jobs |-> "unborn"] /\ exposed = {}

\* Job j moves from one of the phases in From to one of those in To.
Move(j, From, To) ==
    /\ phase[j] \in From
    /\ \E p \in To : phase' = [phase EXCEPT ![j] = p]

Accept(j)  == Move(j, {"unborn"}, {"pending"}) /\ exposed' \in {exposed, exposed \cup {j}}
Begin(j)   == Move(j, {"pending"}, {"running"}) /\ UNCHANGED exposed
Finish(j)  == Move(j, {"running", "interrupted"}, Outcomes) /\ UNCHANGED exposed
Abort(j)   == Move(j, {"pending"}, {"failed"}) /\ UNCHANGED exposed
Delete(j)  == Move(j, Outcomes \cup {"interrupted"}, {"deleted"}) /\ UNCHANGED exposed

\* The jobs of a knowledge base go with it.
Drop(J) ==
    /\ \A j \in J : /\ phase[j] # "unborn"
                    /\ phase[j] \in {"pending", "running"} => j \in exposed
    /\ phase' = [j \in Jobs |-> IF j \in J THEN "deleted" ELSE phase[j]]
    /\ UNCHANGED exposed

\* A starting worker may interrupt any set of running jobs in one statement.
Interrupt ==
    \E J \in SUBSET {j \in Jobs : phase[j] = "running"} :
        /\ phase' = [j \in Jobs |-> IF j \in J THEN "interrupted" ELSE phase[j]]
        /\ UNCHANGED exposed

Next ==
    \/ \E j \in Jobs : Accept(j) \/ Begin(j) \/ Finish(j) \/ Abort(j) \/ Delete(j)
    \/ \E J \in SUBSET Jobs : Drop(J)
    \/ Interrupt

Spec == Init /\ [][Next]_vars
=============================================================================
