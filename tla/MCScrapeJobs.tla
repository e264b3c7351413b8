---------------------------- MODULE MCScrapeJobs ----------------------------
(***************************************************************************)
(* ScrapeJobs for TLC: two workers as in entrypoint.sh, and one job under  *)
(* crashes and two administrators, or two jobs, one of which may continue  *)
(* the other, under the start of the second worker.                        *)
(***************************************************************************)
EXTENDS ScrapeJobs

CONSTANTS w1, w2, j1, j2, c1, c2, b1

TwoWorkers == {w1, w2}
OneJob     == {j1}
TwoJobs    == {j1, j2}
OneClient  == {c1}
TwoClients == {c1, c2}
OneBase    == [j \in Jobs |-> b1]

Dropping(c) == request[c].op = "drop"

\* Bound: while the second job exists nothing crashes and nobody sends a PATCH;
\* and once a base was being deleted when a worker died, or is gone, only one
\* request is under way, a crawl has one batch and no crash report is refused.
\* It only keeps out steps without fairness (a start, a request or a crash too
\* many), the larger of the sizes Seed chooses from, and a refused crash report.
\* The first job is accepted by the first worker: the workers are alike.
OneThingAtATime ==
    /\ task[j1].pc = "queued" => task[j1].on = w1
    /\ \/ task[j2].pc = "none"
       \/ /\ task[j1].pc # "none"
          /\ crashes = 0
          /\ outages = 0
          /\ \A c \in Clients : request[c] = NoRequest
          /\ \A j \in Jobs : task[j].left <= 1
    /\ (\E c \in Clients : Dropping(c)) \/ gone # {} =>
          /\ outages = 0
          /\ \A j \in Jobs : task[j].left <= 1
          /\ \A c, d \in Clients : Dropping(c) /\ Dropping(d) => c = d
    /\ gone # {} =>
          /\ crashes = 0
          /\ \A c, d \in Clients : request[c] # NoRequest /\ request[d] # NoRequest => c = d
=============================================================================
