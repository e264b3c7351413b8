----------------------------- MODULE ScrapeJobs -----------------------------
(***************************************************************************)
(* The life of the scrape jobs of the knowledge base: the rows of          *)
(* scrape_jobs in PostgreSQL, the background coroutines that run them, the *)
(* requests that steer them and the start of a backend worker.             *)
(*                                                                         *)
(* The backend is several uvicorn workers (two in entrypoint.sh) over one  *)
(* database.  A job is run by a coroutine of the worker that accepted it   *)
(* and dies with that worker; the supervisor starts a dead worker again,   *)
(* and the start marks every row in status "running" as interrupted,       *)
(* whichever worker is running it.                                         *)
(*                                                                         *)
(* One step is the code between two awaits at which the shared state is    *)
(* read or written.  The crawl itself is a bounded number of batches; what *)
(* it fetches, and the queue of its URLs, are left out.                    *)
(***************************************************************************)
EXTENDS Naturals

CONSTANTS
    Workers,     \* the uvicorn worker processes
    Jobs,        \* the ids new scrape_jobs rows are given
    BaseOf,      \* BaseOf[j]: the knowledge base the job j is accepted for
    Clients,     \* concurrent requests that change a job or delete a base
    MaxBatches,  \* bound: batches a crawl has left when it starts
    MaxCrashes,  \* bound: how often a worker dies
    MaxOutages   \* bound: how often recording a crash fails as well

ASSUME BoundsAssumption ==
    MaxBatches \in Nat /\ MaxCrashes \in Nat /\ MaxOutages \in Nat

ASSUME WorkersAssumption == Workers # {}

VARIABLES
    worker,   \* worker[w]: is the process up
    row,      \* row[j]: the row of scrape_jobs
    task,     \* task[j]: the coroutine running the job
    request,  \* request[c]: the handler serving client c, between two of its awaits
    crashes, outages,
    late,     \* history: batches begun since the job was last asked to stop
    gone,     \* the knowledge bases deleted so far
    exposed   \* history: the jobs accepted while their base was being deleted

vars == <<worker, row, task, request, crashes, outages, late, gone, exposed>>

Bases     == {BaseOf[j] : j \in Jobs}
JobsOf(b) == {j \in Jobs : BaseOf[j] = b}

Terminal == {"completed", "completed_with_errors", "failed"}
Active == {"pending", "running"}

\* pause_requested and cancel_requested: what the administrators ask of the job.
Asks == {"pause", "cancel"}

Statuses == {"absent"} \cup Active \cup Terminal
Errors == {"none", "pages", "cancelled", "crashed", "interrupted"}

Rows == [status : Statuses, error : Errors, asked : SUBSET Asks]

NewRow == [status |-> "pending", error |-> "none", asked |-> {}]
NoRow  == [status |-> "absent", error |-> "none", asked |-> {}]

\* Where the coroutine is.  "none": the id was never used; "gone": it died with
\* its worker; "lost": it ended without being able to write its outcome.
Running == {"seeding", "check", "paused", "batch", "working", "final"}
Live    == {"queued", "crashed"} \cup Running
Pcs     == {"none", "done", "gone", "lost"} \cup Live

Tasks == [pc : Pcs, on : Workers, left : 0..MaxBatches, errors : {"none", "some"}]

NoTask == [pc |-> "none", on |-> CHOOSE w \in Workers : TRUE, left |-> 0, errors |-> "none"]

NoRequest == [op |-> "idle"]
Controls  == [op : {"pause", "resume", "cancel"}, job : Jobs, on : Workers, seen : SUBSET Asks]

\* The deletion of a knowledge base: doomed are the job rows it has listed.
Deletions == [op : {"drop"}, base : Bases, on : Workers, listed : BOOLEAN, doomed : SUBSET Jobs]

Requests  == Controls \cup Deletions

IsControl(c) == request[c].op \in {"pause", "resume", "cancel"}
Deletes(c, b) == request[c].op = "drop" /\ request[c].base = b

TypeOK ==
    /\ worker \in [Workers -> {"up", "down"}]
    /\ row \in [Jobs -> Rows]
    /\ task \in [Jobs -> Tasks]
    /\ request \in [Clients -> Requests \cup {NoRequest}]
    /\ crashes \in 0..MaxCrashes
    /\ outages \in 0..MaxOutages
    /\ late \in [Jobs -> Nat]
    /\ gone \subseteq Bases
    /\ exposed \subseteq Jobs

Init ==
    /\ worker = [w \in Workers |-> "down"]
    /\ row = [j \in Jobs |-> NoRow]
    /\ task = [j \in Jobs |-> NoTask]
    /\ request = [c \in Clients |-> NoRequest]
    /\ crashes = 0
    /\ outages = 0
    /\ late = [j \in Jobs |-> 0]
    /\ gone = {}
    /\ exposed = {}

Exists(j)  == row[j].status # "absent"
Stopped(r) == r.asked # {}

-----------------------------------------------------------------------------
(* Requests that create and delete jobs.                                   *)

\* The new row is committed whatever became of the base: start_scrape has read
\* the base in an earlier session, and a continuation does not look for it.
Accept(j, w) ==
    /\ worker[w] = "up"
    /\ task[j].pc = "none"
    /\ row' = [row EXCEPT ![j] = NewRow]
    /\ task' = [task EXCEPT ![j].pc = "queued", ![j].on = w]
    /\ exposed' = IF \E c \in Clients : Deletes(c, BaseOf[j])
                  THEN exposed \cup {j} ELSE exposed
    /\ UNCHANGED <<worker, request, crashes, outages, late, gone>>

StartScrape(j, w) == Accept(j, w)

IsInterrupted(r) == r.status = "failed" /\ r.error = "interrupted"

\* Restarts the interrupted job i as the new job j.
ContinueScrape(i, j, w) == IsInterrupted(row[i]) /\ Accept(j, w)

DeleteJob(j) ==
    /\ \E w \in Workers : worker[w] = "up"
    /\ row[j].status \in Terminal
    /\ row' = [row EXCEPT ![j] = NoRow]
    /\ late' = [late EXCEPT ![j] = 0]
    /\ UNCHANGED <<worker, task, request, crashes, outages, gone, exposed>>

-----------------------------------------------------------------------------
(* PATCH /scrape/{id}: the handler reads the row, answers 409 unless it is *)
(* active, and commits the columns whose value it changed.                 *)

ControlRead(c, j, op, w) ==
    /\ worker[w] = "up"
    /\ request[c] = NoRequest
    /\ row[j].status \in Active
    /\ request' = [request EXCEPT ![c] =
                     [op |-> op, job |-> j, on |-> w, seen |-> row[j].asked]]
    /\ UNCHANGED <<worker, row, task, crashes, outages, late, gone, exposed>>

\* The row r after the handler's UPDATE: a column assigned the value it was
\* read with is not written.
Controlled(r, q) ==
    LET set   == (Asks \cap {q.op}) \ q.seen
        clear == IF q.op = "pause" THEN {} ELSE q.seen \cap {"pause"}
    IN  [r EXCEPT !.asked = (@ \ clear) \cup set]

\* An UPDATE of a row deleted meanwhile matches nothing and fails the request.
ControlCommit(c) ==
    /\ IsControl(c)
    /\ LET q == request[c]
           r == IF Exists(q.job) THEN Controlled(row[q.job], q) ELSE row[q.job]
       IN  /\ row' = [row EXCEPT ![q.job] = r]
           /\ late' = [late EXCEPT ![q.job] = IF Stopped(r) THEN @ ELSE 0]
    /\ request' = [request EXCEPT ![c] = NoRequest]
    /\ UNCHANGED <<worker, task, crashes, outages, gone, exposed>>

-----------------------------------------------------------------------------
(* DELETE /bases/{id}: the handler answers 409 when a job of the base is   *)
(* active, later reads all job rows of the base again, and deletes what it *)
(* read with the base in one commit.                                       *)

Listing(b, w) == [op |-> "drop", base |-> b, on |-> w, listed |-> FALSE, doomed |-> {}]

\* Mutant: nobody looks for active jobs.
DropUnchecked(c, b, w) ==
    /\ worker[w] = "up"
    /\ request[c] = NoRequest
    /\ b \notin gone
    /\ request' = [request EXCEPT ![c] = Listing(b, w)]
    /\ UNCHANGED <<worker, row, task, crashes, outages, late, gone, exposed>>

DropCheck(c, b, w) ==
    /\ worker[w] = "up"
    /\ request[c] = NoRequest
    /\ b \notin gone
    /\ \A j \in JobsOf(b) : row[j].status \notin Active
    /\ request' = [request EXCEPT ![c] = Listing(b, w)]
    /\ UNCHANGED <<worker, row, task, crashes, outages, late, gone, exposed>>

\* The rows are read whatever their status is by now.
DropList(c) ==
    /\ request[c].op = "drop"
    /\ ~request[c].listed
    /\ request' = [request EXCEPT ![c].listed = TRUE,
                      ![c].doomed = {j \in JobsOf(request[c].base) : Exists(j)}]
    /\ UNCHANGED <<worker, row, task, crashes, outages, late, gone, exposed>>

\* A row committed after the list was read stays, under a base that is gone.
DropCommit(c) ==
    /\ request[c].op = "drop"
    /\ request[c].listed
    /\ LET doomed == request[c].doomed
       IN  /\ row' = [j \in Jobs |-> IF j \in doomed THEN NoRow ELSE row[j]]
           /\ late' = [j \in Jobs |-> IF j \in doomed THEN 0 ELSE late[j]]
    /\ gone' = gone \cup {request[c].base}
    /\ request' = [request EXCEPT ![c] = NoRequest]
    /\ UNCHANGED <<worker, task, crashes, outages, exposed>>

Drop(c) == DropList(c) \/ DropCommit(c)

-----------------------------------------------------------------------------
(* The coroutine: _run_job_safe around run_scrape_job.                     *)

Goto(j, pc) == task' = [task EXCEPT ![j].pc = pc]

\* The coroutine returns; its local variables are gone.
End(j, pc) == task' = [task EXCEPT ![j] = [NoTask EXCEPT !.pc = pc]]

\* A job whose row went with its base before the coroutine began just returns.
Begin(j) ==
    /\ task[j].pc = "queued"
    /\ \/ Exists(j) /\ row' = [row EXCEPT ![j].status = "running"] /\ Goto(j, "seeding")
       \/ ~Exists(j) /\ End(j, "done") /\ UNCHANGED row
    /\ UNCHANGED <<worker, request, crashes, outages, late, gone, exposed>>

\* The sitemap or the start URL fills the queue; a continuation may find that
\* every seed was visited already.
Seed(j) ==
    /\ task[j].pc = "seeding"
    /\ \E n \in 0..MaxBatches :
           task' = [task EXCEPT ![j].pc = "check", ![j].left = n]
    /\ UNCHANGED <<worker, row, request, crashes, outages, late, gone, exposed>>

\* The loop condition fails: the controls are not read again.
LeaveLoop(j) ==
    /\ task[j].pc = "check"
    /\ task[j].left = 0
    /\ Goto(j, "final")
    /\ UNCHANGED <<worker, row, request, crashes, outages, late, gone, exposed>>

\* Mutant: the loop goes on after recording the cancellation.
CancelRowWithoutReturn(j) ==
    /\ row' = [row EXCEPT ![j].status = "failed", ![j].error = "cancelled"]
    /\ Goto(j, "batch")

CancelRow(j) ==
    /\ row' = [row EXCEPT ![j].status = "failed", ![j].error = "cancelled"]
    /\ End(j, "done")

\* Mutant: the head of the loop only looks for a cancellation.
CheckCancelOnly(j) ==
    /\ task[j].pc = "check"
    /\ task[j].left > 0
    /\ \/ "cancel" \in row[j].asked /\ CancelRow(j)
       \/ "cancel" \notin row[j].asked /\ Goto(j, "batch") /\ UNCHANGED row
    /\ UNCHANGED <<worker, request, crashes, outages, late, gone, exposed>>

\* The controls at the head of the loop; a missing row reads as no controls.
CheckControls(j) ==
    /\ task[j].pc = "check"
    /\ task[j].left > 0
    /\ \/ "cancel" \in row[j].asked /\ CancelRow(j)
       \/ row[j].asked = {"pause"} /\ Goto(j, "paused") /\ UNCHANGED row
       \/ ~Stopped(row[j]) /\ Goto(j, "batch") /\ UNCHANGED row
    /\ UNCHANGED <<worker, request, crashes, outages, late, gone, exposed>>

\* Mutant: a paused job only waits to be resumed.
PauseTickUncancellable(j) ==
    /\ task[j].pc = "paused"
    /\ ~Stopped(row[j])
    /\ Goto(j, "batch")
    /\ UNCHANGED <<worker, row, request, crashes, outages, late, gone, exposed>>

\* Every second of a pause the row is refreshed; refreshing a deleted row
\* raises, which the loop records as an error before it reads the controls again.
PauseTick(j) ==
    /\ task[j].pc = "paused"
    /\ \/ ~Exists(j) /\ task' = [task EXCEPT ![j].pc = "check", ![j].errors = "some"] /\ UNCHANGED row
       \/ Exists(j) /\ "cancel" \in row[j].asked /\ CancelRow(j)
       \/ Exists(j) /\ ~Stopped(row[j]) /\ Goto(j, "batch") /\ UNCHANGED row
    /\ UNCHANGED <<worker, request, crashes, outages, late, gone, exposed>>

\* max_size_mb is reached: the loop is left without starting the batch.
SizeLimit(j) ==
    /\ task[j].pc = "batch"
    /\ Goto(j, "final")
    /\ UNCHANGED <<worker, row, request, crashes, outages, late, gone, exposed>>

StartBatch(j) ==
    /\ task[j].pc = "batch"
    /\ Goto(j, "working")
    /\ late' = [late EXCEPT ![j] = IF Stopped(row[j]) THEN @ + 1 ELSE 0]
    /\ UNCHANGED <<worker, row, request, crashes, outages, gone, exposed>>

\* Mutant: the pages of the batch are taken off the queue twice.
FinishBatchTwice(j) ==
    /\ task[j].pc = "working"
    /\ task' = [task EXCEPT ![j].pc = "check", ![j].left = @ - 2]
    /\ UNCHANGED <<worker, row, request, crashes, outages, late, gone, exposed>>

\* The batch is fetched and ingested.  Errors of single pages and of the whole
\* batch are collected and the loop goes on; max_pages may end it.
FinishBatch(j) ==
    /\ task[j].pc = "working"
    /\ \E n \in 0..(task[j].left - 1), e \in {"none", "some"} :
           task' = [task EXCEPT ![j].pc = "check", ![j].left = n,
                                ![j].errors = IF e = "some" THEN e ELSE @]
    /\ UNCHANGED <<worker, row, request, crashes, outages, late, gone, exposed>>

\* The outcome is written whatever the row says by now.
Finalise(j) ==
    /\ task[j].pc = "final"
    /\ row' = IF ~Exists(j) THEN row
              ELSE IF task[j].errors = "some"
                   THEN [row EXCEPT ![j].status = "completed_with_errors", ![j].error = "pages"]
                   ELSE [row EXCEPT ![j].status = "completed"]
    /\ End(j, "done")
    /\ UNCHANGED <<worker, request, crashes, outages, late, gone, exposed>>

\* An exception outside the loop: opening the job, seeding, finalising.
Raise(j) ==
    /\ task[j].pc \in {"queued", "seeding", "final"}
    /\ Goto(j, "crashed")
    /\ UNCHANGED <<worker, row, request, crashes, outages, late, gone, exposed>>

RecordCrash(j) ==
    /\ task[j].pc = "crashed"
    /\ row' = IF Exists(j)
              THEN [row EXCEPT ![j].status = "failed", ![j].error = "crashed"]
              ELSE row
    /\ End(j, "done")
    /\ UNCHANGED <<worker, request, crashes, outages, late, gone, exposed>>

\* The database refuses that write too: except Exception: pass.
SwallowCrash(j) ==
    /\ task[j].pc = "crashed"
    /\ outages < MaxOutages
    /\ outages' = outages + 1
    /\ End(j, "lost")
    /\ UNCHANGED <<worker, row, request, crashes, late, gone, exposed>>

Step(j) ==
    \/ Begin(j) \/ Seed(j) \/ LeaveLoop(j) \/ CheckControls(j) \/ PauseTick(j)
    \/ SizeLimit(j) \/ StartBatch(j) \/ FinishBatch(j) \/ Finalise(j)
    \/ Raise(j) \/ RecordCrash(j) \/ SwallowCrash(j)

-----------------------------------------------------------------------------
(* Worker processes.                                                       *)

\* Every coroutine and every handler of the worker disappears with it.
WorkerCrash(w) ==
    /\ worker[w] = "up"
    /\ crashes < MaxCrashes
    /\ crashes' = crashes + 1
    /\ worker' = [worker EXCEPT ![w] = "down"]
    /\ task' = [j \in Jobs |-> IF task[j].on = w /\ task[j].pc \in Live
                               THEN [NoTask EXCEPT !.pc = "gone", !.on = w] ELSE task[j]]
    /\ request' = [c \in Clients |-> IF request[c] # NoRequest /\ request[c].on = w
                                     THEN NoRequest ELSE request[c]]
    /\ UNCHANGED <<row, outages, late, gone, exposed>>

\* Mutant: a start leaves the rows alone.
WorkerStartWithoutHealing(w) ==
    /\ worker[w] = "down"
    /\ worker' = [worker EXCEPT ![w] = "up"]
    /\ UNCHANGED <<row, task, request, crashes, outages, late, gone, exposed>>

\* lifespan: every running row, of any worker, is marked as interrupted.
WorkerStart(w) ==
    /\ worker[w] = "down"
    /\ worker' = [worker EXCEPT ![w] = "up"]
    /\ row' = [j \in Jobs |-> IF row[j].status = "running"
                              THEN [row[j] EXCEPT !.status = "failed", !.error = "interrupted"]
                              ELSE row[j]]
    /\ UNCHANGED <<task, request, crashes, outages, late, gone, exposed>>

-----------------------------------------------------------------------------
Next ==
    \/ \E j \in Jobs : Step(j) \/ DeleteJob(j)
    \/ \E j \in Jobs, w \in Workers : StartScrape(j, w)
    \/ \E i, j \in Jobs, w \in Workers : ContinueScrape(i, j, w)
    \/ \E c \in Clients, j \in Jobs, op \in {"pause", "resume", "cancel"}, w \in Workers :
           ControlRead(c, j, op, w)
    \/ \E c \in Clients, b \in Bases, w \in Workers : DropCheck(c, b, w)
    \/ \E c \in Clients : ControlCommit(c) \/ Drop(c)
    \/ \E w \in Workers : WorkerCrash(w) \/ WorkerStart(w)

Spec == Init /\ [][Next]_vars

\* The event loop of a live worker resumes every coroutine and every handler,
\* and the supervisor replaces a dead worker.  Nobody has to send a request.
Fairness ==
    /\ \A j \in Jobs : WF_vars(Step(j))
    /\ \A c \in Clients : WF_vars(ControlCommit(c) \/ Drop(c))
    /\ \A w \in Workers : WF_vars(WorkerStart(w))

FairSpec == Spec /\ Fairness

-----------------------------------------------------------------------------
(* Properties.                                                             *)

\* A row in status "running" is never abandoned for good: a coroutine is working
\* on it, or its worker is down and the coming start will interrupt the row, or
\* the database refused to record its crash.  The delete guards of jobs and
\* knowledge bases and the updater all look for this status.
RunningIsOwned ==
    \A j \in Jobs : row[j].status = "running" =>
        \/ task[j].pc \in Live \ {"queued"}
        \/ task[j].pc = "gone" /\ worker[task[j].on] = "down"
        \/ task[j].pc = "lost"

\* After a pause or a cancel is committed the crawl begins at most one more
\* batch: the one whose controls were read before the commit.
StopWithinOneBatch == \A j \in Jobs : late[j] <= 1

\* A crawl that is still going on has its row in "running", unless the start of
\* a worker interrupted the row, an administrator then deleted it, or the row
\* went with its knowledge base, listed by a deletion that had found no active job.
CrawlIsVisible ==
    \A j \in Jobs : task[j].pc \in Running =>
        row[j].status = "running" \/ IsInterrupted(row[j]) \/ ~Exists(j)

\* The inductive invariant behind the three.  A coroutine is alive only on a
\* live worker; a job is pending only before its crawl, and so is a queued one
\* unless its row went with its base; and late counts only under a standing
\* request to stop, which "batch" has not seen yet.
OwnershipInv ==
    \A j \in Jobs :
        /\ task[j].pc \in Live => worker[task[j].on] = "up"
        /\ task[j].pc = "none" => ~Exists(j) /\ late[j] = 0
        /\ ~Exists(j) => row[j].asked = {}
        /\ task[j].pc = "queued" => row[j].status = "pending" \/ ~Exists(j)
        /\ row[j].status = "pending" => task[j].pc \in {"queued", "crashed", "gone", "lost"}
        /\ task[j].pc = "crashed" =>
               row[j].status \in Active \/ IsInterrupted(row[j]) \/ ~Exists(j)

LateInv ==
    \A j \in Jobs : /\ late[j] # 0 => Stopped(row[j])
                    /\ task[j].pc = "batch" => late[j] = 0

\* While a knowledge base is being deleted its active jobs are those accepted
\* after the check for active jobs.
DropInv ==
    \A c \in Clients, j \in Jobs :
        Deletes(c, BaseOf[j]) /\ row[j].status \in Active => j \in exposed

\* What a deletion has listed are rows of its base.
DoomedInv ==
    \A c \in Clients : request[c].op = "drop" =>
        \A j \in request[c].doomed : BaseOf[j] = request[c].base /\ task[j].pc # "none"

Inv == OwnershipInv /\ LateInv /\ DropInv /\ DoomedInv /\ RunningIsOwned /\ StopWithinOneBatch /\ CrawlIsVisible

\* The scrape jobs implement the abstract lifecycle.
Phase == [j \in Jobs |->
             IF ~Exists(j) THEN IF task[j].pc = "none" THEN "unborn" ELSE "deleted"
             ELSE IF IsInterrupted(row[j]) THEN "interrupted" ELSE row[j].status]

Life == INSTANCE JobLifecycle WITH phase <- Phase, exposed <- exposed

LifecycleSpec == Life!Spec

\* A cancelled job leaves the active states, for any interleaving with pauses,
\* batches and worker crashes, unless the database refused to record its crash.
CancelEndsJob ==
    \A j \in Jobs : (row[j].status = "running" /\ "cancel" \in row[j].asked)
                      ~> (row[j].status # "running" \/ task[j].pc = "lost")

\* A running job ends, waits in a pause somebody asked for, or is one whose
\* crash the database refused to record.
RunEnds ==
    \A j \in Jobs : row[j].status = "running"
                      ~> (row[j].status # "running" \/ "pause" \in row[j].asked \/ task[j].pc = "lost")

-----------------------------------------------------------------------------
(* Claims of the documentation that the code does not keep.                *)

\* main.py:65, rows "left in 'running' state (e.g. from a previous
\* crash/restart)": an interrupted job has no coroutine any more.
InterruptedJobIsDead ==
    \A j \in Jobs : IsInterrupted(row[j]) => task[j].pc \notin Live
=============================================================================
