-------------------------- MODULE ScrapeJobs_proofs --------------------------
(***************************************************************************)
(* What ScrapeJobs guarantees for any number of workers, jobs and requests *)
(* and for every value of the bounds.                                      *)
(***************************************************************************)
EXTENDS ScrapeJobs, TLAPS

-----------------------------------------------------------------------------
(* Typing of the assignments the actions are made of.                      *)

LEMMA NoTaskType == NoTask \in Tasks
  BY BoundsAssumption, WorkersAssumption DEF NoTask, Tasks, Pcs

LEMMA NewRowType == NewRow \in Rows /\ NoRow \in Rows
  BY DEF NewRow, NoRow, Rows, Statuses, Errors, Active

LEMMA GotoType ==
  ASSUME task \in [Jobs -> Tasks], NEW j \in Jobs, NEW pc \in Pcs, Goto(j, pc)
  PROVE  task' \in [Jobs -> Tasks]
  BY DEF Goto, Tasks

LEMMA EndType ==
  ASSUME task \in [Jobs -> Tasks], NEW j \in Jobs, NEW pc \in Pcs, End(j, pc)
  PROVE  task' \in [Jobs -> Tasks]
<1>1. [NoTask EXCEPT !.pc = pc] \in Tasks
  BY NoTaskType DEF Tasks
<1>2. QED
  BY <1>1 DEF End

LEMMA OutcomeType ==
  ASSUME row \in [Jobs -> Rows], NEW j \in Jobs, NEW s \in Statuses, NEW e \in Errors,
         \/ row' = [row EXCEPT ![j].status = s, ![j].error = e]
         \/ row' = [row EXCEPT ![j].status = s]
  PROVE  row' \in [Jobs -> Rows]
  BY DEF Rows

LEMMA ControlType ==
  ASSUME TypeOK, NEW c \in Clients, IsControl(c)
  PROVE  request[c] \in Controls
  BY DEF TypeOK, IsControl, Requests, Controls, Deletions, NoRequest

LEMMA DropType ==
  ASSUME TypeOK, NEW c \in Clients, request[c].op = "drop"
  PROVE  /\ request[c] \in Deletions
         /\ request[c].base \in Bases /\ request[c].doomed \subseteq Jobs
<1>1. request[c] \in Deletions
  BY DEF TypeOK, Requests, Controls, Deletions, NoRequest
<1>2. QED BY <1>1 DEF Deletions

-----------------------------------------------------------------------------
LEMMA StepType ==
  ASSUME TypeOK, NEW j \in Jobs, Step(j)
  PROVE  TypeOK'
<1> USE DEF TypeOK
<1>a. {"seeding", "check", "paused", "batch", "working", "final", "done", "lost", "crashed"} \subseteq Pcs
  BY DEF Pcs, Live, Running
<1>b. /\ {"running", "failed", "completed", "completed_with_errors"} \subseteq Statuses
      /\ {"cancelled", "pages", "crashed"} \subseteq Errors
  BY DEF Statuses, Errors, Active, Terminal
<1>c. ASSUME CancelRow(j) PROVE row' \in [Jobs -> Rows] /\ task' \in [Jobs -> Tasks]
  BY <1>a, <1>b, <1>c, EndType, OutcomeType DEF CancelRow
<1>1. CASE Begin(j)
  <2>1. row' \in [Jobs -> Rows] /\ task' \in [Jobs -> Tasks]
    BY <1>1, <1>a, <1>b, GotoType, EndType, OutcomeType DEF Begin
  <2>2. QED BY <1>1, <2>1 DEF Begin
<1>2. CASE Seed(j)
  <2>1. task' \in [Jobs -> Tasks]
    <3>1. PICK n \in 0..MaxBatches :
              task' = [task EXCEPT ![j].pc = "check", ![j].left = n]
      BY <1>2 DEF Seed
    <3>2. QED BY <1>a, <3>1 DEF Tasks
  <2>2. QED BY <1>2, <2>1 DEF Seed
<1>3. CASE LeaveLoop(j)
  BY <1>3, <1>a, GotoType DEF LeaveLoop
<1>4. CASE CheckControls(j)
  <2>1. row' \in [Jobs -> Rows] /\ task' \in [Jobs -> Tasks]
    BY <1>4, <1>a, <1>c, GotoType DEF CheckControls
  <2>2. QED BY <1>4, <2>1 DEF CheckControls
<1>5. CASE PauseTick(j)
  <2>1. CASE ~Exists(j)
    <3>1. task' = [task EXCEPT ![j].pc = "check", ![j].errors = "some"]
      BY <1>5, <2>1 DEF PauseTick
    <3>2. task' \in [Jobs -> Tasks]
      BY <1>a, <3>1 DEF Tasks
    <3>3. QED BY <1>5, <2>1, <3>2 DEF PauseTick
  <2>2. CASE Exists(j)
    <3>1. row' \in [Jobs -> Rows] /\ task' \in [Jobs -> Tasks]
      BY <1>5, <2>2, <1>a, <1>c, GotoType DEF PauseTick
    <3>2. QED BY <1>5, <3>1 DEF PauseTick
  <2>3. QED BY <2>1, <2>2
<1>6. CASE SizeLimit(j)
  BY <1>6, <1>a, GotoType DEF SizeLimit
<1>7. CASE StartBatch(j)
  <2>1. task' \in [Jobs -> Tasks]
    BY <1>7, <1>a, GotoType DEF StartBatch
  <2>2. late' \in [Jobs -> Nat]
    BY <1>7 DEF StartBatch
  <2>3. QED BY <1>7, <2>1, <2>2 DEF StartBatch
<1>8. CASE FinishBatch(j)
  <2>1. task' \in [Jobs -> Tasks]
    BY <1>8, <1>a, BoundsAssumption DEF FinishBatch, Tasks
  <2>2. QED BY <1>8, <2>1 DEF FinishBatch
<1>9. CASE Finalise(j)
  <2>1. task' \in [Jobs -> Tasks]
    BY <1>9, <1>a, EndType DEF Finalise
  <2>2. row' \in [Jobs -> Rows]
    BY <1>9, <1>b, OutcomeType DEF Finalise
  <2>3. QED BY <1>9, <2>1, <2>2 DEF Finalise
<1>10. CASE Raise(j)
  BY <1>10, <1>a, GotoType DEF Raise
<1>11. CASE RecordCrash(j)
  <2>1. task' \in [Jobs -> Tasks]
    BY <1>11, <1>a, EndType DEF RecordCrash
  <2>2. row' \in [Jobs -> Rows]
    BY <1>11, <1>b, OutcomeType DEF RecordCrash
  <2>3. QED BY <1>11, <2>1, <2>2 DEF RecordCrash
<1>12. CASE SwallowCrash(j)
  <2>1. task' \in [Jobs -> Tasks]
    BY <1>12, <1>a, EndType DEF SwallowCrash
  <2>2. QED BY <1>12, <2>1, BoundsAssumption DEF SwallowCrash
<1>13. QED
  BY <1>1, <1>2, <1>3, <1>4, <1>5, <1>6, <1>7, <1>8, <1>9, <1>10, <1>11, <1>12 DEF Step

\* Every variable stays in its type: no handler and no coroutine step leaves a
\* row, a task or a request in a form the others do not expect.
THEOREM TypeCorrect == Spec => []TypeOK
<1>1. Init => TypeOK
  BY NoTaskType, NewRowType, BoundsAssumption DEF Init, TypeOK
<1>2. TypeOK /\ [Next]_vars => TypeOK'
  <2> SUFFICES ASSUME TypeOK, [Next]_vars PROVE TypeOK'
    OBVIOUS
  <2> USE DEF TypeOK
  <2>1. ASSUME NEW j \in Jobs, Step(j) PROVE TypeOK'
    BY <2>1, StepType
  <2>2. ASSUME NEW j \in Jobs, NEW w \in Workers, Accept(j, w) PROVE TypeOK'
    <3>1. task' \in [Jobs -> Tasks]
      BY <2>2 DEF Accept, Tasks, Pcs, Live
    <3>2. exposed' \subseteq Jobs
      BY <2>2 DEF Accept
    <3>3. QED BY <2>2, <3>1, <3>2, NewRowType DEF Accept
  <2>3. ASSUME NEW j \in Jobs, DeleteJob(j) PROVE TypeOK'
    BY <2>3, NewRowType DEF DeleteJob
  <2>4. ASSUME NEW c \in Clients, NEW j \in Jobs, NEW op \in {"pause", "resume", "cancel"},
               NEW w \in Workers, ControlRead(c, j, op, w)
        PROVE  TypeOK'
    <3>1. row[j].asked \in SUBSET Asks
      BY DEF Rows
    <3>2. request' \in [Clients -> Requests \cup {NoRequest}]
      BY <2>4, <3>1 DEF ControlRead, Requests, Controls
    <3>3. QED BY <2>4, <3>2 DEF ControlRead
  <2>5. ASSUME NEW c \in Clients, ControlCommit(c) PROVE TypeOK'
    <3> DEFINE q == request[c]
    <3>1. q \in Controls
      BY <2>5, ControlType DEF ControlCommit
    <3>2. q.job \in Jobs
      BY <3>1 DEF Controls
    <3>3. Controlled(row[q.job], q) \in Rows
      BY <3>1, <3>2 DEF Controlled, Rows, Controls
    <3>4. row' \in [Jobs -> Rows]
      BY <2>5, <3>2, <3>3 DEF ControlCommit
    <3>5. late' \in [Jobs -> Nat]
      BY <2>5, <3>2 DEF ControlCommit
    <3>6. QED BY <2>5, <3>4, <3>5 DEF ControlCommit
  <2>6. ASSUME NEW w \in Workers, WorkerCrash(w) PROVE TypeOK'
    <3>1. [NoTask EXCEPT !.pc = "gone", !.on = w] \in Tasks
      BY NoTaskType DEF Tasks, Pcs
    <3>2. task' \in [Jobs -> Tasks]
      BY <2>6, <3>1 DEF WorkerCrash
    <3>3. QED BY <2>6, <3>2, BoundsAssumption DEF WorkerCrash
  <2>7. ASSUME NEW w \in Workers, WorkerStart(w) PROVE TypeOK'
    <3>1. row' \in [Jobs -> Rows]
      BY <2>7 DEF WorkerStart, Rows, Statuses, Terminal, Errors
    <3>2. QED BY <2>7, <3>1 DEF WorkerStart
  <2>8. ASSUME NEW c \in Clients, NEW b \in Bases, NEW w \in Workers, DropCheck(c, b, w)
        PROVE  TypeOK'
    <3>1. Listing(b, w) \in Deletions
      BY DEF Listing, Deletions
    <3>2. QED BY <2>8, <3>1 DEF DropCheck, Requests
  <2>9. ASSUME NEW c \in Clients, DropList(c) PROVE TypeOK'
    <3>1. request[c] \in Deletions
      BY <2>9, DropType DEF DropList
    <3>2. {j \in JobsOf(request[c].base) : Exists(j)} \subseteq Jobs
      BY DEF JobsOf
    <3>3. request' \in [Clients -> Requests \cup {NoRequest}]
      BY <2>9, <3>1, <3>2 DEF DropList, Requests, Deletions
    <3>4. QED BY <2>9, <3>3 DEF DropList
  <2>10. ASSUME NEW c \in Clients, DropCommit(c) PROVE TypeOK'
    <3>1. request[c].base \in Bases
      BY <2>10, DropType DEF DropCommit
    <3>2. row' \in [Jobs -> Rows] /\ late' \in [Jobs -> Nat]
      BY <2>10, NewRowType DEF DropCommit
    <3>3. QED BY <2>10, <3>1, <3>2 DEF DropCommit
  <2>11. CASE UNCHANGED vars
    BY <2>11 DEF vars
  <2>12. QED
    BY <2>1, <2>2, <2>3, <2>4, <2>5, <2>6, <2>7, <2>8, <2>9, <2>10, <2>11
       DEF Next, StartScrape, ContinueScrape, Drop
<1>3. QED BY <1>1, <1>2, PTL DEF Spec

-----------------------------------------------------------------------------
(* The inductive invariant.                                                *)

\* What Inv says of one job.
JobInv(j) ==
    /\ task[j].pc \in Live => worker[task[j].on] = "up"
    /\ task[j].pc = "none" => ~Exists(j) /\ late[j] = 0
    /\ ~Exists(j) => row[j].asked = {}
    /\ task[j].pc = "queued" => row[j].status = "pending" \/ ~Exists(j)
    /\ row[j].status = "pending" => task[j].pc \in {"queued", "crashed", "gone", "lost"}
    /\ task[j].pc = "crashed" =>
           row[j].status \in Active \/ IsInterrupted(row[j]) \/ ~Exists(j)
    /\ late[j] # 0 => Stopped(row[j])
    /\ task[j].pc = "batch" => late[j] = 0
    /\ row[j].status = "running" =>
           \/ task[j].pc \in Live \ {"queued"}
           \/ task[j].pc = "gone" /\ worker[task[j].on] = "down"
           \/ task[j].pc = "lost"
    /\ late[j] <= 1
    /\ task[j].pc \in Running =>
           row[j].status = "running" \/ IsInterrupted(row[j]) \/ ~Exists(j)

LEMMA InvPerJob == Inv <=> (\A j \in Jobs : JobInv(j)) /\ DropInv /\ DoomedInv
  BY DEF Inv, JobInv, OwnershipInv, LateInv, RunningIsOwned, StopWithinOneBatch, CrawlIsVisible

\* A job none of whose variables a step touches keeps its part.
LEMMA FrameJob ==
  ASSUME NEW j \in Jobs, JobInv(j), task'[j] = task[j], row'[j] = row[j],
         late'[j] = late[j], worker' = worker
  PROVE  JobInv(j)'
  BY DEF JobInv, Exists, Stopped, IsInterrupted

LEMMA StepInv ==
  ASSUME TypeOK, NEW j \in Jobs, JobInv(j), Step(j)
  PROVE  JobInv(j)'
<1> USE DEF TypeOK, JobInv, Exists, IsInterrupted, Goto, End, Live, Running, Active, NoTask
<1>0. task[j] \in Tasks /\ row[j] \in Rows /\ late[j] \in Nat
  OBVIOUS
<1> USE <1>0 DEF Tasks, Rows
<1>1. CASE Begin(j)
  <2>1. CASE Exists(j)
    BY <1>1, <2>1 DEF Begin, Stopped
  <2>2. CASE ~Exists(j)
    <3>1. row' = row /\ late' = late /\ task'[j].pc = "done"
      BY <1>1, <2>2 DEF Begin
    <3>2. QED BY <2>2, <3>1 DEF Stopped
  <2>3. QED BY <2>1, <2>2
<1>2. CASE Seed(j)
  BY <1>2 DEF Seed
<1>3. CASE LeaveLoop(j)
  BY <1>3 DEF LeaveLoop
<1>4. CASE CheckControls(j)
  BY <1>4 DEF CheckControls, CancelRow, Stopped
<1>5. CASE PauseTick(j)
  BY <1>5 DEF PauseTick, CancelRow, Stopped
<1>6. CASE SizeLimit(j)
  BY <1>6 DEF SizeLimit
<1>7. CASE StartBatch(j)
  BY <1>7 DEF StartBatch
<1>8. CASE FinishBatch(j)
  BY <1>8 DEF FinishBatch
<1>9. CASE Finalise(j)
  BY <1>9 DEF Finalise, Stopped
<1>10. CASE Raise(j)
  BY <1>10 DEF Raise
<1>11. CASE RecordCrash(j)
  BY <1>11 DEF RecordCrash, Stopped
<1>12. CASE SwallowCrash(j)
  BY <1>12 DEF SwallowCrash
<1>13. QED
  BY <1>1, <1>2, <1>3, <1>4, <1>5, <1>6, <1>7, <1>8, <1>9, <1>10, <1>11, <1>12 DEF Step

\* A coroutine step of one job leaves every other job alone.
LEMMA StepFrame ==
  ASSUME TypeOK, NEW j \in Jobs, NEW i \in Jobs \ {j}, Step(j)
  PROVE  task'[i] = task[i] /\ row'[i] = row[i] /\ late'[i] = late[i] /\ worker' = worker
<1> USE DEF TypeOK, Goto, End
<1>1. CASE Begin(j) \/ Seed(j) \/ LeaveLoop(j) \/ SizeLimit(j)
  BY <1>1 DEF Begin, Seed, LeaveLoop, SizeLimit
<1>2. CASE CheckControls(j)
  BY <1>2 DEF CheckControls, CancelRow
<1>3. CASE PauseTick(j)
  BY <1>3 DEF PauseTick, CancelRow
<1>4. CASE StartBatch(j) \/ FinishBatch(j)
  BY <1>4 DEF StartBatch, FinishBatch
<1>5. CASE Finalise(j)
  BY <1>5 DEF Finalise
<1>6. CASE Raise(j) \/ RecordCrash(j) \/ SwallowCrash(j)
  BY <1>6 DEF Raise, RecordCrash, SwallowCrash
<1>7. QED
  BY <1>1, <1>2, <1>3, <1>4, <1>5, <1>6 DEF Step

LEMMA NextJobInv ==
  ASSUME TypeOK, Inv, [Next]_vars, NEW i \in Jobs
  PROVE  JobInv(i)'
<1>0. JobInv(i)
  BY InvPerJob
<1>t. /\ task[i] \in Tasks /\ row[i] \in Rows /\ late[i] \in Nat
      /\ task \in [Jobs -> Tasks] /\ row \in [Jobs -> Rows] /\ late \in [Jobs -> Nat]
      /\ worker \in [Workers -> {"up", "down"}]
  BY DEF TypeOK
<1>1. ASSUME NEW j \in Jobs, Step(j) PROVE JobInv(i)'
  <2>1. CASE i = j
    BY <1>0, <1>1, <2>1, StepInv
  <2>2. CASE i # j
    <3>1. task'[i] = task[i] /\ row'[i] = row[i] /\ late'[i] = late[i] /\ worker' = worker
      BY <1>1, <2>2, StepFrame
    <3>2. QED BY <1>0, <3>1, FrameJob
  <2>3. QED BY <2>1, <2>2
<1>2. ASSUME NEW j \in Jobs, NEW w \in Workers, Accept(j, w) PROVE JobInv(i)'
  BY <1>0, <1>2, <1>t DEF Accept, JobInv, Exists, Stopped, IsInterrupted, NewRow, Tasks, Rows, Live, Running
<1>3. ASSUME NEW j \in Jobs, DeleteJob(j) PROVE JobInv(i)'
  BY <1>0, <1>3, <1>t DEF DeleteJob, JobInv, Exists, Stopped, IsInterrupted, NoRow, Tasks, Rows, Live, Running, Terminal, Active
<1>4. ASSUME NEW c \in Clients, NEW j \in Jobs, NEW op \in {"pause", "resume", "cancel"},
             NEW w \in Workers, ControlRead(c, j, op, w)
      PROVE  JobInv(i)'
  BY <1>0, <1>4, FrameJob DEF ControlRead
<1>5. ASSUME NEW c \in Clients, ControlCommit(c) PROVE JobInv(i)'
  <2> DEFINE q == request[c]
  <2>1. q.job \in Jobs
    BY <1>5, ControlType DEF ControlCommit, Controls
  <2>2. CASE i # q.job
    BY <1>0, <1>5, <1>t, <2>2, FrameJob DEF ControlCommit
  <2>3. CASE i = q.job
    <3>1. row'[i].status = row[i].status /\ row'[i].error = row[i].error
      BY <1>5, <1>t, <2>1, <2>3 DEF ControlCommit, Controlled, Rows
    <3>2. late'[i] = IF Stopped(row'[i]) THEN late[i] ELSE 0
      BY <1>5, <1>t, <2>1, <2>3 DEF ControlCommit
    <3>3. task' = task /\ worker' = worker
      BY <1>5 DEF ControlCommit
    <3>4. ~Exists(i) => row'[i] = row[i]
      BY <1>5, <1>t, <2>1, <2>3 DEF ControlCommit
    <3>5. QED
      BY <1>0, <1>t, <3>1, <3>2, <3>3, <3>4 DEF JobInv, Exists, Stopped, IsInterrupted
  <2>4. QED BY <2>2, <2>3
<1>6. ASSUME NEW w \in Workers, WorkerCrash(w) PROVE JobInv(i)'
  BY <1>0, <1>6, <1>t DEF WorkerCrash, JobInv, Exists, Stopped, IsInterrupted, NoTask, Tasks, Live, Running
<1>7. ASSUME NEW w \in Workers, WorkerStart(w) PROVE JobInv(i)'
  BY <1>0, <1>7, <1>t DEF WorkerStart, JobInv, Exists, Stopped, IsInterrupted, Tasks, Rows, Live, Running, Active
<1>8. ASSUME NEW c \in Clients, NEW b \in Bases, NEW w \in Workers, DropCheck(c, b, w)
      PROVE  JobInv(i)'
  BY <1>0, <1>8, FrameJob DEF DropCheck
<1>9. ASSUME NEW c \in Clients, DropList(c) PROVE JobInv(i)'
  BY <1>0, <1>9, FrameJob DEF DropList
<1>10. ASSUME NEW c \in Clients, DropCommit(c) PROVE JobInv(i)'
  <2>1. CASE i \in request[c].doomed
    <3>1. row'[i] = NoRow /\ late'[i] = 0 /\ task' = task /\ worker' = worker
      BY <1>10, <2>1 DEF DropCommit
    <3>2. QED
      BY <1>0, <1>t, <3>1 DEF JobInv, Exists, Stopped, IsInterrupted, NoRow, Active, Running
  <2>2. CASE i \notin request[c].doomed
    BY <1>0, <1>10, <2>2, FrameJob DEF DropCommit
  <2>3. QED BY <2>1, <2>2
<1>11. CASE UNCHANGED vars
  BY <1>0, <1>11, FrameJob DEF vars
<1>12. QED
  BY <1>1, <1>2, <1>3, <1>4, <1>5, <1>6, <1>7, <1>8, <1>9, <1>10, <1>11
     DEF Next, StartScrape, ContinueScrape, Drop

\* A coroutine never makes a row active that was not.
LEMMA StepActive ==
  ASSUME TypeOK, NEW j \in Jobs, JobInv(j), Step(j)
  PROVE  /\ row'[j].status \in Active => row[j].status \in Active
         /\ task'[j].pc # "none"
<1> USE DEF TypeOK, JobInv, Exists, Goto, End, Live, Running, Active, NoTask
<1>0. task[j] \in Tasks /\ row[j] \in Rows
  OBVIOUS
<1> USE <1>0 DEF Tasks, Rows
<1>1. CASE Begin(j)
  BY <1>1 DEF Begin
<1>2. CASE Seed(j)
  BY <1>2 DEF Seed
<1>3. CASE LeaveLoop(j) \/ SizeLimit(j) \/ StartBatch(j) \/ Raise(j) \/ SwallowCrash(j)
  BY <1>3 DEF LeaveLoop, SizeLimit, StartBatch, Raise, SwallowCrash
<1>4. CASE CheckControls(j)
  BY <1>4 DEF CheckControls, CancelRow
<1>5. CASE PauseTick(j)
  BY <1>5 DEF PauseTick, CancelRow
<1>6. CASE FinishBatch(j)
  BY <1>6 DEF FinishBatch
<1>7. CASE Finalise(j)
  BY <1>7 DEF Finalise
<1>8. CASE RecordCrash(j)
  BY <1>8 DEF RecordCrash
<1>9. QED
  BY <1>1, <1>2, <1>3, <1>4, <1>5, <1>6, <1>7, <1>8 DEF Step

\* Only an acceptance makes a row active, and no id is used twice.
LEMMA NewlyActive ==
  ASSUME TypeOK, Inv, [Next]_vars, NEW j \in Jobs
  PROVE  /\ row'[j].status \in Active =>
              row[j].status \in Active \/ \E w \in Workers : Accept(j, w)
         /\ task[j].pc # "none" => task'[j].pc # "none"
         /\ exposed \subseteq exposed'
<1>i. JobInv(j)
  BY InvPerJob
<1>t. /\ task[j] \in Tasks /\ row[j] \in Rows
      /\ task \in [Jobs -> Tasks] /\ row \in [Jobs -> Rows]
  BY DEF TypeOK
<1>1. ASSUME NEW i \in Jobs, Step(i)
      PROVE  /\ row'[j].status \in Active => row[j].status \in Active
             /\ task[j].pc # "none" => task'[j].pc # "none"
             /\ exposed' = exposed
  <2>0. exposed' = exposed
    BY <1>1 DEF Step, Begin, Seed, LeaveLoop, CheckControls, PauseTick, SizeLimit, StartBatch,
                FinishBatch, Finalise, Raise, RecordCrash, SwallowCrash
  <2>1. CASE i # j
    BY <1>1, <2>0, <2>1, StepFrame
  <2>2. CASE i = j
    BY <1>i, <1>1, <2>0, <2>2, StepActive
  <2>3. QED BY <2>1, <2>2
<1>2. ASSUME NEW i \in Jobs, NEW w \in Workers, Accept(i, w)
      PROVE  /\ row'[j].status \in Active => row[j].status \in Active \/ i = j
             /\ task[j].pc # "none" => task'[j].pc # "none"
             /\ exposed \subseteq exposed'
  BY <1>2, <1>t DEF Accept, Tasks
<1>3. ASSUME NEW i \in Jobs, DeleteJob(i)
      PROVE  /\ row'[j].status \in Active => row[j].status \in Active
             /\ task' = task /\ exposed' = exposed
  BY <1>3, <1>t DEF DeleteJob, NoRow, Active
<1>4. ASSUME NEW c \in Clients,
             \/ ControlCommit(c) \/ DropList(c) \/ DropCommit(c)
             \/ \E i \in Jobs, op \in {"pause", "resume", "cancel"}, w \in Workers :
                    ControlRead(c, i, op, w)
             \/ \E b \in Bases, w \in Workers : DropCheck(c, b, w)
      PROVE  /\ row'[j].status \in Active => row[j].status \in Active
             /\ task' = task /\ exposed' = exposed
  <2>1. CASE ControlCommit(c)
    BY <2>1, <1>t, ControlType DEF ControlCommit, Controlled, Controls, Rows
  <2>2. CASE DropCommit(c)
    BY <2>2, <1>t DEF DropCommit, NoRow, Active
  <2>3. QED BY <1>4, <2>1, <2>2 DEF DropList, ControlRead, DropCheck
<1>5. ASSUME NEW w \in Workers, WorkerCrash(w)
      PROVE  /\ row'[j].status \in Active => row[j].status \in Active
             /\ task[j].pc # "none" => task'[j].pc # "none"
             /\ exposed' = exposed
  BY <1>5, <1>t DEF WorkerCrash, NoTask, Tasks
<1>6. ASSUME NEW w \in Workers, WorkerStart(w)
      PROVE  /\ row'[j].status \in Active => row[j].status \in Active
             /\ task' = task /\ exposed' = exposed
  BY <1>6, <1>t DEF WorkerStart, Active, Rows
<1>7. CASE UNCHANGED vars
  BY <1>7 DEF vars
<1>8. QED
  BY <1>1, <1>2, <1>3, <1>4, <1>5, <1>6, <1>7 DEF Next, StartScrape, ContinueScrape, Drop

\* The deletion c goes on, or just began with no active job, or listed its rows.
LEMMA DropGoesOn ==
  ASSUME TypeOK, [Next]_vars, NEW c \in Clients, request'[c].op = "drop"
  PROVE  \/ request'[c] = request[c]
         \/ /\ request'[c].doomed = {} /\ row' = row
            /\ \A j \in JobsOf(request'[c].base) : row[j].status \notin Active
         \/ /\ request[c].op = "drop" /\ request'[c].base = request[c].base /\ row' = row
            /\ request'[c].doomed = {j \in JobsOf(request[c].base) : Exists(j)}
<1> USE DEF TypeOK
<1>1. ASSUME NEW j \in Jobs, Step(j) PROVE request' = request
  BY <1>1 DEF Step, Begin, Seed, LeaveLoop, CheckControls, PauseTick, SizeLimit, StartBatch,
              FinishBatch, Finalise, Raise, RecordCrash, SwallowCrash
<1>2. ASSUME NEW d \in Clients, NEW j \in Jobs, NEW op \in {"pause", "resume", "cancel"},
             NEW w \in Workers, ControlRead(d, j, op, w)
      PROVE  request'[c] = request[c]
  BY <1>2 DEF ControlRead
<1>3. ASSUME NEW d \in Clients, ControlCommit(d) \/ DropCommit(d)
      PROVE  request'[c] = request[c]
  BY <1>3 DEF ControlCommit, DropCommit, NoRequest
<1>4. ASSUME NEW d \in Clients, NEW b \in Bases, NEW w \in Workers, DropCheck(d, b, w)
      PROVE  \/ request'[c] = request[c]
             \/ /\ request'[c].doomed = {} /\ row' = row
                /\ \A j \in JobsOf(request'[c].base) : row[j].status \notin Active
  BY <1>4 DEF DropCheck, Listing
<1>5. ASSUME NEW d \in Clients, DropList(d)
      PROVE  \/ request'[c] = request[c]
             \/ /\ request[c].op = "drop" /\ request'[c].base = request[c].base /\ row' = row
                /\ request'[c].doomed = {j \in JobsOf(request[c].base) : Exists(j)}
  <2>1. request[d] \in Deletions
    BY <1>5, DropType DEF DropList
  <2>2. QED BY <1>5, <2>1 DEF DropList, Deletions
<1>6. ASSUME NEW w \in Workers, WorkerCrash(w) PROVE request'[c] = request[c]
  BY <1>6 DEF WorkerCrash, NoRequest
<1>7. QED
  BY <1>1, <1>2, <1>3, <1>4, <1>5, <1>6
     DEF Next, StartScrape, ContinueScrape, Accept, DeleteJob, Drop, WorkerStart, vars

LEMMA NextInv == TypeOK /\ Inv /\ [Next]_vars => Inv'
<1> SUFFICES ASSUME TypeOK, Inv, [Next]_vars PROVE Inv'
  OBVIOUS
<1>1. \A i \in Jobs : JobInv(i)'
  BY NextJobInv
<1>2. DropInv'
  <2> SUFFICES ASSUME NEW c \in Clients, NEW j \in Jobs, Deletes(c, BaseOf[j])',
                      row'[j].status \in Active
               PROVE  j \in exposed'
    BY DEF DropInv
  <2>1. request'[c].op = "drop" /\ request'[c].base = BaseOf[j]
    BY DEF Deletes
  <2>2. CASE \E w \in Workers : Accept(j, w)
    <3>1. request' = request
      BY <2>2 DEF Accept
    <3>2. Deletes(c, BaseOf[j])
      BY <2>1, <3>1 DEF Deletes
    <3>3. QED BY <2>2, <3>2 DEF Accept
  <2>3. CASE ~\E w \in Workers : Accept(j, w)
    <3>1. row[j].status \in Active /\ exposed \subseteq exposed'
      BY <2>3, NewlyActive
    <3>2. request[c].op = "drop" /\ request[c].base = BaseOf[j]
      BY <2>1, <3>1, DropGoesOn DEF JobsOf
    <3>3. QED BY <3>1, <3>2 DEF Inv, DropInv, Deletes
  <2>4. QED BY <2>2, <2>3
<1>3. DoomedInv'
  <2> SUFFICES ASSUME NEW c \in Clients, request'[c].op = "drop",
                      NEW j \in request'[c].doomed
               PROVE  BaseOf[j] = request'[c].base /\ task'[j].pc # "none"
    BY DEF DoomedInv
  <2>1. CASE request'[c] = request[c]
    <3>1. j \in Jobs
      BY <2>1, DropType
    <3>2. BaseOf[j] = request[c].base /\ task[j].pc # "none"
      BY <2>1 DEF Inv, DoomedInv
    <3>3. QED BY <2>1, <3>1, <3>2, NewlyActive
  <2>2. CASE /\ request[c].op = "drop" /\ request'[c].base = request[c].base
             /\ request'[c].doomed = {i \in JobsOf(request[c].base) : Exists(i)}
    <3>1. j \in Jobs /\ BaseOf[j] = request[c].base /\ Exists(j)
      BY <2>2 DEF JobsOf
    <3>2. task[j].pc # "none"
      BY <3>1, InvPerJob DEF JobInv
    <3>3. QED BY <2>2, <3>1, <3>2, NewlyActive
  <2>3. QED BY <2>1, <2>2, DropGoesOn
<1>4. QED BY <1>1, <1>2, <1>3 DEF Inv, JobInv, OwnershipInv, LateInv, RunningIsOwned,
                                  StopWithinOneBatch, CrawlIsVisible

\* The invariant holds whatever the interleaving of crawls, requests, crashes
\* and starts.
THEOREM Invariance == Spec => []Inv
<1>1. Init => Inv
  <2> SUFFICES ASSUME Init, NEW j \in Jobs PROVE JobInv(j)
    BY InvPerJob DEF Init, DropInv, DoomedInv, Deletes, NoRequest
  <2>1. task[j].pc = "none" /\ row[j] = NoRow /\ late[j] = 0
    BY DEF Init, NoTask, NoRow
  <2>2. QED
    BY <2>1 DEF JobInv, Exists, Live, Running, NoRow
<1>2. QED BY <1>1, TypeCorrect, NextInv, PTL DEF Spec

\* A row in status "running" has a coroutine at work, or a worker to come that
\* will interrupt it, or lost the write that would have recorded its crash.
THEOREM RunningOwned == Spec => []RunningIsOwned
  BY Invariance, PTL DEF Inv

\* A pause or a cancel lets the crawl begin at most one more batch.
THEOREM StopBounded == Spec => []StopWithinOneBatch
  BY Invariance, PTL DEF Inv

\* A crawl at work has its row running, interrupted by the start of a worker,
\* or deleted: after that, or with a knowledge base listed for deletion.
THEOREM CrawlVisible == Spec => []CrawlIsVisible
  BY Invariance, PTL DEF Inv

-----------------------------------------------------------------------------
(* The scrape jobs implement JobLifecycle.                                 *)

PhaseOf(j) ==
    IF ~Exists(j) THEN IF task[j].pc = "none" THEN "unborn" ELSE "deleted"
    ELSE IF IsInterrupted(row[j]) THEN "interrupted" ELSE row[j].status

LEMMA PhaseMap == Phase = [j \in Jobs |-> PhaseOf(j)]
  BY DEF Phase, PhaseOf

\* A step that changes at most the phase of j, from P to Q, is a Move.
LEMMA OnePhase ==
  ASSUME NEW j \in Jobs, \A i \in Jobs \ {j} : PhaseOf(i)' = PhaseOf(i)
  PROVE  Phase' = [Phase EXCEPT ![j] = PhaseOf(j)']
  BY DEF Phase, PhaseOf

LEMMA StepPhase ==
  ASSUME TypeOK, NEW j \in Jobs, JobInv(j), Step(j)
  PROVE  \/ PhaseOf(j)' = PhaseOf(j)
         \/ PhaseOf(j) = "pending" /\ PhaseOf(j)' \in {"running", "failed"}
         \/ PhaseOf(j) \in {"running", "interrupted"} /\ PhaseOf(j)' \in Terminal
<1> USE DEF TypeOK, JobInv, Exists, IsInterrupted, Goto, End, Live, Running, Active, NoTask,
            PhaseOf, Terminal
<1>0. task[j] \in Tasks /\ row[j] \in Rows
  OBVIOUS
<1> USE <1>0 DEF Tasks, Rows, Statuses
<1>1. CASE Begin(j)
  BY <1>1 DEF Begin
<1>2. CASE LeaveLoop(j) \/ SizeLimit(j) \/ StartBatch(j) \/ Raise(j) \/ SwallowCrash(j)
  <2>1. task'[j].pc # "none" /\ row' = row
    BY <1>2 DEF LeaveLoop, SizeLimit, StartBatch, Raise, SwallowCrash
  <2>2. QED BY <1>2, <2>1 DEF LeaveLoop, SizeLimit, StartBatch, Raise, SwallowCrash
<1>7. CASE Seed(j) \/ FinishBatch(j)
  <2>1. row' = row
    BY <1>7 DEF Seed, FinishBatch
  <2>2. CASE Seed(j)
    BY <2>1, <2>2 DEF Seed
  <2>3. CASE FinishBatch(j)
    <3>1. task'[j].pc = "check"
      BY <2>3 DEF FinishBatch
    <3>2. QED BY <2>1, <2>3, <3>1 DEF FinishBatch
  <2>4. QED BY <1>7, <2>2, <2>3
<1>3. CASE CheckControls(j)
  BY <1>3 DEF CheckControls, CancelRow
<1>4. CASE PauseTick(j)
  BY <1>4 DEF PauseTick, CancelRow
<1>5. CASE Finalise(j)
  BY <1>5 DEF Finalise
<1>6. CASE RecordCrash(j)
  BY <1>6 DEF RecordCrash
<1>8. QED
  BY <1>1, <1>2, <1>3, <1>4, <1>5, <1>6, <1>7 DEF Step

\* The phase depends on the row and on whether the id was ever used.
LEMMA FramePhase ==
  ASSUME NEW i \in Jobs, row'[i] = row[i], task'[i].pc = "none" <=> task[i].pc = "none"
  PROVE  PhaseOf(i)' = PhaseOf(i)
  BY DEF PhaseOf, Exists, IsInterrupted

\* A change of one job's phase along one of the moves is a step of JobLifecycle.
LEMMA MoveRefines ==
  ASSUME NEW j \in Jobs, \A i \in Jobs \ {j} : PhaseOf(i)' = PhaseOf(i),
         \/ /\ PhaseOf(j) = "unborn" /\ PhaseOf(j)' = "pending"
            /\ exposed' \in {exposed, exposed \cup {j}}
         \/ /\ exposed' = exposed
            /\ \/ PhaseOf(j)' = PhaseOf(j)
               \/ PhaseOf(j) = "pending" /\ PhaseOf(j)' \in {"running", "failed"}
               \/ PhaseOf(j) \in {"running", "interrupted"} /\ PhaseOf(j)' \in Terminal
               \/ PhaseOf(j) \in Terminal \cup {"interrupted"} /\ PhaseOf(j)' = "deleted"
  PROVE  [Life!Next]_<<Phase, exposed>>
<1>1. Phase' = [Phase EXCEPT ![j] = PhaseOf(j)']
  BY OnePhase
<1>2. Phase[j] = PhaseOf(j)
  BY PhaseMap
<1>3. CASE PhaseOf(j)' = PhaseOf(j) /\ exposed' = exposed
  <2>1. Phase' = Phase
    BY <1>3, \A i \in Jobs : PhaseOf(i)' = PhaseOf(i) DEF Phase, PhaseOf
  <2>2. QED BY <1>3, <2>1
<1>4. CASE /\ PhaseOf(j) = "unborn" /\ PhaseOf(j)' = "pending"
           /\ exposed' \in {exposed, exposed \cup {j}}
  <2>1. Life!Accept(j)
    BY <1>1, <1>2, <1>4 DEF Life!Accept, Life!Move
  <2>2. QED BY <2>1 DEF Life!Next
<1>5. CASE PhaseOf(j) = "pending" /\ PhaseOf(j)' \in {"running", "failed"} /\ exposed' = exposed
  <2>1. Life!Begin(j) \/ Life!Abort(j)
    BY <1>1, <1>2, <1>5 DEF Life!Begin, Life!Abort, Life!Move
  <2>2. QED BY <2>1 DEF Life!Next
<1>6. CASE PhaseOf(j) \in {"running", "interrupted"} /\ PhaseOf(j)' \in Terminal /\ exposed' = exposed
  <2>1. Life!Finish(j)
    BY <1>1, <1>2, <1>6 DEF Life!Finish, Life!Move, Life!Outcomes, Terminal
  <2>2. QED BY <2>1 DEF Life!Next
<1>7. CASE PhaseOf(j) \in Terminal \cup {"interrupted"} /\ PhaseOf(j)' = "deleted" /\ exposed' = exposed
  <2>1. Life!Delete(j)
    BY <1>1, <1>2, <1>7 DEF Life!Delete, Life!Move, Life!Outcomes, Terminal
  <2>2. QED BY <2>1 DEF Life!Next
<1>8. QED
  BY <1>3, <1>4, <1>5, <1>6, <1>7

LEMMA NextRefines == TypeOK /\ Inv /\ [Next]_vars => [Life!Next]_<<Phase, exposed>>
<1> SUFFICES ASSUME TypeOK, Inv, [Next]_vars PROVE [Life!Next]_<<Phase, exposed>>
  OBVIOUS
<1>i. \A j \in Jobs : JobInv(j)
  BY InvPerJob
<1>t. /\ task \in [Jobs -> Tasks] /\ row \in [Jobs -> Rows]
      /\ \A j \in Jobs : row[j] \in Rows
  BY DEF TypeOK
<1>1. ASSUME NEW j \in Jobs, Step(j) PROVE [Life!Next]_<<Phase, exposed>>
  <2>1. \A i \in Jobs \ {j} : PhaseOf(i)' = PhaseOf(i)
    BY <1>1, StepFrame, FramePhase
  <2>2. exposed' = exposed
    BY <1>1 DEF Step, Begin, Seed, LeaveLoop, CheckControls, PauseTick, SizeLimit, StartBatch,
                FinishBatch, Finalise, Raise, RecordCrash, SwallowCrash
  <2>3. QED BY <1>1, <1>i, <2>1, <2>2, StepPhase, MoveRefines
<1>2. ASSUME NEW j \in Jobs, NEW w \in Workers, Accept(j, w) PROVE [Life!Next]_<<Phase, exposed>>
  <2>1. \A i \in Jobs \ {j} : PhaseOf(i)' = PhaseOf(i)
    BY <1>2, <1>t, FramePhase DEF Accept
  <2>2. PhaseOf(j) = "unborn" /\ PhaseOf(j)' = "pending"
    BY <1>2, <1>t, <1>i DEF Accept, JobInv, PhaseOf, Exists, IsInterrupted, NewRow
  <2>3. exposed' \in {exposed, exposed \cup {j}}
    BY <1>2 DEF Accept
  <2>4. QED BY <2>1, <2>2, <2>3, MoveRefines
<1>3. ASSUME NEW j \in Jobs, DeleteJob(j) PROVE [Life!Next]_<<Phase, exposed>>
  <2>1. \A i \in Jobs \ {j} : PhaseOf(i)' = PhaseOf(i)
    BY <1>3, <1>t, FramePhase DEF DeleteJob
  <2>2. PhaseOf(j) \in Terminal \cup {"interrupted"}
    BY <1>3 DEF DeleteJob, PhaseOf, Exists, Terminal
  <2>3. PhaseOf(j)' = "deleted"
    BY <1>3, <1>t, <1>i DEF DeleteJob, JobInv, PhaseOf, Exists, NoRow, Terminal
  <2>4. exposed' = exposed
    BY <1>3 DEF DeleteJob
  <2>5. QED BY <2>1, <2>2, <2>3, <2>4, MoveRefines
<1>4. ASSUME NEW c \in Clients, NEW j \in Jobs, NEW op \in {"pause", "resume", "cancel"},
             NEW w \in Workers, ControlRead(c, j, op, w)
      PROVE  [Life!Next]_<<Phase, exposed>>
  BY <1>4 DEF ControlRead, Phase, Exists, IsInterrupted
<1>5. ASSUME NEW c \in Clients, ControlCommit(c) PROVE [Life!Next]_<<Phase, exposed>>
  <2> DEFINE q == request[c]
  <2>1. q.job \in Jobs
    BY <1>5, ControlType DEF ControlCommit, Controls
  <2>2. \A i \in Jobs : row'[i].status = row[i].status /\ row'[i].error = row[i].error
    BY <1>5, <1>t, <2>1 DEF ControlCommit, Controlled, Rows
  <2>3. \A i \in Jobs : PhaseOf(i)' = PhaseOf(i)
    BY <1>5, <2>2 DEF ControlCommit, PhaseOf, Exists, IsInterrupted
  <2>4. Phase' = Phase
    BY <2>3 DEF Phase, PhaseOf
  <2>5. QED BY <1>5, <2>4 DEF ControlCommit
<1>6. ASSUME NEW w \in Workers, WorkerCrash(w) PROVE [Life!Next]_<<Phase, exposed>>
  <2>1. \A i \in Jobs : row'[i] = row[i] /\ (task'[i].pc = "none" <=> task[i].pc = "none")
    BY <1>6, <1>t DEF WorkerCrash, NoTask, Tasks, Live, Running
  <2>2. \A i \in Jobs : PhaseOf(i)' = PhaseOf(i)
    BY <2>1, FramePhase
  <2>3. Phase' = Phase
    BY <2>2 DEF Phase, PhaseOf
  <2>4. QED BY <1>6, <2>3 DEF WorkerCrash
<1>7. ASSUME NEW w \in Workers, WorkerStart(w) PROVE [Life!Next]_<<Phase, exposed>>
  <2> DEFINE J == {j \in Jobs : Phase[j] = "running"}
  <2>1. \A j \in Jobs : PhaseOf(j) = "running" <=> row[j].status = "running"
    BY DEF PhaseOf, Exists, IsInterrupted
  <2>2. \A j \in Jobs : PhaseOf(j)' = IF PhaseOf(j) = "running" THEN "interrupted" ELSE PhaseOf(j)
    BY <1>7, <1>t, <2>1 DEF WorkerStart, PhaseOf, Exists, IsInterrupted, Rows
  <2>3. Phase' = [j \in Jobs |-> IF j \in J THEN "interrupted" ELSE Phase[j]]
    BY <2>2, PhaseMap DEF Phase, PhaseOf
  <2>4. J \in SUBSET {j \in Jobs : Phase[j] = "running"}
    OBVIOUS
  <2>5. Life!Interrupt
    BY <1>7, <2>3, <2>4 DEF Life!Interrupt, WorkerStart
  <2>6. QED BY <2>5 DEF Life!Next
<1>8. ASSUME NEW c \in Clients,
             DropList(c) \/ \E b \in Bases, w \in Workers : DropCheck(c, b, w)
      PROVE  [Life!Next]_<<Phase, exposed>>
  BY <1>8 DEF DropList, DropCheck, Phase, Exists, IsInterrupted
<1>9. ASSUME NEW c \in Clients, DropCommit(c) PROVE [Life!Next]_<<Phase, exposed>>
  <2> DEFINE J == request[c].doomed
  <2>1. request[c].op = "drop" /\ J \subseteq Jobs
    BY <1>9, DropType DEF DropCommit
  <2>2. \A j \in J : Deletes(c, BaseOf[j]) /\ task[j].pc # "none"
    BY <2>1 DEF Inv, DoomedInv, Deletes
  <2>3. \A j \in J : /\ PhaseOf(j) # "unborn"
                     /\ PhaseOf(j) \in {"pending", "running"} => j \in exposed
    <3> SUFFICES ASSUME NEW j \in J
                 PROVE  /\ PhaseOf(j) # "unborn"
                        /\ PhaseOf(j) \in {"pending", "running"} => j \in exposed
      OBVIOUS
    <3>1. j \in Jobs /\ row[j].status \in Statuses
      BY <1>t, <2>1 DEF Rows
    <3>2. PhaseOf(j) # "unborn"
      BY <2>2, <3>1 DEF PhaseOf, Exists, Statuses, Active, Terminal
    <3>3. PhaseOf(j) \in {"pending", "running"} => row[j].status \in Active
      BY DEF PhaseOf, Active
    <3>4. QED BY <2>2, <3>1, <3>2, <3>3 DEF Inv, DropInv
  <2>4. \A j \in Jobs : PhaseOf(j)' = IF j \in J THEN "deleted" ELSE PhaseOf(j)
    <3> SUFFICES ASSUME NEW j \in Jobs
                 PROVE  PhaseOf(j)' = IF j \in J THEN "deleted" ELSE PhaseOf(j)
      OBVIOUS
    <3>1. task' = task /\ row'[j] = IF j \in J THEN NoRow ELSE row[j]
      BY <1>9 DEF DropCommit
    <3>2. QED BY <2>2, <3>1, FramePhase DEF PhaseOf, Exists, NoRow
  <2>5. Phase' = [j \in Jobs |-> IF j \in J THEN "deleted" ELSE Phase[j]]
    BY <2>4, PhaseMap DEF Phase, PhaseOf
  <2>6. \A j \in J : Phase[j] = PhaseOf(j)
    BY <2>1, PhaseMap
  <2>7. Life!Drop(J)
    BY <1>9, <2>3, <2>5, <2>6 DEF Life!Drop, DropCommit
  <2>8. QED BY <2>1, <2>7 DEF Life!Next
<1>10. CASE UNCHANGED vars
  BY <1>10 DEF vars, Phase, Exists, IsInterrupted
<1>11. QED
  BY <1>1, <1>2, <1>3, <1>4, <1>5, <1>6, <1>7, <1>8, <1>9, <1>10
     DEF Next, StartScrape, ContinueScrape, Drop

\* However workers, crawls and requests interleave, a job id is accepted once,
\* runs once, is final once it ended other than by an interruption, is never used
\* again after its deletion, and is taken away while pending or running only if
\* it was accepted while its knowledge base was being deleted.
THEOREM Lifecycle == Spec => LifecycleSpec
<1>1. Init => Life!Init
  BY DEF Init, Life!Init, Phase, NoTask, NoRow, Exists
<1>2. QED
  BY <1>1, NextRefines, TypeCorrect, Invariance, PTL DEF Spec, LifecycleSpec, Life!Spec, Life!vars
=============================================================================
