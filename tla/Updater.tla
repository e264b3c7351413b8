------------------------------ MODULE Updater ------------------------------
(***************************************************************************)
(* The auto-updater: one asyncio process that compares the deployment's    *)
(* checkout with the tip of the remote branch and applies an update (pull, *)
(* build, up, health check) or rolls it back.                              *)
(*                                                                         *)
(* Its coroutines are the polling loop and the HTTP requests.  A git or    *)
(* docker command is a blocking subprocess: while one runs no other        *)
(* coroutine does, but the world moves on between two of them: commits are *)
(* pushed, scrape jobs come and go and the updater itself may be killed.   *)
(* Only an HTTP request or a sleep lets another coroutine in.              *)
(***************************************************************************)
EXTENDS Naturals

CONSTANTS
    Requests,        \* coroutines of HTTP requests
    Loop,            \* the polling loop
    MaxVersion,      \* bound: commits on the remote branch
    MaxScrapes,      \* bound: scrape jobs started
    MaxFaults,       \* bound: failing commands and requests, late health, crashes
    AutoUpdate,      \* AUTO_UPDATE_ENABLED
    BlockScrapes     \* AUTO_UPDATE_BLOCK_ACTIVE_SCRAPES

ASSUME LoopAssumption == Loop \notin Requests

ASSUME BoundsAssumption ==
    /\ MaxVersion \in Nat \ {0}
    /\ MaxScrapes \in Nat /\ MaxFaults \in Nat
    /\ AutoUpdate \in BOOLEAN /\ BlockScrapes \in BOOLEAN

VARIABLES
    remote,     \* tip of the remote branch
    healthy,    \* the versions whose backend passes its health check
    head,       \* HEAD of the checkout in PROJECT_DIR
    image,      \* version of the built images
    running,    \* version of the running containers, Unknown when they are down
    current, latest, available, busy, result,  \* _state
    co,         \* co[c]: where the coroutine is, and prev_commit
    scrape,     \* the scrape job the backend has, if any
    scrapes,    \* jobs started so far
    torn,       \* history: a rollback command failed, or an update was abandoned
    faults

vars == <<remote, healthy, head, image, running, current, latest, available, busy,
          result, co, scrape, scrapes, torn, faults>>

Coroutines == Requests \cup {Loop}
Versions   == 1..MaxVersion

\* What _state holds instead of a commit: "unknown" when git fails, which is a
\* value like any other, and "" before anything was fetched.
Unknown == 0
Empty   == MaxVersion + 1

\* A subprocess is running: the event loop stands still.
Blocking == {"counting", "pulling", "building", "upping", "remapping",
             "resetting", "rebuilding", "restarting"}

\* Inside apply_update.
Applying == Blocking \cup {"waiting"}

Coroutine == [pc : {"idle", "dead", "fetching", "graphing", "queued"} \cup Applying,
              prev : 0..MaxVersion]

Scrapes == {"none", "pending", "running", "orphan"}

Results == {"none", "success", "rolled_back", "skipped_active_scrape",
            "skipped_scrape_check_failed"}

TypeOK ==
    /\ remote \in Versions /\ healthy \in SUBSET Versions
    /\ head \in Versions /\ image \in Versions /\ running \in 0..MaxVersion
    /\ current \in 0..MaxVersion /\ latest \in 0..Empty
    /\ available \in BOOLEAN /\ busy \in BOOLEAN /\ result \in Results
    /\ co \in [Coroutines -> Coroutine]
    /\ scrape \in Scrapes /\ scrapes \in 0..MaxScrapes
    /\ torn \in BOOLEAN /\ faults \in 0..MaxFaults

Asleep == [pc |-> "idle", prev |-> Unknown]

Init ==
    /\ remote = 1 /\ head = 1 /\ image = 1 /\ running = 1
    /\ healthy \in {V \in SUBSET Versions : 1 \in V}
    /\ current = 1 /\ latest = Empty /\ available = FALSE /\ busy = FALSE
    /\ result = "none"
    /\ co = [c \in Coroutines |-> Asleep]
    /\ scrape = "none" /\ scrapes = 0
    /\ torn = FALSE /\ faults = 0

deployment == <<head, image, running>>
state      == <<current, latest, available, busy, result>>
world      == <<remote, healthy, scrape, scrapes>>

Fault == faults < MaxFaults /\ faults' = faults + 1

\* The event loop can give this coroutine a turn.
Turn(c) == \A d \in Coroutines \ {c} : co[d].pc \notin Blocking

At(c, pc)   == co[c].pc = pc /\ Turn(c)
Goto(c, pc) == co' = [co EXCEPT ![c].pc = pc]
Sleep(c)    == co' = [co EXCEPT ![c] = Asleep]

\* git rev-parse, or "unknown" when it fails.
RevParse(commit) ==
    \/ commit = head /\ UNCHANGED faults
    \/ commit = Unknown /\ Fault

\* docker compose up leaves version v running.  A container whose image changed
\* is recreated: its scrape job loses its coroutine, and the start of the new
\* backend heals a row in "running" but not one in "pending".
Runs(v) ==
    /\ running' = v
    /\ scrape' = CASE v = running                         -> scrape
                   [] v # running /\ scrape = "pending"   -> "orphan"
                   [] v \in healthy /\ scrape = "running" -> "none"
                   [] OTHER                               -> scrape

-----------------------------------------------------------------------------
(* check_for_updates.                                                      *)

\* The request, or the loop that wakes up.
Check(c) ==
    /\ At(c, "idle")
    /\ \E commit \in {head, Unknown} : RevParse(commit) /\ current' = commit
    /\ Goto(c, "fetching")
    /\ UNCHANGED <<world, deployment, latest, available, busy, result, torn>>

\* The tip of the branch; a request that fails stands for "nothing new", and an
\* answer without a commit for no commit.
Fetched(c) ==
    /\ At(c, "fetching")
    /\ \/ latest' = remote /\ UNCHANGED faults
       \/ latest' \in {current, Empty} /\ Fault
    /\ Goto(c, "graphing")
    /\ UNCHANGED <<world, deployment, current, available, busy, result, torn>>

\* What is compared may have been written by another coroutine since: a tip that
\* stands as unknown differs from a current commit read after it.
Differs == latest # Empty /\ current # Unknown /\ latest # current

\* apply_update up to its first command.
Begin(c, auto) ==
    /\ busy' = TRUE
    /\ co' = [co EXCEPT ![c] = [pc |-> IF auto /\ BlockScrapes THEN "counting" ELSE "pulling",
                                prev |-> current]]

\* Mutant: only a version that was not known before is applied.
CheckedOnChange(c) ==
    /\ At(c, "graphing")
    /\ available' = Differs
    /\ IF c = Loop /\ AutoUpdate /\ Differs /\ ~available /\ ~busy
       THEN Begin(c, TRUE)
       ELSE Sleep(c) /\ UNCHANGED busy
    /\ UNCHANGED <<world, deployment, current, latest, result, torn, faults>>

\* The loop goes on to apply what it has found without letting anybody in.
Checked(c) ==
    /\ At(c, "graphing")
    /\ available' = Differs
    /\ IF c = Loop /\ AutoUpdate /\ Differs /\ ~busy
       THEN Begin(c, TRUE)
       ELSE Sleep(c) /\ UNCHANGED busy
    /\ UNCHANGED <<world, deployment, current, latest, result, torn, faults>>

-----------------------------------------------------------------------------
(* apply_update.                                                           *)

\* POST /apply creates a task.
RequestApply(c) ==
    /\ At(c, "idle")
    /\ c # Loop
    /\ available /\ ~busy
    /\ Goto(c, "queued")
    /\ UNCHANGED <<world, deployment, state, torn, faults>>

\* Mutant: the task trusts the check of POST /apply.
StartApplyUnchecked(c) ==
    /\ At(c, "queued")
    /\ Begin(c, FALSE)
    /\ UNCHANGED <<world, deployment, current, latest, available, result, torn, faults>>

\* The task runs; another update may have begun since it was created.
StartApply(c) ==
    /\ At(c, "queued")
    /\ IF busy THEN Sleep(c) /\ UNCHANGED busy ELSE Begin(c, FALSE)
    /\ UNCHANGED <<world, deployment, current, latest, available, result, torn, faults>>

\* The command in the backend container fails, surely if the backend is not up.
CannotCount == Fault \/ (running \notin healthy /\ UNCHANGED faults)

\* An automatic update does not disturb a scrape job; the jobs are counted by a
\* command in the backend container.
Skip(c) ==
    /\ At(c, "counting")
    /\ \/ result' = "skipped_active_scrape" /\ scrape # "none" /\ UNCHANGED faults
       \/ result' = "skipped_scrape_check_failed" /\ CannotCount
    /\ busy' = FALSE
    /\ Sleep(c)
    /\ UNCHANGED <<world, deployment, current, latest, available, torn>>

Counted(c) ==
    /\ At(c, "counting")
    /\ scrape = "none" /\ running # Unknown
    /\ Goto(c, "pulling")
    /\ UNCHANGED <<world, deployment, state, torn, faults>>

Pull(c) ==
    /\ At(c, "pulling")
    /\ \/ head' = remote /\ Goto(c, "building") /\ UNCHANGED faults
       \/ UNCHANGED head /\ Goto(c, "resetting") /\ Fault
    /\ UNCHANGED <<world, image, running, state, torn>>

\* A build that fails may have built some of the images.
Build(c) ==
    /\ At(c, "building")
    /\ \/ image' = head /\ Goto(c, "upping") /\ UNCHANGED faults
       \/ image' \in {image, head} /\ Goto(c, "resetting") /\ Fault
    /\ UNCHANGED <<world, head, running, state, torn>>

\* A conflict over a host port is tried once more with another port.
Up(c) ==
    /\ At(c, "upping")
    /\ \/ Runs(image) /\ Goto(c, "waiting") /\ UNCHANGED faults
       \/ /\ \E v \in {running, image, Unknown} : Runs(v)
          /\ \E pc \in {"resetting", "remapping"} : Goto(c, pc)
          /\ Fault
    /\ UNCHANGED <<remote, healthy, scrapes, head, image, state, torn>>

\* _ensure_ports_available and the second attempt.
Remap(c) ==
    /\ At(c, "remapping")
    /\ \/ Runs(image) /\ Goto(c, "waiting") /\ UNCHANGED faults
       \/ \E v \in {running, image, Unknown} : Runs(v) /\ Goto(c, "resetting") /\ Fault
    /\ UNCHANGED <<remote, healthy, scrapes, head, image, state, torn>>

\* The override file cannot be written.  Only a RuntimeError is rolled back, and
\* nothing catches this one in the loop.
Escape(c) ==
    /\ At(c, "remapping")
    /\ Fault
    /\ busy' = FALSE
    /\ torn' = TRUE
    /\ co' = [co EXCEPT ![c] = [Asleep EXCEPT !.pc = IF c = Loop THEN "dead" ELSE "idle"]]
    /\ UNCHANGED <<world, deployment, current, latest, available, result>>

Healthy(c) ==
    /\ At(c, "waiting")
    /\ running \in healthy
    /\ \E commit \in {head, Unknown} : RevParse(commit) /\ current' = commit
    /\ available' = FALSE
    /\ result' = "success"
    /\ busy' = FALSE
    /\ Sleep(c)
    /\ UNCHANGED <<world, deployment, latest, torn>>

Unhealthy(c) ==
    /\ At(c, "waiting")
    /\ \/ running \notin healthy /\ UNCHANGED faults
       \/ running \in healthy /\ Fault
    /\ Goto(c, "resetting")
    /\ UNCHANGED <<world, deployment, state, torn>>

-----------------------------------------------------------------------------
(* The rollback: nothing looks at the exit status of its commands.         *)

\* Mutant: git reset is believed to succeed whatever prev_commit is.
ResetAnywhere(c) ==
    /\ At(c, "resetting")
    /\ head' = co[c].prev
    /\ Goto(c, "rebuilding")
    /\ UNCHANGED <<world, image, running, state, torn, faults>>

Reset(c) ==
    /\ At(c, "resetting")
    /\ IF co[c].prev = Unknown
       THEN torn' = TRUE /\ UNCHANGED <<head, faults>>
       ELSE \/ head' = co[c].prev /\ UNCHANGED <<torn, faults>>
            \/ torn' = TRUE /\ UNCHANGED head /\ Fault
    /\ Goto(c, "rebuilding")
    /\ UNCHANGED <<world, image, running, state>>

\* Mutant: the old images are thought to be still there.
RebuildForgotten(c) ==
    /\ At(c, "rebuilding")
    /\ Goto(c, "restarting")
    /\ UNCHANGED <<world, head, image, running, state, torn, faults>>

Rebuild(c) ==
    /\ At(c, "rebuilding")
    /\ \/ image' = head /\ UNCHANGED <<torn, faults>>
       \/ torn' = TRUE /\ UNCHANGED image /\ Fault
    /\ Goto(c, "restarting")
    /\ UNCHANGED <<world, head, running, state>>

Restart(c) ==
    /\ At(c, "restarting")
    /\ \/ Runs(image) /\ UNCHANGED <<torn, faults>>
       \/ torn' = TRUE /\ Fault /\ \E v \in {running, Unknown} : Runs(v)
    /\ current' = co[c].prev
    /\ result' = "rolled_back"
    /\ busy' = FALSE
    /\ Sleep(c)
    /\ UNCHANGED <<remote, healthy, scrapes, head, image, latest, available>>

-----------------------------------------------------------------------------
(* The world around.                                                       *)

\* The updater's container is killed and started again.
Killed ==
    /\ Fault
    /\ co' = [c \in Coroutines |-> Asleep]
    /\ current' = head /\ latest' = Empty
    /\ available' = FALSE /\ busy' = FALSE /\ result' = "none"
    /\ torn' = (torn \/ busy)
    /\ UNCHANGED <<world, deployment>>

\* POST /ai-config recreates the backend from its image, whatever is going on.
Recreate(c) ==
    /\ At(c, "idle")
    /\ c # Loop
    /\ \/ running' = image /\ UNCHANGED <<torn, faults>>
       \/ running' \in {running, Unknown} /\ torn' = TRUE /\ Fault
    /\ scrape' = CASE scrape = "pending"                            -> "orphan"
                   [] scrape = "running" /\ running' \in healthy -> "none"
                   [] OTHER                                         -> scrape
    /\ UNCHANGED <<remote, healthy, scrapes, head, image, state, co>>

Push ==
    /\ remote < MaxVersion
    /\ remote' = remote + 1
    /\ UNCHANGED <<healthy, deployment, state, co, scrape, scrapes, torn, faults>>

\* The backend accepts a scrape job, runs it and finishes it.
StartScrape ==
    /\ scrape = "none" /\ running \in healthy /\ scrapes < MaxScrapes
    /\ scrape' = "pending" /\ scrapes' = scrapes + 1
    /\ UNCHANGED <<remote, healthy, deployment, state, co, torn, faults>>

Scraping ==
    /\ running \in healthy
    /\ \/ scrape = "pending" /\ scrape' = "running"
       \/ scrape = "running" /\ scrape' = "none"
    /\ UNCHANGED <<remote, healthy, deployment, state, co, scrapes, torn, faults>>

Apply(c) ==
    \/ StartApply(c) \/ Skip(c) \/ Counted(c) \/ Pull(c) \/ Build(c) \/ Up(c) \/ Remap(c)
    \/ Escape(c) \/ Healthy(c) \/ Unhealthy(c) \/ Reset(c) \/ Rebuild(c) \/ Restart(c)

Step(c) == Fetched(c) \/ Checked(c) \/ Apply(c)

Next ==
    \/ \E c \in Coroutines : Check(c) \/ RequestApply(c) \/ Recreate(c) \/ Step(c)
    \/ Killed \/ Push \/ StartScrape \/ Scraping

Spec == Init /\ [][Next]_vars

\* The loop wakes up every CHECK_INTERVAL, the event loop resumes a coroutine
\* whose request or command is over, and a scrape job comes to its end.
Fairness ==
    /\ WF_vars(Check(Loop))
    /\ \A c \in Coroutines : WF_vars(Step(c))
    /\ WF_vars(Scraping)

FairSpec == Spec /\ Fairness

-----------------------------------------------------------------------------
(* Properties.                                                             *)

\* At most one coroutine is inside apply_update, and update_in_progress says so:
\* two requests and the loop may all have seen an update and no update under way.
SingleFlight ==
    /\ \A c, d \in Coroutines : co[c].pc \in Applying /\ co[d].pc \in Applying => c = d
    /\ busy <=> \E c \in Coroutines : co[c].pc \in Applying

\* Between updates checkout, images and containers are of one version, the one
\* the status shows, unless a rollback command failed or an update was abandoned:
\* an update is applied as a whole or not at all.
Whole ==
    ~busy /\ ~torn => head = image /\ image = running /\ current \in {head, Unknown}

\* How far the update has come, command by command: the strengthening that makes
\* Whole inductive.
Staged ==
    \A c \in Coroutines : ~torn =>
        /\ co[c].pc \in {"counting", "pulling"} =>
               head = image /\ image = running /\ current \in {head, Unknown}
        /\ co[c].pc \in {"upping", "remapping"} => image = head
        /\ co[c].pc = "waiting" => image = head /\ running = image
        /\ co[c].pc \in {"rebuilding", "restarting"} => head = co[c].prev
        /\ co[c].pc = "restarting" => image = head

IInv == TypeOK /\ SingleFlight /\ Whole /\ Staged

\* An unattended deployment ends up at the tip of the branch if the tip is sound,
\* unless the above went wrong, the loop is dead or a scrape job that nothing
\* will ever run keeps the jobs counted as active.
Deployed ==
    AutoUpdate => <>[]( \/ running = remote \/ remote \notin healthy
                        \/ torn \/ scrape = "orphan" \/ co[Loop].pc = "dead")

-----------------------------------------------------------------------------
(* A claim of the documentation that the code does not keep.               *)

\* updater.py:8, "Falls back to the previous commit automatically if the backend
\* health check fails": after "rolled_back" the containers run the commit shown.
RolledBackIsRestored == result = "rolled_back" /\ ~busy => running = current
=============================================================================
