# Verification of the Jamf AI dashboard

TLA+ models of the dashboard's backend and updater, the TLC runs that check them
on small instances, and TLAPS proofs of what holds on all of them.

```
tlc -config ScrapeJobs_jobs.cfg MCScrapeJobs.tla       # one run
tlapm ScrapeJobs_proofs.tla                            # one module of proofs
```

## 1. The system

A FastAPI backend (`backend/app`), started by `entrypoint.sh` as **two uvicorn
worker processes** over one PostgreSQL, one Redis and one ChromaDB; a Next.js
frontend; an updater container (`updater/updater.py`) that redeploys the whole.
Inside a worker everything is a coroutine of one event loop, so what interleaves
is: coroutines at their awaits, the two workers at any time, the updater, the
Jamf Pro servers, and the processes that die and are started again.

| component | state | operations | where it is hard |
|---|---|---|---|
| scrape job lifecycle (`scraper.py`, `routers/knowledge.py`, `main.py`) | rows of `scrape_jobs`, a coroutine per job in the worker that accepted it | start, continue, pause, resume, cancel, delete, the coroutine, its crash handler, healing at start-up | a worker's start acts on all rows, its death only on its own coroutines; controls are columns read once per batch; the last write is blind |
| Jamf synchronisation (`services/jamf/sync.py`, `routers/servers.py`) | four tables, `jamf_servers`, two Redis keys per server, one open transaction per sync | scheduled and manual sync, fallback endpoints, upsert, purge, commit, error path, deletion of the server | syncs overlap; offset paging over a list that changes; a purge by a listing read long before; row locks in two orders; three non-atomic final writes |
| auto-updater (`updater/updater.py`) | `_state`, the checkout, images and containers | poll, check, apply, roll back, recreate the backend | each command can fail with the previous ones done; requests and loop share `_state`; the updater is itself killed |
| assistant, approval flow (`routers/ai.py`) | a table of pending plans **per process**, chat sessions | preview, approve, cancel, execute; plain and streaming | two workers, two tables; a yield between peek and pop; streams that break off while a POST is on its way; no retry may execute twice |
| knowledge store (`vector_store.py`, `scraper.py`, `routers/knowledge.py`) | rows of `knowledge_documents` and chunks in ChromaDB, no common transaction | visit (look up the hash, judge the relevance, delete the old chunks, embed, add, record the row), delete a source, clean up duplicates | swallowed errors, a hash that is stale when used, two crawls on one page, a row committed as deleted before its chunks are |
| knowledge bases (`routers/knowledge.py`) | rows of `knowledge_bases`, one of them the default | create, delete, choose the default, heal the default when a job starts | check-then-act in two workers; a job that starts into a base being deleted, or begins when it is gone and takes the collection of another |
| crawl queue (`scraper.py`) | the URLs visited and queued by one job, in its coroutine | seed from the sitemap or the start URL, take a batch, store, follow links | a page lost to the order of the walk, to the cap or to a failure; what a continuation does not see |
| sessions (`services/auth.py`, `routers/auth.py`) and API client (`frontend/src/lib/api.ts`, the auth store and the pages that use it) | one refresh token per user in Redis, one in the cookie of the browser, an access token per tab; the client's queue of requests that wait for a refresh | login, refresh, logout, change password, sign-on by Microsoft, restore a session, redirect | storing and setting the cookie are different moments; several tabs, one cookie; retries, log-outs and effects that start one another |
| users and roles (`routers/users.py`) | users, roles, permissions and the copy `is_admin` | create, edit, delete | stale copies, the last administrator |
| migrator, package sync (`routers/migrator.py`, `routers/package_sync.py`) | objects on two or more Jamf servers, nothing here | preflight, copy with dependencies and categories, copy records and files | a create that succeeds and whose answer is lost, two requests at once, names read once, nothing is undone |
| the rest: read-only API, LLM client, dashboard log, pages, migrations, scripts | none of their own, or one insert | | |

How they meet: the updater counts the active jobs before it updates and its
restarts kill every coroutine; knowledge-base deletion and job deletion trust the
job's status; the crawl writes the knowledge store, the assistant reads it; a
page of the frontend reaches any of them only through the API client; the assistant and the migrator read servers that the sync's administrators edit.

What makes each correct is stated by the properties of section 3. `PROJECT.json` lists
every component, what of it is modelled, and the hazards with their lines.

## 2. The modules

| module | what it is |
|---|---|
| `JobLifecycle` | abstract: the life of one scrape job id |
| `ScrapeJobs` | rows, coroutines, requests and workers; implements `JobLifecycle` |
| `JamfSync` | one server's sync, as many at a time as one likes |
| `Updater` | polling loop, requests, deployment |
| `PlanLifecycle` | abstract: the life of the plans of a conversation |
| `PendingActions` | the assistant's plans; implements `PlanLifecycle` |
| `Crawl` | which pages one job visits; proved about, without a run |
| `KnowledgeStore` | rows, chunks and bases, under crawls and administrators |
| `ObjectCopy` | the migrator and the package synchronisation |
| `AuthSessions` | the tokens of one user, in Redis, a cookie and several tabs |
| `MC...` | constants for TLC |
| `..._proofs` | the theorems and their proofs |

One step of a model is the code between two awaits at which shared state is read or
written (in `JamfSync`, one SQL statement or HTTP request; in `Updater`, one
subprocess; in `ObjectCopy`, one call to a Jamf server; in `Crawl`, one link or page of
its walk). A definition whose comment begins with *Mutant* is the action after it
with a plausible bug; nothing in a specification uses it.

### ScrapeJobs

`row[j]` is the row of `scrape_jobs` (status, the cause in `error`, and
`pause_requested`/`cancel_requested` as the set `asked`); `task[j]` is the coroutine
`_run_job_safe` around `run_scrape_job`: where it is, the worker it is on, what its
loop has left; `request[c]` is a PATCH handler between its read and its commit, with
the values it read, since SQLAlchemy writes only the columns that changed;
`worker[w]` says whether the process is up. `WorkerStart` contains the healing of
`main.py`, which marks *every* running row as failed; `WorkerCrash` removes the
coroutines and handlers of one worker. `Seed` and `FinishBatch` choose how much work
is left, `SizeLimit` and `LeaveLoop` leave the loop. `late` is a history variable.

A client may also delete a knowledge base: `DropCheck` answers 409 when a job of the base
is active (knowledge.py:470-486), `DropList` reads all rows of its jobs once more, and
`DropCommit` deletes what was read, whatever its status is by then (:508-527). The 409
therefore does not keep what its text says for a job accepted in between: that job loses
its row while it is pending, and its coroutine returns at `Begin`, or while it is
running, and the coroutine goes on without a row. `exposed` remembers the jobs accepted
while their base was being deleted, `gone` the bases deleted. `JobLifecycle` has this as
a step of its own, `Drop`: an active row goes only with its base, and only if the job is
exposed.

Left out: the pages fetched, the queue, progress counters and the CPU cap; the
per-page error texts (only whether there were any).

### JamfSync

A row is its Jamf id. `sync[s]` is a run of `sync_server`: the table it is at, which
of the endpoints for this kind it is trying (`Strategies` gives them in order and
says whether pages are upserted as they arrive or collected), the page, what it
listed and what is still to be upserted. `put[s]` and `del[s]` are the open
transaction at READ COMMITTED; `Contended` are the rows others have written, on which
a statement waits; `Deadlocked` is PostgreSQL's victim. `upstream` changes at any
time. `steady` is a history variable: tables listed with no change or loss since.
A listing ends in `Refused` (no answer, or one that is not JSON, from any listing; another
status where it is not tolerated), in `Skipped` (another status for smart groups and
Classic patch titles) or in `Truncated` (for a later page of patch titles).
`Publish`, `Settle`, `RecordError`, `PersistError` and `SettleError` are the writes
after the transaction, in the code's order.

Abstracted: columns other than the id; a statement is atomic and takes its locks at
once; deletion of the server with its cascade is one step that waits for open
writers.

### Updater

`remote`, `head`, `image` and `running` are versions (numbers along the branch, since
the updater only ever pulls its tip) of the remote, the checkout, the built images
and the containers; `current`, `latest`, `available`, `busy`, `result` are the fields
of `_state`; `Unknown` is the "unknown" that a failed `git rev-parse` leaves, which compares
like a commit, `Empty` the "" that does not. `co[c]` is a coroutine: a request or the polling loop. A command blocks
the event loop (`Blocking`, `Turn`), so other coroutines run only at HTTP requests
and sleeps, while `Push`, scrape jobs and `Killed` happen at any time. Every command
has its failure branch, bounded by `MaxFaults`.

Left out: the updater's log of commits, compose-file settings, the page and
`docker logs`; a version history that forks.

### PendingActions

`chat[r]` is a message being handled by `/chat` (`stream = FALSE`) or `/chat/stream`:
its intent, worker, session, permission and, while it is carried out, its plan.
`pending[w][s]` is `_PENDING_ACTIONS` of worker `w` under the user's session `s`.
Plans are numbered as they are built. The places are the awaits of the handler;
"announced" is the yield between `_peek_pending_action` and `_pop_pending_action`,
which only the stream has. `Attempt` says what an interrupted POST may have done:
nothing, or everything. `Crash` empties one table, `Disconnect` cancels a stream
where it stands, `DeleteSession` leaves the table alone, as the code does.

Left out: the text and history of the conversation, retrieval, what a plan contains,
other users (keys contain the user, so they share nothing). Users, roles and servers
are not variables: each time the handler reads one it gets any answer.

`PlanLifecycle` knows only the phase of each plan and the session it was previewed in: a
plan waits, is approved and then posted or dropped, or is withdrawn, alone or by the next
preview of its session; a restart ends several at once. `PhaseOf` reads the phase off the
tables, the handlers and the history.

### Crawl

The walk of one job over one domain. The site is a constant (`Answer`, `Links`,
`Sitemap`), since a job fetches a URL at most once; so is `Known`, what a continued job
finds in the database and puts among the visited. `Offer` is `_enqueue`; `Pop` and
`Filled` take a batch; `Store`, `PassOver`, `Skip`, `FetchFails` and `Break` are the ways
a page of a batch ends, the last with the rest of the batch unread; `Finish`, `Cancel`
and `ControlFails` are the head of the loop. `fetched`, `dropped` and `limited` are
history. The set `queued` of the code has the members of the queue and is not a variable;
a size limit may stop the walk before any batch.

`ScrapeJobs` has the job around this walk and `KnowledgeStore` what storing a page does
among other writers; `Crawl` is alone with its site, which is all its coroutine's local
variables can see. Left out: rendering, robots, progress counters, throttling.

### KnowledgeStore

`bases` and `default` are the rows of `knowledge_bases`; `row` is the set of rows of
`knowledge_documents`, with neither a key nor a foreign key, as in the schema;
`chunks[b][p]` is what the collection of base `b` holds of page `p`. A row says of which
base it is (`base`) and whose collection has its chunks (`into`). The two differ when the
base was gone as the job began: `run_scrape_job` keeps the base for its rows and
`jamf_knowledge` for its chunks (scraper.py:415-447), which is the collection of the base
`Legacy`; `Collection` says which, and such rows are `Stray`. `crawl[c]` is a
running job and its visit: what it looked up, the text it has in hand, the old chunks and
the row it found, each read at one await and used at a later one. `admin[h]` is a request
of an administrator. A visit is `Look` (fetch and hash look-up), `OffTopic` (relevance),
`FindOld`, `EraseOld` or `EraseFails` (whose error the code swallows), `Ingest`
or `IngestFails`, `FindRow`, `Record`; `CutOff` is a crawl that ends
inside a visit. `DeleteSource` commits the row's deletion before `ScrubFind` and `Scrub`
look for the chunks; `FindDuplicates` and `Purge` are the clean-up; `CreateBase`,
`InsertBase`, `DeleteBase`, `DropBase` the two changes of the set of bases, each a read
and a write; `Heal` is `_ensure_default_knowledge_base`.

Five history variables say what happened: `spoiled` (a call on this page failed, two
writers met there, the deletion of the base erased it while a row it had not read stays,
or a job or a row of a base that is gone used the collection), `alone`, `tangled` (two changes of the set of bases overlapped),
`raced` (the start of a job met the deletion of its base), `ingested`. Two writers on one
page do lose chunks or duplicate rows in this code; the properties say that nothing else
does, and that the next undisturbed visit that ingests the page repairs it.

Left out: titles, sizes, the number of chunks, embedding settings, the queue of a crawl
(a visit may be of any page with any text).

### ObjectCopy

`server[t][o]` is object `o` on target `t`: whether it is there, the id the target gave
it, the ids its references point to, whether it carries the category and has its file.
`copy[r]` is a request: what was ordered, the target and object it is at, the names it
listed on the target (`existing`), the ids it mapped, the id that the answer to a create
gave (`made`), and what it has noted for its response (`told`). The response is the first
anybody hears of that: `Report` makes it `warned` when the last object of the last target
is done, and `Abort` makes it `unsaid`, for then there is no response.
`Preflight`/`Migrate`/`Send` begin a request; `Open` lists the names of a target once;
`Fetch` reads the next object from the source or skips it; `ListDeps`, `CopyDep`,
`MapDeps`, `ListCategories`, `AddCategory`, `Create`, `RetryWithoutCategory`, `Refused`,
`Transfer` are the calls for it. `Fails`, `Unanswered` (the call was carried out, the
answer is lost), `RetryScript` and `Abort` are its failures; `Remove` is an administrator
of the target. `Refused` is a name that is taken, a package whose category the target has
not (its payload keeps the category and there is no second attempt without it,
package_sync.py:95-98), or a policy with references the target cannot resolve; such a
policy may also be taken (`Create`), since what Jamf does with it is outside this code.

The two routers have one loop written twice, so they are one module with four kinds of
objects. Policies are never recognised by `skip_existing`, since a policy's name is under
`general` in the listing (migrator.py:859): `Recognised` says so, and a second run reports
them as refused.

Left out: payloads except references and the category; which of JSON and XML the target
takes; objects a target refuses for what else is in them.

### AuthSessions

`stored` is the refresh token in Redis, `cookie` that of the browser; a token that was
replaced is never stored again, so both are "current", "old" or absent. `tab[t]` is the
page, the auth store and the interceptor's `isRefreshing`; `req[t][r]` is a request with
its place, on the server or in the interceptor's queue. `Serve`, `Validate`, `Rotate`,
`LogIn`, `EndSession` are the server's handlers, cut where they touch Redis; `Arrive`,
`Refused`, `Cleared`, `Unauthorized` and `RefreshFailed` are what the tab does with an
answer, `Restore`, `ReadProfile` and `Redirect` its effects. `loading` is `isLoading`, which
`fetchMe` and the log-in set and whoever of them ends first resets; reading the profile
after the cookie ("initme") does not set it, so that `ReadProfile` may run beside it. A reload (`Leave`, `Open`)
takes the page from under its requests; those that matter on the server go on there with
`gone`. `Expire`, `Lose`, `Elsewhere` (another device) and `Administer` are the
environment, as many times as `MaxEvents` allows together with the user's actions.

A wrong password at the log-in is a 401 like any other (the change of a password answers
400, which nothing retries), so the interceptor answers it with a refresh,
whose refusal loads the log-in page anew (api.ts:46); the model has that path, and it
comes to rest.

Left out: registration and the creation of an account at its first sign-on (one insert
each); passwords, signatures and encodings are choices of the environment.

## 3. What the runs check

| run | instance | shows |
|---|---|---|
| `scrape_jobs` | 2 workers; 1 job with 2 requests (PATCH, or the deletion of its base), 2 batches, 1 crash, 1 refused crash report; or 2 jobs | `TypeOK`; a row in *running* has a coroutine, or the start of its dead worker is to come (`RunningIsOwned`); after a stop is committed at most one more batch begins (`StopWithinOneBatch`); a crawl at work is visible in its row (`CrawlIsVisible`); `ScrapeJobs` implements `JobLifecycle` (`LifecycleSpec`); a cancelled job leaves *running* (`CancelEndsJob`); a running job ends or is paused (`RunEnds`) |
| `scrape_jobs_interrupted` | 1 job, 1 crash allowed | **violated**: the start of one worker declares the other's live job dead (`InterruptedJobIsDead`) |
| `jamf_sync_overlap` | 2 overlapping syncs of devices, 2 ids, pages of 1, 1 change | at commit, a table listed completely and steady since is what the transaction sees (`MirrorsUpstream`); a sync that is over holds nothing (`OverMeansReleased`); every sync ends although they wait for each other's rows (`SyncEnds`); with a scheduler the tables converge to a quiet server (`Converges`); `TypeOK` |
| `jamf_sync_serial` | 1 sync of groups, policies and patch titles, 1 change, 1 fault | *idle* means the last sync succeeded (`IdleMeansSuccess`), `MirrorsUpstream`, and the status key leaves *running* even when the sync dies (`StatusSettles`) |
| `jamf_sync_truncated` | 1 sync of patch titles, 1 fault, nothing changing | **violated**: a refused later page is the end of the list, and what was not read is purged (`PurgedOnlyIfGone`) |
| `updater_update` | loop and 2 requests, 2 versions, 1 scrape job, 2 faults | one update at a time and `update_in_progress` tells (`SingleFlight`); between updates checkout, images and containers agree (`Whole`); an unattended deployment reaches a sound tip (`Deployed`); `TypeOK` |
| `updater_rollback` | 1 request, 1 fault | **violated**: *rolled_back* is reported when the rollback itself failed (`RolledBackIsRestored`) |
| `pending_actions_approval` | 2 workers, 2 messages at a time, 2 sessions, 2 plans, crashes and disconnects without bound | a plan is carried out at most once (`PostedOnce`), never once withdrawn (`WithdrawnIsFinal`), and only on an approval in its own session by somebody permitted (`ApprovedInSession`); no failure, retry or restart brings a plan back: the flow implements `PlanLifecycle` (`LifecycleSpec`); `TypeOK` |
| `pending_actions_preview` | the same, one message at a time | **violated**: what is approved need not be the last preview (`PreviewedIsExecuted`) |
| `knowledge_store` | 2 bases, 1 page with 2 texts, 2 crawls, 2 requests, 3 visits with 3 calls or 2 with 4, 1 failure | rows and chunks agree on a page where nothing failed and no two writers met, a job of a base that is gone and the deletion of its rows being writers in `jamf_knowledge` too (`StoresAgree`); a row claims only what ChromaDB has acknowledged, whatever happens (`RowsWereIngested`); one default base while changes of the set do not overlap (`BasesSound`); a deleted base stays empty and uncrawled unless its deletion met the start of a job (`DeletedIsGone`); `TypeOK` |
| `object_copy` | 2 policies, a script, a group and a package; 2 targets, one refusing categories; 6 orders, 2 requests, 1 mishap, 2 among packages | a request that was alone and met no mishap has put every object on every target, after any half-done predecessor, except what is not portable (a package whose category the target lacks, a policy that keeps references of the source), which it reported as failed (`CleanRunCompletes`); a policy copied with its dependencies refers only to ids the target gave to the objects of those names (`RefsSound`); a package record that misses the file it was to have was reported by a response, is noted by a request under way, or belongs to a request that ended without a response (`NoSilentGap`); `TypeOK` |
| `auth_sessions` | 2 tabs with 2 requests each, 2 events | a tab refreshes once at a time, and nobody waits for a refresh that is not on its way (`OneRefresh`); a session that nobody ended, and no refresh of which was cut off or overlapped, is kept (`SessionKept`); retries, log-outs and effects end in a signed-in tab or at the log-in page (`ComesToRest`); `TypeOK` |

The four violations are findings; `PROJECT.json` quotes the lines of the
documentation or the code they contradict. `PurgedOnlyIfGone` fails in two more ways
that the run does not need: an object that slips between two pages while the list
changes, and a purge of one sync by a listing older than the upsert of another.

Two more things the models reach and no run reports, for want of a line that promises
otherwise: a job that is still pending when its worker dies stays pending for ever
(knowledge.py:753 starts it, main.py:69 heals only running ones), and a crawl that
continues one whose start URL was visited, on a domain without a sitemap, fetches nothing
and completes (scraper.py:493-542; `Crawl_proofs!ContinuationIsEmpty`).

`Crawl` has no run: a run would take one site, and its theorems hold for all.

### Bounds

Two workers are what `entrypoint.sh` starts. Two of anything that interleaves (jobs,
handlers, syncs, requests, messages) is what a race needs; the theorems of section 4
hold for any number. `MaxBatches = 2` gives a batch begun before and one begun after
a stop; a crash with the start of the other worker is what healing meets; `MaxId = 2`
with `PageSize = 1` has a first page, a later page and an object that moves between
them; `MaxVersion = 2` has a deployed and a new version; two plans are a plan and the one that replaces it; one
fault, two in the updater (the update fails, then its rollback), since the properties
speak of what one mishap leaves behind. In `KnowledgeStore` three visits are two that
meet and one that repairs, four calls are two jobs, the deletion of a base and that of
a source in between: the least in which that deletion erases the chunks of a row it has
not read; `FewVisitsOrCalls` asks for one of the two bounds to be short by one, for the time a run
may take. The first base has the collection `jamf_knowledge`, so that the second, deleted,
leaves jobs that write into it. In `ObjectCopy` two requests are both two at once and one after another; its
orders are policies with their dependencies to a target that takes categories and to one
that does not, a policy without its dependencies, and each other kind by itself, a package
to two targets. `SecondAmongPackages` allows a second mishap only among requests for
packages, where a file fails and then a later target gives no token. In `AuthSessions` the pages, effects and answers are
without bound; two events are, for instance, an expiry and a reload during the refresh
it causes. `OneThingAtATime` in `MCScrapeJobs` bounds the second job, and what
else happens once a base is being deleted as a worker dies, or is gone: it only keeps out
steps without fairness, the larger of the sizes `Seed` chooses from, and a refused crash
report, so it hides no step that a liveness property owes.
`OneArrival` in `MCPendingActions` keeps a second message from arriving before the first
has had its turn: until then a message changes no plan, and two turns are taken one after
the other anyway. From there on the two interleave freely.

Deadlock is checked in the runs of `JamfSync`, `Updater` and `PendingActions`. In those
of `ScrapeJobs` job ids are finite and all jobs may be over; in `KnowledgeStore`,
`ObjectCopy` and `AuthSessions` the bounded calls, requests and events may be used up.

Symmetry is used in the runs of `PendingActions`, `KnowledgeStore` and `ObjectCopy`:
none of them has a liveness property and no definition chooses between members of the
permuted sets.

### Fairness

* `ScrapeJobs`: the event loop of a live worker resumes its coroutines and handlers,
  and uvicorn's supervisor starts a dead worker again: weak fairness on `Step`,
  on `ControlCommit` or `Drop`, and on `WorkerStart`. No request has to be sent.
* `JamfSync`: timeouts of the HTTP client bound every await, Redis expires its keys:
  weak fairness on `Progress` and `ExpireStatus`. PostgreSQL grants a row lock to its
  waiters in turn: strong fairness on a sync's writes, which are enabled and disabled
  as other syncs take the row. That a sync is started again (`Scheduled`) is assumed
  by `Converges` only: the interval job does so for active servers.
* `Updater`: the loop wakes up every `CHECK_INTERVAL`, coroutines are resumed,
  scrape jobs come to an end.
* `AuthSessions`: the server answers or the connection fails, and a browser runs its
  effects and loads its pages: weak fairness on `Answer` and `Page`. Users, clocks,
  networks and administrators owe nothing.
* `PendingActions`, `KnowledgeStore` and `ObjectCopy` have no liveness property: nobody
  has to send a request, and the loops of a crawl and a copy run over finite lists.

## 4. What is proved

For every value of the constants under the named assumptions of each module (bounds
are naturals, `New`, `NoWorker` and `Loop` are not members of the sets they stand
outside of, there is a worker; for `Crawl` the types of a site and a job, `SiteAssumption`,
which its theorems state as their hypothesis).

| theorem | statement | argument |
|---|---|---|
| `ScrapeJobs_proofs!TypeCorrect`, `Invariance`, `RunningOwned`, `StopBounded`, `CrawlVisible` | `Spec => []` each | `Inv` adds to the three properties that a coroutine is alive only on a live worker, that a row is pending only before its crawl and a queued task has a pending row or one that went with its base (`OwnershipInv`), that a late batch exists only under a standing stop request which "batch" has not seen (`LateInv`; without it a second late batch could begin from "batch"), and that while a base is being deleted its active jobs are those accepted since the check (`DropInv`, `DoomedInv`) |
| `ScrapeJobs_proofs!Lifecycle` | `Spec => LifecycleSpec` | every step maps to a step of `JobLifecycle` or a stutter, from `Inv`: the crash handler may only write over an active or interrupted row, and a base takes an active row with it only if the job is exposed |
| `JamfSync_proofs!TypeCorrect`, `Released` | `Spec => []TypeOK`, `Spec => []OverMeansReleased` | `TypeOK`, that a sync is at a table it has (`AtTable`), and that it has written no table before it opened its transaction or that it has not reached |
| `JamfSync_proofs!Mirrors` | `Spec => []MirrorsUpstream` | the list of the server in order of rank has no gap, so an empty or a last page means that all before it were read (`PageFollows`); of each sync and table, `MirrorInv` says that the view is complete, or behind by what the listing has in hand and has yet to read, unless somebody changed the table |
| `JamfSync_proofs!IdleIsSuccess` | `Spec => []IdleMeansSuccess` when no two syncs run | `ToldInv`: which of the three final writes has been made, place by place |
| `Crawl_proofs!MissesNothing`, `RequestedOnce`, `LimitKept`, `ContinuationIsEmpty` | `Spec => []` of `CompletedMissesNothing`, `FetchedOnce`, `LimitPassedByABatch`, `NothingToContinue` | what can be reached is the least closed set of pages: the walk stays inside every closed set (`Within`), and what it has dealt with links only to its frontier (`NoLoss`), so what it visited is closed when nothing waits; `Counted`: pages of the batch count as if stored |
| `Updater_proofs!TypeCorrect`, `OneAtATime`, `AllOrNothing` | `Spec => []TypeOK`, `[]SingleFlight`, `[]Whole` | `Staged`: how far the update has come, command by command |
| `PendingActions_proofs!TypeCorrect`, `CarriedOutOnce`, `WithdrawnNeverPosted`, `ApprovedOnly` | `Spec => []` of `TypeOK`, `PostedOnce`, `WithdrawnIsFinal`; `Spec => ApprovedInSession` | `OnePlace`: a plan waits in one table, under its session, or is in the hands of one approval of it, and is then neither carried out nor withdrawn; most steps only take plans away (`Ends`), four move one |
| `PendingActions_proofs!Lifecycle` | `Spec => LifecycleSpec` | the place of a plan decides its phase (`Known`); a step in which no handler gets a plan, and no table either, ends the approvals it ends (`Leaving`), and the other three move one plan or exchange two |
| `KnowledgeStore_proofs!TypeCorrect`, `ClaimsAreIngested`, `OneDefault`, `DeletedStaysGone` | `Spec => []` of `TypeOK`, `RowsWereIngested`, `BasesSound`, `DeletedIsGone` | four invariants: `Types`; `Ingested`: the text a visit has in hand past its ingestion is acknowledged and the row it is about to update is still of its base and page, since numbers are not used twice; `Untangled`: the one change of the set of bases under way still sees what it read; `Left`: nobody crawls into a base that is gone or going |
| `KnowledgeStore_proofs!StoresStayInStep` | `Spec => []StoresAgree` | `AllInStep`, page by page (`InStep`): a visit that nothing has disturbed is the only worker at its page, knows what the row says, and once it has begun to write, the chunks there are its own, also where it mends a spoiled page; on an unspoiled page nobody else is at work but erasers, who have taken the row away first and have read every id that is left; and the rows that the deletion of a base has read are still what it read (`RowsRead`). A visit or an eraser is at the page of its row and at that of its chunks; an undisturbed visit is one for which they are the same. It rests on `Ingested` of the line above |
| `ObjectCopy_proofs!TypeCorrect`, `Invariance`, `RefsStaySound`, `GapsAreTold` | `Spec => []` of `TypeOK`, `IInv`, `RefsSound`, `NoSilentGap` | `Sound`: what the place of a request implies, above all that the ids it mapped are ids the target has given; the ids of a target only grow, which carries them from the listing to the create through everything other requests do in between. For the gaps: the record that has no file yet is in the hands of the request that made it, whose response, or whose end without one, takes it over |
| `ObjectCopy_proofs!CleanRunsComplete` | `Spec => []CleanRunCompletes` | `CInv`: of every request, the targets other than the one it is at are done or untouched, and all are done at its end (`Progress`); of one that was alone, no other request is under way, what it reported is on the target, with the category where that was wanted and could be, or was not portable (`Delivered`), and what it has read of its target is still so (`InHand`, `Placed`). While it works, what is on a target stays there (`Keeps`), a target that refuses categories never gets the one, and no target gets it from a request for packages (`Sealed`) |
| `AuthSessions_proofs!TypeCorrect`, `Invariance`, `RefreshesOnce` | `Spec => []` of `TypeOK`, `IInv`, `OneRefresh` | `Sound` and `One`: a refresh whose page is gone is nobody's to wait for, only requests that matter on the server outlive their page, and a tab that is back from Microsoft does nothing else |
| `AuthSessions_proofs!SessionsAreKept` | `Spec => []SessionKept` | `Calm`, as long as nobody disturbs the session: one refresh at a time in the whole browser, and while its answer is on its way nothing else, the cookie included, holds the token that is stored |

Every invariant, action property and refinement that a run checks is proved. Only
model-checked are the liveness properties (`CancelEndsJob`, `RunEnds`, `SyncEnds`,
`Converges`, `StatusSettles`, `Deployed`, `ComesToRest`): they rest on fairness, and
ENABLED is beyond the provers. The findings are about single behaviours, which a run shows
and a proof would not add to.

The proof of `StoresAgree` showed that the model had said too little about the deletion of
a base: with four calls it may erase the chunks of a page whose row was written after it
had read the rows. `DropBase` marks such a page as spoiled, and the run is large enough to meet one. Likewise
the page of `jamf_knowledge` that a job of a base which is gone writes to: what the code
does there is in the model, and `StoresAgree` excepts the page until the next undisturbed
visit has ingested it again.

## 5. Plan

In this order.

1. `Crawl` under the job of `ScrapeJobs`: what a crash in the walk and its continuation
   leave unread together.
2. `UsersRoles`: permissions, the copy `is_admin` and the last administrator.
3. `Updater` composed with `ScrapeJobs`, to say what a deployment does to jobs accepted
   while images are built.

## 6. Not modelled

The administration of users and roles, until it is written. Out of scope: the read-only API (queries and pass-through without state of their own), the
LLM client (no state; its answers and failures are choices of `PendingActions`), the
dashboard log (one insert per event that nothing reads back), what the pages show (the
log-in and the redirects are in `AuthSessions`), schema migrations (run once, in a line),
scripts run by hand, and the documentation site. Creating, editing and provisioning a
server are one insert or update after calls to Jamf.
