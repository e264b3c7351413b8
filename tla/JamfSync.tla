------------------------------ MODULE JamfSync ------------------------------
(***************************************************************************)
(* The synchronisation of one Jamf Pro server: sync_server copies the      *)
(* server's devices, policies, smart groups and patch titles into the      *)
(* tables of the dashboard, one table after the other, in one database     *)
(* transaction.  Every uvicorn worker has an interval scheduler and every  *)
(* administrator a button that start it, and nothing keeps two syncs of a  *)
(* server apart, so Syncs is the set of syncs that may overlap.            *)
(*                                                                         *)
(* A row is its Jamf id.  PostgreSQL runs at READ COMMITTED: a statement   *)
(* sees what is committed when it starts and its own transaction, and      *)
(* waits for a row another transaction has written.                        *)
(***************************************************************************)
EXTENDS Naturals, FiniteSets, Sequences

CONSTANTS
    Syncs,       \* runs of sync_server that may be under way at once
    Families,    \* the kinds of object copied, in order
    MaxId,       \* bound: Jamf ids are 1..MaxId
    PageSize,
    MaxChanges,  \* bound: how often the Jamf server changes
    MaxFaults    \* bound: refused calls, lost details, Redis errors and crashes

Kinds == {"devices", "policies", "groups", "patches"}

ASSUME FamiliesAssumption == Families \in Seq(Kinds)

ASSUME BoundsAssumption ==
    /\ MaxId \in Nat /\ PageSize \in Nat \ {0}
    /\ MaxChanges \in Nat /\ MaxFaults \in Nat

VARIABLES
    upstream,  \* upstream[t]: what the Jamf server has
    rows,      \* rows[t]: the committed rows of table t
    server,    \* the jamf_servers row and its last_sync_error
    status,    \* the Redis key sync:status
    result,    \* the Redis key sync:last_result
    sync,      \* sync[s]: where the sync is, and its local variables
    put, del,  \* put[s][t], del[s][t]: written and deleted in the open transaction
    steady,    \* history: tables sync s has listed with nothing changing since
    changes, faults

vars == <<upstream, rows, server, status, result, sync, put, del, steady, changes, faults>>

Tables == 1..Len(Families)
Ids    == 1..MaxId

\* The endpoints tried for each kind, in order.  "stream" upserts every page as
\* it is read, "paged" collects the pages first, "single" is one Classic listing.
Strategies == [devices  |-> <<"stream", "stream", "single">>,
               policies |-> <<"paged", "single">>,
               groups   |-> <<"single">>,
               patches  |-> <<"paged", "single">>]

Under == {"opening", "listing", "upserting", "purging", "committing",
          "publishing", "settling", "failed", "recording", "erring"}

SyncStates == [pc : {"idle"} \cup Under, at : Nat, how : 1..3, page : Nat, total : Nat,
               listed : SUBSET Ids, pending : SUBSET Ids, read : {"none", "some"}]

Idle == [pc |-> "idle", at |-> 1, how |-> 1, page |-> 0, total |-> 0,
         listed |-> {}, pending |-> {}, read |-> "none"]

Nothing == [t \in Tables |-> {}]

TypeOK ==
    /\ upstream \in [Tables -> SUBSET Ids]
    /\ rows \in [Tables -> SUBSET Ids]
    /\ server \in {"absent", "none", "some"}
    /\ status \in {"missing", "running", "idle", "error"}
    /\ result \in {"missing", "success", "error"}
    /\ sync \in [Syncs -> SyncStates]
    /\ put \in [Syncs -> [Tables -> SUBSET Ids]]
    /\ del \in [Syncs -> [Tables -> SUBSET Ids]]
    /\ steady \in [Syncs -> SUBSET Tables]
    /\ changes \in 0..MaxChanges
    /\ faults \in 0..MaxFaults

Init ==
    /\ upstream \in [Tables -> SUBSET Ids]
    /\ rows = Nothing
    /\ server = "none"
    /\ status = "missing"
    /\ result = "missing"
    /\ sync = [s \in Syncs |-> Idle]
    /\ put = [s \in Syncs |-> Nothing]
    /\ del = [s \in Syncs |-> Nothing]
    /\ steady = [s \in Syncs |-> {}]
    /\ changes = 0
    /\ faults = 0

transaction == <<put, del>>
keys        == <<status, result>>
world       == <<upstream, changes>>

Fault == faults < MaxFaults /\ faults' = faults + 1

Kind(s) == Families[sync[s].at]
Mode(s) == Strategies[Kind(s)][sync[s].how]

Locked(s, t)    == put[s][t] \cup del[s][t]
Contended(s, t) == UNION {Locked(r, t) : r \in Syncs \ {s}}

\* What transaction s sees of table t.
View(s, t) == (rows[t] \ del[s][t]) \cup put[s][t]

Goto(s, pc) == sync' = [sync EXCEPT ![s].pc = pc]

Unsteady(s, t) == steady' = [steady EXCEPT ![s] = @ \ {t}]

\* The next table, or the end of the transaction's work.
NextTable(s) ==
    sync' = [sync EXCEPT ![s] = [Idle EXCEPT
                 !.pc = IF sync[s].at < Len(Families) THEN "listing" ELSE "committing",
                 !.at = sync[s].at + 1, !.read = sync[s].read]]

\* Mutant: the exception handler forgets to roll back.
RollbackForgotten(s) ==
    /\ sync' = [sync EXCEPT ![s] = [Idle EXCEPT !.pc = "failed"]]
    /\ UNCHANGED transaction

\* An exception: the transaction is rolled back and its locks are gone.
Rollback(s) ==
    /\ sync' = [sync EXCEPT ![s] = [Idle EXCEPT !.pc = "failed"]]
    /\ put' = [put EXCEPT ![s] = Nothing]
    /\ del' = [del EXCEPT ![s] = Nothing]

-----------------------------------------------------------------------------
(* Starting.                                                               *)

\* The interval job of a worker, the sync button or sync-all.
Start(s) ==
    /\ sync[s].pc = "idle"
    /\ status' = "running"
    /\ Goto(s, "opening")
    /\ steady' = [steady EXCEPT ![s] = {}]
    /\ UNCHANGED <<world, rows, server, result, transaction, faults>>

\* The server row is read and a token fetched.
Open(s) ==
    /\ sync[s].pc = "opening"
    /\ server # "absent"
    /\ sync' = [sync EXCEPT ![s].pc = IF Families = <<>> THEN "committing" ELSE "listing",
                            ![s].read = server]
    /\ UNCHANGED <<world, rows, server, keys, transaction, steady, faults>>

NotFound(s) ==
    /\ sync[s].pc = "opening"
    /\ server = "absent"
    /\ status' = "error"
    /\ Goto(s, "idle")
    /\ UNCHANGED <<world, rows, server, result, transaction, steady, faults>>

OpenFails(s) ==
    /\ sync[s].pc = "opening"
    /\ server # "absent"
    /\ Fault
    /\ Rollback(s)
    /\ UNCHANGED <<world, rows, server, keys, steady>>

-----------------------------------------------------------------------------
(* Listing a table.                                                        *)

Rank(S, i) == Cardinality({j \in S : j < i})

Page(S, p) == {i \in S : p * PageSize <= Rank(S, i) /\ Rank(S, i) < (p + 1) * PageSize}

\* The ids whose details cannot be fetched: they are listed but not upserted.
\* /api/v1/policies falls back to the listing, and the devices' pages and the
\* patch titles have no details.
Lost(s, listed) ==
    IF Mode(s) = "single" /\ Kind(s) # "patches" THEN SUBSET listed ELSE {{}}

\* The first page of a table starts the listing that steady is about.
Listed(s, lost) ==
    /\ \/ lost = {} /\ UNCHANGED faults
       \/ lost # {} /\ Fault
    /\ steady' = [steady EXCEPT ![s] = IF lost # {} THEN @ \ {sync[s].at}
                                       ELSE IF sync[s].page = 0 THEN @ \cup {sync[s].at} ELSE @]

\* A page of the devices, upserted before the next one is read.
ListStream(s) ==
    /\ sync[s].pc = "listing"
    /\ Mode(s) = "stream"
    /\ LET there == upstream[sync[s].at]
           page  == Page(there, sync[s].page)
       IN  sync' = [sync EXCEPT ![s].pc = IF page = {} THEN "purging" ELSE "upserting",
                                ![s].total = Cardinality(there),
                                ![s].listed = @ \cup page,
                                ![s].pending = page]
    /\ Listed(s, {})
    /\ UNCHANGED <<world, rows, server, keys, transaction>>

\* A page of policies or patch titles.  The patch listing believes the total of
\* its first page; the policy listing reads it anew and stops at an empty page.
ListPage(s) ==
    /\ sync[s].pc = "listing"
    /\ Mode(s) = "paged"
    /\ LET there  == upstream[sync[s].at]
           page   == Page(there, sync[s].page)
           total  == IF Kind(s) = "patches" /\ sync[s].page > 0
                     THEN sync[s].total ELSE Cardinality(there)
           more   == /\ (sync[s].page + 1) * PageSize < total
                     /\ Kind(s) = "patches" \/ page # {}
           listed == sync[s].listed \cup page
       IN  sync' = [sync EXCEPT ![s].pc = IF more THEN "listing" ELSE "upserting",
                                ![s].page = IF more THEN @ + 1 ELSE @,
                                ![s].total = total,
                                ![s].listed = listed,
                                ![s].pending = IF more THEN @ ELSE listed]
    /\ Listed(s, {})
    /\ UNCHANGED <<world, rows, server, keys, transaction>>

\* One Classic listing, or the bare array Jamf Cloud answers for patch titles;
\* then the details of every object, ten at a time.
ListAll(s) ==
    /\ sync[s].pc = "listing"
    /\ \/ Mode(s) = "single"
       \/ Kind(s) = "patches" /\ sync[s].page = 0
    /\ LET there == upstream[sync[s].at]
       IN  \E lost \in Lost(s, there) :
               /\ sync' = [sync EXCEPT ![s].pc = "upserting", ![s].total = 0,
                                       ![s].listed = there, ![s].pending = there \ lost]
               /\ Listed(s, lost)
    /\ UNCHANGED <<world, rows, server, keys, transaction>>

\* Mutant: a 404 of the Classic listing falls through as well.
UnavailableAnywhere(s) ==
    /\ sync[s].pc = "listing"
    /\ sync' = [sync EXCEPT ![s].how = @ + 1, ![s].page = 0, ![s].total = 0,
                            ![s].listed = {}, ![s].pending = {}]
    /\ UNCHANGED <<world, rows, server, keys, transaction, steady, faults>>

\* 404 or 405: the next endpoint starts over.  Rows the abandoned one has
\* upserted stay in the transaction.
Unavailable(s) ==
    /\ sync[s].pc = "listing"
    /\ Mode(s) # "single"
    /\ Kind(s) = "patches" => sync[s].page = 0
    /\ sync' = [sync EXCEPT ![s].how = @ + 1, ![s].page = 0, ![s].total = 0,
                            ![s].listed = {}, ![s].pending = {}]
    /\ UNCHANGED <<world, rows, server, keys, transaction, steady, faults>>

Tolerates(s) == Kind(s) \in {"groups", "patches"} /\ Mode(s) = "single"
Truncates(s) == Kind(s) = "patches" /\ sync[s].page > 0

\* No answer, or one that is not JSON, is an exception for every listing; so is
\* any other status, where it is neither skipped nor taken for the end.
Refused(s) ==
    /\ sync[s].pc = "listing"
    /\ Fault
    /\ Rollback(s)
    /\ UNCHANGED <<world, rows, server, keys, steady>>

\* Smart groups and Classic patch titles that answer another status are skipped
\* with a warning.
Skipped(s) ==
    /\ sync[s].pc = "listing"
    /\ Tolerates(s)
    /\ Fault
    /\ NextTable(s)
    /\ Unsteady(s, sync[s].at)
    /\ UNCHANGED <<world, rows, server, keys, transaction>>

\* A later page of patch titles answers another status: what was read is taken
\* for all.
Truncated(s) ==
    /\ sync[s].pc = "listing"
    /\ Truncates(s)
    /\ Fault
    /\ sync' = [sync EXCEPT ![s].pc = "upserting", ![s].pending = sync[s].listed]
    /\ Unsteady(s, sync[s].at)
    /\ UNCHANGED <<world, rows, server, keys, transaction>>

-----------------------------------------------------------------------------
(* Writing a table.                                                        *)

\* Mutant: the page number is not advanced.
UpsertSamePage(s) ==
    /\ sync[s].pc = "upserting"
    /\ sync[s].pending \cap Contended(s, sync[s].at) = {}
    /\ put' = [put EXCEPT ![s][sync[s].at] = @ \cup sync[s].pending]
    /\ LET more == Mode(s) = "stream" /\ (sync[s].page + 1) * PageSize < sync[s].total
       IN  sync' = [sync EXCEPT ![s].pc = IF more THEN "listing" ELSE "purging", ![s].pending = {}]
    /\ UNCHANGED <<world, rows, server, keys, del, steady, faults>>

\* Mutant: the last page is not fetched.
UpsertAllButLast(s) ==
    /\ sync[s].pc = "upserting"
    /\ sync[s].pending \cap Contended(s, sync[s].at) = {}
    /\ put' = [put EXCEPT ![s][sync[s].at] = @ \cup sync[s].pending]
    /\ del' = [del EXCEPT ![s][sync[s].at] = @ \ sync[s].pending]
    /\ LET more == Mode(s) = "stream" /\ (sync[s].page + 2) * PageSize < sync[s].total
       IN  sync' = [sync EXCEPT ![s].pc = IF more THEN "listing" ELSE "purging",
                                ![s].page = IF more THEN @ + 1 ELSE @, ![s].pending = {}]
    /\ UNCHANGED <<world, rows, server, keys, steady, faults>>

\* INSERT ... ON CONFLICT DO UPDATE; no statement is sent for no rows.
Upsert(s) ==
    /\ sync[s].pc = "upserting"
    /\ sync[s].pending \cap Contended(s, sync[s].at) = {}
    /\ server = "absent" => sync[s].pending = {}
    /\ put' = [put EXCEPT ![s][sync[s].at] = @ \cup sync[s].pending]
    /\ del' = [del EXCEPT ![s][sync[s].at] = @ \ sync[s].pending]
    /\ LET more == Mode(s) = "stream" /\ (sync[s].page + 1) * PageSize < sync[s].total
       IN  sync' = [sync EXCEPT ![s].pc = IF more THEN "listing" ELSE "purging",
                                ![s].page = IF more THEN @ + 1 ELSE @,
                                ![s].pending = {}]
    /\ UNCHANGED <<world, rows, server, keys, steady, faults>>

\* The server was deleted: the foreign key refuses the rows.
UpsertOrphaned(s) ==
    /\ sync[s].pc = "upserting"
    /\ server = "absent"
    /\ sync[s].pending # {}
    /\ Rollback(s)
    /\ UNCHANGED <<world, rows, server, keys, steady, faults>>

\* The rows _purge_missing_by_jamf_id matches.
Stale(s) == View(s, sync[s].at) \ sync[s].listed

\* Mutant: an empty listing is taken for a failure and nothing is purged.
PurgeUnlessEmpty(s) ==
    /\ sync[s].pc = "purging"
    /\ Stale(s) \cap Contended(s, sync[s].at) = {}
    /\ LET stale == IF sync[s].listed = {} THEN {} ELSE Stale(s)
       IN  /\ put' = [put EXCEPT ![s][sync[s].at] = @ \ stale]
           /\ del' = [del EXCEPT ![s][sync[s].at] = @ \cup stale]
    /\ NextTable(s)
    /\ UNCHANGED <<world, rows, server, keys, steady, faults>>

Purge(s) ==
    /\ sync[s].pc = "purging"
    /\ Stale(s) \cap Contended(s, sync[s].at) = {}
    /\ put' = [put EXCEPT ![s][sync[s].at] = @ \ Stale(s)]
    /\ del' = [del EXCEPT ![s][sync[s].at] = @ \cup Stale(s)]
    /\ NextTable(s)
    /\ UNCHANGED <<world, rows, server, keys, steady, faults>>

\* The rows the next statement of s is going to write.
Wanted(s) == CASE sync[s].pc = "upserting" -> sync[s].pending
               [] sync[s].pc = "purging"   -> Stale(s)
               [] OTHER                    -> {}

WaitsFor(s, r) == s # r /\ sync[s].at \in Tables /\ Wanted(s) \cap Locked(r, sync[s].at) # {}

\* PostgreSQL finds a cycle of waiting transactions and fails one of them.
Deadlocked(s) ==
    /\ \E cycle \in SUBSET Syncs :
           s \in cycle /\ \A r \in cycle : \E q \in cycle : WaitsFor(r, q)
    /\ Rollback(s)
    /\ UNCHANGED <<world, rows, server, keys, steady, faults>>

\* Mutant: last_sync_error is left alone.
CommitKeepsError(s) ==
    /\ sync[s].pc = "committing"
    /\ server # "absent"
    /\ rows' = [t \in Tables |-> View(s, t)]
    /\ sync' = [sync EXCEPT ![s] = [Idle EXCEPT !.pc = "publishing"]]
    /\ put' = [put EXCEPT ![s] = Nothing]
    /\ del' = [del EXCEPT ![s] = Nothing]
    /\ steady' = [r \in Syncs |-> {}]
    /\ UNCHANGED <<world, server, keys, faults>>

\* last_sync_error is set to NULL, which is an UPDATE of the column only if the
\* row was read with an error.  What another sync had listed may be stale now.
Commit(s) ==
    /\ sync[s].pc = "committing"
    /\ server # "absent"
    /\ rows' = [t \in Tables |-> View(s, t)]
    /\ server' = IF sync[s].read = "some" THEN "none" ELSE server
    /\ sync' = [sync EXCEPT ![s] = [Idle EXCEPT !.pc = "publishing"]]
    /\ put' = [put EXCEPT ![s] = Nothing]
    /\ del' = [del EXCEPT ![s] = Nothing]
    /\ steady' = [r \in Syncs |-> {}]
    /\ UNCHANGED <<world, keys, faults>>

\* The UPDATE of a deleted server matches no row.
CommitOrphaned(s) ==
    /\ sync[s].pc = "committing"
    /\ server = "absent"
    /\ Rollback(s)
    /\ UNCHANGED <<world, rows, server, keys, steady, faults>>

-----------------------------------------------------------------------------
(* Reporting the outcome.                                                  *)

Publish(s) ==
    /\ sync[s].pc = "publishing"
    /\ result' = "success"
    /\ Goto(s, "settling")
    /\ UNCHANGED <<world, rows, server, status, transaction, steady, faults>>

Settle(s) ==
    /\ sync[s].pc = "settling"
    /\ status' = "idle"
    /\ Goto(s, "idle")
    /\ UNCHANGED <<world, rows, server, result, transaction, steady, faults>>

\* Redis fails after the commit: the handler reports an error all the same.
PublishFails(s) ==
    /\ sync[s].pc \in {"publishing", "settling"}
    /\ Fault
    /\ Rollback(s)
    /\ UNCHANGED <<world, rows, server, keys, steady>>

RecordError(s) ==
    /\ sync[s].pc = "failed"
    /\ result' = "error"
    /\ Goto(s, "recording")
    /\ UNCHANGED <<world, rows, server, status, transaction, steady, faults>>

\* Written by a session of its own; an exception there is passed over.
PersistError(s) ==
    /\ sync[s].pc = "recording"
    /\ \/ server' = (IF server = "absent" THEN server ELSE "some") /\ UNCHANGED faults
       \/ Fault /\ UNCHANGED server
    /\ Goto(s, "erring")
    /\ UNCHANGED <<world, rows, keys, transaction, steady>>

SettleError(s) ==
    /\ sync[s].pc = "erring"
    /\ status' = "error"
    /\ Goto(s, "idle")
    /\ UNCHANGED <<world, rows, server, result, transaction, steady, faults>>

\* The worker process dies: PostgreSQL drops its transaction, Redis keeps the key.
Crash(s) ==
    /\ sync[s].pc # "idle"
    /\ Fault
    /\ sync' = [sync EXCEPT ![s] = Idle]
    /\ put' = [put EXCEPT ![s] = Nothing]
    /\ del' = [del EXCEPT ![s] = Nothing]
    /\ UNCHANGED <<world, rows, server, keys, steady>>

-----------------------------------------------------------------------------
(* The world around: key expiry, the Jamf server, the server settings.     *)

\* Mutant: the key is written without an expiry.
NeverExpires == FALSE /\ UNCHANGED vars

ExpireStatus ==
    /\ status # "missing"
    /\ status' = "missing"
    /\ UNCHANGED <<world, rows, server, result, sync, transaction, steady, faults>>

ExpireResult ==
    /\ result # "missing"
    /\ result' = "missing"
    /\ UNCHANGED <<world, rows, server, status, sync, transaction, steady, faults>>

\* An object is added to the Jamf server or removed from it.
Change(t, i) ==
    /\ changes < MaxChanges
    /\ changes' = changes + 1
    /\ upstream' = [upstream EXCEPT ![t] = IF i \in @ THEN @ \ {i} ELSE @ \cup {i}]
    /\ steady' = [s \in Syncs |-> steady[s] \ {t}]
    /\ UNCHANGED <<rows, server, keys, sync, transaction, faults>>

\* The rows go with the server; rows an open transaction has written delay it.
DeleteServer ==
    /\ server # "absent"
    /\ \A s \in Syncs, t \in Tables : Locked(s, t) = {}
    /\ server' = "absent"
    /\ rows' = Nothing
    /\ steady' = [s \in Syncs |-> {}]
    /\ UNCHANGED <<world, keys, sync, transaction, faults>>

List(s) == ListStream(s) \/ ListPage(s) \/ ListAll(s)

Write(s) == Upsert(s) \/ UpsertOrphaned(s) \/ Purge(s) \/ Deadlocked(s)
            \/ Commit(s) \/ CommitOrphaned(s)

Report(s) == Publish(s) \/ Settle(s) \/ RecordError(s) \/ PersistError(s) \/ SettleError(s)

Progress(s) == Open(s) \/ NotFound(s) \/ List(s) \/ Write(s) \/ Report(s)

Mishap(s) == OpenFails(s) \/ Unavailable(s) \/ Refused(s) \/ Skipped(s) \/ Truncated(s)
             \/ PublishFails(s) \/ Crash(s)

Next ==
    \/ \E s \in Syncs : Start(s) \/ Progress(s) \/ Mishap(s)
    \/ \E t \in Tables, i \in Ids : Change(t, i)
    \/ ExpireStatus \/ ExpireResult \/ DeleteServer

Spec == Init /\ [][Next]_vars

\* The event loop and the timeouts of the HTTP client carry a sync on, and Redis
\* expires its keys.  PostgreSQL hands a row to the transactions waiting for it in
\* turn, so that a statement is not passed over for ever.
Served ==
    /\ \A s \in Syncs : WF_vars(Progress(s)) /\ SF_vars(Upsert(s) \/ Purge(s))
    /\ WF_vars(ExpireStatus)

\* The scheduler starts a sync of an active server every interval.
Scheduled == \A s \in Syncs : WF_vars(Start(s))

\* A server that is not active is only synced on request.
FairSpec == Spec /\ Served

-----------------------------------------------------------------------------
(* Properties.                                                             *)

\* When a sync is about to commit, its view of every table that it listed
\* completely, and that nobody has changed since, is what the Jamf server has:
\* across pages, endpoints that are abandoned half-way and rows it had to wait for.
MirrorsUpstream ==
    \A s \in Syncs : sync[s].pc = "committing" =>
        \A t \in steady[s] : View(s, t) = upstream[t]

\* A sync that is over, however it ended, has left no row written or locked
\* behind; the pooled connection would hand them to the next session.
OverMeansReleased ==
    \A s \in Syncs : sync[s].pc \in {"idle", "publishing", "settling", "failed", "recording", "erring"} =>
        \A t \in Tables : Locked(s, t) = {}

\* For syncs that do not overlap: "idle" after a sync means the error of an
\* earlier one is no longer shown and the last result is not an error.
IdleMeansSuccess ==
    (status = "idle" /\ \A s \in Syncs : sync[s].pc = "idle") =>
        server # "some" /\ result # "error"

\* Every sync ends, although it may wait for rows of another one.
SyncEnds == \A s \in Syncs : sync[s].pc # "idle" ~> sync[s].pc = "idle"

\* The status key does not say "running" for ever, even when the sync died.
StatusSettles == status = "running" ~> status # "running"

\* Where the scheduler goes on starting syncs, the tables become the mirror of the
\* Jamf server once it is quiet, and stay so, however many syncs overlap.
Converges == Scheduled => <>[](server = "absent" \/ rows = upstream)

-----------------------------------------------------------------------------
(* A claim of the documentation that the code does not keep.               *)

\* sync.py:235, "Delete local rows for a server when their Jamf IDs are no longer
\* present upstream": a sync deletes no row that is upstream.
PurgedOnlyIfGone ==
    [][server' # "absent" => \A t \in Tables : (rows[t] \ rows'[t]) \cap upstream[t] = {}]_vars
=============================================================================
