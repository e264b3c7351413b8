--------------------------- MODULE JamfSync_proofs ---------------------------
(***************************************************************************)
(* What JamfSync guarantees for any number of overlapping syncs, any list  *)
(* of tables, page size and bounds.                                        *)
(***************************************************************************)
EXTENDS JamfSync, FiniteSetTheorems, WellFoundedInduction, NaturalsInduction, TLAPS

LEMMA IdleType == Idle \in SyncStates /\ Nothing \in [Tables -> SUBSET Ids]
  BY DEF Idle, SyncStates, Nothing

LEMMA GotoType ==
  ASSUME sync \in [Syncs -> SyncStates], NEW s \in Syncs, NEW pc \in {"idle"} \cup Under, Goto(s, pc)
  PROVE  sync' \in [Syncs -> SyncStates]
  BY DEF Goto, SyncStates

LEMMA RollbackType ==
  ASSUME TypeOK, NEW s \in Syncs, Rollback(s)
  PROVE  /\ sync' \in [Syncs -> SyncStates]
         /\ put' \in [Syncs -> [Tables -> SUBSET Ids]]
         /\ del' \in [Syncs -> [Tables -> SUBSET Ids]]
<1>1. [Idle EXCEPT !.pc = "failed"] \in SyncStates
  BY IdleType DEF SyncStates, Under
<1>2. QED
  BY <1>1, IdleType DEF Rollback, TypeOK

\* The assignments to the fields of a sync.
LEMMA NextType ==
  ASSUME NEW r \in SyncStates, NEW pc \in {"idle"} \cup Under, NEW at \in Nat, NEW read \in {"none", "some"}
  PROVE  [r EXCEPT !.pc = pc, !.at = at, !.read = read] \in SyncStates
  BY DEF SyncStates

LEMMA OpenType ==
  ASSUME NEW r \in SyncStates, NEW pc \in {"idle"} \cup Under, NEW read \in {"none", "some"}
  PROVE  [r EXCEPT !.pc = pc, !.read = read] \in SyncStates
  BY DEF SyncStates

LEMMA StreamType ==
  ASSUME NEW r \in SyncStates, NEW pc \in {"idle"} \cup Under, NEW total \in Nat, NEW listed \in SUBSET Ids, NEW pending \in SUBSET Ids
  PROVE  [r EXCEPT !.pc = pc, !.total = total, !.listed = listed, !.pending = pending] \in SyncStates
  BY DEF SyncStates

LEMMA PageType ==
  ASSUME NEW r \in SyncStates, NEW pc \in {"idle"} \cup Under, NEW page \in Nat, NEW total \in Nat, NEW listed \in SUBSET Ids, NEW pending \in SUBSET Ids
  PROVE  [r EXCEPT !.pc = pc, !.page = page, !.total = total, !.listed = listed, !.pending = pending] \in SyncStates
  BY DEF SyncStates

LEMMA RestartType ==
  ASSUME NEW r \in SyncStates, NEW how \in 1..3, NEW page \in Nat, NEW total \in Nat, NEW listed \in SUBSET Ids, NEW pending \in SUBSET Ids
  PROVE  [r EXCEPT !.how = how, !.page = page, !.total = total, !.listed = listed, !.pending = pending] \in SyncStates
  BY DEF SyncStates

LEMMA TruncateType ==
  ASSUME NEW r \in SyncStates, NEW pc \in {"idle"} \cup Under, NEW pending \in SUBSET Ids
  PROVE  [r EXCEPT !.pc = pc, !.pending = pending] \in SyncStates
  BY DEF SyncStates

LEMMA AdvanceType ==
  ASSUME NEW r \in SyncStates, NEW pc \in {"idle"} \cup Under, NEW page \in Nat, NEW pending \in SUBSET Ids
  PROVE  [r EXCEPT !.pc = pc, !.page = page, !.pending = pending] \in SyncStates
  BY DEF SyncStates

LEMMA NextTableType ==
  ASSUME TypeOK, NEW s \in Syncs, NextTable(s)
  PROVE  sync' \in [Syncs -> SyncStates]
<1> DEFINE pc == IF sync[s].at < Len(Families) THEN "listing" ELSE "committing"
<1>1. sync[s].at + 1 \in Nat /\ sync[s].read \in {"none", "some"}
  BY DEF TypeOK, SyncStates
<1>2. pc \in {"idle"} \cup Under
  BY DEF Under
<1>3. sync' = [sync EXCEPT ![s] = [Idle EXCEPT !.pc = pc, !.at = sync[s].at + 1, !.read = sync[s].read]]
  BY DEF NextTable
<1> HIDE DEF pc
<1> DEFINE new == [Idle EXCEPT !.pc = pc, !.at = sync[s].at + 1, !.read = sync[s].read]
<1>4. new \in SyncStates
  BY <1>1, <1>2, IdleType, NextType
<1> HIDE DEF new
<1>5. QED
  BY <1>3, <1>4 DEF TypeOK, new

LEMMA CountType ==
  ASSUME TypeOK, NEW t \in Tables
  PROVE  upstream[t] \subseteq Ids /\ Cardinality(upstream[t]) \in Nat
<1>1. upstream[t] \in SUBSET Ids
  BY DEF TypeOK
<1>2. IsFiniteSet(Ids)
  BY BoundsAssumption, FS_Interval DEF Ids
<1>3. QED
  BY <1>1, <1>2, FS_Subset, FS_CardinalityType

\* A sync that lists or writes is at a table, with an endpoint that exists for
\* its kind; it starts with the first table.
HasEndpoint(r) == r.at \in Tables /\ r.how \in DOMAIN Strategies[Families[r.at]]
AtStart(r)     == r.at = 1 /\ r.how = 1

AtTable ==
    \A s \in Syncs :
        /\ sync[s].pc \in {"listing", "upserting", "purging"} => HasEndpoint(sync[s])
        /\ sync[s].pc \notin {"listing", "upserting", "purging", "committing"} => AtStart(sync[s])

\* The transaction of a sync is empty before its first table and once it is over.
Untouched == \A s \in Syncs : sync[s].pc \notin {"listing", "upserting", "purging", "committing"}
                 => put[s] = Nothing /\ del[s] = Nothing

IInv == TypeOK /\ AtTable /\ Untouched

LEMMA EndpointType ==
  ASSUME NEW t \in Tables
  PROVE  /\ 1 \in DOMAIN Strategies[Families[t]]
         /\ \A how \in DOMAIN Strategies[Families[t]] :
                /\ how \in 1..3
                /\ Strategies[Families[t]][how] # "single" => how + 1 \in DOMAIN Strategies[Families[t]]
<1>1. Families[t] \in Kinds
  BY FamiliesAssumption DEF Tables
<1>2. CASE Families[t] = "devices"
  BY <1>2 DEF Strategies
<1>3. CASE Families[t] \in {"policies", "patches"}
  BY <1>3 DEF Strategies
<1>4. CASE Families[t] = "groups"
  BY <1>4 DEF Strategies
<1>5. QED
  BY <1>1, <1>2, <1>3, <1>4 DEF Kinds

LEMMA FaultType == ASSUME TypeOK, Fault PROVE faults' \in 0..MaxFaults
  BY BoundsAssumption DEF Fault, TypeOK

-----------------------------------------------------------------------------
THEOREM Initially == Init => IInv
<1> SUFFICES ASSUME Init PROVE IInv
  OBVIOUS
<1>1. TypeOK
  BY IdleType, BoundsAssumption DEF Init, TypeOK
<1>2. AtTable /\ Untouched
  BY DEF Init, AtTable, AtStart, Untouched, Idle
<1>3. QED
  BY <1>1, <1>2 DEF IInv

LEMMA ListingType ==
  ASSUME IInv, NEW s \in Syncs, List(s)
  PROVE  IInv'
<1> USE DEF IInv, TypeOK
<1>1. sync[s].pc = "listing" /\ HasEndpoint(sync[s]) /\ sync[s].at \in Tables
  BY DEF List, ListStream, ListPage, ListAll, AtTable, HasEndpoint
<1>2. upstream[sync[s].at] \subseteq Ids /\ Cardinality(upstream[sync[s].at]) \in Nat
  BY <1>1, CountType
<1>3. steady' \in [Syncs -> SUBSET Tables] /\ faults' \in 0..MaxFaults
  <2>1. PICK lost : Listed(s, lost)
    BY DEF List, ListStream, ListPage, ListAll
  <2>2. faults' \in 0..MaxFaults
    BY <2>1, FaultType DEF Listed
  <2>3. QED
    BY <1>1, <2>1, <2>2 DEF Listed
<1>4. sync' \in [Syncs -> SyncStates] /\ \A r \in Syncs : sync'[r].at = sync[r].at /\ sync'[r].how = sync[r].how
      /\ (r # s => sync'[r] = sync[r]) /\ sync'[s].pc \in {"listing", "upserting", "purging"}
  <2>1. CASE ListStream(s)
    <3>1. \A p : Page(upstream[sync[s].at], p) \subseteq Ids
      BY <1>2 DEF Page
    <3> DEFINE there == upstream[sync[s].at]
               page  == Page(there, sync[s].page)
               pc    == IF page = {} THEN "purging" ELSE "upserting"
               new   == [sync[s] EXCEPT !.pc = pc, !.total = Cardinality(there),
                                        !.listed = sync[s].listed \cup page, !.pending = page]
    <3>2. pc \in {"idle"} \cup Under /\ page \in SUBSET Ids /\ sync[s].listed \cup page \in SUBSET Ids
      BY <3>1 DEF Under, SyncStates
    <3>3. sync' = [sync EXCEPT ![s].pc = pc, ![s].total = Cardinality(there),
                               ![s].listed = @ \cup page, ![s].pending = page]
      BY <2>1 DEF ListStream
    <3> HIDE DEF pc, page
    <3>4. sync' = [sync EXCEPT ![s] = new]
      BY <3>3
    <3>5. new \in SyncStates
      BY <1>2, <3>2, StreamType
    <3>6. new.at = sync[s].at /\ new.how = sync[s].how /\ new.pc \in {"listing", "upserting", "purging"}
      BY DEF SyncStates, Under, pc
    <3> HIDE DEF new
    <3>7. QED
      BY <3>4, <3>5, <3>6
  <2>2. CASE ListPage(s)
    <3> DEFINE there  == upstream[sync[s].at]
               page   == Page(there, sync[s].page)
               total  == IF Kind(s) = "patches" /\ sync[s].page > 0
                         THEN sync[s].total ELSE Cardinality(there)
               more   == /\ (sync[s].page + 1) * PageSize < total
                         /\ Kind(s) = "patches" \/ page # {}
               listed == sync[s].listed \cup page
    <3>1. page \subseteq Ids /\ listed \subseteq Ids
      BY <1>2 DEF Page, SyncStates
    <3>2. total \in Nat
      BY <1>2 DEF SyncStates
    <3>3. sync' = [sync EXCEPT ![s].pc = IF more THEN "listing" ELSE "upserting",
                               ![s].page = IF more THEN @ + 1 ELSE @,
                               ![s].total = total,
                               ![s].listed = listed,
                               ![s].pending = IF more THEN @ ELSE listed]
      BY <2>2 DEF ListPage
    <3> DEFINE pc      == IF more THEN "listing" ELSE "upserting"
               at      == IF more THEN sync[s].page + 1 ELSE sync[s].page
               pending == IF more THEN sync[s].pending ELSE listed
               new == [sync[s] EXCEPT !.pc = pc, !.page = at, !.total = total,
                                      !.listed = listed, !.pending = pending]
    <3> HIDE DEF more, total, listed, page
    <3>4. pc \in {"idle"} \cup Under /\ at \in Nat /\ pending \in SUBSET Ids
      BY <3>1 DEF SyncStates, Under
    <3>5. sync' = [sync EXCEPT ![s] = new]
      BY <3>3
    <3> HIDE DEF pc, at, pending
    <3>6. new \in SyncStates
      BY <3>1, <3>2, <3>4, PageType
    <3>7. new.at = sync[s].at /\ new.how = sync[s].how /\ new.pc \in {"listing", "upserting", "purging"}
      BY DEF SyncStates, Under, pc
    <3> HIDE DEF new
    <3>8. QED
      BY <3>5, <3>6, <3>7
  <2>3. CASE ListAll(s)
    <3>1. PICK lost : sync' = [sync EXCEPT ![s].pc = "upserting", ![s].total = 0,
                                  ![s].listed = upstream[sync[s].at],
                                  ![s].pending = upstream[sync[s].at] \ lost]
      BY <2>3 DEF ListAll
    <3> DEFINE new == [sync[s] EXCEPT !.pc = "upserting", !.total = 0,
                                      !.listed = upstream[sync[s].at],
                                      !.pending = upstream[sync[s].at] \ lost]
    <3>2. sync' = [sync EXCEPT ![s] = new]
      BY <3>1
    <3>3. "upserting" \in {"idle"} \cup Under /\ upstream[sync[s].at] \ lost \in SUBSET Ids
      BY <1>2 DEF Under
    <3>4. new \in SyncStates
      BY <1>2, <3>3, StreamType
    <3>5. new.at = sync[s].at /\ new.how = sync[s].how /\ new.pc \in {"listing", "upserting", "purging"}
      BY DEF SyncStates
    <3> HIDE DEF new
    <3>6. QED
      BY <3>2, <3>4, <3>5
  <2>4. QED
    BY <2>1, <2>2, <2>3 DEF List
<1>5. UNCHANGED <<upstream, changes, rows, server, status, result, put, del>>
  BY DEF List, ListStream, ListPage, ListAll, world, keys, transaction
<1>6. HasEndpoint(sync'[s])
  BY <1>1, <1>4 DEF HasEndpoint
<1>7. AtTable'
  BY <1>4, <1>6 DEF AtTable, HasEndpoint, AtStart, Tables
<1>8. Untouched'
  BY <1>4, <1>5 DEF Untouched, Nothing, Tables
<1>9. QED
  BY <1>3, <1>4, <1>5, <1>7, <1>8

LEMMA TablesType == Len(Families) \in Nat /\ (Families # <<>> => 1 \in Tables)
  BY FamiliesAssumption DEF Tables

\* What a step of sync s that only changes its own record has to show.
LEMMA OwnStep ==
  ASSUME IInv, NEW s \in Syncs, NEW new \in SyncStates, sync' = [sync EXCEPT ![s] = new],
         UNCHANGED <<upstream, changes, rows, put, del>>,
         server' \in {"absent", "none", "some"},
         status' \in {"missing", "running", "idle", "error"},
         result' \in {"missing", "success", "error"},
         steady' \in [Syncs -> SUBSET Tables], faults' \in 0..MaxFaults,
         new.pc \in {"listing", "upserting", "purging"} => HasEndpoint(new),
         new.pc \notin {"listing", "upserting", "purging", "committing"} =>
             AtStart(new) /\ put[s] = Nothing /\ del[s] = Nothing
  PROVE  IInv'
<1>1. TypeOK'
  BY DEF IInv, TypeOK
<1>2. sync'[s] = new /\ \A r \in Syncs : r # s => sync'[r] = sync[r]
  BY DEF IInv, TypeOK
<1>3. AtTable' /\ Untouched'
  BY <1>2 DEF IInv, AtTable, HasEndpoint, AtStart, Untouched, Tables, Nothing
<1>4. QED
  BY <1>1, <1>3 DEF IInv

\* A step of sync s that leaves it over, and its transaction empty.
LEMMA OverStep ==
  ASSUME IInv, NEW s \in Syncs, NEW pc \in {"idle"} \cup Under,
         sync' = [sync EXCEPT ![s] = [Idle EXCEPT !.pc = pc]],
         pc \notin {"listing", "upserting", "purging", "committing"},
         put' = [put EXCEPT ![s] = Nothing], del' = [del EXCEPT ![s] = Nothing],
         UNCHANGED <<upstream, changes>>,
         rows' \in [Tables -> SUBSET Ids],
         server' \in {"absent", "none", "some"},
         status' \in {"missing", "running", "idle", "error"},
         result' \in {"missing", "success", "error"},
         steady' \in [Syncs -> SUBSET Tables], faults' \in 0..MaxFaults
  PROVE  IInv'
<1> DEFINE new == [Idle EXCEPT !.pc = pc]
<1>1. new \in SyncStates /\ AtStart(new) /\ new.pc = pc
  BY IdleType DEF Idle, SyncStates, AtStart
<1> HIDE DEF new
<1>2. sync' = [sync EXCEPT ![s] = new]
  BY DEF new
<1>3. TypeOK'
  <2>1. sync' \in [Syncs -> SyncStates]
    BY <1>1, <1>2 DEF IInv, TypeOK
  <2>2. put' \in [Syncs -> [Tables -> SUBSET Ids]] /\ del' \in [Syncs -> [Tables -> SUBSET Ids]]
    BY IdleType DEF IInv, TypeOK
  <2>3. QED
    BY <2>1, <2>2 DEF IInv, TypeOK
<1>4. sync'[s] = new /\ \A r \in Syncs : r # s => sync'[r] = sync[r] /\ put'[r] = put[r] /\ del'[r] = del[r]
  BY <1>2 DEF IInv, TypeOK
<1>5. put'[s] = Nothing /\ del'[s] = Nothing
  BY DEF IInv, TypeOK
<1>6. AtTable'
  BY <1>1, <1>4 DEF IInv, AtTable, HasEndpoint, AtStart, Tables
<1>7. Untouched'
  <2> SUFFICES ASSUME NEW r \in Syncs,
                      sync'[r].pc \notin {"listing", "upserting", "purging", "committing"}
               PROVE  put'[r] = Nothing /\ del'[r] = Nothing
    BY DEF Untouched, Nothing, Tables
  <2> QED
    BY <1>1, <1>4, <1>5 DEF IInv, Untouched
<1>8. QED
  BY <1>3, <1>6, <1>7 DEF IInv

LEMMA RollbackStep ==
  ASSUME IInv, NEW s \in Syncs, Rollback(s),
         UNCHANGED <<upstream, changes, rows, server, status, result, steady>>,
         faults' \in 0..MaxFaults
  PROVE  IInv'
<1>1. "failed" \in {"idle"} \cup Under
  BY DEF Under
<1>2. QED
  BY <1>1, OverStep DEF Rollback, IInv, TypeOK

\* A step of sync s that goes on with the next table.
LEMMA NextTableStep ==
  ASSUME IInv, NEW s \in Syncs, sync[s].pc \in {"listing", "purging"}, NextTable(s),
         UNCHANGED <<upstream, changes, rows, server, status, result>>,
         put' \in [Syncs -> [Tables -> SUBSET Ids]], del' \in [Syncs -> [Tables -> SUBSET Ids]],
         \A r \in Syncs : r # s => put'[r] = put[r] /\ del'[r] = del[r],
         steady' \in [Syncs -> SUBSET Tables], faults' \in 0..MaxFaults
  PROVE  IInv'
<1> DEFINE pc  == IF sync[s].at < Len(Families) THEN "listing" ELSE "committing"
           new == [Idle EXCEPT !.pc = pc, !.at = sync[s].at + 1, !.read = sync[s].read]
<1>1. sync' = [sync EXCEPT ![s] = new] /\ sync' \in [Syncs -> SyncStates]
  BY NextTableType DEF NextTable, IInv
<1>2. sync[s].at \in Tables
  BY DEF IInv, AtTable, HasEndpoint
<1>3. new.pc = pc /\ new.at = sync[s].at + 1 /\ new.how = 1
  BY DEF Idle
<1>4. /\ new.pc \in {"listing", "committing"}
      /\ new.pc = "listing" => new.at \in Tables
  BY <1>2, <1>3, TablesType DEF Tables
<1>a. new.pc = "listing" => HasEndpoint(new)
  BY <1>3, <1>4, EndpointType DEF HasEndpoint
<1> HIDE DEF new
<1>5. sync'[s] = new /\ \A r \in Syncs : r # s => sync'[r] = sync[r]
  BY <1>1 DEF IInv, TypeOK
<1>6. TypeOK'
  BY <1>1 DEF IInv, TypeOK
<1>7. AtTable'
  BY <1>4, <1>a, <1>5 DEF IInv, AtTable, HasEndpoint, AtStart, Tables
<1>8. Untouched'
  <2> SUFFICES ASSUME NEW r \in Syncs,
                      sync'[r].pc \notin {"listing", "upserting", "purging", "committing"}
               PROVE  put'[r] = Nothing /\ del'[r] = Nothing
    BY DEF Untouched, Nothing, Tables
  <2> QED
    BY <1>4, <1>5 DEF IInv, Untouched
<1>9. QED
  BY <1>6, <1>7, <1>8 DEF IInv

LEMMA StartStep ==
  ASSUME IInv, NEW s \in Syncs, Start(s) \/ Open(s) \/ NotFound(s) \/ OpenFails(s)
  PROVE  IInv'
<1> USE DEF IInv, TypeOK, world, transaction, keys
<1>1. sync[s] \in SyncStates /\ AtStart(sync[s]) /\ put[s] = Nothing /\ del[s] = Nothing
  BY DEF Start, Open, NotFound, OpenFails, AtTable, Untouched
<1>2. CASE Start(s) \/ NotFound(s)
  <2>1. PICK pc \in {"opening", "idle"} : sync' = [sync EXCEPT ![s] = [sync[s] EXCEPT !.pc = pc]]
    BY <1>2 DEF Start, NotFound, Goto
  <2> DEFINE new == [sync[s] EXCEPT !.pc = pc]
  <2>2. new \in SyncStates /\ AtStart(new) /\ new.pc = pc
    BY <1>1 DEF SyncStates, Under, AtStart
  <2> HIDE DEF new
  <2>3. sync' = [sync EXCEPT ![s] = new]
    BY <2>1 DEF new
  <2>4. steady' \in [Syncs -> SUBSET Tables] /\ faults' \in 0..MaxFaults
    BY <1>2 DEF Start, NotFound
  <2>5. QED
    BY <1>1, <1>2, <2>2, <2>3, <2>4, OwnStep DEF Start, NotFound
<1>3. CASE Open(s)
  <2> DEFINE pc  == IF Families = <<>> THEN "committing" ELSE "listing"
             new == [sync[s] EXCEPT !.pc = pc, !.read = server]
  <2>1. sync' = [sync EXCEPT ![s] = new]
    BY <1>3 DEF Open
  <2>2. pc \in {"idle"} \cup Under /\ server \in {"none", "some"}
    BY <1>3 DEF Open, Under
  <2>3. new.pc = pc /\ new.at = 1 /\ new.how = 1
    BY <1>1 DEF SyncStates, AtStart
  <2>4. /\ new.pc \in {"listing", "upserting", "purging", "committing"}
        /\ new.pc \in {"listing", "upserting", "purging"} => HasEndpoint(new)
    BY <2>3, TablesType, EndpointType DEF HasEndpoint
  <2> HIDE DEF pc
  <2>5. new \in SyncStates
    BY <1>1, <2>2, OpenType
  <2> HIDE DEF new
  <2>6. UNCHANGED <<upstream, changes, rows, put, del, server, status, result, steady, faults>>
    BY <1>3 DEF Open
  <2>7. QED
    BY <2>1, <2>4, <2>5, <2>6, OwnStep
<1>4. CASE OpenFails(s)
  BY <1>4, RollbackStep, FaultType DEF OpenFails
<1>5. QED
  BY <1>2, <1>3, <1>4

LEMMA MishapStep ==
  ASSUME IInv, NEW s \in Syncs, Unavailable(s) \/ Refused(s) \/ Skipped(s) \/ Truncated(s)
  PROVE  IInv'
<1> USE DEF IInv, TypeOK, world, transaction, keys
<1>1. sync[s] \in SyncStates /\ HasEndpoint(sync[s]) /\ sync[s].pc = "listing" /\ sync[s].at \in Tables
  BY DEF Unavailable, Refused, Skipped, Truncated, AtTable, HasEndpoint
<1>2. CASE Unavailable(s)
  <2> DEFINE new == [sync[s] EXCEPT !.how = sync[s].how + 1, !.page = 0, !.total = 0,
                                    !.listed = {}, !.pending = {}]
  <2>1. sync' = [sync EXCEPT ![s] = new]
    BY <1>2 DEF Unavailable
  <2>2. sync[s].how + 1 \in DOMAIN Strategies[Families[sync[s].at]] /\ sync[s].how + 1 \in 1..3
    BY <1>1, <1>2, EndpointType DEF Unavailable, HasEndpoint, Mode, Kind
  <2>3. new \in SyncStates
    BY <1>1, <2>2, RestartType
  <2>4. new.pc = "listing" /\ new.at = sync[s].at /\ new.how = sync[s].how + 1
    BY <1>1 DEF SyncStates
  <2> HIDE DEF new
  <2>a. HasEndpoint(new)
    BY <1>1, <2>2, <2>4 DEF HasEndpoint
  <2>5. UNCHANGED <<upstream, changes, rows, put, del, server, status, result, steady, faults>>
    BY <1>2 DEF Unavailable
  <2>6. QED
    BY <2>1, <2>3, <2>4, <2>5, <2>a, OwnStep
<1>3. CASE Refused(s)
  BY <1>3, RollbackStep, FaultType DEF Refused
<1>4. CASE Skipped(s)
  BY <1>1, <1>4, NextTableStep, FaultType DEF Skipped, Unsteady
<1>5. CASE Truncated(s)
  <2> DEFINE new == [sync[s] EXCEPT !.pc = "upserting", !.pending = sync[s].listed]
  <2>1. sync' = [sync EXCEPT ![s] = new]
    BY <1>5 DEF Truncated
  <2>2. "upserting" \in {"idle"} \cup Under /\ sync[s].listed \in SUBSET Ids
    BY <1>1 DEF Under, SyncStates
  <2>3. new \in SyncStates
    BY <1>1, <2>2, TruncateType
  <2>4. new.pc = "upserting" /\ HasEndpoint(new)
    BY <1>1 DEF SyncStates, HasEndpoint
  <2> HIDE DEF new
  <2>5. faults' \in 0..MaxFaults /\ steady' \in [Syncs -> SUBSET Tables]
    BY <1>5, FaultType DEF Truncated, Unsteady
  <2>6. UNCHANGED <<upstream, changes, rows, put, del, server, status, result>>
    BY <1>5 DEF Truncated
  <2>7. QED
    BY <1>1, <2>1, <2>3, <2>4, <2>5, <2>6, OwnStep
<1>6. QED
  BY <1>2, <1>3, <1>4, <1>5

LEMMA WriteType ==
  ASSUME TypeOK, NEW s \in Syncs, NEW t \in Tables, NEW a \in SUBSET Ids, NEW b \in SUBSET Ids,
         put' = [put EXCEPT ![s][t] = a], del' = [del EXCEPT ![s][t] = b]
  PROVE  /\ put' \in [Syncs -> [Tables -> SUBSET Ids]] /\ del' \in [Syncs -> [Tables -> SUBSET Ids]]
         /\ \A r \in Syncs : r # s => put'[r] = put[r] /\ del'[r] = del[r]
  BY DEF TypeOK

LEMMA UpsertStep ==
  ASSUME IInv, NEW s \in Syncs, Upsert(s)
  PROVE  IInv'
<1> DEFINE t    == sync[s].at
           more == Mode(s) = "stream" /\ (sync[s].page + 1) * PageSize < sync[s].total
           pc   == IF more THEN "listing" ELSE "purging"
           page == IF more THEN sync[s].page + 1 ELSE sync[s].page
           new  == [sync[s] EXCEPT !.pc = pc, !.page = page, !.pending = {}]
<1>1. sync[s] \in SyncStates /\ HasEndpoint(sync[s]) /\ t \in Tables
  BY DEF Upsert, IInv, TypeOK, AtTable, HasEndpoint
<1>2. /\ put' \in [Syncs -> [Tables -> SUBSET Ids]] /\ del' \in [Syncs -> [Tables -> SUBSET Ids]]
      /\ \A r \in Syncs : r # s => put'[r] = put[r] /\ del'[r] = del[r]
  <2>1. put[s][t] \cup sync[s].pending \in SUBSET Ids /\ del[s][t] \ sync[s].pending \in SUBSET Ids
    BY <1>1 DEF IInv, TypeOK, SyncStates
  <2>2. QED
    BY <1>1, <2>1, WriteType DEF Upsert, IInv
<1>3. sync' = [sync EXCEPT ![s] = new]
  BY DEF Upsert
<1> HIDE DEF more
<1>4. pc \in {"idle"} \cup Under /\ page \in Nat /\ {} \in SUBSET Ids /\ pc \in {"listing", "purging"}
  BY <1>1 DEF SyncStates, Under
<1> HIDE DEF pc, page
<1>5. new \in SyncStates
  BY <1>1, <1>4, AdvanceType
<1>6. new.pc \in {"listing", "purging"} /\ HasEndpoint(new)
  BY <1>1, <1>4 DEF SyncStates, HasEndpoint
<1> HIDE DEF new
<1>7. TypeOK'
  <2>1. sync' \in [Syncs -> SyncStates]
    BY <1>3, <1>5 DEF IInv, TypeOK
  <2>2. UNCHANGED <<upstream, changes, rows, server, status, result, steady, faults>>
    BY DEF Upsert, world, keys
  <2>3. QED
    BY <1>2, <2>1, <2>2 DEF IInv, TypeOK
<1>8. sync'[s] = new /\ \A r \in Syncs : r # s => sync'[r] = sync[r]
  BY <1>3 DEF IInv, TypeOK
<1>9. AtTable'
  BY <1>6, <1>8 DEF IInv, AtTable, HasEndpoint, AtStart, Tables
<1>10. Untouched'
  <2> SUFFICES ASSUME NEW r \in Syncs,
                      sync'[r].pc \notin {"listing", "upserting", "purging", "committing"}
               PROVE  put'[r] = Nothing /\ del'[r] = Nothing
    BY DEF Untouched, Nothing, Tables
  <2> QED
    BY <1>2, <1>6, <1>8 DEF IInv, Untouched
<1>11. QED
  BY <1>7, <1>9, <1>10 DEF IInv

LEMMA CommitStep ==
  ASSUME IInv, NEW s \in Syncs, Commit(s)
  PROVE  IInv'
<1>1. rows' \in [Tables -> SUBSET Ids]
  BY DEF Commit, View, IInv, TypeOK
<1>2. "publishing" \in {"idle"} \cup Under
  BY DEF Under
<1>3. server' \in {"absent", "none", "some"} /\ steady' \in [Syncs -> SUBSET Tables]
  BY DEF Commit, IInv, TypeOK
<1>4. UNCHANGED <<upstream, changes, status, result, faults>>
  BY DEF Commit, world, keys
<1>5. QED
  BY <1>1, <1>2, <1>3, <1>4, OverStep DEF Commit, IInv, TypeOK

LEMMA WriteStep ==
  ASSUME IInv, NEW s \in Syncs, Write(s)
  PROVE  IInv'
<1> USE DEF world, transaction, keys
<1>1. faults \in 0..MaxFaults
  BY DEF IInv, TypeOK
<1>2. CASE Upsert(s)
  BY <1>2, UpsertStep
<1>3. CASE UpsertOrphaned(s) \/ Deadlocked(s) \/ CommitOrphaned(s)
  BY <1>1, <1>3, RollbackStep DEF UpsertOrphaned, Deadlocked, CommitOrphaned
<1>4. CASE Purge(s)
  <2>1. sync[s].at \in Tables
    BY <1>4 DEF Purge, IInv, AtTable, HasEndpoint
  <2>2. /\ put[s][sync[s].at] \ Stale(s) \in SUBSET Ids
        /\ del[s][sync[s].at] \cup Stale(s) \in SUBSET Ids
    BY <2>1 DEF Stale, View, IInv, TypeOK
  <2>3. /\ put' \in [Syncs -> [Tables -> SUBSET Ids]] /\ del' \in [Syncs -> [Tables -> SUBSET Ids]]
        /\ \A r \in Syncs : r # s => put'[r] = put[r] /\ del'[r] = del[r]
    BY <1>4, <2>1, <2>2, WriteType DEF Purge, IInv
  <2>4. UNCHANGED <<upstream, changes, rows, server, status, result, steady, faults>>
    BY <1>4 DEF Purge
  <2>5. steady \in [Syncs -> SUBSET Tables]
    BY DEF IInv, TypeOK
  <2>6. QED
    BY <1>1, <1>4, <2>3, <2>4, <2>5, NextTableStep DEF Purge
<1>5. CASE Commit(s)
  BY <1>5, CommitStep
<1>6. QED
  BY <1>2, <1>3, <1>4, <1>5 DEF Write

LEMMA ReportStep ==
  ASSUME IInv, NEW s \in Syncs, Report(s)
  PROVE  IInv'
<1> USE DEF world, transaction, keys
<1>1. sync[s] \in SyncStates /\ AtStart(sync[s]) /\ put[s] = Nothing /\ del[s] = Nothing
  BY DEF Report, Publish, Settle, RecordError, PersistError, SettleError, IInv, TypeOK, AtTable, Untouched
<1>2. PICK pc \in {"settling", "idle", "recording", "erring"} :
          sync' = [sync EXCEPT ![s] = [sync[s] EXCEPT !.pc = pc]]
  BY DEF Report, Publish, Settle, RecordError, PersistError, SettleError, Goto
<1> DEFINE new == [sync[s] EXCEPT !.pc = pc]
<1>3. new \in SyncStates /\ AtStart(new) /\ new.pc = pc
  BY <1>1 DEF SyncStates, Under, AtStart
<1> HIDE DEF new
<1>4. sync' = [sync EXCEPT ![s] = new]
  BY <1>2 DEF new
<1>5. UNCHANGED <<upstream, changes, rows, put, del, steady>>
  BY DEF Report, Publish, Settle, RecordError, PersistError, SettleError
<1>6. /\ server' \in {"absent", "none", "some"}
      /\ status' \in {"missing", "running", "idle", "error"}
      /\ result' \in {"missing", "success", "error"}
      /\ faults' \in 0..MaxFaults
  BY FaultType DEF Report, Publish, Settle, RecordError, PersistError, SettleError, IInv, TypeOK
<1>7. QED
  BY <1>1, <1>3, <1>4, <1>5, <1>6, OwnStep DEF IInv, TypeOK

LEMMA WorldStep ==
  ASSUME IInv, ExpireStatus \/ ExpireResult \/ DeleteServer \/ \E t \in Tables, i \in Ids : Change(t, i)
  PROVE  IInv'
<1> USE DEF world, transaction, keys
<1>1. UNCHANGED <<sync, put, del, faults>>
  BY DEF ExpireStatus, ExpireResult, DeleteServer, Change
<1>2. AtTable' /\ Untouched'
  BY <1>1 DEF IInv, AtTable, Untouched, HasEndpoint, AtStart, Tables, Nothing
<1>3. CASE ExpireStatus \/ ExpireResult
  BY <1>2, <1>3 DEF ExpireStatus, ExpireResult, IInv, TypeOK
<1>4. CASE DeleteServer
  BY <1>2, <1>4, IdleType DEF DeleteServer, IInv, TypeOK
<1>5. CASE \E t \in Tables, i \in Ids : Change(t, i)
  <2>1. PICK t \in Tables, i \in Ids : Change(t, i)
    BY <1>5
  <2>2. upstream' \in [Tables -> SUBSET Ids] /\ changes' \in 0..MaxChanges
    BY <2>1, BoundsAssumption DEF Change, IInv, TypeOK
  <2>3. steady' \in [Syncs -> SUBSET Tables]
    BY <2>1 DEF Change, IInv, TypeOK
  <2>4. QED
    BY <1>2, <2>1, <2>2, <2>3 DEF Change, IInv, TypeOK
<1>6. QED
  BY <1>3, <1>4, <1>5

LEMMA CrashStep ==
  ASSUME IInv, NEW s \in Syncs, Crash(s) \/ PublishFails(s)
  PROVE  IInv'
<1> USE DEF world, transaction, keys
<1>1. CASE Crash(s)
  <2>1. Idle = [Idle EXCEPT !.pc = "idle"]
    BY DEF Idle
  <2>2. faults' \in 0..MaxFaults
    BY <1>1, FaultType DEF Crash, IInv
  <2>3. UNCHANGED <<upstream, changes, rows, server, status, result, steady>>
    BY <1>1 DEF Crash
  <2>4. QED
    BY <1>1, <2>1, <2>2, <2>3, OverStep DEF Crash, IInv, TypeOK
<1>2. CASE PublishFails(s)
  BY <1>2, RollbackStep, FaultType DEF PublishFails, IInv
<1>3. QED
  BY <1>1, <1>2

LEMMA Inductive == IInv /\ [Next]_vars => IInv'
<1> SUFFICES ASSUME IInv, [Next]_vars PROVE IInv'
  OBVIOUS
<1>1. ASSUME NEW s \in Syncs, Start(s) \/ Progress(s) \/ Mishap(s) PROVE IInv'
  BY <1>1, StartStep, ListingType, WriteStep, ReportStep, MishapStep, CrashStep DEF Progress, Mishap
<1>2. CASE UNCHANGED vars
  BY <1>2 DEF vars, IInv, TypeOK, AtTable, Untouched, HasEndpoint, AtStart, Tables, Nothing
<1>3. QED
  BY <1>1, <1>2, WorldStep DEF Next

\* Every variable keeps its type: in particular a sync never runs out of
\* endpoints to fall back to, and never works on a table past the last one.
THEOREM TypeCorrect == Spec => []TypeOK
<1>1. IInv => TypeOK
  BY DEF IInv
<1>2. QED
  BY Initially, Inductive, <1>1, PTL DEF Spec

\* However a sync ends - committed, failed on any call, deadlocked, crashed, its
\* server deleted under it - it has no row of any table written or locked.
THEOREM Released == Spec => []OverMeansReleased
<1>1. IInv => OverMeansReleased
  BY DEF IInv, Untouched, OverMeansReleased, Locked, Nothing
<1>2. QED
  BY Initially, Inductive, <1>1, PTL DEF Spec

-----------------------------------------------------------------------------
(* Paging: a listing that does not change is read page by page to its end. *)

\* The ids listed before rank n.
First(S, n) == {i \in S : Rank(S, i) < n}

LEMMA Minimum ==
  ASSUME NEW X, X \subseteq Nat, X # {}
  PROVE  \E m \in X : \A x \in X : m <= x
<1>1. PICK m \in X : \A x \in X : <<x, m>> \notin OpToRel(<, Nat)
  BY NatLessThanWellFounded, WFMin
<1>2. \A x \in X : ~(x < m)
  BY <1>1 DEF OpToRel
<1>3. QED
  BY <1>2

LEMMA Maximum ==
  ASSUME NEW X, X \subseteq Ids, X # {}
  PROVE  \E m \in X : \A x \in X : x <= m
<1> DEFINE Bounds == {b \in Nat : \A x \in X : x <= b}
<1>1. X \subseteq Nat /\ MaxId \in Bounds
  BY BoundsAssumption DEF Ids
<1>2. PICK m \in Bounds : \A b \in Bounds : m <= b
  <2>1. Bounds \subseteq Nat /\ Bounds # {}
    BY <1>1
  <2> HIDE DEF Bounds
  <2>2. QED
    BY <2>1, Minimum
<1>3. SUFFICES ASSUME m \notin X PROVE FALSE
  BY <1>2
<1>4. \A x \in X : x <= m - 1
  BY <1>1, <1>2, <1>3
<1>5. m - 1 \in Bounds
  <2>1. PICK x \in X : x \in Nat /\ 1 <= x /\ x <= m
    <3>1. PICK x \in X : TRUE
      OBVIOUS
    <3>2. x \in Nat /\ 1 <= x
      BY BoundsAssumption DEF Ids
    <3>3. QED
      BY <1>2, <3>2
  <2>2. m \in Nat /\ m - 1 \in Nat
    BY <1>2, <2>1
  <2>3. QED
    BY <1>4, <2>2
<1>6. QED
  BY <1>2, <1>5

LEMMA FiniteIds ==
  ASSUME NEW S \in SUBSET Ids
  PROVE  S \subseteq Nat /\ IsFiniteSet(S) /\ Cardinality(S) \in Nat
<1>1. IsFiniteSet(Ids) /\ Ids \subseteq Nat
  BY BoundsAssumption, FS_Interval DEF Ids
<1>2. QED
  BY <1>1, FS_Subset, FS_CardinalityType

LEMMA RankType ==
  ASSUME NEW S \in SUBSET Ids, NEW i \in Ids
  PROVE  /\ IsFiniteSet(S) /\ Cardinality(S) \in Nat /\ Rank(S, i) \in Nat
         /\ i \in S => Rank(S, i) < Cardinality(S)
<1> DEFINE before == {j \in S : j < i}
<1>1. IsFiniteSet(S) /\ Cardinality(S) \in Nat
  BY FiniteIds
<1>2. before \in SUBSET S /\ i \notin before
  BY BoundsAssumption DEF Ids
<1>3. IsFiniteSet(before) /\ Cardinality(before) \in Nat /\ Cardinality(before) <= Cardinality(S)
  BY <1>1, <1>2, FS_Subset, FS_CardinalityType
<1>4. i \in S => Cardinality(before) # Cardinality(S)
  BY <1>1, <1>2, FS_Subset
<1>5. Rank(S, i) = Cardinality(before)
  BY DEF Rank
<1> HIDE DEF before
<1>6. QED
  BY <1>1, <1>3, <1>4, <1>5

\* The ranks have no gap: what follows the objects before rank n has rank n.
LEMMA RanksFollow ==
  ASSUME NEW S \in SUBSET Ids, NEW n \in Nat, First(S, n) # S
  PROVE  \E i \in S : Rank(S, i) = n
<1> DEFINE Rest == {i \in S : ~(Rank(S, i) < n)}
<1>1. PICK i \in Rest : \A j \in Rest : i <= j
  <2>1. Rest \subseteq Nat /\ Rest # {}
    BY FiniteIds DEF First
  <2> HIDE DEF Rest
  <2>2. QED
    BY <2>1, Minimum
<1> DEFINE before == {j \in S : j < i}
<1>2. i \in S /\ i \in Ids /\ Rank(S, i) = Cardinality(before) /\ Rank(S, i) \in Nat /\ ~(Rank(S, i) < n)
  BY <1>1, RankType DEF Rank
<1>3. \A j \in before : j \in Ids /\ Rank(S, j) < n /\ Rank(S, j) \in Nat
  <2> SUFFICES ASSUME NEW j \in before PROVE j \in Ids /\ Rank(S, j) < n /\ Rank(S, j) \in Nat
    OBVIOUS
  <2>1. j \in S /\ j \in Ids /\ j < i /\ ~(i <= j)
    BY <1>2, BoundsAssumption DEF Ids
  <2>2. j \notin Rest
    BY <1>1, <2>1
  <2>3. QED
    BY <2>1, <2>2, RankType
<1>4. CASE before = {}
  BY <1>2, <1>4, FS_EmptySet
<1>5. CASE before # {}
  <2>1. before \subseteq Ids
    BY <1>3
  <2> DEFINE lower(m) == {j \in S : j < m}
  <2>2. PICK m \in before : \A x \in before : x <= m
    <3> HIDE DEF before
    <3>1. QED
      BY <2>1, <1>5, Maximum
  <2>3. before = lower(m) \cup {m} /\ m \notin lower(m)
    <3>1. m \in Nat /\ i \in Nat /\ S \subseteq Nat /\ m < i /\ m \in S
      BY <1>2, FiniteIds
    <3>2. \A x \in S : x < i => x <= m
      BY <2>2
    <3>3. \A x \in S : x \in Nat
      BY <3>1
    <3>4. \A x \in S : x < i <=> (x < m \/ x = m)
      BY <3>1, <3>2, <3>3
    <3>5. before = lower(m) \cup {m}
      BY <3>1, <3>4
    <3>6. ~(m < m)
      BY <3>1
    <3>7. QED
      BY <3>5, <3>6
  <2>4. IsFiniteSet(lower(m)) /\ Cardinality(lower(m)) = Rank(S, m)
    BY <1>2, RankType, FS_Subset DEF Rank
  <2>5. Cardinality(before) = Rank(S, m) + 1
    <3> HIDE DEF before, lower
    <3>1. QED
      BY <2>3, <2>4, FS_AddElement
  <2>6. QED
    BY <1>2, <1>3, <2>2, <2>5
<1>6. QED
  BY <1>4, <1>5

\* What the next page adds to what is listed, and when it was the last one.
LEMMA PageFollows ==
  ASSUME NEW S \in SUBSET Ids, NEW p \in Nat
  PROVE  /\ p * PageSize \in Nat /\ (p + 1) * PageSize \in Nat
         /\ First(S, 0) = {}
         /\ First(S, p * PageSize) \cup Page(S, p) = First(S, (p + 1) * PageSize)
         /\ Page(S, p) = {} => First(S, p * PageSize) = S
         /\ ~((p + 1) * PageSize < Cardinality(S)) => First(S, (p + 1) * PageSize) = S
<1>1. /\ PageSize \in Nat \ {0} /\ p * PageSize \in Nat /\ (p + 1) * PageSize \in Nat
      /\ p * PageSize < (p + 1) * PageSize
  <2>1. (p + 1) * PageSize = p * PageSize + PageSize /\ p * PageSize \in Nat
    BY BoundsAssumption
  <2>2. QED
    BY <2>1, BoundsAssumption
<1> DEFINE a == p * PageSize
           b == (p + 1) * PageSize
<1>2. \A i \in S : i \in Ids /\ Rank(S, i) \in Nat /\ Rank(S, i) < Cardinality(S)
  BY RankType
<1>3. Page(S, p) = {i \in S : a <= Rank(S, i) /\ Rank(S, i) < b}
  BY DEF Page
<1>4. a \in Nat /\ b \in Nat /\ a < b
  BY <1>1
<1> HIDE DEF a, b
<1>5. First(S, 0) = {} /\ First(S, a) \cup Page(S, p) = First(S, b)
  BY <1>2, <1>3, <1>4 DEF First
<1>6. ASSUME Page(S, p) = {} PROVE First(S, a) = S
  <2>1. SUFFICES ASSUME First(S, a) # S PROVE FALSE
    OBVIOUS
  <2>2. PICK i \in S : Rank(S, i) = a
    BY <1>4, <2>1, RanksFollow
  <2>3. QED
    BY <1>2, <1>3, <1>4, <1>6, <2>2
<1>7. ASSUME ~(b < Cardinality(S)) PROVE First(S, b) = S
  <2>1. Cardinality(S) \in Nat
    BY FiniteIds
  <2>2. QED
    BY <1>2, <1>4, <1>7, <2>1 DEF First
<1>8. QED
  BY <1>1, <1>5, <1>6, <1>7 DEF a, b

-----------------------------------------------------------------------------
(* The mirror.                                                             *)

\* What sync r has read of the table it is at, and what its transaction shows of
\* it, when that table has not changed since r began to list it.
KindOf(r) == Families[r.at]
ModeOf(r) == Strategies[Families[r.at]][r.how]

Complete(r, there, view) ==
    /\ r.pc = "listing" =>
           /\ r.listed = First(there, r.page * PageSize)
           /\ ModeOf(r) = "stream" => r.listed \subseteq view
           /\ KindOf(r) = "patches" /\ r.page # 0 => r.total = Cardinality(there)
    /\ r.pc = "upserting" =>
           /\ r.listed \ r.pending \subseteq view
           /\ IF ModeOf(r) = "stream"
              THEN r.listed = First(there, (r.page + 1) * PageSize) /\ r.total = Cardinality(there)
              ELSE r.listed = there
    /\ r.pc = "purging" => r.listed = there /\ there \subseteq view

\* The tables it listed completely are behind it, and its view of them is right.
Behind(s) ==
    \A t \in steady[s] :
        /\ t <= sync[s].at
        /\ t < sync[s].at => View(s, t) = upstream[t]
        /\ sync[s].pc = "committing" => t < sync[s].at

Active == {"listing", "upserting", "purging"}

\* A listing starts with nothing listed, and steady speaks of this sync only.
Mirror(s) ==
    /\ sync[s].pc = "opening" => steady[s] = {}
    /\ sync[s].pc \notin {"upserting", "purging"} /\ sync[s].page = 0 => sync[s].listed = {}
    /\ sync[s].pc \in Active \cup {"committing"} => Behind(s)
    /\ sync[s].pc \in Active /\ sync[s].at \in steady[s] =>
           Complete(sync[s], upstream[sync[s].at], View(s, sync[s].at))

MirrorInv == \A s \in Syncs : Mirror(s)

\* A sync that does not move: others may only tell it that a table changed.
Undisturbed(s) ==
    /\ sync'[s] = sync[s] /\ put'[s] = put[s] /\ del'[s] = del[s]
    /\ steady'[s] \subseteq steady[s]
    /\ steady'[s] = {} \/ rows' = rows
    /\ \A t \in steady'[s] : upstream'[t] = upstream[t]

LEMMA MirrorStays ==
  ASSUME IInv, NEW s \in Syncs, Mirror(s), Undisturbed(s)
  PROVE  Mirror(s)'
<1>1. \A t \in steady'[s] : t \in steady[s] /\ upstream'[t] = upstream[t] /\ View(s, t)' = View(s, t)
  BY DEF Undisturbed, View
<1>2. sync'[s] = sync[s] /\ (steady[s] = {} => steady'[s] = {})
  BY DEF Undisturbed
<1>3. sync[s].pc \in Active \cup {"committing"} => Behind(s)'
  BY <1>1, <1>2 DEF Mirror, Behind
<1>4. sync[s].pc \in Active /\ sync[s].at \in steady'[s] =>
          Complete(sync[s], upstream[sync[s].at], View(s, sync[s].at))'
  BY <1>1, <1>2 DEF Mirror, Complete, KindOf, ModeOf, First, Rank
<1>5. QED
  BY <1>2, <1>3, <1>4 DEF Mirror

\* A step of one sync, for the others.
LEMMA OthersUndisturbed ==
  ASSUME IInv, NEW s \in Syncs, Start(s) \/ Progress(s) \/ Mishap(s), NEW r \in Syncs, r # s
  PROVE  Undisturbed(r)
<1> USE DEF IInv, TypeOK, world, transaction, keys, Undisturbed
<1>1. CASE Start(s) \/ Open(s) \/ NotFound(s)
  BY <1>1 DEF Start, Open, NotFound, Goto
<1>2. CASE List(s)
  <2>1. PICK lost : Listed(s, lost)
    BY <1>2 DEF List, ListStream, ListPage, ListAll
  <2>2. steady'[r] = steady[r]
    BY <2>1 DEF Listed
  <2>3. QED
    BY <1>2, <2>2 DEF List, ListStream, ListPage, ListAll
<1>3. CASE Upsert(s) \/ Purge(s)
  BY <1>3 DEF Upsert, Purge, NextTable
<1>4. CASE UpsertOrphaned(s) \/ Deadlocked(s) \/ CommitOrphaned(s)
  BY <1>4 DEF UpsertOrphaned, Deadlocked, CommitOrphaned, Rollback
<1>5. CASE Commit(s)
  BY <1>5 DEF Commit
<1>6. CASE Report(s)
  BY <1>6 DEF Report, Publish, Settle, RecordError, PersistError, SettleError, Goto
<1>7. CASE OpenFails(s) \/ Refused(s) \/ PublishFails(s) \/ Crash(s)
  BY <1>7 DEF OpenFails, Refused, PublishFails, Crash, Rollback
<1>8. CASE Unavailable(s) \/ Skipped(s) \/ Truncated(s)
  BY <1>8 DEF Unavailable, Skipped, Truncated, NextTable, Unsteady
<1>9. QED
  BY <1>1, <1>2, <1>3, <1>4, <1>5, <1>6, <1>7, <1>8 DEF Progress, Mishap, Write

\* A step after which the sync has no transaction open, nor reports one.
LEMMA MirrorOver ==
  ASSUME NEW s \in Syncs, sync'[s].pc \notin Active \cup {"opening", "committing"},
         sync'[s].page = 0 => sync'[s].listed = {}
  PROVE  Mirror(s)'
BY DEF Mirror, Active

LEMMA MirrorEnds ==
  ASSUME IInv, NEW s \in Syncs, Mirror(s),
         \/ UpsertOrphaned(s) \/ Deadlocked(s) \/ CommitOrphaned(s) \/ Commit(s)
         \/ OpenFails(s) \/ Refused(s) \/ PublishFails(s) \/ Crash(s)
         \/ NotFound(s) \/ Report(s)
  PROVE  Mirror(s)'
<1> USE DEF IInv, TypeOK
<1>1. CASE Rollback(s) \/ Crash(s) \/ Commit(s)
  <2>1. /\ sync'[s].pc \in {"failed", "idle", "publishing"}
        /\ sync'[s].listed = {}
    <3>1. PICK pc \in {"failed", "idle", "publishing"} : sync' = [sync EXCEPT ![s] = [Idle EXCEPT !.pc = pc]]
      <4>1. Idle = [Idle EXCEPT !.pc = "idle"]
        BY DEF Idle
      <4>2. QED
        BY <1>1, <4>1 DEF Rollback, Crash, Commit
    <3>2. [Idle EXCEPT !.pc = pc].pc = pc /\ [Idle EXCEPT !.pc = pc].listed = {}
      BY DEF Idle
    <3>3. QED
      BY <3>1, <3>2
  <2>2. QED
    BY <2>1, MirrorOver DEF Active
<1>2. CASE NotFound(s) \/ Report(s)
  <2>1. PICK pc \in {"idle", "settling", "recording", "erring"} : sync' = [sync EXCEPT ![s].pc = pc]
    BY <1>2 DEF NotFound, Report, Publish, Settle, RecordError, PersistError, SettleError, Goto
  <2>2. sync[s].pc \notin {"upserting", "purging"}
    BY <1>2 DEF NotFound, Report, Publish, Settle, RecordError, PersistError, SettleError
  <2>3. sync'[s].pc = pc /\ sync'[s].page = sync[s].page /\ sync'[s].listed = sync[s].listed
    BY <2>1 DEF SyncStates
  <2>4. QED
    BY <2>2, <2>3, MirrorOver DEF Active, Mirror
<1>3. QED
  BY <1>1, <1>2 DEF UpsertOrphaned, Deadlocked, CommitOrphaned, OpenFails, Refused, PublishFails

LEMMA MirrorBegins ==
  ASSUME IInv, NEW s \in Syncs, Mirror(s), Start(s) \/ Open(s)
  PROVE  Mirror(s)'
<1>1. PICK pc \in {"opening", "listing", "committing"} :
          /\ sync'[s].pc = pc /\ sync'[s].page = sync[s].page /\ sync'[s].listed = sync[s].listed
  BY DEF Start, Open, Goto, IInv, TypeOK, SyncStates
<1>2. steady'[s] = {} /\ sync[s].pc \in {"idle", "opening"}
  BY DEF Start, Open, IInv, TypeOK, Mirror
<1>3. QED
  BY <1>1, <1>2 DEF Mirror, Behind

\* Only the table a sync is at changes for it while it lists or writes.
LEMMA MirrorLists ==
  ASSUME IInv, NEW s \in Syncs, Mirror(s), sync[s].pc \in Active, sync'[s].pc \in Active,
         sync'[s].at = sync[s].at, UNCHANGED <<upstream, rows>>,
         \A t \in Tables \ {sync[s].at} : put'[s][t] = put[s][t] /\ del'[s][t] = del[s][t],
         steady'[s] \subseteq steady[s] \cup {sync[s].at},
         sync'[s].pc = "listing" /\ sync'[s].page = 0 => sync'[s].listed = {},
         sync[s].at \in steady'[s] => Complete(sync'[s], upstream[sync[s].at], View(s, sync[s].at)')
  PROVE  Mirror(s)'
<1>1. steady[s] \subseteq Tables /\ sync[s].at \in Tables /\ \A t \in Tables : t \in Nat
  BY DEF IInv, TypeOK, AtTable, HasEndpoint, Active, Tables
<1>2. \A t \in Tables \ {sync[s].at} : View(s, t)' = View(s, t)
  BY DEF View
<1>3. Behind(s)'
  <2>1. ASSUME NEW t \in steady'[s] PROVE t <= sync[s].at /\ (t < sync[s].at => View(s, t)' = upstream[t])
    <3>1. CASE t = sync[s].at
      BY <1>1, <3>1
    <3>2. CASE t # sync[s].at
      BY <1>1, <1>2, <3>2 DEF Mirror, Behind
    <3>3. QED
      BY <3>1, <3>2
  <2>2. QED
    BY <2>1 DEF Behind, Active
<1>4. Complete(sync'[s], upstream[sync[s].at], View(s, sync[s].at)') <=>
          Complete(sync[s], upstream[sync[s].at], View(s, sync[s].at))'
  BY DEF Complete, KindOf, ModeOf, First, Rank
<1>5. QED
  BY <1>3, <1>4 DEF Mirror, Active

\* A sync that goes on with the next table leaves this one behind as it should be.
LEMMA MirrorNext ==
  ASSUME IInv, NEW s \in Syncs, Mirror(s), sync[s].pc \in Active, NextTable(s),
         UNCHANGED <<upstream, rows>>,
         \A t \in Tables \ {sync[s].at} : put'[s][t] = put[s][t] /\ del'[s][t] = del[s][t],
         steady'[s] \subseteq steady[s],
         \A t \in steady'[s] : t = sync[s].at => View(s, t)' = upstream[t]
  PROVE  Mirror(s)'
<1>1. steady[s] \subseteq Tables /\ sync[s].at \in Tables /\ \A t \in Tables : t \in Nat
  BY DEF IInv, TypeOK, AtTable, HasEndpoint, Active, Tables
<1>2. \A t \in Tables \ {sync[s].at} : View(s, t)' = View(s, t)
  BY DEF View
<1>3. /\ sync'[s].pc \in {"listing", "committing"} /\ sync'[s].at = sync[s].at + 1
      /\ sync'[s].listed = {}
  BY DEF NextTable, IInv, TypeOK, Idle
<1>4. \A t \in steady'[s] : t < sync'[s].at /\ View(s, t)' = upstream[t]
  <2> SUFFICES ASSUME NEW t \in steady'[s] PROVE t < sync'[s].at /\ View(s, t)' = upstream[t]
    OBVIOUS
  <2>1. CASE t = sync[s].at
    BY <1>1, <1>3, <2>1
  <2>2. CASE t # sync[s].at
    BY <1>1, <1>2, <1>3, <2>2 DEF Mirror, Behind
  <2>3. QED
    BY <2>1, <2>2
<1>5. Behind(s)' /\ sync'[s].at \notin steady'[s]
  <2>1. sync'[s].at \in Nat
    BY <1>1, <1>3
  <2>2. QED
    BY <1>1, <1>4, <2>1 DEF Behind
<1>6. QED
  BY <1>3, <1>5 DEF Mirror, Active

LEMMA MirrorAfterMishap ==
  ASSUME IInv, NEW s \in Syncs, Mirror(s), Unavailable(s) \/ Skipped(s) \/ Truncated(s)
  PROVE  Mirror(s)'
<1> USE DEF world, transaction, IInv, TypeOK
<1>1. sync[s] \in SyncStates /\ sync[s].at \in Tables /\ sync[s].pc = "listing"
  BY DEF Unavailable, Skipped, Truncated, AtTable, HasEndpoint
<1>2. CASE Unavailable(s)
  <2>1. /\ sync'[s].pc = "listing" /\ sync'[s].at = sync[s].at /\ sync'[s].page = 0
        /\ sync'[s].listed = {}
    BY <1>1, <1>2 DEF Unavailable, SyncStates
  <2>2. First(upstream[sync[s].at], 0 * PageSize) = {}
    <3>1. upstream[sync[s].at] \in SUBSET Ids /\ 0 * PageSize = 0
      BY <1>1, BoundsAssumption
    <3>2. QED
      BY <3>1, PageFollows
  <2>3. Complete(sync'[s], upstream[sync[s].at], View(s, sync[s].at)')
    BY <2>1, <2>2 DEF Complete
  <2>4. QED
    BY <1>1, <1>2, <2>1, <2>3, MirrorLists DEF Unavailable, Active
<1>3. CASE Skipped(s)
  <2>1. sync[s].at \notin steady'[s] /\ steady'[s] \subseteq steady[s]
    BY <1>3 DEF Skipped, Unsteady
  <2>2. QED
    BY <1>1, <1>3, <2>1, MirrorNext DEF Skipped, Active
<1>4. CASE Truncated(s)
  <2>1. sync'[s].pc = "upserting" /\ sync'[s].at = sync[s].at
    BY <1>1, <1>4 DEF Truncated, SyncStates
  <2>2. sync[s].at \notin steady'[s] /\ steady'[s] \subseteq steady[s]
    BY <1>4 DEF Truncated, Unsteady
  <2>3. QED
    BY <1>1, <1>4, <2>1, <2>2, MirrorLists DEF Truncated, Active
<1>5. QED
  BY <1>2, <1>3, <1>4

\* The first page of a table begins with nothing listed, a later one where the
\* last one ended, when the table has been steady since.
LEMMA ListedSoFar ==
  ASSUME IInv, NEW s \in Syncs, Mirror(s), sync[s].pc = "listing", Listed(s, {}),
         sync[s].at \in steady'[s]
  PROVE  /\ upstream[sync[s].at] \in SUBSET Ids /\ sync[s].page \in Nat
         /\ sync[s].listed = First(upstream[sync[s].at], sync[s].page * PageSize)
         /\ ModeOf(sync[s]) = "stream" => sync[s].listed \subseteq View(s, sync[s].at)
         /\ KindOf(sync[s]) = "patches" /\ sync[s].page # 0 => sync[s].total = Cardinality(upstream[sync[s].at])
<1>1. upstream[sync[s].at] \in SUBSET Ids /\ sync[s].page \in Nat
  BY DEF IInv, TypeOK, SyncStates, AtTable, HasEndpoint
<1>2. CASE sync[s].page = 0
  <2>1. sync[s].listed = {} /\ 0 * PageSize = 0
    BY <1>2, BoundsAssumption DEF Mirror
  <2>2. First(upstream[sync[s].at], 0) = {}
    BY <1>1, PageFollows
  <2>3. QED
    BY <1>1, <1>2, <2>1, <2>2
<1>3. CASE sync[s].page # 0
  <2>1. sync[s].at \in steady[s]
    BY <1>3 DEF Listed, IInv, TypeOK
  <2>2. Complete(sync[s], upstream[sync[s].at], View(s, sync[s].at))
    BY <2>1 DEF Mirror, Active
  <2>3. QED
    BY <1>1, <1>3, <2>2 DEF Complete
<1>4. QED
  BY <1>2, <1>3

LEMMA KindsOfMode ==
  ASSUME IInv, NEW s \in Syncs, sync[s].pc \in Active
  PROVE  /\ ModeOf(sync[s]) = Mode(s) /\ KindOf(sync[s]) = Kind(s)
         /\ Mode(s) = "stream" => Kind(s) = "devices"
<1>1. HasEndpoint(sync[s]) /\ Families[sync[s].at] \in Kinds
  BY FamiliesAssumption DEF IInv, AtTable, HasEndpoint, Active, Tables
<1>2. ModeOf(sync[s]) = Mode(s) /\ KindOf(sync[s]) = Kind(s)
  BY DEF ModeOf, KindOf, Mode, Kind
<1>3. Mode(s) = "stream" => Kind(s) = "devices"
  <2>1. CASE Kind(s) = "devices"
    BY <2>1
  <2>2. CASE Kind(s) \in {"policies", "patches"}
    BY <1>1, <2>2 DEF Mode, Kind, Strategies, HasEndpoint
  <2>3. CASE Kind(s) = "groups"
    BY <1>1, <2>3 DEF Mode, Kind, Strategies, HasEndpoint
  <2>4. QED
    BY <1>1, <2>1, <2>2, <2>3 DEF Kinds, Kind
<1>4. QED
  BY <1>2, <1>3

LEMMA MirrorAfterList ==
  ASSUME IInv, NEW s \in Syncs, Mirror(s), List(s)
  PROVE  Mirror(s)'
<1> USE DEF world, transaction, IInv, TypeOK
<1> DEFINE there == upstream[sync[s].at]
           view  == View(s, sync[s].at)
<1>1. sync[s] \in SyncStates /\ sync[s].at \in Tables /\ sync[s].pc = "listing"
  BY DEF List, ListStream, ListPage, ListAll, AtTable, HasEndpoint
<1>2. there \in SUBSET Ids /\ sync[s].page \in Nat /\ Cardinality(there) \in Nat
  BY <1>1, FiniteIds DEF SyncStates
<1>3. UNCHANGED <<upstream, rows, put, del>>
  BY DEF List, ListStream, ListPage, ListAll
<1>4. ASSUME ListStream(s) PROVE Mirror(s)'
  <2> DEFINE page == Page(there, sync[s].page)
  <2>1. /\ sync'[s].at = sync[s].at /\ sync'[s].how = sync[s].how /\ sync'[s].page = sync[s].page
        /\ sync'[s].pc = IF page = {} THEN "purging" ELSE "upserting"
        /\ sync'[s].total = Cardinality(there)
        /\ sync'[s].listed = sync[s].listed \cup page /\ sync'[s].pending = page
    BY <1>1, <1>4 DEF ListStream, SyncStates
  <2>2. Mode(s) = "stream" /\ Listed(s, {})
    BY <1>4 DEF ListStream
  <2>3. ModeOf(sync[s]) = "stream" /\ ModeOf(sync'[s]) = "stream" /\ KindOf(sync'[s]) = "devices"
    BY <1>1, <2>1, <2>2, KindsOfMode DEF ModeOf, KindOf, Active
  <2>4. ASSUME sync[s].at \in steady'[s] PROVE Complete(sync'[s], there, view)
    <3>1. sync[s].listed = First(there, sync[s].page * PageSize) /\ sync[s].listed \subseteq view
      BY <1>1, <2>2, <2>3, <2>4, ListedSoFar
    <3>2. /\ sync[s].listed \cup page = First(there, (sync[s].page + 1) * PageSize)
          /\ page = {} => sync[s].listed = there
      BY <1>2, <3>1, PageFollows
    <3> HIDE DEF there, view, page
    <3>3. QED
      BY <2>1, <2>3, <3>1, <3>2 DEF Complete
  <2>5. steady'[s] \subseteq steady[s] \cup {sync[s].at}
    BY <2>2 DEF Listed
  <2>6. QED
    BY <1>1, <1>3, <2>1, <2>4, <2>5, MirrorLists DEF Active, View
<1>5. ASSUME ListPage(s) PROVE Mirror(s)'
  <2> DEFINE page  == Page(there, sync[s].page)
             total == IF Kind(s) = "patches" /\ sync[s].page > 0
                      THEN sync[s].total ELSE Cardinality(there)
             more  == /\ (sync[s].page + 1) * PageSize < total
                      /\ Kind(s) = "patches" \/ page # {}
  <2>1. /\ sync'[s].at = sync[s].at /\ sync'[s].how = sync[s].how
        /\ sync'[s].page = IF more THEN sync[s].page + 1 ELSE sync[s].page
        /\ sync'[s].pc = IF more THEN "listing" ELSE "upserting"
        /\ sync'[s].total = total
        /\ sync'[s].listed = sync[s].listed \cup page
        /\ ~more => sync'[s].pending = sync[s].listed \cup page
    BY <1>1, <1>5 DEF ListPage, SyncStates
  <2>2. Mode(s) = "paged" /\ Listed(s, {})
    BY <1>5 DEF ListPage
  <2>3. ModeOf(sync'[s]) = "paged" /\ KindOf(sync'[s]) = Kind(s) /\ KindOf(sync[s]) = Kind(s)
    BY <1>1, <2>1, <2>2, KindsOfMode DEF ModeOf, KindOf, Active
  <2>4. ASSUME sync[s].at \in steady'[s] PROVE Complete(sync'[s], there, view)
    <3>1. /\ sync[s].listed = First(there, sync[s].page * PageSize)
          /\ KindOf(sync[s]) = "patches" /\ sync[s].page # 0 => sync[s].total = Cardinality(there)
      BY <1>1, <2>2, <2>4, ListedSoFar
    <3>2. total = Cardinality(there)
      BY <1>2, <2>3, <3>1
    <3>3. /\ sync[s].listed \cup page = First(there, (sync[s].page + 1) * PageSize)
          /\ page = {} => sync[s].listed \cup page = there
          /\ ~((sync[s].page + 1) * PageSize < total) => sync[s].listed \cup page = there
      BY <1>2, <3>1, <3>2, PageFollows
    <3>4. ~more => sync[s].listed \cup page = there
      BY <3>3
    <3> HIDE DEF there, view, page, total, more
    <3>5. QED
      BY <2>1, <2>3, <3>2, <3>3, <3>4 DEF Complete
  <2>5. steady'[s] \subseteq steady[s] \cup {sync[s].at}
    BY <2>2 DEF Listed
  <2>6. sync'[s].pc \in Active /\ ~(sync'[s].pc = "listing" /\ sync'[s].page = 0)
    <3> HIDE DEF more
    <3>1. QED
      BY <1>2, <2>1 DEF Active
  <2>7. QED
    BY <1>1, <1>3, <2>1, <2>4, <2>5, <2>6, MirrorLists DEF Active, View
<1>6. ASSUME ListAll(s) PROVE Mirror(s)'
  <2>1. PICK lost \in Lost(s, there) :
            /\ sync' = [sync EXCEPT ![s].pc = "upserting", ![s].total = 0,
                                    ![s].listed = there, ![s].pending = there \ lost]
            /\ Listed(s, lost)
    BY <1>6 DEF ListAll
  <2>2. /\ sync'[s].at = sync[s].at /\ sync'[s].how = sync[s].how /\ sync'[s].pc = "upserting"
        /\ sync'[s].listed = there /\ sync'[s].pending = there \ lost
    BY <1>1, <2>1 DEF SyncStates
  <2>3. ModeOf(sync'[s]) # "stream"
    <3>1. Mode(s) = "single" \/ Kind(s) = "patches"
      BY <1>6 DEF ListAll
    <3>2. QED
      BY <1>1, <2>2, <3>1, KindsOfMode DEF ModeOf, Active
  <2>4. ASSUME sync[s].at \in steady'[s] PROVE Complete(sync'[s], there, view)
    <3>1. lost = {}
      BY <2>1, <2>4 DEF Listed
    <3>2. QED
      BY <2>2, <2>3, <3>1 DEF Complete
  <2>5. steady'[s] \subseteq steady[s] \cup {sync[s].at}
    BY <2>1 DEF Listed
  <2>6. QED
    BY <1>1, <1>3, <2>2, <2>4, <2>5, MirrorLists DEF Active, View
<1>7. QED
  BY <1>4, <1>5, <1>6 DEF List

LEMMA MirrorAfterUpsert ==
  ASSUME IInv, NEW s \in Syncs, Mirror(s), Upsert(s)
  PROVE  Mirror(s)'
<1> USE DEF world, IInv, TypeOK
<1> DEFINE there == upstream[sync[s].at]
           view  == View(s, sync[s].at)
           more  == Mode(s) = "stream" /\ (sync[s].page + 1) * PageSize < sync[s].total
<1>1. sync[s] \in SyncStates /\ sync[s].at \in Tables /\ sync[s].pc = "upserting"
  BY DEF Upsert, AtTable, HasEndpoint
<1>2. there \in SUBSET Ids /\ sync[s].page \in Nat
  BY <1>1 DEF SyncStates
<1>3. /\ sync'[s].at = sync[s].at /\ sync'[s].how = sync[s].how
      /\ sync'[s].listed = sync[s].listed
      /\ sync'[s].page = IF more THEN sync[s].page + 1 ELSE sync[s].page
      /\ sync'[s].pc = IF more THEN "listing" ELSE "purging"
  BY <1>1 DEF Upsert, SyncStates
<1>4. View(s, sync[s].at)' = view \cup sync[s].pending
  BY <1>1, <1>3 DEF Upsert, View
<1>5. /\ UNCHANGED <<upstream, rows, steady>>
      /\ \A t \in Tables \ {sync[s].at} : put'[s][t] = put[s][t] /\ del'[s][t] = del[s][t]
  BY <1>1 DEF Upsert
<1>6. ASSUME sync[s].at \in steady'[s]
      PROVE  Complete(sync'[s], there, view \cup sync[s].pending)
  <2>1. Complete(sync[s], there, view)
    BY <1>1, <1>5, <1>6 DEF Mirror, Active
  <2>2. ModeOf(sync[s]) = Mode(s) /\ KindOf(sync[s]) = Kind(s) /\ (Mode(s) = "stream" => Kind(s) = "devices")
    BY <1>1, KindsOfMode DEF Active
  <2>3. ModeOf(sync'[s]) = Mode(s) /\ KindOf(sync'[s]) = Kind(s)
    BY <1>3, <2>2 DEF ModeOf, KindOf
  <2>4. /\ sync[s].listed \subseteq view \cup sync[s].pending
        /\ IF Mode(s) = "stream"
           THEN sync[s].listed = First(there, (sync[s].page + 1) * PageSize) /\ sync[s].total = Cardinality(there)
           ELSE sync[s].listed = there
    BY <1>1, <2>1, <2>2 DEF Complete
  <2>5. ~more => sync[s].listed = there
    BY <1>2, <2>4, PageFollows
  <2> HIDE DEF there, view
  <2>6. CASE more
    BY <1>3, <2>2, <2>3, <2>4, <2>6 DEF Complete
  <2>7. CASE ~more
    BY <1>3, <2>4, <2>5, <2>7 DEF Complete
  <2>8. QED
    BY <2>6, <2>7
<1>7. sync'[s].pc \in Active /\ ~(sync'[s].pc = "listing" /\ sync'[s].page = 0)
  <2> HIDE DEF more
  <2>1. QED
    BY <1>2, <1>3 DEF Active
<1>8. QED
  BY <1>1, <1>3, <1>4, <1>5, <1>6, <1>7, MirrorLists DEF Active

LEMMA MirrorAfterPurge ==
  ASSUME IInv, NEW s \in Syncs, Mirror(s), Purge(s)
  PROVE  Mirror(s)'
<1> USE DEF world, IInv, TypeOK
<1>1. sync[s].at \in Tables /\ sync[s].pc = "purging"
  BY DEF Purge, AtTable, HasEndpoint
<1>2. /\ UNCHANGED <<upstream, rows, steady>>
      /\ \A t \in Tables \ {sync[s].at} : put'[s][t] = put[s][t] /\ del'[s][t] = del[s][t]
  BY <1>1 DEF Purge
<1>3. \A t \in steady'[s] : t = sync[s].at => View(s, t)' = upstream[t]
  <2> SUFFICES ASSUME NEW t, t = sync[s].at, t \in steady[s] PROVE View(s, t)' = upstream[t]
    BY <1>2
  <2>1. sync[s].listed = upstream[t] /\ upstream[t] \subseteq View(s, t)
    BY <1>1 DEF Mirror, Active, Complete
  <2>2. View(s, t)' = View(s, t) \ Stale(s)
    BY <1>1 DEF Purge, View
  <2>3. QED
    BY <2>1, <2>2 DEF Stale
<1>4. QED
  BY <1>1, <1>2, <1>3, MirrorNext DEF Purge, Active

-----------------------------------------------------------------------------
LEMMA MirrorInitially == Init => MirrorInv
<1> SUFFICES ASSUME Init, NEW s \in Syncs PROVE Mirror(s)
  BY DEF MirrorInv
<1>1. sync[s].pc = "idle" /\ sync[s].listed = {}
  BY DEF Init, Idle
<1>2. QED
  BY <1>1 DEF Mirror, Active

LEMMA MirrorInductive == IInv /\ MirrorInv /\ [Next]_vars => MirrorInv'
<1> SUFFICES ASSUME IInv, MirrorInv, [Next]_vars, NEW r \in Syncs PROVE Mirror(r)'
  BY DEF MirrorInv
<1>1. Mirror(r)
  BY DEF MirrorInv
<1>2. ASSUME NEW s \in Syncs, Start(s) \/ Progress(s) \/ Mishap(s) PROVE Mirror(r)'
  <2>1. CASE r # s
    BY <1>1, <1>2, <2>1, OthersUndisturbed, MirrorStays
  <2>2. CASE r = s
    BY <1>1, <1>2, <2>2, MirrorBegins, MirrorEnds, MirrorAfterList, MirrorAfterUpsert,
       MirrorAfterPurge, MirrorAfterMishap DEF Progress, Mishap, Write
  <2>3. QED
    BY <2>1, <2>2
<1>3. CASE ExpireStatus \/ ExpireResult \/ DeleteServer \/ UNCHANGED vars
  <2>1. Undisturbed(r)
    BY <1>3 DEF ExpireStatus, ExpireResult, DeleteServer, vars, world, transaction, Undisturbed
  <2>2. QED
    BY <1>1, <2>1, MirrorStays
<1>4. ASSUME NEW t \in Tables, NEW i \in Ids, Change(t, i) PROVE Mirror(r)'
  <2>1. Undisturbed(r)
    BY <1>4 DEF Change, transaction, Undisturbed, IInv, TypeOK
  <2>2. QED
    BY <1>1, <2>1, MirrorStays
<1>5. QED
  BY <1>2, <1>3, <1>4 DEF Next

\* However many syncs overlap: when one is about to commit, its view of every
\* table that it listed completely and that has not changed since is what the
\* Jamf server has - across pages, abandoned endpoints and waits for locked rows.
THEOREM Mirrors == Spec => []MirrorsUpstream
<1>1. MirrorInv => MirrorsUpstream
  BY DEF MirrorInv, Mirror, Behind, MirrorsUpstream
<1>2. QED
  BY Initially, Inductive, MirrorInitially, MirrorInductive, <1>1, PTL DEF Spec

-----------------------------------------------------------------------------
(* Syncs that do not overlap.                                              *)

\* What the keys and last_sync_error say while the one sync is under way.
Told(s) ==
    /\ sync[s].pc # "idle" => status \in {"running", "missing"}
    /\ sync[s].pc \in Active \cup {"committing"} => server = "absent" \/ sync[s].read = server
    /\ sync[s].pc \in {"publishing", "settling"} => server # "some"
    /\ sync[s].pc = "settling" => result # "error"

\* A key that says "idle" was set by the last sync.
ToldInv == IdleMeansSuccess /\ \A s \in Syncs : Told(s)

LEMMA ToldStart ==
  ASSUME IInv, ToldInv, NEW s \in Syncs, \A r \in Syncs : r = s, Start(s) \/ Open(s) \/ NotFound(s) \/ OpenFails(s)
  PROVE  ToldInv'
<1> USE DEF IInv, TypeOK, ToldInv, Told, Active, keys, IdleMeansSuccess
<1>1. CASE Start(s)
  <2>1. status' = "running" /\ sync'[s].pc = "opening"
    BY <1>1 DEF Start, Goto, SyncStates
  <2>2. QED
    BY <2>1
<1>2. CASE Open(s)
  <2>1. /\ sync'[s].pc \in {"listing", "committing"} /\ sync'[s].read = server
        /\ UNCHANGED <<server, status, result>> /\ status \in {"running", "missing"}
    BY <1>2 DEF Open, SyncStates
  <2>2. QED
    BY <2>1
<1>3. CASE NotFound(s)
  <2>1. status' = "error" /\ sync'[s].pc = "idle"
    BY <1>3 DEF NotFound, Goto, SyncStates
  <2>2. QED
    BY <2>1
<1>4. CASE OpenFails(s)
  <2>1. /\ sync'[s].pc = "failed" /\ UNCHANGED status /\ status \in {"running", "missing"}
    BY <1>4 DEF OpenFails, Rollback, Idle
  <2>2. QED
    BY <2>1
<1>5. QED
  BY <1>1, <1>2, <1>3, <1>4

\* A step between the opening and the commit: the keys and the server stay, and
\* the sync remembers what it read of the server unless it fails.
LEMMA ToldWork ==
  ASSUME IInv, ToldInv, NEW s \in Syncs, \A r \in Syncs : r = s,
         UNCHANGED <<server, status, result>>,
         sync[s].pc \in Active \cup {"committing", "publishing", "settling"},
         \/ sync'[s].pc = "failed"
         \/ /\ sync[s].pc \in Active
            /\ sync'[s].pc \in Active \cup {"committing"} /\ sync'[s].read = sync[s].read
  PROVE  ToldInv'
BY DEF ToldInv, Told, Active, IdleMeansSuccess

LEMMA ToldList ==
  ASSUME IInv, ToldInv, NEW s \in Syncs, \A r \in Syncs : r = s,
         List(s) \/ Upsert(s) \/ Purge(s) \/ Unavailable(s) \/ Skipped(s) \/ Truncated(s)
  PROVE  ToldInv'
<1> USE DEF IInv, TypeOK, keys
<1>1. sync[s].pc \in Active /\ UNCHANGED <<server, status, result>>
  BY DEF List, ListStream, ListPage, ListAll, Upsert, Purge, Unavailable, Skipped, Truncated, Active
<1>2. sync'[s].pc \in Active \cup {"committing"} /\ sync'[s].read = sync[s].read
  <2>1. CASE ListStream(s)
    <3>1. PICK pc \in Active : \E total, listed, pending :
              sync' = [sync EXCEPT ![s].pc = pc, ![s].total = total,
                                   ![s].listed = listed, ![s].pending = pending]
      BY <2>1 DEF ListStream, Active
    <3>2. QED
      BY <3>1 DEF SyncStates
  <2>2. CASE ListPage(s)
    <3>1. PICK pc \in Active : \E page, total, listed, pending :
              sync' = [sync EXCEPT ![s].pc = pc, ![s].page = page, ![s].total = total,
                                   ![s].listed = listed, ![s].pending = pending]
      BY <2>2 DEF ListPage, Active
    <3>2. QED
      BY <3>1 DEF SyncStates
  <2>3. CASE ListAll(s)
    BY <2>3 DEF ListAll, SyncStates, Active
  <2>4. CASE Upsert(s)
    BY <2>4 DEF Upsert, SyncStates, Active
  <2>5. CASE Unavailable(s) \/ Truncated(s)
    BY <1>1, <2>5 DEF Unavailable, Truncated, SyncStates, Active
  <2>6. CASE NextTable(s)
    BY <2>6 DEF NextTable, Idle, Active
  <2>7. QED
    BY <2>1, <2>2, <2>3, <2>4, <2>5, <2>6 DEF List, Purge, Skipped
<1>3. QED
  BY <1>1, <1>2, ToldWork

LEMMA ToldFailure ==
  ASSUME IInv, ToldInv, NEW s \in Syncs, \A r \in Syncs : r = s,
         \/ UpsertOrphaned(s) \/ Deadlocked(s) \/ CommitOrphaned(s)
         \/ Refused(s) \/ PublishFails(s)
  PROVE  ToldInv'
<1>1. sync'[s].pc = "failed"
  BY DEF UpsertOrphaned, Deadlocked, CommitOrphaned, Refused, PublishFails, Rollback, Idle, IInv, TypeOK
<1>2. sync[s].pc \in Active \cup {"committing", "publishing", "settling"}
  <2>1. CASE Deadlocked(s)
    BY <2>1 DEF Deadlocked, WaitsFor, Wanted, Active
  <2>2. QED
    BY <2>1 DEF UpsertOrphaned, CommitOrphaned, Refused, PublishFails, Active
<1>3. UNCHANGED <<server, status, result>>
  BY DEF UpsertOrphaned, Deadlocked, CommitOrphaned, Refused, PublishFails, keys
<1>4. QED
  BY <1>1, <1>2, <1>3, ToldWork

LEMMA ToldReport ==
  ASSUME IInv, ToldInv, NEW s \in Syncs, \A r \in Syncs : r = s,
         Commit(s) \/ Report(s) \/ Crash(s)
  PROVE  ToldInv'
<1> USE DEF IInv, TypeOK, ToldInv, Told, Active, keys, IdleMeansSuccess
<1>1. CASE Commit(s)
  <2>1. sync'[s].pc = "publishing"
    BY <1>1 DEF Commit, Idle
  <2>2. server' # "some" /\ UNCHANGED <<status, result>> /\ status \in {"running", "missing"}
    BY <1>1 DEF Commit
  <2>3. QED
    BY <2>1, <2>2
<1>2. CASE Publish(s)
  <2>1. sync'[s].pc = "settling" /\ result' = "success"
    BY <1>2 DEF Publish, Goto, SyncStates
  <2>2. UNCHANGED <<server, status>> /\ status \in {"running", "missing"} /\ server # "some"
    BY <1>2 DEF Publish
  <2>3. QED
    BY <2>1, <2>2
<1>3. CASE Settle(s)
  <2>1. sync'[s].pc = "idle"
    BY <1>3 DEF Settle, Goto, SyncStates
  <2>2. UNCHANGED <<server, result>> /\ server # "some" /\ result # "error"
    BY <1>3 DEF Settle
  <2>3. QED
    BY <2>1, <2>2
<1>4. CASE RecordError(s) \/ PersistError(s)
  <2>1. sync'[s].pc \in {"recording", "erring"}
    BY <1>4 DEF RecordError, PersistError, Goto, SyncStates
  <2>2. UNCHANGED status /\ status \in {"running", "missing"}
    BY <1>4 DEF RecordError, PersistError
  <2>3. QED
    BY <2>1, <2>2
<1>5. CASE SettleError(s)
  <2>1. sync'[s].pc = "idle" /\ status' = "error"
    BY <1>5 DEF SettleError, Goto, SyncStates
  <2>2. QED
    BY <2>1
<1>6. CASE Crash(s)
  <2>1. sync'[s].pc = "idle" /\ UNCHANGED status /\ status \in {"running", "missing"}
    BY <1>6 DEF Crash, Idle
  <2>2. QED
    BY <2>1
<1>7. QED
  BY <1>1, <1>2, <1>3, <1>4, <1>5, <1>6 DEF Report

LEMMA ToldWorld ==
  ASSUME IInv, ToldInv,
         \/ ExpireStatus \/ ExpireResult \/ DeleteServer \/ UNCHANGED vars
         \/ \E t \in Tables, i \in Ids : Change(t, i)
  PROVE  ToldInv'
<1>1. /\ UNCHANGED sync
      /\ server' = server \/ server' = "absent"
      /\ status' = status \/ status' = "missing"
      /\ result' = result \/ result' = "missing"
  BY DEF ExpireStatus, ExpireResult, DeleteServer, Change, keys, vars
<1>2. QED
  BY <1>1 DEF ToldInv, Told, IdleMeansSuccess

\* A sync that no other one overlaps, and that leaves "idle" behind, leaves no
\* error behind, its own or that of an earlier one - whatever fails in between,
\* the deletion of the server and the expiry of keys included.
THEOREM IdleIsSuccess ==
  ASSUME \A s, r \in Syncs : s = r
  PROVE  Spec => []IdleMeansSuccess
<1>1. Init => ToldInv
  BY DEF Init, Idle, ToldInv, Told, Active, IdleMeansSuccess
<1>2. IInv /\ ToldInv /\ [Next]_vars => ToldInv'
  <2> SUFFICES ASSUME IInv, ToldInv, [Next]_vars PROVE ToldInv'
    OBVIOUS
  <2>1. ASSUME NEW s \in Syncs, Start(s) \/ Progress(s) \/ Mishap(s) PROVE ToldInv'
    <3>1. \A r \in Syncs : r = s
      OBVIOUS
    <3>2. QED
      BY <2>1, <3>1, ToldStart, ToldList, ToldFailure, ToldReport DEF Progress, Mishap, Write
  <2>2. QED
    BY <2>1, ToldWorld DEF Next
<1>3. ToldInv => IdleMeansSuccess
  BY DEF ToldInv
<1>4. QED
  BY Initially, Inductive, <1>1, <1>2, <1>3, PTL DEF Spec
=============================================================================
