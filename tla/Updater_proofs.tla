--------------------------- MODULE Updater_proofs ---------------------------
(***************************************************************************)
(* What Updater guarantees for any number of requests and versions and any *)
(* bounds on faults and scrape jobs: an update runs alone and is applied   *)
(* as a whole or not at all.                                               *)
(***************************************************************************)
EXTENDS Updater, TLAPS

Pcs == {"idle", "dead", "fetching", "graphing", "queued"} \cup Applying

LEMMA Initially == Init => IInv
<1> SUFFICES ASSUME Init PROVE IInv
  OBVIOUS
<1>1. Asleep \in Coroutine
  BY BoundsAssumption DEF Asleep, Coroutine, Unknown
<1>2. TypeOK
  <2>1. co \in [Coroutines -> Coroutine]
    BY <1>1 DEF Init
  <2>2. /\ 1 \in Versions /\ 0 \in 0..MaxScrapes /\ 0 \in 0..MaxFaults /\ Unknown \in 0..MaxVersion /\ 1 \in 0..MaxVersion
        /\ Empty \in 0..Empty
    BY BoundsAssumption DEF Versions, Unknown, Empty
  <2>3. healthy \in SUBSET Versions
    BY DEF Init
  <2>4. QED
    BY <2>1, <2>2, <2>3 DEF Init, TypeOK, Scrapes, Results
<1>3. \A c \in Coroutines : co[c].pc = "idle"
  BY DEF Init, Asleep
<1>4. SingleFlight /\ Whole /\ Staged
  BY <1>3 DEF Init, SingleFlight, Whole, Staged, Applying, Blocking
<1>5. QED
  BY <1>2, <1>4 DEF IInv

-----------------------------------------------------------------------------
(* What the helpers do to the variables.                                   *)

LEMMA GotoEffect ==
  ASSUME co \in [Coroutines -> Coroutine], NEW c \in Coroutines, NEW pc \in Pcs, Goto(c, pc)
  PROVE  /\ co' \in [Coroutines -> Coroutine]
         /\ co'[c].pc = pc /\ co'[c].prev = co[c].prev
         /\ \A d \in Coroutines \ {c} : co'[d] = co[d]
BY DEF Goto, Coroutine, Pcs

LEMMA SleepEffect ==
  ASSUME co \in [Coroutines -> Coroutine], NEW c \in Coroutines, Sleep(c)
  PROVE  /\ co' \in [Coroutines -> Coroutine]
         /\ co'[c].pc = "idle"
         /\ \A d \in Coroutines \ {c} : co'[d] = co[d]
BY BoundsAssumption DEF Sleep, Asleep, Coroutine, Unknown

LEMMA BeginEffect ==
  ASSUME co \in [Coroutines -> Coroutine], current \in 0..MaxVersion,
         NEW c \in Coroutines, NEW auto \in BOOLEAN, Begin(c, auto)
  PROVE  /\ busy' = TRUE
         /\ co' \in [Coroutines -> Coroutine]
         /\ co'[c].pc \in {"counting", "pulling"}
         /\ \A d \in Coroutines \ {c} : co'[d] = co[d]
<1>1. (IF auto /\ BlockScrapes THEN "counting" ELSE "pulling") \in {"counting", "pulling"}
  OBVIOUS
<1>2. QED
  BY <1>1 DEF Begin, Coroutine, Applying, Blocking

LEMMA RunsEffect ==
  ASSUME TypeOK, NEW v \in 0..MaxVersion, Runs(v)
  PROVE  running' = v /\ running' \in 0..MaxVersion /\ scrape' \in Scrapes
BY DEF Runs, TypeOK, Scrapes

LEMMA FaultEffect ==
  ASSUME TypeOK, UNCHANGED faults \/ Fault
  PROVE  faults' \in 0..MaxFaults
BY BoundsAssumption DEF Fault, TypeOK

LEMMA Bounded ==
  /\ 1 \in Versions /\ Unknown \in 0..MaxVersion /\ Versions \subseteq 0..MaxVersion
  /\ Empty \in 0..Empty /\ 0..MaxVersion \subseteq 0..Empty
BY BoundsAssumption DEF Versions, Unknown, Empty

\* A coroutine inside apply_update keeps the others out.
LEMMA Alone ==
  ASSUME SingleFlight, NEW c \in Coroutines, NEW d \in Coroutines, c # d, co[c].pc \in Applying
  PROVE  co[d].pc \notin Applying
BY DEF SingleFlight

-----------------------------------------------------------------------------
(* One lemma per action.                                                   *)

LEMMA CheckKeeps == ASSUME IInv, NEW c \in Coroutines, Check(c) PROVE IInv'
<1>1. TypeOK /\ SingleFlight /\ Whole /\ Staged /\ At(c, co[c].pc)
  BY DEF IInv, Check, At
<1>2. Goto(c, "fetching")
  BY DEF Check
<1>3. /\ co' \in [Coroutines -> Coroutine]
      /\ co'[c].pc = "fetching"
      /\ co'[c].prev = co[c].prev
      /\ \A d \in Coroutines \ {c} : co'[d] = co[d]
  BY <1>1, <1>2, GotoEffect DEF TypeOK, Pcs, Applying, Blocking
<1>4. TypeOK'
  <2>1. faults' \in 0..MaxFaults
    BY <1>1, FaultEffect DEF Check, RevParse
  <2>2. QED
    BY <1>1, <1>3, <2>1, Bounded DEF Check, TypeOK, Coroutine, RevParse, At, deployment, state, world
<1>5. SingleFlight'
  BY <1>1, <1>3 DEF SingleFlight, Check, At, RevParse, Applying, Blocking, deployment, state, world
<1>6. Whole' /\ Staged'
  <2>1. \A d \in Coroutines \ {c} : co[c].pc \in Applying => co[d].pc \notin Applying
    BY <1>1, Alone
  <2>2. Whole'
    BY <1>1, <1>3, <2>1, <1>5 DEF Whole, Staged, SingleFlight, Unknown, Check, At, RevParse, Applying, Blocking, deployment, state, world
  <2>3. Staged'
    BY <1>1, <1>3, <2>1 DEF Whole, Staged, SingleFlight, TypeOK, Unknown, Check, At, RevParse, Applying, Blocking, deployment, state, world
  <2>4. QED
    BY <2>2, <2>3
<1>7. QED
  BY <1>4, <1>5, <1>6 DEF IInv

LEMMA FetchedKeeps == ASSUME IInv, NEW c \in Coroutines, Fetched(c) PROVE IInv'
<1>1. TypeOK /\ SingleFlight /\ Whole /\ Staged /\ At(c, co[c].pc)
  BY DEF IInv, Fetched, At
<1>2. Goto(c, "graphing")
  BY DEF Fetched
<1>3. /\ co' \in [Coroutines -> Coroutine]
      /\ co'[c].pc = "graphing"
      /\ co'[c].prev = co[c].prev
      /\ \A d \in Coroutines \ {c} : co'[d] = co[d]
  BY <1>1, <1>2, GotoEffect DEF TypeOK, Pcs, Applying, Blocking
<1>4. TypeOK'
  <2>1. faults' \in 0..MaxFaults
    BY <1>1, FaultEffect DEF Fetched
  <2>2. QED
    BY <1>1, <1>3, <2>1, Bounded DEF Fetched, TypeOK, Coroutine, At, deployment, state, world
<1>5. SingleFlight'
  BY <1>1, <1>3 DEF SingleFlight, Fetched, At, Applying, Blocking, deployment, state, world
<1>6. Whole' /\ Staged'
  <2>1. \A d \in Coroutines \ {c} : co[c].pc \in Applying => co[d].pc \notin Applying
    BY <1>1, Alone
  <2>2. Whole'
    BY <1>1, <1>3, <2>1, <1>5 DEF Whole, Staged, SingleFlight, Unknown, Fetched, At, Applying, Blocking, deployment, state, world
  <2>3. Staged'
    BY <1>1, <1>3, <2>1 DEF Whole, Staged, SingleFlight, TypeOK, Unknown, Fetched, At, Applying, Blocking, deployment, state, world
  <2>4. QED
    BY <2>2, <2>3
<1>7. QED
  BY <1>4, <1>5, <1>6 DEF IInv

LEMMA RequestApplyKeeps == ASSUME IInv, NEW c \in Coroutines, RequestApply(c) PROVE IInv'
<1>1. TypeOK /\ SingleFlight /\ Whole /\ Staged /\ At(c, co[c].pc)
  BY DEF IInv, RequestApply, At
<1>2. Goto(c, "queued")
  BY DEF RequestApply
<1>3. /\ co' \in [Coroutines -> Coroutine]
      /\ co'[c].pc = "queued"
      /\ co'[c].prev = co[c].prev
      /\ \A d \in Coroutines \ {c} : co'[d] = co[d]
  BY <1>1, <1>2, GotoEffect DEF TypeOK, Pcs, Applying, Blocking
<1>4. TypeOK'
  <2>1. faults' \in 0..MaxFaults
    BY <1>1, FaultEffect DEF RequestApply
  <2>2. QED
    BY <1>1, <1>3, <2>1, Bounded DEF RequestApply, TypeOK, Coroutine, At, deployment, state, world
<1>5. SingleFlight'
  BY <1>1, <1>3 DEF SingleFlight, RequestApply, At, Applying, Blocking, deployment, state, world
<1>6. Whole' /\ Staged'
  <2>1. \A d \in Coroutines \ {c} : co[c].pc \in Applying => co[d].pc \notin Applying
    BY <1>1, Alone
  <2>2. Whole'
    BY <1>1, <1>3, <2>1, <1>5 DEF Whole, Staged, SingleFlight, Unknown, RequestApply, At, Applying, Blocking, deployment, state, world
  <2>3. Staged'
    BY <1>1, <1>3, <2>1 DEF Whole, Staged, SingleFlight, TypeOK, Unknown, RequestApply, At, Applying, Blocking, deployment, state, world
  <2>4. QED
    BY <2>2, <2>3
<1>7. QED
  BY <1>4, <1>5, <1>6 DEF IInv

LEMMA CountedKeeps == ASSUME IInv, NEW c \in Coroutines, Counted(c) PROVE IInv'
<1>1. TypeOK /\ SingleFlight /\ Whole /\ Staged /\ At(c, co[c].pc)
  BY DEF IInv, Counted, At
<1>2. Goto(c, "pulling")
  BY DEF Counted
<1>3. /\ co' \in [Coroutines -> Coroutine]
      /\ co'[c].pc = "pulling"
      /\ co'[c].prev = co[c].prev
      /\ \A d \in Coroutines \ {c} : co'[d] = co[d]
  BY <1>1, <1>2, GotoEffect DEF TypeOK, Pcs, Applying, Blocking
<1>4. TypeOK'
  <2>1. faults' \in 0..MaxFaults
    BY <1>1, FaultEffect DEF Counted
  <2>2. QED
    BY <1>1, <1>3, <2>1, Bounded DEF Counted, TypeOK, Coroutine, At, deployment, state, world
<1>5. SingleFlight'
  BY <1>1, <1>3 DEF SingleFlight, Counted, At, Applying, Blocking, deployment, state, world
<1>6. Whole' /\ Staged'
  <2>1. \A d \in Coroutines \ {c} : co[c].pc \in Applying => co[d].pc \notin Applying
    BY <1>1, Alone
  <2>2. Whole'
    BY <1>1, <1>3, <2>1, <1>5 DEF Whole, Staged, SingleFlight, Unknown, Counted, At, Applying, Blocking, deployment, state, world
  <2>3. Staged'
    BY <1>1, <1>3, <2>1 DEF Whole, Staged, SingleFlight, TypeOK, Unknown, Counted, At, Applying, Blocking, deployment, state, world
  <2>4. QED
    BY <2>2, <2>3
<1>7. QED
  BY <1>4, <1>5, <1>6 DEF IInv

LEMMA PullKeeps == ASSUME IInv, NEW c \in Coroutines, Pull(c) PROVE IInv'
<1>1. TypeOK /\ SingleFlight /\ Whole /\ Staged /\ At(c, co[c].pc)
  BY DEF IInv, Pull, At
<1>2. Goto(c, "building") \/ Goto(c, "resetting")
  BY DEF Pull
<1>3. /\ co' \in [Coroutines -> Coroutine]
      /\ co'[c].pc = "building" \/ co'[c].pc = "resetting"
      /\ co'[c].prev = co[c].prev
      /\ \A d \in Coroutines \ {c} : co'[d] = co[d]
  BY <1>1, <1>2, GotoEffect DEF TypeOK, Pcs, Applying, Blocking
<1>4. TypeOK'
  <2>1. faults' \in 0..MaxFaults
    BY <1>1, FaultEffect DEF Pull
  <2>2. QED
    BY <1>1, <1>3, <2>1, Bounded DEF Pull, TypeOK, Coroutine, At, deployment, state, world
<1>5. SingleFlight'
  BY <1>1, <1>3 DEF SingleFlight, Pull, At, Applying, Blocking, deployment, state, world
<1>6. Whole' /\ Staged'
  <2>1. \A d \in Coroutines \ {c} : co[c].pc \in Applying => co[d].pc \notin Applying
    BY <1>1, Alone
  <2>2. Whole'
    BY <1>1, <1>3, <2>1, <1>5 DEF Whole, Staged, SingleFlight, Unknown, Pull, At, Applying, Blocking, deployment, state, world
  <2>3. Staged'
    BY <1>1, <1>3, <2>1 DEF Whole, Staged, SingleFlight, TypeOK, Unknown, Pull, At, Applying, Blocking, deployment, state, world
  <2>4. QED
    BY <2>2, <2>3
<1>7. QED
  BY <1>4, <1>5, <1>6 DEF IInv

LEMMA BuildKeeps == ASSUME IInv, NEW c \in Coroutines, Build(c) PROVE IInv'
<1>1. TypeOK /\ SingleFlight /\ Whole /\ Staged /\ At(c, co[c].pc)
  BY DEF IInv, Build, At
<1>2. (Goto(c, "upping") /\ image' = head) \/ Goto(c, "resetting")
  BY DEF Build
<1>3. /\ co' \in [Coroutines -> Coroutine]
      /\ (co'[c].pc = "upping" /\ image' = head) \/ co'[c].pc = "resetting"
      /\ co'[c].prev = co[c].prev
      /\ \A d \in Coroutines \ {c} : co'[d] = co[d]
  BY <1>1, <1>2, GotoEffect DEF TypeOK, Pcs, Applying, Blocking
<1>4. TypeOK'
  <2>1. faults' \in 0..MaxFaults
    BY <1>1, FaultEffect DEF Build
  <2>2. QED
    BY <1>1, <1>3, <2>1, Bounded DEF Build, TypeOK, Coroutine, At, deployment, state, world
<1>5. SingleFlight'
  BY <1>1, <1>3 DEF SingleFlight, Build, At, Applying, Blocking, deployment, state, world
<1>6. Whole' /\ Staged'
  <2>1. \A d \in Coroutines \ {c} : co[c].pc \in Applying => co[d].pc \notin Applying
    BY <1>1, Alone
  <2>2. Whole'
    BY <1>1, <1>3, <2>1, <1>5 DEF Whole, Staged, SingleFlight, Unknown, Build, At, Applying, Blocking, deployment, state, world
  <2>3. Staged'
    BY <1>1, <1>3, <2>1 DEF Whole, Staged, SingleFlight, TypeOK, Unknown, Build, At, Applying, Blocking, deployment, state, world
  <2>4. QED
    BY <2>2, <2>3
<1>7. QED
  BY <1>4, <1>5, <1>6 DEF IInv

LEMMA UpKeeps == ASSUME IInv, NEW c \in Coroutines, Up(c) PROVE IInv'
<1>1. TypeOK /\ SingleFlight /\ Whole /\ Staged /\ At(c, co[c].pc)
  BY DEF IInv, Up, At
<1>2. (Goto(c, "waiting") /\ running' = image) \/ Goto(c, "resetting") \/ Goto(c, "remapping")
  BY DEF Up, Runs
<1>3. /\ co' \in [Coroutines -> Coroutine]
      /\ (co'[c].pc = "waiting" /\ running' = image) \/ co'[c].pc = "resetting" \/ co'[c].pc = "remapping"
      /\ co'[c].prev = co[c].prev
      /\ \A d \in Coroutines \ {c} : co'[d] = co[d]
  BY <1>1, <1>2, GotoEffect DEF TypeOK, Pcs, Applying, Blocking
<1>4. TypeOK'
  <2>1. faults' \in 0..MaxFaults
    BY <1>1, FaultEffect DEF Up
  <2>2. running' \in 0..MaxVersion /\ scrape' \in Scrapes
    BY <1>1, Bounded, RunsEffect DEF Up, TypeOK
  <2>3. QED
    BY <1>1, <1>3, <2>1, <2>2, Bounded DEF Up, TypeOK, Coroutine, At, state
<1>5. SingleFlight'
  BY <1>1, <1>3 DEF SingleFlight, Up, At, Applying, Blocking, deployment, state, world
<1>6. Whole' /\ Staged'
  <2>1. \A d \in Coroutines \ {c} : co[c].pc \in Applying => co[d].pc \notin Applying
    BY <1>1, Alone
  <2>2. Whole'
    BY <1>1, <1>3, <2>1, <1>5 DEF Whole, Staged, SingleFlight, Unknown, Up, At, Applying, Blocking, deployment, state, world, Runs
  <2>3. Staged'
    BY <1>1, <1>3, <2>1 DEF Whole, Staged, SingleFlight, TypeOK, Unknown, Up, At, Applying, Blocking, deployment, state, world, Runs
  <2>4. QED
    BY <2>2, <2>3
<1>7. QED
  BY <1>4, <1>5, <1>6 DEF IInv

LEMMA RemapKeeps == ASSUME IInv, NEW c \in Coroutines, Remap(c) PROVE IInv'
<1>1. TypeOK /\ SingleFlight /\ Whole /\ Staged /\ At(c, co[c].pc)
  BY DEF IInv, Remap, At
<1>2. (Goto(c, "waiting") /\ running' = image) \/ Goto(c, "resetting")
  BY DEF Remap, Runs
<1>3. /\ co' \in [Coroutines -> Coroutine]
      /\ (co'[c].pc = "waiting" /\ running' = image) \/ co'[c].pc = "resetting"
      /\ co'[c].prev = co[c].prev
      /\ \A d \in Coroutines \ {c} : co'[d] = co[d]
  BY <1>1, <1>2, GotoEffect DEF TypeOK, Pcs, Applying, Blocking
<1>4. TypeOK'
  <2>1. faults' \in 0..MaxFaults
    BY <1>1, FaultEffect DEF Remap
  <2>2. running' \in 0..MaxVersion /\ scrape' \in Scrapes
    BY <1>1, Bounded, RunsEffect DEF Remap, TypeOK
  <2>3. QED
    BY <1>1, <1>3, <2>1, <2>2, Bounded DEF Remap, TypeOK, Coroutine, At, state
<1>5. SingleFlight'
  BY <1>1, <1>3 DEF SingleFlight, Remap, At, Applying, Blocking, deployment, state, world
<1>6. Whole' /\ Staged'
  <2>1. \A d \in Coroutines \ {c} : co[c].pc \in Applying => co[d].pc \notin Applying
    BY <1>1, Alone
  <2>2. Whole'
    BY <1>1, <1>3, <2>1, <1>5 DEF Whole, Staged, SingleFlight, Unknown, Remap, At, Applying, Blocking, deployment, state, world, Runs
  <2>3. Staged'
    BY <1>1, <1>3, <2>1 DEF Whole, Staged, SingleFlight, TypeOK, Unknown, Remap, At, Applying, Blocking, deployment, state, world, Runs
  <2>4. QED
    BY <2>2, <2>3
<1>7. QED
  BY <1>4, <1>5, <1>6 DEF IInv

LEMMA UnhealthyKeeps == ASSUME IInv, NEW c \in Coroutines, Unhealthy(c) PROVE IInv'
<1>1. TypeOK /\ SingleFlight /\ Whole /\ Staged /\ At(c, co[c].pc)
  BY DEF IInv, Unhealthy, At
<1>2. Goto(c, "resetting")
  BY DEF Unhealthy
<1>3. /\ co' \in [Coroutines -> Coroutine]
      /\ co'[c].pc = "resetting"
      /\ co'[c].prev = co[c].prev
      /\ \A d \in Coroutines \ {c} : co'[d] = co[d]
  BY <1>1, <1>2, GotoEffect DEF TypeOK, Pcs, Applying, Blocking
<1>4. TypeOK'
  <2>1. faults' \in 0..MaxFaults
    BY <1>1, FaultEffect DEF Unhealthy
  <2>2. QED
    BY <1>1, <1>3, <2>1, Bounded DEF Unhealthy, TypeOK, Coroutine, At, deployment, state, world
<1>5. SingleFlight'
  BY <1>1, <1>3 DEF SingleFlight, Unhealthy, At, Applying, Blocking, deployment, state, world
<1>6. Whole' /\ Staged'
  <2>1. \A d \in Coroutines \ {c} : co[c].pc \in Applying => co[d].pc \notin Applying
    BY <1>1, Alone
  <2>2. Whole'
    BY <1>1, <1>3, <2>1, <1>5 DEF Whole, Staged, SingleFlight, Unknown, Unhealthy, At, Applying, Blocking, deployment, state, world
  <2>3. Staged'
    BY <1>1, <1>3, <2>1 DEF Whole, Staged, SingleFlight, TypeOK, Unknown, Unhealthy, At, Applying, Blocking, deployment, state, world
  <2>4. QED
    BY <2>2, <2>3
<1>7. QED
  BY <1>4, <1>5, <1>6 DEF IInv

LEMMA ResetKeeps == ASSUME IInv, NEW c \in Coroutines, Reset(c) PROVE IInv'
<1>1. TypeOK /\ SingleFlight /\ Whole /\ Staged /\ At(c, co[c].pc)
  BY DEF IInv, Reset, At
<1>2. Goto(c, "rebuilding")
  BY DEF Reset
<1>3. /\ co' \in [Coroutines -> Coroutine]
      /\ co'[c].pc = "rebuilding"
      /\ co'[c].prev = co[c].prev
      /\ \A d \in Coroutines \ {c} : co'[d] = co[d]
  BY <1>1, <1>2, GotoEffect DEF TypeOK, Pcs, Applying, Blocking
<1>4. TypeOK'
  <2>1. faults' \in 0..MaxFaults
    BY <1>1, FaultEffect DEF Reset
  <2>2. head' \in Versions /\ torn' \in BOOLEAN
    <3>1. co[c].prev \in 0..MaxVersion /\ head \in Versions
      BY <1>1 DEF TypeOK, Coroutine
    <3>2. \/ head' = co[c].prev /\ co[c].prev # 0
          \/ head' = head
      BY DEF Reset, Unknown
    <3>3. torn' \in BOOLEAN
      BY <1>1 DEF Reset, TypeOK
    <3>4. QED
      BY <3>1, <3>2, <3>3, BoundsAssumption DEF Versions
  <2>3. QED
    BY <1>1, <1>3, <2>1, <2>2 DEF Reset, TypeOK, deployment, state, world
<1>5. SingleFlight'
  BY <1>1, <1>3 DEF SingleFlight, Reset, At, Applying, Blocking, deployment, state, world
<1>6. Whole' /\ Staged'
  <2>1. \A d \in Coroutines \ {c} : co[c].pc \in Applying => co[d].pc \notin Applying
    BY <1>1, Alone
  <2>2. Whole'
    BY <1>1, <1>3, <2>1, <1>5 DEF Whole, Staged, SingleFlight, Unknown, Reset, At, Applying, Blocking, deployment, state, world
  <2>3. Staged'
    BY <1>1, <1>3, <2>1 DEF Whole, Staged, SingleFlight, TypeOK, Unknown, Reset, At, Applying, Blocking, deployment, state, world
  <2>4. QED
    BY <2>2, <2>3
<1>7. QED
  BY <1>4, <1>5, <1>6 DEF IInv

LEMMA RebuildKeeps == ASSUME IInv, NEW c \in Coroutines, Rebuild(c) PROVE IInv'
<1>1. TypeOK /\ SingleFlight /\ Whole /\ Staged /\ At(c, co[c].pc)
  BY DEF IInv, Rebuild, At
<1>2. Goto(c, "restarting")
  BY DEF Rebuild
<1>3. /\ co' \in [Coroutines -> Coroutine]
      /\ co'[c].pc = "restarting"
      /\ co'[c].prev = co[c].prev
      /\ \A d \in Coroutines \ {c} : co'[d] = co[d]
  BY <1>1, <1>2, GotoEffect DEF TypeOK, Pcs, Applying, Blocking
<1>4. TypeOK'
  <2>1. faults' \in 0..MaxFaults
    BY <1>1, FaultEffect DEF Rebuild
  <2>2. QED
    BY <1>1, <1>3, <2>1, Bounded DEF Rebuild, TypeOK, Coroutine, At, deployment, state, world
<1>5. SingleFlight'
  BY <1>1, <1>3 DEF SingleFlight, Rebuild, At, Applying, Blocking, deployment, state, world
<1>6. Whole' /\ Staged'
  <2>1. \A d \in Coroutines \ {c} : co[c].pc \in Applying => co[d].pc \notin Applying
    BY <1>1, Alone
  <2>2. Whole'
    BY <1>1, <1>3, <2>1, <1>5 DEF Whole, Staged, SingleFlight, Unknown, Rebuild, At, Applying, Blocking, deployment, state, world
  <2>3. Staged'
    BY <1>1, <1>3, <2>1 DEF Whole, Staged, SingleFlight, TypeOK, Unknown, Rebuild, At, Applying, Blocking, deployment, state, world
  <2>4. QED
    BY <2>2, <2>3
<1>7. QED
  BY <1>4, <1>5, <1>6 DEF IInv

LEMMA SkipKeeps == ASSUME IInv, NEW c \in Coroutines, Skip(c) PROVE IInv'
<1>1. TypeOK /\ SingleFlight /\ Whole /\ Staged
  BY DEF IInv
<1>3. /\ co' \in [Coroutines -> Coroutine]
      /\ co'[c].pc = "idle"
      /\ \A d \in Coroutines \ {c} : co'[d] = co[d]
  BY <1>1, SleepEffect DEF Skip, TypeOK
<1>4. TypeOK'
  <2>1. faults' \in 0..MaxFaults
    BY <1>1, FaultEffect DEF Skip, CannotCount
  <2>2. QED
    BY <1>1, <1>3, <2>1, Bounded DEF Skip, TypeOK, Results, Coroutine, At, deployment, state, world
<1>5. SingleFlight'
  BY <1>1, <1>3 DEF SingleFlight, Skip, At, Applying, Blocking, deployment, state, world
<1>6. Whole' /\ Staged'
  <2>1. \A d \in Coroutines \ {c} : co[c].pc \in Applying => co[d].pc \notin Applying
    BY <1>1, Alone
  <2>2. Whole'
    BY <1>1, <1>3, <2>1, <1>5 DEF Whole, Staged, SingleFlight, Unknown, Skip, At, Applying, Blocking, deployment, state, world
  <2>3. Staged'
    BY <1>1, <1>3, <2>1 DEF Whole, Staged, SingleFlight, TypeOK, Unknown, Skip, At, Applying, Blocking, deployment, state, world
  <2>4. QED
    BY <2>2, <2>3
<1>7. QED
  BY <1>4, <1>5, <1>6 DEF IInv

LEMMA HealthyKeeps == ASSUME IInv, NEW c \in Coroutines, Healthy(c) PROVE IInv'
<1>1. TypeOK /\ SingleFlight /\ Whole /\ Staged
  BY DEF IInv
<1>3. /\ co' \in [Coroutines -> Coroutine]
      /\ co'[c].pc = "idle"
      /\ \A d \in Coroutines \ {c} : co'[d] = co[d]
  BY <1>1, SleepEffect DEF Healthy, TypeOK
<1>4. TypeOK'
  <2>1. faults' \in 0..MaxFaults
    BY <1>1, FaultEffect DEF Healthy, RevParse
  <2>2. QED
    BY <1>1, <1>3, <2>1, Bounded DEF Healthy, TypeOK, Results, Coroutine, RevParse, At, deployment, state, world
<1>5. SingleFlight'
  BY <1>1, <1>3 DEF SingleFlight, Healthy, At, RevParse, Applying, Blocking, deployment, state, world
<1>6. Whole' /\ Staged'
  <2>1. \A d \in Coroutines \ {c} : co[c].pc \in Applying => co[d].pc \notin Applying
    BY <1>1, Alone
  <2>2. Whole'
    BY <1>1, <1>3, <2>1, <1>5 DEF Whole, Staged, SingleFlight, Unknown, Healthy, At, RevParse, Applying, Blocking, deployment, state, world
  <2>3. Staged'
    BY <1>1, <1>3, <2>1 DEF Whole, Staged, SingleFlight, TypeOK, Unknown, Healthy, At, RevParse, Applying, Blocking, deployment, state, world
  <2>4. QED
    BY <2>2, <2>3
<1>7. QED
  BY <1>4, <1>5, <1>6 DEF IInv

LEMMA RestartKeeps == ASSUME IInv, NEW c \in Coroutines, Restart(c) PROVE IInv'
<1>1. TypeOK /\ SingleFlight /\ Whole /\ Staged
  BY DEF IInv
<1>3. /\ co' \in [Coroutines -> Coroutine]
      /\ co'[c].pc = "idle"
      /\ \A d \in Coroutines \ {c} : co'[d] = co[d]
  BY <1>1, SleepEffect DEF Restart, TypeOK
<1>4. TypeOK'
  <2>1. faults' \in 0..MaxFaults
    BY <1>1, FaultEffect DEF Restart
  <2>2. running' \in 0..MaxVersion /\ scrape' \in Scrapes
    BY <1>1, Bounded, RunsEffect DEF Restart, TypeOK
  <2>3. QED
    BY <1>1, <1>3, <2>1, <2>2, Bounded DEF Restart, TypeOK, Results, Coroutine, At, state
<1>5. SingleFlight'
  BY <1>1, <1>3 DEF SingleFlight, Restart, At, Applying, Blocking, deployment, state, world
<1>6. Whole' /\ Staged'
  <2>1. \A d \in Coroutines \ {c} : co[c].pc \in Applying => co[d].pc \notin Applying
    BY <1>1, Alone
  <2>2. Whole'
    BY <1>1, <1>3, <2>1, <1>5 DEF Whole, Staged, SingleFlight, Unknown, Restart, At, Applying, Blocking, deployment, state, world, Runs
  <2>3. Staged'
    BY <1>1, <1>3, <2>1 DEF Whole, Staged, SingleFlight, TypeOK, Unknown, Restart, At, Applying, Blocking, deployment, state, world, Runs
  <2>4. QED
    BY <2>2, <2>3
<1>7. QED
  BY <1>4, <1>5, <1>6 DEF IInv

LEMMA BeginKeeps ==
  ASSUME IInv, NEW c \in Coroutines, NEW auto \in BOOLEAN, co[c].pc \notin Applying, ~busy, Begin(c, auto),
         UNCHANGED <<world, deployment, current, latest, result, torn, faults>>, available' \in BOOLEAN
  PROVE  IInv'
<1>1. TypeOK /\ SingleFlight /\ Whole /\ Staged
  BY DEF IInv
<1>2. /\ busy' = TRUE
      /\ co' \in [Coroutines -> Coroutine]
      /\ co'[c].pc \in {"counting", "pulling"}
      /\ \A d \in Coroutines \ {c} : co'[d] = co[d]
  BY <1>1, BeginEffect DEF TypeOK
<1>3. TypeOK'
  BY <1>1, <1>2 DEF TypeOK, world, deployment
<1>4. \A d \in Coroutines : co[d].pc \notin Applying
  BY <1>1 DEF SingleFlight
<1>5. SingleFlight'
  BY <1>2, <1>4 DEF SingleFlight, Applying, Blocking
<1>6. Whole' /\ Staged'
  BY <1>1, <1>2, <1>4 DEF Whole, Staged, Applying, Blocking, deployment, state, world
<1>7. QED
  BY <1>3, <1>5, <1>6 DEF IInv

\* A coroutine that is not inside apply_update goes to sleep.
LEMMA SleepKeeps ==
  ASSUME IInv, NEW c \in Coroutines, co[c].pc \notin Applying, Sleep(c),
         UNCHANGED <<world, deployment, current, latest, busy, result, torn, faults>>, available' \in BOOLEAN
  PROVE  IInv'
<1>1. TypeOK /\ SingleFlight /\ Whole /\ Staged
  BY DEF IInv
<1>2. /\ co' \in [Coroutines -> Coroutine]
      /\ co'[c].pc = "idle"
      /\ \A d \in Coroutines \ {c} : co'[d] = co[d]
  BY <1>1, SleepEffect DEF TypeOK
<1>3. TypeOK'
  BY <1>1, <1>2 DEF TypeOK, world, deployment
<1>4. SingleFlight'
  BY <1>1, <1>2 DEF SingleFlight, Applying, Blocking
<1>5. Whole' /\ Staged'
  BY <1>1, <1>2 DEF Whole, Staged, Applying, Blocking, deployment, state, world
<1>6. QED
  BY <1>3, <1>4, <1>5 DEF IInv

LEMMA CheckedKeeps == ASSUME IInv, NEW c \in Coroutines, Checked(c) PROVE IInv'
<1>1. co[c].pc \notin Applying
  BY DEF Checked, At, Applying, Blocking
<1>2. available' \in BOOLEAN
  BY DEF Checked, Differs
<1>3. CASE c = Loop /\ AutoUpdate /\ Differs /\ ~busy
  <2>1. Begin(c, TRUE) /\ UNCHANGED <<world, deployment, current, latest, result, torn, faults>>
    BY <1>3 DEF Checked
  <2>2. QED
    BY <1>1, <1>2, <1>3, <2>1, BeginKeeps
<1>4. CASE ~(c = Loop /\ AutoUpdate /\ Differs /\ ~busy)
  <2>1. Sleep(c) /\ UNCHANGED <<world, deployment, current, latest, busy, result, torn, faults>>
    BY <1>4 DEF Checked
  <2>2. QED
    BY <1>1, <1>2, <2>1, SleepKeeps
<1>5. QED
  BY <1>3, <1>4

LEMMA StartApplyKeeps == ASSUME IInv, NEW c \in Coroutines, StartApply(c) PROVE IInv'
<1>1. co[c].pc \notin Applying
  BY DEF StartApply, At, Applying, Blocking
<1>2. available' \in BOOLEAN
  BY DEF StartApply, IInv, TypeOK
<1>3. CASE busy
  <2>1. Sleep(c) /\ UNCHANGED <<world, deployment, current, latest, busy, result, torn, faults>>
    BY <1>3 DEF StartApply
  <2>2. QED
    BY <1>1, <1>2, <2>1, SleepKeeps
<1>4. CASE ~busy
  <2>1. Begin(c, FALSE) /\ UNCHANGED <<world, deployment, current, latest, result, torn, faults>>
    BY <1>4 DEF StartApply
  <2>2. QED
    BY <1>1, <1>2, <1>4, <2>1, BeginKeeps
<1>5. QED
  BY <1>3, <1>4

LEMMA EscapeKeeps == ASSUME IInv, NEW c \in Coroutines, Escape(c) PROVE IInv'
<1>1. TypeOK /\ SingleFlight
  BY DEF IInv
<1>2. /\ co' \in [Coroutines -> Coroutine]
      /\ co'[c].pc \in {"dead", "idle"}
      /\ \A d \in Coroutines \ {c} : co'[d] = co[d]
  BY <1>1, BoundsAssumption DEF Escape, TypeOK, Coroutine, Asleep, Unknown
<1>3. TypeOK'
  BY <1>1, <1>2, FaultEffect DEF Escape, TypeOK, world, deployment
<1>4. SingleFlight'
  BY <1>1, <1>2 DEF Escape, At, SingleFlight, Applying, Blocking
<1>5. Whole' /\ Staged'
  BY DEF Escape, Whole, Staged
<1>6. QED
  BY <1>3, <1>4, <1>5 DEF IInv

\* The new process starts from the checkout; if an update was under way the
\* history variable excuses what it left behind.
LEMMA KilledKeeps == ASSUME IInv, Killed PROVE IInv'
<1>1. TypeOK /\ SingleFlight /\ Whole /\ Staged
  BY DEF IInv
<1>2. /\ co' \in [Coroutines -> Coroutine]
      /\ \A c \in Coroutines : co'[c].pc = "idle"
  BY BoundsAssumption DEF Killed, Asleep, Coroutine, Unknown
<1>3. TypeOK'
  BY <1>1, <1>2, Bounded, FaultEffect DEF Killed, TypeOK, Results, world, deployment
<1>4. SingleFlight' /\ Staged'
  BY <1>2 DEF Killed, SingleFlight, Staged, Applying, Blocking
<1>5. Whole'
  BY <1>1 DEF Killed, Whole, deployment
<1>6. QED
  BY <1>3, <1>4, <1>5 DEF IInv

LEMMA RecreateKeeps == ASSUME IInv, NEW c \in Coroutines, Recreate(c) PROVE IInv'
<1>1. TypeOK /\ SingleFlight /\ Whole /\ Staged
  BY DEF IInv
<1>2. running' \in 0..MaxVersion /\ scrape' \in Scrapes /\ torn' \in BOOLEAN
  BY <1>1, Bounded DEF Recreate, TypeOK, Scrapes
<1>3. faults' \in 0..MaxFaults
  BY <1>1, FaultEffect DEF Recreate
<1>4. TypeOK'
  BY <1>1, <1>2, <1>3 DEF Recreate, TypeOK, state
<1>5. SingleFlight'
  BY <1>1 DEF Recreate, SingleFlight, state
<1>6. \A d \in Coroutines : co[d].pc \notin Blocking
  BY DEF Recreate, At, Turn, Blocking
<1>7. Whole' /\ Staged'
  BY <1>1, <1>6 DEF Recreate, Whole, Staged, Blocking, state
<1>8. QED
  BY <1>4, <1>5, <1>7 DEF IInv

LEMMA WorldKeeps == ASSUME IInv, Push \/ StartScrape \/ Scraping PROVE IInv'
<1>1. TypeOK /\ SingleFlight /\ Whole /\ Staged
  BY DEF IInv
<1>2. UNCHANGED <<healthy, deployment, state, co, torn, faults>>
  BY DEF Push, StartScrape, Scraping
<1>3. remote' \in Versions /\ scrape' \in Scrapes /\ scrapes' \in 0..MaxScrapes
  BY <1>1, BoundsAssumption DEF Push, StartScrape, Scraping, TypeOK, Versions, Scrapes
<1>4. TypeOK'
  BY <1>1, <1>2, <1>3 DEF TypeOK, deployment, state
<1>5. SingleFlight' /\ Whole' /\ Staged'
  BY <1>1, <1>2 DEF SingleFlight, Whole, Staged, deployment, state
<1>6. QED
  BY <1>4, <1>5 DEF IInv

LEMMA Inductive == IInv /\ [Next]_vars => IInv'
<1> SUFFICES ASSUME IInv, [Next]_vars PROVE IInv'
  OBVIOUS
<1>1. CASE UNCHANGED vars
  BY <1>1 DEF vars, IInv, TypeOK, SingleFlight, Whole, Staged
<1>2. ASSUME NEW c \in Coroutines, Check(c) \/ RequestApply(c) \/ Recreate(c) PROVE IInv'
  BY <1>2, CheckKeeps, RequestApplyKeeps, RecreateKeeps
<1>3. ASSUME NEW c \in Coroutines, Fetched(c) \/ Checked(c) PROVE IInv'
  BY <1>3, FetchedKeeps, CheckedKeeps
<1>4. ASSUME NEW c \in Coroutines, Apply(c) PROVE IInv'
  BY <1>4, StartApplyKeeps, SkipKeeps, CountedKeeps, PullKeeps, BuildKeeps, UpKeeps, RemapKeeps,
     EscapeKeeps, HealthyKeeps, UnhealthyKeeps, ResetKeeps, RebuildKeeps, RestartKeeps
     DEF Apply
<1>5. CASE Killed \/ Push \/ StartScrape \/ Scraping
  BY <1>5, KilledKeeps, WorldKeeps
<1>6. QED
  BY <1>1, <1>2, <1>3, <1>4, <1>5 DEF Next, Step

-----------------------------------------------------------------------------
(* The theorems.                                                           *)

\* The inductive invariant: types, the single update, and how far it has come.
THEOREM Invariance == Spec => []IInv
BY Initially, Inductive, PTL DEF Spec

\* Every variable keeps its type.
THEOREM TypeCorrect == Spec => []TypeOK
<1>1. IInv => TypeOK
  BY DEF IInv
<1>2. QED
  BY <1>1, Invariance, PTL

\* However many requests and loops call apply_update, one update runs at a time
\* and update_in_progress tells whether it does.
THEOREM OneAtATime == Spec => []SingleFlight
<1>1. IInv => SingleFlight
  BY DEF IInv
<1>2. QED
  BY <1>1, Invariance, PTL

\* An update that none of its rollback commands failed has been applied as a
\* whole or not at all.
THEOREM AllOrNothing == Spec => []Whole
<1>1. IInv => Whole
  BY DEF IInv
<1>2. QED
  BY <1>1, Invariance, PTL
=============================================================================
