-------------------------- MODULE ObjectCopy_proofs --------------------------
(***************************************************************************)
(* Proofs about ObjectCopy, for any objects, targets, orders and requests: *)
(* the state is well typed, a copied policy never refers to ids of the     *)
(* source, a package left without its file is reported unless the request  *)
(* had no response, and a run that nothing disturbed has copied what can   *)
(* be copied.                                                              *)
(*                                                                         *)
(* The inductive invariant says of each request what its place implies     *)
(* (Sound), and of the targets that what is there has an id.  The ids of a *)
(* target only grow, which is what carries the ids of a policy from the    *)
(* listing to the create, through what other requests do in between.       *)
(* The last theorem rests on a second invariant (CInv), relative to it.    *)
(***************************************************************************)
EXTENDS ObjectCopy, TLAPS

ItemPlaces == {"deps", "copydeps", "category", "newcategory", "create", "nocategory", "transfer"}
Mapped     == {"category", "newcategory", "create", "nocategory"}

\* A request is for packages alone, with or without their files, or for none.
OneKind(c) == /\ c.file => c.chosen \subseteq Packages
              /\ c.chosen \subseteq Packages \/ c.chosen \cap Packages = {}

\* What the place of a request implies.
Sound(r) ==
    /\ copy[r] \in Copy
    /\ copy[r].pc \in ItemPlaces => copy[r].item \in Remaining(r)
    /\ copy[r].pc \in ItemPlaces \cup {"fetch"} => copy[r].at \in copy[r].targets
    /\ copy[r].pc \in {"deps", "copydeps"} => copy[r].item \in Policies
    /\ copy[r].pc = "transfer" => copy[r].item \in Packages
    /\ OneKind(copy[r])
    /\ copy[r].pc \in Mapped /\ copy[r].deps /\ copy[r].item \in Policies =>
         \A d \in Kept(r) : copy[r].ids[d] \in 1..server[copy[r].at][d].id

Targeted ==
    /\ server \in [Targets -> [Things -> Object]]
    /\ \A t \in Targets, o \in Things : There(t, o) => server[t][o].id >= 1

Counts ==
    /\ category \in SUBSET Targets
    /\ clean \in SUBSET Requests
    /\ warned \in SUBSET (Targets \X Things) /\ unsaid \in SUBSET (Targets \X Things)
    /\ runs \in 0..MaxRuns /\ mishaps \in 0..MaxMishaps

IInv ==
    /\ Targeted /\ Counts
    /\ copy \in [Requests -> Copy]
    /\ \A r \in Requests : Sound(r)
    /\ RefsSound /\ NoSilentGap

LEMMA PlacesOfItems == InItem = ItemPlaces
BY DEF InItem, Places, Ended, ItemPlaces

LEMMA IInvTypes == IInv => TypeOK
BY PlacesOfItems DEF IInv, Targeted, Counts, Sound, Remaining, TypeOK, At

LEMMA Kinds ==
    /\ Deps \subseteq Things /\ Policies \subseteq Things /\ Packages \subseteq Things
    /\ Scripts \subseteq Deps
    /\ Nothing \notin Things /\ Nothing \notin Targets /\ Nothing \notin Nat
    /\ Policies \cap Deps = {} /\ Policies \cap Packages = {} /\ Deps \cap Packages = {}
BY KindsAssumption, NothingAssumption DEF Deps, Things

LEMMA EmptyObject == Absent \in Object /\ NoRefs \in [Deps -> Nat \cup {Nothing}]
BY DEF Absent, Object, NoRefs

LEMMA IdleCopy == Idle \in Copy
BY Kinds, EmptyObject DEF Idle, Copy, Places, Untold, Statuses

-----------------------------------------------------------------------------
\* The ids of the targets grow, and requests other than r stay where they are.
Grows == \A t \in Targets, o \in Things : server'[t][o].id >= server[t][o].id

Alone(r) == copy' \in [Requests -> Copy] /\ \A q \in Requests \ {r} : copy'[q] = copy[q]

\* The ids a request has looked up stay ids the target has given.
LEMMA IdsStay ==
    ASSUME IInv, Targeted', Grows, NEW q \in Requests,
           copy[q].pc \in Mapped, copy[q].deps, copy[q].item \in Policies, NEW d \in Kept(q)
    PROVE  copy[q].ids[d] \in 1..server'[copy[q].at][d].id
<1>1. Sound(q)
  BY DEF IInv
<1>2. copy[q].ids[d] \in 1..server[copy[q].at][d].id
  BY <1>1 DEF Sound
<1>3. d \in Things
  BY ReferencesAssumption, Kinds DEF Kept
<1>4. copy[q].at \in Targets
  BY <1>1 DEF Sound, Mapped, ItemPlaces, Copy
<1>5. server[copy[q].at][d].id \in Nat /\ server'[copy[q].at][d].id \in Nat
  BY <1>3, <1>4 DEF IInv, Targeted, Object
<1>6. QED
  BY <1>2, <1>3, <1>4, <1>5 DEF Grows

\* A request that does not move stays sound, whatever the others do to the targets.
LEMMA SoundStays ==
    ASSUME IInv, Targeted', Grows, NEW q \in Requests, copy'[q] = copy[q]
    PROVE  Sound(q)'
<1>1. Sound(q) /\ copy[q] \in Copy
  BY DEF IInv
<1>2. Kept(q)' = Kept(q)
  BY DEF Kept
<1>3. QED
  BY <1>1, <1>2, IdsStay DEF Sound, Remaining

\* A package in want of its file; and one that is noted as such, or in the hands of a request.
Wanting(t, o) == server[t][o].owed /\ There(t, o) /\ ~server[t][o].file
Noted(t, o)   == \/ <<t, o>> \in warned \cup unsaid
                 \/ \E q \in Busy : copy[q].told[t][o] \in Short
Held(q, t, o) == Reaches(q) /\ copy[q].at = t /\ copy[q].item = o
Covered(t, o) == Noted(t, o) \/ \E q \in Requests : Held(q, t, o)

AllCovered == \A t \in Targets, o \in Packages : Wanting(t, o) => Covered(t, o)

LEMMA GapsCovered == NoSilentGap <=> AllCovered
<1>1. ASSUME NEW t \in Targets, NEW o \in Packages
      PROVE  Covered(t, o) <=> \/ <<t, o>> \in warned \cup unsaid
                               \/ \E r \in Busy : <<t, o>> \in Unfinished(r)
  <2>1. o \in Things /\ <<t, o>> \in Targets \X Things
    BY Kinds
  <2>2. \A r \in Requests : Reaches(r) => r \in Busy
    BY DEF Reaches, At, Busy, Ended
  <2>3. \A r \in Busy : <<t, o>> \in Unfinished(r) <=>
                          copy[r].told[t][o] \in Short \/ Held(r, t, o)
    BY <2>1 DEF Unfinished, Held
  <2>4. Busy \subseteq Requests
    BY DEF Busy
  <2>5. QED
    BY <2>2, <2>3, <2>4 DEF Covered, Noted, Held
<1>2. QED
  BY <1>1 DEF NoSilentGap, AllCovered, Wanting

\* What is noted stays noted; a package in want stays so, under the id it has.
NotesStay   == \A t \in Targets, o \in Packages : Noted(t, o) => Noted(t, o)'
Stays(t, o) == Wanting(t, o) /\ server'[t][o].id = server[t][o].id

LEMMA NotesKept ==
    ASSUME NEW r \in Requests, Alone(r), warned \subseteq warned', unsaid \subseteq unsaid',
           r \in Busy => r \in Busy' /\ copy'[r].told = copy[r].told
    PROVE  NotesStay
BY DEF NotesStay, Noted, Alone, Busy

\* What a step of request r has to show: the targets stay sound, no id is lost, the request
\* is sound at its new place, a package it leaves is told of or has its file, and one that
\* comes to want its file is covered.
LEMMA Assembled ==
    ASSUME IInv, NEW r \in Requests, Alone(r), Sound(r)', Targeted', Grows, Counts', RefsSound',
           NotesStay,
           \A t \in Targets, o \in Packages :
               Wanting(t, o)' => (Stays(t, o) /\ ~Held(r, t, o)) \/ Covered(t, o)'
    PROVE  IInv'
<1>1. copy' \in [Requests -> Copy]
  BY DEF Alone
<1>2. \A q \in Requests : Sound(q)'
  BY SoundStays DEF Alone
<1>3. ASSUME NEW t \in Targets, NEW o \in Packages, Wanting(t, o)'
      PROVE  Covered(t, o)'
  <2>1. CASE Covered(t, o)'
    BY <2>1
  <2>2. CASE Stays(t, o) /\ ~Held(r, t, o)
    <3>1. Covered(t, o)
      BY <2>2, GapsCovered DEF IInv, AllCovered, Stays
    <3>2. CASE Noted(t, o)
      BY <3>2 DEF Covered, NotesStay
    <3>3. ASSUME NEW q \in Requests, Held(q, t, o)
          PROVE  Covered(t, o)'
      <4>1. q # r
        BY <3>3, <2>2
      <4>2. Held(q, t, o)'
        BY <4>1, <3>3, <2>2, <1>3 DEF Alone, Held, Reaches, At, Stays, Wanting, There
      <4>3. QED
        BY <4>2 DEF Covered
    <3>4. QED
      BY <3>1, <3>2, <3>3 DEF Covered
  <2>3. QED
    BY <1>3, <2>1, <2>2
<1>4. AllCovered'
  BY <1>3 DEF AllCovered
<1>5. NoSilentGap'
  BY <1>4, GapsCovered, PTL
<1>6. QED
  BY <1>1, <1>2, <1>5 DEF IInv

\* Nothing changes on the targets.
LEMMA Untouched ==
    ASSUME IInv, UNCHANGED server
    PROVE  /\ Targeted' /\ Grows /\ RefsSound'
           /\ \A t \in Targets, o \in Things : Wanting(t, o)' => Stays(t, o)
<1>1. Targeted' /\ Grows
  BY DEF IInv, Targeted, Grows, Object, There
<1>2. RefsSound'
  BY DEF IInv, RefsSound
<1>3. QED
  BY <1>1, <1>2 DEF Wanting, There, Stays

\* One object of a target is replaced by another, of no lower id.
LEMMA Replaced ==
    ASSUME IInv, NEW t \in Targets, NEW o \in Things, NEW x \in Object,
           server' = [server EXCEPT ![t][o] = x],
           x.id >= server[t][o].id, x.there => x.id >= 1,
           o \in Policies /\ x.remapped =>
               \A d \in Deps : x.refs[d] \in {Nothing} \cup 1..server[t][d].id
    PROVE  /\ Targeted' /\ Grows /\ RefsSound'
           /\ \A u \in Targets, p \in Things :
                Wanting(u, p)' => Stays(u, p) \/ (u = t /\ p = o /\ x.owed /\ ~x.file)
<1>1. server \in [Targets -> [Things -> Object]]
  BY DEF IInv, Targeted
<1>2. \A u \in Targets, p \in Things : server'[u][p] = IF u = t /\ p = o THEN x ELSE server[u][p]
  BY <1>1
<1>3. server' \in [Targets -> [Things -> Object]]
  BY <1>1
<1>4. Targeted'
  BY <1>2, <1>3 DEF IInv, Targeted, There
<1>5. Grows
  BY <1>1, <1>2 DEF Grows, Object
<1>6. ASSUME NEW u \in Targets, NEW p \in Policies, server'[u][p].remapped, NEW d \in Deps
      PROVE  server'[u][p].refs[d] \in {Nothing} \cup 1..server'[u][d].id
  <2>1. p \in Things /\ d \in Things
    BY Kinds
  <2>2. server[u][d].id \in Nat /\ server'[u][d].id \in Nat /\ server'[u][d].id >= server[u][d].id
    BY <2>1, <1>1, <1>3, <1>5 DEF Object, Grows
  <2>3. server'[u][p].refs[d] \in {Nothing} \cup 1..server[u][d].id
    <3>1. CASE u = t /\ p = o
      BY <3>1, <2>1, <1>2, <1>6
    <3>2. CASE ~(u = t /\ p = o)
      BY <3>2, <2>1, <1>2, <1>6 DEF IInv, RefsSound
    <3>3. QED
      BY <3>1, <3>2
  <2>4. QED
    BY <2>2, <2>3
<1>7. RefsSound'
  BY <1>6 DEF RefsSound
<1>8. ASSUME NEW u \in Targets, NEW p \in Things, Wanting(u, p)'
      PROVE  Stays(u, p) \/ (u = t /\ p = o /\ x.owed /\ ~x.file)
  BY <1>2, <1>8 DEF Wanting, There, Stays
<1>9. QED
  BY <1>4, <1>5, <1>7, <1>8

-----------------------------------------------------------------------------
\* A request moves; the history of mishaps stays well typed.
LEMMA Moves ==
    ASSUME IInv, NEW r \in Requests, NEW x \in Copy, copy' = [copy EXCEPT ![r] = x]
    PROVE  Alone(r) /\ copy'[r] = x
BY DEF IInv, Alone

LEMMA CountsStay ==
    ASSUME IInv, Smooth \/ (Mishap /\ UNCHANGED unsaid), warned' \in SUBSET (Targets \X Things)
    PROVE  Counts'
<1>1. CASE Smooth
  BY <1>1 DEF IInv, Counts, Smooth, world
<1>2. CASE Mishap /\ UNCHANGED unsaid
  BY <1>2, BoundsAssumption DEF IInv, Counts, Mishap
<1>3. QED
  BY <1>1, <1>2

\* A request within its loop.
LEMMA InLoop ==
    ASSUME IInv, NEW r \in Requests, copy[r].pc \in ItemPlaces \cup {"fetch"}
    PROVE  /\ copy[r] \in Copy /\ copy[r].at \in Targets /\ copy[r].chosen \subseteq Things
           /\ copy[r].pc # "fetch" => /\ copy[r].item \in Remaining(r)
                                      /\ copy[r].item \in copy[r].chosen /\ copy[r].item \in Things
BY DEF IInv, Sound, Copy, Remaining

\* It reports an object and leaves it.
LEMMA Reported ==
    ASSUME IInv, NEW r \in Requests, copy[r].pc \in ItemPlaces \cup {"fetch"},
           NEW o \in Remaining(r), NEW status \in Statuses, Report(r, o, status), UNCHANGED unsaid
    PROVE  /\ Alone(r) /\ Sound(r)' /\ NotesStay
           /\ warned' \in SUBSET (Targets \X Things)
           /\ status \in Short => \A t \in Targets : t = copy[r].at => Noted(t, o)'
<1> DEFINE told == [copy[r].told EXCEPT ![copy[r].at][o] = status]
           next == IF Remaining(r) # {o} THEN "fetch"
                   ELSE IF Unopened(r) \ {copy[r].at} # {} THEN "open" ELSE "done"
           at   == IF next = "fetch" THEN copy[r].at ELSE Nothing
           seen == IF next = "fetch" THEN copy[r].existing ELSE {}
           x    == [copy[r] EXCEPT !.told = told, !.pc = next, !.at = at, !.existing = seen,
                      !.item = Nothing, !.lacking = {}, !.ids = NoRefs, !.cat = FALSE, !.made = 0]
           lost == {y \in Targets \X Things : told[y[1]][y[2]] \in Short}
<1>1. /\ copy[r] \in Copy /\ copy[r].at \in Targets /\ copy[r].at \in copy[r].targets
      /\ o \in copy[r].chosen /\ o \in Things /\ copy[r].told[copy[r].at][o] = "none"
  BY InLoop DEF IInv, Sound, Remaining
<1>2. /\ told \in [Targets -> [Things -> Statuses]]
      /\ \A t \in Targets, p \in Things :
           told[t][p] = IF t = copy[r].at /\ p = o THEN status ELSE copy[r].told[t][p]
  BY <1>1 DEF Copy
<1>3. next \in {"fetch", "open", "done"} /\ next \in Places
  BY DEF Places
<1>4. at \in Targets \cup {Nothing} /\ seen \in SUBSET Things
  BY <1>1 DEF Copy
<1>5. copy' = [copy EXCEPT ![r] = x] /\ warned' = IF next = "done" THEN warned \cup lost ELSE warned
  BY DEF Report
<1>6. /\ x.pc = next /\ x.at = at /\ x.chosen = copy[r].chosen /\ x.targets = copy[r].targets
      /\ x.file = copy[r].file /\ x.told = told
  BY <1>1 DEF Copy
<1>7. next = "fetch" => at = copy[r].at
  OBVIOUS
<1>8. \A t \in Targets, p \in Things : told[t][p] \in Short => <<t, p>> \in lost
  OBVIOUS
<1>9. lost \in SUBSET (Targets \X Things)
  OBVIOUS
<1> HIDE DEF told, next, at, seen, lost
<1>10. x \in Copy
  BY <1>1, <1>2, <1>3, <1>4, EmptyObject DEF Copy
<1> HIDE DEF x
<1>11. Alone(r) /\ copy'[r] = x
  BY <1>5, <1>10, Moves
<1>12. Sound(r)
  BY DEF IInv
<1>13. Sound(r)'
  BY <1>1, <1>3, <1>6, <1>7, <1>10, <1>11, <1>12 DEF Sound, ItemPlaces, Mapped, OneKind
<1>14. warned \subseteq warned' /\ warned' \in SUBSET (Targets \X Things)
  BY <1>5, <1>9 DEF IInv, Counts
<1>15. next # "done" => r \in Busy'
  BY <1>3, <1>6, <1>11 DEF Busy, Ended
<1>16. ASSUME NEW t \in Targets, NEW p \in Things, told[t][p] \in Short PROVE Noted(t, p)'
  <2>1. CASE next = "done"
    BY <2>1, <1>5, <1>8, <1>16 DEF Noted
  <2>2. CASE next # "done"
    BY <2>2, <1>6, <1>11, <1>15, <1>16 DEF Noted
  <2>3. QED
    BY <2>1, <2>2
<1>17. ASSUME NEW t \in Targets, NEW p \in Packages, Noted(t, p) PROVE Noted(t, p)'
  <2>1. p \in Things
    BY Kinds
  <2>2. CASE <<t, p>> \in warned \cup unsaid
    BY <2>2, <1>14 DEF Noted
  <2>3. ASSUME NEW q \in Busy, q # r, copy[q].told[t][p] \in Short PROVE Noted(t, p)'
    BY <2>3, <1>11 DEF Noted, Busy, Alone
  <2>4. ASSUME copy[r].told[t][p] \in Short PROVE Noted(t, p)'
    <3>1. told[t][p] \in Short
      BY <2>1, <2>4, <1>1, <1>2 DEF Short
    <3>2. QED
      BY <2>1, <3>1, <1>16
  <2>5. CASE \E q \in Busy : copy[q].told[t][p] \in Short
    BY <2>3, <2>4, <2>5
  <2>6. QED
    BY <1>17, <2>2, <2>5 DEF Noted
<1>18. ASSUME status \in Short, NEW t \in Targets, t = copy[r].at PROVE Noted(t, o)'
  BY <1>1, <1>2, <1>16, <1>18
<1>19. QED
  BY <1>11, <1>13, <1>14, <1>17, <1>18 DEF NotesStay

\* It goes on with the same object.
LEMMA GoesOn ==
    ASSUME IInv, Targeted', Grows, NEW r \in Requests, copy[r].pc \in Mapped,
           NEW pc \in Mapped \cup {"transfer"}, pc = "transfer" => copy[r].item \in Packages,
           NEW made \in Nat, copy' = [copy EXCEPT ![r] = [copy[r] EXCEPT !.pc = pc, !.made = made]]
    PROVE  /\ Alone(r) /\ Sound(r)' /\ r \in Busy' /\ copy'[r].told = copy[r].told
           /\ copy'[r].pc = pc /\ copy'[r].at = copy[r].at /\ copy'[r].item = copy[r].item
           /\ copy'[r].made = made
<1> DEFINE x == [copy[r] EXCEPT !.pc = pc, !.made = made]
<1>1. Sound(r) /\ copy[r] \in Copy
  BY DEF IInv, Sound
<1>2. x \in Copy /\ x.pc = pc
  BY <1>1 DEF Copy, Mapped, Places
<1>3. /\ x.at = copy[r].at /\ x.item = copy[r].item /\ x.chosen = copy[r].chosen
      /\ x.targets = copy[r].targets /\ x.file = copy[r].file /\ x.deps = copy[r].deps
      /\ x.ids = copy[r].ids /\ x.selected = copy[r].selected /\ x.told = copy[r].told
      /\ x.made = made
  BY <1>1 DEF Copy
<1>4. copy' = [copy EXCEPT ![r] = x]
  OBVIOUS
<1> HIDE DEF x
<1>5. Alone(r) /\ copy'[r] = x
  BY <1>2, <1>4, Moves
<1>6. Kept(r)' = Kept(r)
  BY <1>3, <1>5 DEF Kept
<1>7. \A d \in Kept(r) : copy[r].deps /\ copy[r].item \in Policies =>
         copy[r].ids[d] \in 1..server'[copy[r].at][d].id
  BY IdsStay
<1>8. Remaining(r)' = Remaining(r)
  BY <1>3, <1>5 DEF Remaining
<1>9. Sound(r)'
  BY <1>1, <1>2, <1>3, <1>5, <1>6, <1>7, <1>8 DEF Sound, ItemPlaces, Mapped, OneKind
<1>10. r \in Busy'
  BY <1>2, <1>5 DEF Busy, Ended, Mapped
<1>11. QED
  BY <1>2, <1>3, <1>5, <1>9, <1>10

LEMMA GoesOnPlainly ==
    ASSUME IInv, Targeted', Grows, NEW r \in Requests, copy[r].pc \in Mapped, NEW pc \in Mapped,
           Goto(r, pc)
    PROVE  /\ Alone(r) /\ Sound(r)' /\ r \in Busy' /\ copy'[r].told = copy[r].told
<1>1. copy[r] \in Copy /\ copy[r].made \in Nat
  BY DEF IInv, Copy
<1>2. copy' = [copy EXCEPT ![r] = [copy[r] EXCEPT !.pc = pc, !.made = copy[r].made]]
  BY <1>1 DEF Goto, Copy, IInv
<1>3. pc # "transfer"
  BY DEF Mapped
<1>4. QED
  BY <1>1, <1>2, <1>3, GoesOn

-----------------------------------------------------------------------------
\* Steps that leave the targets alone.
LEMMA Quiet ==
    ASSUME IInv, NEW r \in Requests, UNCHANGED server, Alone(r), Sound(r)', Counts',
           NotesStay,
           \A t \in Targets, o \in Packages : Held(r, t, o) => Noted(t, o)'
    PROVE  IInv'
<1>1. /\ Targeted' /\ Grows /\ RefsSound'
      /\ \A t \in Targets, o \in Things : Wanting(t, o)' => Stays(t, o)
  BY Untouched
<1>2. ASSUME NEW t \in Targets, NEW o \in Packages, Wanting(t, o)'
      PROVE  (Stays(t, o) /\ ~Held(r, t, o)) \/ Covered(t, o)'
  <2>1. CASE Held(r, t, o)
    BY <2>1 DEF Covered
  <2>2. CASE ~Held(r, t, o)
    BY <2>2, <1>1, <1>2, Kinds
  <2>3. QED
    BY <2>1, <2>2
<1>3. QED
  BY <1>1, <1>2, Assembled

LEMMA QuietReport ==
    ASSUME IInv, NEW r \in Requests, copy[r].pc \in ItemPlaces \cup {"fetch"},
           NEW o \in Remaining(r), NEW status \in Statuses, Report(r, o, status),
           UNCHANGED server, Smooth \/ (Mishap /\ UNCHANGED unsaid),
           At(r, "transfer") => o = copy[r].item /\ status \in Short
    PROVE  IInv'
<1>1. /\ Alone(r) /\ Sound(r)' /\ NotesStay
      /\ warned' \in SUBSET (Targets \X Things)
      /\ status \in Short => \A t \in Targets : t = copy[r].at => Noted(t, o)'
  BY Reported DEF Smooth, world
<1>2. Counts'
  BY <1>1, CountsStay
<1>3. QED
  BY <1>1, <1>2, Quiet DEF Held, Reaches

LEMMA QuietMove ==
    ASSUME IInv, NEW r \in Requests, copy[r].pc \in Mapped, NEW pc \in Mapped, Goto(r, pc),
           UNCHANGED server, Counts', UNCHANGED <<warned, unsaid>>
    PROVE  IInv'
<1>1. Targeted' /\ Grows
  BY Untouched
<1>2. Alone(r) /\ Sound(r)' /\ r \in Busy' /\ copy'[r].told = copy[r].told
  BY <1>1, GoesOnPlainly
<1>3. ~Reaches(r)
  BY DEF Reaches, At, Mapped
<1>4. NotesStay
  BY <1>2, NotesKept
<1>5. QED
  BY <1>2, <1>3, <1>4, Quiet DEF Held

LEMMA StatusNames == /\ "skipped" \in Statuses /\ "created" \in Statuses
                     /\ "failed" \in Statuses /\ "nofile" \in Statuses
                     /\ "failed" \in Short /\ "nofile" \in Short /\ Short \subseteq Statuses
BY DEF Statuses, Short

LEMMA WarnedTyped == IInv => warned \in SUBSET (Targets \X Things)
BY DEF IInv, Counts

LEMMA SmoothNotes == Smooth => UNCHANGED unsaid
BY DEF Smooth, world

-----------------------------------------------------------------------------
LEMMA FilledSound ==
    ASSUME NEW o \in Orders
    PROVE  /\ Filled(o) \in Copy /\ Filled(o).chosen = o.chosen
           /\ OneKind(Filled(o))
<1>1. o \in Order /\ OneKind(o)
  BY OrdersAssumption, KindsAssumption DEF OneKind, Deps
<1>2. QED
  BY <1>1, IdleCopy DEF Filled, Order, Copy, Idle, OneKind

\* A request at a place outside its loop.
LEMMA Outside ==
    ASSUME IInv, NEW r \in Requests, NEW x \in Copy, copy' = [copy EXCEPT ![r] = x],
           x.pc \in {"idle", "analysed", "done", "aborted", "open"},
           OneKind(x)
    PROVE  Alone(r) /\ Sound(r)' /\ copy'[r] = x
<1>1. Alone(r) /\ copy'[r] = x
  BY Moves
<1>2. QED
  BY <1>1 DEF Sound, ItemPlaces, Mapped

LEMMA PreflightKeeps ==
    ASSUME IInv, NEW r \in Requests, NEW o \in Orders, Preflight(r, o)
    PROVE  IInv'
<1>1. PICK t \in o.targets :
        copy' = [copy EXCEPT ![r] =
                   [Filled(o) EXCEPT !.pc = "analysed", !.selected = Lacks(o.chosen, t)]]
  BY DEF Preflight
<1> DEFINE f == Filled(o)
           l == Lacks(o.chosen, t)
           x == [f EXCEPT !.pc = "analysed", !.selected = l]
<1>2. l \in SUBSET (Deps \cup {Category})
  BY DEF Lacks
<1>3. f \in Copy /\ OneKind(f)
  BY FilledSound
<1>4. copy' = [copy EXCEPT ![r] = x]
  BY <1>1
<1> HIDE DEF f, l
<1>5. x \in Copy /\ x.pc = "analysed" /\ x.file = f.file /\ x.chosen = f.chosen
  BY <1>2, <1>3 DEF Copy, Places
<1> HIDE DEF x
<1>6. Alone(r) /\ Sound(r)'
  BY <1>3, <1>4, <1>5, Outside DEF OneKind
<1>7. Counts'
  BY DEF Preflight, IInv, Counts, world
<1>8. ~Reaches(r) /\ r \notin Busy
  BY DEF Preflight, Reaches, At, Busy, Ended
<1>9. NotesStay
  BY <1>6, <1>8, NotesKept DEF Preflight, world
<1>10. QED
  BY <1>6, <1>7, <1>8, <1>9, Quiet DEF Preflight, Held

LEMMA SubmitKeeps ==
    ASSUME IInv, NEW r \in Requests, NEW request \in Copy, copy[r].pc \in Ended,
           OneKind(request), Submit(r, request)
    PROVE  IInv'
<1> DEFINE x == [request EXCEPT !.pc = "open"]
<1>1. x \in Copy /\ x.pc = "open" /\ OneKind(x)
  BY DEF Copy, Places, OneKind
<1>2. copy' = [copy EXCEPT ![r] = x]
  BY DEF Submit
<1> HIDE DEF x
<1>3. Alone(r) /\ Sound(r)'
  BY <1>1, <1>2, Outside
<1>4. Counts'
  BY BoundsAssumption DEF Submit, IInv, Counts
<1>5. ~Reaches(r) /\ r \notin Busy
  BY DEF Reaches, At, Ended, Busy
<1>6. NotesStay
  BY <1>3, <1>5, NotesKept DEF Submit
<1>7. QED
  BY <1>3, <1>4, <1>5, <1>6, Quiet DEF Submit, Held

LEMMA OpenKeeps ==
    ASSUME IInv, NEW r \in Requests, Open(r)
    PROVE  IInv'
<1>1. PICK t \in Unopened(r) :
        copy' = [copy EXCEPT ![r].pc = "fetch", ![r].at = t, ![r].existing = Names(t)]
  BY DEF Open
<1> DEFINE x == [copy[r] EXCEPT !.pc = "fetch", !.at = t, !.existing = Names(t)]
<1>2. copy[r] \in Copy /\ OneKind(copy[r])
  BY DEF IInv, Sound
<1>3. t \in copy[r].targets /\ t \in Targets /\ Names(t) \in SUBSET Things
  BY <1>2 DEF Unopened, Names, Copy
<1>4. /\ x \in Copy /\ x.pc = "fetch" /\ x.at \in x.targets
      /\ OneKind(x) /\ x.told = copy[r].told
  BY <1>2, <1>3 DEF Copy, Places, OneKind
<1>5. copy' = [copy EXCEPT ![r] = x]
  BY <1>1, <1>2 DEF IInv, Copy
<1> HIDE DEF x
<1>6. Alone(r) /\ copy'[r] = x
  BY <1>4, <1>5, Moves
<1>7. Sound(r)'
  BY <1>4, <1>6 DEF Sound, ItemPlaces, Mapped
<1>8. Counts'
  BY CountsStay, WarnedTyped DEF Open
<1>9. ~Reaches(r) /\ r \in Busy'
  BY <1>4, <1>6 DEF Open, Reaches, At, Busy, Ended
<1>10. NotesStay
  BY <1>4, <1>6, <1>9, SmoothNotes, NotesKept DEF Open
<1>11. QED
  BY <1>6, <1>7, <1>8, <1>9, <1>10, Quiet DEF Open, Held

LEMMA FetchKeeps ==
    ASSUME IInv, NEW r \in Requests, Fetch(r)
    PROVE  IInv'
<1>1. /\ copy[r].pc = "fetch" /\ copy[r].pc \in ItemPlaces \cup {"fetch"}
      /\ ~At(r, "transfer") /\ ~Reaches(r)
  BY DEF Fetch, Reaches, At
<1>2. PICK o \in Remaining(r) :
        \/ Report(r, o, "skipped")
        \/ /\ copy' = [copy EXCEPT ![r].item = o,
                ![r].cat = o \in Categorised /\ Category \in copy[r].selected,
                ![r].pc = IF o \in Policies /\ copy[r].deps THEN "deps"
                          ELSE IF o \in Policies \cup Scripts THEN "category" ELSE "create"]
           /\ UNCHANGED warned
  BY DEF Fetch
<1>3. o \in copy[r].chosen /\ o \in Things
  BY <1>1, InLoop DEF Remaining
<1>4. CASE Report(r, o, "skipped")
  BY <1>1, <1>3, <1>4, QuietReport, StatusNames DEF Fetch
<1>5. CASE UNCHANGED warned /\ ~Report(r, o, "skipped")
  <2> DEFINE cat == o \in Categorised /\ Category \in copy[r].selected
             pc  == IF o \in Policies /\ copy[r].deps THEN "deps"
                    ELSE IF o \in Policies \cup Scripts THEN "category" ELSE "create"
             x   == [copy[r] EXCEPT !.item = o, !.cat = cat, !.pc = pc]
  <2>1. copy[r] \in Copy /\ copy[r].at \in copy[r].targets /\ OneKind(copy[r])
    BY <1>1 DEF IInv, Sound
  <2>2. cat \in BOOLEAN /\ pc \in Places
    BY DEF Places
  <2>3. copy' = [copy EXCEPT ![r] = x]
    BY <1>2, <1>5, <2>1 DEF IInv, Copy
  <2>4. /\ pc \in {"deps", "category", "create"}
        /\ pc = "deps" => o \in Policies
        /\ pc \in Mapped => ~(copy[r].deps /\ o \in Policies)
    BY Kinds DEF Mapped
  <2> HIDE DEF cat, pc
  <2>5. x \in Copy
    BY <2>1, <2>2, <1>3 DEF Copy
  <2>6. /\ x.pc = pc /\ x.item = o /\ x.chosen = copy[r].chosen /\ x.at = copy[r].at
        /\ x.targets = copy[r].targets /\ x.file = copy[r].file /\ x.deps = copy[r].deps
        /\ x.told = copy[r].told
    BY <2>1 DEF Copy
  <2> HIDE DEF x
  <2>7. Alone(r) /\ copy'[r] = x
    BY <2>3, <2>5, Moves
  <2>8. Sound(r)' /\ r \in Busy'
    <3>1. o \in Remaining(r)'
      BY <2>6, <2>7 DEF Remaining
    <3>2. QED
      BY <2>1, <2>4, <2>5, <2>6, <2>7, <3>1 DEF Sound, ItemPlaces, OneKind, Busy, Ended
  <2>9. Counts'
    BY <1>5, CountsStay, WarnedTyped DEF Fetch
  <2>10. NotesStay
    BY <1>5, <2>6, <2>7, <2>8, SmoothNotes, NotesKept DEF Fetch
  <2>11. QED
    BY <1>1, <2>7, <2>8, <2>9, <2>10, Quiet DEF Fetch, Held
<1>6. QED
  BY <1>2, <1>4, <1>5

-----------------------------------------------------------------------------
LEMMA KeptAreDeps ==
    ASSUME NEW r \in Requests, copy[r].item \in Policies
    PROVE  Kept(r) \subseteq Deps
BY ReferencesAssumption DEF Kept

\* The request stays at the dependencies of its policy.
LEMMA AtDeps ==
    ASSUME IInv, NEW r \in Requests, copy[r].pc \in {"deps", "copydeps"}, NEW l \in SUBSET Deps,
           copy' = [copy EXCEPT ![r] = [copy[r] EXCEPT !.pc = "copydeps", !.lacking = l]]
    PROVE  /\ Alone(r) /\ Sound(r)'
           /\ warned' = warned /\ unsaid' = unsaid => NotesStay
<1> DEFINE x == [copy[r] EXCEPT !.pc = "copydeps", !.lacking = l]
<1>1. Sound(r) /\ copy[r] \in Copy
  BY DEF IInv, Sound
<1>2. x \in Copy /\ x.pc = "copydeps"
  BY <1>1 DEF Copy, Places
<1>3. /\ x.at = copy[r].at /\ x.item = copy[r].item /\ x.chosen = copy[r].chosen
      /\ x.targets = copy[r].targets /\ x.file = copy[r].file /\ x.told = copy[r].told
  BY <1>1 DEF Copy
<1>4. copy' = [copy EXCEPT ![r] = x]
  OBVIOUS
<1> HIDE DEF x
<1>5. Alone(r) /\ copy'[r] = x
  BY <1>2, <1>4, Moves
<1>6. Remaining(r)' = Remaining(r)
  BY <1>3, <1>5 DEF Remaining
<1>7. Sound(r)'
  BY <1>1, <1>2, <1>3, <1>5, <1>6 DEF Sound, ItemPlaces, Mapped, OneKind
<1>8. r \in Busy'
  BY <1>2, <1>5 DEF Busy, Ended
<1>9. QED
  BY <1>3, <1>5, <1>7, <1>8, NotesKept

LEMMA ListDepsKeeps ==
    ASSUME IInv, NEW r \in Requests, ListDeps(r)
    PROVE  IInv'
<1>1. copy[r].pc = "deps" /\ copy[r].item \in Policies /\ copy[r] \in Copy
  BY DEF ListDeps, At, IInv, Sound
<1> DEFINE l == {d \in Kept(r) : ~There(copy[r].at, d)}
<1>2. l \in SUBSET Deps
  BY <1>1, KeptAreDeps
<1>3. copy' = [copy EXCEPT ![r] = [copy[r] EXCEPT !.pc = "copydeps", !.lacking = l]]
  BY <1>1 DEF ListDeps, IInv, Copy
<1> HIDE DEF l
<1>4. Alone(r) /\ Sound(r)' /\ NotesStay
  BY <1>1, <1>2, <1>3, AtDeps, SmoothNotes DEF ListDeps
<1>5. Counts'
  BY CountsStay, WarnedTyped DEF ListDeps
<1>6. ~Reaches(r)
  BY <1>1 DEF Reaches, At
<1>7. QED
  BY <1>4, <1>5, <1>6, Quiet DEF ListDeps, Held

\* A copy of a dependency: there, with the next id.
LEMMA CopyOfObject ==
    ASSUME IInv, NEW t \in Targets, NEW o \in Things, NEW cat \in BOOLEAN
    PROVE  /\ CopyOf(t, o, cat) \in Object /\ CopyOf(t, o, cat).there
           /\ CopyOf(t, o, cat).id = server[t][o].id + 1 /\ CopyOf(t, o, cat).id \in Nat
           /\ CopyOf(t, o, cat).id >= 1 /\ CopyOf(t, o, cat).id >= server[t][o].id
           /\ ~CopyOf(t, o, cat).owed /\ ~CopyOf(t, o, cat).remapped
<1> DEFINE n == server[t][o].id + 1
<1>1. server[t][o].id \in Nat
  BY DEF IInv, Targeted, Object
<1>2. n \in Nat /\ n >= 1 /\ n >= server[t][o].id
  BY <1>1
<1>3. CopyOf(t, o, cat) = [Absent EXCEPT !.there = TRUE, !.id = n, !.cat = cat]
  BY DEF CopyOf
<1>4. n = server[t][o].id + 1 /\ ~Absent.owed /\ ~Absent.remapped
  BY DEF Absent
<1> HIDE DEF n
<1>5. QED
  BY <1>2, <1>3, <1>4, EmptyObject DEF Object

LEMMA DepCreated ==
    ASSUME IInv, NEW t \in Targets, NEW d \in Deps, NEW cat \in BOOLEAN,
           server' = [server EXCEPT ![t][d] = CopyOf(t, d, cat)]
    PROVE  /\ Targeted' /\ Grows /\ RefsSound'
           /\ \A u \in Targets, p \in Things : Wanting(u, p)' => Stays(u, p)
<1> DEFINE x == CopyOf(t, d, cat)
<1>1. d \in Things
  BY Kinds
<1>2. /\ x \in Object /\ x.id >= 1 /\ x.id >= server[t][d].id /\ ~x.owed /\ ~x.remapped
  BY <1>1, CopyOfObject
<1>3. server' = [server EXCEPT ![t][d] = x]
  OBVIOUS
<1> HIDE DEF x
<1>4. /\ Targeted' /\ Grows /\ RefsSound'
      /\ \A u \in Targets, p \in Things :
           Wanting(u, p)' => Stays(u, p) \/ (u = t /\ p = d /\ x.owed /\ ~x.file)
  BY <1>1, <1>2, <1>3, Replaced
<1>5. QED
  BY <1>2, <1>4

\* The request puts a dependency on its target and goes on with the rest.
LEMMA DepPut ==
    ASSUME IInv, NEW r \in Requests, At(r, "copydeps"), NEW d \in copy[r].lacking,
           NEW cat \in BOOLEAN,
           server' = [server EXCEPT ![copy[r].at][d] = CopyOf(copy[r].at, d, cat)],
           copy' = [copy EXCEPT ![r].lacking = @ \ {d}], UNCHANGED <<warned, unsaid>>,
           Smooth \/ (Mishap /\ UNCHANGED unsaid)
    PROVE  IInv'
<1>1. /\ copy[r].pc = "copydeps" /\ copy[r] \in Copy /\ copy[r].at \in Targets
  BY InLoop DEF At, ItemPlaces
<1> DEFINE l == copy[r].lacking \ {d}
<1>2. d \in Deps /\ l \in SUBSET Deps
  BY <1>1 DEF Copy
<1>3. copy' = [copy EXCEPT ![r] = [copy[r] EXCEPT !.pc = "copydeps", !.lacking = l]]
  BY <1>1 DEF IInv, Copy
<1> HIDE DEF l
<1>4. Alone(r) /\ Sound(r)' /\ NotesStay
  BY <1>1, <1>2, <1>3, AtDeps
<1>5. /\ Targeted' /\ Grows /\ RefsSound'
      /\ \A u \in Targets, p \in Things : Wanting(u, p)' => Stays(u, p)
  BY <1>1, <1>2, DepCreated
<1>6. Counts'
  BY CountsStay, WarnedTyped
<1>7. \A u \in Targets, p \in Packages :
         Wanting(u, p)' => (Stays(u, p) /\ ~Held(r, u, p)) \/ Covered(u, p)'
  BY <1>1, <1>5, Kinds DEF Held, Reaches, At
<1>8. QED
  BY <1>4, <1>5, <1>6, <1>7, Assembled

LEMMA CopyDepKeeps ==
    ASSUME IInv, NEW r \in Requests, CopyDep(r)
    PROVE  IInv'
<1>1. /\ copy[r].pc = "copydeps" /\ copy[r].item \in Remaining(r) /\ ~At(r, "transfer")
      /\ copy[r].pc \in ItemPlaces \cup {"fetch"} /\ Smooth
  BY InLoop DEF CopyDep, At, ItemPlaces
<1>2. PICK d \in copy[r].lacking :
        \/ Report(r, copy[r].item, "failed") /\ UNCHANGED server
        \/ /\ server' = [server EXCEPT ![copy[r].at][d] =
                           CopyOf(copy[r].at, d, d \in Categorised /\ copy[r].at \in category)]
           /\ copy' = [copy EXCEPT ![r].lacking = @ \ {d}] /\ UNCHANGED warned
  BY DEF CopyDep
<1>3. CASE Report(r, copy[r].item, "failed") /\ UNCHANGED server
  BY <1>1, <1>3, QuietReport, StatusNames
<1>4. CASE /\ server' = [server EXCEPT ![copy[r].at][d] =
                           CopyOf(copy[r].at, d, d \in Categorised /\ copy[r].at \in category)]
           /\ copy' = [copy EXCEPT ![r].lacking = @ \ {d}] /\ UNCHANGED warned
  <2> DEFINE cat == d \in Categorised /\ copy[r].at \in category
  <2>1. cat \in BOOLEAN /\ At(r, "copydeps")
    BY DEF CopyDep
  <2>2. server' = [server EXCEPT ![copy[r].at][d] = CopyOf(copy[r].at, d, cat)]
    BY <1>4
  <2> HIDE DEF cat
  <2>3. QED
    BY <1>1, <1>4, <2>1, <2>2, SmoothNotes, DepPut
<1>5. QED
  BY <1>2, <1>3, <1>4

LEMMA MapDepsKeeps ==
    ASSUME IInv, NEW r \in Requests, MapDeps(r)
    PROVE  IInv'
<1>1. /\ copy[r].pc = "copydeps" /\ copy[r].item \in Remaining(r) /\ copy[r].item \in Policies
      /\ copy[r] \in Copy /\ copy[r].at \in Targets /\ ~At(r, "transfer") /\ ~Reaches(r)
      /\ copy[r].pc \in ItemPlaces \cup {"fetch"} /\ (Smooth \/ (Mishap /\ UNCHANGED unsaid)) /\ UNCHANGED server
  BY InLoop DEF MapDeps, Reaches, At, ItemPlaces, IInv, Sound
<1>2. CASE Report(r, copy[r].item, "failed")
  BY <1>1, <1>2, QuietReport, StatusNames
<1>3. ASSUME ~Report(r, copy[r].item, "failed") PROVE IInv'
  <2> DEFINE t   == copy[r].at
             ids == [d \in Deps |-> IF d \in Kept(r) /\ There(t, d) THEN server[t][d].id
                                    ELSE Nothing]
             x   == [copy[r] EXCEPT !.pc = "category", !.ids = ids]
  <2>1. Absentees(r) = {} /\ copy' = [copy EXCEPT ![r] = x] /\ UNCHANGED warned
    BY <1>1, <1>3 DEF MapDeps, IInv, Copy
  <2>2. \A d \in Deps : /\ server[t][d].id \in Nat
                        /\ There(t, d) => server[t][d].id >= 1
    BY <1>1, Kinds DEF IInv, Targeted, Object
  <2>3. ids \in [Deps -> Nat \cup {Nothing}]
    BY <2>2
  <2>4. \A d \in Kept(r) : d \in Deps /\ There(t, d)
    BY <1>1, <2>1, KeptAreDeps DEF Absentees
  <2>5. \A d \in Kept(r) : ids[d] \in 1..server[t][d].id
    BY <2>2, <2>4
  <2> HIDE DEF ids
  <2>6. x \in Copy /\ x.pc = "category"
    BY <1>1, <2>3 DEF Copy, Places
  <2>7. /\ x.at = t /\ x.item = copy[r].item /\ x.chosen = copy[r].chosen /\ x.ids = ids
        /\ x.targets = copy[r].targets /\ x.file = copy[r].file /\ x.deps = copy[r].deps
        /\ x.selected = copy[r].selected /\ x.told = copy[r].told
    BY <1>1 DEF Copy
  <2> HIDE DEF x
  <2>8. Alone(r) /\ copy'[r] = x
    BY <2>1, <2>6, Moves
  <2>9. Kept(r)' = Kept(r) /\ Remaining(r)' = Remaining(r)
    BY <2>7, <2>8 DEF Kept, Remaining
  <2>10. \A d \in Kept(r) : ids[d] \in 1..server'[t][d].id
    BY <1>1, <2>5
  <2>11. Sound(r)
    BY DEF IInv
  <2> HIDE DEF t
  <2>12. Sound(r)' /\ r \in Busy'
    BY <1>1, <2>6, <2>7, <2>8, <2>9, <2>10, <2>11
       DEF Sound, ItemPlaces, OneKind, Busy, Ended, t
  <2>13. Counts'
    BY <1>1, <2>1, CountsStay, WarnedTyped
  <2>14. NotesStay
    BY <1>1, <2>1, <2>7, <2>8, <2>12, SmoothNotes, NotesKept
  <2>15. QED
    BY <1>1, <2>8, <2>12, <2>13, <2>14, Quiet DEF Held
<1>4. QED
  BY <1>2, <1>3

-----------------------------------------------------------------------------
LEMMA ListCategoriesKeeps ==
    ASSUME IInv, NEW r \in Requests, ListCategories(r)
    PROVE  IInv'
<1>1. copy[r].pc \in Mapped
  BY DEF ListCategories, At, Mapped
<1>2. PICK pc \in Mapped : Goto(r, pc)
  BY DEF ListCategories, Mapped
<1>3. Counts'
  BY CountsStay, WarnedTyped DEF ListCategories
<1>4. QED
  BY <1>1, <1>2, <1>3, SmoothNotes, QuietMove DEF ListCategories

LEMMA AddCategoryKeeps ==
    ASSUME IInv, NEW r \in Requests, AddCategory(r)
    PROVE  IInv'
<1>1. copy[r].pc \in Mapped /\ "create" \in Mapped
  BY DEF AddCategory, At, Mapped
<1>2. copy[r].at \in Targets
  BY <1>1, InLoop DEF Mapped, ItemPlaces
<1>3. Counts'
  BY <1>2 DEF AddCategory, IInv, Counts
<1>4. QED
  BY <1>1, <1>3, QuietMove DEF AddCategory

LEMMA RetryKeeps ==
    ASSUME IInv, NEW r \in Requests, RetryWithoutCategory(r)
    PROVE  IInv'
<1>1. copy[r].pc \in Mapped /\ "nocategory" \in Mapped
  BY DEF RetryWithoutCategory, Creating, At, Mapped
<1>2. Counts'
  BY CountsStay, WarnedTyped DEF RetryWithoutCategory
<1>3. QED
  BY <1>1, <1>2, SmoothNotes, QuietMove DEF RetryWithoutCategory

LEMMA RetryScriptKeeps ==
    ASSUME IInv, NEW r \in Requests, RetryScript(r)
    PROVE  IInv'
<1>1. CASE WithCategory(r) /\ Goto(r, "nocategory") /\ UNCHANGED server
  <2>1. copy[r].pc \in Mapped /\ "nocategory" \in Mapped
    BY <1>1 DEF WithCategory, At, Mapped
  <2>2. Counts'
    BY CountsStay, WarnedTyped DEF RetryScript
  <2>3. QED
    BY <1>1, <2>1, <2>2, QuietMove DEF RetryScript
<1>2. ASSUME At(r, "copydeps"), NEW d \in copy[r].lacking,
             server' = [server EXCEPT ![copy[r].at][d] = CopyOf(copy[r].at, d, FALSE)],
             copy' = [copy EXCEPT ![r].lacking = @ \ {d}]
      PROVE  IInv'
  BY <1>2, DepPut DEF RetryScript
<1>3. QED
  BY <1>1, <1>2 DEF RetryScript

LEMMA RefusedKeeps ==
    ASSUME IInv, NEW r \in Requests, Refused(r)
    PROVE  IInv'
<1>1. copy[r].pc \in ItemPlaces /\ ~At(r, "transfer")
  BY DEF Refused, Creating, At, ItemPlaces
<1>2. copy[r].item \in Remaining(r)
  BY <1>1 DEF IInv, Sound
<1>3. QED
  BY <1>1, <1>2, QuietReport, StatusNames DEF Refused

LEMMA FailsKeeps ==
    ASSUME IInv, NEW r \in Requests, Fails(r)
    PROVE  IInv'
<1>1. ASSUME copy[r].pc \in InItem, NEW status \in Failure(r), Report(r, copy[r].item, status)
      PROVE  IInv'
  <2>1. copy[r].pc \in ItemPlaces /\ copy[r].item \in Remaining(r)
    BY <1>1, PlacesOfItems DEF IInv, Sound
  <2>2. status \in Statuses /\ status \in Short
    BY StatusNames DEF Failure
  <2>3. QED
    BY <1>1, <2>1, <2>2, QuietReport DEF Fails
<1>2. CASE At(r, "fetch") /\ \E o \in Remaining(r) : Report(r, o, "failed")
  <2>1. PICK o \in Remaining(r) : Report(r, o, "failed")
    BY <1>2
  <2>2. copy[r].pc \in ItemPlaces \cup {"fetch"} /\ ~At(r, "transfer")
    BY <1>2 DEF At
  <2>3. QED
    BY <2>1, <2>2, QuietReport, StatusNames DEF Fails
<1>3. QED
  BY <1>1, <1>2 DEF Fails

-----------------------------------------------------------------------------
\* What a create puts on the target.
LEMMA MadeObject ==
    ASSUME IInv, NEW r \in Requests, Creating(r), NEW cat \in BOOLEAN
    PROVE  LET t == copy[r].at
               o == copy[r].item
               x == Made(r, cat)
           IN  /\ x \in Object /\ x.there /\ x.id >= 1 /\ x.id >= server[t][o].id
               /\ x.owed => copy[r].file
               /\ x.id \in Nat
               /\ o \in Policies /\ x.remapped =>
                    \A d \in Deps : x.refs[d] \in {Nothing} \cup 1..server[t][d].id
<1> DEFINE t == copy[r].at
           o == copy[r].item
           c == CopyOf(t, o, cat)
           m == Remapped(r)
           w == o \in Packages /\ copy[r].file
           x == [c EXCEPT !.refs = m, !.remapped = copy[r].deps, !.owed = w]
<1>1. /\ Sound(r) /\ copy[r] \in Copy /\ t \in Targets /\ o \in Things
      /\ copy[r].pc \in Mapped /\ copy[r].deps \in BOOLEAN
  BY InLoop DEF Creating, At, ItemPlaces, Mapped, IInv, Copy
<1>2. c \in Object /\ c.there /\ c.id >= 1 /\ c.id >= server[t][o].id
  BY <1>1, CopyOfObject
<1>3. m \in [Deps -> Nat \cup {Nothing}]
  BY <1>1, EmptyObject DEF Remapped, Copy
<1>4. ASSUME o \in Policies, copy[r].deps, NEW d \in Deps
      PROVE  m[d] \in {Nothing} \cup 1..server[t][d].id
  <2>1. m[d] = IF d \notin Kept(r) THEN Nothing
               ELSE IF copy[r].ids[d] = Nothing THEN 0 ELSE copy[r].ids[d]
    BY <1>4 DEF Remapped
  <2>2. d \in Kept(r) => copy[r].ids[d] \in 1..server[t][d].id
    BY <1>1, <1>4 DEF Sound
  <2>3. server[t][d].id \in Nat
    BY <1>1, Kinds DEF IInv, Targeted, Object
  <2>4. d \in Kept(r) => copy[r].ids[d] # Nothing
    BY <2>2, <2>3, Kinds
  <2>5. QED
    BY <2>1, <2>2, <2>4
<1>5. w \in BOOLEAN /\ (w => copy[r].file)
  OBVIOUS
<1>6. x = Made(r, cat)
  BY DEF Made
<1> HIDE DEF c, m, w
<1>7. /\ x \in Object /\ x.there /\ x.id >= 1 /\ x.id >= server[t][o].id
      /\ x.owed = w /\ x.remapped = copy[r].deps /\ x.refs = m
  BY <1>1, <1>2, <1>3, <1>5 DEF Object
<1> HIDE DEF x
<1>8. /\ x.owed => copy[r].file
      /\ o \in Policies /\ x.remapped =>
           \A d \in Deps : x.refs[d] \in {Nothing} \cup 1..server[t][d].id
  BY <1>4, <1>5, <1>7
<1>9. QED
  BY <1>6, <1>7, <1>8 DEF Object

LEMMA PutEffect ==
    ASSUME IInv, NEW r \in Requests, Creating(r), Put(r)
    PROVE  /\ Targeted' /\ Grows /\ RefsSound'
           /\ \A u \in Targets, p \in Things :
                Wanting(u, p)' => \/ Stays(u, p)
                                  \/ u = copy[r].at /\ p = copy[r].item /\ copy[r].file
<1> DEFINE t == copy[r].at
           o == copy[r].item
           cat == WithCategory(r)
           x == Made(r, cat)
<1>1. t \in Targets /\ o \in Things /\ copy[r] \in Copy
  BY InLoop DEF Creating, At, ItemPlaces
<1>2. cat \in BOOLEAN
  BY <1>1 DEF WithCategory, Copy
<1>3. server' = [server EXCEPT ![t][o] = x]
  BY DEF Put
<1> HIDE DEF cat
<1>4. /\ x \in Object /\ x.there /\ x.id >= 1 /\ x.id >= server[t][o].id
      /\ x.owed => copy[r].file
      /\ o \in Policies /\ x.remapped =>
           \A d \in Deps : x.refs[d] \in {Nothing} \cup 1..server[t][d].id
  BY <1>2, MadeObject
<1> HIDE DEF x
<1>5. /\ Targeted' /\ Grows /\ RefsSound'
      /\ \A u \in Targets, p \in Things :
           Wanting(u, p)' => Stays(u, p) \/ (u = t /\ p = o /\ x.owed /\ ~x.file)
  BY <1>1, <1>3, <1>4, Replaced
<1>6. QED
  BY <1>4, <1>5

LEMMA CreateKeeps ==
    ASSUME IInv, NEW r \in Requests, Create(r)
    PROVE  IInv'
<1>1. /\ copy[r].pc \in Mapped /\ copy[r].pc \in ItemPlaces /\ ~Reaches(r)
      /\ Creating(r) /\ Smooth
  BY DEF Create, Creating, Reaches, At, Mapped, ItemPlaces
<1>2. copy[r].item \in Remaining(r) /\ (copy[r].file => copy[r].item \in Packages)
  BY <1>1 DEF IInv, Sound, OneKind, Remaining
<1>3. /\ Targeted' /\ Grows /\ RefsSound'
      /\ \A u \in Targets, p \in Things :
           Wanting(u, p)' => \/ Stays(u, p)
                             \/ u = copy[r].at /\ p = copy[r].item /\ copy[r].file
  BY <1>1, PutEffect DEF Create
<1>4. CASE /\ copy[r].file /\ UNCHANGED warned
           /\ copy' = [copy EXCEPT ![r].pc = "transfer",
                                   ![r].made = server'[copy[r].at][copy[r].item].id]
  <2>1. PICK t \in Targets, o \in Things : t = copy[r].at /\ o = copy[r].item
    BY <1>1, InLoop DEF ItemPlaces
  <2>2. PICK made \in Nat : made = server'[t][o].id
    BY <2>1, <1>3 DEF Targeted, Object
  <2>3. copy' = [copy EXCEPT ![r] = [copy[r] EXCEPT !.pc = "transfer", !.made = made]]
    BY <1>4, <2>1, <2>2 DEF IInv, Copy
  <2>4. /\ Alone(r) /\ Sound(r)' /\ r \in Busy' /\ copy'[r].told = copy[r].told
        /\ copy'[r].pc = "transfer" /\ copy'[r].at = t /\ copy'[r].item = o
        /\ copy'[r].made = made
    <3>1. Targeted' /\ Grows /\ copy[r].pc \in Mapped /\ copy[r].item \in Packages
      BY <1>1, <1>2, <1>3, <1>4
    <3>2. /\ Alone(r) /\ Sound(r)' /\ r \in Busy' /\ copy'[r].told = copy[r].told
          /\ copy'[r].pc = "transfer" /\ copy'[r].at = copy[r].at
          /\ copy'[r].item = copy[r].item /\ copy'[r].made = made
      BY <3>1, <2>3, GoesOn
    <3>3. QED
      BY <3>2, <2>1
  <2>5. Counts' /\ NotesStay
    BY <1>1, <1>4, <2>4, CountsStay, WarnedTyped, SmoothNotes, NotesKept
  <2>6. ASSUME NEW u \in Targets, NEW p \in Packages, Wanting(u, p)'
        PROVE  (Stays(u, p) /\ ~Held(r, u, p)) \/ Covered(u, p)'
    <3>1. CASE Stays(u, p)
      BY <3>1, <1>1 DEF Held
    <3>2. CASE u = t /\ p = o
      <4>1. Held(r, u, p)'
        BY <3>2, <2>2, <2>4, <2>6 DEF Held, Reaches, At, Wanting, There
      <4>2. QED
        BY <4>1 DEF Covered
    <3>3. QED
      BY <1>3, <2>1, <2>6, <3>1, <3>2, Kinds
  <2>7. QED
    BY <1>3, <2>4, <2>5, <2>6, Assembled
<1>5. CASE ~copy[r].file /\ Report(r, copy[r].item, "created")
  <2>1. Alone(r) /\ Sound(r)' /\ NotesStay /\ warned' \in SUBSET (Targets \X Things)
    BY <1>1, <1>2, <1>5, Reported, StatusNames, SmoothNotes
  <2>2. Counts'
    BY <1>1, <2>1, CountsStay
  <2>3. \A u \in Targets, p \in Packages :
           Wanting(u, p)' => (Stays(u, p) /\ ~Held(r, u, p)) \/ Covered(u, p)'
    BY <1>1, <1>3, <1>5, Kinds DEF Held
  <2>4. QED
    BY <1>3, <2>1, <2>2, <2>3, Assembled
<1>6. QED
  BY <1>4, <1>5 DEF Create

-----------------------------------------------------------------------------
\* The file of a record arrives.
LEMMA FileEffect ==
    ASSUME IInv, NEW t \in Targets, NEW o \in Packages, There(t, o),
           server' = [server EXCEPT ![t][o].file = TRUE]
    PROVE  /\ Targeted' /\ Grows /\ RefsSound'
           /\ \A u \in Targets, p \in Things :
                Wanting(u, p)' => Stays(u, p) /\ ~(u = t /\ p = o)
<1> DEFINE x == [server[t][o] EXCEPT !.file = TRUE]
<1>1. /\ o \in Things /\ o \notin Policies /\ server[t][o] \in Object
      /\ server \in [Targets -> [Things -> Object]]
  BY Kinds DEF IInv, Targeted
<1>2. server' = [server EXCEPT ![t][o] = x]
  BY <1>1
<1>3. x \in Object /\ x.id = server[t][o].id /\ x.file
  BY <1>1 DEF Object
<1>4. x.id >= 1 /\ x.id >= server[t][o].id
  BY <1>1, <1>3 DEF IInv, Targeted, Object
<1> HIDE DEF x
<1>5. /\ Targeted' /\ Grows /\ RefsSound'
      /\ \A u \in Targets, p \in Things :
           Wanting(u, p)' => Stays(u, p) \/ (u = t /\ p = o /\ x.owed /\ ~x.file)
  BY <1>1, <1>2, <1>3, <1>4, Replaced
<1>6. server'[t][o].file
  BY <1>1, <1>2, <1>3
<1>7. ~Wanting(t, o)'
  BY <1>6 DEF Wanting
<1>8. QED
  BY <1>3, <1>5, <1>7

\* It is reported.
LEMMA FileReported ==
    ASSUME IInv, NEW r \in Requests, Reaches(r),
           server' = [server EXCEPT ![copy[r].at][copy[r].item].file = TRUE],
           NEW status \in Statuses, Report(r, copy[r].item, status), Smooth \/ (Mishap /\ UNCHANGED unsaid)
    PROVE  IInv'
<1>1. /\ copy[r].pc \in ItemPlaces \cup {"fetch"}
      /\ copy[r].item \in Remaining(r) /\ copy[r].item \in Packages
  BY DEF Reaches, At, ItemPlaces, IInv, Sound
<1>2. copy[r].at \in Targets /\ There(copy[r].at, copy[r].item)
  BY <1>1, InLoop DEF Reaches
<1>3. Alone(r) /\ Sound(r)' /\ NotesStay /\ warned' \in SUBSET (Targets \X Things)
  BY <1>1, SmoothNotes, Reported
<1>4. Counts'
  BY <1>3, CountsStay
<1>5. /\ Targeted' /\ Grows /\ RefsSound'
      /\ \A u \in Targets, p \in Things :
           Wanting(u, p)' => Stays(u, p) /\ ~(u = copy[r].at /\ p = copy[r].item)
  BY <1>1, <1>2, FileEffect
<1>6. \A u \in Targets, p \in Packages :
         Wanting(u, p)' => (Stays(u, p) /\ ~Held(r, u, p)) \/ Covered(u, p)'
  BY <1>5, Kinds DEF Held
<1>7. QED
  BY <1>3, <1>4, <1>5, <1>6, Assembled

LEMMA TransferKeeps ==
    ASSUME IInv, NEW r \in Requests, Transfer(r)
    PROVE  IInv'
<1>1. copy[r].pc \in ItemPlaces \cup {"fetch"} /\ copy[r].item \in Remaining(r)
  BY DEF Transfer, At, ItemPlaces, IInv, Sound
<1>2. CASE Reaches(r)
  BY <1>2, FileReported, StatusNames DEF Transfer
<1>3. CASE ~Reaches(r)
  BY <1>1, <1>3, QuietReport, StatusNames DEF Transfer
<1>4. QED
  BY <1>2, <1>3

LEMMA UnansweredKeeps ==
    ASSUME IInv, NEW r \in Requests, Unanswered(r)
    PROVE  IInv'
<1>1. ASSUME Creating(r), Put(r), NEW status \in Short, Report(r, copy[r].item, status)
      PROVE  IInv'
  <2>1. /\ copy[r].pc \in ItemPlaces \cup {"fetch"} /\ copy[r].item \in Remaining(r)
        /\ ~Reaches(r)
    BY <1>1 DEF Creating, Reaches, At, ItemPlaces, IInv, Sound
  <2>2. PICK t \in Targets : t = copy[r].at
    BY <2>1, InLoop
  <2>3. /\ Alone(r) /\ Sound(r)' /\ NotesStay /\ warned' \in SUBSET (Targets \X Things)
        /\ \A o \in Things : o = copy[r].item => Noted(t, o)'
    BY <1>1, <2>1, <2>2, Reported, StatusNames DEF Unanswered
  <2>4. Counts'
    BY <2>3, CountsStay DEF Unanswered
  <2>5. /\ Targeted' /\ Grows /\ RefsSound'
        /\ \A u \in Targets, p \in Things :
             Wanting(u, p)' => Stays(u, p) \/ (u = t /\ p = copy[r].item)
    BY <1>1, <2>2, PutEffect
  <2>6. \A u \in Targets, p \in Packages :
           Wanting(u, p)' => (Stays(u, p) /\ ~Held(r, u, p)) \/ Covered(u, p)'
    BY <2>1, <2>3, <2>5, Kinds DEF Held, Covered
  <2>7. QED
    BY <2>3, <2>4, <2>5, <2>6, Assembled
<1>2. ASSUME At(r, "copydeps"), NEW d \in copy[r].lacking,
             server' = [server EXCEPT ![copy[r].at][d] =
                          CopyOf(copy[r].at, d, d \in Categorised /\ copy[r].at \in category)],
             Report(r, copy[r].item, "failed")
      PROVE  IInv'
  <2>1. /\ copy[r].pc \in ItemPlaces \cup {"fetch"} /\ copy[r].item \in Remaining(r)
        /\ ~Reaches(r) /\ copy[r] \in Copy /\ copy[r].at \in Targets
    BY <1>2, InLoop DEF Reaches, At, ItemPlaces
  <2>2. Alone(r) /\ Sound(r)' /\ NotesStay /\ warned' \in SUBSET (Targets \X Things)
    BY <1>2, <2>1, Reported, StatusNames DEF Unanswered
  <2>3. Counts'
    BY <2>2, CountsStay DEF Unanswered
  <2> DEFINE cat == d \in Categorised /\ copy[r].at \in category
  <2>4. d \in Deps /\ cat \in BOOLEAN
    BY <2>1 DEF Copy
  <2>5. server' = [server EXCEPT ![copy[r].at][d] = CopyOf(copy[r].at, d, cat)]
    BY <1>2
  <2> HIDE DEF cat
  <2>6. /\ Targeted' /\ Grows /\ RefsSound'
        /\ \A u \in Targets, p \in Things : Wanting(u, p)' => Stays(u, p)
    BY <2>1, <2>4, <2>5, DepCreated
  <2>7. \A u \in Targets, p \in Packages :
           Wanting(u, p)' => (Stays(u, p) /\ ~Held(r, u, p)) \/ Covered(u, p)'
    BY <2>1, <2>6, Kinds DEF Held
  <2>8. QED
    BY <2>2, <2>3, <2>6, <2>7, Assembled
<1>3. CASE /\ Reaches(r)
           /\ server' = [server EXCEPT ![copy[r].at][copy[r].item].file = TRUE]
           /\ Report(r, copy[r].item, "nofile")
  BY <1>3, FileReported, StatusNames DEF Unanswered
<1>4. CASE /\ Creating(r) /\ Put(r)
           /\ \E status \in {"failed"} \cup (IF copy[r].file THEN {"nofile"} ELSE {}) :
                Report(r, copy[r].item, status)
  BY <1>1, <1>4, StatusNames
<1>5. CASE /\ At(r, "copydeps") /\ Report(r, copy[r].item, "failed")
           /\ \E d \in copy[r].lacking :
                server' = [server EXCEPT ![copy[r].at][d] =
                             CopyOf(copy[r].at, d, d \in Categorised /\ copy[r].at \in category)]
  BY <1>2, <1>5
<1>6. QED
  BY <1>3, <1>4, <1>5 DEF Unanswered

LEMMA AbortKeeps ==
    ASSUME IInv, NEW r \in Requests, Abort(r)
    PROVE  IInv'
<1> DEFINE x == [Idle EXCEPT !.pc = "aborted"]
<1>1. x \in Copy /\ x.pc = "aborted" /\ OneKind(x)
  BY IdleCopy DEF Copy, Places, Idle, OneKind
<1>2. copy' = [copy EXCEPT ![r] = x]
  BY DEF Abort
<1> HIDE DEF x
<1>3. Alone(r) /\ Sound(r)'
  BY <1>1, <1>2, Outside
<1>4. warned' = warned /\ unsaid' = unsaid \cup Unfinished(r) /\ UNCHANGED server
      /\ Unfinished(r) \subseteq Targets \X Things
  BY DEF Abort, Unfinished
<1>5. Counts'
  BY <1>4, BoundsAssumption DEF Abort, Mishap, IInv, Counts
<1>6. ASSUME NEW t \in Targets, NEW o \in Things,
             copy[r].told[t][o] \in Short \/ Held(r, t, o)
      PROVE  Noted(t, o)'
  <2>1. <<t, o>> \in Unfinished(r)
    BY <1>6 DEF Unfinished, Held
  <2>2. QED
    BY <1>4, <2>1 DEF Noted
<1>7. ASSUME NEW t \in Targets, NEW o \in Packages, Noted(t, o) PROVE Noted(t, o)'
  <2>1. o \in Things
    BY Kinds
  <2>2. CASE <<t, o>> \in warned \cup unsaid
    BY <2>2, <1>4 DEF Noted
  <2>3. ASSUME NEW q \in Busy, q # r, copy[q].told[t][o] \in Short PROVE Noted(t, o)'
    BY <2>3, <1>3 DEF Noted, Busy, Alone
  <2>4. CASE \E q \in Busy : copy[q].told[t][o] \in Short
    BY <2>1, <2>3, <2>4, <1>6
  <2>5. QED
    BY <1>7, <2>2, <2>4 DEF Noted
<1>8. QED
  BY <1>3, <1>4, <1>5, <1>6, <1>7, Quiet, Kinds DEF NotesStay

LEMMA RemoveKeeps ==
    ASSUME IInv, NEW t \in Targets, NEW o \in Things, Remove(t, o)
    PROVE  IInv'
<1> DEFINE x == [Absent EXCEPT !.id = server[t][o].id]
<1>1. server[t][o].id \in Nat
  BY DEF IInv, Targeted, Object
<1>2. x \in Object /\ x.id = server[t][o].id /\ ~x.there /\ ~x.owed /\ ~x.remapped
  BY <1>1, EmptyObject DEF Object, Absent
<1>3. server' = [server EXCEPT ![t][o] = x] /\ x.id >= server[t][o].id
  BY <1>1, <1>2 DEF Remove
<1> HIDE DEF x
<1>4. /\ Targeted' /\ Grows /\ RefsSound'
      /\ \A u \in Targets, p \in Things :
           Wanting(u, p)' => Stays(u, p) \/ (u = t /\ p = o /\ x.owed /\ ~x.file)
  BY <1>1, <1>2, <1>3, Replaced
<1>5. copy' = copy /\ warned' = warned /\ unsaid' = unsaid
  BY DEF Remove
<1>6. \A q \in Requests : Sound(q)'
  BY <1>4, <1>5, SoundStays
<1>7. Counts'
  BY <1>5, CountsStay, WarnedTyped DEF Remove
<1>8. ASSUME NEW u \in Targets, NEW p \in Packages, Wanting(u, p)'
      PROVE  Covered(u, p)'
  <2>1. Stays(u, p)
    BY <1>2, <1>4, <1>8, Kinds
  <2>2. Covered(u, p)
    BY <2>1, GapsCovered DEF IInv, AllCovered, Stays
  <2>3. Noted(u, p) => Noted(u, p)'
    BY <1>5 DEF Noted, Busy
  <2>4. \A q \in Requests : Held(q, u, p) => Held(q, u, p)'
    BY <1>5, <1>8, <2>1 DEF Held, Reaches, At, Stays, Wanting, There
  <2>5. QED
    BY <2>2, <2>3, <2>4 DEF Covered
<1>9. AllCovered'
  BY <1>8 DEF AllCovered
<1>10. NoSilentGap'
  BY <1>9, GapsCovered, PTL
<1>11. QED
  BY <1>4, <1>5, <1>6, <1>7, <1>10 DEF IInv

-----------------------------------------------------------------------------
LEMMA InitSound == Init => IInv
<1>1. SUFFICES ASSUME Init PROVE IInv
  OBVIOUS
<1>2. PICK here \in SUBSET Stock :
        /\ server = [t \in Targets |-> [o \in Things |->
                       IF <<t, o>> \in here THEN Found ELSE Absent]]
        /\ category = {t \in Targets : <<t, Category>> \in here}
  BY <1>1 DEF Init
<1>3. Found \in Object /\ Found.id = 1 /\ ~Found.owed /\ ~Found.remapped
      /\ Absent \in Object /\ ~Absent.there /\ ~Absent.remapped
  BY EmptyObject DEF Found, Absent, Object
<1>4. \A t \in Targets, o \in Things : server[t][o] = Found \/ server[t][o] = Absent
  BY <1>2
<1>5. Targeted
  <2>1. server \in [Targets -> [Things -> Object]]
    BY <1>2, <1>3
  <2>2. QED
    BY <1>3, <1>4, <2>1 DEF Targeted, There
<1>6. Counts
  BY <1>1, <1>2, BoundsAssumption DEF Init, Counts
<1>7. copy \in [Requests -> Copy] /\ \A r \in Requests : copy[r] = Idle
  BY <1>1, IdleCopy DEF Init
<1>8. \A r \in Requests : Sound(r)
  BY <1>7, IdleCopy DEF Sound, Idle, ItemPlaces, Mapped, OneKind
<1>9. RefsSound
  BY <1>3, <1>4, Kinds DEF RefsSound
<1>10. NoSilentGap
  BY <1>3, <1>4, Kinds DEF NoSilentGap, There
<1>11. QED
  BY <1>5, <1>6, <1>7, <1>8, <1>9, <1>10 DEF IInv

LEMMA NextSound == IInv /\ [Next]_vars => IInv'
<1>1. SUFFICES ASSUME IInv, [Next]_vars PROVE IInv'
  OBVIOUS
<1>2. CASE UNCHANGED vars
  BY <1>1, <1>2 DEF vars, world, IInv, Targeted, Counts, Sound, Remaining, Kept, There,
                    RefsSound, NoSilentGap, Busy, Unfinished, Reaches, At
<1>3. ASSUME NEW r \in Requests, NEW o \in Orders, Preflight(r, o) \/ Send(r, o) PROVE IInv'
  <2>1. CASE Preflight(r, o)
    BY <1>1, <2>1, PreflightKeeps
  <2>2. CASE Send(r, o)
    BY <1>1, <2>2, FilledSound, SubmitKeeps DEF Send
  <2>3. QED
    BY <1>3, <2>1, <2>2
<1>4. ASSUME NEW r \in Requests, Migrate(r) PROVE IInv'
  <2>1. copy[r] \in Copy /\ copy[r].pc \in Ended /\ OneKind(copy[r])
    BY <1>1, <1>4 DEF Migrate, At, Ended, IInv, Sound
  <2>2. QED
    BY <1>1, <1>4, <2>1, SubmitKeeps DEF Migrate
<1>5. ASSUME NEW r \in Requests, Step(r) PROVE IInv'
  BY <1>1, <1>5, OpenKeeps, FetchKeeps, ListDepsKeeps, CopyDepKeeps, MapDepsKeeps,
     ListCategoriesKeeps, AddCategoryKeeps, CreateKeeps, RetryKeeps, RefusedKeeps,
     TransferKeeps DEF Step
<1>6. ASSUME NEW r \in Requests, Trouble(r) PROVE IInv'
  BY <1>1, <1>6, FailsKeeps, UnansweredKeeps, RetryScriptKeeps, AbortKeeps DEF Trouble
<1>7. ASSUME NEW t \in Targets, NEW o \in Things, Remove(t, o) PROVE IInv'
  BY <1>1, <1>7, RemoveKeeps
<1>8. QED
  BY <1>1, <1>2, <1>3, <1>4, <1>5, <1>6, <1>7 DEF Next

\* The inductive invariant holds throughout: every request is sound at its place, the ids on
\* the targets only grow, and the properties below hold (both routers' loops).
THEOREM Invariance == Spec => []IInv
<1>1. QED
  BY InitSound, NextSound, PTL DEF Spec

\* The state is well typed, and a request in its loop has a target and an object of its order.
THEOREM TypeCorrect == Spec => []TypeOK
<1>1. QED
  BY Invariance, IInvTypes, PTL

\* A policy copied with its dependencies refers to ids the target gave to those names and to
\* none of the source, whatever other requests and administrators do to the target between
\* the listing and the create (migrator.py:361-437, 889-950).
THEOREM RefsStaySound == Spec => []RefsSound
<1>1. IInv => RefsSound
  BY DEF IInv
<1>2. QED
  BY <1>1, Invariance, PTL

\* A package record without the file it should have is one that a response reported, or that
\* a request under way has noted or in hand, through lost answers and failures, removals and
\* second creations; the only silent ones are those of a request that ended with no response
\* (package_sync.py:359-482, 568).
THEOREM GapsAreTold == Spec => []NoSilentGap
<1>1. IInv => NoSilentGap
  BY DEF IInv
<1>2. QED
  BY <1>1, Invariance, PTL

-----------------------------------------------------------------------------
(***************************************************************************)
(* A run that nothing disturbed.  Progress says of every request which     *)
(* targets it has done, is at, and has still to open; Undisturbed says of  *)
(* a clean one that no other is under way, that what it has read of its    *)
(* target is still so, and that what it has reported is there or was not   *)
(* portable.  It rests on what stays on a target while the request works   *)
(* there (Keeps), on a closed target never getting the category, and on no *)
(* target getting it from a request for packages (Sealed).                 *)
(***************************************************************************)
Whole(r, t) == \A o \in copy[r].chosen : copy[r].told[t][o] # "none"
Blank(r, t) == \A o \in copy[r].chosen : copy[r].told[t][o] = "none"

Progress(r) ==
    /\ copy[r].pc \in {"idle", "analysed"} => copy[r].told = Untold
    /\ copy[r].pc \in {"idle", "analysed", "open", "done"} => copy[r].at = Nothing
    /\ copy[r].pc \in ItemPlaces => copy[r].item \in Remaining(r)
    /\ copy[r].pc \in ItemPlaces \cup {"open", "fetch", "done"} =>
         \A t \in copy[r].targets \ {copy[r].at} : Whole(r, t) \/ Blank(r, t)
    /\ copy[r].pc = "done" => \A t \in copy[r].targets : Whole(r, t)

\* The copy of an object is to carry the category.
Wanted(r, o) == o \in Categorised /\ Category \in copy[r].selected

Delivered(r) ==
    \A t \in copy[r].targets, o \in copy[r].chosen :
        /\ copy[r].told[t][o] # "none" =>
             There(t, o) \/ (copy[r].told[t][o] = "failed" /\ Unportable(r, t, o))
        /\ copy[r].told[t][o] = "created" /\ Wanted(r, o) =>
             server[t][o].cat \/ t \in Closed \ category
        /\ copy[r].file /\ copy[r].told[t][o] \in {"created", "nofile"} => server[t][o].file

\* What its place implies of the target of a clean request.
Placed(r) ==
    LET t == copy[r].at
        o == copy[r].item
    IN  /\ At(r, "copydeps") => /\ Kept(r) \subseteq Names(t) \cup copy[r].lacking
                                /\ copy[r].lacking \cap Names(t) = {}
        /\ copy[r].pc \in {"category", "newcategory", "nocategory"} => o \notin Packages
        /\ At(r, "create") /\ copy[r].cat /\ o \notin Packages => t \in category \cup Closed
        /\ At(r, "nocategory") => t \in Closed \ category
        /\ copy[r].pc \in Mapped /\ o \in Policies /\ copy[r].deps =>
             \A d \in Kept(r) : There(t, d) /\ server[t][d].id = copy[r].ids[d]
        /\ At(r, "transfer") => Reaches(r) /\ (Wanted(r, o) => server[t][o].cat)

InHand(r) ==
    /\ copy[r].pc \in ItemPlaces \cup {"fetch"} => copy[r].existing \subseteq Names(copy[r].at)
    /\ copy[r].pc \in ItemPlaces => copy[r].cat = Wanted(r, copy[r].item)
    /\ Placed(r)

Undisturbed(r) ==
    /\ copy[r].pc \in ItemPlaces \cup {"open", "fetch", "done"}
    /\ Busy \subseteq {r}
    /\ Delivered(r) /\ InHand(r)

CInv == \A r \in Requests : Progress(r) /\ (r \in clean => Undisturbed(r))

\* What is on a target stays there, with what it has; a closed target does not get the
\* category, and no target gets it from a request for packages.
Keeps == \A t \in Targets, o \in Things :
            There(t, o) => /\ There(t, o)' /\ server'[t][o].cat = server[t][o].cat
                           /\ server[t][o].file => server'[t][o].file
Sealed(r) == /\ category' \cap Closed = category \cap Closed
             /\ category' = category \/ copy[r].chosen \cap Packages = {}

LEMMA CleanCompletes == IInv /\ CInv => CleanRunCompletes
<1>1. SUFFICES ASSUME IInv, CInv, NEW r \in clean, At(r, "done"),
                      NEW t \in copy[r].targets, NEW o \in copy[r].chosen
               PROVE  /\ There(t, o) \/ (copy[r].told[t][o] = "failed" /\ Unportable(r, t, o))
                      /\ copy[r].told[t][o] = "created" /\ o \in Categorised
                           /\ Category \in copy[r].selected /\ t \in category => server[t][o].cat
                      /\ copy[r].file /\ copy[r].told[t][o] \in {"created", "nofile"} =>
                           server[t][o].file
  BY DEF CleanRunCompletes
<1>2. r \in Requests
  BY <1>1 DEF IInv, Counts
<1>3. copy[r].told[t][o] # "none" /\ Delivered(r)
  BY <1>1, <1>2 DEF CInv, Progress, Whole, Undisturbed, At
<1>4. QED
  BY <1>1, <1>3 DEF Delivered, Wanted

-----------------------------------------------------------------------------
LEMMA BusyPlaces ==
    ASSUME IInv, NEW r \in Requests
    PROVE  r \in Busy <=> copy[r].pc \in ItemPlaces \cup {"open", "fetch"}
BY DEF IInv, Copy, Busy, Places, Ended, ItemPlaces

LEMMA ProgressStays ==
    ASSUME NEW q \in Requests, Progress(q), copy'[q] = copy[q]
    PROVE  Progress(q)'
BY DEF Progress, Whole, Blank, Remaining

\* A step of a request that is under way, without a mishap: no other is clean.
LEMMA CleanStep ==
    ASSUME IInv, CInv, NEW r \in Requests, r \in Busy, Alone(r), UNCHANGED clean,
           Progress(r)', r \in clean => Undisturbed(r)'
    PROVE  CInv'
<1>1. SUFFICES ASSUME NEW q \in Requests PROVE Progress(q)' /\ (q \in clean' => Undisturbed(q)')
  BY DEF CInv
<1>2. CASE q = r
  BY <1>2
<1>3. CASE q # r
  <2>1. copy'[q] = copy[q] /\ Progress(q)'
    BY <1>3, ProgressStays DEF CInv, Alone
  <2>2. q \notin clean
    BY <1>3 DEF CInv, Undisturbed
  <2>3. QED
    BY <2>1, <2>2
<1>4. QED
  BY <1>2, <1>3

\* After a mishap no request counts as clean.
LEMMA MishapStep ==
    ASSUME IInv, CInv, NEW r \in Requests, Alone(r), Progress(r)', Mishap
    PROVE  CInv'
BY ProgressStays DEF CInv, Alone, Mishap

-----------------------------------------------------------------------------
\* The request after a report: what it reported, and where it goes on.
LEMMA ReportedAs ==
    ASSUME IInv, NEW r \in Requests, copy[r].pc \in ItemPlaces \cup {"fetch"},
           NEW o \in Remaining(r), NEW status \in Statuses, Report(r, o, status)
    PROVE  LET c == copy[r]
               x == copy'[r]
           IN  /\ Alone(r)
               /\ x.chosen = c.chosen /\ x.targets = c.targets /\ x.selected = c.selected
               /\ x.deps = c.deps /\ x.file = c.file
               /\ x.told = [c.told EXCEPT ![c.at][o] = status]
               /\ \/ x.pc = "fetch" /\ x.at = c.at /\ x.existing = c.existing
                  \/ x.pc \in {"open", "done"} /\ x.at = Nothing /\ Remaining(r) = {o}
               /\ x.pc = "done" => Unopened(r) \ {c.at} = {}
<1> DEFINE told == [copy[r].told EXCEPT ![copy[r].at][o] = status]
           next == IF Remaining(r) # {o} THEN "fetch"
                   ELSE IF Unopened(r) \ {copy[r].at} # {} THEN "open" ELSE "done"
           at   == IF next = "fetch" THEN copy[r].at ELSE Nothing
           seen == IF next = "fetch" THEN copy[r].existing ELSE {}
           x    == [copy[r] EXCEPT !.told = told, !.pc = next, !.at = at, !.existing = seen,
                      !.item = Nothing, !.lacking = {}, !.ids = NoRefs, !.cat = FALSE, !.made = 0]
<1>1. copy[r] \in Copy /\ o \in copy[r].chosen /\ copy \in [Requests -> Copy]
  BY DEF IInv, Remaining
<1>2. copy' = [copy EXCEPT ![r] = x]
  BY DEF Report
<1>3. Alone(r)
  <2>1. x \in Copy
    <3>1. told \in [Targets -> [Things -> Statuses]]
      BY <1>1, InLoop DEF Copy, Remaining
    <3>2. next \in Places /\ at \in Targets \cup {Nothing} /\ seen \in SUBSET Things
      BY <1>1, InLoop DEF Copy, Places
    <3> HIDE DEF told, next, at, seen
    <3>3. QED
      BY <1>1, <3>1, <3>2, EmptyObject DEF Copy
  <2> HIDE DEF x
  <2>2. QED
    BY <1>2, <2>1, Moves
<1>4. /\ x.chosen = copy[r].chosen /\ x.targets = copy[r].targets /\ x.told = told
      /\ x.deps = copy[r].deps /\ x.file = copy[r].file
      /\ x.selected = copy[r].selected /\ x.pc = next /\ x.at = at /\ x.existing = seen
  BY <1>1 DEF Copy
<1>5. /\ \/ next = "fetch" /\ at = copy[r].at /\ seen = copy[r].existing
         \/ next \in {"open", "done"} /\ at = Nothing /\ Remaining(r) = {o}
      /\ next = "done" => Unopened(r) \ {copy[r].at} = {}
  OBVIOUS
<1> HIDE DEF next, at, seen, told, x
<1>6. copy'[r] = x
  BY <1>1, <1>2
<1>7. QED
  BY <1>3, <1>4, <1>5, <1>6 DEF told

LEMMA ReportAdvances ==
    ASSUME IInv, NEW r \in Requests, Progress(r), copy[r].pc \in ItemPlaces \cup {"fetch"},
           NEW o \in Remaining(r), NEW status \in Statuses \ {"none"}, Report(r, o, status)
    PROVE  Progress(r)'
<1>1. PICK t \in Targets : t = copy[r].at
  BY InLoop
<1> DEFINE c == copy[r]
           x == copy'[r]
<1>2. /\ x.chosen = c.chosen /\ x.targets = c.targets
      /\ (x.pc = "fetch" /\ x.at = t) \/ (x.pc \in {"open", "done"} /\ x.at = Nothing)
      /\ x.pc # "fetch" => Remaining(r) = {o}
      /\ x.pc = "done" => Unopened(r) \ {t} = {}
  BY <1>1, ReportedAs
<1>3. /\ c.told \in [Targets -> [Things -> Statuses]] /\ o \in Things
      /\ c.targets \subseteq Targets /\ c.chosen \subseteq Things
  BY InLoop DEF Remaining, Copy
<1>4. \A u \in Targets, p \in Things :
         x.told[u][p] = IF u = t /\ p = o THEN status ELSE c.told[u][p]
  <2>1. x.told = [c.told EXCEPT ![t][o] = status]
    BY <1>1, ReportedAs
  <2>2. QED
    BY <1>3, <2>1
<1>5. \A u \in c.targets \ {t} : (Whole(r, u) => Whole(r, u)') /\ (Blank(r, u) => Blank(r, u)')
  BY <1>2, <1>3, <1>4 DEF Whole, Blank
<1>6. \A u \in c.targets \ {t} : Whole(r, u) \/ Blank(r, u)
  BY <1>1 DEF Progress
<1>7. ASSUME x.pc # "fetch" PROVE Whole(r, t)'
  <2>1. SUFFICES ASSUME NEW p \in c.chosen PROVE x.told[t][p] # "none"
    BY <1>2 DEF Whole
  <2>2. CASE p = o
    BY <2>2, <1>3, <1>4
  <2>3. CASE p # o
    BY <2>3, <1>1, <1>2, <1>3, <1>4, <1>7 DEF Remaining
  <2>4. QED
    BY <2>2, <2>3
<1>8. x.pc = "done" => \A u \in c.targets \ {t} : Whole(r, u)
  BY <1>2, <1>6 DEF Unopened, Blank
<1>9. x.pc \notin ItemPlaces /\ x.pc \notin {"idle", "analysed"}
  BY <1>2 DEF ItemPlaces
<1>10. \A u \in x.targets \ {x.at} : Whole(r, u)' \/ Blank(r, u)'
  BY <1>2, <1>5, <1>6, <1>7
<1>11. x.pc = "done" => \A u \in x.targets : Whole(r, u)'
  BY <1>2, <1>5, <1>7, <1>8
<1>12. QED
  BY <1>2, <1>9, <1>10, <1>11 DEF Progress

\* A clean request reports what is there, with the category where it is to have it and its
\* file, or as failed what is not portable.
LEMMA CleanReport ==
    ASSUME IInv, CInv, NEW r \in Requests, copy[r].pc \in ItemPlaces \cup {"fetch"},
           NEW t \in Targets, t = copy[r].at,
           NEW o \in Remaining(r), NEW status \in Statuses \ {"none"}, Report(r, o, status),
           Keeps, UNCHANGED category, UNCHANGED clean,
           r \in clean => /\ There(t, o)' \/ (status = "failed" /\ Unportable(r, t, o))
                          /\ status = "created" /\ Wanted(r, o) =>
                               server'[t][o].cat \/ t \in Closed \ category
                          /\ copy[r].file /\ status \in {"created", "nofile"} =>
                               server'[t][o].file
    PROVE  CInv'
<1> DEFINE c == copy[r]
           x == copy'[r]
<1>1. /\ Alone(r)
      /\ x.chosen = c.chosen /\ x.targets = c.targets /\ x.selected = c.selected
      /\ x.deps = c.deps /\ x.file = c.file
      /\ \/ x.pc = "fetch" /\ x.at = t /\ x.existing = c.existing
         \/ x.pc \in {"open", "done"}
  BY ReportedAs
<1>2. Progress(r)'
  BY ReportAdvances DEF CInv
<1>3. r \in Busy
  BY BusyPlaces
<1>4. /\ c.told \in [Targets -> [Things -> Statuses]] /\ o \in Things
      /\ c.targets \subseteq Targets /\ c.chosen \subseteq Things
  BY InLoop DEF Remaining, Copy
<1>5. \A u \in Targets, p \in Things :
         x.told[u][p] = IF u = t /\ p = o THEN status ELSE c.told[u][p]
  <2>1. x.told = [c.told EXCEPT ![t][o] = status]
    BY ReportedAs
  <2>2. QED
    BY <1>4, <2>1
<1>6. ASSUME r \in clean PROVE Undisturbed(r)'
  <2>1. Undisturbed(r)
    BY <1>6 DEF CInv
  <2>2. Busy' \subseteq {r}
    BY <1>1, <2>1 DEF Undisturbed, Busy, Alone
  <2>3. Delivered(r)'
    <3>1. SUFFICES ASSUME NEW u \in c.targets, NEW p \in c.chosen
                   PROVE  /\ x.told[u][p] # "none" =>
                               There(u, p)' \/ (x.told[u][p] = "failed" /\ Unportable(r, u, p))
                          /\ x.told[u][p] = "created" /\ Wanted(r, p) =>
                               server'[u][p].cat \/ u \in Closed \ category
                          /\ c.file /\ x.told[u][p] \in {"created", "nofile"} =>
                               server'[u][p].file
      BY <1>1 DEF Delivered, Wanted, Unportable
    <3>2. CASE u = t /\ p = o
      BY <1>4, <1>5, <1>6, <3>2
    <3>3. CASE ~(u = t /\ p = o)
      <4>1. x.told[u][p] = c.told[u][p] /\ u \in Targets /\ p \in Things
        BY <1>4, <1>5, <3>3
      <4>2. /\ c.told[u][p] # "none" =>
                 There(u, p) \/ (c.told[u][p] = "failed" /\ Unportable(r, u, p))
            /\ c.told[u][p] = "created" /\ Wanted(r, p) =>
                 server[u][p].cat \/ u \in Closed \ category
            /\ c.file /\ c.told[u][p] \in {"created", "nofile"} => server[u][p].file
        BY <2>1 DEF Undisturbed, Delivered
      <4>3. c.told[u][p] \in {"created", "nofile"} =>
                 There(u, p) /\ c.told[u][p] # "failed" /\ c.told[u][p] # "none"
        BY <4>2
      <4>4. QED
        BY <4>1, <4>2, <4>3 DEF Keeps
    <3>4. QED
      BY <3>2, <3>3
  <2>4. InHand(r)'
    <3>1. x.pc \notin ItemPlaces
      BY <1>1 DEF ItemPlaces
    <3>2. ~At(r, "copydeps")' /\ ~At(r, "create")' /\ ~At(r, "nocategory")' /\ ~At(r, "transfer")'
      BY <1>1 DEF At
    <3>3. c.existing \subseteq Names(t)
      BY <2>1 DEF Undisturbed, InHand
    <3>4. Names(t) \subseteq Names(t)'
      BY DEF Names, Keeps
    <3>5. Placed(r)'
      <4>1. x.pc \notin Mapped
        BY <1>1 DEF Mapped
      <4>2. x.pc \notin {"category", "newcategory", "nocategory"}
        BY <1>1
      <4>3. QED
        BY <3>2, <4>1, <4>2 DEF Placed
    <3>6. (c.pc = "fetch" => c.existing \subseteq Names(c.at))'
      <4>1. SUFFICES ASSUME x.pc = "fetch" PROVE (c.existing \subseteq Names(c.at))'
        OBVIOUS
      <4>2. x.at = t /\ x.existing = c.existing
        BY <1>1, <4>1
      <4>3. QED
        BY <3>3, <3>4, <4>2 DEF Names, There
    <3>7. QED
      BY <3>1, <3>5, <3>6 DEF InHand
  <2>5. x.pc \in ItemPlaces \cup {"open", "fetch", "done"}
    BY <1>1
  <2>6. QED
    BY <2>2, <2>3, <2>4, <2>5 DEF Undisturbed
<1>7. QED
  BY <1>1, <1>2, <1>3, <1>6, CleanStep

-----------------------------------------------------------------------------
\* The request goes on with the same run, on the same target.
SameRun(r) ==
    /\ copy'[r].chosen = copy[r].chosen /\ copy'[r].targets = copy[r].targets
    /\ copy'[r].selected = copy[r].selected /\ copy'[r].told = copy[r].told
    /\ copy'[r].deps = copy[r].deps /\ copy'[r].file = copy[r].file
    /\ copy'[r].at = copy[r].at /\ copy'[r].existing = copy[r].existing

LEMMA MoveAdvances ==
    ASSUME NEW r \in Requests, Progress(r), copy[r].pc \in ItemPlaces \cup {"fetch"}, SameRun(r),
           copy'[r].pc \in ItemPlaces, copy'[r].item \in Remaining(r)
    PROVE  Progress(r)'
<1>1. copy'[r].pc \notin {"idle", "analysed", "open", "done"}
  BY DEF ItemPlaces
<1>2. Remaining(r)' = Remaining(r)
  BY DEF Remaining, SameRun
<1>3. \A t \in copy[r].targets \ {copy[r].at} : Whole(r, t)' \/ Blank(r, t)'
  BY DEF Progress, Whole, Blank, SameRun
<1>4. QED
  BY <1>1, <1>2, <1>3 DEF Progress, SameRun

LEMMA DeliveredStays ==
    ASSUME IInv, NEW r \in Requests, Delivered(r), Keeps, Sealed(r),
           copy'[r].chosen = copy[r].chosen, copy'[r].targets = copy[r].targets,
           copy'[r].selected = copy[r].selected, copy'[r].told = copy[r].told,
           copy'[r].deps = copy[r].deps, copy'[r].file = copy[r].file
    PROVE  Delivered(r)'
<1>1. copy[r].targets \subseteq Targets /\ copy[r].chosen \subseteq Things
  BY DEF IInv, Copy
<1>2. SUFFICES ASSUME NEW t \in copy[r].targets, NEW o \in copy[r].chosen
               PROVE  LET told == copy[r].told[t][o] IN
                      /\ told # "none" => There(t, o)' \/ (told = "failed" /\ Unportable(r, t, o)')
                      /\ told = "created" /\ Wanted(r, o) =>
                           server'[t][o].cat \/ t \in Closed \ category'
                      /\ copy[r].file /\ told \in {"created", "nofile"} => server'[t][o].file
  BY DEF Delivered, Wanted
<1> DEFINE told == copy[r].told[t][o]
<1>3. /\ told # "none" => There(t, o) \/ (told = "failed" /\ Unportable(r, t, o))
      /\ told = "created" /\ Wanted(r, o) => server[t][o].cat \/ t \in Closed \ category
      /\ copy[r].file /\ told \in {"created", "nofile"} => server[t][o].file
  BY DEF Delivered
<1>4. Unportable(r, t, o) => Unportable(r, t, o)'
  BY DEF Unportable, Sealed
<1>5. There(t, o) => /\ There(t, o)' /\ server'[t][o].cat = server[t][o].cat
                     /\ server[t][o].file => server'[t][o].file
  BY <1>1 DEF Keeps
<1>6. t \in Closed \ category => t \in Closed \ category'
  BY DEF Sealed
<1> HIDE DEF told
<1>7. told \in {"created", "nofile"} => There(t, o)
  BY <1>3
<1>8. QED
  BY <1>3, <1>4, <1>5, <1>6, <1>7 DEF told

LEMMA CleanMove ==
    ASSUME IInv, CInv, NEW r \in Requests, copy[r].pc \in ItemPlaces \cup {"fetch"},
           Alone(r), Keeps, UNCHANGED clean, SameRun(r),
           copy'[r].pc \in ItemPlaces, copy'[r].item \in Remaining(r),
           r \in clean => Sealed(r) /\ copy'[r].cat = Wanted(r, copy'[r].item) /\ Placed(r)'
    PROVE  CInv'
<1>1. Progress(r)'
  BY MoveAdvances DEF CInv
<1>2. r \in Busy
  BY BusyPlaces
<1>3. ASSUME r \in clean PROVE Undisturbed(r)'
  <2>1. Undisturbed(r)
    BY <1>3 DEF CInv
  <2>2. Busy' \subseteq {r}
    BY <2>1 DEF Undisturbed, Busy, Alone
  <2>3. Delivered(r)'
    BY <1>3, <2>1, DeliveredStays DEF Undisturbed, SameRun
  <2>4. PICK t \in Targets : t = copy[r].at
    BY InLoop
  <2>5. copy[r].existing \subseteq Names(t) /\ Names(t) \subseteq Names(t)'
    BY <2>1, <2>4 DEF Undisturbed, InHand, Names, Keeps
  <2>6. InHand(r)'
    BY <1>3, <2>4, <2>5 DEF InHand, SameRun, Wanted, Names, There
  <2>7. QED
    BY <2>2, <2>3, <2>6 DEF Undisturbed
<1>4. QED
  BY <1>1, <1>2, <1>3, CleanStep

\* A request that only changes its place.
LEMMA GoesTo ==
    ASSUME IInv, NEW r \in Requests, NEW pc \in Places, Goto(r, pc)
    PROVE  /\ Alone(r) /\ SameRun(r) /\ copy'[r].pc = pc
           /\ copy'[r].item = copy[r].item /\ copy'[r].cat = copy[r].cat
           /\ copy'[r].ids = copy[r].ids
<1> DEFINE x == [copy[r] EXCEPT !.pc = pc]
<1>1. copy[r] \in Copy
  BY DEF IInv
<1>2. /\ x \in Copy /\ x.pc = pc /\ x.item = copy[r].item /\ x.cat = copy[r].cat
      /\ x.ids = copy[r].ids /\ x.deps = copy[r].deps /\ x.file = copy[r].file
      /\ x.chosen = copy[r].chosen /\ x.targets = copy[r].targets /\ x.told = copy[r].told
      /\ x.selected = copy[r].selected /\ x.at = copy[r].at /\ x.existing = copy[r].existing
  BY <1>1 DEF Copy
<1>3. copy' = [copy EXCEPT ![r] = x]
  BY DEF Goto
<1> HIDE DEF x
<1>4. Alone(r) /\ copy'[r] = x
  BY <1>2, <1>3, Moves
<1>5. QED
  BY <1>2, <1>4 DEF SameRun

LEMMA PlacesNamed == ItemPlaces \subseteq Places
BY DEF ItemPlaces, Places

\* Nothing is taken from the targets.
LEMMA ServersRest == UNCHANGED server => Keeps
BY DEF Keeps, There

LEMMA CategoriesRest ==
    Smooth => UNCHANGED clean /\ UNCHANGED category /\ \A r \in Requests : Sealed(r)
BY DEF Smooth, world, Sealed

LEMMA ObjectPut ==
    ASSUME IInv, NEW t \in Targets, NEW o \in Things, NEW x, server' = [server EXCEPT ![t][o] = x],
           There(t, o) => x.cat = server[t][o].cat /\ (server[t][o].file => x.file), x.there
    PROVE  Keeps /\ server'[t][o] = x /\ Names(t)' = Names(t) \cup {o}
<1>1. server \in [Targets -> [Things -> Object]]
  BY DEF IInv, Targeted
<1>2. \A u \in Targets, p \in Things : server'[u][p] = IF u = t /\ p = o THEN x ELSE server[u][p]
  BY <1>1
<1>3. QED
  BY <1>2 DEF Keeps, There, Names

-----------------------------------------------------------------------------
\* A request that is sent has told nothing yet, and is alone unless others are under way.
LEMMA SubmitClean ==
    ASSUME IInv, CInv, NEW r \in Requests, NEW request \in Copy, copy[r].pc \in Ended,
           request.told = Untold, request.at = Nothing, Submit(r, request)
    PROVE  CInv'
<1> DEFINE x == [request EXCEPT !.pc = "open"]
<1>1. /\ x \in Copy /\ x.pc = "open" /\ x.told = Untold /\ x.at = Nothing
      /\ x.targets \subseteq Targets /\ x.chosen \subseteq Things
  BY DEF Copy, Places
<1>2. copy' = [copy EXCEPT ![r] = x]
  BY DEF Submit
<1> HIDE DEF x
<1>3. Alone(r) /\ copy'[r] = x
  BY <1>1, <1>2, Moves
<1>4. \A t \in x.targets, o \in x.chosen : x.told[t][o] = "none"
  BY <1>1 DEF Untold
<1>5. Progress(r)'
  BY <1>1, <1>3, <1>4 DEF Progress, Blank, ItemPlaces
<1>6. r \in clean' => Undisturbed(r)'
  <2>1. SUFFICES ASSUME r \in clean' PROVE Undisturbed(r)'
    OBVIOUS
  <2>2. Busy = {}
    BY <2>1 DEF Submit
  <2>3. Busy' = {r}
    BY <1>1, <1>3, <2>2 DEF Alone, Busy, Ended
  <2>4. Delivered(r)'
    BY <1>3, <1>4 DEF Delivered
  <2>5. InHand(r)'
    BY <1>1, <1>3 DEF InHand, Placed, At, ItemPlaces, Mapped
  <2>6. QED
    BY <1>1, <1>3, <2>3, <2>4, <2>5 DEF Undisturbed
<1>7. ASSUME NEW q \in Requests \ {r} PROVE Progress(q)' /\ q \notin clean'
  BY <1>3, ProgressStays DEF CInv, Alone, Submit
<1>8. QED
  BY <1>5, <1>6, <1>7 DEF CInv

LEMMA FilledUntold ==
    ASSUME NEW o \in Orders
    PROVE  Filled(o).told = Untold /\ Filled(o).at = Nothing
BY DEF Filled, Idle

LEMMA MigrateClean ==
    ASSUME IInv, CInv, NEW r \in Requests, Migrate(r)
    PROVE  CInv'
<1>1. copy[r] \in Copy /\ copy[r].pc \in Ended /\ copy[r].told = Untold /\ copy[r].at = Nothing
  BY DEF Migrate, At, Ended, IInv, CInv, Progress
<1>2. QED
  BY <1>1, SubmitClean DEF Migrate

LEMMA SendClean ==
    ASSUME IInv, CInv, NEW r \in Requests, NEW o \in Orders, Send(r, o)
    PROVE  CInv'
BY FilledSound, FilledUntold, SubmitClean DEF Send

LEMMA PreflightClean ==
    ASSUME IInv, CInv, NEW r \in Requests, NEW o \in Orders, Preflight(r, o)
    PROVE  CInv'
<1>1. PICK t \in o.targets :
        copy' = [copy EXCEPT ![r] =
                   [Filled(o) EXCEPT !.pc = "analysed", !.selected = Lacks(o.chosen, t)]]
  BY DEF Preflight
<1> DEFINE f == Filled(o)
           l == Lacks(o.chosen, t)
           x == [f EXCEPT !.pc = "analysed", !.selected = l]
<1>2. l \in SUBSET (Deps \cup {Category})
  BY DEF Lacks
<1>3. f \in Copy /\ f.told = Untold /\ f.at = Nothing
  BY FilledSound, FilledUntold
<1>4. copy' = [copy EXCEPT ![r] = x]
  BY <1>1
<1> HIDE DEF f, l
<1>5. x \in Copy /\ x.pc = "analysed" /\ x.told = Untold /\ x.at = Nothing
  BY <1>2, <1>3 DEF Copy, Places
<1> HIDE DEF x
<1>6. Alone(r) /\ copy'[r] = x
  BY <1>4, <1>5, Moves
<1>7. Progress(r)' /\ r \notin clean'
  BY <1>5, <1>6 DEF Progress, ItemPlaces, Preflight
<1>8. Busy' = Busy /\ UNCHANGED <<server, category>>
  BY <1>5, <1>6 DEF Preflight, Busy, Ended, Alone, world
<1>9. ASSUME NEW q \in Requests \ {r} PROVE Progress(q)' /\ (q \in clean' => Undisturbed(q)')
  <2>1. copy'[q] = copy[q] /\ Progress(q)'
    BY <1>6, ProgressStays DEF CInv, Alone
  <2>2. q \in clean' => Undisturbed(q)
    BY DEF Preflight, CInv
  <2>3. QED
    BY <1>8, <2>1, <2>2
       DEF Undisturbed, Delivered, InHand, Placed, At, Wanted, There, Names, Kept, Unportable,
           Reaches
<1>10. QED
  BY <1>7, <1>9 DEF CInv

-----------------------------------------------------------------------------
LEMMA OpenClean ==
    ASSUME IInv, CInv, NEW r \in Requests, Open(r)
    PROVE  CInv'
<1>1. PICK t \in Unopened(r) :
        copy' = [copy EXCEPT ![r].pc = "fetch", ![r].at = t, ![r].existing = Names(t)]
  BY DEF Open
<1> DEFINE x == [copy[r] EXCEPT !.pc = "fetch", !.at = t, !.existing = Names(t)]
<1>2. copy[r] \in Copy /\ copy[r].pc = "open"
  BY DEF IInv, Open, At
<1>3. t \in Targets /\ Names(t) \in SUBSET Things
  BY <1>2 DEF Unopened, Names, Copy
<1>4. /\ x \in Copy /\ x.pc = "fetch" /\ x.at = t /\ x.existing = Names(t)
      /\ x.chosen = copy[r].chosen /\ x.targets = copy[r].targets /\ x.told = copy[r].told
      /\ x.selected = copy[r].selected /\ x.deps = copy[r].deps /\ x.file = copy[r].file
  BY <1>2, <1>3 DEF Copy, Places
<1>5. copy' = [copy EXCEPT ![r] = x]
  BY <1>1, <1>2 DEF IInv, Copy
<1> HIDE DEF x
<1>6. Alone(r) /\ copy'[r] = x
  BY <1>4, <1>5, Moves
<1>7. Progress(r)'
  <2>1. copy[r].at = Nothing /\ Nothing \notin copy[r].targets
    BY <1>2, Kinds DEF CInv, Progress, Copy
  <2>2. \A u \in copy[r].targets : Whole(r, u) \/ Blank(r, u)
    BY <1>2, <2>1 DEF CInv, Progress
  <2>3. \A u \in copy[r].targets : Whole(r, u)' \/ Blank(r, u)'
    BY <1>4, <1>6, <2>2 DEF Whole, Blank
  <2>4. QED
    BY <1>4, <1>6, <2>3 DEF Progress, ItemPlaces
<1>8. Keeps /\ Sealed(r) /\ UNCHANGED clean /\ r \in Busy
  BY <1>2, ServersRest, CategoriesRest, BusyPlaces DEF Open
<1>9. ASSUME r \in clean PROVE Undisturbed(r)'
  <2>1. Undisturbed(r)
    BY <1>9 DEF CInv
  <2>2. Busy' \subseteq {r}
    BY <1>6, <2>1 DEF Undisturbed, Busy, Alone
  <2>3. Delivered(r)'
    BY <1>4, <1>6, <1>8, <2>1, DeliveredStays DEF Undisturbed
  <2>4. InHand(r)'
    BY <1>4, <1>6 DEF InHand, Placed, At, ItemPlaces, Mapped, Names, There, Open
  <2>5. QED
    BY <1>4, <1>6, <2>2, <2>3, <2>4 DEF Undisturbed
<1>10. QED
  BY <1>6, <1>7, <1>8, <1>9, CleanStep

LEMMA FetchClean ==
    ASSUME IInv, CInv, NEW r \in Requests, Fetch(r)
    PROVE  CInv'
<1>1. copy[r].pc = "fetch" /\ copy[r].pc \in ItemPlaces \cup {"fetch"}
  BY DEF Fetch, At
<1>2. PICK o \in Remaining(r) :
        \/ Skips(r, o) /\ Report(r, o, "skipped")
        \/ copy' = [copy EXCEPT ![r].item = o,
                ![r].cat = o \in Categorised /\ Category \in copy[r].selected,
                ![r].pc = IF o \in Policies /\ copy[r].deps THEN "deps"
                          ELSE IF o \in Policies \cup Scripts THEN "category" ELSE "create"]
  BY DEF Fetch
<1>3. copy[r] \in Copy /\ copy[r].at \in Targets /\ o \in Things
  BY <1>1, InLoop DEF Remaining
<1>4. Keeps /\ Sealed(r) /\ UNCHANGED clean /\ UNCHANGED category /\ UNCHANGED server
  BY ServersRest, CategoriesRest DEF Fetch
<1>5. CASE Skips(r, o) /\ Report(r, o, "skipped")
  <2>1. "skipped" \in Statuses \ {"none"}
    BY DEF Statuses
  <2>2. PICK t \in Targets : t = copy[r].at
    BY <1>3
  <2>3. r \in clean => There(t, o)
    BY <1>1, <1>5, <2>2 DEF Skips, Recognised, CInv, Undisturbed, InHand, Names
  <2>4. r \in clean => There(t, o)'
    BY <1>3, <1>4, <2>3 DEF Keeps
  <2>5. QED
    BY <1>1, <1>4, <1>5, <2>1, <2>2, <2>4, CleanReport
<1>6. CASE ~(Skips(r, o) /\ Report(r, o, "skipped"))
  <2> DEFINE cat == o \in Categorised /\ Category \in copy[r].selected
             pc  == IF o \in Policies /\ copy[r].deps THEN "deps"
                    ELSE IF o \in Policies \cup Scripts THEN "category" ELSE "create"
             x   == [copy[r] EXCEPT !.item = o, !.cat = cat, !.pc = pc]
  <2>1. copy' = [copy EXCEPT ![r] = x]
    BY <1>2, <1>3, <1>6 DEF IInv, Copy
  <2>2. /\ cat \in BOOLEAN /\ pc \in {"deps", "category", "create"}
        /\ pc = "category" => o \notin Packages
        /\ pc = "create" /\ cat => o \in Packages
        /\ pc \in Mapped /\ o \in Policies => ~copy[r].deps
    BY CategorisedAssumption, Kinds DEF Mapped, Deps
  <2>3. cat = Wanted(r, o)
    BY DEF Wanted
  <2> HIDE DEF cat, pc
  <2>4. /\ x \in Copy /\ x.pc = pc /\ x.item = o /\ x.cat = cat
        /\ x.chosen = copy[r].chosen /\ x.targets = copy[r].targets /\ x.told = copy[r].told
        /\ x.selected = copy[r].selected /\ x.at = copy[r].at /\ x.existing = copy[r].existing
        /\ x.deps = copy[r].deps /\ x.file = copy[r].file
    BY <1>3, <2>2 DEF Copy, Places
  <2> HIDE DEF x
  <2>5. Alone(r) /\ copy'[r] = x
    BY <2>1, <2>4, Moves
  <2>6. SameRun(r) /\ copy'[r].pc \in ItemPlaces /\ copy'[r].item \in Remaining(r)
    BY <2>2, <2>4, <2>5 DEF SameRun, ItemPlaces
  <2>7. copy'[r].cat = Wanted(r, copy'[r].item) /\ Placed(r)'
    BY <2>2, <2>3, <2>4, <2>5 DEF Placed, At
  <2>8. QED
    BY <1>1, <1>4, <2>5, <2>6, <2>7, CleanMove
<1>7. QED
  BY <1>5, <1>6

-----------------------------------------------------------------------------
\* The request stays at the dependencies of its policy.
LEMMA AtDepsAs ==
    ASSUME IInv, NEW r \in Requests, copy[r].pc \in {"deps", "copydeps"}, NEW l \in SUBSET Deps,
           copy' = [copy EXCEPT ![r] = [copy[r] EXCEPT !.pc = "copydeps", !.lacking = l]]
    PROVE  /\ Alone(r) /\ SameRun(r) /\ copy'[r].pc = "copydeps" /\ copy'[r].lacking = l
           /\ copy'[r].item = copy[r].item /\ copy'[r].cat = copy[r].cat
<1> DEFINE x == [copy[r] EXCEPT !.pc = "copydeps", !.lacking = l]
<1>1. copy[r] \in Copy
  BY DEF IInv
<1>2. /\ x.pc = "copydeps" /\ x.lacking = l /\ x.item = copy[r].item /\ x.cat = copy[r].cat
      /\ x.chosen = copy[r].chosen /\ x.targets = copy[r].targets /\ x.told = copy[r].told
      /\ x.selected = copy[r].selected /\ x.at = copy[r].at /\ x.existing = copy[r].existing
      /\ x.deps = copy[r].deps /\ x.file = copy[r].file
  BY <1>1 DEF Copy
<1>3. copy'[r] = x
  BY DEF IInv
<1>4. Alone(r)
  BY AtDeps
<1> HIDE DEF x
<1>5. QED
  BY <1>2, <1>3, <1>4 DEF SameRun

\* An object in hand is one the request has not told of.
LEMMA HandUntold ==
    ASSUME CInv, NEW r \in Requests, copy[r].pc \in ItemPlaces
    PROVE  /\ copy[r].item \in Remaining(r)
           /\ r \in clean => Undisturbed(r) /\ copy[r].cat = Wanted(r, copy[r].item) /\ Placed(r)
BY DEF CInv, Progress, Undisturbed, InHand

LEMMA ListDepsClean ==
    ASSUME IInv, CInv, NEW r \in Requests, ListDeps(r)
    PROVE  CInv'
<1>1. /\ copy[r].pc = "deps" /\ copy[r].pc \in ItemPlaces /\ copy[r].item \in Policies
      /\ copy[r] \in Copy
  BY DEF ListDeps, At, ItemPlaces, IInv, Sound
<1>2. PICK t \in Targets : t = copy[r].at
  BY <1>1, InLoop
<1> DEFINE l == {d \in Kept(r) : ~There(t, d)}
<1>3. Kept(r) \subseteq Deps /\ l \in SUBSET Deps
  BY <1>1, KeptAreDeps
<1>4. copy' = [copy EXCEPT ![r] = [copy[r] EXCEPT !.pc = "copydeps", !.lacking = l]]
  BY <1>1, <1>2 DEF ListDeps, IInv, Copy
<1>5. Kept(r) \subseteq Names(t) \cup l /\ l \cap Names(t) = {}
  BY <1>3, Kinds DEF Names
<1> HIDE DEF l
<1>6. /\ Alone(r) /\ SameRun(r) /\ copy'[r].pc = "copydeps" /\ copy'[r].lacking = l
      /\ copy'[r].item = copy[r].item /\ copy'[r].cat = copy[r].cat
  BY <1>1, <1>3, <1>4, AtDepsAs
<1>7. Keeps /\ Sealed(r) /\ UNCHANGED clean /\ UNCHANGED server
  BY ServersRest, CategoriesRest DEF ListDeps
<1>8. Placed(r)'
  BY <1>2, <1>5, <1>6, <1>7 DEF Placed, At, Mapped, Kept, Names, There, SameRun
<1>9. r \in clean => copy'[r].cat = Wanted(r, copy'[r].item)
  BY <1>1, <1>6, HandUntold
<1>10. copy'[r].pc \in ItemPlaces /\ copy'[r].item \in Remaining(r)
  BY <1>1, <1>6, HandUntold DEF ItemPlaces
<1>11. QED
  BY <1>1, <1>6, <1>7, <1>8, <1>9, <1>10, CleanMove

LEMMA CopyDepClean ==
    ASSUME IInv, CInv, NEW r \in Requests, CopyDep(r)
    PROVE  CInv'
<1>1. /\ copy[r].pc = "copydeps" /\ copy[r].pc \in ItemPlaces /\ copy[r].item \in Policies
      /\ copy[r] \in Copy /\ UNCHANGED clean /\ UNCHANGED category /\ Sealed(r)
  BY CategoriesRest DEF CopyDep, At, ItemPlaces, IInv, Sound
<1>2. PICK t \in Targets : t = copy[r].at
  BY <1>1, InLoop
<1>3. PICK d \in copy[r].lacking :
        \/ There(t, d) /\ Report(r, copy[r].item, "failed") /\ UNCHANGED server
        \/ /\ ~There(t, d)
           /\ server' = [server EXCEPT ![t][d] = CopyOf(t, d, d \in Categorised /\ t \in category)]
           /\ copy' = [copy EXCEPT ![r].lacking = @ \ {d}]
  BY <1>2 DEF CopyDep
<1>4. d \in Deps /\ d \in Things
  BY <1>1, Kinds DEF Copy
<1>5. /\ copy[r].item \in Remaining(r)
      /\ r \in clean => /\ copy[r].cat = Wanted(r, copy[r].item)
                        /\ Kept(r) \subseteq Names(t) \cup copy[r].lacking
                        /\ copy[r].lacking \cap Names(t) = {}
  BY <1>1, <1>2, HandUntold DEF Placed, At
<1>6. CASE There(t, d) /\ Report(r, copy[r].item, "failed") /\ UNCHANGED server
  <2>1. r \notin clean
    BY <1>4, <1>5, <1>6 DEF Names
  <2>2. "failed" \in Statuses \ {"none"}
    BY DEF Statuses
  <2>3. Keeps
    BY <1>6, ServersRest
  <2>4. QED
    BY <1>1, <1>2, <1>5, <1>6, <2>1, <2>2, <2>3, CleanReport
<1>7. CASE /\ ~There(t, d)
           /\ server' = [server EXCEPT ![t][d] = CopyOf(t, d, d \in Categorised /\ t \in category)]
           /\ copy' = [copy EXCEPT ![r].lacking = @ \ {d}]
  <2> DEFINE l   == copy[r].lacking \ {d}
             cat == d \in Categorised /\ t \in category
             y   == CopyOf(t, d, cat)
  <2>1. l \in SUBSET Deps /\ cat \in BOOLEAN
    BY <1>1 DEF Copy
  <2>2. copy' = [copy EXCEPT ![r] = [copy[r] EXCEPT !.pc = "copydeps", !.lacking = l]]
    BY <1>1, <1>7 DEF IInv, Copy
  <2>3. /\ Alone(r) /\ SameRun(r) /\ copy'[r].pc = "copydeps" /\ copy'[r].lacking = l
        /\ copy'[r].item = copy[r].item /\ copy'[r].cat = copy[r].cat
    BY <1>1, <2>1, <2>2, AtDepsAs
  <2>4. server' = [server EXCEPT ![t][d] = y]
    BY <1>7
  <2> HIDE DEF cat
  <2>5. y.there
    BY <1>4, <2>1, CopyOfObject
  <2> HIDE DEF y
  <2>6. Keeps /\ Names(t)' = Names(t) \cup {d}
    BY <1>4, <1>7, <2>4, <2>5, ObjectPut
  <2>7. r \in clean => Kept(r) \subseteq Names(t)' \cup l /\ l \cap Names(t)' = {}
    BY <1>5, <2>6
  <2>8. r \in clean => Placed(r)'
    BY <1>2, <2>3, <2>7 DEF Placed, At, Mapped, Kept, Names, There, SameRun
  <2>9. copy'[r].pc \in ItemPlaces /\ copy'[r].item \in Remaining(r)
    BY <1>5, <2>3 DEF ItemPlaces
  <2>10. r \in clean => copy'[r].cat = Wanted(r, copy'[r].item)
    BY <1>5, <2>3
  <2>11. QED
    BY <1>1, <2>3, <2>6, <2>8, <2>9, <2>10, CleanMove
<1>8. QED
  BY <1>3, <1>6, <1>7

LEMMA MapDepsClean ==
    ASSUME IInv, CInv, NEW r \in Requests, MapDeps(r)
    PROVE  CInv'
<1>1. /\ copy[r].pc = "copydeps" /\ copy[r].pc \in ItemPlaces /\ copy[r].lacking = {}
      /\ copy[r] \in Copy /\ copy[r].item \in Policies
      /\ UNCHANGED clean /\ UNCHANGED server /\ UNCHANGED category /\ Keeps /\ Sealed(r)
  BY CategoriesRest, ServersRest DEF MapDeps, At, ItemPlaces, IInv, Sound
<1>2. PICK t \in Targets : t = copy[r].at
  BY <1>1, InLoop
<1>3. copy[r].item \in Remaining(r)
      /\ (r \in clean => Kept(r) \subseteq Names(t) /\ copy[r].cat = Wanted(r, copy[r].item))
  BY <1>1, <1>2, HandUntold DEF Placed, At
<1>4. CASE Absentees(r) # {} /\ Report(r, copy[r].item, "failed")
  <2>1. r \notin clean
    BY <1>2, <1>3, <1>4 DEF Absentees, Names
  <2>2. "failed" \in Statuses \ {"none"}
    BY DEF Statuses
  <2>3. QED
    BY <1>1, <1>2, <1>3, <1>4, <2>1, <2>2, CleanReport
<1>5. CASE ~(Absentees(r) # {} /\ Report(r, copy[r].item, "failed"))
  <2> DEFINE ids == [d \in Deps |-> IF d \in Kept(r) /\ There(t, d) THEN server[t][d].id
                                    ELSE Nothing]
             x   == [copy[r] EXCEPT !.pc = "category", !.ids = ids]
  <2>1. copy' = [copy EXCEPT ![r] = x]
    BY <1>1, <1>2, <1>5 DEF MapDeps, IInv, Copy
  <2>2. \A d \in Deps : server[t][d].id \in Nat
    BY Kinds DEF IInv, Targeted, Object
  <2>3. /\ ids \in [Deps -> Nat \cup {Nothing}]
        /\ r \in clean => \A d \in Kept(r) : There(t, d) /\ server[t][d].id = ids[d]
    BY <1>1, <1>3, <2>2, KeptAreDeps DEF Names
  <2> HIDE DEF ids
  <2>4. /\ x \in Copy /\ x.pc = "category" /\ x.item = copy[r].item /\ x.cat = copy[r].cat
        /\ x.chosen = copy[r].chosen /\ x.targets = copy[r].targets /\ x.told = copy[r].told
        /\ x.selected = copy[r].selected /\ x.at = copy[r].at /\ x.existing = copy[r].existing
        /\ x.deps = copy[r].deps /\ x.file = copy[r].file /\ x.ids = ids
    BY <1>1, <2>3 DEF Copy, Places
  <2> HIDE DEF x
  <2>5. Alone(r) /\ copy'[r] = x
    BY <2>1, <2>4, Moves
  <2>6. SameRun(r) /\ copy'[r].pc \in ItemPlaces /\ copy'[r].item \in Remaining(r)
    BY <1>3, <2>4, <2>5 DEF SameRun, ItemPlaces
  <2>7. r \in clean => copy'[r].cat = Wanted(r, copy'[r].item) /\ Placed(r)'
    BY <1>1, <1>2, <1>3, <2>3, <2>4, <2>5, Kinds DEF Placed, At, Kept, There, SameRun
  <2>8. QED
    BY <1>1, <2>5, <2>6, <2>7, CleanMove
<1>6. QED
  BY <1>4, <1>5

-----------------------------------------------------------------------------
\* A clean request changes its place.
LEMMA CleanGoto ==
    ASSUME IInv, CInv, NEW r \in Requests, copy[r].pc \in ItemPlaces, NEW pc \in ItemPlaces,
           Goto(r, pc), Keeps, UNCHANGED clean, r \in clean => Sealed(r) /\ Placed(r)'
    PROVE  CInv'
<1>1. /\ Alone(r) /\ SameRun(r) /\ copy'[r].pc = pc
      /\ copy'[r].item = copy[r].item /\ copy'[r].cat = copy[r].cat
  BY GoesTo, PlacesNamed
<1>2. copy'[r].item \in Remaining(r) /\ (r \in clean => copy'[r].cat = Wanted(r, copy'[r].item))
  BY <1>1, HandUntold
<1>3. QED
  BY <1>1, <1>2, CleanMove

LEMMA CategoriesClean ==
    ASSUME IInv, CInv, NEW r \in Requests,
           ListCategories(r) \/ AddCategory(r) \/ RetryWithoutCategory(r)
    PROVE  CInv'
<1>1. /\ copy[r].pc \in Mapped /\ copy[r].pc \in ItemPlaces
      /\ UNCHANGED clean /\ UNCHANGED server /\ Keeps
  BY ServersRest DEF ListCategories, AddCategory, RetryWithoutCategory, Creating, Smooth, At,
                     ItemPlaces, Mapped
<1>2. PICK t \in Targets : t = copy[r].at
  BY <1>1, InLoop
<1>3. PICK pc \in {"newcategory", "create", "nocategory"} : Goto(r, pc) /\
         \/ ListCategories(r) /\ pc = IF copy[r].cat /\ t \notin category THEN "newcategory" ELSE "create"
         \/ AddCategory(r) /\ pc = "create"
         \/ RetryWithoutCategory(r) /\ pc = "nocategory"
  BY <1>2 DEF ListCategories, AddCategory, RetryWithoutCategory
<1>4. /\ Alone(r) /\ SameRun(r) /\ copy'[r].pc = pc
      /\ copy'[r].item = copy[r].item /\ copy'[r].cat = copy[r].cat
      /\ copy'[r].ids = copy[r].ids
  BY <1>3, GoesTo DEF Places
<1>5. pc = "create" /\ copy[r].cat => t \in category' \cup Closed
  BY <1>2, <1>3 DEF ListCategories, AddCategory, Smooth, world
<1>6. ASSUME r \in clean PROVE copy[r].item \notin Packages /\ Placed(r)
  BY <1>1, <1>3, <1>6, HandUntold
     DEF Placed, At, ListCategories, AddCategory, RetryWithoutCategory
<1>7. ASSUME pc = "nocategory", r \in clean PROVE t \in Closed \ category'
  <2>1. RetryWithoutCategory(r) /\ At(r, "create") /\ copy[r].cat /\ t \notin category
    BY <1>2, <1>3, <1>7 DEF RetryWithoutCategory, Unmatched, WithCategory
  <2>2. t \in category \cup Closed
    BY <1>2, <1>6, <1>7, <2>1 DEF Placed
  <2>3. category' = category
    BY <2>1 DEF RetryWithoutCategory, Smooth, world
  <2>4. QED
    BY <2>1, <2>2, <2>3
<1>8. ASSUME r \in clean PROVE Placed(r)'
  <2>1. copy[r].item \in Policies /\ copy[r].deps =>
          \A d \in Kept(r) : There(t, d) /\ server[t][d].id = copy[r].ids[d]
    BY <1>1, <1>2, <1>6, <1>8 DEF Placed
  <2>2. Kept(r)' = Kept(r)
    BY <1>4 DEF Kept, SameRun
  <2>3. QED
    BY <1>1, <1>2, <1>3, <1>4, <1>5, <1>6, <1>7, <1>8, <2>1, <2>2 DEF Placed, At, SameRun, There
<1>9. pc \in ItemPlaces
  BY <1>3 DEF ItemPlaces
<1>10. r \in clean => Sealed(r)
  <2>1. CASE AddCategory(r)
    <3>1. category' \cap Closed = category \cap Closed
      BY <2>1, <1>2 DEF AddCategory
    <3>2. r \in clean => copy[r].chosen \cap Packages = {}
      BY <1>1, <1>6, InLoop DEF IInv, Sound, OneKind, ItemPlaces
    <3>3. QED
      BY <3>1, <3>2 DEF Sealed
  <2>2. CASE ListCategories(r) \/ RetryWithoutCategory(r)
    BY <2>2, CategoriesRest DEF ListCategories, RetryWithoutCategory
  <2>3. QED
    BY <2>1, <2>2
<1>11. QED
  BY <1>1, <1>3, <1>8, <1>9, <1>10, CleanGoto

-----------------------------------------------------------------------------
\* What a create leaves on a target that lacked the name: the object, with the category as asked.
LEMMA CreatedThere ==
    ASSUME IInv, NEW r \in Requests, Creating(r), Put(r), NEW t \in Targets, t = copy[r].at,
           NEW o \in Things, o = copy[r].item, ~There(t, o)
    PROVE  Keeps /\ There(t, o)' /\ server'[t][o].cat = WithCategory(r)
<1> DEFINE cat == WithCategory(r)
           y == Made(r, cat)
<1>1. copy[r] \in Copy /\ cat \in BOOLEAN
  BY DEF IInv, Copy, WithCategory
<1>2. server' = [server EXCEPT ![t][o] = y]
  BY DEF Put
<1> HIDE DEF cat
<1>3. y.there
  BY <1>1, MadeObject
<1>4. y.cat = WithCategory(r)
  <2> DEFINE c == CopyOf(copy[r].at, copy[r].item, cat)
             w == copy[r].item \in Packages /\ copy[r].file
  <2>1. c \in Object
    BY <1>1, CopyOfObject
  <2>2. c.cat = cat
    BY EmptyObject DEF CopyOf, Object
  <2>3. y = [c EXCEPT !.refs = Remapped(r), !.remapped = copy[r].deps, !.owed = w]
    BY DEF Made
  <2> HIDE DEF c, w
  <2>4. y.cat = cat
    BY <2>1, <2>2, <2>3 DEF Object
  <2>5. QED
    BY <2>4 DEF cat
<1> HIDE DEF y
<1>5. Keeps /\ server'[t][o] = y
  <2>1. server \in [Targets -> [Things -> Object]]
    BY DEF IInv, Targeted
  <2>2. \A u \in Targets, p \in Things :
           server'[u][p] = IF u = t /\ p = o THEN y ELSE server[u][p]
    BY <1>2, <2>1
  <2>3. QED
    BY <1>3, <2>2 DEF Keeps, There
<1>6. QED
  BY <1>3, <1>4, <1>5 DEF There

LEMMA CreateClean ==
    ASSUME IInv, CInv, NEW r \in Requests, Create(r)
    PROVE  CInv'
<1>1. /\ copy[r].pc \in {"create", "nocategory"} /\ copy[r].pc \in ItemPlaces /\ Creating(r)
      /\ UNCHANGED clean /\ UNCHANGED category /\ Sealed(r)
  BY CategoriesRest DEF Create, Creating, At, ItemPlaces
<1>2. PICK t \in Targets : t = copy[r].at
  BY <1>1, InLoop
<1>3. PICK o \in Things : o = copy[r].item
  BY <1>1, InLoop DEF ItemPlaces
<1>4. Keeps /\ There(t, o)' /\ server'[t][o].cat = WithCategory(r)
  BY <1>1, <1>2, <1>3, CreatedThere DEF Create
<1>5. o \in Remaining(r) /\ (r \in clean => copy[r].cat = Wanted(r, o) /\ Placed(r))
  BY <1>1, <1>3, HandUntold
<1>6. CASE /\ copy[r].file
           /\ copy' = [copy EXCEPT ![r].pc = "transfer", ![r].made = server'[t][o].id]
  <2> DEFINE made == server'[t][o].id
             x    == [copy[r] EXCEPT !.pc = "transfer", !.made = made]
  <2>1. made \in Nat
    BY <1>1, PutEffect DEF Create, Targeted, Object
  <2>2. copy[r] \in Copy /\ OneKind(copy[r]) /\ copy' = [copy EXCEPT ![r] = x]
    BY <1>6 DEF IInv, Sound, Copy
  <2> HIDE DEF made
  <2>3. /\ x \in Copy /\ x.pc = "transfer" /\ x.item = o /\ x.cat = copy[r].cat
        /\ x.deps = copy[r].deps /\ x.file = copy[r].file /\ x.made = made
        /\ x.chosen = copy[r].chosen /\ x.targets = copy[r].targets /\ x.told = copy[r].told
        /\ x.selected = copy[r].selected /\ x.at = copy[r].at /\ x.existing = copy[r].existing
    BY <1>3, <2>1, <2>2 DEF Copy, Places
  <2> HIDE DEF x
  <2>4. Alone(r) /\ copy'[r] = x
    BY <2>2, <2>3, Moves
  <2>5. SameRun(r) /\ copy'[r].pc \in ItemPlaces /\ copy'[r].item \in Remaining(r)
    BY <1>5, <2>3, <2>4 DEF SameRun, ItemPlaces
  <2>6. ASSUME r \in clean PROVE copy'[r].cat = Wanted(r, o) /\ Placed(r)'
    <3>1. o \in Packages
      BY <1>5, <1>6, <2>2 DEF OneKind, Remaining
    <3>2. At(r, "create")
      BY <1>1, <1>2, <1>3, <1>5, <2>6, <3>1 DEF Placed, At
    <3>3. Wanted(r, o) => server'[t][o].cat
      BY <1>4, <1>5, <2>6, <3>2 DEF WithCategory
    <3>4. Reaches(r)'
      BY <1>2, <1>4, <2>3, <2>4 DEF Reaches, At, There, made
    <3>5. QED
      BY <1>2, <1>5, <2>3, <2>4, <2>6, <3>3, <3>4 DEF Placed, At, Mapped, Wanted
  <2>7. QED
    BY <1>1, <1>4, <2>3, <2>4, <2>5, <2>6, CleanMove
<1>7. CASE ~copy[r].file /\ Report(r, o, "created")
  <2>1. "created" \in Statuses \ {"none"}
    BY DEF Statuses
  <2>2. ASSUME r \in clean, Wanted(r, o) PROVE server'[t][o].cat \/ t \in Closed \ category
    <3>1. CASE At(r, "create")
      BY <1>4, <1>5, <2>2, <3>1 DEF WithCategory
    <3>2. CASE At(r, "nocategory")
      BY <1>2, <1>5, <2>2, <3>2 DEF Placed
    <3>3. QED
      BY <1>1, <3>1, <3>2 DEF At
  <2>3. QED
    BY <1>1, <1>2, <1>4, <1>5, <1>7, <2>1, <2>2, CleanReport
<1>8. QED
  BY <1>2, <1>3, <1>6, <1>7 DEF Create

\* A clean request sees its object refused: it is there, or it is not portable.
LEMMA RefusedClean ==
    ASSUME IInv, CInv, NEW r \in Requests, Refused(r)
    PROVE  CInv'
<1>1. /\ copy[r].pc \in ItemPlaces /\ copy[r].pc \in Mapped
      /\ UNCHANGED server /\ UNCHANGED clean /\ UNCHANGED category /\ Keeps
  BY ServersRest, CategoriesRest DEF Refused, Creating, At, ItemPlaces, Mapped
<1>2. PICK t \in Targets : t = copy[r].at
  BY <1>1, InLoop
<1>3. PICK o \in Remaining(r) : o = copy[r].item
  BY <1>1, HandUntold
<1>4. "failed" \in Statuses \ {"none"}
  BY DEF Statuses
<1>5. ASSUME r \in clean PROVE There(t, o)' \/ Unportable(r, t, o)
  <2>1. copy[r].cat = Wanted(r, o) /\ Placed(r)
    BY <1>1, <1>3, <1>5, HandUntold
  <2>2. CASE There(t, o)
    BY <2>2, <1>1 DEF There
  <2>3. CASE o \in Packages /\ Unmatched(r)
    BY <2>3, <1>2, <2>1 DEF Unmatched, WithCategory, Wanted, Unportable
  <2>4. CASE o \in Policies /\ Unresolved(r)
    <3>1. PICK d \in Deps : /\ Remapped(r)[d] # Nothing
                            /\ ~(There(t, d) /\ server[t][d].id = Remapped(r)[d])
      BY <2>4, <1>2 DEF Unresolved
    <3>2. d \in Kept(r) /\ (copy[r].ids[d] # Nothing => Remapped(r)[d] = copy[r].ids[d])
      BY <3>1, <2>4, <1>3 DEF Remapped
    <3>3. server[t][d].id # Nothing
      BY Kinds DEF IInv, Targeted, Object
    <3>4. ~copy[r].deps
      BY <1>1, <1>2, <1>3, <2>1, <2>4, <3>1, <3>2, <3>3 DEF Placed
    <3>5. QED
      BY <1>3, <2>4, <3>2, <3>4 DEF Kept, Unportable
  <2>5. QED
    BY <1>2, <1>3, <2>2, <2>3, <2>4 DEF Refused
<1>6. QED
  BY <1>1, <1>2, <1>3, <1>4, <1>5, CleanReport DEF Refused

LEMMA TransferClean ==
    ASSUME IInv, CInv, NEW r \in Requests, Transfer(r)
    PROVE  CInv'
<1>1. /\ copy[r].pc = "transfer" /\ copy[r].pc \in ItemPlaces /\ copy[r].item \in Packages
      /\ UNCHANGED clean /\ UNCHANGED category
  BY CategoriesRest DEF Transfer, At, ItemPlaces, IInv, Sound
<1>2. PICK t \in Targets : t = copy[r].at
  BY <1>1, InLoop
<1>3. PICK o \in Remaining(r) : o = copy[r].item
  BY <1>1, HandUntold
<1>4. o \in Things /\ (r \in clean => Reaches(r) /\ (Wanted(r, o) => server[t][o].cat))
  BY <1>1, <1>2, <1>3, HandUntold, Kinds DEF Placed, At
<1>5. {"created", "nofile"} \subseteq Statuses \ {"none"}
  BY DEF Statuses
<1>6. CASE Reaches(r)
  <2> DEFINE x == [server[t][o] EXCEPT !.file = TRUE]
  <2>1. server \in [Targets -> [Things -> Object]] /\ server[t][o] \in Object
    BY <1>4 DEF IInv, Targeted
  <2>2. server' = [server EXCEPT ![t][o] = x] /\ There(t, o)
    BY <1>2, <1>3, <1>4, <1>6, <2>1 DEF Transfer, Reaches
  <2>3. x.there /\ x.cat = server[t][o].cat /\ x.file
    BY <2>1, <2>2 DEF There, Object
  <2> HIDE DEF x
  <2>4. Keeps /\ server'[t][o] = x
    BY <1>4, <2>2, <2>3, ObjectPut
  <2>5. There(t, o)' /\ server'[t][o].file /\ (r \in clean => (Wanted(r, o) => server'[t][o].cat))
    BY <1>4, <2>3, <2>4 DEF There
  <2>6. QED
    BY <1>1, <1>2, <1>3, <1>5, <1>6, <2>4, <2>5, CleanReport DEF Transfer
<1>7. CASE ~Reaches(r)
  <2>1. r \notin clean
    BY <1>4, <1>7
  <2>2. Keeps
    BY <1>2, <1>3, <1>7, ServersRest DEF Transfer
  <2>3. QED
    BY <1>1, <1>2, <1>3, <1>5, <1>7, <2>1, <2>2, CleanReport DEF Transfer
<1>8. QED
  BY <1>6, <1>7

-----------------------------------------------------------------------------
\* After a mishap only Progress is left to show.
LEMMA MishapsClean ==
    ASSUME IInv, CInv, NEW r \in Requests, Trouble(r)
    PROVE  CInv'
<1>1. Mishap
  BY DEF Trouble, Fails, Unanswered, RetryScript, Abort
<1>2. ASSUME copy[r].pc \in ItemPlaces \cup {"fetch"}, NEW o \in Remaining(r),
             NEW status \in {"created", "nofile", "failed"}, Report(r, o, status)
      PROVE  CInv'
  <2>1. status \in Statuses \ {"none"} /\ status \in Statuses /\ o \in copy[r].chosen
    BY DEF Statuses, Remaining
  <2>2. Progress(r)'
    BY <1>2, <2>1, ReportAdvances DEF CInv
  <2>3. Alone(r)
    BY <1>2, <2>1, ReportedAs
  <2>4. QED
    BY <1>1, <2>2, <2>3, MishapStep
<1>3. CASE Fails(r)
  <2>1. CASE copy[r].pc \in InItem /\ \E status \in Failure(r) : Report(r, copy[r].item, status)
    <3>1. copy[r].pc \in ItemPlaces /\ copy[r].item \in Remaining(r)
      BY <2>1, PlacesOfItems, HandUntold
    <3>2. QED
      BY <1>2, <2>1, <3>1 DEF Failure
  <2>2. CASE At(r, "fetch") /\ \E o \in Remaining(r) : Report(r, o, "failed")
    BY <1>2, <2>2 DEF At
  <2>3. QED
    BY <1>3, <2>1, <2>2 DEF Fails
<1>4. CASE Unanswered(r)
  <2>1. copy[r].pc \in ItemPlaces
    BY <1>4 DEF Unanswered, Creating, Reaches, At, ItemPlaces
  <2>2. copy[r].item \in Remaining(r)
    BY <2>1, HandUntold
  <2>3. \E status \in {"nofile", "failed"} : Report(r, copy[r].item, status)
    BY <1>4 DEF Unanswered
  <2>4. QED
    BY <1>2, <2>1, <2>2, <2>3
<1>5. CASE RetryScript(r)
  <2>1. ASSUME copy[r].pc \in ItemPlaces, Alone(r), SameRun(r), copy'[r].pc \in ItemPlaces,
               copy'[r].item = copy[r].item
        PROVE  CInv'
    <3>1. Progress(r)'
      BY <2>1, HandUntold, MoveAdvances DEF CInv
    <3>2. QED
      BY <1>1, <2>1, <3>1, MishapStep
  <2>2. CASE WithCategory(r) /\ Goto(r, "nocategory")
    <3>1. copy[r].pc \in ItemPlaces /\ "nocategory" \in ItemPlaces
      BY <2>2 DEF WithCategory, At, ItemPlaces
    <3>2. QED
      BY <2>1, <2>2, <3>1, GoesTo, PlacesNamed
  <2>3. ASSUME At(r, "copydeps"), NEW d \in copy[r].lacking,
               copy' = [copy EXCEPT ![r].lacking = @ \ {d}]
        PROVE  CInv'
    <3> DEFINE l == copy[r].lacking \ {d}
    <3>1. copy[r].pc = "copydeps" /\ "copydeps" \in ItemPlaces /\ l \in SUBSET Deps
      BY <2>3 DEF At, IInv, Copy, ItemPlaces
    <3>2. copy' = [copy EXCEPT ![r] = [copy[r] EXCEPT !.pc = "copydeps", !.lacking = l]]
      BY <2>3, <3>1 DEF IInv, Copy
    <3> HIDE DEF l
    <3>3. QED
      BY <2>1, <3>1, <3>2, AtDepsAs
  <2>4. QED
    BY <1>5, <2>2, <2>3 DEF RetryScript
<1>6. CASE Abort(r)
  <2> DEFINE x == [Idle EXCEPT !.pc = "aborted"]
  <2>1. x \in Copy /\ x.pc = "aborted"
    BY IdleCopy DEF Copy, Places
  <2>2. copy' = [copy EXCEPT ![r] = x]
    BY <1>6 DEF Abort
  <2> HIDE DEF x
  <2>3. Alone(r) /\ copy'[r] = x
    BY <2>1, <2>2, Moves
  <2>4. Progress(r)'
    BY <2>1, <2>3 DEF Progress, ItemPlaces
  <2>5. QED
    BY <1>1, <2>3, <2>4, MishapStep
<1>7. QED
  BY <1>3, <1>4, <1>5, <1>6 DEF Trouble

LEMMA RemoveClean ==
    ASSUME IInv, CInv, NEW t \in Targets, NEW o \in Things, Remove(t, o)
    PROVE  CInv'
BY ProgressStays DEF CInv, Remove, Mishap

LEMMA InitClean == Init => CInv
<1>1. SUFFICES ASSUME Init PROVE CInv
  OBVIOUS
<1>2. \A r \in Requests : copy[r] = Idle
  BY <1>1 DEF Init
<1>3. Idle.pc = "idle" /\ Idle.told = Untold /\ Idle.at = Nothing
  BY DEF Idle
<1>4. \A r \in Requests : Progress(r)
  BY <1>2, <1>3 DEF Progress, ItemPlaces
<1>5. QED
  BY <1>1, <1>4 DEF CInv, Init

LEMMA NextClean == IInv /\ CInv /\ [Next]_vars => CInv'
<1>1. SUFFICES ASSUME IInv, CInv, [Next]_vars PROVE CInv'
  OBVIOUS
<1>2. CASE UNCHANGED vars
  <2>1. UNCHANGED <<server, category, copy, clean>>
    BY <1>2 DEF vars, world
  <2>2. QED
    BY <1>1, <2>1 DEF CInv, Progress, Undisturbed, Delivered, InHand, Placed, Whole, Blank,
                      Remaining, Busy, At, Wanted, There, Names, Kept, Unportable, Reaches
<1>3. ASSUME NEW r \in Requests, NEW o \in Orders, Preflight(r, o) \/ Send(r, o) PROVE CInv'
  BY <1>1, <1>3, PreflightClean, SendClean
<1>4. ASSUME NEW r \in Requests, Migrate(r) PROVE CInv'
  BY <1>1, <1>4, MigrateClean
<1>5. ASSUME NEW r \in Requests, Step(r) PROVE CInv'
  BY <1>1, <1>5, OpenClean, FetchClean, ListDepsClean, CopyDepClean, MapDepsClean,
     CategoriesClean, CreateClean, RefusedClean, TransferClean DEF Step
<1>6. ASSUME NEW r \in Requests, Trouble(r) PROVE CInv'
  BY <1>1, <1>6, MishapsClean
<1>7. ASSUME NEW t \in Targets, NEW o \in Things, Remove(t, o) PROVE CInv'
  BY <1>1, <1>7, RemoveClean
<1>8. QED
  BY <1>1, <1>2, <1>3, <1>4, <1>5, <1>6, <1>7 DEF Next

\* A request that was alone on its way and met no mishap has put every object on every
\* target or, if a target could not take it, reported it as failed; what it created carries
\* the category that was selected where the target has it, and has its file, whatever earlier
\* requests and closed targets left there (routers/migrator.py:846-1058,
\* routers/package_sync.py:359-482).
THEOREM CleanRunsComplete == Spec => []CleanRunCompletes
<1>1. Spec => []CInv
  BY Invariance, InitClean, NextClean, PTL DEF Spec
<1>2. QED
  BY <1>1, Invariance, CleanCompletes, PTL

=============================================================================
