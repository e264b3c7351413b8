------------------------ MODULE KnowledgeStore_proofs ------------------------
(***************************************************************************)
(* Proofs about KnowledgeStore, for any bases, pages, texts and numbers of *)
(* crawls and requests.  Five invariants, each by an induction of its own  *)
(* on top of the types:                                                    *)
(*                                                                         *)
(*   Types      the type invariant, with what a place implies of a visit   *)
(*              and of a request, and the order of the bases               *)
(*   Ingested   what a visit knows stays true while others write: the      *)
(*              texts it has in hand are acknowledged, and the row it is   *)
(*              about to update still is of its base and page, because     *)
(*              numbers are not used twice                                 *)
(*   Untangled  the one change of the set of bases under way still sees    *)
(*              what it read                                               *)
(*   Left       nobody crawls into a base that is gone or going            *)
(*   AllInStep  who is at work on a page, and what of its row and chunks   *)
(*              the one worker of an unspoiled page has still to write;    *)
(*              on top of Ingested, which keeps updates to their own page  *)
(***************************************************************************)
EXTENDS KnowledgeStore, FiniteSetTheorems, TLAPS

BasesOK ==
    /\ bases \in Seq(Bases)
    /\ \A i, j \in DOMAIN bases : bases[i] = bases[j] => i = j

LEMMA BasesAlive ==
    ASSUME BasesOK
    PROVE  /\ Alive \subseteq Bases /\ Len(bases) \in Nat /\ DOMAIN bases = 1..Len(bases)
           /\ \A i \in 1..Len(bases) : bases[i] \in Alive
           /\ \A b \in Alive : \E i \in 1..Len(bases) : bases[i] = b
           /\ bases = <<>> <=> Len(bases) = 0
           /\ bases # <<>> => bases[1] \in Alive
BY DEF BasesOK, Alive

\* A base is inserted, a base is deleted.
LEMMA AppendBase ==
    ASSUME BasesOK, NEW b \in Bases, b \notin Alive, bases' = Append(bases, b)
    PROVE  BasesOK' /\ Alive' = Alive \cup {b}
<1>1. /\ bases' \in Seq(Bases) /\ Len(bases') = Len(bases) + 1 /\ Len(bases) \in Nat
      /\ \A i \in 1..Len(bases) : bases'[i] = bases[i]
      /\ bases'[Len(bases) + 1] = b
  BY DEF BasesOK
<1>2. DOMAIN bases' = 1..(Len(bases) + 1) /\ DOMAIN bases = 1..Len(bases)
  BY <1>1 DEF BasesOK
<1>3. \A i \in 1..Len(bases) : bases[i] # b
  BY BasesAlive
<1>4. BasesOK'
  BY <1>1, <1>2, <1>3 DEF BasesOK
<1>5. Alive' = Alive \cup {b}
  BY <1>1, <1>2 DEF Alive
<1>6. QED
  BY <1>4, <1>5

LEMMA WithoutBase ==
    ASSUME BasesOK, NEW b \in Bases, bases' = Without(b)
    PROVE  BasesOK' /\ Alive' = Alive \ {b}
<1>1. CASE b \notin Alive
  BY <1>1 DEF Without, BasesOK, Alive
<1>2. CASE b \in Alive
  <2> DEFINE at == CHOOSE i \in DOMAIN bases : bases[i] = b
             n  == Len(bases)
  <2>1. /\ at \in 1..n /\ bases[at] = b /\ n \in Nat /\ n >= 1 /\ DOMAIN bases = 1..n
        /\ \A i, j \in 1..n : bases[i] = bases[j] => i = j
        /\ \A i \in 1..n : bases[i] \in Bases
    BY <1>2, BasesAlive DEF BasesOK
  <2>2. bases' = [i \in 1..n - 1 |-> bases[IF i < at THEN i ELSE i + 1]]
    BY <1>2 DEF Without
  <2> HIDE DEF at, n
  <2>3. n - 1 \in Nat /\ DOMAIN bases' = 1..n - 1
    BY <2>1, <2>2
  <2>4. \A i \in 1..n - 1 : /\ (IF i < at THEN i ELSE i + 1) \in 1..n
                            /\ (IF i < at THEN i ELSE i + 1) # at
    BY <2>1
  <2>5. \A i \in 1..n - 1 : bases'[i] \in Bases
    BY <2>1, <2>2, <2>4
  <2>6. bases' \in Seq(Bases)
    BY <2>2, <2>3, <2>5
  <2>7. \A i, j \in 1..n - 1 : bases'[i] = bases'[j] => i = j
    BY <2>1, <2>2, <2>4
  <2>8. \A i \in 1..n - 1 : bases'[i] \in Alive \ {b}
    <3>1. \A i \in 1..n : bases[i] \in Alive /\ (bases[i] = b => i = at)
      BY <2>1 DEF Alive
    <3>2. QED
      BY <2>2, <2>4, <3>1
  <2>9. \A x \in Alive \ {b} : \E i \in 1..n - 1 : bases'[i] = x
    <3>1. SUFFICES ASSUME NEW x \in Alive \ {b} PROVE \E i \in 1..n - 1 : bases'[i] = x
      OBVIOUS
    <3>2. PICK k \in 1..n : bases[k] = x
      BY <2>1 DEF Alive
    <3>3. k # at
      BY <2>1, <3>2
    <3>4. CASE k < at
      BY <2>1, <2>2, <3>2, <3>4
    <3>5. CASE k > at
      <4>1. k - 1 \in 1..n - 1 /\ ~(k - 1 < at) /\ (k - 1) + 1 = k
        BY <2>1, <3>5
      <4>2. bases'[k - 1] = x
        BY <2>2, <3>2, <4>1
      <4>3. QED
        BY <4>1, <4>2
    <3>6. QED
      BY <2>1, <3>3, <3>4, <3>5
  <2>10. Alive' = Alive \ {b}
    BY <2>3, <2>8, <2>9 DEF Alive
  <2>11. QED
    BY <2>3, <2>6, <2>7, <2>10 DEF BasesOK
<1>3. QED
  BY <1>1, <1>2

-----------------------------------------------------------------------------
StoreTypes ==
    /\ row \in SUBSET Row /\ \A x, y \in row : x.no = y.no => x = y
    /\ \A x \in row : x.no <= clock
    /\ chunks \in [Bases -> [Pages -> SUBSET Chunk]]
    /\ ingested \in SUBSET (Bases \X Pages \X Texts)
    /\ clock \in Nat

CrawlSound(c) ==
    /\ crawl[c] \in Crawl
    /\ crawl[c].pc # "idle" => crawl[c].base \in Bases
    /\ crawl[c].pc \in Visiting \cup {"running"} => crawl[c].into \in Bases
    /\ crawl[c].pc \in Visiting => crawl[c].page \in Pages /\ crawl[c].text \in Texts

AdminSound(h) ==
    /\ admin[h] \in Admin
    /\ admin[h].pc \in {"creating", "dropping"} => admin[h].base \in Bases
    /\ admin[h].pc = "scrubbing" => admin[h].spot \in Spots

BaseTypes == BasesOK /\ default \in SUBSET Alive /\ tangled \in BOOLEAN

HistoryTypes ==
    /\ spoiled \in SUBSET Spots /\ alone \in SUBSET Crawls /\ raced \in SUBSET Bases
    /\ visits \in 0..MaxVisits /\ calls \in 0..MaxCalls /\ failures \in 0..MaxFailures

CrawlTypes == crawl \in [Crawls -> Crawl] /\ \A c \in Crawls : CrawlSound(c)
AdminTypes == admin \in [Handlers -> Admin] /\ \A h \in Handlers : AdminSound(h)

Types == StoreTypes /\ CrawlTypes /\ AdminTypes /\ BaseTypes /\ HistoryTypes

LEMMA TypesAreTypeOK == Types => TypeOK
BY DEF Types, StoreTypes, CrawlTypes, CrawlSound, AdminTypes, AdminSound, BaseTypes, BasesOK,
       HistoryTypes, TypeOK

\* A crawl, or a request, moves and the others stay where they are.
LEMMA CrawlMoves ==
    ASSUME Types, NEW c \in Crawls, NEW x \in Crawl, crawl' = [crawl EXCEPT ![c] = x],
           x.pc # "idle" => x.base \in Bases,
           x.pc \in Visiting \cup {"running"} => x.into \in Bases,
           x.pc \in Visiting => x.page \in Pages /\ x.text \in Texts
    PROVE  CrawlTypes' /\ crawl'[c] = x /\ \A d \in Crawls \ {c} : crawl'[d] = crawl[d]
BY DEF Types, CrawlTypes, CrawlSound

LEMMA AdminMoves ==
    ASSUME Types, NEW h \in Handlers, NEW x \in Admin, admin' = [admin EXCEPT ![h] = x],
           x.pc \in {"creating", "dropping"} => x.base \in Bases,
           x.pc = "scrubbing" => x.spot \in Spots
    PROVE  AdminTypes' /\ admin'[h] = x /\ \A g \in Handlers \ {h} : admin'[g] = admin[g]
BY DEF Types, AdminTypes, AdminSound

LEMMA RestPlaces ==
    /\ Idle \in Crawl /\ Idle.pc = "idle" /\ Idle.row = {}
    /\ AtRest \in Admin /\ AtRest.pc = "idle"
BY DEF Idle, Crawl, CrawlPlaces, AtRest, Admin, AdminPlaces

\* A crawl at a visit goes on: to pc, with other chunks to erase or rows to update.
LEMMA VisitGoesOn ==
    ASSUME Types, NEW c \in Crawls, crawl[c].pc \in Visiting, NEW pc \in CrawlPlaces,
           NEW old \in SUBSET Chunk, NEW rows \in SUBSET Row,
           crawl' = [crawl EXCEPT ![c] = [crawl[c] EXCEPT !.pc = pc, !.old = old, !.row = rows]]
    PROVE  CrawlTypes'
<1> DEFINE x == [crawl[c] EXCEPT !.pc = pc, !.old = old, !.row = rows]
<1>1. /\ crawl[c] \in Crawl /\ crawl[c].base \in Bases /\ crawl[c].page \in Pages
      /\ crawl[c].text \in Texts /\ crawl[c].into \in Bases
  BY DEF Types, CrawlTypes, CrawlSound, Visiting
<1>2. /\ x \in Crawl /\ x.base = crawl[c].base /\ x.page = crawl[c].page
      /\ x.text = crawl[c].text /\ x.into = crawl[c].into
  BY <1>1 DEF Crawl
<1>3. crawl' = [crawl EXCEPT ![c] = x]
  OBVIOUS
<1> HIDE DEF x
<1>4. QED
  BY <1>1, <1>2, <1>3, CrawlMoves

LEMMA CrawlStepTypes ==
    ASSUME Types, NEW c \in Crawls, CrawlStep(c)
    PROVE  CrawlTypes'
<1>0. /\ crawl[c] \in Crawl /\ crawl \in [Crawls -> Crawl]
      /\ crawl[c].pc # "idle" => crawl[c].base \in Bases
      /\ crawl[c].pc \in Visiting \cup {"running"} => crawl[c].into \in Bases
      /\ crawl[c].old \in SUBSET Chunk /\ crawl[c].row \in SUBSET Row
  BY DEF Types, CrawlTypes, CrawlSound, Crawl
<1>1. CASE StartScrape(c)
  <2>1. PICK b \in Bases, pc \in {"starting", "healing"} :
          crawl' = [crawl EXCEPT ![c] = [Idle EXCEPT !.pc = pc, !.base = b]]
    BY <1>1, BasesAlive, LegacyAssumption DEF StartScrape, Types, BaseTypes, HistoryTypes
  <2> DEFINE x == [Idle EXCEPT !.pc = pc, !.base = b]
  <2>2. x \in Crawl /\ x.pc = pc /\ x.base = b
    BY RestPlaces DEF Crawl, CrawlPlaces
  <2> HIDE DEF x
  <2>3. QED
    BY <2>1, <2>2, CrawlMoves DEF x, Visiting
<1>2. CASE Heal(c)
  BY <1>2, RestPlaces DEF Heal, Go, Types, CrawlTypes, CrawlSound, Crawl, CrawlPlaces, Visiting
<1>3. CASE StartJob(c)
  <2> DEFINE into == Collection(crawl[c].base)
             x    == [crawl[c] EXCEPT !.pc = "running", !.into = into]
  <2>1. into \in Bases /\ crawl[c].base \in Bases
    BY <1>0, <1>3, LegacyAssumption DEF Collection, StartJob
  <2>2. crawl' = [crawl EXCEPT ![c] = x]
    BY <1>0, <1>3 DEF StartJob, Crawl
  <2> HIDE DEF into
  <2>3. x \in Crawl /\ x.pc = "running" /\ x.base = crawl[c].base /\ x.into \in Bases
    BY <1>0, <2>1 DEF Crawl, CrawlPlaces
  <2> HIDE DEF x
  <2>4. QED
    BY <2>1, <2>2, <2>3, CrawlMoves DEF Visiting
<1>4. CASE EndJob(c)
  BY <1>4, RestPlaces DEF EndJob, Types, CrawlTypes, CrawlSound, Visiting
<1>5. ASSUME NEW p \in Pages, NEW t \in Texts, Look(c, p, t) PROVE CrawlTypes'
  <2> DEFINE found == RowsOf(crawl[c].base, p)
             known == IF found = {} THEN Nothing ELSE (CHOOSE x \in found : TRUE).text
             x     == [crawl[c] EXCEPT !.pc = "looked", !.page = p, !.text = t, !.known = known]
  <2>1. crawl' = [crawl EXCEPT ![c] = x]
    BY <1>0, <1>5 DEF Look, Crawl
  <2>2. known \in Texts \cup {Nothing}
    BY DEF Types, StoreTypes, Row, RowsOf
  <2>3. crawl[c].base \in Bases /\ crawl[c].into \in Bases
    BY <1>0, <1>5 DEF Look
  <2> HIDE DEF known
  <2>4. /\ x \in Crawl /\ x.pc = "looked" /\ x.base = crawl[c].base /\ x.page = p /\ x.text = t
        /\ x.into = crawl[c].into
    BY <1>0, <2>2 DEF Crawl, CrawlPlaces
  <2> HIDE DEF x
  <2>5. QED
    BY <2>1, <2>3, <2>4, CrawlMoves
<1>6. CASE Visited(c) /\ crawl[c].pc \in Visiting
  <2> DEFINE x == [Idle EXCEPT !.pc = "running", !.base = crawl[c].base, !.into = crawl[c].into]
  <2>1. crawl[c].base \in Bases /\ crawl[c].into \in Bases
    BY <1>0, <1>6 DEF Visiting
  <2>2. x \in Crawl /\ x.pc = "running" /\ x.base = crawl[c].base /\ x.into = crawl[c].into
    BY <2>1, RestPlaces DEF Crawl, CrawlPlaces
  <2>3. crawl' = [crawl EXCEPT ![c] = x]
    BY <1>6 DEF Visited
  <2> HIDE DEF x
  <2>4. QED
    BY <2>1, <2>2, <2>3, CrawlMoves DEF Visiting
<1>7. CASE Unchanged(c) \/ Ingest(c)
  BY <1>7 DEF Unchanged, Ingest, Go, Types, CrawlTypes, CrawlSound, Crawl, CrawlPlaces, Visiting
<1>8. CASE FindOld(c)
  <2>1. /\ crawl[c].pc \in Visiting /\ "erasing" \in CrawlPlaces
        /\ chunks[crawl[c].into][crawl[c].page] \in SUBSET Chunk
    BY <1>8, <1>0 DEF FindOld, Visiting, CrawlPlaces, Types, StoreTypes, CrawlTypes, CrawlSound
  <2>2. crawl' = [crawl EXCEPT ![c] = [crawl[c] EXCEPT !.pc = "erasing",
                    !.old = chunks[crawl[c].into][crawl[c].page], !.row = crawl[c].row]]
    BY <1>8, <1>0 DEF FindOld, Crawl
  <2>3. QED
    BY <1>0, <2>1, <2>2, VisitGoesOn
<1>9. CASE EraseOld(c) \/ EraseFails(c)
  <2>1. crawl[c].pc \in Visiting /\ "embedding" \in CrawlPlaces
    BY <1>9 DEF EraseOld, EraseFails, Visiting, CrawlPlaces
  <2>2. crawl' = [crawl EXCEPT ![c] = [crawl[c] EXCEPT !.pc = "embedding", !.old = {},
                                                       !.row = crawl[c].row]]
    BY <1>9, <1>0 DEF EraseOld, EraseFails, Crawl
  <2>3. QED
    BY <1>0, <2>1, <2>2, VisitGoesOn
<1>10. CASE FindRow(c)
  <2> DEFINE found == RowsOf(crawl[c].base, crawl[c].page)
  <2>1. crawl[c].pc \in Visiting /\ "committing" \in CrawlPlaces /\ found \in SUBSET Row
    BY <1>10 DEF FindRow, Visiting, CrawlPlaces, Types, StoreTypes, RowsOf
  <2> HIDE DEF found
  <2>2. CASE Visited(c)
    BY <1>6, <2>1, <2>2
  <2>3. CASE crawl' = [crawl EXCEPT ![c].pc = "committing", ![c].row = found]
    <3>1. crawl' = [crawl EXCEPT ![c] = [crawl[c] EXCEPT !.pc = "committing",
                                                         !.old = crawl[c].old, !.row = found]]
      BY <2>3, <1>0 DEF Crawl
    <3>2. QED
      BY <1>0, <2>1, <3>1, VisitGoesOn
  <2>4. QED
    BY <1>10, <2>2, <2>3 DEF FindRow, found
<1>11. CASE CutOff(c)
  BY <1>11, RestPlaces DEF CutOff, Types, CrawlTypes, CrawlSound, Visiting
<1>12. CASE OffTopic(c) \/ IngestFails(c) \/ Record(c)
  <2>1. Visited(c) /\ crawl[c].pc \in Visiting
    BY <1>12 DEF OffTopic, IngestFails, Record, Visiting
  <2>2. QED
    BY <1>6, <2>1
<1>13. QED
  BY <1>1, <1>2, <1>3, <1>4, <1>5, <1>7, <1>8, <1>9, <1>10, <1>11, <1>12 DEF CrawlStep

LEMMA AdminStepTypes ==
    ASSUME Types, NEW h \in Handlers, AdminStep(h)
    PROVE  AdminTypes'
<1>0. /\ admin[h] \in Admin /\ admin \in [Handlers -> Admin]
      /\ admin[h].pc \in {"creating", "dropping"} => admin[h].base \in Bases
      /\ admin[h].pc = "scrubbing" => admin[h].spot \in Spots
      /\ row \in SUBSET Row /\ chunks \in [Bases -> [Pages -> SUBSET Chunk]]
      /\ default \in SUBSET Bases
  BY BasesAlive DEF Types, AdminTypes, AdminSound, StoreTypes, BaseTypes
<1>1. CASE AdminEnd(h)
  BY <1>1, RestPlaces, AdminMoves DEF AdminEnd
<1>2. CASE DeleteSource(h)
  <2>1. PICK x \in row :
          admin' = [admin EXCEPT ![h] = [AtRest EXCEPT !.pc = "scrub", !.spots = {Holds(x)}]]
    BY <1>2 DEF DeleteSource
  <2> DEFINE y == [AtRest EXCEPT !.pc = "scrub", !.spots = {Holds(x)}]
  <2>2. Holds(x) \in Spots
    BY <1>0 DEF Row, Holds, Spots
  <2>3. y \in Admin /\ y.pc = "scrub"
    BY <2>2, RestPlaces DEF Admin, AdminPlaces
  <2>4. admin' = [admin EXCEPT ![h] = y]
    BY <2>1
  <2> HIDE DEF y
  <2>5. QED
    BY <2>3, <2>4, AdminMoves
<1>3. CASE ScrubFind(h)
  <2>1. PICK s \in admin[h].spots :
          admin' = [admin EXCEPT ![h].pc = "scrubbing", ![h].spot = s, ![h].spots = @ \ {s},
                                 ![h].old = chunks[s[1]][s[2]]]
    BY <1>3 DEF ScrubFind
  <2> DEFINE left == admin[h].spots \ {s}
             old  == chunks[s[1]][s[2]]
             y    == [admin[h] EXCEPT !.pc = "scrubbing", !.spot = s, !.spots = left, !.old = old]
  <2>2. s \in Spots /\ left \in SUBSET Spots /\ old \in SUBSET Chunk
    BY <1>0 DEF Admin, Spots
  <2>3. admin' = [admin EXCEPT ![h] = y]
    BY <1>0, <2>1 DEF Admin
  <2> HIDE DEF left, old
  <2>4. y \in Admin /\ y.pc = "scrubbing" /\ y.spot = s
    BY <1>0, <2>2 DEF Admin, AdminPlaces
  <2> HIDE DEF y
  <2>5. QED
    BY <2>2, <2>3, <2>4, AdminMoves
<1>4. CASE Scrub(h) \/ ScrubFails(h)
  <2>1. admin[h].pc = "scrubbing" /\ Scrubbed(h)
    BY <1>4 DEF Scrub, ScrubFails
  <2> DEFINE y == [admin[h] EXCEPT !.pc = "scrub", !.spot = Nothing, !.old = {}]
  <2>2. y \in Admin /\ y.pc = "scrub"
    BY <1>0 DEF Admin, AdminPlaces
  <2>3. CASE admin' = [admin EXCEPT ![h] = y]
    <3> HIDE DEF y
    <3>1. QED
      BY <1>0, <2>1, <2>2, <2>3, AdminMoves
  <2>4. admin' = [admin EXCEPT ![h] = y] \/ AdminEnd(h)
    BY <1>0, <2>1 DEF Scrubbed, Admin
  <2>5. QED
    BY <1>1, <2>3, <2>4
<1>5. CASE FindDuplicates(h)
  <2> DEFINE y == [AtRest EXCEPT !.pc = "purging", !.rows = Duplicates]
  <2>1. Duplicates \in SUBSET Row
    BY <1>0 DEF Duplicates
  <2>2. y \in Admin /\ y.pc = "purging"
    BY <2>1, RestPlaces DEF Admin, AdminPlaces
  <2>3. admin' = [admin EXCEPT ![h] = y]
    BY <1>5 DEF FindDuplicates
  <2> HIDE DEF y
  <2>4. QED
    BY <2>2, <2>3, AdminMoves
<1>6. ASSUME NEW b \in Bases, NEW asDefault \in BOOLEAN, CreateBase(h, b, asDefault)
      PROVE  AdminTypes'
  <2> DEFINE seen == IF asDefault THEN default ELSE {}
             heir == IF asDefault \/ bases = <<>> THEN b ELSE Nothing
             y    == [AtRest EXCEPT !.pc = "creating", !.base = b, !.seen = seen, !.heir = heir]
  <2>1. seen \in SUBSET Bases /\ heir \in Bases \cup {Nothing}
    BY <1>0
  <2>2. admin' = [admin EXCEPT ![h] = y]
    BY <1>6 DEF CreateBase
  <2> HIDE DEF seen, heir
  <2>3. y \in Admin /\ y.pc = "creating" /\ y.base = b
    BY <2>1, RestPlaces DEF Admin, AdminPlaces
  <2> HIDE DEF y
  <2>4. QED
    BY <2>2, <2>3, AdminMoves
<1>7. ASSUME NEW b \in Bases, DeleteBase(h, b) PROVE AdminTypes'
  <2> DEFINE seen == default \ {b}
             heir == Heir(b)
             rows == {x \in row : x.base = b}
             y    == [AtRest EXCEPT !.pc = "dropping", !.base = b, !.seen = seen, !.heir = heir,
                                    !.rows = rows]
  <2>1. seen \in SUBSET Bases /\ rows \in SUBSET Row
    BY <1>0
  <2>2. heir \in Bases \cup {Nothing}
    <3>1. Len(bases) > 1 /\ Len(bases) \in Nat /\ BasesOK
      BY <1>7 DEF DeleteBase, MayDrop, Types, BaseTypes, BasesOK
    <3>2. bases[1] \in Bases /\ bases[2] \in Bases
      BY <3>1, BasesAlive
    <3>3. QED
      BY <3>2 DEF Heir
  <2>3. admin' = [admin EXCEPT ![h] = y]
    BY <1>7 DEF DeleteBase
  <2> HIDE DEF seen, heir, rows
  <2>4. y \in Admin /\ y.pc = "dropping" /\ y.base = b
    BY <2>1, <2>2, RestPlaces DEF Admin, AdminPlaces
  <2> HIDE DEF y
  <2>5. QED
    BY <2>3, <2>4, AdminMoves
<1>8. CASE DropBase(h)
  <2> DEFINE spots == {Holds(x) : x \in admin[h].rows}
             y     == [AtRest EXCEPT !.pc = "scrub", !.spots = spots]
  <2>1. spots \in SUBSET Spots
    BY <1>0 DEF Admin, Row, Holds, Spots
  <2>2. admin' = [admin EXCEPT ![h] = y] \/ AdminEnd(h)
    BY <1>8 DEF DropBase
  <2> HIDE DEF spots
  <2>3. y \in Admin /\ y.pc = "scrub"
    BY <2>1, RestPlaces DEF Admin, AdminPlaces
  <2> HIDE DEF y
  <2>4. QED
    BY <1>1, <2>1, <2>2, <2>3, AdminMoves
<1>9. QED
  BY <1>1, <1>2, <1>3, <1>4, <1>5, <1>6, <1>7, <1>8
     DEF AdminStep, ScrubDies, Purge, InsertBase

LEMMA BaseStepTypes ==
    ASSUME Types,
           \/ \E c \in Crawls : CrawlStep(c)
           \/ \E h \in Handlers : AdminStep(h)
    PROVE  BaseTypes'
<1>0. BasesOK /\ default \in SUBSET Alive /\ tangled \in BOOLEAN
  BY DEF Types, BaseTypes
<1>1. CASE UNCHANGED <<bases, default>> /\ tangled' \in BOOLEAN
  BY <1>0, <1>1 DEF BaseTypes, BasesOK, Alive
<1>2. ASSUME NEW c \in Crawls, Heal(c) PROVE BaseTypes'
  <2>1. tangled' = TRUE /\ crawl[c].base \in Bases
    BY <1>2 DEF Heal, Types, CrawlTypes, CrawlSound
  <2> DEFINE b == crawl[c].base
  <2>2. CASE default' = default \cup {b} /\ b \in Alive /\ UNCHANGED bases
    BY <1>0, <2>1, <2>2 DEF BaseTypes, BasesOK, Alive
  <2>3. CASE bases' = <<b>> /\ default' = default \cup {b} /\ bases = <<>>
    <3> HIDE DEF b
    <3>1. bases' \in Seq(Bases) /\ DOMAIN bases' = {1} /\ bases'[1] = b
      BY <2>1, <2>3 DEF b
    <3>2. BasesOK' /\ Alive' = {b}
      BY <3>1 DEF BasesOK, Alive
    <3>3. default = {}
      BY <1>0, <2>3 DEF Alive
    <3>4. QED
      BY <2>1, <2>3, <3>2, <3>3 DEF BaseTypes
  <2>4. QED
    BY <1>1, <1>2, <2>1, <2>2, <2>3 DEF Heal
<1>3. ASSUME NEW h \in Handlers, InsertBase(h) PROVE BaseTypes'
  <2>1. admin[h].base \in Bases /\ tangled' \in BOOLEAN
    BY <1>0, <1>3 DEF InsertBase, Types, AdminTypes, AdminSound
  <2>2. CASE /\ Insertable(h) /\ bases' = Append(bases, admin[h].base)
             /\ default' = (default \ admin[h].seen) \cup ({admin[h].heir} \cap {admin[h].base})
    <3>1. BasesOK' /\ Alive' = Alive \cup {admin[h].base}
      BY <1>0, <2>1, <2>2, AppendBase DEF Insertable
    <3>2. QED
      BY <1>0, <2>1, <2>2, <3>1 DEF BaseTypes
  <2>3. QED
    BY <1>1, <1>3, <2>1, <2>2 DEF InsertBase
<1>4. ASSUME NEW h \in Handlers, DropBase(h) PROVE BaseTypes'
  <2>1. admin[h].base \in Bases /\ tangled' \in BOOLEAN
    BY <1>0, <1>4 DEF DropBase, Types, AdminTypes, AdminSound
  <2>2. CASE /\ bases' = Without(admin[h].base)
             /\ default' = (default \cup ({admin[h].heir} \cap Alive)) \ {admin[h].base}
    <3>1. BasesOK' /\ Alive' = Alive \ {admin[h].base}
      BY <1>0, <2>1, <2>2, WithoutBase
    <3>2. QED
      BY <1>0, <2>1, <2>2, <3>1 DEF BaseTypes
  <2>3. QED
    BY <1>1, <1>4, <2>1, <2>2 DEF DropBase
<1>5. ASSUME NEW c \in Crawls, CrawlStep(c) PROVE BaseTypes'
  <2>1. Heal(c) \/ (UNCHANGED <<bases, default>> /\ tangled' = tangled)
    BY <1>5 DEF CrawlStep, StartScrape, StartJob, EndJob, Look, OffTopic, Unchanged, FindOld,
                EraseOld, EraseFails, Ingest, IngestFails, FindRow, Record, CutOff, kbs
  <2>2. QED
    BY <1>0, <1>1, <1>2, <2>1
<1>6. ASSUME NEW h \in Handlers, AdminStep(h) PROVE BaseTypes'
  <2>1. \/ InsertBase(h) \/ DropBase(h)
        \/ UNCHANGED <<bases, default>> /\ (tangled' = tangled \/ Tangle)
    BY <1>6 DEF AdminStep, DeleteSource, ScrubFind, Scrub, ScrubFails, ScrubDies,
                FindDuplicates, Purge, CreateBase, DeleteBase, kbs
  <2>2. Tangle => tangled' \in BOOLEAN
    BY <1>0 DEF Tangle
  <2>3. QED
    BY <1>0, <1>1, <1>3, <1>4, <2>1, <2>2
<1>7. QED
  BY <1>5, <1>6

\* What a recording does to the rows: one more, with a new number, or the text of one.
Inserts(c) ==
    /\ row' = row \cup {[no |-> clock + 1, base |-> crawl[c].base, into |-> crawl[c].into,
                         page |-> crawl[c].page, text |-> crawl[c].text]}
    /\ clock' = clock + 1

Updates(c) ==
    /\ \A x \in row' : \E y \in row :
         /\ y.no = x.no /\ y.base = x.base /\ y.page = x.page /\ x \in Row
         /\ \/ x = y
            \/ x.text = crawl[c].text /\ \E z \in crawl[c].row : z.no = y.no
    /\ \A x, y \in row' : x.no = y.no => x = y
    /\ clock' = clock

LEMMA RecordEffect ==
    ASSUME Types, NEW c \in Crawls, Record(c)
    PROVE  Inserts(c) \/ Updates(c)
<1>1. CASE crawl[c].row = {}
  BY <1>1 DEF Record, Inserts
<1>2. CASE crawl[c].row # {}
  <2> DEFINE same == {y \in row : \E x \in crawl[c].row : x.no = y.no}
             t    == crawl[c].text
             New(y) == [y EXCEPT !.text = t]
  <2>1. row' = (row \ same) \cup {New(y) : y \in same} /\ clock' = clock
    BY <1>2 DEF Record
  <2>2. row \in SUBSET Row /\ t \in Texts /\ \A x, y \in row : x.no = y.no => x = y
    BY DEF Types, StoreTypes, Record, CrawlTypes, CrawlSound, Visiting
  <2>3. \A y \in row : /\ New(y) \in Row /\ New(y).no = y.no /\ New(y).base = y.base
                       /\ New(y).page = y.page /\ New(y).text = t
    BY <2>2 DEF Row
  <2>4. same \subseteq row /\ \A y \in same : \E z \in crawl[c].row : z.no = y.no
    OBVIOUS
  <2> HIDE DEF New, same
  <2>5. \A x \in row' : \E y \in row :
          /\ y.no = x.no /\ y.base = x.base /\ y.page = x.page /\ x \in Row
          /\ \/ x = y /\ y \notin same
             \/ x = New(y) /\ y \in same
    <3>1. SUFFICES ASSUME NEW x \in row'
                   PROVE  \E y \in row :
                            /\ y.no = x.no /\ y.base = x.base /\ y.page = x.page /\ x \in Row
                            /\ (x = y /\ y \notin same) \/ (x = New(y) /\ y \in same)
      OBVIOUS
    <3>2. ASSUME x \in row, x \notin same
          PROVE  \E y \in row :
                   /\ y.no = x.no /\ y.base = x.base /\ y.page = x.page /\ x \in Row
                   /\ (x = y /\ y \notin same) \/ (x = New(y) /\ y \in same)
      <4>1. x \in Row
        BY <2>2, <3>2
      <4>2. QED
        BY <3>2, <4>1
    <3>3. ASSUME NEW y \in same, x = New(y)
          PROVE  \E w \in row :
                   /\ w.no = x.no /\ w.base = x.base /\ w.page = x.page /\ x \in Row
                   /\ (x = w /\ w \notin same) \/ (x = New(w) /\ w \in same)
      BY <2>3, <2>4, <3>3
    <3>4. QED
      BY <2>1, <3>2, <3>3
  <2>6. \A x, y \in row' : x.no = y.no => x = y
    BY <2>2, <2>5
  <2>7. QED
    BY <2>1, <2>3, <2>4, <2>5, <2>6 DEF Updates
<1>3. QED
  BY <1>1, <1>2

LEMMA FewerRows ==
    ASSUME Types, row' \subseteq row, clock' = clock, UNCHANGED ingested,
           chunks' \in [Bases -> [Pages -> SUBSET Chunk]]
    PROVE  StoreTypes'
BY DEF Types, StoreTypes

LEMMA Erased ==
    ASSUME Types, NEW b, NEW p, NEW old, chunks' = [chunks EXCEPT ![b][p] = @ \ old]
    PROVE  chunks' \in [Bases -> [Pages -> SUBSET Chunk]]
BY DEF Types, StoreTypes

LEMMA StoreStepTypes ==
    ASSUME Types,
           \/ \E c \in Crawls : CrawlStep(c)
           \/ \E h \in Handlers : AdminStep(h)
    PROVE  StoreTypes'
<1>0. /\ row \in SUBSET Row /\ chunks \in [Bases -> [Pages -> SUBSET Chunk]] /\ clock \in Nat
      /\ \A x \in row : x.no <= clock /\ x.no \in Nat
      /\ \A x, y \in row : x.no = y.no => x = y
  BY DEF Types, StoreTypes, Row
<1>1. CASE UNCHANGED <<row, clock, ingested>> /\ chunks' \in [Bases -> [Pages -> SUBSET Chunk]]
  BY <1>1, FewerRows
<1>2. ASSUME NEW c \in Crawls, Record(c) PROVE StoreTypes'
  <2>1. /\ crawl[c].base \in Bases /\ crawl[c].page \in Pages /\ crawl[c].text \in Texts
        /\ crawl[c].into \in Bases /\ UNCHANGED <<chunks, ingested>>
    BY <1>2 DEF Record, Types, CrawlTypes, CrawlSound, Visiting
  <2>2. CASE Inserts(c)
    <3> DEFINE new == [no |-> clock + 1, base |-> crawl[c].base, into |-> crawl[c].into,
                       page |-> crawl[c].page, text |-> crawl[c].text]
    <3>1. new \in Row /\ new.no = clock + 1
      BY <1>0, <2>1 DEF Row
    <3>2. row' = row \cup {new} /\ clock' = clock + 1
      BY <2>2 DEF Inserts
    <3> HIDE DEF new
    <3>3. QED
      BY <1>0, <2>1, <3>1, <3>2 DEF StoreTypes, Types
  <2>3. CASE Updates(c)
    <3>1. row' \in SUBSET Row /\ \A x \in row' : x.no <= clock'
      BY <1>0, <2>3 DEF Updates
    <3>2. QED
      BY <1>0, <2>1, <2>3, <3>1 DEF StoreTypes, Types, Updates
  <2>4. QED
    BY <1>2, <2>2, <2>3, RecordEffect
<1>3. ASSUME NEW c \in Crawls, crawl[c].pc = "embedding", chunks' = Added(c), clock' = clock + 1,
             UNCHANGED row,
             \/ UNCHANGED ingested
             \/ ingested' = ingested \cup {<<crawl[c].base, crawl[c].page, crawl[c].text>>}
      PROVE  StoreTypes'
  <2>1. /\ crawl[c].base \in Bases /\ crawl[c].page \in Pages /\ crawl[c].text \in Texts
        /\ crawl[c].into \in Bases
    BY <1>3 DEF Types, CrawlTypes, CrawlSound, Visiting
  <2> DEFINE new == [no |-> clock + 1, text |-> crawl[c].text]
  <2>2. new \in Chunk
    BY <1>0, <2>1 DEF Chunk
  <2>3. chunks' = [chunks EXCEPT ![crawl[c].into][crawl[c].page] = @ \cup {new}]
    BY <1>3 DEF Added
  <2> HIDE DEF new
  <2>4. chunks' \in [Bases -> [Pages -> SUBSET Chunk]]
    BY <1>0, <2>1, <2>2, <2>3
  <2>5. ingested' \in SUBSET (Bases \X Pages \X Texts)
    BY <1>3, <2>1 DEF Types, StoreTypes
  <2>6. \A x \in row : x.no <= clock + 1
    BY <1>0
  <2>7. QED
    BY <1>0, <1>3, <2>4, <2>5, <2>6 DEF StoreTypes
<1>4. ASSUME NEW c \in Crawls, CrawlStep(c) PROVE StoreTypes'
  <2>1. CASE UNCHANGED docs /\ UNCHANGED clock
    BY <1>0, <1>1, <2>1 DEF docs
  <2>2. CASE EraseOld(c)
    BY <1>1, <2>2, Erased DEF EraseOld
  <2>3. CASE Ingest(c)
    BY <1>3, <2>3 DEF Ingest
  <2>4. CASE IngestFails(c)
    <3>1. CASE UNCHANGED <<chunks, clock>>
      BY <1>0, <1>1, <2>4, <3>1 DEF IngestFails
    <3>2. CASE chunks' = Added(c) /\ clock' = clock + 1
      BY <1>3, <2>4, <3>2 DEF IngestFails
    <3>3. QED
      BY <2>4, <3>1, <3>2 DEF IngestFails
  <2>5. QED
    BY <1>2, <1>4, <2>1, <2>2, <2>3, <2>4
       DEF CrawlStep, StartScrape, Heal, StartJob, EndJob, Look, OffTopic, Unchanged, FindOld,
           EraseFails, FindRow, CutOff
<1>5. ASSUME NEW h \in Handlers, AdminStep(h) PROVE StoreTypes'
  <2>1. CASE row' \subseteq row /\ UNCHANGED <<clock, ingested, chunks>>
    BY <1>0, <2>1, FewerRows
  <2>2. CASE Scrub(h)
    BY <1>1, <2>2, Erased DEF Scrub
  <2>3. QED
    BY <1>5, <2>1, <2>2
       DEF AdminStep, DeleteSource, ScrubFind, ScrubFails, ScrubDies, FindDuplicates, Purge,
           CreateBase, InsertBase, DeleteBase, DropBase, docs
<1>6. QED
  BY <1>4, <1>5

LEMMA HistoryStepTypes ==
    ASSUME Types,
           \/ \E c \in Crawls : CrawlStep(c)
           \/ \E h \in Handlers : AdminStep(h)
    PROVE  HistoryTypes'
<1>0. HistoryTypes
  BY DEF Types
<1>1. CASE UNCHANGED <<history, raced, bounds>>
  BY <1>0, <1>1 DEF HistoryTypes, history, bounds
<1>2. ASSUME NEW S \in SUBSET Spots, Spoil(S), UNCHANGED <<raced, visits, calls>>,
             Failure \/ failures' = failures
      PROVE  HistoryTypes'
  BY <1>0, <1>2, BoundsAssumption DEF HistoryTypes, Spoil, Failure
<1>3. ASSUME NEW c \in Crawls, CrawlStep(c) PROVE HistoryTypes'
  <2>1. crawl[c].pc # "idle" => crawl[c].base \in Bases
    BY DEF Types, CrawlTypes, CrawlSound
  <2>2. crawl[c].pc \in Visiting => Spot(c) \in Spots /\ Place(c) \in Spots
    BY DEF Types, CrawlTypes, CrawlSound, Spot, Place, Spots, Visiting
  <2>3. CASE StartScrape(c)
    <3>1. Call /\ UNCHANGED <<history, raced, visits, failures>>
      BY <2>3 DEF StartScrape
    <3>2. QED
      BY <1>0, <3>1, BoundsAssumption DEF HistoryTypes, Call, history
  <2>4. CASE StartJob(c)
    BY <1>0, <2>1, <2>4 DEF StartJob, HistoryTypes, history, bounds
  <2>5. ASSUME NEW p \in Pages, NEW t \in Texts, Look(c, p, t) PROVE HistoryTypes'
    <3>1. {<<crawl[c].base, p>>, <<crawl[c].into, p>>} \subseteq Spots
      BY <2>1, <2>5 DEF Look, Spots, Types, CrawlTypes, CrawlSound
    <3>2. visits' \in 0..MaxVisits /\ UNCHANGED <<raced, calls, failures>>
      BY <1>0, <2>5, BoundsAssumption DEF Look, HistoryTypes
    <3>3. spoiled' \in SUBSET Spots /\ alone' \in SUBSET Crawls
      BY <1>0, <2>5, <3>1 DEF Look, HistoryTypes
    <3>4. QED
      BY <1>0, <3>2, <3>3 DEF HistoryTypes
  <2>6. CASE EraseFails(c) \/ IngestFails(c) \/ CutOff(c)
    <3>1. /\ crawl[c].pc \in Visiting /\ Spoil({Spot(c), Place(c)}) /\ Failure
          /\ UNCHANGED <<raced, visits, calls>>
      BY <2>6 DEF EraseFails, IngestFails, CutOff, Visiting
    <3>2. {Spot(c), Place(c)} \in SUBSET Spots
      BY <2>2, <3>1
    <3>3. QED
      BY <1>2, <3>1, <3>2
  <2>7. CASE Record(c)
    BY <1>0, <2>7 DEF Record, HistoryTypes, bounds
  <2>8. QED
    BY <1>1, <1>3, <2>3, <2>4, <2>5, <2>6, <2>7
       DEF CrawlStep, Heal, EndJob, OffTopic, Unchanged, FindOld, EraseOld, Ingest, FindRow
<1>4. ASSUME NEW h \in Handlers, AdminStep(h) PROVE HistoryTypes'
  <2>1. /\ admin[h].pc \in {"creating", "dropping"} => admin[h].base \in Bases
        /\ admin[h].pc = "scrubbing" => admin[h].spot \in Spots
        /\ row \in SUBSET Row /\ admin[h].rows \in SUBSET Row
    BY DEF Types, AdminTypes, AdminSound, StoreTypes, Admin
  <2>2. CASE Call /\ UNCHANGED <<history, visits, failures>> /\ raced' \in SUBSET Bases
    BY <1>0, <2>2, BoundsAssumption DEF HistoryTypes, Call, history
  <2>3. CASE DeleteSource(h)
    <3>1. PICK x \in row : UNCHANGED history \/ Spoil(Harmed(x))
      BY <2>3 DEF DeleteSource
    <3>2. Harmed(x) \in SUBSET Spots
      BY <2>1 DEF Row, Spots, Harmed, Holds
    <3>3. spoiled' \in SUBSET Spots /\ alone' \in SUBSET Crawls
      BY <1>0, <3>1, <3>2 DEF HistoryTypes, Spoil, history
    <3>4. QED
      BY <1>0, <2>3, <3>3, BoundsAssumption DEF DeleteSource, HistoryTypes, Call
  <2>4. CASE ScrubFails(h)
    <3>1. {admin[h].spot} \in SUBSET Spots
      BY <2>1, <2>4 DEF ScrubFails
    <3>2. QED
      BY <1>2, <2>4, <3>1 DEF ScrubFails
  <2>5. CASE ScrubDies(h)
    <3> DEFINE S == Spots \cap (admin[h].spots \cup {admin[h].spot})
    <3>1. S \in SUBSET Spots
      OBVIOUS
    <3>2. Spoil(S)
      BY <2>5 DEF ScrubDies
    <3> HIDE DEF S
    <3>3. QED
      BY <1>2, <2>5, <3>1, <3>2 DEF ScrubDies
  <2>6. CASE Purge(h)
    <3> DEFINE gone == {x \in row : \E y \in admin[h].rows : y.no = x.no}
               S    == {<<x.base, x.page>> : x \in gone}
    <3>1. S \in SUBSET Spots
      BY <2>1 DEF Spots, Row
    <3>2. Spoil(S)
      BY <2>6 DEF Purge
    <3> HIDE DEF S
    <3>3. QED
      BY <1>2, <2>6, <3>1, <3>2 DEF Purge, bounds
  <2>7. CASE DropBase(h)
    <3> DEFINE spots == {<<admin[h].base, p>> : p \in Pages}
               gone  == {x \in row : \E y \in admin[h].rows : y.no = x.no}
               stray == {x \in admin[h].rows : Stray(x)}
               met   == {s \in spots : ~Quiet(s) \/ RowsOf(admin[h].base, s[2]) \ gone # {}}
               S     == met \cup UNION {Harmed(x) : x \in stray}
    <3>1. S \in SUBSET Spots
      <4>1. met \in SUBSET Spots
        BY <2>1, <2>7 DEF DropBase, Spots
      <4>2. \A x \in stray : Harmed(x) \in SUBSET Spots
        BY <2>1 DEF Harmed, Holds, Row, Spots
      <4> HIDE DEF met, stray
      <4>3. QED
        BY <4>1, <4>2
    <3>2. Spoil(S) \/ UNCHANGED history
      BY <2>7 DEF DropBase
    <3> HIDE DEF S
    <3>3. QED
      BY <1>1, <1>2, <2>7, <3>1, <3>2 DEF DropBase, bounds
  <2>8. ASSUME NEW b \in Bases, DeleteBase(h, b) PROVE HistoryTypes'
    BY <1>0, <2>2, <2>8 DEF DeleteBase, HistoryTypes
  <2>9. CASE FindDuplicates(h) \/ \E b \in Bases, asDefault \in BOOLEAN : CreateBase(h, b, asDefault)
    BY <1>0, <2>2, <2>9 DEF FindDuplicates, CreateBase, HistoryTypes
  <2>10. QED
    BY <1>1, <1>4, <2>3, <2>4, <2>5, <2>6, <2>7, <2>8, <2>9
       DEF AdminStep, ScrubFind, Scrub, InsertBase
<1>5. QED
  BY <1>3, <1>4

\* The crawls do not touch the requests, nor the requests the crawls.
LEMMA Apart ==
    /\ \A c \in Crawls : CrawlStep(c) => UNCHANGED admin
    /\ \A h \in Handlers : AdminStep(h) => UNCHANGED crawl
<1>1. ASSUME NEW c \in Crawls, CrawlStep(c) PROVE UNCHANGED admin
  BY <1>1 DEF CrawlStep, StartScrape, Heal, StartJob, EndJob, Look, OffTopic, Unchanged, FindOld,
              EraseOld, EraseFails, Ingest, IngestFails, FindRow, Record, CutOff
<1>2. ASSUME NEW h \in Handlers, AdminStep(h) PROVE UNCHANGED crawl
  BY <1>2 DEF AdminStep, DeleteSource, ScrubFind, Scrub, ScrubFails, ScrubDies, FindDuplicates,
              Purge, CreateBase, InsertBase, DeleteBase, DropBase
<1>3. QED
  BY <1>1, <1>2

LEMMA TypesStep == ASSUME Types, [Next]_vars PROVE Types'
<1>1. CASE UNCHANGED vars
  BY <1>1 DEF vars, docs, kbs, history, bounds, Types, StoreTypes, CrawlTypes, CrawlSound,
              AdminTypes, AdminSound, BaseTypes, BasesOK, Alive, HistoryTypes
<1>2. ASSUME NEW c \in Crawls, CrawlStep(c) PROVE Types'
  <2>1. AdminTypes'
    BY <1>2, Apart DEF Types, AdminTypes, AdminSound
  <2>2. QED
    BY <1>2, <2>1, StoreStepTypes, CrawlStepTypes, BaseStepTypes, HistoryStepTypes DEF Types
<1>3. ASSUME NEW h \in Handlers, AdminStep(h) PROVE Types'
  <2>1. CrawlTypes'
    BY <1>3, Apart DEF Types, CrawlTypes, CrawlSound
  <2>2. QED
    BY <1>3, <2>1, StoreStepTypes, AdminStepTypes, BaseStepTypes, HistoryStepTypes DEF Types
<1>4. QED
  BY <1>1, <1>2, <1>3 DEF Next

LEMMA TypesInit == Init => Types
<1>1. SUFFICES ASSUME Init PROVE Types
  OBVIOUS
<1>2. /\ bases = Opening /\ default = {Opening[1]} /\ row = {} /\ clock = 0
      /\ \A c \in Crawls : crawl[c] = Idle
      /\ \A h \in Handlers : admin[h] = AtRest
  BY <1>1 DEF Init
<1>3. StoreTypes
  BY <1>1 DEF Init, StoreTypes
<1>4. CrawlTypes
  BY <1>1, <1>2, RestPlaces DEF Init, CrawlTypes, CrawlSound, Visiting
<1>5. AdminTypes
  BY <1>1, <1>2, RestPlaces DEF Init, AdminTypes, AdminSound
<1>6. BaseTypes
  <2>1. BasesOK /\ bases # <<>>
    BY <1>2, OpeningAssumption DEF BasesOK
  <2>2. bases[1] \in Alive
    BY <2>1, BasesAlive
  <2>3. QED
    BY <1>1, <1>2, <2>1, <2>2 DEF BaseTypes, Init
<1>7. HistoryTypes
  BY <1>1, BoundsAssumption DEF Init, HistoryTypes
<1>8. QED
  BY <1>3, <1>4, <1>5, <1>6, <1>7 DEF Types

\* The stores, the crawls and the requests are well typed, no base is listed twice, no two
\* rows have one number, and only living bases are default (knowledge.py, scraper.py).
THEOREM TypeCorrect == Spec => []TypeOK
<1>1. Spec => []Types
  BY TypesInit, TypesStep, PTL DEF Spec
<1>2. QED
  BY <1>1, TypesAreTypeOK, PTL

-----------------------------------------------------------------------------
\* What a visit knows: the text its look-up found, the text it is about to record, and the
\* number of the row it is about to update are of this base and page.
VisitSound(c) ==
    /\ crawl[c].pc \in Visiting /\ crawl[c].known # Nothing =>
         <<crawl[c].base, crawl[c].page, crawl[c].known>> \in ingested
    /\ crawl[c].pc \in {"recording", "committing"} =>
         <<crawl[c].base, crawl[c].page, crawl[c].text>> \in ingested
    /\ crawl[c].pc # "committing" => crawl[c].row = {}
    /\ \A x \in crawl[c].row :
         /\ x.no <= clock
         /\ \A y \in row : y.no = x.no => y.base = crawl[c].base /\ y.page = crawl[c].page

Ingested == Types /\ RowsWereIngested /\ \A c \in Crawls : VisitSound(c)

\* Acknowledgements and numbers are never taken back, and a row keeps its page.
Evolves ==
    /\ ingested \subseteq ingested' /\ clock <= clock'
    /\ \A y \in row' : \/ y.no = clock + 1
                       \/ \E z \in row : z.no = y.no /\ z.base = y.base /\ z.page = y.page

LEMMA StepEvolves ==
    ASSUME Types,
           \/ \E c \in Crawls : CrawlStep(c)
           \/ \E h \in Handlers : AdminStep(h)
    PROVE  Evolves
<1>0. clock \in Nat
  BY DEF Types, StoreTypes
<1>1. CASE row' \subseteq row /\ clock' \in {clock, clock + 1} /\ ingested \subseteq ingested'
  BY <1>0, <1>1 DEF Evolves
<1>2. ASSUME NEW c \in Crawls, Record(c) PROVE Evolves
  <2>1. ingested' = ingested
    BY <1>2 DEF Record
  <2>2. CASE Inserts(c)
    BY <1>0, <2>1, <2>2 DEF Inserts, Evolves
  <2>3. CASE Updates(c)
    BY <1>0, <2>1, <2>3 DEF Updates, Evolves
  <2>4. QED
    BY <1>2, <2>2, <2>3, RecordEffect
<1>3. ASSUME NEW c \in Crawls, CrawlStep(c) PROVE Evolves
  BY <1>1, <1>2, <1>3
     DEF CrawlStep, StartScrape, Heal, StartJob, EndJob, Look, OffTopic, Unchanged, FindOld,
         EraseOld, EraseFails, Ingest, IngestFails, FindRow, CutOff, docs
<1>4. ASSUME NEW h \in Handlers, AdminStep(h) PROVE Evolves
  BY <1>1, <1>4
     DEF AdminStep, DeleteSource, ScrubFind, Scrub, ScrubFails, ScrubDies, FindDuplicates, Purge,
         CreateBase, InsertBase, DeleteBase, DropBase, docs
<1>5. QED
  BY <1>3, <1>4

LEMMA VisitStays ==
    ASSUME Types, Evolves, clock' \in Nat, NEW c \in Crawls, VisitSound(c), crawl'[c] = crawl[c]
    PROVE  VisitSound(c)'
<1>1. \A x \in crawl[c].row : x.no \in Nat /\ clock \in Nat
  BY DEF Types, CrawlTypes, Crawl, Row, StoreTypes
<1>2. ASSUME NEW x \in crawl[c].row
      PROVE  /\ x.no <= clock'
             /\ \A y \in row' : y.no = x.no => y.base = crawl[c].base /\ y.page = crawl[c].page
  <2>1. x.no <= clock /\ x.no # clock + 1 /\ x.no <= clock'
    BY <1>1, <1>2 DEF VisitSound, Evolves
  <2>2. QED
    BY <1>2, <2>1 DEF VisitSound, Evolves
<1>3. QED
  BY <1>2 DEF VisitSound, Evolves

\* A crawl that is not at a visit knows nothing.
LEMMA NoVisit ==
    ASSUME NEW c \in Crawls, crawl'[c].pc \notin Visiting, crawl'[c].row = {}
    PROVE  VisitSound(c)'
BY DEF VisitSound, Visiting

LEMMA OthersStay ==
    ASSUME Types, NEW c \in Crawls, CrawlStep(c), NEW d \in Crawls, d # c
    PROVE  crawl'[d] = crawl[d]
BY DEF CrawlStep, StartScrape, Heal, StartJob, EndJob, Look, OffTopic, Unchanged, FindOld,
       EraseOld, EraseFails, Ingest, IngestFails, FindRow, Record, CutOff, Go, Visited, Types,
       CrawlTypes

LEMMA VisitStep ==
    ASSUME Ingested, NEW c \in Crawls, CrawlStep(c), Evolves
    PROVE  VisitSound(c)'
<1>0. /\ VisitSound(c) /\ Types /\ crawl[c] \in Crawl /\ crawl \in [Crawls -> Crawl]
      /\ row \in SUBSET Row
      /\ crawl[c].pc \in Visiting => crawl[c].text \in Texts
  BY DEF Ingested, Types, CrawlTypes, CrawlSound, StoreTypes
\* The visit goes on with what it knows.
<1>1. ASSUME crawl[c].pc \in Visiting \ {"committing"}, crawl'[c].pc # "committing",
             crawl'[c].base = crawl[c].base, crawl'[c].page = crawl[c].page,
             crawl'[c].text = crawl[c].text, crawl'[c].known = crawl[c].known,
             crawl'[c].row = crawl[c].row,
             crawl'[c].pc = "recording" =>
                 <<crawl[c].base, crawl[c].page, crawl[c].text>> \in ingested'
      PROVE  VisitSound(c)'
  <2>1. crawl[c].row = {} /\ ingested \subseteq ingested'
    BY <1>0, <1>1 DEF VisitSound, Evolves
  <2>2. QED
    BY <1>0, <1>1, <2>1 DEF VisitSound
<1>2. CASE StartScrape(c) \/ EndJob(c) \/ CutOff(c)
  <2>1. CASE EndJob(c) \/ CutOff(c)
    BY <1>0, <2>1, RestPlaces, NoVisit DEF EndJob, CutOff, Visiting
  <2>2. CASE StartScrape(c)
    <3>1. PICK b \in Bases, pc \in {"starting", "healing"} :
            crawl' = [crawl EXCEPT ![c] = [Idle EXCEPT !.pc = pc, !.base = b]]
      BY <1>0, <2>2, BasesAlive, LegacyAssumption DEF StartScrape, Types, BaseTypes, HistoryTypes
    <3>2. crawl'[c].pc = pc /\ crawl'[c].row = {}
      BY <1>0, <3>1 DEF Idle
    <3>3. QED
      BY <3>2, NoVisit DEF Visiting
  <2>3. QED
    BY <1>2, <2>1, <2>2
<1>3. CASE Visited(c)
  <2>1. crawl'[c].pc \notin Visiting /\ crawl'[c].row = {}
    BY <1>0, <1>3 DEF Visited, Idle, Visiting
  <2>2. QED
    BY <2>1, NoVisit
<1>4. CASE Heal(c) \/ StartJob(c)
  <2>1. crawl'[c].pc \notin Visiting /\ crawl'[c].row = {}
    BY <1>0, <1>4 DEF Heal, StartJob, Go, Idle, Visiting, Crawl, VisitSound
  <2>2. QED
    BY <2>1, NoVisit
<1>5. ASSUME NEW p \in Pages, NEW t \in Texts, Look(c, p, t) PROVE VisitSound(c)'
  <2> DEFINE found == RowsOf(crawl[c].base, p)
             known == IF found = {} THEN Nothing ELSE (CHOOSE x \in found : TRUE).text
  <2>1. /\ crawl'[c].pc = "looked" /\ crawl'[c].base = crawl[c].base /\ crawl'[c].page = p
        /\ crawl'[c].known = known /\ crawl'[c].row = crawl[c].row /\ ingested' = ingested
    BY <1>0, <1>5 DEF Look, Crawl, docs
  <2>2. crawl[c].row = {}
    BY <1>0, <1>5 DEF Look, VisitSound
  <2>3. found # {} => \E x \in found : known = x.text
    OBVIOUS
  <2>4. \A x \in found : <<crawl[c].base, p, x.text>> \in ingested
    BY DEF Ingested, RowsWereIngested, RowsOf
  <2>5. known # Nothing => <<crawl[c].base, p, known>> \in ingested
    BY <2>3, <2>4
  <2> HIDE DEF known
  <2>6. QED
    BY <2>1, <2>2, <2>5 DEF VisitSound
<1>6. CASE Unchanged(c)
  <2>0. crawl[c].pc = "looked" /\ crawl[c].known = crawl[c].text /\ "looked" \in Visiting
    BY <1>6 DEF Unchanged, Visiting
  <2>1. crawl[c].known # Nothing
    BY <1>0, <2>0, NothingAssumption
  <2>2. <<crawl[c].base, crawl[c].page, crawl[c].text>> \in ingested
    BY <1>0, <1>6, <2>1 DEF Unchanged, VisitSound, Visiting
  <2>3. QED
    BY <1>0, <1>1, <1>6, <2>2 DEF Unchanged, Go, Visiting, Crawl, docs
<1>7. CASE FindOld(c) \/ EraseOld(c) \/ EraseFails(c)
  BY <1>0, <1>1, <1>7 DEF FindOld, EraseOld, EraseFails, Visiting, Crawl
<1>8. CASE Ingest(c)
  BY <1>0, <1>1, <1>8 DEF Ingest, Go, Visiting, Crawl
<1>9. CASE FindRow(c)
  <2> DEFINE found == RowsOf(crawl[c].base, crawl[c].page)
  <2>1. CASE crawl' = [crawl EXCEPT ![c].pc = "committing", ![c].row = found]
    <3>1. /\ crawl'[c].pc = "committing" /\ crawl'[c].base = crawl[c].base
          /\ crawl'[c].page = crawl[c].page /\ crawl'[c].text = crawl[c].text
          /\ crawl'[c].known = crawl[c].known /\ crawl'[c].row = found
      BY <1>0, <2>1 DEF Crawl
    <3>2. ingested' = ingested /\ row' = row /\ clock' = clock
      BY <1>9 DEF FindRow, docs
    <3>3. \A x \in found : /\ x \in row /\ x.base = crawl[c].base /\ x.page = crawl[c].page
                           /\ x.no <= clock /\ \A y \in row : y.no = x.no => y = x
      BY <1>0 DEF RowsOf, Types, StoreTypes
    <3> HIDE DEF found
    <3>4. crawl[c].pc = "recording" /\ "recording" \in Visiting
      BY <1>9 DEF FindRow, Visiting
    <3>5. QED
      BY <1>0, <3>1, <3>2, <3>3, <3>4 DEF VisitSound
  <2>2. QED
    BY <1>3, <1>9, <2>1 DEF FindRow
<1>10. CASE OffTopic(c) \/ IngestFails(c) \/ Record(c)
  BY <1>3, <1>10 DEF OffTopic, IngestFails, Record
<1>11. QED
  BY <1>2, <1>4, <1>5, <1>6, <1>7, <1>8, <1>9, <1>10 DEF CrawlStep

LEMMA RowsStep ==
    ASSUME Ingested,
           \/ \E c \in Crawls : CrawlStep(c)
           \/ \E h \in Handlers : AdminStep(h)
    PROVE  RowsWereIngested'
<1>1. Evolves
  BY StepEvolves DEF Ingested
<1>2. CASE row' \subseteq row
  BY <1>1, <1>2 DEF Ingested, RowsWereIngested, Evolves
<1>3. ASSUME NEW c \in Crawls, Record(c) PROVE RowsWereIngested'
  <2>1. <<crawl[c].base, crawl[c].page, crawl[c].text>> \in ingested /\ ingested' = ingested
    BY <1>3 DEF Record, Ingested, VisitSound
  <2>2. CASE Inserts(c)
    <3> DEFINE new == [no |-> clock + 1, base |-> crawl[c].base, into |-> crawl[c].into,
                       page |-> crawl[c].page, text |-> crawl[c].text]
    <3>1. <<new.base, new.page, new.text>> \in ingested
      BY <2>1
    <3>2. row' = row \cup {new}
      BY <2>2 DEF Inserts
    <3> HIDE DEF new
    <3>3. QED
      BY <2>1, <3>1, <3>2 DEF Ingested, RowsWereIngested
  <2>3. CASE Updates(c)
    <3>1. SUFFICES ASSUME NEW x \in row' PROVE <<x.base, x.page, x.text>> \in ingested
      BY <2>1 DEF RowsWereIngested
    <3>2. PICK y \in row :
            /\ y.no = x.no /\ y.base = x.base /\ y.page = x.page
            /\ x = y \/ (x.text = crawl[c].text /\ \E z \in crawl[c].row : z.no = y.no)
      BY <2>3 DEF Updates
    <3>3. CASE x = y
      BY <3>3 DEF Ingested, RowsWereIngested
    <3>4. ASSUME x.text = crawl[c].text, NEW z \in crawl[c].row, z.no = y.no
          PROVE  <<x.base, x.page, x.text>> \in ingested
      <4>1. y.base = crawl[c].base /\ y.page = crawl[c].page
        BY <3>4 DEF Ingested, VisitSound
      <4>2. QED
        BY <2>1, <3>2, <3>4, <4>1
    <3>5. QED
      BY <3>2, <3>3, <3>4
  <2>4. QED
    BY <1>3, <2>2, <2>3, RecordEffect DEF Ingested
<1>4. ASSUME NEW c \in Crawls, CrawlStep(c) PROVE RowsWereIngested'
  BY <1>2, <1>3, <1>4
     DEF CrawlStep, StartScrape, Heal, StartJob, EndJob, Look, OffTopic, Unchanged, FindOld,
         EraseOld, EraseFails, Ingest, IngestFails, FindRow, CutOff, docs
<1>5. ASSUME NEW h \in Handlers, AdminStep(h) PROVE RowsWereIngested'
  BY <1>2, <1>5
     DEF AdminStep, DeleteSource, ScrubFind, Scrub, ScrubFails, ScrubDies, FindDuplicates, Purge,
         CreateBase, InsertBase, DeleteBase, DropBase, docs
<1>6. QED
  BY <1>4, <1>5

LEMMA IngestedStep == ASSUME Ingested, [Next]_vars PROVE Ingested'
<1>1. Types'
  BY TypesStep DEF Ingested
<1>2. CASE UNCHANGED vars
  BY <1>1, <1>2 DEF vars, docs, Ingested, RowsWereIngested, VisitSound
<1>3. clock' \in Nat
  BY <1>1 DEF Types, StoreTypes
<1>4. ASSUME NEW c \in Crawls, CrawlStep(c) PROVE Ingested'
  <2>1. Evolves
    BY <1>4, StepEvolves DEF Ingested
  <2>2. \A d \in Crawls : VisitSound(d)'
    BY <1>3, <1>4, <2>1, OthersStay, VisitStays, VisitStep DEF Ingested
  <2>3. QED
    BY <1>1, <1>4, <2>2, RowsStep DEF Ingested
<1>5. ASSUME NEW h \in Handlers, AdminStep(h) PROVE Ingested'
  <2>1. Evolves
    BY <1>5, StepEvolves DEF Ingested
  <2>2. crawl' = crawl
    BY <1>5, Apart
  <2>3. \A d \in Crawls : VisitSound(d)'
    BY <1>3, <2>1, <2>2, VisitStays DEF Ingested
  <2>4. QED
    BY <1>1, <1>5, <2>3, RowsStep DEF Ingested
<1>6. QED
  BY <1>2, <1>4, <1>5 DEF Next

\* No row claims a text that Chroma has not acknowledged for its page and base, through
\* failures, deletions and crawls that meet (scraper.py:688-760).
THEOREM ClaimsAreIngested == Spec => []RowsWereIngested
<1>1. Init => Ingested
  BY TypesInit, RestPlaces DEF Init, Ingested, RowsWereIngested, VisitSound, Visiting
<1>2. Ingested => RowsWereIngested
  BY DEF Ingested
<1>3. QED
  BY <1>1, <1>2, IngestedStep, PTL DEF Spec

-----------------------------------------------------------------------------
\* While changes of the set of bases do not overlap, what the one change has read still
\* holds: the base to insert is not there, the heir is, and the marks are as it saw them.
Current(h) ==
    /\ admin[h].pc = "creating" =>
         /\ admin[h].base \notin Alive
         /\ \/ admin[h].seen = default /\ admin[h].heir = admin[h].base
            \/ admin[h].seen = {} /\ admin[h].heir = Nothing
    /\ admin[h].pc = "dropping" =>
         \/ admin[h].base \in default /\ admin[h].heir \in Alive \ {admin[h].base}
         \/ admin[h].base \notin default /\ admin[h].heir = Nothing

OneChange ==
    /\ \E d \in Bases : default = {d}
    /\ \A c \in Crawls : crawl[c].pc # "healing"
    /\ \A h, g \in Changing : h = g
    /\ \A h \in Handlers : Current(h)

Untangled == ~tangled => OneChange

\* Steps that change no base and begin no change of one.
LEMMA BasesStay ==
    ASSUME OneChange, UNCHANGED <<bases, default>>,
           \A c \in Crawls : crawl'[c].pc # "healing",
           \A h \in Handlers : admin'[h] = admin[h] \/ admin'[h].pc \notin {"creating", "dropping"}
    PROVE  OneChange'
<1>1. Alive' = Alive
  BY DEF Alive
<1>2. Changing' \subseteq Changing
  BY DEF Changing
<1>3. \A h \in Handlers : Current(h)'
  BY <1>1 DEF OneChange, Current
<1>4. QED
  BY <1>2, <1>3 DEF OneChange

LEMMA HandlersApart ==
    ASSUME Types, NEW h \in Handlers, AdminStep(h), NEW g \in Handlers, g # h
    PROVE  admin'[g] = admin[g]
BY DEF AdminStep, DeleteSource, ScrubFind, Scrub, Scrubbed, ScrubFails, ScrubDies, FindDuplicates,
       Purge, CreateBase, InsertBase, DeleteBase, DropBase, AdminEnd, AdminGo, Types, AdminTypes

LEMMA CrawlKeepsChange ==
    ASSUME Types, Untangled, NEW c \in Crawls, CrawlStep(c)
    PROVE  Untangled'
<1>1. CASE Heal(c)
  BY <1>1 DEF Heal, Untangled
<1>2. CASE ~Heal(c)
  <2>1. SUFFICES ASSUME ~tangled' PROVE OneChange'
    BY DEF Untangled
  <2>2. UNCHANGED <<bases, default, admin>> /\ tangled' = tangled
    BY <1>2 DEF CrawlStep, StartScrape, StartJob, EndJob, Look, OffTopic, Unchanged, FindOld,
                EraseOld, EraseFails, Ingest, IngestFails, FindRow, Record, CutOff, kbs
  <2>3. OneChange
    BY <2>1, <2>2 DEF Untangled
  <2>4. default # {} /\ bases # <<>>
    BY <2>3, BasesAlive DEF OneChange, Types, BaseTypes
  <2>5. crawl[c] \in Crawl /\ crawl \in [Crawls -> Crawl] /\ crawl[c].pc # "healing"
    BY <2>3 DEF Types, CrawlTypes, OneChange
  <2>6. crawl'[c].pc # "healing"
    <3>1. CASE StartScrape(c)
      <4>1. PICK b \in Alive \cup raced :
              crawl' = [crawl EXCEPT ![c] = [Idle EXCEPT !.pc = "starting", !.base = b]]
        BY <2>4, <3>1 DEF StartScrape
      <4>2. QED
        BY <2>5, <4>1 DEF Idle
    <3>2. CASE EndJob(c) \/ CutOff(c)
      BY <2>5, <3>2, RestPlaces DEF EndJob, CutOff
    <3>3. CASE Visited(c)
      BY <2>5, <3>3 DEF Visited, Idle
    <3>4. CASE \E pc \in CrawlPlaces \ {"healing"} : Go(c, pc)
      BY <2>5, <3>4 DEF Go, Crawl
    <3>5. ASSUME NEW p \in Pages, NEW t \in Texts, Look(c, p, t) PROVE crawl'[c].pc # "healing"
      BY <2>5, <3>5 DEF Look, Crawl
    <3>6. CASE StartJob(c) \/ FindOld(c) \/ EraseOld(c) \/ EraseFails(c) \/ FindRow(c)
      BY <2>5, <3>3, <3>6 DEF StartJob, FindOld, EraseOld, EraseFails, FindRow, Crawl
    <3>7. QED
      BY <1>2, <3>1, <3>2, <3>3, <3>4, <3>5, <3>6
         DEF CrawlStep, Unchanged, Ingest, OffTopic, IngestFails, Record, CrawlPlaces
  <2>7. \A d \in Crawls : crawl'[d].pc # "healing"
    BY <2>3, <2>6, OthersStay DEF OneChange
  <2>8. QED
    BY <2>2, <2>3, <2>7, BasesStay
<1>3. QED
  BY <1>1, <1>2

LEMMA HeirLives ==
    ASSUME Types, NEW b \in Bases, Len(bases) > 1, b \in default
    PROVE  Heir(b) \in Alive \ {b}
<1>1. /\ bases[1] \in Alive /\ bases[2] \in Alive /\ bases[1] # bases[2]
  BY BasesAlive DEF Types, BaseTypes, BasesOK
<1>2. QED
  BY <1>1 DEF Heir

LEMMA AdminKeepsChange ==
    ASSUME Types, Untangled, NEW h \in Handlers, AdminStep(h)
    PROVE  Untangled'
<1>0. SUFFICES ASSUME ~tangled' PROVE OneChange'
  BY DEF Untangled
<1>1. /\ admin[h] \in Admin /\ admin \in [Handlers -> Admin]
      /\ crawl' = crawl
      /\ \A g \in Handlers \ {h} : admin'[g] = admin[g]
      /\ default \subseteq Alive /\ Alive \subseteq Bases /\ BasesOK
  BY Apart, HandlersApart, BasesAlive DEF Types, AdminTypes, BaseTypes
<1>2. CASE UNCHANGED kbs /\ admin'[h].pc \notin {"creating", "dropping"}
  <2>1. OneChange
    BY <1>0, <1>2 DEF kbs, Untangled
  <2>2. QED
    BY <1>1, <1>2, <2>1, BasesStay DEF kbs, OneChange
<1>3. ASSUME Tangle, UNCHANGED <<bases, default>>, Current(h)', admin'[h].pc \in {"creating", "dropping"}
      PROVE  OneChange'
  <2>1. OneChange /\ Changing = {}
    BY <1>0, <1>3 DEF Tangle, Untangled
  <2>2. \A g \in Handlers : g # h => admin'[g].pc \notin {"creating", "dropping"}
    BY <1>1, <2>1 DEF Changing
  <2>3. \A g, k \in Changing' : g = k
    BY <2>2 DEF Changing
  <2>4. \A g \in Handlers : Current(g)'
    BY <1>3, <2>2 DEF Current
  <2>5. QED
    BY <1>1, <1>3, <2>1, <2>3, <2>4 DEF OneChange
<1>4. ASSUME NEW b \in Bases, NEW asDefault \in BOOLEAN, CreateBase(h, b, asDefault)
      PROVE  OneChange'
  <2> DEFINE seen == IF asDefault THEN default ELSE {}
             heir == IF asDefault \/ bases = <<>> THEN b ELSE Nothing
  <2>1. Tangle /\ UNCHANGED <<bases, default>> /\ b \notin Alive
    BY <1>4 DEF CreateBase
  <2>2. bases # <<>>
    <3>1. OneChange
      BY <1>0, <2>1 DEF Tangle, Untangled
    <3>2. Alive # {}
      BY <1>1, <3>1 DEF OneChange
    <3>3. QED
      BY <3>2 DEF Alive
  <2>3. (seen = default /\ heir = b) \/ (seen = {} /\ heir = Nothing)
    BY <2>2
  <2>4. admin' = [admin EXCEPT ![h] = [AtRest EXCEPT !.pc = "creating", !.base = b,
                                         !.seen = seen, !.heir = heir]]
    BY <1>4 DEF CreateBase
  <2> HIDE DEF seen, heir
  <2>5. /\ admin'[h].pc = "creating" /\ admin'[h].base = b
        /\ admin'[h].seen = seen /\ admin'[h].heir = heir
    BY <1>1, <2>4 DEF AtRest
  <2>6. Current(h)'
    BY <2>1, <2>3, <2>5 DEF Current, Alive
  <2>7. QED
    BY <1>3, <2>1, <2>5, <2>6
<1>5. ASSUME NEW b \in Bases, DeleteBase(h, b) PROVE OneChange'
  <2> DEFINE heir == Heir(b)
  <2>1. Tangle /\ UNCHANGED <<bases, default>> /\ Len(bases) > 1
    BY <1>5 DEF DeleteBase, MayDrop
  <2>2. (b \in default /\ heir \in Alive \ {b}) \/ (b \notin default /\ heir = Nothing)
    <3>1. CASE b \in default
      BY <2>1, <3>1, HeirLives
    <3>2. CASE b \notin default
      BY <3>2 DEF Heir
    <3>3. QED
      BY <3>1, <3>2
  <2>3. admin' = [admin EXCEPT ![h] = [AtRest EXCEPT !.pc = "dropping", !.base = b,
                    !.seen = default \ {b}, !.heir = heir, !.rows = {x \in row : x.base = b}]]
    BY <1>5 DEF DeleteBase
  <2> HIDE DEF heir
  <2>4. admin'[h].pc = "dropping" /\ admin'[h].base = b /\ admin'[h].heir = heir
    BY <1>1, <2>3 DEF AtRest
  <2>5. Current(h)'
    BY <2>1, <2>2, <2>4 DEF Current, Alive
  <2>6. QED
    BY <1>3, <2>1, <2>4, <2>5
\* The change commits: no other is under way.
<1>6. ASSUME admin[h].pc \in {"creating", "dropping"}, tangled' = tangled,
             admin'[h].pc \notin {"creating", "dropping"}, \E d \in Bases : default' = {d}
      PROVE  OneChange'
  <2>1. OneChange
    BY <1>0, <1>6 DEF Untangled
  <2>2. \A g \in Handlers : admin'[g].pc \notin {"creating", "dropping"}
    BY <1>1, <1>6, <2>1 DEF OneChange, Changing
  <2>3. Changing' = {} /\ \A g \in Handlers : Current(g)'
    BY <2>2 DEF Changing, Current
  <2>4. QED
    BY <1>1, <1>6, <2>1, <2>3 DEF OneChange
<1>7. CASE InsertBase(h)
  <2>1. admin[h].pc = "creating" /\ tangled' = tangled /\ admin'[h].pc = "idle"
    BY <1>1, <1>7, RestPlaces DEF InsertBase, AdminEnd
  <2>2. OneChange /\ Current(h) /\ admin[h].base \in Bases
    BY <1>0, <2>1 DEF Untangled, OneChange, Types, AdminTypes, AdminSound
  <2>3. PICK d \in Bases : default = {d}
    BY <2>2 DEF OneChange
  <2>4. CASE default' = (default \ admin[h].seen) \cup ({admin[h].heir} \cap {admin[h].base})
    BY <1>6, <2>1, <2>2, <2>3, <2>4, NothingAssumption DEF Current
  <2>5. CASE default' = default
    BY <1>6, <2>1, <2>3, <2>5
  <2>6. QED
    BY <1>7, <2>4, <2>5 DEF InsertBase
<1>8. CASE DropBase(h)
  <2>0. admin'[h].pc \in {"idle", "scrub"}
    <3>1. CASE AdminEnd(h)
      BY <1>1, <3>1 DEF AdminEnd, AtRest
    <3>2. CASE admin' = [admin EXCEPT ![h] = [AtRest EXCEPT !.pc = "scrub",
                           !.spots = {Holds(x) : x \in admin[h].rows}]]
      BY <1>1, <3>2 DEF AtRest
    <3>3. QED
      BY <1>8, <3>1, <3>2 DEF DropBase
  <2>1. admin[h].pc = "dropping" /\ tangled' = tangled /\ admin'[h].pc \in {"idle", "scrub"}
    BY <1>8, <2>0 DEF DropBase
  <2>2. OneChange /\ Current(h) /\ admin[h].base \in Bases
    BY <1>0, <2>1 DEF Untangled, OneChange, Types, AdminTypes, AdminSound
  <2>3. PICK d \in Bases : default = {d}
    BY <2>2 DEF OneChange
  <2>4. CASE default' = (default \cup ({admin[h].heir} \cap Alive)) \ {admin[h].base}
    <3>1. CASE admin[h].base \in default /\ admin[h].heir \in Alive \ {admin[h].base}
      <4>1. default' = {admin[h].heir} /\ admin[h].heir \in Bases
        BY <1>1, <2>3, <2>4, <3>1
      <4>2. QED
        BY <1>6, <2>1, <4>1
    <3>2. CASE admin[h].base \notin default /\ admin[h].heir = Nothing
      <4>1. default' = {d}
        BY <1>1, <2>3, <2>4, <3>2, NothingAssumption
      <4>2. QED
        BY <1>6, <2>1, <4>1
    <3>3. QED
      BY <2>1, <2>2, <3>1, <3>2 DEF Current
  <2>5. CASE default' = default
    BY <1>6, <2>1, <2>3, <2>5
  <2>6. QED
    BY <1>8, <2>4, <2>5 DEF DropBase
<1>9. CASE ScrubFind(h) \/ Scrub(h) \/ ScrubFails(h) \/ ScrubDies(h) \/ Purge(h)
           \/ DeleteSource(h) \/ FindDuplicates(h)
  <2>1. UNCHANGED kbs
    BY <1>9 DEF ScrubFind, Scrub, ScrubFails, ScrubDies, Purge, DeleteSource, FindDuplicates
  <2>2. CASE ScrubFind(h)
    BY <1>1, <1>2, <2>1, <2>2 DEF ScrubFind, Admin
  <2>3. CASE AdminEnd(h)
    BY <1>1, <1>2, <2>1, <2>3 DEF AdminEnd, AtRest
  <2>4. CASE Scrub(h) \/ ScrubFails(h)
    BY <1>1, <1>2, <2>1, <2>3, <2>4 DEF Scrub, ScrubFails, Scrubbed, Admin
  <2>5. CASE DeleteSource(h)
    <3>1. PICK x \in row : admin' = [admin EXCEPT ![h] =
                              [AtRest EXCEPT !.pc = "scrub", !.spots = {Holds(x)}]]
      BY <2>5 DEF DeleteSource
    <3>2. QED
      BY <1>1, <1>2, <2>1, <3>1 DEF AtRest
  <2>6. CASE FindDuplicates(h)
    BY <1>1, <1>2, <2>1, <2>6 DEF FindDuplicates, AtRest
  <2>7. QED
    BY <1>9, <2>2, <2>3, <2>4, <2>5, <2>6 DEF ScrubDies, Purge
<1>10. QED
  BY <1>4, <1>5, <1>7, <1>8, <1>9 DEF AdminStep

\* As long as changes of the set of bases do not overlap there is exactly one default base
\* (knowledge.py:424-445, 487-518).
THEOREM OneDefault == Spec => []BasesSound
<1>1. Init => Types /\ Untangled
  <2>1. SUFFICES ASSUME Init PROVE OneChange /\ Types
    BY DEF Untangled
  <2>2. Opening[1] \in Bases /\ default = {Opening[1]}
    BY <2>1, OpeningAssumption DEF Init
  <2>3. \A h \in Handlers : admin[h].pc = "idle"
    BY <2>1, RestPlaces DEF Init
  <2>4. \A c \in Crawls : crawl[c].pc = "idle"
    BY <2>1, RestPlaces DEF Init
  <2>5. QED
    BY <2>1, <2>2, <2>3, <2>4, TypesInit DEF OneChange, Changing, Current
<1>2. Types /\ Untangled /\ [Next]_vars => (Types /\ Untangled)'
  <2>1. SUFFICES ASSUME Types, Untangled, [Next]_vars PROVE Untangled'
    BY TypesStep
  <2>2. CASE UNCHANGED vars
    BY <2>1, <2>2 DEF vars, kbs, Untangled, OneChange, Changing, Current, Alive
  <2>3. QED
    BY <2>1, <2>2, CrawlKeepsChange, AdminKeepsChange DEF Next
<1>3. Untangled => BasesSound
  BY FS_Singleton DEF Untangled, OneChange, BasesSound
<1>4. QED
  BY <1>1, <1>2, <1>3, PTL DEF Spec

-----------------------------------------------------------------------------
Dropping(h, b) == admin[h].pc = "dropping" /\ admin[h].base = b

\* Unless the start of a job met its deletion, nobody crawls into a base that is gone or is
\* being deleted, and the deletion has read every row there is of it.
Left(b) ==
    b \notin raced =>
        /\ b \notin Alive => Active(b) = {} /\ \A x \in row : x.base # b
        /\ \A h \in Handlers : Dropping(h, b) =>
             /\ Active(b) = {}
             /\ \A x \in row : x.base = b => \E y \in admin[h].rows : y.no = x.no

\* A step after which there is no more of the base than before.
LEMMA LeftStays ==
    ASSUME NEW b \in Bases, Left(b), raced \subseteq raced', Active(b)' \subseteq Active(b),
           b \in Alive => b \in Alive',
           \A x \in row' : x.base = b => \E z \in row : z.base = b /\ z.no = x.no,
           \A h \in Handlers : Dropping(h, b)' => admin'[h] = admin[h]
    PROVE  Left(b)'
<1>1. SUFFICES ASSUME b \notin raced' PROVE Left(b)'
  BY DEF Left
<1>2. b \notin raced
  BY <1>1
<1>3. ASSUME b \notin Alive' PROVE Active(b)' = {} /\ \A x \in row' : x.base # b
  BY <1>2, <1>3 DEF Left
<1>4. ASSUME NEW h \in Handlers, Dropping(h, b)'
      PROVE  /\ Active(b)' = {}
             /\ \A x \in row' : x.base = b => \E y \in admin'[h].rows : y.no = x.no
  <2>1. admin'[h] = admin[h] /\ Dropping(h, b)
    BY <1>4 DEF Dropping
  <2>2. /\ Active(b) = {}
        /\ \A x \in row : x.base = b => \E y \in admin[h].rows : y.no = x.no
    BY <1>2, <2>1 DEF Left
  <2>3. QED
    BY <2>1, <2>2
<1>5. QED
  BY <1>3, <1>4 DEF Left

\* A base that is there and that nobody deletes.
LEMMA LeftAlone ==
    ASSUME NEW b \in Bases, b \in Alive, \A h \in Handlers : ~Dropping(h, b),
           UNCHANGED <<bases, admin>>
    PROVE  Left(b)'
BY DEF Left, Dropping, Alive

LEMMA LeftByCrawls ==
    ASSUME Types, NEW c \in Crawls, CrawlStep(c), NEW b \in Bases, Left(b)
    PROVE  Left(b)'
<1>0. /\ crawl[c] \in Crawl /\ crawl \in [Crawls -> Crawl] /\ admin' = admin
      /\ \A d \in Crawls \ {c} : crawl'[d] = crawl[d]
  BY OthersStay, Apart DEF Types, CrawlTypes
<1>1. CASE StartJob(c)
  <2>1. /\ UNCHANGED <<bases, row>> /\ crawl'[c].base = crawl[c].base
        /\ raced \subseteq raced'
    BY <1>0, <1>1 DEF StartJob, Go, Crawl, docs, kbs
  <2>2. CASE crawl[c].base # b
    <3>1. Active(b)' \subseteq Active(b)
      BY <1>0, <2>1, <2>2 DEF Active
    <3>2. QED
      BY <1>0, <2>1, <3>1, LeftStays DEF Alive
  <2>3. CASE crawl[c].base = b /\ b \in Alive /\ \A h \in Handlers : ~Dropping(h, b)
    BY <1>0, <2>1, <2>3, LeftAlone
  <2>4. CASE b \in raced'
    BY <2>4 DEF Left
  <2>5. QED
    BY <1>1, <2>2, <2>3, <2>4 DEF StartJob, Dropping
<1>2. ASSUME ~StartJob(c) PROVE Active(b)' \subseteq Active(b)
  <2> DEFINE away == {"idle", "healing", "starting"}
  <2>1. crawl'[c].pc \in away \/ (crawl[c].pc \notin away /\ crawl'[c].base = crawl[c].base)
    <3>1. CASE StartScrape(c)
      <4>1. PICK k \in Bases, pc \in {"starting", "healing"} :
              crawl' = [crawl EXCEPT ![c] = [Idle EXCEPT !.pc = pc, !.base = k]]
        BY <3>1, BasesAlive, LegacyAssumption DEF StartScrape, Types, BaseTypes, HistoryTypes
      <4>2. QED
        BY <1>0, <4>1 DEF Idle
    <3>2. CASE EndJob(c) \/ CutOff(c)
      BY <1>0, <3>2, RestPlaces DEF EndJob, CutOff
    <3>3. CASE Heal(c)
      BY <1>0, <3>3, RestPlaces DEF Heal, Go, Crawl
    <3>4. CASE Visited(c) /\ crawl[c].pc \notin away
      BY <1>0, <3>4 DEF Visited, Idle
    <3>5. ASSUME NEW p \in Pages, NEW t \in Texts, Look(c, p, t)
          PROVE  crawl[c].pc \notin away /\ crawl'[c].base = crawl[c].base
      BY <1>0, <3>5 DEF Look, Crawl
    <3>6. CASE Unchanged(c) \/ Ingest(c)
      BY <1>0, <3>6 DEF Unchanged, Ingest, Go, Crawl
    <3>7. CASE FindOld(c) \/ EraseOld(c) \/ EraseFails(c) \/ FindRow(c)
      BY <1>0, <3>4, <3>7 DEF FindOld, EraseOld, EraseFails, FindRow, Crawl
    <3>8. CASE OffTopic(c) \/ IngestFails(c) \/ Record(c)
      BY <3>4, <3>8 DEF OffTopic, IngestFails, Record
    <3>9. QED
      BY <1>2, <3>1, <3>2, <3>3, <3>5, <3>6, <3>7, <3>8 DEF CrawlStep
  <2>2. QED
    BY <1>0, <2>1 DEF Active
<1>3. CASE Record(c)
  <2>1. UNCHANGED <<bases, raced>> /\ crawl[c].pc = "committing"
    BY <1>3 DEF Record, kbs
  <2>2. CASE Updates(c) \/ crawl[c].base # b
    <3>1. \A x \in row' : x.base = b => \E z \in row : z.base = b /\ z.no = x.no
      BY <1>3, <2>2, RecordEffect DEF Updates, Inserts
    <3>2. ~StartJob(c)
      BY <2>1 DEF StartJob
    <3>3. QED
      BY <1>0, <1>2, <2>1, <3>1, <3>2, LeftStays DEF Alive
  <2>3. CASE crawl[c].base = b
    <3>1. c \in Active(b)
      BY <2>1, <2>3 DEF Active
    <3>2. CASE b \in raced
      BY <2>1, <3>2 DEF Left
    <3>3. CASE b \notin raced
      <4>1. b \in Alive /\ \A h \in Handlers : ~Dropping(h, b)
        BY <3>1, <3>3 DEF Left
      <4>2. QED
        BY <1>0, <2>1, <4>1, LeftAlone
    <3>4. QED
      BY <3>2, <3>3
  <2>4. QED
    BY <2>2, <2>3
<1>4. CASE ~StartJob(c) /\ ~Record(c)
  <2>1. UNCHANGED <<row, raced>>
    BY <1>4 DEF CrawlStep, StartScrape, Heal, EndJob, Look, OffTopic, Unchanged, FindOld, EraseOld,
                EraseFails, Ingest, IngestFails, FindRow, CutOff, docs
  <2>2. Heal(c) \/ UNCHANGED bases
    BY <1>4 DEF CrawlStep, StartScrape, EndJob, Look, OffTopic, Unchanged, FindOld, EraseOld,
                EraseFails, Ingest, IngestFails, FindRow, CutOff, kbs
  <2>3. b \in Alive => b \in Alive'
    BY <2>2 DEF Heal, Alive
  <2>4. QED
    BY <1>0, <1>2, <1>4, <2>1, <2>3, LeftStays
<1>5. QED
  BY <1>1, <1>3, <1>4

LEMMA LeftByRequests ==
    ASSUME Types, NEW h \in Handlers, AdminStep(h), NEW b \in Bases, Left(b)
    PROVE  Left(b)'
<1>0. /\ admin[h] \in Admin /\ admin \in [Handlers -> Admin] /\ crawl' = crawl /\ BasesOK
      /\ \A g \in Handlers : g # h => admin'[g] = admin[g]
  BY HandlersApart, Apart DEF Types, AdminTypes, BaseTypes
<1>1. Active(b)' = Active(b)
  BY <1>0 DEF Active
<1>2. raced \subseteq raced' /\ row' \subseteq row
  BY DEF AdminStep, DeleteSource, ScrubFind, Scrub, ScrubFails, ScrubDies, FindDuplicates, Purge,
         CreateBase, InsertBase, DeleteBase, DropBase, docs
<1>3. CASE ~Dropping(h, b)' /\ (b \in Alive => b \in Alive')
  BY <1>0, <1>1, <1>2, <1>3, LeftStays
<1>4. CASE AdminEnd(h) /\ (b \in Alive => b \in Alive')
  BY <1>0, <1>3, <1>4 DEF AdminEnd, AtRest, Dropping
<1>5. CASE UNCHANGED bases /\ admin'[h].pc # "dropping"
  BY <1>3, <1>5 DEF Dropping, Alive
<1>6. ASSUME NEW k \in Bases, DeleteBase(h, k) PROVE Left(b)'
  <2> DEFINE seen == default \ {k}
             heir == Heir(k)
             rows == {x \in row : x.base = k}
  <2>1. admin' = [admin EXCEPT ![h] = [AtRest EXCEPT !.pc = "dropping", !.base = k,
                                         !.seen = seen, !.heir = heir, !.rows = rows]]
    BY <1>6 DEF DeleteBase
  <2>2. UNCHANGED <<row, bases>> /\ MayDrop(k)
    BY <1>6 DEF DeleteBase, docs
  <2> HIDE DEF seen, heir, rows
  <2>3. admin'[h].base = k /\ admin'[h].rows = rows
    BY <1>0, <2>1 DEF AtRest
  <2>4. CASE k # b
    BY <1>3, <2>2, <2>3, <2>4 DEF Dropping, Alive
  <2>5. CASE k = b
    <3>1. b \in Alive' /\ Active(b)' = {}
      BY <1>1, <2>2, <2>5 DEF MayDrop, Alive
    <3>2. ASSUME NEW g \in Handlers, Dropping(g, b)', b \notin raced
          PROVE  \A x \in row' : x.base = b => \E y \in admin'[g].rows : y.no = x.no
      <4>1. CASE g = h
        BY <2>2, <2>3, <2>5, <4>1 DEF rows
      <4>2. CASE g # h
        BY <1>0, <2>2, <3>2, <4>2 DEF Dropping, Left
      <4>3. QED
        BY <4>1, <4>2
    <3>3. QED
      BY <1>2, <3>1, <3>2 DEF Left
  <2>6. QED
    BY <2>4, <2>5
<1>7. CASE InsertBase(h)
  <2>1. CASE bases' = Append(bases, admin[h].base) /\ Insertable(h)
    <3>1. admin[h].base \in Bases
      BY <1>7 DEF InsertBase, Types, AdminTypes, AdminSound
    <3>2. Alive' = Alive \cup {admin[h].base}
      BY <1>0, <2>1, <3>1, AppendBase DEF Insertable
    <3>3. QED
      BY <1>4, <1>7, <3>2 DEF InsertBase
  <2>2. CASE UNCHANGED bases
    BY <1>4, <1>7, <2>2 DEF InsertBase, Alive
  <2>3. QED
    BY <1>7, <2>1, <2>2 DEF InsertBase
<1>8. CASE DropBase(h)
  <2> DEFINE d == admin[h].base
             gone == {x \in row : \E y \in admin[h].rows : y.no = x.no}
  <2>1. d \in Bases /\ Dropping(h, d)
    BY <1>8 DEF DropBase, Types, AdminTypes, AdminSound, Dropping
  <2>2. CASE AdminEnd(h) /\ UNCHANGED bases
    BY <1>4, <2>2 DEF Alive
  <2>3. CASE bases' = Without(d) /\ row' = row \ gone
    <3>1. Alive' = Alive \ {d}
      BY <1>0, <2>1, <2>3, WithoutBase
    <3>2. admin'[h].pc \in {"idle", "scrub"}
      <4>1. CASE AdminEnd(h)
        BY <1>0, <4>1 DEF AdminEnd, AtRest
      <4>2. CASE admin' = [admin EXCEPT ![h] = [AtRest EXCEPT !.pc = "scrub",
                             !.spots = {Holds(x) : x \in admin[h].rows}]]
        BY <1>0, <4>2 DEF AtRest
      <4>3. QED
        BY <1>8, <4>1, <4>2 DEF DropBase
    <3>3. CASE d # b
      BY <1>3, <3>1, <3>2, <3>3 DEF Dropping
    <3>4. CASE d = b
      <4>1. ASSUME b \notin raced
            PROVE  /\ Active(b)' = {}
                   /\ \A x \in row' : x.base # b
        <5>1. Dropping(h, b)
          BY <2>1, <3>4
        <5>2. /\ Active(b) = {}
              /\ \A x \in row : x.base = b => \E y \in admin[h].rows : y.no = x.no
          BY <4>1, <5>1 DEF Left
        <5>3. QED
          BY <1>1, <2>3, <5>2
      <4>2. QED
        BY <1>2, <4>1 DEF Left
    <3>5. QED
      BY <3>3, <3>4
  <2>4. QED
    BY <1>8, <2>2, <2>3 DEF DropBase
<1>9. ASSUME NEW k \in Bases, NEW asDefault \in BOOLEAN, CreateBase(h, k, asDefault)
      PROVE  Left(b)'
  <2> DEFINE seen == IF asDefault THEN default ELSE {}
             heir == IF asDefault \/ bases = <<>> THEN k ELSE Nothing
  <2>1. admin' = [admin EXCEPT ![h] = [AtRest EXCEPT !.pc = "creating", !.base = k,
                                         !.seen = seen, !.heir = heir]]
    BY <1>9 DEF CreateBase
  <2> HIDE DEF seen, heir
  <2>2. admin'[h].pc = "creating" /\ UNCHANGED bases
    BY <1>0, <1>9, <2>1 DEF AtRest, CreateBase
  <2>3. QED
    BY <1>5, <2>2
<1>10. CASE ScrubFind(h) \/ Scrub(h) \/ ScrubFails(h) \/ ScrubDies(h) \/ Purge(h)
            \/ DeleteSource(h) \/ FindDuplicates(h)
  <2>1. UNCHANGED bases
    BY <1>10 DEF ScrubFind, Scrub, ScrubFails, ScrubDies, Purge, DeleteSource, FindDuplicates, kbs
  <2>2. CASE AdminEnd(h)
    BY <1>4, <2>1, <2>2 DEF Alive
  <2>3. CASE ScrubFind(h)
    BY <1>0, <1>5, <2>1, <2>3 DEF ScrubFind, Admin
  <2>4. CASE Scrub(h) \/ ScrubFails(h)
    BY <1>0, <1>5, <2>1, <2>2, <2>4 DEF Scrub, ScrubFails, Scrubbed, Admin
  <2>5. CASE DeleteSource(h)
    <3>1. PICK x \in row : admin' = [admin EXCEPT ![h] =
                              [AtRest EXCEPT !.pc = "scrub", !.spots = {Holds(x)}]]
      BY <2>5 DEF DeleteSource
    <3>2. QED
      BY <1>0, <1>5, <2>1, <3>1 DEF AtRest
  <2>6. CASE FindDuplicates(h)
    BY <1>0, <1>5, <2>1, <2>6 DEF FindDuplicates, AtRest
  <2>7. QED
    BY <1>10, <2>2, <2>3, <2>4, <2>5, <2>6 DEF ScrubDies, Purge
<1>11. QED
  BY <1>6, <1>7, <1>8, <1>9, <1>10 DEF AdminStep

\* A base that is deleted is left by everyone: no job crawls into it and no row of it is left
\* or comes back, unless the start of a job met the deletion (knowledge.py:470-530).
THEOREM DeletedStaysGone == Spec => []DeletedIsGone
<1> DEFINE AllLeft == \A b \in Bases : Left(b)
<1>1. Init => Types /\ AllLeft
  <2>1. SUFFICES ASSUME Init PROVE AllLeft
    BY TypesInit
  <2>2. /\ row = {}
        /\ \A c \in Crawls : crawl[c].pc = "idle"
        /\ \A h \in Handlers : admin[h].pc = "idle"
    BY <2>1, RestPlaces DEF Init
  <2>3. QED
    BY <2>2 DEF Left, Active, Dropping
<1>2. Types /\ AllLeft /\ [Next]_vars => (Types /\ AllLeft)'
  <2>1. SUFFICES ASSUME Types, AllLeft, [Next]_vars, NEW b \in Bases PROVE Left(b)'
    BY TypesStep
  <2>2. CASE UNCHANGED vars
    BY <2>1, <2>2 DEF vars, docs, kbs, Left, Dropping, Active, Alive
  <2>3. QED
    BY <2>1, <2>2, LeftByCrawls, LeftByRequests DEF Next
<1>3. AllLeft => DeletedIsGone
  BY DEF Left, DeletedIsGone
<1>4. QED
  BY <1>1, <1>2, <1>3, PTL DEF Spec

-----------------------------------------------------------------------------
VisitAt(c, b, p) == /\ crawl[c].pc \in Visiting /\ crawl[c].page = p
                    /\ b \in {crawl[c].base, crawl[c].into}
EraseAt(h, b, p) == /\ admin[h].pc \in {"scrub", "scrubbing"}
                    /\ <<b, p>> \in admin[h].spots \cup {admin[h].spot}
Nobody(b, p)     == /\ \A c \in Crawls : ~VisitAt(c, b, p)
                    /\ \A h \in Handlers : ~EraseAt(h, b, p)

Agree(b, p) ==
    \/ RowsOf(b, p) = {} /\ chunks[b][p] = {}
    \/ \E x \in RowsOf(b, p), k \in chunks[b][p] :
         RowsOf(b, p) = {x} /\ chunks[b][p] = {k} /\ k.text = x.text

\* An undisturbed visit: it writes row and chunks for one base, the row is as it found it,
\* and once it has begun to write the chunks they are its own; until then they are as they were.
VisitInStep(c, b, p) ==
    /\ crawl[c].base = b /\ crawl[c].into = b
    /\ \/ RowsOf(b, p) = {} /\ crawl[c].known = Nothing
       \/ \E x \in RowsOf(b, p) : RowsOf(b, p) = {x} /\ crawl[c].known = x.text
    /\ crawl[c].pc = "looked" => <<b, p>> \in spoiled \/ Agree(b, p)
    /\ crawl[c].pc = "erasing" => crawl[c].old = chunks[b][p] /\ crawl[c].known # crawl[c].text
    /\ crawl[c].pc = "embedding" => chunks[b][p] = {} /\ crawl[c].known # crawl[c].text
    /\ crawl[c].pc \in {"recording", "committing"} =>
         \/ crawl[c].known = crawl[c].text /\ (<<b, p>> \in spoiled \/ Agree(b, p))
         \/ /\ crawl[c].known # crawl[c].text
            /\ \E k \in chunks[b][p] : chunks[b][p] = {k} /\ k.text = crawl[c].text
    /\ crawl[c].pc = "committing" => crawl[c].row = RowsOf(b, p)

\* A deletion that has yet to erase the page: it has no row, and the ids are those there are.
EraserInStep(h, b, p) ==
    /\ RowsOf(b, p) = {}
    /\ admin[h].pc = "scrubbing" /\ admin[h].spot = <<b, p>> => admin[h].old = chunks[b][p]

OnlyVisit(c, b, p) == /\ \A d \in Crawls : VisitAt(d, b, p) => d = c
                      /\ \A h \in Handlers : ~EraseAt(h, b, p)
OnlyEraser(h, b, p) == \A g \in Handlers : EraseAt(g, b, p) => g = h

\* A visit that nothing has disturbed is the only one at work on its page, and mends it even
\* where it was spoiled; on a page that is not spoiled nobody else is at work at all.
InStep(b, p) ==
    /\ \A c \in Crawls : VisitAt(c, b, p) /\ c \in alone =>
         VisitInStep(c, b, p) /\ OnlyVisit(c, b, p)
    /\ <<b, p>> \notin spoiled =>
         /\ \A c \in Crawls : VisitAt(c, b, p) => c \in alone
         /\ \A h \in Handlers : EraseAt(h, b, p) => EraserInStep(h, b, p) /\ OnlyEraser(h, b, p)
         /\ Nobody(b, p) => Agree(b, p)

\* The rows that the deletion of a base has read stay of that base and of their pages.
RowsRead(h) ==
    /\ admin[h].pc = "scrub" => admin[h].spot = Nothing
    /\ admin[h].pc = "dropping" => \A y \in admin[h].rows :
         /\ y.base = admin[h].base /\ y.no <= clock
         /\ \A x \in row : x.no = y.no => x.base = y.base /\ x.page = y.page

LEMMA NobodyIsQuiet == ASSUME NEW b \in Bases, NEW p \in Pages PROVE Nobody(b, p) <=> Quiet(<<b, p>>)
<1>1. \A c \in Crawls : c \in VisitsOn(<<b, p>>) <=> VisitAt(c, b, p)
  BY DEF VisitsOn, VisitAt, Spot, Place
<1>2. \A h \in Handlers : h \in ErasersOn(<<b, p>>) <=> EraseAt(h, b, p)
  BY DEF ErasersOn, EraseAt
<1>3. VisitsOn(<<b, p>>) \subseteq Crawls /\ ErasersOn(<<b, p>>) \subseteq Handlers
  BY DEF VisitsOn, ErasersOn
<1>4. QED
  BY <1>1, <1>2, <1>3 DEF Nobody, Quiet

\* The step is about other pages.
LEMMA SpotStays ==
    ASSUME NEW b \in Bases, NEW p \in Pages, InStep(b, p),
           RowsOf(b, p)' = RowsOf(b, p), chunks'[b][p] = chunks[b][p],
           <<b, p>> \in spoiled' <=> <<b, p>> \in spoiled,
           \A c \in Crawls : /\ VisitAt(c, b, p)' <=> VisitAt(c, b, p)
                             /\ VisitAt(c, b, p) => crawl'[c] = crawl[c] /\ (c \in alone' <=> c \in alone),
           \A h \in Handlers : /\ EraseAt(h, b, p)' <=> EraseAt(h, b, p)
                               /\ EraseAt(h, b, p) => admin'[h] = admin[h]
    PROVE  InStep(b, p)'
<1>1. Agree(b, p)' <=> Agree(b, p)
  BY DEF Agree
<1>2. Nobody(b, p)' <=> Nobody(b, p)
  BY DEF Nobody
<1>3. ASSUME NEW c \in Crawls, VisitAt(c, b, p)', c \in alone'
      PROVE  VisitInStep(c, b, p)' /\ OnlyVisit(c, b, p)'
  <2>1. VisitInStep(c, b, p) /\ OnlyVisit(c, b, p) /\ crawl'[c] = crawl[c]
    BY <1>3 DEF InStep
  <2>2. VisitInStep(c, b, p)'
    BY <1>1, <2>1 DEF VisitInStep
  <2>3. QED
    BY <2>1, <2>2 DEF OnlyVisit
<1>4. ASSUME <<b, p>> \notin spoiled', NEW h \in Handlers, EraseAt(h, b, p)'
      PROVE  EraserInStep(h, b, p)' /\ OnlyEraser(h, b, p)'
  <2>1. EraserInStep(h, b, p) /\ OnlyEraser(h, b, p) /\ admin'[h] = admin[h]
    BY <1>4 DEF InStep
  <2>2. QED
    BY <2>1 DEF EraserInStep, OnlyEraser
<1>5. QED
  BY <1>1, <1>2, <1>3, <1>4 DEF InStep

\* The page is spoiled, and no visit to it counts as undisturbed.
LEMMA Spoilt ==
    ASSUME NEW b \in Bases, NEW p \in Pages, <<b, p>> \in spoiled',
           \A c \in Crawls : VisitAt(c, b, p)' => c \notin alone'
    PROVE  InStep(b, p)'
BY DEF InStep

LEMMA SpoilSpoils ==
    ASSUME NEW b \in Bases, NEW p \in Pages, NEW S, <<b, p>> \in S, Spoil(S),
           \A c \in Crawls : VisitAt(c, b, p)' => VisitAt(c, b, p)
    PROVE  InStep(b, p)'
<1>1. \A c \in Crawls : VisitAt(c, b, p) => c \in VisitsOn(<<b, p>>)
  BY DEF VisitsOn, VisitAt, Spot, Place
<1>2. QED
  BY <1>1, Spoilt DEF Spoil

LEMMA SpoilElsewhere ==
    ASSUME NEW b \in Bases, NEW p \in Pages, InStep(b, p), NEW S \in SUBSET Spots, <<b, p>> \notin S,
           Spoil(S)
    PROVE  /\ <<b, p>> \in spoiled' <=> <<b, p>> \in spoiled
           /\ \A c \in Crawls : VisitAt(c, b, p) => (c \in alone' <=> c \in alone)
<1>1. ASSUME NEW c \in Crawls, VisitAt(c, b, p), c \in alone, NEW s \in S PROVE c \notin VisitsOn(s)
  BY <1>1 DEF InStep, VisitInStep, VisitsOn, VisitAt, Spot, Place
<1>2. QED
  BY <1>1 DEF Spoil

\* The one visit to the page takes a step, or leaves.
LEMMA LoneVisitMoves ==
    ASSUME NEW b \in Bases, NEW p \in Pages, InStep(b, p), NEW c \in Crawls,
           c \in alone', OnlyVisit(c, b, p), UNCHANGED admin,
           \A d \in Crawls : d # c => crawl'[d] = crawl[d],
           \/ VisitAt(c, b, p)' /\ VisitInStep(c, b, p)'
           \/ ~VisitAt(c, b, p)' /\ (<<b, p>> \in spoiled' \/ Agree(b, p)')
    PROVE  InStep(b, p)'
<1>1. OnlyVisit(c, b, p)'
  BY DEF OnlyVisit, VisitAt, EraseAt
<1>2. QED
  BY <1>1 DEF InStep, OnlyVisit, Nobody

\* The one deletion that erases the page takes a step, or is done with it.
LEMMA EraserMoves ==
    ASSUME NEW b \in Bases, NEW p \in Pages, InStep(b, p), NEW h \in Handlers,
           EraseAt(h, b, p), UNCHANGED crawl,
           <<b, p>> \in spoiled' <=> <<b, p>> \in spoiled,
           \A c \in Crawls : VisitAt(c, b, p) => (c \in alone' <=> c \in alone),
           \A g \in Handlers : g # h => admin'[g] = admin[g],
           <<b, p>> \notin spoiled =>
             \/ EraseAt(h, b, p)' /\ EraserInStep(h, b, p)'
             \/ ~EraseAt(h, b, p)' /\ Agree(b, p)'
    PROVE  InStep(b, p)'
<1>1. \A c \in Crawls : VisitAt(c, b, p)' <=> VisitAt(c, b, p)
  BY DEF VisitAt
<1>2. \A c \in Crawls : VisitAt(c, b, p) => c \notin alone /\ c \notin alone'
  BY DEF InStep, OnlyVisit
<1>3. CASE <<b, p>> \in spoiled
  BY <1>1, <1>2, <1>3, Spoilt
<1>4. CASE <<b, p>> \notin spoiled
  <2>1. OnlyEraser(h, b, p) /\ \A c \in Crawls : ~VisitAt(c, b, p)
    BY <1>2, <1>4 DEF InStep
  <2>2. OnlyEraser(h, b, p)'
    BY <2>1 DEF OnlyEraser, EraseAt
  <2>3. \A g \in Handlers : EraseAt(g, b, p)' => g = h
    BY <2>2 DEF OnlyEraser
  <2>4. QED
    BY <1>1, <1>4, <2>1, <2>2, <2>3 DEF InStep, Nobody
<1>5. QED
  BY <1>3, <1>4

\* What the recording of another page does to the rows of this one: nothing.
LEMMA RecordElsewhere ==
    ASSUME Ingested, NEW c \in Crawls, Record(c), NEW b \in Bases, NEW p \in Pages,
           ~VisitAt(c, b, p)
    PROVE  RowsOf(b, p)' = RowsOf(b, p)
<1> DEFINE t    == crawl[c].text
           same == {y \in row : \E x \in crawl[c].row : x.no = y.no}
           New(y) == [y EXCEPT !.text = t]
<1>1. crawl[c].base # b \/ crawl[c].page # p
  BY DEF Record, VisitAt, Visiting
<1>2. CASE crawl[c].row = {}
  <2> DEFINE new == [no |-> clock + 1, base |-> crawl[c].base, into |-> crawl[c].into,
                     page |-> crawl[c].page, text |-> t]
  <2>1. row' = row \cup {new} /\ new.base = crawl[c].base /\ new.page = crawl[c].page
    BY <1>2 DEF Record
  <2> HIDE DEF new
  <2>2. QED
    BY <1>1, <2>1 DEF RowsOf
<1>3. CASE crawl[c].row # {}
  <2>1. row' = (row \ same) \cup {New(y) : y \in same}
    BY <1>3 DEF Record
  <2>2. row \in SUBSET Row
    BY DEF Ingested, Types, StoreTypes
  <2>3. \A y \in same : y.base = crawl[c].base /\ y.page = crawl[c].page
    BY DEF Ingested, VisitSound
  <2>4. \A y \in same : New(y).base = y.base /\ New(y).page = y.page
    BY <2>2 DEF Row
  <2> HIDE DEF same, New
  <2>5. QED
    BY <1>1, <2>1, <2>3, <2>4 DEF RowsOf
<1>4. QED
  BY <1>2, <1>3

\* A step of a crawl that is at other pages, before and after.
LEMMA CrawlElsewhere ==
    ASSUME Ingested, NEW c \in Crawls, CrawlStep(c), NEW b \in Bases, NEW p \in Pages,
           InStep(b, p), ~VisitAt(c, b, p), ~VisitAt(c, b, p)'
    PROVE  InStep(b, p)'
<1> DEFINE s == <<b, p>>
<1>0. /\ crawl[c] \in Crawl /\ crawl \in [Crawls -> Crawl] /\ admin' = admin /\ Types
      /\ chunks \in [Bases -> [Pages -> SUBSET Chunk]]
      /\ \A d \in Crawls : d # c => crawl'[d] = crawl[d]
      /\ crawl[c].pc \in Visiting =>
           /\ crawl[c].into \in Bases /\ crawl[c].page \in Pages /\ Place(c) # s /\ Spot(c) # s
           /\ {Spot(c), Place(c)} \in SUBSET Spots
  BY OthersStay, Apart DEF Ingested, Types, StoreTypes, CrawlTypes, CrawlSound, VisitAt, Spot, Place,
                           Spots, Visiting
<1>1. SUFFICES /\ RowsOf(b, p)' = RowsOf(b, p) /\ chunks'[b][p] = chunks[b][p]
               /\ <<b, p>> \in spoiled' <=> <<b, p>> \in spoiled
               /\ \A d \in Crawls : VisitAt(d, b, p) => (d \in alone' <=> d \in alone)
  <2>1. \A d \in Crawls : /\ VisitAt(d, b, p)' <=> VisitAt(d, b, p)
                          /\ VisitAt(d, b, p) => crawl'[d] = crawl[d]
    BY <1>0 DEF VisitAt
  <2>2. \A h \in Handlers : /\ EraseAt(h, b, p)' <=> EraseAt(h, b, p)
                            /\ EraseAt(h, b, p) => admin'[h] = admin[h]
    BY <1>0 DEF EraseAt
  <2>3. QED
    BY <1>1, <2>1, <2>2, SpotStays
<1>2. CASE UNCHANGED <<docs, history>>
  BY <1>2 DEF docs, history, RowsOf
<1>3. ASSUME NEW q \in Pages, NEW t \in Texts, Look(c, q, t) PROVE <1>1!1
  <2> DEFINE here == {<<crawl[c].base, q>>, <<crawl[c].into, q>>}
  <2>1. /\ crawl'[c].pc \in Visiting /\ crawl'[c].page = q
        /\ crawl'[c].base = crawl[c].base /\ crawl'[c].into = crawl[c].into
    BY <1>0, <1>3 DEF Look, Crawl, Visiting
  <2>2. s \notin here
    BY <2>1 DEF VisitAt
  <2>3. \A d \in Crawls : VisitAt(d, b, p) /\ d \in alone =>
                            d # c /\ \A r \in here : d \notin VisitsOn(r)
    BY <2>2 DEF InStep, VisitInStep, VisitsOn, VisitAt, Spot, Place
  <2>4. /\ <<b, p>> \in spoiled' <=> <<b, p>> \in spoiled
        /\ \A d \in Crawls : VisitAt(d, b, p) => (d \in alone' <=> d \in alone)
    BY <1>3, <2>2, <2>3 DEF Look
  <2>5. UNCHANGED docs
    BY <1>3 DEF Look
  <2>6. QED
    BY <2>4, <2>5 DEF docs, RowsOf
<1>4. CASE EraseFails(c) \/ IngestFails(c) \/ CutOff(c)
  <2>1. crawl[c].pc \in Visiting /\ Spoil({Spot(c), Place(c)}) /\ row' = row
    BY <1>4 DEF EraseFails, IngestFails, CutOff, Visiting, docs
  <2>2. {Spot(c), Place(c)} \in SUBSET Spots /\ s \notin {Spot(c), Place(c)}
    BY <1>0, <2>1
  <2>3. chunks'[b][p] = chunks[b][p]
    <3>1. CASE chunks' = Added(c)
      BY <1>0, <2>1, <3>1 DEF Added, Place
    <3>2. CASE chunks' = chunks
      BY <3>2
    <3>3. QED
      BY <1>4, <3>1, <3>2 DEF EraseFails, IngestFails, CutOff, docs
  <2>4. QED
    BY <2>1, <2>2, <2>3, SpoilElsewhere DEF RowsOf
<1>5. CASE EraseOld(c) \/ Ingest(c)
  <2>1. crawl[c].pc \in Visiting /\ row' = row /\ UNCHANGED history
    BY <1>5 DEF EraseOld, Ingest, Visiting
  <2>2. chunks'[b][p] = chunks[b][p]
    BY <1>0, <1>5, <2>1 DEF EraseOld, Ingest, Added, Place
  <2>3. QED
    BY <2>1, <2>2 DEF history, RowsOf
<1>6. CASE Record(c)
  <2>1. crawl[c].pc \in Visiting /\ chunks' = chunks /\ alone' = alone
    BY <1>6 DEF Record, Visiting
  <2>2. s \in spoiled' <=> s \in spoiled
    BY <1>0, <1>6, <2>1 DEF Record
  <2>3. QED
    BY <1>6, <2>1, <2>2, RecordElsewhere
<1>7. QED
  BY <1>2, <1>3, <1>4, <1>5, <1>6
     DEF CrawlStep, StartScrape, Heal, StartJob, EndJob, OffTopic, Unchanged, FindOld, FindRow

\* Fewer than two rows: all are one.
LEMMA FewRows ==
    ASSUME Types, NEW b, NEW p, Cardinality(RowsOf(b, p)) < 2
    PROVE  \A x, y \in RowsOf(b, p) : x = y
<1> DEFINE R == RowsOf(b, p)
           f == [x \in R |-> x.no]
<1>1. /\ \A x \in R : x.no \in 0..clock
      /\ \A x, y \in R : x.no = y.no => x = y
  BY DEF Types, StoreTypes, Row, RowsOf
<1> HIDE DEF R
<1>2. f \in Injection(R, 0..clock)
  BY <1>1 DEF Injection, IsInjective
<1>3. IsFiniteSet(0..clock)
  BY FS_Interval DEF Types, StoreTypes
<1> HIDE DEF f
<1>4. IsFiniteSet(R)
  BY <1>2, <1>3, FS_Injection
<1>5. SUFFICES ASSUME NEW x \in R, NEW y \in R, x # y PROVE FALSE
  BY DEF R
<1>6. Cardinality({x, y}) <= Cardinality(R)
  BY <1>4, FS_Subset
<1>7. IsFiniteSet({x}) /\ Cardinality({x}) = 1 /\ {x} \cup {y} = {x, y} /\ y \notin {x}
  BY <1>5, FS_Singleton
<1>8. Cardinality({x, y}) = 2
  BY <1>7, FS_AddElement
<1>9. Cardinality(R) < 2 /\ Cardinality(R) \in Nat
  BY <1>4, FS_CardinalityType DEF R
<1>10. QED
  BY <1>6, <1>8, <1>9

\* A page is fetched: where nobody is at work the visit begins undisturbed.
LEMMA LookHere ==
    ASSUME Ingested, NEW b \in Bases, NEW p \in Pages, InStep(b, p), NEW c \in Crawls,
           NEW t \in Texts, Look(c, p, t), b \in {crawl[c].base, crawl[c].into}
    PROVE  InStep(b, p)'
<1> DEFINE s     == <<b, p>>
           found == RowsOf(b, p)
           here  == {<<crawl[c].base, p>>, <<crawl[c].into, p>>}
           read  == RowsOf(crawl[c].base, p)
           known == IF read = {} THEN Nothing ELSE (CHOOSE x \in read : TRUE).text
<1>1. /\ crawl'[c].pc = "looked" /\ crawl'[c].page = p
      /\ crawl'[c].base = crawl[c].base /\ crawl'[c].into = crawl[c].into
      /\ crawl'[c].known = known /\ UNCHANGED <<row, chunks, admin>>
      /\ \A d \in Crawls : d # c => crawl'[d] = crawl[d]
  BY DEF Look, Ingested, Types, CrawlTypes, Crawl, docs
<1>2. RowsOf(b, p)' = found /\ (Agree(b, p)' <=> Agree(b, p))
  BY <1>1 DEF RowsOf, Agree
<1>3. CASE crawl[c].base = b /\ crawl[c].into = b /\ Quiet(s)
  <2>1. c \in alone' /\ spoiled' = spoiled /\ Nobody(b, p)
    BY <1>3, NobodyIsQuiet DEF Look
  <2>2. found = {} \/ \E x \in found : found = {x}
    <3>1. Cardinality(found) < 2
      BY <1>3 DEF Look
    <3>2. \A x, y \in found : x = y
      BY <3>1, FewRows DEF Ingested, Types
    <3>3. QED
      BY <3>2
  <2>3. s \in spoiled \/ Agree(b, p)
    BY <2>1 DEF InStep
  <2>4. \/ found = {} /\ known = Nothing
        \/ \E x \in found : found = {x} /\ known = x.text
    BY <1>3, <2>2
  <2> HIDE DEF known
  <2>5. VisitInStep(c, b, p)' /\ VisitAt(c, b, p)'
    BY <1>1, <1>2, <1>3, <2>1, <2>3, <2>4 DEF VisitInStep, VisitAt, Visiting
  <2>6. OnlyVisit(c, b, p)
    BY <2>1 DEF Nobody, OnlyVisit
  <2>7. QED
    BY <1>1, <2>1, <2>5, <2>6, LoneVisitMoves
<1>4. CASE ~(crawl[c].base = b /\ crawl[c].into = b /\ Quiet(s))
  <2>1. s \in here /\ ~(crawl[c].into = crawl[c].base /\ Quiet(<<crawl[c].base, p>>))
    BY <1>4
  <2>2. s \in spoiled' /\ c \notin alone' /\ \A d \in VisitsOn(s) : d \notin alone'
    BY <2>1 DEF Look
  <2>3. \A d \in Crawls : VisitAt(d, b, p)' => d = c \/ d \in VisitsOn(s)
    BY <1>1 DEF VisitAt, VisitsOn, Spot, Place
  <2>4. QED
    BY <2>2, <2>3, Spoilt
<1>5. QED
  BY <1>3, <1>4

\* A step of a visit to the page that someone else has disturbed: it stays spoiled.
LEMMA DisturbedVisit ==
    ASSUME Ingested, NEW b \in Bases, NEW p \in Pages, InStep(b, p), NEW c \in Crawls,
           CrawlStep(c), VisitAt(c, b, p), c \notin alone
    PROVE  InStep(b, p)'
<1>1. <<b, p>> \in spoiled
  BY DEF InStep
<1>2. \A d \in Crawls : VisitAt(d, b, p) => d \notin alone
  BY DEF InStep, OnlyVisit
<1>3. \A d \in Crawls : d # c => (VisitAt(d, b, p)' => VisitAt(d, b, p))
  BY OthersStay DEF VisitAt, Ingested
<1>4. crawl[c].pc \in Visiting
  BY DEF VisitAt
<1>5. spoiled \subseteq spoiled' /\ alone' \subseteq alone
  BY <1>4 DEF CrawlStep, StartScrape, Heal, StartJob, EndJob, Look, OffTopic, Unchanged, FindOld,
       EraseOld, EraseFails, Ingest, IngestFails, FindRow, Record, CutOff, history, Spoil, Visiting
<1>6. QED
  BY <1>1, <1>2, <1>3, <1>5, Spoilt

\* What the recording of an undisturbed visit leaves: one row, of the text of the visit.
LEMMA RecordHere ==
    ASSUME Ingested, NEW b \in Bases, NEW p \in Pages, NEW c \in Crawls, Record(c),
           VisitAt(c, b, p), VisitInStep(c, b, p)
    PROVE  \E x \in RowsOf(b, p)' : RowsOf(b, p)' = {x} /\ x.text = crawl[c].text
<1> DEFINE t    == crawl[c].text
           same == {y \in row : \E x \in crawl[c].row : x.no = y.no}
           New(y) == [y EXCEPT !.text = t]
<1>1. /\ crawl[c].row = RowsOf(b, p) /\ crawl[c].base = b /\ crawl[c].into = b
      /\ crawl[c].page = p
      /\ row \in SUBSET Row /\ \A x, y \in row : x.no = y.no => x = y
      /\ t \in Texts
  BY DEF Record, VisitInStep, VisitAt, Ingested, Types, StoreTypes, CrawlTypes, CrawlSound
<1>2. CASE RowsOf(b, p) = {}
  <2> DEFINE new == [no |-> clock + 1, base |-> b, into |-> b, page |-> p, text |-> t]
  <2>1. row' = row \cup {new} /\ new.base = b /\ new.page = p /\ new.text = t
    BY <1>1, <1>2 DEF Record
  <2> HIDE DEF new
  <2>2. RowsOf(b, p)' = {new}
    BY <1>2, <2>1 DEF RowsOf
  <2>3. QED
    BY <2>1, <2>2
<1>3. ASSUME NEW x \in RowsOf(b, p), RowsOf(b, p) = {x}
      PROVE  \E y \in RowsOf(b, p)' : RowsOf(b, p)' = {y} /\ y.text = t
  <2>1. same = {x}
    BY <1>1, <1>3 DEF RowsOf
  <2>2. row' = (row \ {x}) \cup {New(x)}
    BY <1>1, <1>3, <2>1 DEF Record
  <2>3. x \in Row /\ x.base = b /\ x.page = p
    BY <1>1, <1>3 DEF RowsOf
  <2>4. New(x).base = b /\ New(x).page = p /\ New(x).text = t
    BY <2>3 DEF Row
  <2> HIDE DEF New
  <2>5. RowsOf(b, p)' = {New(x)}
    BY <1>3, <2>2, <2>4 DEF RowsOf
  <2>6. QED
    BY <2>4, <2>5
<1>4. QED
  BY <1>2, <1>3 DEF VisitInStep

\* A step of a visit to the page that nobody has disturbed.
LEMMA UndisturbedVisit ==
    ASSUME Ingested, NEW b \in Bases, NEW p \in Pages, InStep(b, p), NEW c \in Crawls,
           CrawlStep(c), VisitAt(c, b, p), c \in alone
    PROVE  InStep(b, p)'
<1> DEFINE s == <<b, p>>
<1>0. /\ VisitInStep(c, b, p) /\ OnlyVisit(c, b, p) /\ admin' = admin
      /\ crawl[c] \in Crawl /\ crawl \in [Crawls -> Crawl]
      /\ crawl[c].base = b /\ crawl[c].into = b /\ crawl[c].page = p
      /\ Spot(c) = s /\ Place(c) = s /\ crawl[c].pc \in Visiting
      /\ crawl[c].text \in Texts /\ chunks \in [Bases -> [Pages -> SUBSET Chunk]]
      /\ \A d \in Crawls : d # c => crawl'[d] = crawl[d]
      /\ clock \in Nat
  BY OthersStay, Apart DEF InStep, VisitInStep, VisitAt, Spot, Place, Ingested, Types, StoreTypes, CrawlTypes, CrawlSound
<1>1. CASE EraseFails(c) \/ IngestFails(c) \/ CutOff(c)
  <2>1. Spoil({s})
    BY <1>0, <1>1 DEF EraseFails, IngestFails, CutOff
  <2>2. \A d \in Crawls : VisitAt(d, b, p)' => VisitAt(d, b, p)
    BY <1>0 DEF VisitAt
  <2>3. QED
    BY <2>1, <2>2, SpoilSpoils
\* The visit goes on, or leaves a page that is spoiled or where the stores agree.
<1>2. ASSUME alone' = alone, VisitAt(c, b, p)', VisitInStep(c, b, p)' PROVE InStep(b, p)'
  BY <1>0, <1>2, LoneVisitMoves
<1>3. ASSUME alone' = alone, Visited(c), s \in spoiled' \/ Agree(b, p)' PROVE InStep(b, p)'
  <2>1. ~VisitAt(c, b, p)'
    BY <1>0, <1>3 DEF Visited, Idle, VisitAt, Visiting
  <2>2. QED
    BY <1>0, <1>3, <2>1, LoneVisitMoves
<1>4. ASSUME UNCHANGED <<row, chunks, spoiled>>
      PROVE  /\ RowsOf(b, p)' = RowsOf(b, p) /\ (Agree(b, p)' <=> Agree(b, p))
             /\ (s \in spoiled \/ Agree(b, p)) <=> (s \in spoiled' \/ Agree(b, p)')
  BY <1>4 DEF RowsOf, Agree
<1>5. CASE OffTopic(c)
  <2>1. Visited(c) /\ alone' = alone /\ UNCHANGED <<row, chunks, spoiled>> /\ crawl[c].pc = "looked"
    BY <1>5 DEF OffTopic, docs, history
  <2>2. QED
    BY <1>0, <1>3, <1>4, <2>1 DEF VisitInStep
<1>6. CASE Unchanged(c)
  <2>1. /\ crawl'[c].pc = "recording" /\ crawl'[c].page = p
        /\ crawl'[c].base = b /\ crawl'[c].into = b
        /\ crawl'[c].text = crawl[c].text /\ crawl'[c].known = crawl[c].known
    BY <1>0, <1>6 DEF Unchanged, Go, Crawl
  <2>2. /\ crawl[c].pc = "looked" /\ crawl[c].known = crawl[c].text
        /\ alone' = alone /\ UNCHANGED <<row, chunks, spoiled>>
    BY <1>6 DEF Unchanged, docs, history
  <2>3. VisitInStep(c, b, p)' /\ VisitAt(c, b, p)'
    BY <1>0, <1>4, <2>1, <2>2 DEF VisitInStep, VisitAt, Visiting
  <2>4. QED
    BY <1>2, <2>2, <2>3
<1>7. CASE FindOld(c)
  <2>1. /\ crawl'[c].pc = "erasing" /\ crawl'[c].page = p
        /\ crawl'[c].base = b /\ crawl'[c].into = b
        /\ crawl'[c].text = crawl[c].text /\ crawl'[c].known = crawl[c].known
        /\ crawl'[c].old = chunks[b][p]
    BY <1>0, <1>7 DEF FindOld, Crawl
  <2>2. /\ crawl[c].known # crawl[c].text
        /\ alone' = alone /\ UNCHANGED <<row, chunks, spoiled>>
    BY <1>7 DEF FindOld, docs, history
  <2>3. VisitInStep(c, b, p)' /\ VisitAt(c, b, p)'
    BY <1>0, <1>4, <2>1, <2>2 DEF VisitInStep, VisitAt, Visiting
  <2>4. QED
    BY <1>2, <2>2, <2>3
<1>8. CASE EraseOld(c)
  <2>1. /\ crawl'[c].pc = "embedding" /\ crawl'[c].page = p
        /\ crawl'[c].base = b /\ crawl'[c].into = b
        /\ crawl'[c].text = crawl[c].text /\ crawl'[c].known = crawl[c].known
    BY <1>0, <1>8 DEF EraseOld, Crawl
  <2>2. /\ crawl[c].known # crawl[c].text /\ crawl[c].old = chunks[b][p]
        /\ alone' = alone /\ row' = row
        /\ chunks' = [chunks EXCEPT ![b][p] = @ \ crawl[c].old]
    BY <1>0, <1>8 DEF EraseOld, history, VisitInStep
  <2>3. chunks'[b][p] = {} /\ RowsOf(b, p)' = RowsOf(b, p)
    BY <1>0, <2>2 DEF RowsOf
  <2>4. VisitInStep(c, b, p)' /\ VisitAt(c, b, p)'
    BY <1>0, <2>1, <2>2, <2>3 DEF VisitInStep, VisitAt, Visiting
  <2>5. QED
    BY <1>2, <2>2, <2>4
<1>9. CASE Ingest(c)
  <2> DEFINE new == [no |-> clock + 1, text |-> crawl[c].text]
  <2>1. /\ crawl'[c].pc = "recording" /\ crawl'[c].page = p
        /\ crawl'[c].base = b /\ crawl'[c].into = b
        /\ crawl'[c].text = crawl[c].text /\ crawl'[c].known = crawl[c].known
    BY <1>0, <1>9 DEF Ingest, Go, Crawl
  <2>2. /\ crawl[c].known # crawl[c].text /\ chunks[b][p] = {}
        /\ alone' = alone /\ row' = row
        /\ chunks' = [chunks EXCEPT ![b][p] = @ \cup {new}] /\ new.text = crawl[c].text
    BY <1>0, <1>9 DEF Ingest, Added, history, VisitInStep
  <2> HIDE DEF new
  <2>3. chunks'[b][p] = {new} /\ RowsOf(b, p)' = RowsOf(b, p)
    BY <1>0, <2>2 DEF RowsOf
  <2>4. VisitInStep(c, b, p)' /\ VisitAt(c, b, p)'
    BY <1>0, <2>1, <2>2, <2>3 DEF VisitInStep, VisitAt, Visiting
  <2>5. QED
    BY <1>2, <2>2, <2>4
<1>10. CASE FindRow(c)
  <2> DEFINE found == RowsOf(b, p)
  <2>1. Cardinality(found) < 2 /\ ~(Cardinality(found) > 1)
    <3>1. found = {} \/ \E x \in found : found = {x}
      BY <1>0 DEF VisitInStep
    <3>2. Cardinality({}) = 0 /\ \A x : Cardinality({x}) = 1
      BY FS_EmptySet, FS_Singleton
    <3> HIDE DEF found
    <3>3. Cardinality(found) \in {0, 1}
      BY <3>1, <3>2
    <3>4. QED
      BY <3>3
  <2>2. /\ crawl[c].pc = "recording"
        /\ crawl' = [crawl EXCEPT ![c].pc = "committing", ![c].row = found]
        /\ alone' = alone /\ UNCHANGED <<row, chunks, spoiled>>
    BY <1>0, <1>10, <2>1 DEF FindRow, docs, history
  <2> HIDE DEF found
  <2>3. /\ crawl'[c].pc = "committing" /\ crawl'[c].page = p
        /\ crawl'[c].base = b /\ crawl'[c].into = b
        /\ crawl'[c].text = crawl[c].text /\ crawl'[c].known = crawl[c].known
        /\ crawl'[c].row = found
    BY <1>0, <2>2 DEF Crawl
  <2>4. VisitInStep(c, b, p)' /\ VisitAt(c, b, p)'
    BY <1>0, <1>4, <2>2, <2>3 DEF VisitInStep, VisitAt, Visiting, found
  <2>5. QED
    BY <1>2, <2>2, <2>4
<1>11. CASE Record(c)
  <2>1. /\ crawl[c].pc = "committing" /\ Visited(c) /\ alone' = alone /\ chunks' = chunks
        /\ spoiled' = IF crawl[c].known # crawl[c].text THEN spoiled \ {s} ELSE spoiled
    BY <1>0, <1>11 DEF Record
  <2>2. PICK x \in RowsOf(b, p)' : RowsOf(b, p)' = {x} /\ x.text = crawl[c].text
    BY <1>0, <1>11, RecordHere
  <2>3. CASE crawl[c].known # crawl[c].text
    <3>1. PICK k \in chunks[b][p] : chunks[b][p] = {k} /\ k.text = crawl[c].text
      BY <1>0, <2>1, <2>3 DEF VisitInStep
    <3>2. Agree(b, p)'
      BY <2>1, <2>2, <3>1 DEF Agree
    <3>3. QED
      BY <1>3, <2>1, <3>2
  <2>4. CASE crawl[c].known = crawl[c].text
    <3>1. PICK y \in RowsOf(b, p) : RowsOf(b, p) = {y} /\ y.text = crawl[c].text
      BY <1>0, <2>4, NothingAssumption DEF VisitInStep
    <3>2. s \in spoiled \/ Agree(b, p)
      BY <1>0, <2>1, <2>4 DEF VisitInStep
    <3>3. Agree(b, p) => Agree(b, p)'
      BY <2>1, <2>2, <3>1 DEF Agree
    <3>4. QED
      BY <1>3, <2>1, <2>4, <3>2, <3>3
  <2>5. QED
    BY <2>3, <2>4
<1>12. QED
  BY <1>0, <1>1, <1>5, <1>6, <1>7, <1>8, <1>9, <1>10, <1>11
     DEF CrawlStep, StartScrape, Heal, StartJob, EndJob, Look, Visiting

LEMMA CrawlsKeepStep ==
    ASSUME Ingested, NEW b \in Bases, NEW p \in Pages, InStep(b, p), NEW c \in Crawls, CrawlStep(c)
    PROVE  InStep(b, p)'
<1>1. CASE VisitAt(c, b, p)
  BY <1>1, DisturbedVisit, UndisturbedVisit
<1>2. CASE ~VisitAt(c, b, p) /\ VisitAt(c, b, p)'
  <2>1. crawl[c] \in Crawl /\ crawl \in [Crawls -> Crawl]
    BY DEF Ingested, Types, CrawlTypes
  <2>2. \E q \in Pages, t \in Texts : Look(c, q, t)
    <3>1. CASE Visited(c) \/ EndJob(c) \/ CutOff(c) \/ Heal(c) \/ StartJob(c)
      <4>1. CASE Visited(c)
        BY <1>2, <2>1, <4>1 DEF Visited, VisitAt, Visiting, Idle
      <4>2. CASE EndJob(c) \/ CutOff(c) \/ Heal(c) \/ StartJob(c)
        <5>1. crawl'[c].pc \in {"idle", "starting", "running"}
          BY <2>1, <4>2, RestPlaces DEF EndJob, CutOff, Heal, StartJob, Go, Crawl
        <5>2. QED
          BY <1>2, <5>1 DEF VisitAt, Visiting
      <4>3. QED
        BY <3>1, <4>1, <4>2
    <3>2. CASE StartScrape(c)
      <4>1. PICK k \in Bases, pc \in {"starting", "healing"} :
              crawl' = [crawl EXCEPT ![c] = [Idle EXCEPT !.pc = pc, !.base = k]]
        BY <3>2, BasesAlive, LegacyAssumption DEF StartScrape, Ingested, Types, BaseTypes, HistoryTypes
      <4>2. QED
        BY <1>2, <2>1, <4>1 DEF Idle, VisitAt, Visiting
    <3>3. CASE Unchanged(c) \/ FindOld(c) \/ EraseOld(c) \/ EraseFails(c) \/ Ingest(c)
      BY <1>2, <2>1, <3>3 DEF Unchanged, FindOld, EraseOld, EraseFails, Ingest, Go, VisitAt, Visiting, Crawl
    <3>4. CASE FindRow(c) /\ ~Visited(c)
      BY <1>2, <2>1, <3>4 DEF FindRow, VisitAt, Visiting, Crawl
    <3>5. QED
      BY <3>1, <3>2, <3>3, <3>4 DEF CrawlStep, OffTopic, IngestFails, Record
  <2>3. PICK q \in Pages, t \in Texts : Look(c, q, t)
    BY <2>2
  <2>4. q = p /\ b \in {crawl[c].base, crawl[c].into}
    BY <1>2, <2>1, <2>3 DEF Look, VisitAt, Crawl
  <2>5. QED
    BY <2>3, <2>4, LookHere
<1>3. CASE ~VisitAt(c, b, p) /\ ~VisitAt(c, b, p)'
  BY <1>3, CrawlElsewhere
<1>4. QED
  BY <1>1, <1>2, <1>3

\* A step of a request that is at other pages, before and after.
LEMMA RequestElsewhere ==
    ASSUME NEW b \in Bases, NEW p \in Pages, InStep(b, p), NEW h \in Handlers,
           UNCHANGED crawl, \A g \in Handlers : g # h => admin'[g] = admin[g],
           ~EraseAt(h, b, p), ~EraseAt(h, b, p)',
           RowsOf(b, p)' = RowsOf(b, p), chunks'[b][p] = chunks[b][p],
           <<b, p>> \in spoiled' <=> <<b, p>> \in spoiled,
           \A c \in Crawls : VisitAt(c, b, p) => (c \in alone' <=> c \in alone)
    PROVE  InStep(b, p)'
<1>1. \A c \in Crawls : /\ VisitAt(c, b, p)' <=> VisitAt(c, b, p)
                        /\ VisitAt(c, b, p) => crawl'[c] = crawl[c]
  BY DEF VisitAt
<1>2. \A g \in Handlers : /\ EraseAt(g, b, p)' <=> EraseAt(g, b, p)
                          /\ EraseAt(g, b, p) => admin'[g] = admin[g]
  BY DEF EraseAt
<1>3. QED
  BY <1>1, <1>2, SpotStays

\* A request deletes the rows of the page, where nobody is at work and nothing was spoiled
\* or nothing is claimed, and has yet to erase its chunks.
LEMMA EraserArrives ==
    ASSUME NEW b \in Bases, NEW p \in Pages, InStep(b, p), NEW h \in Handlers,
           UNCHANGED crawl, \A g \in Handlers : g # h => admin'[g] = admin[g],
           Nobody(b, p), admin'[h].pc = "scrub", EraseAt(h, b, p)',
           <<b, p>> \in spoiled' <=> <<b, p>> \in spoiled,
           <<b, p>> \notin spoiled => RowsOf(b, p)' = {}
    PROVE  InStep(b, p)'
<1>1. \A c \in Crawls : ~VisitAt(c, b, p)'
  BY DEF Nobody, VisitAt
<1>2. \A g \in Handlers : EraseAt(g, b, p)' => g = h
  BY DEF Nobody, EraseAt
<1>3. <<b, p>> \notin spoiled => EraserInStep(h, b, p)'
  BY DEF EraserInStep
<1>4. QED
  BY <1>1, <1>2, <1>3 DEF InStep, OnlyEraser, Nobody

LEMMA DeleteSourceInStep ==
    ASSUME Ingested, NEW b \in Bases, NEW p \in Pages, InStep(b, p), NEW h \in Handlers,
           DeleteSource(h)
    PROVE  InStep(b, p)'
<1> DEFINE s == <<b, p>>
<1>1. PICK x \in row :
        /\ row' = row \ {x}
        /\ admin' = [admin EXCEPT ![h] = [AtRest EXCEPT !.pc = "scrub", !.spots = {Holds(x)}]]
        /\ IF ~Stray(x) /\ Quiet(Holds(x)) THEN UNCHANGED history ELSE Spoil(Harmed(x))
  BY DEF DeleteSource
<1>2. /\ admin \in [Handlers -> Admin] /\ row \in SUBSET Row /\ Harmed(x) \in SUBSET Spots
      /\ crawl' = crawl /\ chunks' = chunks /\ admin[h].pc = "idle"
      /\ \A g \in Handlers : g # h => admin'[g] = admin[g]
  BY <1>1 DEF DeleteSource, Ingested, Types, StoreTypes, AdminTypes, Row, Spots, Harmed, Holds
<1>3. /\ admin'[h].pc = "scrub" /\ admin'[h].spots = {Holds(x)}
      /\ admin'[h].spot = Nothing /\ Nothing # s
  BY <1>1, <1>2, NothingAssumption DEF AtRest
<1>4. ~EraseAt(h, b, p) /\ (EraseAt(h, b, p)' <=> Holds(x) = s)
  BY <1>2, <1>3 DEF EraseAt
<1>5. CASE s \in Harmed(x) /\ ~(~Stray(x) /\ Quiet(Holds(x)))
  <2>1. Spoil(Harmed(x))
    BY <1>1, <1>5
  <2>2. QED
    BY <1>2, <1>5, <2>1, SpoilSpoils DEF VisitAt
<1>6. CASE s \in Harmed(x) /\ ~Stray(x) /\ Quiet(Holds(x))
  <2>1. x.base = b /\ x.page = p /\ Holds(x) = s
    BY <1>6 DEF Harmed, Holds, Stray
  <2>2. Nobody(b, p) /\ UNCHANGED history
    BY <1>1, <1>6, <2>1, NobodyIsQuiet
  <2>3. ASSUME s \notin spoiled PROVE RowsOf(b, p)' = {}
    <3>1. Agree(b, p) /\ x \in RowsOf(b, p)
      BY <2>1, <2>2, <2>3 DEF InStep, RowsOf
    <3>2. RowsOf(b, p) = {x}
      BY <3>1 DEF Agree
    <3>3. QED
      BY <1>1, <3>2 DEF RowsOf
  <2>4. QED
    BY <1>2, <1>3, <1>4, <2>1, <2>2, <2>3, EraserArrives DEF history
<1>7. CASE s \notin Harmed(x)
  <2>1. RowsOf(b, p)' = RowsOf(b, p)
    BY <1>1, <1>7 DEF RowsOf, Harmed
  <2>2. /\ <<b, p>> \in spoiled' <=> <<b, p>> \in spoiled
        /\ \A c \in Crawls : VisitAt(c, b, p) => (c \in alone' <=> c \in alone)
    <3>1. UNCHANGED history \/ Spoil(Harmed(x))
      BY <1>1
    <3>2. QED
      BY <1>2, <1>7, <3>1, SpoilElsewhere DEF history
  <2>3. Holds(x) # s
    BY <1>7 DEF Harmed
  <2>4. QED
    BY <1>2, <1>4, <2>1, <2>2, <2>3, RequestElsewhere
<1>8. QED
  BY <1>5, <1>6, <1>7

LEMMA ScrubFindInStep ==
    ASSUME Ingested, NEW b \in Bases, NEW p \in Pages, InStep(b, p), NEW h \in Handlers,
           RowsRead(h), ScrubFind(h)
    PROVE  InStep(b, p)'
<1>1. PICK s \in admin[h].spots :
        admin' = [admin EXCEPT ![h].pc = "scrubbing", ![h].spot = s, ![h].spots = @ \ {s},
                               ![h].old = chunks[s[1]][s[2]]]
  BY DEF ScrubFind
<1>2. /\ admin \in [Handlers -> Admin] /\ admin[h] \in Admin
      /\ admin[h].pc = "scrub" /\ admin[h].spot = Nothing /\ Nothing # <<b, p>>
      /\ UNCHANGED <<crawl, row, chunks, spoiled, alone>>
      /\ \A g \in Handlers : g # h => admin'[g] = admin[g]
  BY <1>1, NothingAssumption DEF ScrubFind, RowsRead, docs, history, Ingested, Types, AdminTypes
<1>3. /\ admin'[h].pc = "scrubbing" /\ admin'[h].spot = s
      /\ admin'[h].spots = admin[h].spots \ {s} /\ admin'[h].old = chunks[s[1]][s[2]]
  BY <1>1, <1>2 DEF Admin
<1>4. EraseAt(h, b, p)' <=> EraseAt(h, b, p)
  BY <1>2, <1>3 DEF EraseAt
<1>5. RowsOf(b, p)' = RowsOf(b, p)
  BY <1>2 DEF RowsOf
<1>6. CASE EraseAt(h, b, p)
  <2>1. <<b, p>> \notin spoiled => RowsOf(b, p) = {}
    BY <1>6 DEF InStep, EraserInStep
  <2>2. s = <<b, p>> => admin'[h].old = chunks'[b][p]
    BY <1>2, <1>3
  <2>3. <<b, p>> \notin spoiled => EraserInStep(h, b, p)'
    BY <1>3, <1>5, <2>1, <2>2 DEF EraserInStep
  <2>4. QED
    BY <1>2, <1>4, <1>6, <2>3, EraserMoves
<1>7. CASE ~EraseAt(h, b, p)
  BY <1>2, <1>4, <1>5, <1>7, RequestElsewhere
<1>8. QED
  BY <1>6, <1>7

\* One page is dealt with: the request goes on to those that are left.
LEMMA ScrubbedEffect ==
    ASSUME Ingested, NEW h \in Handlers, admin[h].pc = "scrubbing", Scrubbed(h)
    PROVE  /\ \A g \in Handlers : g # h => admin'[g] = admin[g]
           /\ admin'[h].pc \in {"idle", "scrub"}
           /\ \A b \in Bases, p \in Pages : EraseAt(h, b, p)' <=> <<b, p>> \in admin[h].spots
<1>1. /\ admin \in [Handlers -> Admin] /\ admin[h] \in Admin
      /\ \A b \in Bases, p \in Pages : Nothing # <<b, p>>
  BY NothingAssumption DEF Ingested, Types, AdminTypes
<1>2. CASE admin[h].spots = {}
  <2>1. /\ admin'[h] = AtRest /\ \A g \in Handlers : g # h => admin'[g] = admin[g]
    BY <1>1, <1>2 DEF Scrubbed, AdminEnd
  <2>2. QED
    BY <1>2, <2>1, RestPlaces DEF EraseAt
<1>3. CASE admin[h].spots # {}
  <2>1. /\ admin'[h].pc = "scrub"
        /\ admin'[h].spots = admin[h].spots /\ admin'[h].spot = Nothing
        /\ \A g \in Handlers : g # h => admin'[g] = admin[g]
    BY <1>1, <1>3 DEF Scrubbed, Admin
  <2>2. QED
    BY <1>1, <2>1 DEF EraseAt
<1>4. QED
  BY <1>2, <1>3

\* The deletion is at another page: this one is erased later, if at all.
LEMMA ScrubbedElsewhere ==
    ASSUME Ingested, NEW b \in Bases, NEW p \in Pages, InStep(b, p), NEW h \in Handlers,
           admin[h].pc = "scrubbing", Scrubbed(h), UNCHANGED <<crawl, row>>,
           admin[h].spot # <<b, p>>,
           chunks'[b][p] = chunks[b][p],
           <<b, p>> \in spoiled' <=> <<b, p>> \in spoiled,
           \A c \in Crawls : VisitAt(c, b, p) => (c \in alone' <=> c \in alone)
    PROVE  InStep(b, p)'
<1>1. /\ \A g \in Handlers : g # h => admin'[g] = admin[g]
      /\ admin'[h].pc \in {"idle", "scrub"}
      /\ EraseAt(h, b, p)' <=> EraseAt(h, b, p)
  BY ScrubbedEffect DEF EraseAt
<1>2. RowsOf(b, p)' = RowsOf(b, p)
  BY DEF RowsOf
<1>3. CASE EraseAt(h, b, p)
  <2>1. <<b, p>> \notin spoiled => EraserInStep(h, b, p)'
    BY <1>1, <1>2, <1>3 DEF InStep, EraserInStep
  <2>2. QED
    BY <1>1, <1>3, <2>1, EraserMoves
<1>4. CASE ~EraseAt(h, b, p)
  BY <1>1, <1>2, <1>4, RequestElsewhere
<1>5. QED
  BY <1>3, <1>4

LEMMA ScrubInStep ==
    ASSUME Ingested, NEW b \in Bases, NEW p \in Pages, InStep(b, p), NEW h \in Handlers,
           Scrub(h)
    PROVE  InStep(b, p)'
<1> DEFINE s == admin[h].spot
<1>1. /\ admin[h].pc = "scrubbing" /\ Scrubbed(h) /\ UNCHANGED <<crawl, row, spoiled, alone>>
      /\ chunks' = [chunks EXCEPT ![s[1]][s[2]] = @ \ admin[h].old]
      /\ chunks \in [Bases -> [Pages -> SUBSET Chunk]]
  BY DEF Scrub, history, Ingested, Types, StoreTypes
<1>2. CASE s = <<b, p>>
  <2>1. EraseAt(h, b, p)
    BY <1>1, <1>2 DEF EraseAt
  <2>2. /\ \A g \in Handlers : g # h => admin'[g] = admin[g]
        /\ admin'[h].pc \in {"idle", "scrub"}
    BY <1>1, ScrubbedEffect
  <2>3. RowsOf(b, p)' = RowsOf(b, p)
    BY <1>1 DEF RowsOf
  <2>4. ASSUME <<b, p>> \notin spoiled PROVE EraserInStep(h, b, p)' /\ Agree(b, p)'
    <3>1. RowsOf(b, p) = {} /\ admin[h].old = chunks[b][p]
      BY <1>1, <1>2, <2>1, <2>4 DEF InStep, EraserInStep
    <3>2. chunks'[b][p] = {}
      BY <1>1, <1>2, <3>1
    <3>3. QED
      BY <2>2, <2>3, <3>1, <3>2 DEF EraserInStep, Agree
  <2>5. QED
    BY <1>1, <2>1, <2>2, <2>4, EraserMoves
<1>3. CASE s # <<b, p>>
  <2>1. PICK d \in Bases, q \in Pages : s = <<d, q>>
    BY <1>1 DEF Ingested, Types, AdminTypes, AdminSound, Spots
  <2>2. chunks'[b][p] = chunks[b][p]
    BY <1>1, <1>3, <2>1
  <2>3. QED
    BY <1>1, <1>3, <2>2, ScrubbedElsewhere
<1>4. QED
  BY <1>2, <1>3

LEMMA ScrubFailsInStep ==
    ASSUME Ingested, NEW b \in Bases, NEW p \in Pages, InStep(b, p), NEW h \in Handlers,
           ScrubFails(h) \/ ScrubDies(h)
    PROVE  InStep(b, p)'
<1>0. /\ admin \in [Handlers -> Admin] /\ admin[h] \in Admin /\ UNCHANGED <<crawl, row, chunks>>
      /\ admin[h].pc \in {"scrub", "scrubbing"}
      /\ admin[h].pc = "scrubbing" => admin[h].spot \in Spots
  BY DEF Ingested, Types, AdminTypes, AdminSound, ScrubFails, ScrubDies, docs
<1>1. CASE ScrubFails(h)
  <2>1. /\ admin[h].pc = "scrubbing" /\ Scrubbed(h) /\ Spoil({admin[h].spot})
    BY <1>1 DEF ScrubFails
  <2>2. CASE admin[h].spot = <<b, p>>
    BY <1>0, <2>1, <2>2, SpoilSpoils DEF VisitAt
  <2>3. CASE admin[h].spot # <<b, p>>
    <3>1. {admin[h].spot} \in SUBSET Spots /\ <<b, p>> \notin {admin[h].spot}
      BY <1>0, <2>1, <2>3
    <3>2. /\ <<b, p>> \in spoiled' <=> <<b, p>> \in spoiled
          /\ \A c \in Crawls : VisitAt(c, b, p) => (c \in alone' <=> c \in alone)
      BY <2>1, <3>1, SpoilElsewhere
    <3>3. QED
      BY <1>0, <2>1, <2>3, <3>2, ScrubbedElsewhere
  <2>4. QED
    BY <2>2, <2>3
<1>2. CASE ScrubDies(h)
  <2> DEFINE S == Spots \cap (admin[h].spots \cup {admin[h].spot})
  <2>1. Spoil(S) /\ AdminEnd(h)
    BY <1>2 DEF ScrubDies
  <2>2. S \in SUBSET Spots /\ (<<b, p>> \in S <=> EraseAt(h, b, p))
    BY <1>0 DEF Spots, EraseAt
  <2> HIDE DEF S
  <2>3. CASE EraseAt(h, b, p)
    BY <1>0, <2>1, <2>2, <2>3, SpoilSpoils DEF VisitAt
  <2>4. CASE ~EraseAt(h, b, p)
    <3>1. /\ <<b, p>> \in spoiled' <=> <<b, p>> \in spoiled
          /\ \A c \in Crawls : VisitAt(c, b, p) => (c \in alone' <=> c \in alone)
      BY <2>1, <2>2, <2>4, SpoilElsewhere
    <3>2. ~EraseAt(h, b, p)' /\ \A g \in Handlers : g # h => admin'[g] = admin[g]
      BY <1>0, <2>1, RestPlaces DEF AdminEnd, EraseAt
    <3>3. RowsOf(b, p)' = RowsOf(b, p)
      BY <1>0 DEF RowsOf
    <3>4. QED
      BY <1>0, <2>4, <3>1, <3>2, <3>3, RequestElsewhere
  <2>5. QED
    BY <2>3, <2>4
<1>3. QED
  BY <1>1, <1>2

LEMMA PurgeInStep ==
    ASSUME Ingested, NEW b \in Bases, NEW p \in Pages, InStep(b, p), NEW h \in Handlers,
           Purge(h)
    PROVE  InStep(b, p)'
<1> DEFINE gone == {x \in row : \E y \in admin[h].rows : y.no = x.no}
           S    == {<<x.base, x.page>> : x \in gone}
<1>1. /\ row' = row \ gone /\ Spoil(S) /\ AdminEnd(h) /\ UNCHANGED <<crawl, chunks>>
      /\ admin[h].pc = "purging"
  BY DEF Purge
<1>2. /\ admin \in [Handlers -> Admin] /\ row \in SUBSET Row
  BY DEF Ingested, Types, StoreTypes, AdminTypes
<1> HIDE DEF gone
<1>3. gone \subseteq row /\ S \in SUBSET Spots
  BY <1>2 DEF gone, Spots, Row
<1>4. CASE <<b, p>> \in S
  BY <1>1, <1>4, SpoilSpoils DEF VisitAt
<1>5. CASE <<b, p>> \notin S
  <2>1. /\ <<b, p>> \in spoiled' <=> <<b, p>> \in spoiled
        /\ \A c \in Crawls : VisitAt(c, b, p) => (c \in alone' <=> c \in alone)
    BY <1>1, <1>3, <1>5, SpoilElsewhere
  <2>2. RowsOf(b, p)' = RowsOf(b, p)
    BY <1>1, <1>5 DEF RowsOf
  <2>3. /\ ~EraseAt(h, b, p) /\ ~EraseAt(h, b, p)'
        /\ \A g \in Handlers : g # h => admin'[g] = admin[g]
    BY <1>1, <1>2, RestPlaces DEF AdminEnd, EraseAt
  <2>4. QED
    BY <1>1, <2>1, <2>2, <2>3, RequestElsewhere
<1>6. QED
  BY <1>4, <1>5

\* A base is deleted: where nobody is at work and it has read every row, none is left, and
\* the pages it has read a row of are erased after.
LEMMA DropInStep ==
    ASSUME Ingested, NEW b \in Bases, NEW p \in Pages, InStep(b, p), NEW h \in Handlers,
           RowsRead(h), DropBase(h)
    PROVE  InStep(b, p)'
<1> DEFINE d    == admin[h].base
           rows == admin[h].rows
           gone == {x \in row : \E y \in admin[h].rows : y.no = x.no}
           stray == {x \in rows : Stray(x)}
           S    == {s \in {<<d, q>> : q \in Pages} : ~Quiet(s) \/ RowsOf(d, s[2]) \ gone # {}}
                     \cup UNION {Harmed(x) : x \in stray}
           going == [AtRest EXCEPT !.pc = "scrub", !.spots = {Holds(x) : x \in rows}]
<1>1. /\ admin \in [Handlers -> Admin] /\ admin[h].pc = "dropping" /\ d \in Bases
      /\ UNCHANGED <<crawl, chunks>> /\ Nothing # <<b, p>>
      /\ rows \in SUBSET Row
  BY NothingAssumption DEF DropBase, Ingested, Types, AdminTypes, AdminSound, Admin
<1>2. ~EraseAt(h, b, p)
  BY <1>1 DEF EraseAt
<1>3. CASE AdminEnd(h) /\ UNCHANGED <<row, history>>
  <2>1. ~EraseAt(h, b, p)' /\ \A g \in Handlers : g # h => admin'[g] = admin[g]
    BY <1>1, <1>3, RestPlaces DEF AdminEnd, EraseAt
  <2>2. QED
    BY <1>1, <1>2, <1>3, <2>1, RequestElsewhere DEF history, RowsOf
<1>4. CASE /\ row' = row \ gone /\ Spoil(S)
           /\ IF rows = {} THEN AdminEnd(h) ELSE admin' = [admin EXCEPT ![h] = going]
  <2>1. \A y \in rows : /\ y.base = d /\ y.page \in Pages
                        /\ \A x \in row : x.no = y.no => x.base = d /\ x.page = y.page
    BY <1>1 DEF RowsRead, Row
  <2>2. S \in SUBSET Spots
    BY <1>1 DEF Spots, Harmed, Holds, Row
  <2>3. \A g \in Handlers : g # h => admin'[g] = admin[g]
    BY <1>1, <1>4 DEF AdminEnd
  <2>4. /\ EraseAt(h, b, p)' <=> \E y \in rows : Holds(y) = <<b, p>>
        /\ EraseAt(h, b, p)' => admin'[h].pc = "scrub"
    <3>1. CASE rows = {}
      BY <1>1, <1>4, <3>1, RestPlaces DEF AdminEnd, EraseAt
    <3>2. CASE rows # {}
      <4>1. /\ going.pc = "scrub" /\ going.spots = {Holds(x) : x \in rows}
            /\ going.spot = Nothing
        BY DEF AtRest
      <4>2. admin'[h] = going
        BY <1>1, <1>4, <3>2
      <4> HIDE DEF going
      <4>3. QED
        BY <1>1, <4>1, <4>2 DEF EraseAt
    <3>3. QED
      BY <3>1, <3>2
  <2>5. CASE <<b, p>> \in S
    <3> HIDE DEF S
    <3>1. QED
      BY <1>1, <1>4, <2>5, SpoilSpoils DEF VisitAt
  <2>6. CASE <<b, p>> \notin S
    <3>1. /\ <<b, p>> \in spoiled' <=> <<b, p>> \in spoiled
          /\ \A c \in Crawls : VisitAt(c, b, p) => (c \in alone' <=> c \in alone)
      <4> HIDE DEF S
      <4>1. QED
        BY <1>4, <2>2, <2>6, SpoilElsewhere
    <3>2. \A y \in rows : <<b, p>> \in Harmed(y) => ~Stray(y)
      BY <2>6
    <3>3. EraseAt(h, b, p)' <=> b = d /\ \E y \in rows : y.page = p
      BY <2>1, <2>4, <3>2 DEF Harmed, Holds, Stray
    <3>4. CASE b # d
      <4>1. \A x \in gone : x.base = d
        BY <2>1
      <4>2. RowsOf(b, p)' = RowsOf(b, p)
        BY <1>4, <3>4, <4>1 DEF RowsOf
      <4>3. QED
        BY <1>1, <1>2, <2>3, <3>1, <3>4, <3>3, <4>2, RequestElsewhere
    <3>5. CASE b = d
      <4>1. Quiet(<<b, p>>) /\ RowsOf(b, p) \ gone = {}
        BY <2>6, <3>5
      <4>2. Nobody(b, p)
        BY <4>1, NobodyIsQuiet
      <4>3. RowsOf(b, p)' = {}
        BY <1>4, <4>1 DEF RowsOf
      <4>4. CASE \E y \in rows : y.page = p
        BY <1>1, <2>3, <2>4, <3>1, <3>5, <3>3, <4>2, <4>3, <4>4, EraserArrives
      <4>5. CASE ~\E y \in rows : y.page = p
        <5>1. RowsOf(b, p) = {}
          BY <2>1, <4>1, <4>5 DEF RowsOf
        <5>2. QED
          BY <1>1, <1>2, <2>3, <3>1, <3>3, <4>3, <4>5, <5>1, RequestElsewhere
      <4>6. QED
        BY <4>4, <4>5
    <3>6. QED
      BY <3>4, <3>5
  <2>7. QED
    BY <2>5, <2>6
<1>5. QED
  BY <1>3, <1>4 DEF DropBase

\* Requests that read, and the insertion of a base, touch no page.
LEMMA RequestsKeepStep ==
    ASSUME Ingested, NEW b \in Bases, NEW p \in Pages, InStep(b, p), NEW h \in Handlers,
           RowsRead(h), AdminStep(h)
    PROVE  InStep(b, p)'
<1>1. /\ admin \in [Handlers -> Admin] /\ crawl' = crawl
      /\ \A g \in Handlers : g # h => admin'[g] = admin[g]
  BY HandlersApart, Apart DEF Ingested, Types, AdminTypes
<1>2. CASE /\ admin[h].pc \notin {"scrub", "scrubbing"} /\ admin'[h].pc \notin {"scrub", "scrubbing"}
           /\ UNCHANGED <<docs, history>>
  <2>1. ~EraseAt(h, b, p) /\ ~EraseAt(h, b, p)'
    BY <1>2 DEF EraseAt
  <2>2. QED
    BY <1>1, <1>2, <2>1, RequestElsewhere DEF docs, history, RowsOf
<1>3. CASE FindDuplicates(h)
  BY <1>1, <1>2, <1>3 DEF FindDuplicates, AtRest
<1>4. CASE InsertBase(h)
  BY <1>1, <1>2, <1>4, RestPlaces DEF InsertBase, AdminEnd
<1>5. ASSUME NEW k \in Bases, NEW asDefault \in BOOLEAN, CreateBase(h, k, asDefault)
      PROVE  InStep(b, p)'
  <2> DEFINE seen == IF asDefault THEN default ELSE {}
             heir == IF asDefault \/ bases = <<>> THEN k ELSE Nothing
  <2>1. admin' = [admin EXCEPT ![h] = [AtRest EXCEPT !.pc = "creating", !.base = k,
                                         !.seen = seen, !.heir = heir]]
    BY <1>5 DEF CreateBase
  <2> HIDE DEF seen, heir
  <2>2. admin'[h].pc = "creating"
    BY <1>1, <2>1 DEF AtRest
  <2>3. QED
    BY <1>2, <1>5, <2>2 DEF CreateBase
<1>6. ASSUME NEW k \in Bases, DeleteBase(h, k) PROVE InStep(b, p)'
  <2> DEFINE seen == default \ {k}
             heir == Heir(k)
             rows == {x \in row : x.base = k}
  <2>1. admin' = [admin EXCEPT ![h] = [AtRest EXCEPT !.pc = "dropping", !.base = k,
                                         !.seen = seen, !.heir = heir, !.rows = rows]]
    BY <1>6 DEF DeleteBase
  <2> HIDE DEF seen, heir, rows
  <2>2. admin'[h].pc = "dropping"
    BY <1>1, <2>1 DEF AtRest
  <2>3. QED
    BY <1>2, <1>6, <2>2 DEF DeleteBase
<1>7. QED
  BY <1>3, <1>4, <1>5, <1>6, DeleteSourceInStep, ScrubFindInStep, ScrubInStep, ScrubFailsInStep,
     PurgeInStep, DropInStep DEF AdminStep

\* What the deletion of a base has read stays true while others write.
LEMMA ReadRowsStay ==
    ASSUME Types, Evolves, clock' \in Nat, NEW h \in Handlers, RowsRead(h), admin'[h] = admin[h]
    PROVE  RowsRead(h)'
<1>1. \A y \in admin[h].rows : y.no \in Nat /\ clock \in Nat
  BY DEF Types, AdminTypes, Admin, Row, StoreTypes
<1>2. ASSUME admin[h].pc = "dropping", NEW y \in admin[h].rows
      PROVE  /\ y.base = admin[h].base /\ y.no <= clock'
             /\ \A x \in row' : x.no = y.no => x.base = y.base /\ x.page = y.page
  <2>1. y.base = admin[h].base /\ y.no <= clock /\ y.no # clock + 1 /\ y.no <= clock'
    BY <1>1, <1>2 DEF RowsRead, Evolves
  <2>2. QED
    BY <1>2, <2>1 DEF RowsRead, Evolves
<1>3. QED
  BY <1>2 DEF RowsRead

LEMMA RequestReads ==
    ASSUME Types, NEW h \in Handlers, AdminStep(h), RowsRead(h)
    PROVE  RowsRead(h)'
<1>1. /\ admin \in [Handlers -> Admin] /\ admin[h] \in Admin /\ row \in SUBSET Row
      /\ \A x \in row : x.no <= clock
      /\ \A x, y \in row : x.no = y.no => x = y
  BY DEF Types, AdminTypes, StoreTypes
<1>2. CASE /\ admin'[h].pc # "dropping"
           /\ admin'[h].pc = "scrub" => admin'[h].spot = Nothing
  BY <1>2 DEF RowsRead
<1>3. CASE AdminEnd(h)
  BY <1>1, <1>2, <1>3, RestPlaces DEF AdminEnd
<1>4. CASE ScrubFind(h)
  BY <1>1, <1>2, <1>4 DEF ScrubFind, Admin
<1>5. CASE Scrub(h) \/ ScrubFails(h)
  BY <1>1, <1>2, <1>3, <1>5 DEF Scrub, ScrubFails, Scrubbed, Admin
<1>6. CASE DeleteSource(h)
  <2>1. PICK x \in row : admin' = [admin EXCEPT ![h] =
                            [AtRest EXCEPT !.pc = "scrub", !.spots = {Holds(x)}]]
    BY <1>6 DEF DeleteSource
  <2>2. QED
    BY <1>1, <1>2, <2>1 DEF AtRest
<1>7. CASE FindDuplicates(h)
  BY <1>1, <1>2, <1>7 DEF FindDuplicates, AtRest
<1>8. ASSUME NEW k \in Bases, NEW asDefault \in BOOLEAN, CreateBase(h, k, asDefault)
      PROVE  RowsRead(h)'
  <2> DEFINE seen == IF asDefault THEN default ELSE {}
             heir == IF asDefault \/ bases = <<>> THEN k ELSE Nothing
  <2>1. admin' = [admin EXCEPT ![h] = [AtRest EXCEPT !.pc = "creating", !.base = k,
                                         !.seen = seen, !.heir = heir]]
    BY <1>8 DEF CreateBase
  <2> HIDE DEF seen, heir
  <2>2. QED
    BY <1>1, <1>2, <2>1 DEF AtRest
<1>9. ASSUME NEW k \in Bases, DeleteBase(h, k) PROVE RowsRead(h)'
  <2> DEFINE seen == default \ {k}
             heir == Heir(k)
             rows == {x \in row : x.base = k}
  <2>1. admin' = [admin EXCEPT ![h] = [AtRest EXCEPT !.pc = "dropping", !.base = k,
                                         !.seen = seen, !.heir = heir, !.rows = rows]]
    BY <1>9 DEF DeleteBase
  <2>2. UNCHANGED <<row, clock>>
    BY <1>9 DEF DeleteBase, docs
  <2>3. \A y \in rows : /\ y.base = k /\ y.no <= clock
                        /\ \A x \in row : x.no = y.no => x.base = y.base /\ x.page = y.page
    BY <1>1
  <2> HIDE DEF seen, heir, rows
  <2>4. admin'[h].pc = "dropping" /\ admin'[h].base = k /\ admin'[h].rows = rows
    BY <1>1, <2>1 DEF AtRest
  <2>5. QED
    BY <2>2, <2>3, <2>4 DEF RowsRead
<1>10. CASE DropBase(h)
  <2> DEFINE going == [AtRest EXCEPT !.pc = "scrub", !.spots = {Holds(x) : x \in admin[h].rows}]
  <2>1. going.pc = "scrub" /\ going.spot = Nothing
    BY DEF AtRest
  <2>2. AdminEnd(h) \/ admin' = [admin EXCEPT ![h] = going]
    BY <1>10 DEF DropBase
  <2> HIDE DEF going
  <2>3. QED
    BY <1>1, <1>2, <1>3, <2>1, <2>2
<1>11. QED
  BY <1>3, <1>4, <1>5, <1>6, <1>7, <1>8, <1>9, <1>10 DEF AdminStep, ScrubDies, Purge, InsertBase

AllInStep == (\A b \in Bases, p \in Pages : InStep(b, p)) /\ \A h \in Handlers : RowsRead(h)

LEMMA AllInStepStep == ASSUME Ingested, AllInStep, [Next]_vars PROVE AllInStep'
<1>1. CASE UNCHANGED vars
  <2>1. \A b \in Bases, p \in Pages : InStep(b, p)'
    BY <1>1, SpotStays DEF AllInStep, vars, docs, history, RowsOf, VisitAt, EraseAt
  <2>2. \A h \in Handlers : RowsRead(h)'
    BY <1>1 DEF AllInStep, vars, docs, RowsRead
  <2>3. QED
    BY <2>1, <2>2 DEF AllInStep
<1>2. clock' \in Nat /\ Types
  BY TypesStep DEF Ingested, Types, StoreTypes
<1>3. ASSUME NEW c \in Crawls, CrawlStep(c) PROVE AllInStep'
  <2>1. Evolves /\ admin' = admin
    BY <1>2, <1>3, StepEvolves, Apart
  <2>2. \A h \in Handlers : RowsRead(h)'
    BY <1>2, <2>1, ReadRowsStay DEF AllInStep
  <2>3. QED
    BY <1>3, <2>2, CrawlsKeepStep DEF AllInStep
<1>4. ASSUME NEW h \in Handlers, AdminStep(h) PROVE AllInStep'
  <2>1. Evolves /\ \A g \in Handlers : g # h => admin'[g] = admin[g]
    BY <1>2, <1>4, StepEvolves, HandlersApart
  <2>2. \A g \in Handlers : RowsRead(g)'
    BY <1>2, <1>4, <2>1, ReadRowsStay, RequestReads DEF AllInStep
  <2>3. QED
    BY <1>4, <2>2, RequestsKeepStep DEF AllInStep
<1>5. QED
  BY <1>1, <1>3, <1>4 DEF Next

\* Where no call has failed and no two writers have met since the page was last ingested
\* undisturbed, row and chunks agree once nobody is at work on the page
\* (scraper.py:688-760, vector_store.py:44-90, knowledge.py:470-532, 1155).
THEOREM StoresStayInStep == Spec => []StoresAgree
<1>1. Init => Ingested /\ AllInStep
  <2>1. SUFFICES ASSUME Init PROVE Ingested /\ AllInStep
    OBVIOUS
  <2>2. /\ row = {} /\ \A b \in Bases, p \in Pages : chunks[b][p] = {}
        /\ \A c \in Crawls : crawl[c] = Idle
        /\ \A h \in Handlers : admin[h] = AtRest
    BY <2>1 DEF Init
  <2>3. Ingested
    BY <2>1, <2>2, TypesInit, RestPlaces DEF Ingested, RowsWereIngested, VisitSound, Visiting
  <2>4. /\ \A c \in Crawls, b \in Bases, p \in Pages : ~VisitAt(c, b, p)
        /\ \A h \in Handlers, b \in Bases, p \in Pages : ~EraseAt(h, b, p)
        /\ \A h \in Handlers : RowsRead(h)
    BY <2>2, RestPlaces DEF VisitAt, Visiting, EraseAt, RowsRead
  <2>5. \A b \in Bases, p \in Pages : Agree(b, p)
    BY <2>2 DEF Agree, RowsOf
  <2>6. QED
    BY <2>3, <2>4, <2>5 DEF AllInStep, InStep
<1>2. Ingested /\ AllInStep /\ [Next]_vars => (Ingested /\ AllInStep)'
  BY IngestedStep, AllInStepStep
<1>3. AllInStep => StoresAgree
  <2>1. SUFFICES ASSUME AllInStep, NEW b \in Bases, NEW p \in Pages,
                        <<b, p>> \notin spoiled, Quiet(<<b, p>>)
                 PROVE  Agree(b, p)
    BY DEF StoresAgree, Agree
  <2>2. QED
    BY <2>1, NobodyIsQuiet DEF AllInStep, InStep
<1>4. QED
  BY <1>1, <1>2, <1>3, PTL DEF Spec
=============================================================================
