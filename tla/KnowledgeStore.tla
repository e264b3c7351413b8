---------------------------- MODULE KnowledgeStore ----------------------------
(***************************************************************************)
(* Where the text of a crawled page is kept: a row of knowledge_documents  *)
(* in Postgres, which says what was ingested, and the chunks of the page   *)
(* in the Chroma collection of its knowledge base.  The two stores share   *)
(* no transaction, the rows no uniqueness and no foreign key, and a crawl, *)
(* the deletion of a source, the clean-up of duplicates and the deletion   *)
(* of a knowledge base all write both, each in an order of its own.        *)
(*                                                                         *)
(* Pages that differ only in what _canonical_source_key strips are one     *)
(* page for the clean-up and several for everything else.  The queue of a  *)
(* crawl, its limits and its controls belong to ScrapeJobs; a crawl here   *)
(* visits any page at any time, and finds any text.  A collection is named *)
(* by the base that has it; a job that begins when its base is gone writes *)
(* its rows for that base and its chunks into jamf_knowledge.              *)
(***************************************************************************)
EXTENDS Naturals, Sequences, FiniteSets

CONSTANTS
    Bases,       \* knowledge bases that may exist
    Opening,     \* those that exist at the start, oldest first; the first is the default
    Legacy,      \* the base whose collection is jamf_knowledge
    Pages,
    Canon,       \* Canon[p]: the key of page p for the clean-up of duplicates
    Texts,       \* contents a page may have
    Crawls,      \* scrape jobs being run at one time
    Handlers,    \* requests of administrators being handled at one time
    MaxVisits,   \* bound: pages visited
    MaxCalls,    \* bound: jobs started and requests of administrators
    MaxFailures, \* bound: calls to Chroma or the embedder that fail, crawls cut off
    Nothing      \* no base, page or text

ASSUME OpeningAssumption ==
    /\ Opening \in Seq(Bases) /\ Opening # <<>>
    /\ \A i, j \in DOMAIN Opening : Opening[i] = Opening[j] => i = j
ASSUME LegacyAssumption  == Legacy \in Bases
ASSUME CanonAssumption   == DOMAIN Canon = Pages
ASSUME NothingAssumption == Nothing \notin Bases \cup Pages \cup Texts \cup (Bases \X Pages)
ASSUME BoundsAssumption  == MaxVisits \in Nat /\ MaxCalls \in Nat /\ MaxFailures \in Nat

VARIABLES
    bases,      \* the knowledge bases, oldest first
    default,    \* those with is_default
    row,        \* the rows of knowledge_documents
    chunks,     \* chunks[b][p]: what the collection of base b holds of page p
    crawl,      \* crawl[c]: a scrape job and the visit it is making
    admin,      \* admin[h]: a request of an administrator
    clock,      \* numbers for rows and ingestions, in the order of their time
    ingested,   \* history: <<b, p, t>> that Chroma has acknowledged to a crawl of base b
    spoiled,    \* history: <<b, p>> where a call failed, or two writers met, or the deletion of
                \* b met a row it had not read, or a crawl or a row of another base used the
                \* collection of b, since a visit last ingested p undisturbed
    alone,      \* history: crawls whose visit nothing has disturbed
    raced,      \* history: bases whose deletion met the start of a job
    tangled,    \* history: two changes of the set of bases overlapped
    visits, calls, failures

docs    == <<row, chunks, ingested>>
kbs     == <<bases, default, tangled>>
history == <<spoiled, alone>>
bounds  == <<visits, calls, failures>>
vars    == <<docs, kbs, history, raced, crawl, admin, clock, bounds>>

Alive == {bases[i] : i \in DOMAIN bases}
Spots == Bases \X Pages

\* no: the ingestion a chunk is of; a page's chunks are written together.
Chunk == [no : Nat, text : Texts]
Row   == [no : Nat, base : Bases, into : Bases, page : Pages, text : Texts]

\* A crawl between two visits is "running"; the other places after it are awaits of a visit.
CrawlPlaces == {"idle", "healing", "starting", "running", "looked", "erasing", "embedding",
                "recording", "committing"}
AdminPlaces == {"idle", "creating", "dropping", "scrub", "scrubbing", "purging"}

\* into: the base whose collection a job uses, read once, when it begins.
Crawl == [pc : CrawlPlaces, base : Bases \cup {Nothing}, into : Bases \cup {Nothing}, page : Pages \cup {Nothing},
          text : Texts \cup {Nothing}, known : Texts \cup {Nothing}, old : SUBSET Chunk,
          row : SUBSET Row]
\* spots: whose chunks a deletion has yet to erase; spot: those it is erasing.
Admin == [pc : AdminPlaces, base : Bases \cup {Nothing}, spots : SUBSET Spots,
          seen : SUBSET Bases, heir : Bases \cup {Nothing}, rows : SUBSET Row,
          spot : Spots \cup {Nothing}, old : SUBSET Chunk]

Idle    == [pc |-> "idle", base |-> Nothing, into |-> Nothing, page |-> Nothing, text |-> Nothing,
            known |-> Nothing, old |-> {}, row |-> {}]
AtRest  == [pc |-> "idle", base |-> Nothing, spots |-> {}, seen |-> {}, heir |-> Nothing,
            rows |-> {}, spot |-> Nothing, old |-> {}]

Visiting == {"looked", "erasing", "embedding", "recording", "committing"}

TypeOK ==
    /\ bases \in Seq(Bases) /\ \A i, j \in DOMAIN bases : bases[i] = bases[j] => i = j
    /\ default \in SUBSET Alive
    /\ row \in SUBSET Row /\ \A x, y \in row : x.no = y.no => x = y
    /\ chunks \in [Bases -> [Pages -> SUBSET Chunk]]
    /\ crawl \in [Crawls -> Crawl]
    /\ \A c \in Crawls : /\ crawl[c].pc # "idle" => crawl[c].base \in Bases
                         /\ crawl[c].pc \in Visiting \cup {"running"} => crawl[c].into \in Bases
                         /\ crawl[c].pc \in Visiting => crawl[c].page \in Pages
    /\ admin \in [Handlers -> Admin]
    /\ clock \in Nat
    /\ ingested \in SUBSET (Bases \X Pages \X Texts)
    /\ spoiled \in SUBSET Spots /\ alone \in SUBSET Crawls
    /\ raced \in SUBSET Bases /\ tangled \in BOOLEAN
    /\ visits \in 0..MaxVisits /\ calls \in 0..MaxCalls /\ failures \in 0..MaxFailures

Init ==
    /\ bases = Opening /\ default = {Opening[1]} /\ tangled = FALSE
    /\ row = {} /\ chunks = [b \in Bases |-> [p \in Pages |-> {}]] /\ ingested = {}
    /\ crawl = [c \in Crawls |-> Idle] /\ admin = [h \in Handlers |-> AtRest]
    /\ clock = 0 /\ spoiled = {} /\ alone = {} /\ raced = {}
    /\ visits = 0 /\ calls = 0 /\ failures = 0

RowsOf(b, p) == {x \in row : x.base = b /\ x.page = p}
Active(b)    == {c \in Crawls : crawl[c].pc \notin {"idle", "healing", "starting"} /\ crawl[c].base = b}

Go(c, pc)    == crawl' = [crawl EXCEPT ![c].pc = pc]
Visited(c)   == crawl' = [crawl EXCEPT ![c] = [Idle EXCEPT !.pc = "running",
                                             !.base = crawl[c].base, !.into = crawl[c].into]]
\* Where the row of the page is, and where its chunks are.
Spot(c)      == <<crawl[c].base, crawl[c].page>>
Place(c)     == <<crawl[c].into, crawl[c].page>>
AdminGo(h, pc) == admin' = [admin EXCEPT ![h].pc = pc]
AdminEnd(h)  == admin' = [admin EXCEPT ![h] = AtRest]

\* Who is at work on a page of a base: visits, and deletions that still erase its chunks.
VisitsOn(s)  == {c \in Crawls : crawl[c].pc \in Visiting /\ s \in {Spot(c), Place(c)}}
ErasersOn(s) == {h \in Handlers : admin[h].pc \in {"scrub", "scrubbing"}
                                    /\ s \in admin[h].spots \cup {admin[h].spot}}
Quiet(s) == VisitsOn(s) = {} /\ ErasersOn(s) = {}

Spoil(S)  == /\ spoiled' = spoiled \cup S
             /\ alone' = alone \ UNION {VisitsOn(s) : s \in S}
Failure   == failures < MaxFailures /\ failures' = failures + 1
Call      == calls < MaxCalls /\ calls' = calls + 1
-----------------------------------------------------------------------------
\* start_scrape: the base that is named, or the default one, is read (with two defaults
\* _get_default_knowledge_base raises); a job that is continued has the base of the other
\* job, which is gone if that job met its deletion ...
StartScrape(c) ==
    /\ crawl[c].pc = "idle" /\ Call
    /\ \/ \E b \in Alive \cup raced :
            crawl' = [crawl EXCEPT ![c] = [Idle EXCEPT !.pc = "starting", !.base = b]]
       \/ /\ default = {} /\ bases # <<>>
          /\ crawl' = [crawl EXCEPT ![c] = [Idle EXCEPT !.pc = "healing", !.base = bases[1]]]
       \/ /\ bases = <<>>
          /\ crawl' = [crawl EXCEPT ![c] = [Idle EXCEPT !.pc = "healing", !.base = Legacy]]
    /\ UNCHANGED <<docs, kbs, history, raced, admin, clock, visits, failures>>

\* ... with no default, the oldest base is made it; with no base, one is created ...
Heal(c) ==
    LET b == crawl[c].base IN
    /\ crawl[c].pc = "healing"
    /\ \/ /\ b \in Alive /\ default' = default \cup {b} /\ UNCHANGED bases /\ Go(c, "starting")
       \/ /\ b \notin Alive /\ bases = <<>>
          /\ bases' = <<b>> /\ default' = default \cup {b} /\ Go(c, "starting")
       \/ /\ b \notin Alive /\ bases # <<>>        \* it is gone by now: an error
          /\ crawl' = [crawl EXCEPT ![c] = Idle] /\ UNCHANGED <<bases, default>>
    /\ tangled' = TRUE
    /\ UNCHANGED <<docs, history, raced, admin, clock, bounds>>

Collection(b) == IF b \in Alive THEN b ELSE Legacy

\* ... and the job is committed, whether or not the base is still there.  It begins with the
\* collection of the base or, if that is gone, with the default one.  (One whose row went
\* with the base ends at once: EndJob.)
StartJob(c) ==
    /\ crawl[c].pc = "starting"
    /\ crawl' = [crawl EXCEPT ![c].pc = "running", ![c].into = Collection(crawl[c].base)]
    /\ raced' = IF crawl[c].base \notin Alive \/ \E h \in Handlers :
                     admin[h].pc = "dropping" /\ admin[h].base = crawl[c].base
                THEN raced \cup {crawl[c].base} ELSE raced
    /\ UNCHANGED <<docs, kbs, history, admin, clock, bounds>>

EndJob(c) ==
    /\ crawl[c].pc = "running" /\ crawl' = [crawl EXCEPT ![c] = Idle]
    /\ UNCHANGED <<docs, kbs, history, raced, admin, clock, bounds>>
-----------------------------------------------------------------------------
\* A page is fetched with text t, and the hash of its row is read.  Two rows raise: the
\* page, and what is left of its batch, is not visited.
Look(c, p, t) ==
    LET b == crawl[c].base IN
    /\ crawl[c].pc = "running" /\ visits < MaxVisits /\ visits' = visits + 1
    /\ Cardinality(RowsOf(b, p)) < 2
    /\ crawl' = [crawl EXCEPT ![c].pc = "looked", ![c].page = p, ![c].text = t,
         ![c].known = IF RowsOf(b, p) = {} THEN Nothing ELSE (CHOOSE x \in RowsOf(b, p) : TRUE).text]
    /\ IF crawl[c].into = b /\ Quiet(<<b, p>>)
       THEN alone' = alone \cup {c} /\ UNCHANGED spoiled
       ELSE LET here == {<<b, p>>, <<crawl[c].into, p>>} IN
            /\ spoiled' = spoiled \cup here
            /\ alone' = alone \ ({c} \cup UNION {VisitsOn(s) : s \in here})
    /\ UNCHANGED <<docs, kbs, raced, admin, clock, calls, failures>>

\* The model finds the page off the topic.
OffTopic(c) ==
    /\ crawl[c].pc = "looked" /\ Visited(c)
    /\ UNCHANGED <<docs, kbs, history, raced, admin, clock, bounds>>

\* Mutant: the chunks of an earlier ingestion are left where they are.
NoErase(c) ==
    /\ crawl[c].pc = "looked" /\ crawl[c].known # crawl[c].text
    /\ Go(c, "embedding")
    /\ UNCHANGED <<docs, kbs, history, raced, admin, clock, bounds>>

\* Unchanged text is not embedded again.
Unchanged(c) ==
    /\ crawl[c].pc = "looked" /\ crawl[c].known = crawl[c].text
    /\ Go(c, "recording")
    /\ UNCHANGED <<docs, kbs, history, raced, admin, clock, bounds>>

\* ingest_document: delete_by_source asks for the ids of the page's chunks ...
FindOld(c) ==
    /\ crawl[c].pc = "looked" /\ crawl[c].known # crawl[c].text
    /\ crawl' = [crawl EXCEPT ![c].pc = "erasing", ![c].old = chunks[crawl[c].into][crawl[c].page]]
    /\ UNCHANGED <<docs, kbs, history, raced, admin, clock, bounds>>

\* ... and deletes those ...
EraseOld(c) ==
    /\ crawl[c].pc = "erasing"
    /\ chunks' = [chunks EXCEPT ![crawl[c].into][crawl[c].page] = @ \ crawl[c].old]
    /\ crawl' = [crawl EXCEPT ![c].pc = "embedding", ![c].old = {}]
    /\ UNCHANGED <<row, ingested, kbs, history, raced, admin, clock, bounds>>

\* ... and swallows every error of its own.
EraseFails(c) ==
    /\ \/ crawl[c].pc = "looked" /\ crawl[c].known # crawl[c].text
       \/ crawl[c].pc = "erasing"
    /\ crawl' = [crawl EXCEPT ![c].pc = "embedding", ![c].old = {}]
    /\ Spoil({Spot(c), Place(c)}) /\ Failure
    /\ UNCHANGED <<docs, kbs, raced, admin, clock, visits, calls>>

Added(c) == [chunks EXCEPT ![crawl[c].into][crawl[c].page] =
                @ \cup {[no |-> clock + 1, text |-> crawl[c].text]}]

\* Embedded, and added under new ids; the collection is created if there is none.
Ingest(c) ==
    /\ crawl[c].pc = "embedding"
    /\ chunks' = Added(c) /\ clock' = clock + 1
    /\ ingested' = ingested \cup {<<crawl[c].base, crawl[c].page, crawl[c].text>>}
    /\ Go(c, "recording")
    /\ UNCHANGED <<row, kbs, history, raced, admin, bounds>>

\* Mutant: an error of the embedder is logged and the page recorded all the same.
IngestFailsQuietly(c) ==
    /\ crawl[c].pc = "embedding" /\ Failure
    /\ Go(c, "recording") /\ Spoil({Spot(c), Place(c)})
    /\ UNCHANGED <<docs, kbs, raced, admin, clock, visits, calls>>

\* The embedder fails, or Chroma does, before or after it took the chunks: the visit ends.
IngestFails(c) ==
    /\ crawl[c].pc = "embedding" /\ Failure
    /\ \/ UNCHANGED <<chunks, clock>>
       \/ chunks' = Added(c) /\ clock' = clock + 1
    /\ Visited(c) /\ Spoil({Spot(c), Place(c)})
    /\ UNCHANGED <<row, ingested, kbs, raced, admin, visits, calls>>

\* The row is looked up once more; two rows raise here too.
FindRow(c) ==
    LET found == RowsOf(crawl[c].base, crawl[c].page) IN
    /\ crawl[c].pc = "recording"
    /\ \/ /\ Cardinality(found) < 2
          /\ crawl' = [crawl EXCEPT ![c].pc = "committing", ![c].row = found]
       \/ Cardinality(found) > 1 /\ Visited(c)
    /\ UNCHANGED <<docs, kbs, history, raced, admin, clock, bounds>>

\* It is inserted, or updated under its number; one that is gone by now raises.
Record(c) ==
    LET b == crawl[c].base IN
    LET p == crawl[c].page IN
    LET t == crawl[c].text IN
    LET same == {y \in row : \E x \in crawl[c].row : x.no = y.no} IN
    /\ crawl[c].pc = "committing"
    /\ \/ /\ crawl[c].row = {}
          /\ row' = row \cup {[no |-> clock + 1, base |-> b, into |-> crawl[c].into,
                              page |-> p, text |-> t]}
          /\ clock' = clock + 1
       \/ /\ crawl[c].row # {}
          /\ row' = (row \ same) \cup {[y EXCEPT !.text = t] : y \in same}
          /\ UNCHANGED clock
    /\ spoiled' = IF c \in alone /\ crawl[c].known # t THEN spoiled \ {Spot(c)} ELSE spoiled
    /\ Visited(c)
    /\ UNCHANGED <<chunks, ingested, kbs, alone, raced, admin, bounds>>

\* The task is cancelled, or the process ends, at an await of a visit.
CutOff(c) ==
    /\ crawl[c].pc \in Visiting /\ Failure
    /\ crawl' = [crawl EXCEPT ![c] = Idle]
    /\ Spoil({Spot(c), Place(c)})
    /\ UNCHANGED <<docs, kbs, raced, admin, clock, visits, calls>>
-----------------------------------------------------------------------------
\* Where a row says that its chunks are; in the collection of another base, deleting
\* them is to the harm of the page there.
Holds(x) == <<x.into, x.page>>
Stray(x) == x.into # x.base
Harmed(x) == {<<x.base, x.page>>, Holds(x)}

\* delete_source: the row first, in a transaction, the chunks after it.
DeleteSource(h) ==
    /\ admin[h].pc = "idle" /\ Call
    /\ \E x \in row :
         /\ row' = row \ {x}
         /\ admin' = [admin EXCEPT ![h] = [AtRest EXCEPT !.pc = "scrub", !.spots = {Holds(x)}]]
         /\ IF ~Stray(x) /\ Quiet(Holds(x)) THEN UNCHANGED history ELSE Spoil(Harmed(x))
    /\ UNCHANGED <<chunks, ingested, kbs, raced, crawl, clock, visits, failures>>

\* delete_by_source, page by page: the ids, then the deletion.
ScrubFind(h) ==
    /\ admin[h].pc = "scrub"
    /\ \E s \in admin[h].spots :
         admin' = [admin EXCEPT ![h].pc = "scrubbing", ![h].spot = s, ![h].spots = @ \ {s},
                                ![h].old = chunks[s[1]][s[2]]]
    /\ UNCHANGED <<docs, kbs, history, raced, crawl, clock, bounds>>

Scrubbed(h) == IF admin[h].spots = {} THEN AdminEnd(h)
               ELSE admin' = [admin EXCEPT ![h].pc = "scrub", ![h].spot = Nothing, ![h].old = {}]

Scrub(h) ==
    /\ admin[h].pc = "scrubbing"
    /\ chunks' = [chunks EXCEPT ![admin[h].spot[1]][admin[h].spot[2]] = @ \ admin[h].old]
    /\ Scrubbed(h)
    /\ UNCHANGED <<row, ingested, kbs, history, raced, crawl, clock, bounds>>

ScrubFails(h) ==
    /\ admin[h].pc = "scrubbing" /\ Failure /\ Scrubbed(h)
    /\ Spoil({admin[h].spot})
    /\ UNCHANGED <<docs, kbs, raced, crawl, clock, visits, calls>>

\* The process of the request ends: the pages it has not come to keep their chunks.
ScrubDies(h) ==
    /\ admin[h].pc \in {"scrub", "scrubbing"} /\ Failure /\ AdminEnd(h)
    /\ Spoil(Spots \cap (admin[h].spots \cup {admin[h].spot}))
    /\ UNCHANGED <<docs, kbs, raced, crawl, clock, visits, calls>>

\* cleanup_duplicate_sources: of the rows of a base with one key all but the newest.
Duplicates ==
    {x \in row : \E y \in row : y.base = x.base /\ Canon[y.page] = Canon[x.page] /\ y.no > x.no}

FindDuplicates(h) ==
    /\ admin[h].pc = "idle" /\ Call /\ Duplicates # {}
    /\ admin' = [admin EXCEPT ![h] = [AtRest EXCEPT !.pc = "purging", !.rows = Duplicates]]
    /\ UNCHANGED <<docs, kbs, history, raced, crawl, clock, visits, failures>>

\* They are deleted by their ids; their chunks stay.
Purge(h) ==
    LET gone == {x \in row : \E y \in admin[h].rows : y.no = x.no} IN
    /\ admin[h].pc = "purging" /\ row' = row \ gone
    /\ Spoil({<<x.base, x.page>> : x \in gone})
    /\ AdminEnd(h)
    /\ UNCHANGED <<chunks, ingested, kbs, raced, crawl, clock, bounds>>
-----------------------------------------------------------------------------
Changing == {h \in Handlers : admin[h].pc \in {"creating", "dropping"}}
Tangle   == tangled' = (tangled \/ Changing # {} \/ \E c \in Crawls : crawl[c].pc = "healing")

\* create_knowledge_base: the bases are read ...
CreateBase(h, b, asDefault) ==
    /\ admin[h].pc = "idle" /\ Call
    /\ b \notin Alive
    /\ admin' = [admin EXCEPT ![h] = [AtRest EXCEPT !.pc = "creating", !.base = b,
         !.seen = IF asDefault THEN default ELSE {},
         !.heir = IF asDefault \/ bases = <<>> THEN b ELSE Nothing]]
    /\ Tangle
    /\ UNCHANGED <<docs, bases, default, history, raced, crawl, clock, visits, failures>>

\* Mutant: nothing makes the name of a base unique.
InsertableTwice(h) == admin[h].seen \subseteq Alive

Insertable(h) == admin[h].base \notin Alive /\ admin[h].seen \subseteq Alive

\* ... the default ones among those lose the mark, and the new base is inserted.  A base that
\* is gone or a name that is taken fails the transaction.
InsertBase(h) ==
    LET b == admin[h].base IN
    /\ admin[h].pc = "creating"
    /\ \/ /\ Insertable(h)
          /\ bases' = Append(bases, b)
          /\ default' = (default \ admin[h].seen) \cup ({admin[h].heir} \cap {b})
       \/ ~Insertable(h) /\ UNCHANGED <<bases, default>>
    /\ AdminEnd(h)
    /\ UNCHANGED <<docs, history, raced, crawl, clock, tangled, bounds>>

\* Mutant: the jobs of the base are deleted with it, whatever they are doing.
MayDropBusy(b) == b \in Alive /\ Len(bases) > 1

MayDrop(b) == b \in Alive /\ Active(b) = {} /\ Len(bases) > 1

\* Mutant: the next base in the list, which may be the one that is deleted.
HeirFirst(b) == IF b \in default THEN bases[1] ELSE Nothing

\* The oldest of the others becomes the default.
Heir(b) == IF b \in default THEN bases[IF bases[1] = b THEN 2 ELSE 1] ELSE Nothing

Without(b) == LET at == CHOOSE i \in DOMAIN bases : bases[i] = b
              IN  IF b \notin Alive THEN bases
                  ELSE [i \in 1..Len(bases) - 1 |-> bases[IF i < at THEN i ELSE i + 1]]

\* delete_knowledge_base: its jobs, the bases and its documents are read ...
DeleteBase(h, b) ==
    /\ admin[h].pc = "idle" /\ Call /\ MayDrop(b)
    /\ admin' = [admin EXCEPT ![h] = [AtRest EXCEPT !.pc = "dropping", !.base = b,
         !.seen = default \ {b}, !.heir = Heir(b), !.rows = {x \in row : x.base = b}]]
    /\ raced' = IF \E c \in Crawls : crawl[c].pc \in {"starting", "healing"} /\ crawl[c].base = b
                THEN raced \cup {b} ELSE raced
    /\ Tangle
    /\ UNCHANGED <<docs, bases, default, history, crawl, clock, visits, failures>>

\* ... and deleted, with a new default; an heir that is gone by now fails the transaction.
DropBase(h) ==
    LET b == admin[h].base IN
    LET heir == admin[h].heir IN
    LET gone == {x \in row : \E y \in admin[h].rows : y.no = x.no} IN
    LET spots == {<<b, p>> : p \in Pages} IN
    LET stray == {x \in admin[h].rows : Stray(x)} IN
    /\ admin[h].pc = "dropping"
    /\ \/ /\ heir \notin Alive \cup {Nothing} /\ AdminEnd(h)
          /\ UNCHANGED <<row, bases, default, history>>
       \/ /\ heir \in Alive \cup {Nothing}
          /\ row' = row \ gone
          /\ bases' = Without(b)
          /\ default' = (default \cup ({heir} \cap Alive)) \ {b}
          /\ IF admin[h].rows = {} THEN AdminEnd(h)
             ELSE admin' = [admin EXCEPT ![h] = [AtRest EXCEPT !.pc = "scrub",
                              !.spots = {Holds(x) : x \in admin[h].rows}]]
          /\ Spoil({s \in spots : ~Quiet(s) \/ RowsOf(b, s[2]) \ gone # {}}
                     \cup UNION {Harmed(x) : x \in stray})
    /\ UNCHANGED <<chunks, ingested, raced, crawl, clock, tangled, bounds>>

CrawlStep(c) ==
    \/ StartScrape(c) \/ Heal(c) \/ StartJob(c) \/ EndJob(c)
    \/ \E p \in Pages, t \in Texts : Look(c, p, t)
    \/ OffTopic(c) \/ Unchanged(c) \/ FindOld(c) \/ EraseOld(c) \/ EraseFails(c)
    \/ Ingest(c) \/ IngestFails(c) \/ FindRow(c) \/ Record(c) \/ CutOff(c)

AdminStep(h) ==
    \/ DeleteSource(h) \/ ScrubFind(h) \/ Scrub(h) \/ ScrubFails(h) \/ ScrubDies(h)
    \/ FindDuplicates(h) \/ Purge(h)
    \/ \E b \in Bases, asDefault \in BOOLEAN : CreateBase(h, b, asDefault)
    \/ InsertBase(h)
    \/ \E b \in Bases : DeleteBase(h, b)
    \/ DropBase(h)

Next == (\E c \in Crawls : CrawlStep(c)) \/ (\E h \in Handlers : AdminStep(h))

Spec == Init /\ [][Next]_vars
-----------------------------------------------------------------------------
\* Where no call has failed and no two writers have met since the page was last ingested
\* undisturbed, the stores agree once nobody is at work on the page: without a row there are
\* no chunks, otherwise there is one row, and the chunks are those of one ingestion of the
\* text whose hash it holds (scraper.py:688-760, vector_store.py:44-90, knowledge.py:1155).
\* The deletion of a base meets whoever wrote a row between its reading of the rows and its
\* commit: it erases the chunks of the page and leaves the row (knowledge.py:496-531).  A
\* writer on the page of jamf_knowledge is also a job whose base was gone when it began, and
\* the deletion of a row that such a job has left (scraper.py:415, 431-447).
StoresAgree ==
    \A b \in Bases, p \in Pages :
        <<b, p>> \notin spoiled /\ Quiet(<<b, p>>) =>
            \/ RowsOf(b, p) = {} /\ chunks[b][p] = {}
            \/ \E x \in RowsOf(b, p), k \in chunks[b][p] :
                 RowsOf(b, p) = {x} /\ chunks[b][p] = {k} /\ k.text = x.text

\* Whatever fails and whoever meets, a row never claims a text that Chroma has not
\* acknowledged for this page in a crawl of this base (scraper.py:719-760).
RowsWereIngested == \A x \in row : <<x.base, x.page, x.text>> \in ingested

\* As long as changes of the set of bases do not overlap there is exactly one default base
\* (knowledge.py:424-445 and 487-518).
BasesSound == ~tangled => Cardinality(default) = 1

\* A base that is deleted is left by everyone: no job crawls into it, no row of it is left or
\* comes back, unless the start of a job met the deletion (knowledge.py:470-530).
DeletedIsGone ==
    \A b \in Bases \ (Alive \cup raced) : Active(b) = {} /\ \A x \in row : x.base # b
=============================================================================
