-------------------------------- MODULE Crawl --------------------------------
(***************************************************************************)
(* Which pages a scrape job visits: the loop of run_scrape_job, a walk     *)
(* over the pages of one domain that starts from the sitemap, or from the  *)
(* start URL, and goes on batch by batch.  Its queue and its sets are      *)
(* local variables of one coroutine.  ScrapeJobs has the job around the    *)
(* walk, and KnowledgeStore what storing a page does.                      *)
(*                                                                         *)
(* The site is constant: a job fetches a page at most once.  What fails is *)
(* not: a request, the embedder and every statement may fail at any time.  *)
(***************************************************************************)
EXTENDS Naturals, Sequences

CONSTANTS
    Urls,         \* normalized URLs of the domain
    Start,        \* start_url
    Sitemap,      \* what the sitemap lists, <<>> if there is none or it takes too long
    English,      \* URLs with /en-US/ or /en/ in them
    Answer,       \* Answer[u]: what there is at u
    Links,        \* Links[u]: the links of page u into the domain
    Known,        \* rows of the knowledge base that a continued job finds, else {}
    Limit,        \* {max_pages}, or {} when the job has no limit
    HasSizeLimit, \* whether the job has max_size_mb
    Concurrency,  \* _SCRAPE_FETCH_CONCURRENCY: pages of a batch
    MaxQueue      \* _MAX_QUEUE_URLS

\* An "asset" has a file extension and is not fetched, "nothing" is no page of text, and
\* "offtopic" is read for its links only.
Answers == {"page", "offtopic", "nothing", "asset"}

\* What the theorems assume of a site and a job.
SiteAssumption ==
    /\ Start \in Urls /\ Sitemap \in Seq(Urls)
    /\ Answer \in [Urls -> Answers] /\ Links \in [Urls -> Seq(Urls)]
    /\ Known \subseteq Urls
    /\ Limit \subseteq Nat /\ Concurrency \in Nat \ {0} /\ MaxQueue \in Nat

VARIABLES
    pc,       \* "seeding", "looping", "filling", "visiting", "linking", "done", "cancelled"
    todo,     \* seeds or links not yet offered to the queue
    queue,
    visited,
    batch,    \* pages of the batch not yet dealt with
    stored,   \* pages with a row
    pages,    \* pages_scraped
    errors,   \* length of errors
    fetched,  \* history: the URLs requested, in order
    dropped,  \* history: a link was dropped because the queue was full
    limited   \* history: a limit has ended the walk

vars == <<pc, todo, queue, visited, batch, stored, pages, errors, fetched, dropped, limited>>

Members(s) == {s[i] : i \in DOMAIN s}

\* Of a sitemap in several languages only the English pages.
Seeds ==
    IF Sitemap = <<>> THEN {Start}
    ELSE IF Members(Sitemap) \cap English # {} THEN Members(Sitemap) \cap English
    ELSE Members(Sitemap)

TypeOK ==
    /\ pc \in {"seeding", "looping", "filling", "visiting", "linking", "done", "cancelled"}
    /\ todo \in Seq(Urls) /\ queue \in Seq(Urls) /\ batch \in Seq(Urls) /\ fetched \in Seq(Urls)
    /\ visited \subseteq Urls /\ stored \subseteq Urls
    /\ pages \in Nat /\ errors \in Nat
    /\ dropped \in BOOLEAN /\ limited \in BOOLEAN

Init ==
    /\ pc = "seeding"
    /\ todo = IF Sitemap = <<>> THEN <<Start>> ELSE Sitemap
    /\ queue = <<>> /\ batch = <<>> /\ fetched = <<>>
    /\ visited = Known
    /\ stored = {}
    /\ pages = 0 /\ errors = 0
    /\ dropped = FALSE /\ limited = FALSE

Goto(place) == pc' = place

-----------------------------------------------------------------------------
\* _enqueue, for the next seed or link.  Its set queued has the members of the queue.
Offer ==
    /\ pc \in {"seeding", "linking"} /\ todo # <<>>
    /\ todo' = Tail(todo)
    /\ LET u    == Head(todo)
           new  == u \notin visited \cup Members(queue) /\ (pc = "seeding" => u \in Seeds)
           full == Len(queue) >= MaxQueue
       IN  /\ queue' = IF new /\ ~full THEN Append(queue, u) ELSE queue
           /\ dropped' = (dropped \/ (new /\ full))
    /\ UNCHANGED <<pc, visited, batch, stored, pages, errors, fetched, limited>>

Offered ==
    /\ pc \in {"seeding", "linking"} /\ todo = <<>>
    /\ Goto(IF pc = "seeding" THEN "looping" ELSE "visiting")
    /\ UNCHANGED <<todo, queue, visited, batch, stored, pages, errors, fetched, dropped, limited>>

WithinLimit == \A n \in Limit : pages < n

\* The head of the loop: the queue is empty, a limit is reached or the job is cancelled.
Finish ==
    /\ pc = "looping"
    /\ \/ queue = <<>> /\ UNCHANGED limited
       \/ queue # <<>> /\ (~WithinLimit \/ HasSizeLimit) /\ limited' = TRUE
    /\ Goto("done")
    /\ UNCHANGED <<todo, queue, visited, batch, stored, pages, errors, fetched, dropped>>

Cancel ==
    /\ pc = "looping" /\ queue # <<>> /\ WithinLimit
    /\ Goto("cancelled")
    /\ UNCHANGED <<todo, queue, visited, batch, stored, pages, errors, fetched, dropped, limited>>

\* The controls of the job cannot be read: the loop notes it and tries again.
ControlFails ==
    /\ pc = "looping" /\ queue # <<>> /\ WithinLimit
    /\ errors' = errors + 1
    /\ UNCHANGED <<pc, todo, queue, visited, batch, stored, pages, fetched, dropped, limited>>

NextBatch ==
    /\ pc = "looping" /\ queue # <<>> /\ WithinLimit
    /\ Goto("filling")
    /\ UNCHANGED <<todo, queue, visited, batch, stored, pages, errors, fetched, dropped, limited>>

Pop ==
    /\ pc = "filling" /\ queue # <<>> /\ Len(batch) < Concurrency
    /\ queue' = Tail(queue)
    /\ LET u == Head(queue)
       IN  IF u \in visited \/ Answer[u] = "asset"
           THEN UNCHANGED <<visited, batch, fetched>>
           ELSE /\ visited' = visited \cup {u}
                /\ batch' = Append(batch, u)
                /\ fetched' = Append(fetched, u)
    /\ UNCHANGED <<pc, todo, stored, pages, errors, dropped, limited>>

Filled ==
    /\ pc = "filling" /\ (queue = <<>> \/ Len(batch) >= Concurrency)
    /\ Goto(IF batch = <<>> THEN "looping" ELSE "visiting")
    /\ UNCHANGED <<todo, queue, visited, batch, stored, pages, errors, fetched, dropped, limited>>

-----------------------------------------------------------------------------
\* A page is stored, and its links are offered to the queue.
Store ==
    /\ pc = "visiting" /\ batch # <<>> /\ Answer[Head(batch)] = "page"
    /\ stored' = stored \cup {Head(batch)}
    /\ pages' = pages + 1
    /\ batch' = Tail(batch)
    /\ todo' = Links[Head(batch)]
    /\ Goto("linking")
    /\ UNCHANGED <<queue, visited, errors, fetched, dropped, limited>>

\* The topic filter rejects the page; its links are followed all the same.
PassOver ==
    /\ pc = "visiting" /\ batch # <<>> /\ Answer[Head(batch)] = "offtopic"
    /\ batch' = Tail(batch)
    /\ todo' = Links[Head(batch)]
    /\ Goto("linking")
    /\ UNCHANGED <<queue, visited, stored, pages, errors, fetched, dropped, limited>>

Skip ==
    /\ pc = "visiting" /\ batch # <<>> /\ Answer[Head(batch)] = "nothing"
    /\ batch' = Tail(batch)
    /\ UNCHANGED <<pc, todo, queue, visited, stored, pages, errors, fetched, dropped, limited>>

\* The request of the page failed: the loop over the batch goes on.
FetchFails ==
    /\ pc = "visiting" /\ batch # <<>>
    /\ errors' = errors + 1
    /\ batch' = Tail(batch)
    /\ UNCHANGED <<pc, todo, queue, visited, stored, pages, fetched, dropped, limited>>

\* Anything else fails, before or after the page is stored: the rest of the batch is
\* abandoned, and counts as visited.
Break ==
    /\ pc = "visiting" /\ batch # <<>>
    /\ \/ UNCHANGED <<stored, pages>>
       \/ /\ Answer[Head(batch)] = "page"
          /\ stored' = stored \cup {Head(batch)}
          /\ pages' \in {pages, pages + 1}
    /\ errors' = errors + 1
    /\ batch' = <<>>
    /\ Goto("looping")
    /\ UNCHANGED <<todo, queue, visited, fetched, dropped, limited>>

Through ==
    /\ pc = "visiting" /\ batch = <<>>
    /\ Goto("looping")
    /\ UNCHANGED <<todo, queue, visited, batch, stored, pages, errors, fetched, dropped, limited>>

Next == Offer \/ Offered \/ Finish \/ Cancel \/ ControlFails \/ NextBatch \/ Pop \/ Filled
        \/ Store \/ PassOver \/ Skip \/ FetchFails \/ Break \/ Through

Spec == Init /\ [][Next]_vars

-----------------------------------------------------------------------------
(* Properties.                                                             *)

\* S has the seeds and, with every page that is read, what it links to - but for what a
\* continued job finds in the database, which it does not read.
Closed(S) ==
    /\ Seeds \ Known \subseteq S
    /\ \A u \in S : Answer[u] \in {"page", "offtopic"} => Members(Links[u]) \ Known \subseteq S

Reachable == {u \in Urls : \A S \in SUBSET Urls : Closed(S) => u \in S}

\* A job that ends as "completed", no link of which was dropped at the cap of the queue
\* and that no limit has ended, has stored every page that can be reached and no other:
\* none is lost to the order of the walk, to the batch it is in or to a failure nobody is
\* told of (services/scraper.py:467-474, 559, 608-623, 699-706, 785-812).
CompletedMissesNothing ==
    pc = "done" /\ errors = 0 /\ ~dropped /\ ~limited =>
        stored = {u \in Reachable : Answer[u] = "page"}

\* A continued job that finds all its seeds in the database - its start URL, when the
\* domain has no sitemap - requests nothing: what the interrupted job had queued and not
\* reached is remembered nowhere (scraper.py:493-507, 530-542, 612).
NothingToContinue == Seeds \subseteq Known => fetched = <<>>

\* A job requests no URL twice, and none that it finds in the database, in whatever order
\* links, seeds and failures come (scraper.py:467-474, 493-507, 609-620).
FetchedOnce ==
    /\ \A i, j \in DOMAIN fetched : fetched[i] = fetched[j] => i = j
    /\ Members(fetched) \cap Known = {}

\* The limit of pages is read between batches: it is passed by less than a batch
\* (scraper.py:559).
LimitPassedByABatch == \A n \in Limit : pages < n + Concurrency
=============================================================================
