----------------------------- MODULE Crawl_proofs -----------------------------
(***************************************************************************)
(* Proofs about Crawl for every site, limit, batch size and cap: a walk    *)
(* that ends of itself, without a failure or a dropped link, has stored    *)
(* exactly the pages that can be reached; no URL is requested twice; the   *)
(* limit is passed by less than a batch; and a continued job all of whose  *)
(* seeds are known does nothing.                                           *)
(*                                                                         *)
(* What can be reached is the least closed set of pages, so no induction   *)
(* along links is needed: Within says that the walk stays inside every     *)
(* closed set, and NoLoss that what it has dealt with links only to the    *)
(* frontier, so that at the end, when nothing waits, it is closed itself.  *)
(***************************************************************************)
EXTENDS Crawl, TLAPS

LEMMA MembersEmpty == Members(<<>>) = {}
BY DEF Members

LEMMA MembersIn ==
    ASSUME NEW X, NEW s \in Seq(X) PROVE Members(s) \subseteq X
BY DEF Members

LEMMA MembersAppend ==
    ASSUME NEW X, NEW s \in Seq(X), NEW e \in X
    PROVE  /\ Append(s, e) \in Seq(X) /\ Len(Append(s, e)) = Len(s) + 1
           /\ Members(Append(s, e)) = Members(s) \cup {e}
<1>1. /\ Append(s, e) \in Seq(X) /\ Len(Append(s, e)) = Len(s) + 1
      /\ DOMAIN Append(s, e) = 1 .. Len(s) + 1 /\ DOMAIN s = 1 .. Len(s)
      /\ \A i \in 1 .. Len(s) : Append(s, e)[i] = s[i]
      /\ Append(s, e)[Len(s) + 1] = e /\ Len(s) \in Nat
  OBVIOUS
<1> QED BY <1>1 DEF Members

LEMMA MembersTail ==
    ASSUME NEW X, NEW s \in Seq(X), s # <<>>
    PROVE  /\ Head(s) \in X /\ Tail(s) \in Seq(X) /\ Len(Tail(s)) = Len(s) - 1 /\ Len(s) \in Nat \ {0}
           /\ Members(s) = {Head(s)} \cup Members(Tail(s))
<1>1. /\ Head(s) \in X /\ Tail(s) \in Seq(X) /\ Len(Tail(s)) = Len(s) - 1 /\ Len(s) \in Nat \ {0}
      /\ DOMAIN s = 1 .. Len(s) /\ DOMAIN Tail(s) = 1 .. Len(s) - 1 /\ Head(s) = s[1]
      /\ \A i \in 1 .. Len(s) - 1 : Tail(s)[i] = s[i + 1]
  OBVIOUS
<1>2. Members(s) \subseteq {Head(s)} \cup Members(Tail(s))
  <2> SUFFICES ASSUME NEW i \in 1 .. Len(s) PROVE s[i] \in {Head(s)} \cup Members(Tail(s))
    BY <1>1 DEF Members
  <2>1. CASE i = 1
    BY <1>1, <2>1
  <2>2. CASE i # 1
    <3>1. i - 1 \in 1 .. Len(s) - 1 /\ Tail(s)[i - 1] = s[i]
      BY <1>1, <2>2
    <3> QED BY <1>1, <3>1 DEF Members
  <2> QED BY <2>1, <2>2
<1>3. {Head(s)} \cup Members(Tail(s)) \subseteq Members(s)
  <2>1. Head(s) \in Members(s)
    BY <1>1 DEF Members
  <2>2. ASSUME NEW i \in 1 .. Len(s) - 1 PROVE Tail(s)[i] \in Members(s)
    <3>1. i + 1 \in 1 .. Len(s)
      BY <1>1
    <3> QED BY <1>1, <3>1 DEF Members
  <2> QED BY <1>1, <2>1, <2>2 DEF Members
<1> QED BY <1>1, <1>2, <1>3

-----------------------------------------------------------------------------
LEMMA SeedsType ==
    ASSUME SiteAssumption
    PROVE  /\ (IF Sitemap = <<>> THEN <<Start>> ELSE Sitemap) \in Seq(Urls)
           /\ Seeds \subseteq Urls
           /\ Seeds \subseteq Members(IF Sitemap = <<>> THEN <<Start>> ELSE Sitemap)
<1>1. <<Start>> \in Seq(Urls) /\ Members(<<Start>>) = {Start}
  BY DEF SiteAssumption, Members
<1>2. Members(Sitemap) \subseteq Urls
  BY MembersIn DEF SiteAssumption
<1> QED BY <1>1, <1>2 DEF Seeds, SiteAssumption

LEMMA InitTyped == ASSUME SiteAssumption, Init PROVE TypeOK
<1>1. todo \in Seq(Urls) /\ visited \subseteq Urls
  BY SeedsType DEF Init, SiteAssumption
<1>2. queue \in Seq(Urls) /\ batch \in Seq(Urls) /\ fetched \in Seq(Urls)
  BY DEF Init
<1> QED BY <1>1, <1>2 DEF Init, TypeOK

LEMMA TypeStep == ASSUME SiteAssumption, TypeOK, [Next]_vars PROVE TypeOK'
<1> USE SiteAssumption DEF TypeOK
<1>1. CASE Offer
  <2>1. Head(todo) \in Urls /\ Tail(todo) \in Seq(Urls)
    BY <1>1, MembersTail DEF Offer
  <2> QED BY <1>1, <2>1 DEF Offer
<1>2. CASE Offered
  BY <1>2 DEF Offered, Goto
<1>3. CASE Finish
  BY <1>3 DEF Finish, Goto
<1>4. CASE Cancel
  BY <1>4 DEF Cancel, Goto
<1>5. CASE ControlFails
  BY <1>5 DEF ControlFails, Goto
<1>6. CASE NextBatch
  BY <1>6 DEF NextBatch, Goto
<1>7. CASE Pop
  <2>1. Head(queue) \in Urls /\ Tail(queue) \in Seq(Urls)
    BY <1>7, MembersTail DEF Pop
  <2>2. CASE UNCHANGED <<visited, batch, fetched>>
    BY <1>7, <2>1, <2>2 DEF Pop
  <2>3. CASE /\ visited' = visited \cup {Head(queue)}
             /\ batch' = Append(batch, Head(queue)) /\ fetched' = Append(fetched, Head(queue))
    BY <1>7, <2>1, <2>3 DEF Pop
  <2> QED BY <1>7, <2>2, <2>3 DEF Pop
<1>8. CASE Filled
  BY <1>8 DEF Filled, Goto
<1>9. CASE Store \/ PassOver \/ Skip \/ FetchFails
  <2>1. Head(batch) \in Urls /\ Tail(batch) \in Seq(Urls) /\ Links[Head(batch)] \in Seq(Urls)
    BY <1>9, MembersTail DEF Store, PassOver, Skip, FetchFails, SiteAssumption
  <2>2. /\ batch' \in Seq(Urls) /\ todo' \in Seq(Urls)
        /\ UNCHANGED <<queue, visited, fetched, dropped, limited>>
        /\ pc' \in {pc, "linking"}
        /\ stored' \in {stored, stored \cup {Head(batch)}}
        /\ pages' \in {pages, pages + 1} /\ errors' \in {errors, errors + 1}
    BY <1>9, <2>1 DEF Store, PassOver, Skip, FetchFails, Goto
  <2> QED BY <2>1, <2>2
<1>10. CASE Break
  <2>1. Head(batch) \in Urls
    BY <1>10, MembersTail DEF Break
  <2> QED BY <1>10, <2>1 DEF Break, Goto
<1>11. CASE Through
  BY <1>11 DEF Through, Goto
<1>12. CASE UNCHANGED vars
  BY <1>12 DEF vars
<1> QED
  BY <1>1, <1>2, <1>3, <1>4, <1>5, <1>6, <1>7, <1>8, <1>9, <1>10, <1>11, <1>12 DEF Next

-----------------------------------------------------------------------------
Books ==
    /\ Known \subseteq visited
    /\ Members(fetched) = visited \ Known
    /\ \A i, j \in DOMAIN fetched : fetched[i] = fetched[j] => i = j
    /\ Members(batch) \subseteq visited \ Known
    /\ stored \subseteq {u \in visited \ Known : Answer[u] = "page"}
    /\ pc \notin {"filling", "visiting", "linking"} => batch = <<>>
    /\ pc \notin {"seeding", "linking"} => todo = <<>>

LEMMA BooksStep == ASSUME SiteAssumption, TypeOK, Books, [Next]_vars PROVE Books'
<1> USE DEF TypeOK, Books
<1>1. CASE Offer
  <2>1. pc \in {"seeding", "linking"} /\ UNCHANGED <<pc, visited, batch, stored, fetched>>
    BY <1>1 DEF Offer
  <2> QED BY <2>1 DEF Members
<1>2. CASE Offered
  <2>1. /\ todo = <<>> /\ UNCHANGED <<todo, visited, batch, stored, fetched>>
        /\ \/ pc = "seeding" /\ pc' = "looping"
           \/ pc = "linking" /\ pc' = "visiting"
    BY <1>2 DEF Offered, Goto
  <2> QED BY <2>1 DEF Members
<1>3. CASE Finish \/ Cancel \/ ControlFails \/ NextBatch
  <2>1. /\ pc = "looping" /\ pc' \in {"done", "cancelled", "looping", "filling"}
        /\ UNCHANGED <<todo, visited, batch, stored, fetched>>
    BY <1>3 DEF Finish, Cancel, ControlFails, NextBatch, Goto
  <2> QED BY <2>1 DEF Members
<1>4. CASE Pop
  <2>1. CASE UNCHANGED <<visited, batch, fetched>>
    BY <1>4, <2>1 DEF Pop, Members
  <2>2. CASE ~ UNCHANGED <<visited, batch, fetched>>
    <3> DEFINE u == Head(queue)
    <3>1. /\ u \notin visited /\ pc = "filling"
          /\ visited' = visited \cup {u}
          /\ batch' = Append(batch, u) /\ fetched' = Append(fetched, u)
          /\ UNCHANGED <<pc, todo, stored>>
      BY <1>4, <2>2 DEF Pop
    <3>2. u \in Urls
      BY <1>4, MembersTail DEF Pop
    <3> HIDE DEF u
    <3>3. Members(batch') = Members(batch) \cup {u} /\ Members(fetched') = Members(fetched) \cup {u}
      BY <3>1, <3>2, MembersAppend
    <3>4. Members(batch)' = Members(batch') /\ Members(fetched)' = Members(fetched')
      BY DEF Members
    <3>5. \A i, j \in DOMAIN fetched' : fetched'[i] = fetched'[j] => i = j
      <4>1. \A i \in DOMAIN fetched : fetched[i] # u
        BY <3>1 DEF Members
      <4>2. /\ DOMAIN fetched = 1 .. Len(fetched) /\ DOMAIN fetched' = 1 .. Len(fetched) + 1
            /\ \A i \in 1 .. Len(fetched) : fetched'[i] = fetched[i]
            /\ fetched'[Len(fetched) + 1] = u /\ Len(fetched) \in Nat
        BY <3>1, <3>2
      <4> QED BY <4>1, <4>2
    <3>6. Known \subseteq visited' /\ u \notin Known
      BY <3>1
    <3> QED BY <3>1, <3>3, <3>4, <3>5, <3>6
  <2> QED BY <2>1, <2>2
<1>5. CASE Filled
  <2>1. /\ pc = "filling" /\ UNCHANGED <<todo, visited, batch, stored, fetched>>
        /\ (batch = <<>> /\ pc' = "looping") \/ pc' = "visiting"
    BY <1>5 DEF Filled, Goto
  <2> QED BY <2>1 DEF Members
<1>6. CASE Store \/ PassOver \/ Skip \/ FetchFails \/ Break
  <2> DEFINE u == Head(batch)
  <2>1. /\ pc = "visiting" /\ batch # <<>> /\ UNCHANGED <<visited, fetched>>
        /\ batch' = Tail(batch) \/ batch' = <<>>
        /\ pc' = "linking" \/ (pc' \in {"visiting", "looping"} /\ todo' = todo)
        /\ pc' = "looping" => batch' = <<>>
        /\ stored' = stored \/ (stored' = stored \cup {u} /\ Answer[u] = "page")
    BY <1>6 DEF Store, PassOver, Skip, FetchFails, Break, Goto
  <2>2. Members(batch) = {u} \cup Members(Tail(batch))
    BY <2>1, MembersTail
  <2>3. Members(batch') \subseteq Members(batch)
    BY <2>1, <2>2, MembersEmpty
  <2>4. Members(batch)' = Members(batch') /\ Members(fetched)' = Members(fetched)
    BY <2>1 DEF Members
  <2> HIDE DEF u
  <2> QED BY <2>1, <2>2, <2>3, <2>4
<1>7. CASE Through \/ UNCHANGED vars
  <2>1. /\ UNCHANGED <<todo, visited, batch, stored, fetched>>
        /\ pc' = pc \/ (pc = "visiting" /\ batch = <<>> /\ pc' = "looping")
    BY <1>7 DEF Through, vars, Goto
  <2> QED BY <2>1 DEF Members
<1> QED BY <1>1, <1>2, <1>3, <1>4, <1>5, <1>6, <1>7 DEF Next

-----------------------------------------------------------------------------
\* The pages still in the batch count as if they were stored.
Counted ==
    \A n \in Limit :
        /\ pages < n + Concurrency
        /\ pc = "filling" => pages < n /\ Len(batch) <= Concurrency
        /\ pc \in {"visiting", "linking"} => pages + Len(batch) < n + Concurrency

LEMMA CountedStep == ASSUME SiteAssumption, TypeOK, Books, Counted, [Next]_vars PROVE Counted'
<1> SUFFICES ASSUME NEW n \in Limit
             PROVE  /\ pages' < n + Concurrency
                    /\ pc' = "filling" => pages' < n /\ Len(batch') <= Concurrency
                    /\ pc' \in {"visiting", "linking"} => pages' + Len(batch') < n + Concurrency
  BY DEF Counted
<1>1. /\ n \in Nat /\ Concurrency \in Nat \ {0} /\ pages \in Nat /\ Len(batch) \in Nat
      /\ pages < n + Concurrency
      /\ pc = "filling" => pages < n /\ Len(batch) <= Concurrency
      /\ pc \in {"visiting", "linking"} => pages + Len(batch) < n + Concurrency
  BY DEF Counted, TypeOK, SiteAssumption
<1>2. CASE Offer \/ ControlFails \/ UNCHANGED vars
  BY <1>1, <1>2 DEF Offer, ControlFails, vars
<1>3. CASE Offered
  <2>1. /\ UNCHANGED <<pages, batch>> /\ pc' # "filling"
        /\ pc' = "visiting" => pc = "linking"
        /\ pc' # "linking"
    BY <1>3 DEF Offered, Goto
  <2> QED BY <1>1, <2>1
<1>4. CASE Finish \/ Cancel \/ Through
  BY <1>1, <1>4 DEF Finish, Cancel, Through, Goto
<1>5. CASE NextBatch
  <2>1. pages' = pages /\ batch' = <<>> /\ pages < n /\ pc' = "filling"
    BY <1>5 DEF NextBatch, Goto, WithinLimit, Books
  <2> QED BY <1>1, <2>1
<1>6. CASE Pop
  <2>1. pc = "filling" /\ UNCHANGED <<pc, pages>> /\ Len(batch) < Concurrency
    BY <1>6 DEF Pop
  <2>2. Len(batch') \in {Len(batch), Len(batch) + 1}
    BY <1>6, MembersTail, MembersAppend DEF Pop, TypeOK
  <2> QED BY <1>1, <2>1, <2>2
<1>7. CASE Filled
  BY <1>1, <1>7 DEF Filled, Goto
<1>8. CASE Store \/ PassOver \/ Skip \/ FetchFails \/ Break
  <2>1. /\ pc = "visiting" /\ batch # <<>> /\ pc' # "filling"
        /\ pages' = pages \/ pages' = pages + 1
        /\ batch' = Tail(batch) \/ pc' = "looping"
    BY <1>8 DEF Store, PassOver, Skip, FetchFails, Break, Goto
  <2>2. Len(batch) > 0 /\ Len(Tail(batch)) = Len(batch) - 1
    BY <2>1, MembersTail DEF TypeOK
  <2> QED BY <1>1, <2>1, <2>2
<1> QED BY <1>2, <1>3, <1>4, <1>5, <1>6, <1>7, <1>8 DEF Next

-----------------------------------------------------------------------------
Idle ==
    Seeds \subseteq Known =>
        pc \in {"seeding", "looping", "done"} /\ queue = <<>> /\ fetched = <<>>

LEMMA IdleStep == ASSUME SiteAssumption, TypeOK, Books, Idle, [Next]_vars PROVE Idle'
<1> SUFFICES ASSUME Seeds \subseteq Known
             PROVE  pc' \in {"seeding", "looping", "done"} /\ queue' = <<>> /\ fetched' = <<>>
  BY DEF Idle
<1>1. pc \in {"seeding", "looping", "done"} /\ queue = <<>> /\ fetched = <<>>
  BY DEF Idle
<1>2. CASE Offer
  BY <1>1, <1>2 DEF Offer, Books
<1>3. CASE Offered \/ Finish
  BY <1>1, <1>3 DEF Offered, Finish, Goto
<1>4. CASE UNCHANGED vars
  BY <1>1, <1>4 DEF vars
<1>5. ~(Cancel \/ ControlFails \/ NextBatch \/ Pop \/ Filled \/ Store \/ PassOver \/ Skip
        \/ FetchFails \/ Break \/ Through)
  BY <1>1 DEF Cancel, ControlFails, NextBatch, Pop, Filled, Store, PassOver, Skip,
              FetchFails, Break, Through
<1> QED BY <1>2, <1>3, <1>4, <1>5 DEF Next

-----------------------------------------------------------------------------
LEMMA ReachableClosed == ASSUME SiteAssumption PROVE Closed(Reachable)
<1>1. Seeds \ Known \subseteq Reachable
  BY SeedsType DEF Reachable, Closed
<1>2. ASSUME NEW u \in Reachable, Answer[u] \in {"page", "offtopic"},
             NEW v \in Members(Links[u]) \ Known
      PROVE  v \in Reachable
  <2>1. v \in Urls
    BY MembersIn DEF Reachable, SiteAssumption
  <2>2. ASSUME NEW S \in SUBSET Urls, Closed(S) PROVE v \in S
    BY <1>2, <2>2 DEF Reachable, Closed
  <2> QED BY <2>1, <2>2 DEF Reachable
<1> QED BY <1>1, <1>2 DEF Closed

\* What is queued or visited can be reached.
Within ==
    /\ (visited \cup Members(queue)) \ Known \subseteq Reachable
    /\ \A u \in Members(todo) \ Known : u \in Reachable \/ (pc = "seeding" /\ u \notin Seeds)

LEMMA WithinStep == ASSUME SiteAssumption, TypeOK, Books, Within, [Next]_vars PROVE Within'
<1> USE DEF Within
<1>1. CASE Offer
  <2> DEFINE u == Head(todo)
  <2>1. /\ Members(todo) = {u} \cup Members(Tail(todo)) /\ u \in Urls
    BY <1>1, MembersTail DEF Offer, TypeOK
  <2>2. /\ UNCHANGED <<pc, visited>> /\ todo' = Tail(todo)
        /\ \/ queue' = queue
           \/ /\ queue' = Append(queue, u)
              /\ pc = "seeding" => u \in Seeds
    BY <1>1 DEF Offer
  <2>3. Members(queue') \subseteq Members(queue) \cup {u}
    <3>1. Append(queue, u) \in Seq(Urls) => Members(Append(queue, u)) = Members(queue) \cup {u}
      BY <2>1, MembersAppend DEF TypeOK
    <3>2. Append(queue, u) \in Seq(Urls)
      BY <2>1, MembersAppend DEF TypeOK
    <3> QED BY <2>2, <3>1, <3>2
  <2>4. Members(queue)' = Members(queue') /\ Members(todo)' = Members(Tail(todo))
    BY <2>2 DEF Members
  <2>5. CASE queue' = queue
    BY <2>1, <2>2, <2>4, <2>5
  <2>6. CASE pc = "seeding" => u \in Seeds
    BY <2>1, <2>2, <2>3, <2>4, <2>6
  <2> HIDE DEF u
  <2> QED BY <2>2, <2>5, <2>6
<1>2. CASE Offered
  <2>1. UNCHANGED <<visited, queue, todo>> /\ todo = <<>>
    BY <1>2 DEF Offered
  <2> QED BY <2>1, MembersEmpty DEF Members
<1>3. CASE Finish \/ Cancel \/ ControlFails \/ NextBatch \/ Filled \/ Skip \/ FetchFails
           \/ Break \/ Through \/ UNCHANGED vars
  <2>1. UNCHANGED <<visited, queue, todo>> /\ (pc = "seeding" => pc' = pc)
    BY <1>3 DEF Finish, Cancel, ControlFails, NextBatch, Filled, Skip, FetchFails, Break,
                Through, vars
  <2> QED BY <2>1 DEF Members
<1>4. CASE Pop
  <2> DEFINE u == Head(queue)
  <2>1. Members(queue) = {u} \cup Members(Tail(queue))
    BY <1>4, MembersTail DEF Pop, TypeOK
  <2>2. UNCHANGED <<pc, todo>> /\ queue' = Tail(queue) /\ visited' \subseteq visited \cup {u}
    BY <1>4 DEF Pop
  <2>3. Members(queue)' = Members(Tail(queue)) /\ Members(todo)' = Members(todo)
    BY <2>2 DEF Members
  <2> HIDE DEF u
  <2> QED BY <2>1, <2>2, <2>3
<1>5. CASE Store \/ PassOver
  <2> DEFINE u == Head(batch)
  <2>1. /\ batch # <<>> /\ Answer[u] \in {"page", "offtopic"}
        /\ UNCHANGED <<visited, queue>> /\ todo' = Links[u] /\ pc' = "linking"
    BY <1>5 DEF Store, PassOver, Goto
  <2>2. u \in visited \ Known
    BY <2>1, MembersTail DEF Books, TypeOK
  <2>3. Members(Links[u]) \ Known \subseteq Reachable
    BY <2>1, <2>2, ReachableClosed DEF Closed
  <2>4. Members(todo)' = Members(Links[u]) /\ Members(queue)' = Members(queue)
    BY <2>1 DEF Members
  <2> HIDE DEF u
  <2> QED BY <2>1, <2>3, <2>4
<1> QED BY <1>1, <1>2, <1>3, <1>4, <1>5 DEF Next

-----------------------------------------------------------------------------
\* What is not lost: it has been visited, it waits, or it is not fetched at all.
Waiting == IF pc = "seeding" THEN Members(todo) \cap Seeds ELSE Members(todo)

Frontier == visited \cup Members(queue) \cup Waiting \cup {u \in Urls : Answer[u] = "asset"}

DealtWith == visited \ (Known \cup Members(batch))

NoLoss ==
    errors = 0 /\ ~dropped =>
        /\ Seeds \subseteq Frontier
        /\ \A u \in DealtWith :
            /\ Answer[u] \in {"page", "offtopic"} => Members(Links[u]) \subseteq Frontier
            /\ Answer[u] = "page" => u \in stored

Ended == pc = "done" /\ ~limited => queue = <<>>

\* A step loses nothing if it keeps the frontier and follows what it reads.
LEMMA NothingLost ==
    ASSUME NoLoss, Frontier \subseteq Frontier', stored \subseteq stored',
           errors' = 0 /\ ~dropped' => errors = 0 /\ ~dropped,
           \A u \in DealtWith' \ DealtWith :
               /\ Answer[u] \in {"page", "offtopic"} => Members(Links[u]) \subseteq Frontier'
               /\ Answer[u] = "page" => u \in stored'
    PROVE  NoLoss'
BY DEF NoLoss

LEMMA NoLossStep == ASSUME SiteAssumption, TypeOK, Books, NoLoss, [Next]_vars PROVE NoLoss'
<1>1. CASE Offer
  <2>1. CASE dropped'
    BY <2>1 DEF NoLoss
  <2>2. CASE ~dropped'
    <3> DEFINE u == Head(todo)
    <3>1. /\ Members(todo) = {u} \cup Members(Tail(todo)) /\ u \in Urls
      BY <1>1, MembersTail DEF Offer, TypeOK
    <3>2. /\ UNCHANGED <<pc, visited, batch, stored, errors>> /\ todo' = Tail(todo) /\ ~dropped
          /\ \/ queue' = queue /\ u \in visited \cup Members(queue)
             \/ queue' = queue /\ pc = "seeding" /\ u \notin Seeds
             \/ queue' = Append(queue, u)
      BY <1>1, <2>2 DEF Offer
    <3>3. Members(Append(queue, u)) = Members(queue) \cup {u}
      BY <3>1, MembersAppend DEF TypeOK
    <3>4. Members(queue)' = Members(queue') /\ Members(todo)' = Members(Tail(todo))
          /\ Members(batch)' = Members(batch)
      BY <3>2 DEF Members
    <3> HIDE DEF u
    <3>5. Frontier \subseteq Frontier'
      <4>1. Waiting \subseteq Waiting' \cup visited' \cup Members(queue')
        BY <3>1, <3>2, <3>3, <3>4 DEF Waiting
      <4>2. visited \cup Members(queue) \subseteq visited' \cup Members(queue')
        BY <3>2, <3>3
      <4> QED BY <3>4, <4>1, <4>2 DEF Frontier
    <3>6. DealtWith' = DealtWith
      BY <3>2, <3>4 DEF DealtWith
    <3> QED BY <3>2, <3>5, <3>6, NothingLost
  <2> QED BY <2>1, <2>2
<1>2. CASE Offered
  <2>1. UNCHANGED <<visited, batch, queue, todo, stored, errors, dropped>> /\ todo = <<>>
    BY <1>2 DEF Offered
  <2>2. Frontier' = Frontier /\ DealtWith' = DealtWith
    BY <2>1, MembersEmpty DEF Frontier, Waiting, DealtWith, Members
  <2> QED BY <2>1, <2>2, NothingLost
<1>3. CASE Finish \/ Cancel \/ NextBatch \/ Filled \/ Through \/ UNCHANGED vars
  <2>1. /\ UNCHANGED <<visited, batch, queue, todo, stored, errors, dropped>>
        /\ pc = "seeding" <=> pc' = "seeding"
    BY <1>3 DEF Finish, Cancel, NextBatch, Filled, Through, Goto, vars
  <2>2. Frontier' = Frontier /\ DealtWith' = DealtWith
    BY <2>1 DEF Frontier, Waiting, DealtWith, Members
  <2> QED BY <2>1, <2>2, NothingLost
<1>4. CASE ControlFails \/ FetchFails \/ Break
  <2>1. errors' # 0
    BY <1>4 DEF ControlFails, FetchFails, Break, TypeOK
  <2> QED BY <2>1 DEF NoLoss
<1>5. CASE Pop
  <2> DEFINE u == Head(queue)
  <2>1. Members(queue) = {u} \cup Members(Tail(queue)) /\ u \in Urls
    BY <1>5, MembersTail DEF Pop, TypeOK
  <2>2. /\ UNCHANGED <<pc, todo, stored, errors, dropped>> /\ queue' = Tail(queue)
        /\ \/ UNCHANGED <<visited, batch>> /\ (u \in visited \/ Answer[u] = "asset")
           \/ visited' = visited \cup {u} /\ batch' = Append(batch, u)
    BY <1>5 DEF Pop
  <2>3. Members(Append(batch, u)) = Members(batch) \cup {u}
    BY <2>1, MembersAppend DEF TypeOK
  <2>4. /\ Members(queue)' = Members(Tail(queue)) /\ Members(todo)' = Members(todo)
        /\ Members(batch)' = Members(batch')
    BY <2>2 DEF Members
  <2> HIDE DEF u
  <2>5. Frontier \subseteq Frontier'
    <3>1. Waiting' = Waiting
      BY <2>2, <2>4 DEF Waiting
    <3> QED BY <2>1, <2>2, <2>4, <3>1 DEF Frontier
  <2>6. DealtWith' \subseteq DealtWith
    BY <2>2, <2>3, <2>4 DEF DealtWith
  <2> QED BY <2>2, <2>5, <2>6, NothingLost
<1>6. CASE Store \/ PassOver \/ Skip
  <2> DEFINE u == Head(batch)
  <2>1. /\ UNCHANGED <<visited, queue, errors, dropped>> /\ batch' = Tail(batch) /\ batch # <<>>
        /\ pc = "visiting" /\ pc' # "seeding" /\ stored \subseteq stored'
        /\ \/ Answer[u] = "nothing" /\ todo' = todo
           \/ todo' = Links[u] /\ (Answer[u] = "page" => u \in stored')
    BY <1>6 DEF Store, PassOver, Skip, Goto
  <2>2. Members(batch) = {u} \cup Members(Tail(batch))
    BY <2>1, MembersTail DEF TypeOK
  <2>3. todo = <<>>
    BY <2>1 DEF Books
  <2>4. /\ Members(queue)' = Members(queue) /\ Members(todo)' = Members(todo')
        /\ Members(batch)' = Members(Tail(batch))
    BY <2>1 DEF Members
  <2> HIDE DEF u
  <2>5. Frontier \subseteq Frontier'
    <3>1. Waiting = {}
      BY <2>3, MembersEmpty DEF Waiting
    <3> QED BY <2>1, <2>4, <3>1 DEF Frontier
  <2>6. DealtWith' \subseteq DealtWith \cup {u}
    BY <2>1, <2>2, <2>4 DEF DealtWith
  <2>7. /\ Answer[u] \in {"page", "offtopic"} => Members(Links[u]) \subseteq Frontier'
        /\ Answer[u] = "page" => u \in stored'
    BY <2>1, <2>4 DEF Frontier, Waiting
  <2> QED BY <2>1, <2>5, <2>6, <2>7, NothingLost
<1> QED BY <1>1, <1>2, <1>3, <1>4, <1>5, <1>6 DEF Next

LEMMA EndedStep == ASSUME Ended, [Next]_vars PROVE Ended'
<1>1. CASE Finish
  BY <1>1 DEF Finish, Goto, Ended
<1>2. CASE UNCHANGED vars
  BY <1>2 DEF vars, Ended
<1>3. CASE Offer \/ ControlFails \/ Pop
  BY <1>3 DEF Offer, ControlFails, Pop, Ended
<1>4. CASE Offered \/ Cancel \/ NextBatch \/ Filled \/ Store \/ PassOver \/ Skip \/ FetchFails
           \/ Break \/ Through
  <2>1. pc' # "done"
    BY <1>4 DEF Offered, Cancel, NextBatch, Filled, Store, PassOver, Skip, FetchFails, Break,
                Through, Goto
  <2> QED BY <2>1 DEF Ended
<1> QED BY <1>1, <1>2, <1>3, <1>4 DEF Next

-----------------------------------------------------------------------------
Inv == TypeOK /\ Books /\ Counted /\ Idle /\ Within /\ NoLoss /\ Ended

THEOREM Invariance == ASSUME SiteAssumption PROVE Spec => []Inv
<1>1. Init => Inv
  <2> SUFFICES ASSUME Init PROVE Inv
    OBVIOUS
  <2>1. TypeOK
    BY InitTyped
  <2>2. Members(queue) = {} /\ Members(batch) = {} /\ Members(fetched) = {}
    BY MembersEmpty DEF Init
  <2>3. Books
    BY <2>2 DEF Init, Books
  <2>4. Counted /\ Idle /\ Ended
    BY DEF Init, Counted, Idle, Ended, SiteAssumption
  <2>5. Within
    BY <2>2, ReachableClosed DEF Init, Within, Closed
  <2>6. NoLoss
    <3>1. Seeds \subseteq Waiting
      BY SeedsType DEF Init, Waiting
    <3>2. DealtWith = {}
      BY DEF Init, DealtWith
    <3> QED BY <3>1, <3>2 DEF NoLoss, Frontier
  <2> QED BY <2>1, <2>3, <2>4, <2>5, <2>6 DEF Inv
<1>2. Inv /\ [Next]_vars => Inv'
  BY TypeStep, BooksStep, CountedStep, IdleStep, WithinStep, NoLossStep, EndedStep DEF Inv
<1> QED BY <1>1, <1>2, PTL DEF Spec

\* The walk visits a closed set of pages when it ends of itself.
LEMMA AllVisited ==
    ASSUME SiteAssumption, Inv, pc = "done", errors = 0, ~dropped, ~limited
    PROVE  stored = {u \in Reachable : Answer[u] = "page"}
<1> DEFINE Assets == {u \in Urls : Answer[u] = "asset"}
           S == (visited \ Known) \cup Assets
<1>1. queue = <<>> /\ todo = <<>> /\ batch = <<>>
  BY DEF Inv, Books, Ended
<1>2. Frontier = visited \cup Assets /\ DealtWith = visited \ Known
  BY <1>1, MembersEmpty DEF Frontier, Waiting, DealtWith
<1>3. S \in SUBSET Urls
  BY DEF Inv, TypeOK
<1>4. Closed(S)
  <2>1. Seeds \ Known \subseteq S
    BY <1>2 DEF Inv, NoLoss
  <2>2. ASSUME NEW u \in S, Answer[u] \in {"page", "offtopic"}
        PROVE  Members(Links[u]) \ Known \subseteq S
    <3>1. u \in DealtWith
      BY <1>2, <2>2
    <3> QED BY <1>2, <2>2, <3>1 DEF Inv, NoLoss
  <2> HIDE DEF S
  <2> QED BY <2>1, <2>2 DEF Closed
<1>5. Reachable \subseteq S
  BY <1>3, <1>4 DEF Reachable
<1>6. {u \in Reachable : Answer[u] = "page"} \subseteq stored
  <2> SUFFICES ASSUME NEW u \in Reachable, Answer[u] = "page" PROVE u \in stored
    OBVIOUS
  <2>1. u \in DealtWith
    BY <1>2, <1>5
  <2> QED BY <2>1 DEF Inv, NoLoss
<1>7. stored \subseteq {u \in Reachable : Answer[u] = "page"}
  BY DEF Inv, Books, Within
<1> QED BY <1>6, <1>7

\* A job that completes, not cut short by a limit or by the cap of the queue, has stored
\* every page that can be reached and no other, on every site.
THEOREM MissesNothing == ASSUME SiteAssumption PROVE Spec => []CompletedMissesNothing
<1>1. Inv => CompletedMissesNothing
  BY AllVisited DEF CompletedMissesNothing
<1> QED BY <1>1, Invariance, PTL

\* No URL is requested twice, and none that a continued job finds in the database.
THEOREM RequestedOnce == ASSUME SiteAssumption PROVE Spec => []FetchedOnce
<1>1. Inv => FetchedOnce
  BY DEF Inv, Books, FetchedOnce
<1> QED BY <1>1, Invariance, PTL

\* The limit of pages is passed by less than a batch, whatever its size.
THEOREM LimitKept == ASSUME SiteAssumption PROVE Spec => []LimitPassedByABatch
<1>1. Inv => LimitPassedByABatch
  BY DEF Inv, Counted, LimitPassedByABatch
<1> QED BY <1>1, Invariance, PTL

\* A continued job all of whose seeds are in the database requests nothing.
THEOREM ContinuationIsEmpty == ASSUME SiteAssumption PROVE Spec => []NothingToContinue
<1>1. Inv => NothingToContinue
  BY DEF Inv, Idle, NothingToContinue
<1> QED BY <1>1, Invariance, PTL
=============================================================================
