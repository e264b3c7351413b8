------------------------- MODULE AuthSessions_proofs -------------------------
(***************************************************************************)
(* Proofs about AuthSessions, for any number of tabs, requests and events: *)
(* the state is well typed, a tab refreshes at most once at a time with    *)
(* nobody waiting for a refresh that is not on its way, and a session      *)
(* nobody has disturbed is kept.                                           *)
(*                                                                         *)
(* OneRefresh is not inductive: a refresh whose page is gone must not be   *)
(* taken for one the tab waits for, only what matters on the server        *)
(* outlives its page, and a request that is sent must not still be         *)
(* carrying the token of an earlier refresh.  Sound adds these.            *)
(***************************************************************************)
EXTENDS AuthSessions, TLAPS

Sound(q) ==
    /\ q \in Req
    /\ q.driver => q.retry /\ Refreshing(q) /\ ~q.gone
    /\ q.pc = "idle" => q = Free
    /\ q.pc = "sent" => q.token = "none"
    /\ q.gone => Goes(q)
    /\ q.kind = "sso" => q.pc \in {"sent", "answer"}

\* A request whose answer the tab still acts on.
Live(q)    == q.pc # "idle" /\ ~q.gone
LiveSso(q) == Live(q) /\ q.kind = "sso"

\* OneRefresh, of a tab and its requests; a tab that is back from Microsoft does nothing else.
One(T, Q) ==
    /\ T.refreshing <=> \E r \in Slots : Q[r].driver
    /\ \A r, s \in Slots : Q[r].driver /\ Q[s].driver => r = s
    /\ \A r \in Slots : Q[r].pc = "queued" => T.refreshing
    /\ \A r \in Slots : LiveSso(Q[r]) =>
         T = [Blank EXCEPT !.page = "sso"] /\ \A s \in Slots \ {r} : ~Live(Q[s])

Shape ==
    /\ tab \in [Tabs -> Tab] /\ req \in [Tabs -> [Slots -> Req]]
    /\ \A t \in Tabs : One(tab[t], req[t]) /\ \A r \in Slots : Sound(req[t][r])

Small ==
    /\ stored \in Held \ {"old"} /\ cookie \in Held
    /\ account \in {"active", "disabled", "deleted"}
    /\ disturbed \in BOOLEAN /\ denied \in BOOLEAN
    /\ events \in 0..MaxEvents

Linked == stored = "none" => \A t \in Tabs, r \in Slots : "current" \notin {cookie, req[t][r].token}

IInv == Shape /\ Small /\ Linked

LEMMA IInvTypes == IInv => TypeOK /\ OneRefresh
BY DEF IInv, Shape, Small, Linked, Sound, One, TypeOK, OneRefresh, Driving, Queued

\* The same request, but for the age of what it carries.
Like(p, q) ==
    /\ p \in Req /\ p.pc = q.pc /\ p.kind = q.kind
    /\ p.retry = q.retry /\ p.driver = q.driver /\ p.gone = q.gone
    /\ p.token \in {q.token, Old(q.token)} /\ (q.access = "none" => p.access = "none")

LEMMA LikeSound == ASSUME NEW q, Sound(q), NEW p, Like(p, q) PROVE Sound(p)
<1>1. q.pc = "idle" => p = Free
  <2>1. SUFFICES ASSUME q.pc = "idle" PROVE p = Free
    OBVIOUS
  <2>2. q = Free
    BY <2>1 DEF Sound
  <2>3. /\ p.pc = "idle" /\ p.kind = "call" /\ p.access = "none" /\ p.token = "none"
        /\ p.retry = FALSE /\ p.driver = FALSE /\ p.gone = FALSE
    BY <2>2 DEF Like, Free, Old
  <2>4. p \in Req
    BY DEF Like
  <2>5. QED
    BY <2>3, <2>4 DEF Req, Free
<1>2. QED
  BY <1>1 DEF Sound, Like, Refreshing, Old, Goes

LEMMA FreeSound == Sound(Free) /\ Free.driver = FALSE /\ Free.pc = "idle" /\ Free.token = "none"
BY DEF Sound, Free, Req, Places, Kinds, Access, Held, Refreshing

LEMMA SameLike == ASSUME NEW q, q \in Req PROVE Like(q, q)
BY DEF Like

LEMMA ReplacedLike ==
    ASSUME Shape, NEW t \in Tabs, NEW r \in Slots
    PROVE  /\ Like(Replaced(req)[t][r], req[t][r])
           /\ Replaced(req)[t][r].token # "current"
<1> DEFINE q == req[t][r]
           p == [q EXCEPT !.token = Old(q.token)]
<1>1. q \in Req
  BY DEF Shape
<1>2. Replaced(req)[t][r] = p
  BY DEF Replaced
<1>3. p \in Req /\ p.token = Old(q.token) /\ p.pc = q.pc /\ p.kind = q.kind /\ p.retry = q.retry
      /\ p.driver = q.driver /\ p.gone = q.gone /\ p.access = q.access
  BY <1>1 DEF Req, Old, Held
<1> HIDE DEF p, q
<1>4. QED
  BY <1>2, <1>3 DEF Like, Old, q

LEMMA ReplacedShape == ASSUME Shape PROVE Replaced(req) \in [Tabs -> [Slots -> Req]]
<1>1. \A t \in Tabs, r \in Slots : [req[t][r] EXCEPT !.token = Old(@)] \in Req
  BY DEF Shape, Req, Old, Held
<1>2. QED
  BY <1>1 DEF Replaced

\* One tab moves, the requests of the others stay what they are.
LEMMA TabMoves ==
    ASSUME Shape, NEW t \in Tabs, NEW T \in Tab, NEW Q \in [Slots -> Req],
           tab' = [tab EXCEPT ![t] = T],
           req' \in [Tabs -> [Slots -> Req]], req'[t] = Q,
           \A u \in Tabs \ {t}, s \in Slots : Like(req'[u][s], req[u][s]),
           One(T, Q), \A s \in Slots : Sound(Q[s])
    PROVE  Shape'
<1>1. tab' \in [Tabs -> Tab] /\ tab'[t] = T /\ \A u \in Tabs \ {t} : tab'[u] = tab[u]
  BY DEF Shape
<1>2. ASSUME NEW u \in Tabs, u # t
      PROVE  One(tab[u], req'[u]) /\ \A s \in Slots : Sound(req'[u][s])
  <2>1. \A s \in Slots : Sound(req[u][s]) /\ Like(req'[u][s], req[u][s])
    BY <1>2 DEF Shape
  <2>2. \A s \in Slots : Sound(req'[u][s])
    BY <2>1, LikeSound
  <2>3. One(tab[u], req[u])
    BY <1>2 DEF Shape
  <2>4. \A s \in Slots : /\ req'[u][s].driver = req[u][s].driver /\ req'[u][s].pc = req[u][s].pc
                        /\ Live(req'[u][s]) = Live(req[u][s])
                        /\ LiveSso(req'[u][s]) = LiveSso(req[u][s])
    BY <2>1 DEF Like, Live, LiveSso
  <2>5. One(tab[u], req'[u])
    BY <2>3, <2>4 DEF One
  <2>6. QED
    BY <2>2, <2>5
<1>3. QED
  BY <1>1, <1>2 DEF Shape

\* One request of a tab moves, and another token may be stored.
LEMMA SlotMoves ==
    ASSUME Shape, NEW t \in Tabs, NEW r \in Slots, NEW q, Sound(q), NEW T \in Tab,
           NEW reqs, reqs = req \/ reqs = Replaced(req),
           tab' = [tab EXCEPT ![t] = T], req' = [reqs EXCEPT ![t][r] = q],
           \/ /\ q.driver = req[t][r].driver /\ T.refreshing = tab[t].refreshing
              /\ q.pc = "queued" => T.refreshing
           \/ ~tab[t].refreshing /\ T.refreshing /\ q.driver,
           \/ ~LiveSso(q) /\ \A s \in Slots \ {r} : ~LiveSso(req[t][s])
           \/ /\ T = tab[t] /\ (Live(q) => Live(req[t][r]))
              /\ LiveSso(q) => LiveSso(req[t][r])
    PROVE  Shape'
<1>1. reqs \in [Tabs -> [Slots -> Req]] /\ q \in Req
  BY ReplacedShape DEF Shape, Sound
<1>2. \A u \in Tabs, s \in Slots : Like(reqs[u][s], req[u][s]) /\ Sound(req[u][s])
  BY ReplacedLike, SameLike DEF Shape
<1> DEFINE Q == [reqs[t] EXCEPT ![r] = q]
<1>3. Q \in [Slots -> Req] /\ Q[r] = q /\ \A s \in Slots \ {r} : Q[s] = reqs[t][s]
  BY <1>1
<1>4. req' \in [Tabs -> [Slots -> Req]] /\ req'[t] = Q /\ \A u \in Tabs \ {t} : req'[u] = reqs[u]
  BY <1>1
<1> HIDE DEF Q
<1>5. \A s \in Slots : Sound(Q[s])
  BY <1>2, <1>3, LikeSound
<1>6. \A s \in Slots \ {r} : /\ Q[s].driver = req[t][s].driver /\ Q[s].pc = req[t][s].pc
                            /\ Live(Q[s]) = Live(req[t][s]) /\ LiveSso(Q[s]) = LiveSso(req[t][s])
  BY <1>2, <1>3 DEF Like, Live, LiveSso
<1>7. One(tab[t], req[t])
  BY DEF Shape
<1>8. One(T, Q)
  <2>0. ASSUME NEW s \in Slots, LiveSso(Q[s])
        PROVE  T = [Blank EXCEPT !.page = "sso"] /\ \A u \in Slots \ {s} : ~Live(Q[u])
    <3>1. T = tab[t] /\ (Live(q) => Live(req[t][r])) /\ LiveSso(req[t][s])
      BY <1>3, <1>6, <2>0
    <3>2. T = [Blank EXCEPT !.page = "sso"] /\ \A u \in Slots \ {s} : ~Live(req[t][u])
      BY <1>7, <3>1 DEF One
    <3>3. QED
      BY <1>3, <1>6, <3>1, <3>2
  <2>1. CASE /\ q.driver = req[t][r].driver /\ T.refreshing = tab[t].refreshing
             /\ q.pc = "queued" => T.refreshing
    <3>1. \A s \in Slots : Q[s].driver = req[t][s].driver
      BY <1>3, <1>6, <2>1
    <3>2. QED
      BY <1>3, <1>6, <1>7, <2>0, <2>1, <3>1 DEF One
  <2>2. CASE ~tab[t].refreshing /\ T.refreshing /\ q.driver
    <3>1. \A s \in Slots : ~req[t][s].driver /\ req[t][s].pc # "queued"
      BY <1>7, <2>2 DEF One
    <3>2. QED
      BY <1>3, <1>6, <2>0, <2>2, <3>1 DEF One
  <2>3. QED
    BY <2>1, <2>2
<1>9. QED
  BY <1>2, <1>3, <1>4, <1>5, <1>8, TabMoves

\* The same with a tab that stays as it is.
LEMMA SlotAlone ==
    ASSUME Shape, NEW t \in Tabs, NEW r \in Slots, NEW q, Sound(q),
           NEW reqs, reqs = req \/ reqs = Replaced(req),
           tab' = tab, req' = [reqs EXCEPT ![t][r] = q],
           q.driver = req[t][r].driver, q.pc = "queued" => tab[t].refreshing,
           Live(q) => Live(req[t][r]), LiveSso(q) => LiveSso(req[t][r])
    PROVE  Shape'
<1>1. tab' = [tab EXCEPT ![t] = tab[t]] /\ tab[t] \in Tab
  BY DEF Shape
<1>2. QED
  BY <1>1, SlotMoves

\* The refresh of a tab is over: nobody drives one and nobody waits.
LEMMA RefreshEnds ==
    ASSUME Shape, NEW t \in Tabs, NEW T \in Tab, ~T.refreshing, NEW Q \in [Slots -> Req],
           \A s \in Slots : Sound(Q[s]) /\ ~Q[s].driver /\ Q[s].pc # "queued" /\ ~LiveSso(Q[s]),
           tab' = [tab EXCEPT ![t] = T], req' = [req EXCEPT ![t] = Q]
    PROVE  Shape'
<1>1. One(T, Q)
  BY DEF One
<1>2. \A u \in Tabs, s \in Slots : Like(req[u][s], req[u][s])
  BY SameLike DEF Shape
<1>3. /\ req' \in [Tabs -> [Slots -> Req]] /\ req'[t] = Q
      /\ \A u \in Tabs \ {t} : req'[u] = req[u]
  BY DEF Shape
<1>4. QED
  BY <1>1, <1>2, <1>3, TabMoves

\* While a request of a tab is waited for, none of its others is a sign-on by Microsoft.
LEMMA OthersNotSso ==
    ASSUME Shape, NEW t \in Tabs, NEW r \in Slots, Live(req[t][r]) \/ tab[t].page # "sso"
    PROVE  \A s \in Slots \ {r} : ~LiveSso(req[t][s])
<1>1. One(tab[t], req[t])
  BY DEF Shape
<1>2. [Blank EXCEPT !.page = "sso"].page = "sso"
  BY DEF Blank
<1>3. QED
  BY <1>1, <1>2 DEF One

-----------------------------------------------------------------------------
LEMMA SentSound ==
    ASSUME NEW q \in Req, ~q.gone, NEW access \in Access, NEW jar \in Held
    PROVE  /\ Sound(Sent(q, access, jar)) /\ Sent(q, access, jar) \in Req
           /\ Sent(q, access, jar).driver = FALSE
           /\ Sent(q, access, jar).pc \in {"sent", "validate"}
           /\ Sent(q, access, jar).token \in {"none", jar}
<1>1. CASE q.kind = "init"
  <2> DEFINE p == [q EXCEPT !.pc = "validate", !.token = jar, !.driver = FALSE]
  <2>1. /\ p \in Req /\ p.pc = "validate" /\ p.token = jar /\ p.driver = FALSE /\ p.gone = q.gone
        /\ p.kind = q.kind
    BY DEF Req, Places
  <2> HIDE DEF p
  <2>2. Sound(p)
    BY <1>1, <2>1 DEF Sound
  <2>3. QED
    BY <1>1, <2>1, <2>2 DEF Sent, p
<1>2. CASE q.kind # "init"
  <2> DEFINE p == [q EXCEPT !.pc = "sent", !.access = access, !.token = "none", !.driver = FALSE]
  <2>1. /\ p \in Req /\ p.pc = "sent" /\ p.token = "none" /\ p.driver = FALSE /\ p.gone = q.gone
    BY DEF Req, Places, Held
  <2> HIDE DEF p
  <2>2. Sound(p)
    BY <2>1 DEF Sound
  <2>3. QED
    BY <1>2, <2>1, <2>2 DEF Sent, p
<1>3. QED
  BY <1>1, <1>2

LEMMA NewSound ==
    ASSUME NEW kind \in Kinds, NEW access \in Access, cookie \in Held
    PROVE  /\ Sound(New(kind, access)) /\ New(kind, access) \in Req
           /\ New(kind, access).driver = FALSE
           /\ New(kind, access).pc \in {"sent", "validate"}
           /\ New(kind, access).token \in {"none", cookie}
           /\ New(kind, access).kind = kind
<1> DEFINE q == [Free EXCEPT !.kind = kind]
<1>1. q \in Req /\ ~q.gone
  BY DEF Free, Req, Places, Access, Held
<1>2. New(kind, access) = Sent(q, access, cookie)
  BY DEF New
<1> HIDE DEF q
<1> DEFINE p == Sent(q, access, cookie)
<1>3. /\ Sound(p) /\ p \in Req /\ p.driver = FALSE /\ p.pc \in {"sent", "validate"}
      /\ p.token \in {"none", cookie}
  BY <1>1, SentSound
<1>4. p.kind = kind
  BY <1>1 DEF Sent, q, Req, Free
<1>5. QED
  BY <1>2, <1>3, <1>4

LEMMA AfterTab ==
    ASSUME NEW T \in Tab, NEW kinds
    PROVE  After(T, kinds) \in Tab /\ After(T, kinds).refreshing = T.refreshing
BY DEF After, Tab, Access

LEMMA RejectShape ==
    ASSUME Shape, NEW t \in Tabs, NEW r \in Slots, ~req[t][r].driver, Live(req[t][r]),
           Reject(t, r)
    PROVE  Shape'
<1>1. /\ tab[t] \in Tab /\ req[t][r] \in Req
  BY DEF Shape
<1>2. req[t][r].driver = FALSE
  BY <1>1 DEF Req
<1> DEFINE T == After(tab[t], {req[t][r].kind})
<1>3. T \in Tab /\ T.refreshing = tab[t].refreshing
  BY <1>1, AfterTab
<1>4. tab' = [tab EXCEPT ![t] = T] /\ req' = [req EXCEPT ![t][r] = Free]
  BY DEF Reject
<1> HIDE DEF T
<1>5. ~LiveSso(Free) /\ \A s \in Slots \ {r} : ~LiveSso(req[t][s])
  BY FreeSound, OthersNotSso DEF LiveSso, Live
<1>6. QED
  BY <1>2, <1>3, <1>4, <1>5, FreeSound, SlotMoves

LEMMA UnauthorizedShape ==
    ASSUME Shape, cookie \in Held, NEW t \in Tabs, NEW r \in Slots,
           ~req[t][r].driver, Live(req[t][r]), req[t][r].kind # "sso", Unauthorized(t, r)
    PROVE  Shape'
<1> DEFINE q == req[t][r]
           w == [q EXCEPT !.pc = "queued", !.access = "none", !.token = "none"]
           d == [q EXCEPT !.pc = "validate", !.retry = TRUE, !.driver = TRUE,
                          !.access = "none", !.token = cookie]
           T == [tab[t] EXCEPT !.refreshing = TRUE]
<1>1. q \in Req /\ tab[t] \in Tab /\ q.driver = FALSE /\ ~q.gone
  BY DEF Shape, Req, Live
<1>2. CASE q.retry
  BY <1>2, RejectShape DEF Unauthorized
<1>3. CASE ~q.retry /\ tab[t].refreshing
  <2>1. /\ w \in Req /\ w.pc = "queued" /\ w.driver = FALSE /\ w.gone = q.gone /\ w.kind = q.kind
    BY <1>1 DEF Req, Places, Access, Held
  <2>2. tab' = tab /\ req' = [req EXCEPT ![t][r] = w]
    BY <1>3 DEF Unauthorized
  <2> HIDE DEF w
  <2>3. Sound(w) /\ ~LiveSso(w)
    BY <1>1, <2>1 DEF Sound, LiveSso
  <2>4. QED
    BY <1>1, <1>3, <2>1, <2>2, <2>3, SlotAlone
<1>4. CASE ~q.retry /\ ~tab[t].refreshing
  <2>1. /\ d \in Req /\ d.pc = "validate" /\ d.driver = TRUE /\ d.retry = TRUE /\ d.gone = q.gone
        /\ d.kind = q.kind
    BY <1>1 DEF Req, Places, Access
  <2>2. T \in Tab /\ T.refreshing = TRUE
    BY <1>1 DEF Tab
  <2>3. tab' = [tab EXCEPT ![t] = T] /\ req' = [req EXCEPT ![t][r] = d]
    BY <1>4 DEF Unauthorized
  <2> HIDE DEF d, T
  <2>4. Sound(d) /\ ~LiveSso(d)
    BY <1>1, <2>1 DEF Sound, Refreshing, LiveSso
  <2>5. \A s \in Slots \ {r} : ~LiveSso(req[t][s])
    BY OthersNotSso
  <2>6. QED
    BY <1>4, <2>1, <2>2, <2>3, <2>4, <2>5, SlotMoves
<1>5. QED
  BY <1>2, <1>3, <1>4

LEMMA RefreshFailedShape ==
    ASSUME Shape, cookie \in Held, NEW t \in Tabs, NEW r \in Slots, req[t][r].driver,
           RefreshFailed(t, r)
    PROVE  Shape'
<1> DEFINE over  == Queued(t) \cup {r}
           mine  == IF tab[t].access = "none" THEN Free ELSE New("logout", tab[t].access)
           kinds == {req[t][s].kind : s \in over} \cup (IF tab[t].access = "none" THEN {"logout"} ELSE {})
           A == After(tab[t], kinds)
           T == [A EXCEPT !.refreshing = FALSE, !.leaving = TRUE]
           Q == [s \in Slots |-> IF s = r THEN mine ELSE IF s \in over THEN Free ELSE req[t][s]]
<1>1. tab[t] \in Tab /\ tab[t].access \in Access /\ One(tab[t], req[t])
  BY DEF Shape, Tab
<1>2. tab' = [tab EXCEPT ![t] = T] /\ req' = [req EXCEPT ![t] = Q]
  BY DEF RefreshFailed
<1>3. A \in Tab
  BY <1>1, AfterTab
<1>4. T \in Tab /\ ~T.refreshing
  <2> HIDE DEF A
  <2>1. QED
    BY <1>3 DEF Tab
<1>5. Sound(mine) /\ mine.driver = FALSE /\ mine.pc # "queued" /\ ~LiveSso(mine)
  <2>1. CASE tab[t].access = "none"
    BY <2>1, FreeSound DEF LiveSso, Live
  <2>2. CASE tab[t].access # "none"
    <3> DEFINE new == New("logout", tab[t].access)
    <3>1. /\ Sound(new) /\ new.driver = FALSE /\ new.pc \in {"sent", "validate"}
          /\ new.kind = "logout"
      BY <1>1, NewSound DEF Kinds
    <3> HIDE DEF new
    <3>2. mine = new
      BY <2>2 DEF new
    <3>3. QED
      BY <3>1, <3>2 DEF LiveSso
  <2>3. QED
    BY <2>1, <2>2
<1>6. \A s \in Slots : /\ Sound(req[t][s]) /\ (s # r => ~req[t][s].driver)
                       /\ s \notin over => req[t][s].pc # "queued"
                       /\ s # r => ~LiveSso(req[t][s])
  <2>1. Live(req[t][r])
    BY DEF Shape, Sound, Refreshing, Live
  <2>2. QED
    BY <1>1, <2>1, OthersNotSso DEF Shape, One, Queued
<1>7. Sound(Free) /\ ~Free.driver /\ Free.pc # "queued" /\ ~LiveSso(Free)
  BY FreeSound DEF LiveSso, Live
<1> HIDE DEF mine, over, T
<1>8. \A s \in Slots : Q[s] = IF s = r THEN mine ELSE IF s \in over THEN Free ELSE req[t][s]
  OBVIOUS
<1>9. \A s \in Slots : Sound(Q[s]) /\ ~Q[s].driver /\ Q[s].pc # "queued" /\ ~LiveSso(Q[s])
  BY <1>5, <1>6, <1>7, <1>8
<1>10. \A x : Sound(x) => x \in Req
  BY DEF Sound
<1>11. Q \in [Slots -> Req]
  BY <1>5, <1>6, <1>7, <1>10
<1> HIDE DEF Q
<1>12. QED
  BY <1>2, <1>4, <1>9, <1>11, RefreshEnds

\* A page that goes leaves requests that drive nothing and do not wait.
LEMMA AbandonedSound ==
    ASSUME Shape, NEW t \in Tabs
    PROVE  /\ Abandoned(t) \in [Slots -> Req]
           /\ \A s \in Slots :
                /\ Sound(Abandoned(t)[s]) /\ ~Abandoned(t)[s].driver /\ Abandoned(t)[s].pc # "queued"
                /\ Abandoned(t)[s].token \in {"none", req[t][s].token} /\ ~Live(Abandoned(t)[s])
<1>1. ASSUME NEW s \in Slots, Goes(req[t][s])
      PROVE  LET p == [req[t][s] EXCEPT !.gone = TRUE, !.driver = FALSE, !.retry = FALSE]
             IN  /\ p \in Req /\ Sound(p) /\ ~p.driver /\ p.pc # "queued"
                 /\ p.token = req[t][s].token /\ p.gone
  <2> DEFINE q == req[t][s]
             p == [q EXCEPT !.gone = TRUE, !.driver = FALSE, !.retry = FALSE]
  <2>1. q \in Req /\ Sound(q) /\ Goes(q)
    BY <1>1 DEF Shape
  <2>2. /\ p \in Req /\ p.driver = FALSE /\ p.pc = q.pc /\ p.kind = q.kind /\ p.token = q.token
        /\ p.gone = TRUE
    BY <2>1 DEF Req
  <2> HIDE DEF p, q
  <2>3. Goes(p) /\ p.pc # "idle" /\ p.pc # "queued"
    BY <2>1, <2>2 DEF Goes
  <2>4. Sound(p)
    BY <2>1, <2>2, <2>3 DEF Sound
  <2>5. QED
    BY <2>2, <2>3, <2>4 DEF p, q
<1>2. /\ Free \in Req /\ Sound(Free) /\ ~Free.driver /\ Free.pc = "idle" /\ Free.pc # "queued"
      /\ Free.token = "none"
  BY FreeSound DEF Sound
<1>3. QED
  BY <1>1, <1>2 DEF Abandoned, Live

LEMMA GoShape ==
    ASSUME Shape, NEW t \in Tabs, NEW T \in Tab, ~T.refreshing, Go(t, T)
    PROVE  Shape'
<1>1. tab' = [tab EXCEPT ![t] = T] /\ req' = [req EXCEPT ![t] = Abandoned(t)]
  BY DEF Go
<1>2. QED
  BY <1>1, AbandonedSound, RefreshEnds DEF LiveSso

LEMMA BeginShape ==
    ASSUME Shape, cookie \in Held, NEW t \in Tabs, NEW r \in Slots, NEW kind \in Kinds,
           kind # "sso", tab[t].page # "sso",
           Begin(t, r, kind), NEW T \in Tab, T.refreshing = tab[t].refreshing,
           tab' = [tab EXCEPT ![t] = T]
    PROVE  Shape'
<1>1. Sound(req[t][r]) /\ tab[t].access \in Access
  BY DEF Shape, Tab
<1>2. req[t][r].driver = FALSE
  BY <1>1, FreeSound DEF Begin, Sound
<1> DEFINE q == New(kind, tab[t].access)
<1>3. Sound(q) /\ q.driver = FALSE /\ q.pc # "queued" /\ ~LiveSso(q)
  BY <1>1, NewSound DEF LiveSso
<1>4. req' = [req EXCEPT ![t][r] = q]
  BY DEF Begin
<1> HIDE DEF q
<1>5. QED
  BY <1>2, <1>3, <1>4, OthersNotSso, SlotMoves

LEMMA BeginAlone ==
    ASSUME Shape, cookie \in Held, NEW t \in Tabs, NEW r \in Slots, NEW kind \in Kinds,
           kind # "sso", tab[t].page # "sso", Begin(t, r, kind), tab' = tab
    PROVE  Shape'
<1>1. tab' = [tab EXCEPT ![t] = tab[t]] /\ tab[t] \in Tab
  BY DEF Shape
<1>2. QED
  BY <1>1, BeginShape

\* The page of a sign-on goes elsewhere.
LEMMA SsoEnds ==
    ASSUME Shape, NEW t \in Tabs, NEW r \in Slots, LiveSso(req[t][r]),
           NEW T \in Tab, ~T.refreshing,
           tab' = [tab EXCEPT ![t] = T], req' = [req EXCEPT ![t][r] = Free]
    PROVE  Shape'
<1>1. Live(req[t][r]) /\ One(tab[t], req[t]) /\ Sound(req[t][r])
  BY DEF LiveSso, Shape
<1>2. tab[t].refreshing = FALSE
  BY <1>1 DEF One, Blank
<1>3. T.refreshing = FALSE
  BY DEF Tab
<1>4. req[t][r].driver = FALSE
  BY <1>1, <1>2 DEF One, Sound, Req
<1>5. ~LiveSso(Free) /\ \A s \in Slots \ {r} : ~LiveSso(req[t][s])
  BY <1>1, FreeSound, OthersNotSso DEF LiveSso, Live
<1>6. QED
  BY <1>2, <1>3, <1>4, <1>5, FreeSound, SlotMoves

-----------------------------------------------------------------------------
LEMMA ServerShape ==
    ASSUME Shape, cookie \in Held, NEW t \in Tabs, NEW r \in Slots,
           \/ Serve(t, r) \/ LogIn(t, r) \/ EndSession(t, r) \/ Cleared(t, r)
    PROVE  Shape'
<1> DEFINE q == req[t][r]
<1>1. /\ q \in Req /\ Sound(q) /\ tab[t] \in Tab /\ q.driver = FALSE
      /\ Blank \in Tab /\ Blank.refreshing = FALSE /\ q.pc \in {"sent", "cleared"}
      /\ ~LiveSso(Free)
  BY FreeSound DEF Shape, Sound, Refreshing, Serve, LogIn, EndSession, Cleared, Req, Blank, Tab,
                   Access, LiveSso, Live
<1>2. ASSUME Dropped(t, r) PROVE Shape'
  BY <1>1, <1>2, FreeSound, SlotAlone DEF Dropped, LiveSso, Live
<1>3. CASE Serve(t, r)
  <2>1. Live(q) /\ q.kind # "sso" /\ \A s \in Slots \ {r} : ~LiveSso(req[t][s])
    <3>1. Live(q) /\ q.kind # "sso"
      BY <1>1, <1>3 DEF Serve, Sound, Goes, Live
    <3>2. QED
      BY <3>1, OthersNotSso
  <2>2. CASE Reject(t, r)
    BY <1>1, <2>1, <2>2, RejectShape
  <2>3. CASE Unauthorized(t, r)
    BY <1>1, <2>1, <2>3, UnauthorizedShape
  <2>4. CASE req' = [req EXCEPT ![t][r] = Free] /\ tab' = tab
    BY <1>1, <2>4, FreeSound, SlotAlone DEF Live, LiveSso
  <2>5. CASE /\ req' = [req EXCEPT ![t][r] = Free]
             /\ tab' = [tab EXCEPT ![t].user = TRUE, ![t].hydrated = TRUE, ![t].due = FALSE,
                                   ![t].loading = @ /\ q.kind \notin Loads]
    <3> DEFINE T == [tab[t] EXCEPT !.user = TRUE, !.hydrated = TRUE, !.due = FALSE,
                                   !.loading = @ /\ q.kind \notin Loads]
    <3>1. T \in Tab /\ T.refreshing = tab[t].refreshing
      BY <1>1 DEF Tab
    <3>2. tab' = [tab EXCEPT ![t] = T]
      BY <1>1, <2>5 DEF Tab, Shape
    <3> HIDE DEF T
    <3>3. QED
      BY <1>1, <2>1, <2>5, <3>1, <3>2, FreeSound, SlotMoves
  <2>6. QED
    BY <1>3, <2>2, <2>3, <2>4, <2>5 DEF Serve
<1>4. CASE LogIn(t, r)
  <2> DEFINE a == [q EXCEPT !.pc = "answer", !.access = "none", !.token = "current"]
             p == IF q.gone THEN Free ELSE a
  <2>1. CASE Store(t, r, p) /\ UNCHANGED tab
    <3>1. /\ a \in Req /\ a.pc = "answer" /\ a.driver = FALSE /\ a.gone = q.gone /\ a.kind = q.kind
      BY <1>1 DEF Req, Places, Access, Held
    <3>2. req' = [Replaced(req) EXCEPT ![t][r] = p]
      BY <2>1 DEF Store
    <3> HIDE DEF a
    <3>3. /\ Sound(p) /\ p.driver = FALSE /\ p.pc # "queued"
          /\ (Live(p) => Live(q)) /\ (LiveSso(p) => LiveSso(q))
      BY <1>1, <3>1, FreeSound DEF Sound, Live, LiveSso
    <3> HIDE DEF p
    <3>4. QED
      BY <1>1, <2>1, <3>2, <3>3, SlotAlone
  <2>2. CASE Dropped(t, r)
    BY <1>2, <2>2
  <2>3. ~q.gone => Live(q) /\ (q.kind = "sso" => LiveSso(q))
    BY <1>1 DEF Live, LiveSso
  <2>4. CASE req' = [req EXCEPT ![t][r] = Free] /\ tab' = [tab EXCEPT ![t] = Blank] /\ LiveSso(q)
    BY <1>1, <2>4, SsoEnds
  <2>5. CASE Unauthorized(t, r) /\ ~q.gone /\ q.kind = "login"
    BY <1>1, <2>3, <2>5, UnauthorizedShape
  <2>6. CASE Reject(t, r) /\ ~q.gone
    BY <1>1, <2>3, <2>6, RejectShape
  <2>7. QED
    BY <1>4, <2>1, <2>2, <2>3, <2>4, <2>5, <2>6 DEF LogIn
<1>5. CASE EndSession(t, r)
  <2> DEFINE a == [q EXCEPT !.pc = "cleared", !.access = "none"]
             p == IF q.kind = "password" \/ q.gone THEN Free ELSE a
  <2>1. CASE Unstore(t, r, p) /\ UNCHANGED tab
    <3>1. /\ a \in Req /\ a.pc = "cleared" /\ a.driver = FALSE /\ a.gone = q.gone /\ a.kind = q.kind
      BY <1>1 DEF Req, Places, Access
    <3>2. req' = [Replaced(req) EXCEPT ![t][r] = p]
      BY <2>1 DEF Unstore
    <3> HIDE DEF a
    <3>3. /\ Sound(p) /\ p.driver = FALSE /\ p.pc # "queued"
          /\ (Live(p) => Live(q)) /\ ~LiveSso(p)
      BY <1>1, <1>5, <3>1, FreeSound DEF Sound, Live, LiveSso, EndSession
    <3> HIDE DEF p
    <3>4. QED
      BY <1>1, <2>1, <3>2, <3>3, SlotAlone
  <2>2. CASE Fails(t, r)
    <3>1. CASE ~q.gone /\ (Reject(t, r) \/ Unauthorized(t, r))
      <4>1. Live(q) /\ q.kind # "sso"
        BY <1>1, <1>5, <3>1 DEF Live, EndSession
      <4>2. QED
        BY <1>1, <3>1, <4>1, RejectShape, UnauthorizedShape
    <3>2. QED
      BY <1>2, <2>2, <3>1 DEF Fails
  <2>3. QED
    BY <1>2, <1>5, <2>1, <2>2 DEF EndSession
<1>6. CASE Cleared(t, r)
  BY <1>1, <1>6, RejectShape DEF Cleared, Sound, Goes, Live
<1>7. QED
  BY <1>3, <1>4, <1>5, <1>6

LEMMA RefreshShape ==
    ASSUME Shape, cookie \in Held, NEW t \in Tabs, NEW r \in Slots,
           \/ Validate(t, r) \/ Rotate(t, r) \/ Refused(t, r)
    PROVE  Shape'
<1> DEFINE q == req[t][r]
<1>1. q \in Req /\ Sound(q) /\ q.pc # "idle"
  BY DEF Shape, Validate, Rotate, Refused
<1>2. ASSUME NEW p \in Req, p.pc \in {"rotate", "refused"}, p.kind = q.kind, p.retry = q.retry,
             p.driver = q.driver, p.gone = q.gone, ~q.gone \/ p.pc = "rotate",
             q.kind # "sso", tab' = tab, req' = [req EXCEPT ![t][r] = p]
      PROVE  Shape'
  <2>1. Sound(p)
    BY <1>1, <1>2 DEF Sound, Refreshing, Goes
  <2>2. (Live(p) => Live(q)) /\ ~LiveSso(p)
    BY <1>1, <1>2 DEF Live, LiveSso
  <2>3. QED
    BY <1>2, <2>1, <2>2, SlotAlone
<1>3. ASSUME NEW reqs, reqs = req \/ reqs = Replaced(req), req' = [reqs EXCEPT ![t][r] = Free],
             q.gone, tab' = tab
      PROVE  Shape'
  <2>1. q.driver = FALSE
    BY <1>1, <1>3 DEF Sound, Req
  <2>2. QED
    BY <1>3, <2>1, FreeSound, SlotAlone DEF Live, LiveSso
<1>4. CASE Validate(t, r)
  <2>1. q.pc = "validate" /\ q.kind # "sso" /\ tab' = tab
    BY <1>1, <1>4 DEF Validate, Sound
  <2> DEFINE a == [q EXCEPT !.pc = "rotate", !.token = "none"]
             b == [q EXCEPT !.pc = "refused", !.token = "none"]
  <2>2. /\ a \in Req /\ a.pc = "rotate" /\ a.kind = q.kind /\ a.retry = q.retry
        /\ a.driver = q.driver /\ a.gone = q.gone
    BY <1>1 DEF Req, Places, Held
  <2>3. /\ b \in Req /\ b.pc = "refused" /\ b.kind = q.kind /\ b.retry = q.retry
        /\ b.driver = q.driver /\ b.gone = q.gone
    BY <1>1 DEF Req, Places, Held
  <2>4. \/ req' = [req EXCEPT ![t][r] = a]
        \/ q.gone /\ req' = [req EXCEPT ![t][r] = Free]
        \/ ~q.gone /\ req' = [req EXCEPT ![t][r] = b]
    BY <1>4 DEF Validate
  <2> HIDE DEF a, b
  <2>5. QED
    BY <1>2, <1>3, <2>1, <2>2, <2>3, <2>4
<1>5. CASE Rotate(t, r)
  <2>1. q.pc = "rotate" /\ q.kind # "sso" /\ tab' = tab
    BY <1>1, <1>5 DEF Rotate, Sound
  <2> DEFINE a == [q EXCEPT !.pc = "answer", !.token = "current"]
  <2>2. /\ a \in Req /\ a.pc = "answer" /\ a.kind = q.kind /\ a.retry = q.retry
        /\ a.driver = q.driver /\ a.gone = q.gone
    BY <1>1 DEF Req, Places, Held
  <2>3. \/ q.gone /\ req' = [Replaced(req) EXCEPT ![t][r] = Free]
        \/ ~q.gone /\ req' = [Replaced(req) EXCEPT ![t][r] = a]
    BY <1>5 DEF Rotate, Store
  <2> HIDE DEF a
  <2>4. CASE q.gone
    BY <1>3, <2>1, <2>3, <2>4
  <2>5. CASE ~q.gone
    <3>1. Sound(a)
      BY <1>1, <2>1, <2>2, <2>5 DEF Sound, Refreshing
    <3>2. (Live(a) => Live(q)) /\ ~LiveSso(a)
      BY <1>1, <2>1, <2>2, <2>5 DEF Live, LiveSso
    <3>3. QED
      BY <2>1, <2>2, <2>3, <2>5, <3>1, <3>2, SlotAlone
  <2>6. QED
    BY <2>4, <2>5
<1>6. CASE Refused(t, r)
  <2>1. Live(q) /\ q.kind # "sso"
    BY <1>1, <1>6 DEF Refused, Sound, Goes, Live
  <2>2. QED
    BY <1>6, <2>1, RefreshFailedShape, UnauthorizedShape DEF Refused
<1>7. QED
  BY <1>4, <1>5, <1>6

LEMMA HoldingTab ==
    ASSUME NEW T \in Tab
    PROVE  Holding(T) \in Tab /\ Holding(T).refreshing = T.refreshing
BY DEF Holding, Tab, Access

LEMMA ArriveShape ==
    ASSUME Shape, cookie \in Held, NEW t \in Tabs, NEW r \in Slots, Arrive(t, r)
    PROVE  Shape'
<1> DEFINE q == req[t][r]
<1>1. /\ q \in Req /\ Sound(q) /\ q.pc = "answer" /\ Live(q) /\ tab[t] \in Tab /\ One(tab[t], req[t])
      /\ q.token \in Held
  BY DEF Shape, Arrive, Sound, Goes, Live, Req
<1>2. CASE q.driver
  <2> DEFINE H == Holding(tab[t])
             T == [H EXCEPT !.refreshing = FALSE]
             Q == [s \in Slots |-> IF s \in Queued(t) \cup {r} THEN Sent(req[t][s], "live", q.token)
                                   ELSE req[t][s]]
  <2>1. H \in Tab
    BY <1>1, HoldingTab
  <2>2. T \in Tab /\ ~T.refreshing
    <3> HIDE DEF H
    <3>1. QED
      BY <2>1 DEF Tab
  <2>3. tab' = [tab EXCEPT ![t] = T] /\ req' = [req EXCEPT ![t] = Q]
    BY <1>2 DEF Arrive, Shape
  <2>4. ASSUME NEW s \in Slots, s \in Queued(t) \cup {r}
        PROVE  /\ Sound(Q[s]) /\ Q[s].driver = FALSE /\ Q[s].pc # "queued" /\ ~LiveSso(Q[s])
               /\ Q[s] \in Req
    <3>1. req[t][s] \in Req /\ ~req[t][s].gone /\ req[t][s].kind # "sso"
      <4>1. CASE s \in Queued(t)
        BY <4>1 DEF Queued, Shape, Sound, Goes
      <4>2. CASE s = r
        <5>1. tab[t].refreshing
          BY <1>1, <1>2 DEF One
        <5>2. ~LiveSso(q)
          BY <1>1, <5>1 DEF One, Blank
        <5>3. QED
          BY <1>1, <4>2, <5>2 DEF LiveSso, Live
      <4>3. QED
        BY <2>4, <4>1, <4>2
    <3> DEFINE p == Sent(req[t][s], "live", q.token)
    <3>2. /\ Sound(p) /\ p \in Req /\ p.driver = FALSE /\ p.pc \in {"sent", "validate"}
      BY <1>1, <3>1, SentSound DEF Access
    <3>3. p.kind = req[t][s].kind
      BY <3>1 DEF Sent, Req
    <3>4. Q[s] = p
      BY <2>4
    <3> HIDE DEF p, Q
    <3>5. QED
      BY <3>1, <3>2, <3>3, <3>4 DEF LiveSso
  <2>5. ASSUME NEW s \in Slots, s \notin Queued(t) \cup {r}
        PROVE  /\ Sound(Q[s]) /\ ~Q[s].driver /\ Q[s].pc # "queued" /\ ~LiveSso(Q[s])
               /\ Q[s] \in Req
    <3>1. Q[s] = req[t][s] /\ s # r /\ req[t][s].pc # "queued"
      BY <2>5 DEF Queued
    <3>2. ~LiveSso(req[t][s])
      BY <1>1, <3>1, OthersNotSso
    <3>3. ~req[t][s].driver /\ Sound(req[t][s])
      BY <1>1, <1>2, <3>1 DEF One, Shape
    <3>4. QED
      BY <3>1, <3>2, <3>3 DEF Sound
  <2>6. Q \in [Slots -> Req]
    BY <2>4, <2>5
  <2> HIDE DEF Q, T
  <2>7. QED
    BY <2>2, <2>3, <2>4, <2>5, <2>6, RefreshEnds
<1>3. CASE ~q.driver /\ q.kind \in {"init", "login"}
  <2> DEFINE kind == IF q.kind = "init" THEN "initme" ELSE "loginme"
             p    == New(kind, "live")
             T    == Holding(tab[t])
  <2>1. kind \in Kinds /\ kind # "sso" /\ "live" \in Access
    BY DEF Kinds, Access
  <2> HIDE DEF kind
  <2>2. Sound(p) /\ p.driver = FALSE /\ p.pc \in {"sent", "validate"} /\ p.kind = kind
    BY <2>1, NewSound
  <2>3. T \in Tab /\ T.refreshing = tab[t].refreshing
    BY <1>1, HoldingTab
  <2>4. tab' = [tab EXCEPT ![t] = T] /\ req' = [req EXCEPT ![t][r] = p]
    BY <1>3 DEF Arrive, kind
  <2>5. q.driver = FALSE
    BY <1>1, <1>3 DEF Req
  <2> HIDE DEF p, T
  <2>6. ~LiveSso(p) /\ \A s \in Slots \ {r} : ~LiveSso(req[t][s])
    BY <1>1, <2>1, <2>2, OthersNotSso DEF LiveSso
  <2>7. QED
    BY <2>2, <2>3, <2>4, <2>5, <2>6, SlotMoves
<1>4. CASE ~q.driver /\ q.kind = "sso"
  <2> DEFINE T == [Blank EXCEPT !.page = "app", !.due = TRUE]
  <2>1. T \in Tab /\ ~T.refreshing
    BY DEF Blank, Tab, Access
  <2>2. tab' = [tab EXCEPT ![t] = T] /\ req' = [req EXCEPT ![t][r] = Free]
    BY <1>4 DEF Arrive
  <2> HIDE DEF T
  <2>3. QED
    BY <1>1, <1>4, <2>1, <2>2, SsoEnds DEF LiveSso
<1>5. QED
  BY <1>2, <1>3, <1>4 DEF Arrive

LEMMA LoseShape ==
    ASSUME Shape, cookie \in Held, NEW t \in Tabs, NEW r \in Slots, Lose(t, r)
    PROVE  Shape'
<1> DEFINE q == req[t][r]
<1>1. q \in Req /\ Live(q) /\ Blank \in Tab /\ ~Blank.refreshing
  BY DEF Shape, Lose, Live, Blank, Tab, Access
<1>2. CASE /\ q.kind = "sso" /\ req' = [req EXCEPT ![t][r] = Free]
           /\ tab' = [tab EXCEPT ![t] = Blank]
  BY <1>1, <1>2, SsoEnds DEF LiveSso
<1>3. CASE q.driver /\ RefreshFailed(t, r)
  BY <1>3, RefreshFailedShape
<1>4. CASE ~q.driver /\ Reject(t, r)
  BY <1>1, <1>4, RejectShape
<1>5. QED
  BY <1>2, <1>3, <1>4 DEF Lose

LEMMA PageShape ==
    ASSUME Shape, cookie \in Held, NEW t \in Tabs, Page(t)
    PROVE  Shape'
<1>1. tab[t] \in Tab /\ One(tab[t], req[t]) /\ Blank \in Tab /\ ~Blank.refreshing
  BY DEF Shape, Blank, Tab, Access
<1>2. CASE Leave(t)
  BY <1>1, <1>2, GoShape DEF Leave
<1>3. CASE Redirect(t)
  <2>1. ASSUME NEW page \in {"login", "app"}, tab' = [tab EXCEPT ![t].page = page], req' = req,
               tab[t].page # "sso"
        PROVE  Shape'
    <3> DEFINE T == [tab[t] EXCEPT !.page = page]
    <3>1. T \in Tab /\ T.refreshing = tab[t].refreshing /\ tab' = [tab EXCEPT ![t] = T]
      BY <1>1, <2>1 DEF Tab, Shape
    <3>2. \A s \in Slots : ~LiveSso(req[t][s])
      BY <1>1, <2>1 DEF One, Blank
    <3> HIDE DEF T
    <3>3. One(T, req[t])
      BY <1>1, <3>1, <3>2 DEF One
    <3>4. \A u \in Tabs, s \in Slots : Like(req[u][s], req[u][s]) /\ Sound(req[u][s])
      BY SameLike DEF Shape
    <3>5. req[t] \in [Slots -> Req] /\ req \in [Tabs -> [Slots -> Req]]
      BY DEF Shape
    <3>6. QED
      BY <2>1, <3>1, <3>3, <3>4, <3>5, TabMoves
  <2>2. QED
    BY <1>3, <2>1 DEF Redirect
<1>4. ASSUME NEW r \in Slots, Restore(t, r) PROVE Shape'
  <2> DEFINE T == [tab[t] EXCEPT !.due = FALSE]
  <2>1. T \in Tab /\ T.refreshing = tab[t].refreshing /\ tab' = [tab EXCEPT ![t] = T]
    BY <1>1, <1>4 DEF Restore, Tab
  <2> HIDE DEF T
  <2>2. "init" \in Kinds /\ tab[t].page # "sso" /\ Begin(t, r, "init")
    BY <1>4 DEF Restore, Kinds
  <2>3. QED
    BY <2>1, <2>2, BeginShape
<1>5. ASSUME NEW r \in Slots, ReadProfile(t, r) PROVE Shape'
  <2> DEFINE T == [tab[t] EXCEPT !.loading = TRUE]
  <2>1. T \in Tab /\ T.refreshing = tab[t].refreshing /\ tab' = [tab EXCEPT ![t] = T]
    BY <1>1, <1>5 DEF ReadProfile, Tab
  <2> HIDE DEF T
  <2>2. "me" \in Kinds /\ tab[t].page # "sso" /\ Begin(t, r, "me")
    BY <1>5 DEF ReadProfile, Kinds
  <2>3. QED
    BY <2>1, <2>2, BeginShape
<1>6. QED
  BY <1>2, <1>3, <1>4, <1>5 DEF Page

LEMMA UserShape ==
    ASSUME Shape, cookie \in Held, NEW t \in Tabs, User(t)
    PROVE  Shape'
<1>1. tab[t] \in Tab /\ One(tab[t], req[t])
  BY DEF Shape
<1>2. CASE Open(t)
  <2> DEFINE T == [Blank EXCEPT !.page = "app", !.due = TRUE]
  <2>1. T \in Tab /\ ~T.refreshing
    BY DEF Blank, Tab, Access
  <2>2. Go(t, T)
    BY <1>2 DEF Open
  <2> HIDE DEF T
  <2>3. QED
    BY <2>1, <2>2, GoShape
<1>3. CASE Expire(t)
  <2> DEFINE T == [tab[t] EXCEPT !.access = "stale"]
             old(s) == [req[t][s] EXCEPT !.access = Stale(@)]
             Q == [s \in Slots |-> old(s)]
  <2>1. /\ T \in Tab /\ T.refreshing = tab[t].refreshing /\ T.access = "stale"
        /\ tab' = [tab EXCEPT ![t] = T] /\ tab[t].access = "live"
    BY <1>1, <1>3 DEF Expire, Tab, Access
  <2>2. \A s \in Slots : req[t][s] \in Req /\ Sound(req[t][s])
    BY DEF Shape
  <2>3. \A s \in Slots : Like(old(s), req[t][s])
    BY <2>2 DEF Like, Stale, Req, Access
  <2>4. req' = [req EXCEPT ![t] = Q]
    BY <1>3, Zenon DEF Expire
  <2> HIDE DEF old, T
  <2>5. \A s \in Slots : /\ Sound(Q[s]) /\ Q[s] \in Req /\ Q[s].driver = req[t][s].driver
                         /\ Q[s].pc = req[t][s].pc /\ LiveSso(Q[s]) = LiveSso(req[t][s])
    BY <2>2, <2>3, LikeSound DEF Like, Live, LiveSso
  <2>6. Q \in [Slots -> Req]
    BY <2>5
  <2> HIDE DEF Q
  <2>7. \A s \in Slots : ~LiveSso(req[t][s])
    BY <1>1, <2>1 DEF One, Blank
  <2>8. One(T, Q)
    BY <1>1, <2>1, <2>5, <2>7 DEF One
  <2>9. /\ req' \in [Tabs -> [Slots -> Req]] /\ req'[t] = Q
        /\ \A u \in Tabs \ {t} : req'[u] = req[u]
    BY <2>4, <2>6 DEF Shape
  <2>10. \A u \in Tabs, s \in Slots : Like(req[u][s], req[u][s])
    BY SameLike DEF Shape
  <2>11. QED
    BY <2>1, <2>5, <2>6, <2>8, <2>9, <2>10, TabMoves
<1>4. ASSUME NEW r \in Slots, Use(t, r) PROVE Shape'
  <2>1. PICK kind \in {"call", "password"} : Begin(t, r, kind)
    BY <1>4 DEF Use
  <2>2. kind \in Kinds /\ kind # "sso" /\ tab[t].page # "sso" /\ tab' = tab
    BY <1>4 DEF Use, Kinds
  <2>3. QED
    BY <2>1, <2>2, BeginAlone
<1>8. ASSUME NEW r \in Slots, SignIn(t, r) PROVE Shape'
  <2> DEFINE T == [tab[t] EXCEPT !.loading = TRUE]
  <2>1. T \in Tab /\ T.refreshing = tab[t].refreshing /\ tab' = [tab EXCEPT ![t] = T]
    BY <1>1, <1>8 DEF SignIn, Tab
  <2> HIDE DEF T
  <2>2. "login" \in Kinds /\ tab[t].page # "sso" /\ Begin(t, r, "login")
    BY <1>8 DEF SignIn, Kinds
  <2>3. QED
    BY <2>1, <2>2, BeginShape
<1>5. ASSUME NEW r \in Slots, SignOut(t, r) PROVE Shape'
  <2>1. tab[t].page # "sso" /\ "logout" \in Kinds
    BY <1>5 DEF SignOut, Kinds
  <2>2. CASE Begin(t, r, "logout") /\ tab' = tab
    BY <2>1, <2>2, BeginAlone
  <2>3. CASE tab' = [tab EXCEPT ![t] = After(@, {"logout"})] /\ req' = req
    <3> DEFINE T == After(tab[t], {"logout"})
    <3>1. T \in Tab /\ T.refreshing = tab[t].refreshing
      BY <1>1, AfterTab
    <3>2. tab' = [tab EXCEPT ![t] = T]
      BY <2>3
    <3> HIDE DEF T
    <3>3. \A s \in Slots : ~LiveSso(req[t][s])
      BY <1>1, <2>1 DEF One, Blank
    <3>4. One(T, req[t])
      BY <1>1, <3>1, <3>3 DEF One
    <3>5. \A u \in Tabs, s \in Slots : Like(req[u][s], req[u][s]) /\ Sound(req[u][s])
      BY SameLike DEF Shape
    <3>6. req[t] \in [Slots -> Req] /\ req \in [Tabs -> [Slots -> Req]]
      BY DEF Shape
    <3>7. QED
      BY <2>3, <3>1, <3>2, <3>4, <3>5, <3>6, TabMoves
  <2>4. QED
    BY <1>5, <2>2, <2>3 DEF SignOut
<1>6. ASSUME NEW r \in Slots, SingleSignOn(t, r) PROVE Shape'
  <2> DEFINE T == [Blank EXCEPT !.page = "sso"]
             A == Abandoned(t)
             n == New("sso", "none")
             Q == [A EXCEPT ![r] = n]
  <2>1. T \in Tab /\ ~T.refreshing
    BY DEF Blank, Tab, Access
  <2>2. tab' = [tab EXCEPT ![t] = T] /\ req' = [req EXCEPT ![t] = Q]
    BY <1>6 DEF SingleSignOn
  <2>3. Sound(n) /\ n \in Req /\ n.driver = FALSE /\ n.pc \in {"sent", "validate"}
    BY NewSound DEF Kinds, Access
  <2>4. /\ A \in [Slots -> Req]
        /\ \A s \in Slots : Sound(A[s]) /\ ~A[s].driver /\ A[s].pc # "queued" /\ ~Live(A[s])
    BY AbandonedSound
  <2> HIDE DEF A, n
  <2>5. Q \in [Slots -> Req] /\ Q[r] = n /\ \A s \in Slots \ {r} : Q[s] = A[s]
    BY <2>3, <2>4
  <2> HIDE DEF Q
  <2>6. \A s \in Slots : Sound(Q[s]) /\ ~Q[s].driver /\ Q[s].pc # "queued" /\ (s # r => ~Live(Q[s]))
    BY <2>3, <2>4, <2>5
  <2>7. One(T, Q)
    <3> HIDE DEF T
    <3>1. \A s \in Slots : LiveSso(Q[s]) => s = r
      BY <2>6 DEF LiveSso
    <3>2. QED
      BY <2>1, <2>6, <3>1 DEF One, T
  <2>8. /\ req' \in [Tabs -> [Slots -> Req]] /\ req'[t] = Q
        /\ \A u \in Tabs \ {t} : req'[u] = req[u]
    BY <2>2, <2>5 DEF Shape
  <2>9. \A u \in Tabs, s \in Slots : Like(req[u][s], req[u][s])
    BY SameLike DEF Shape
  <2> HIDE DEF T
  <2>10. QED
    BY <2>1, <2>2, <2>5, <2>6, <2>7, <2>8, <2>9, TabMoves
<1>7. ASSUME NEW r \in Slots, Lose(t, r) PROVE Shape'
  BY <1>7, LoseShape
<1>9. QED
  BY <1>2, <1>3, <1>4, <1>8, <1>5, <1>6, <1>7 DEF User

LEMMA ElsewhereShape == ASSUME Shape, Elsewhere PROVE Shape'
<1>1. tab' = tab /\ req' = Replaced(req) /\ req' \in [Tabs -> [Slots -> Req]]
  BY ReplacedShape DEF Elsewhere
<1>2. \A u \in Tabs, s \in Slots : Like(req'[u][s], req[u][s]) /\ Sound(req'[u][s])
  <2>1. \A u \in Tabs, s \in Slots : Sound(req[u][s]) /\ Like(req'[u][s], req[u][s])
    BY <1>1, ReplacedLike DEF Shape
  <2>2. QED
    BY <2>1, LikeSound
<1>3. \A u \in Tabs, s \in Slots :
        /\ req'[u][s].driver = req[u][s].driver /\ req'[u][s].pc = req[u][s].pc
        /\ Live(req'[u][s]) = Live(req[u][s]) /\ LiveSso(req'[u][s]) = LiveSso(req[u][s])
  BY <1>2 DEF Like, Live, LiveSso
<1>4. ASSUME NEW u \in Tabs PROVE One(tab[u], req'[u])
  <2>1. One(tab[u], req[u])
    BY DEF Shape
  <2>2. QED
    BY <1>3, <2>1 DEF One
<1>5. QED
  BY <1>1, <1>2, <1>4 DEF Shape

LEMMA ShapeStep == ASSUME Shape, cookie \in Held, [Next]_vars PROVE Shape'
<1>1. CASE UNCHANGED vars \/ Administer
  BY <1>1 DEF vars, Administer, Shape
<1>2. QED
  BY <1>1, ServerShape, RefreshShape, ArriveShape, PageShape, UserShape, ElsewhereShape
     DEF Next, Answer

-----------------------------------------------------------------------------
LEMMA SmallStep == ASSUME Shape, Small, [Next]_vars PROVE Small'
<1>1. /\ \A t \in Tabs, r \in Slots : req[t][r].token \in Held
      /\ "none" \in Held /\ "current" \in Held \ {"old"} /\ "none" \in Held \ {"old"}
      /\ Old(cookie) \in Held
  BY DEF Shape, Req, Held, Old, Small
<1>2. (Event \/ Quiet) => events' \in 0..MaxEvents
  BY EventsAssumption DEF Event, Quiet, Small
<1>3. ASSUME NEW t \in Tabs, NEW r \in Slots, Answer(t, r) PROVE Small'
  <2>1. Quiet /\ account' = account
    BY <1>3 DEF Answer, Serve, LogIn, EndSession, Cleared, Validate, Rotate, Arrive, Refused
  <2>2. stored' \in Held \ {"old"} /\ cookie' \in Held
    BY <1>1, <1>3 DEF Answer, Serve, LogIn, EndSession, Cleared, Validate, Rotate, Arrive, Refused,
                      Store, Unstore, Fails, Small
  <2>3. denied' \in BOOLEAN
    BY <1>3 DEF Answer, Serve, LogIn, EndSession, Cleared, Validate, Rotate, Arrive, Refused, Small
  <2>4. Unauthorized(t, r) => disturbed' \in BOOLEAN
    BY DEF Unauthorized, Small
  <2>5. disturbed' \in BOOLEAN
    BY <1>3, <2>4 DEF Answer, Serve, LogIn, EndSession, Cleared, Validate, Rotate, Arrive, Refused,
                      Fails, Dropped, Small
  <2>6. QED
    BY <1>2, <2>1, <2>2, <2>3, <2>5 DEF Small
<1>4. ASSUME NEW t \in Tabs, Page(t) \/ User(t) PROVE Small'
  <2>1. \A kind \in Kinds, r \in Slots : Begin(t, r, kind) =>
          UNCHANGED <<stored, cookie, account, denied>> /\ disturbed' \in BOOLEAN
    BY DEF Begin, Small
  <2>2. \A T : Go(t, T) => UNCHANGED <<stored, cookie, account, denied>> /\ disturbed' \in BOOLEAN
    BY DEF Go, Small
  <2>3. (Event \/ Quiet) /\ UNCHANGED <<stored, cookie, account, denied>> /\ disturbed' \in BOOLEAN
    BY <1>4, <2>1, <2>2 DEF Page, User, Leave, Redirect, Restore, ReadProfile, Open, Expire, Use,
                            SignIn, SingleSignOn, SignOut, Lose, Small, Kinds
  <2>4. QED
    BY <1>2, <2>3 DEF Small
<1>5. CASE Elsewhere
  BY <1>1, <1>2, <1>5 DEF Elsewhere, Small
<1>6. CASE Administer
  BY <1>2, <1>6 DEF Administer, Small
<1>7. CASE UNCHANGED vars
  BY <1>7 DEF vars, Small
<1>8. QED
  BY <1>3, <1>4, <1>5, <1>6, <1>7 DEF Next

\* Tokens come from somewhere: unless one is stored, what a step leaves in requests and in
\* the cookie was there before, aged or not.
Kept(u, s) == req'[u][s].token \in {"none", cookie, req[u][s].token, Old(req[u][s].token)}

LEMMA LinkedStays ==
    ASSUME Shape, Small, Linked, stored' = stored,
           \/ cookie' \in {"none", cookie}
           \/ \E t \in Tabs, r \in Slots : cookie' = req[t][r].token,
           \A u \in Tabs, s \in Slots : Kept(u, s) \/ \E r \in Slots : req'[u][s].token = req[u][r].token
    PROVE  Linked'
BY DEF Linked, Kept, Old

LEMMA LinkedStored == ASSUME stored' = "current" PROVE Linked'
BY DEF Linked

LEMMA KeptSlot ==
    ASSUME Shape, NEW t \in Tabs, NEW r \in Slots, NEW q \in Req, req' = [req EXCEPT ![t][r] = q],
           q.token \in {"none", cookie, req[t][r].token}
    PROVE  \A u \in Tabs, s \in Slots : Kept(u, s)
BY DEF Shape, Kept

LEMMA KeptRow ==
    ASSUME Shape, NEW t \in Tabs, NEW Q \in [Slots -> Req], req' = [req EXCEPT ![t] = Q],
           \A s \in Slots : Q[s].token \in {"none", cookie, req[t][s].token}
    PROVE  \A u \in Tabs, s \in Slots : Kept(u, s)
BY DEF Shape, Kept

LEMMA KeptFree == Free \in Req /\ Free.token = "none"
BY FreeSound DEF Sound

LEMMA KeptBegin ==
    ASSUME Shape, cookie \in Held, NEW t \in Tabs, NEW r \in Slots, NEW kind \in Kinds,
           Begin(t, r, kind)
    PROVE  \A u \in Tabs, s \in Slots : Kept(u, s)
<1> DEFINE q == New(kind, tab[t].access)
<1>1. tab[t].access \in Access
  BY DEF Shape, Tab
<1>2. q \in Req /\ q.token \in {"none", cookie}
  BY <1>1, NewSound
<1>3. req' = [req EXCEPT ![t][r] = q]
  BY DEF Begin
<1> HIDE DEF q
<1>4. QED
  BY <1>2, <1>3, KeptSlot

LEMMA KeptUnauthorized ==
    ASSUME Shape, cookie \in Held, NEW t \in Tabs, NEW r \in Slots,
           Unauthorized(t, r) \/ Reject(t, r) \/ Dropped(t, r)
    PROVE  \A u \in Tabs, s \in Slots : Kept(u, s)
<1> DEFINE q == req[t][r]
           w == [q EXCEPT !.pc = "queued", !.access = "none", !.token = "none"]
           d == [q EXCEPT !.pc = "validate", !.retry = TRUE, !.driver = TRUE,
                          !.access = "none", !.token = cookie]
<1>1. q \in Req
  BY DEF Shape
<1>2. w \in Req /\ w.token = "none" /\ d \in Req /\ d.token = cookie
  BY <1>1 DEF Req, Places, Access, Held
<1>3. \/ req' = [req EXCEPT ![t][r] = Free]
      \/ req' = [req EXCEPT ![t][r] = w]
      \/ req' = [req EXCEPT ![t][r] = d]
  BY DEF Unauthorized, Reject, Dropped
<1> HIDE DEF w, d
<1>4. QED
  BY <1>2, <1>3, KeptFree, KeptSlot

LEMMA KeptFailed ==
    ASSUME Shape, cookie \in Held, NEW t \in Tabs, NEW r \in Slots, RefreshFailed(t, r)
    PROVE  \A u \in Tabs, s \in Slots : Kept(u, s)
<1> DEFINE over == Queued(t) \cup {r}
           new  == New("logout", tab[t].access)
           mine == IF tab[t].access = "none" THEN Free ELSE new
           Q == [s \in Slots |-> IF s = r THEN mine ELSE IF s \in over THEN Free ELSE req[t][s]]
<1>1. tab[t].access \in Access /\ \A s \in Slots : req[t][s] \in Req
  BY DEF Shape, Tab
<1>2. new \in Req /\ new.token \in {"none", cookie}
  BY <1>1, NewSound DEF Kinds
<1>3. req' = [req EXCEPT ![t] = Q]
  BY DEF RefreshFailed
<1> HIDE DEF new, over
<1>4. mine \in Req /\ mine.token \in {"none", cookie}
  BY <1>2, KeptFree
<1> HIDE DEF mine
<1>5. Q \in [Slots -> Req] /\ \A s \in Slots : Q[s].token \in {"none", cookie, req[t][s].token}
  BY <1>1, <1>4, KeptFree
<1> HIDE DEF Q
<1>6. QED
  BY <1>3, <1>5, KeptRow

LEMMA LinkedAnswer ==
    ASSUME Shape, Small, Linked, NEW t \in Tabs, NEW r \in Slots, Answer(t, r)
    PROVE  Linked'
<1> DEFINE q == req[t][r]
<1>1. q \in Req /\ Sound(q) /\ cookie \in Held /\ q.token \in Held
  BY DEF Shape, Small, Req
<1>2. ASSUME stored' = stored, cookie' = cookie \/ cookie' = "none",
             Unauthorized(t, r) \/ Reject(t, r) \/ Dropped(t, r)
      PROVE  Linked'
  BY <1>1, <1>2, KeptUnauthorized, LinkedStays
<1>3. ASSUME stored' = stored, cookie' = cookie, req' = [req EXCEPT ![t][r] = Free] PROVE Linked'
  BY <1>3, KeptFree, KeptSlot, LinkedStays
<1>4. CASE Serve(t, r)
  BY <1>2, <1>3, <1>4 DEF Serve
<1>5. CASE LogIn(t, r)
  BY <1>2, <1>3, <1>5, LinkedStored DEF LogIn, Store
<1>6. CASE EndSession(t, r)
  <2> DEFINE a == [q EXCEPT !.pc = "cleared", !.access = "none"]
             p == IF q.kind = "password" \/ q.gone THEN Free ELSE a
  <2>1. CASE Unstore(t, r, p)
    <3>1. a.token = "none"
      BY <1>1, <1>6 DEF EndSession, Sound, Req
    <3> HIDE DEF a
    <3>2. p.token = "none"
      BY <3>1, KeptFree
    <3>3. req' = [Replaced(req) EXCEPT ![t][r] = p] /\ cookie' = Old(cookie)
      BY <2>1 DEF Unstore
    <3> HIDE DEF p
    <3>4. Replaced(req) \in [Tabs -> [Slots -> Req]]
      BY ReplacedShape
    <3>5. \A u \in Tabs, s \in Slots : Replaced(req)[u][s].token # "current"
      BY ReplacedLike
    <3>6. \A u \in Tabs, s \in Slots : req'[u][s].token # "current"
      BY <3>2, <3>3, <3>4, <3>5
    <3>7. QED
      BY <3>3, <3>6 DEF Linked, Old
  <2>2. CASE Fails(t, r)
    BY <1>2, <2>2 DEF Fails
  <2>3. QED
    BY <1>2, <1>6, <2>1, <2>2 DEF EndSession
<1>7. CASE Cleared(t, r)
  BY <1>2, <1>7 DEF Cleared
<1>8. CASE Validate(t, r)
  <2> DEFINE a == [q EXCEPT !.pc = "rotate", !.token = "none"]
             b == [q EXCEPT !.pc = "refused", !.token = "none"]
  <2>1. a \in Req /\ a.token = "none" /\ b \in Req /\ b.token = "none"
    BY <1>1 DEF Req, Places, Held
  <2>2. \/ req' = [req EXCEPT ![t][r] = a]
        \/ req' = [req EXCEPT ![t][r] = b]
        \/ req' = [req EXCEPT ![t][r] = Free]
    BY <1>8 DEF Validate
  <2> HIDE DEF a, b
  <2>3. QED
    BY <1>3, <1>8, <2>1, <2>2, KeptSlot, LinkedStays DEF Validate
<1>9. CASE Rotate(t, r)
  BY <1>9, LinkedStored DEF Rotate, Store
<1>10. CASE Arrive(t, r)
  <2>1. stored' = stored /\ cookie' = q.token
    BY <1>10 DEF Arrive
  <2>2. CASE q.driver
    <3> DEFINE Q == [s \in Slots |-> IF s \in Queued(t) \cup {r}
                                     THEN Sent(req[t][s], "live", q.token) ELSE req[t][s]]
    <3>1. req' = [req EXCEPT ![t] = Q]
      BY <1>10, <2>2 DEF Arrive, Shape
    <3>2. \A s \in Slots : req[t][s] \in Req /\ (s \in Queued(t) \cup {r} => ~req[t][s].gone)
      BY <1>10, <2>2 DEF Shape, Sound, Queued, Goes, Arrive
    <3>3. \A s \in Slots : s \in Queued(t) \cup {r} =>
            /\ Sent(req[t][s], "live", q.token) \in Req
            /\ Sent(req[t][s], "live", q.token).token \in {"none", q.token}
      BY <1>1, <3>2, SentSound DEF Access
    <3>4. /\ Q \in [Slots -> Req]
          /\ \A s \in Slots : Q[s].token \in {"none", q.token, req[t][s].token}
      BY <3>2, <3>3
    <3> HIDE DEF Q
    <3>5. \A u \in Tabs, s \in Slots :
            Kept(u, s) \/ \E v \in Slots : req'[u][s].token = req[u][v].token
      BY <3>1, <3>4 DEF Shape, Kept
    <3>6. QED
      BY <2>1, <3>5, LinkedStays
  <2>3. CASE ~q.driver /\ q.kind \in {"init", "login"}
    <3> DEFINE p == New(IF q.kind = "init" THEN "initme" ELSE "loginme", "live")
    <3>1. p \in Req /\ p.token \in {"none", cookie}
      BY <1>1, NewSound DEF Kinds, Access
    <3>2. req' = [req EXCEPT ![t][r] = p]
      BY <1>10, <2>3 DEF Arrive
    <3> HIDE DEF p
    <3>3. QED
      BY <2>1, <3>1, <3>2, KeptSlot, LinkedStays
  <2>4. CASE req' = [req EXCEPT ![t][r] = Free]
    BY <2>1, <2>4, KeptFree, KeptSlot, LinkedStays
  <2>5. QED
    BY <1>10, <2>2, <2>3, <2>4 DEF Arrive
<1>11. CASE Refused(t, r)
  BY <1>1, <1>2, <1>11, KeptFailed, LinkedStays DEF Refused
<1>12. QED
  BY <1>4, <1>5, <1>6, <1>7, <1>8, <1>9, <1>10, <1>11 DEF Answer

LEMMA LinkedTab ==
    ASSUME Shape, Small, Linked, NEW t \in Tabs, Page(t) \/ User(t)
    PROVE  Linked'
<1>1. cookie \in Held
  BY DEF Small
<1>2. stored' = stored /\ cookie' = cookie
  BY DEF Page, User, Leave, Redirect, Restore, ReadProfile, Open, Expire, Use, SignIn,
         SingleSignOn, SignOut, Lose, Begin, Go
<1>3. SUFFICES \A u \in Tabs, s \in Slots : Kept(u, s)
  BY <1>2, LinkedStays
<1>4. CASE req' = req
  BY <1>4 DEF Kept
<1>5. ASSUME NEW r \in Slots, NEW kind \in Kinds, Begin(t, r, kind)
      PROVE  \A u \in Tabs, s \in Slots : Kept(u, s)
  BY <1>1, <1>5, KeptBegin
<1>6. ASSUME NEW T, Go(t, T) PROVE \A u \in Tabs, s \in Slots : Kept(u, s)
  <2> DEFINE Q == Abandoned(t)
  <2>1. req' = [req EXCEPT ![t] = Q]
    BY <1>6 DEF Go
  <2>2. Q \in [Slots -> Req] /\ \A s \in Slots : Q[s].token \in {"none", cookie, req[t][s].token}
    BY AbandonedSound
  <2> HIDE DEF Q
  <2>3. QED
    BY <2>1, <2>2, KeptRow
<1>7. CASE Expire(t)
  <2> DEFINE Q == [s \in Slots |-> [req[t][s] EXCEPT !.access = Stale(@)]]
  <2>1. req' = [req EXCEPT ![t] = Q]
    BY <1>7 DEF Expire
  <2>2. Q \in [Slots -> Req] /\ \A s \in Slots : Q[s].token = req[t][s].token
    <3>1. ASSUME NEW s \in Slots
          PROVE  /\ [req[t][s] EXCEPT !.access = Stale(@)] \in Req
                 /\ [req[t][s] EXCEPT !.access = Stale(@)].token = req[t][s].token
      <4>1. req[t][s] \in Req /\ Stale(req[t][s].access) \in Access
        BY DEF Shape, Req, Stale, Access
      <4>2. QED
        BY <4>1 DEF Req
    <3>2. QED
      BY <3>1
  <2> HIDE DEF Q
  <2>3. QED
    BY <2>1, <2>2, KeptRow
<1>8. ASSUME NEW r \in Slots, SingleSignOn(t, r) PROVE \A u \in Tabs, s \in Slots : Kept(u, s)
  <2> DEFINE A == Abandoned(t)
             n == New("sso", "none")
             Q == [A EXCEPT ![r] = n]
  <2>1. req' = [req EXCEPT ![t] = Q]
    BY <1>8 DEF SingleSignOn
  <2>2. n \in Req /\ n.token \in {"none", cookie}
    BY <1>1, NewSound DEF Kinds, Access
  <2>3. A \in [Slots -> Req] /\ \A s \in Slots : A[s].token \in {"none", req[t][s].token}
    BY AbandonedSound
  <2> HIDE DEF A, n
  <2>4. Q \in [Slots -> Req] /\ \A s \in Slots : Q[s].token \in {"none", cookie, req[t][s].token}
    BY <2>2, <2>3
  <2> HIDE DEF Q
  <2>5. QED
    BY <2>1, <2>4, KeptRow
<1>9. ASSUME NEW r \in Slots, Lose(t, r) PROVE \A u \in Tabs, s \in Slots : Kept(u, s)
  BY <1>1, <1>9, KeptFailed, KeptUnauthorized, KeptFree, KeptSlot DEF Lose
<1>10. QED
  BY <1>4, <1>5, <1>6, <1>7, <1>8, <1>9
     DEF Page, User, Leave, Redirect, Restore, ReadProfile, Open, Use, SignIn, SignOut, Kinds

LEMMA LinkedStep == ASSUME Shape, Small, Linked, [Next]_vars PROVE Linked'
<1>1. CASE Elsewhere
  BY <1>1, ReplacedLike DEF Elsewhere, Linked, Old
<1>2. CASE Administer \/ UNCHANGED vars
  BY <1>2 DEF Administer, vars, Linked
<1>3. QED
  BY <1>1, <1>2, LinkedAnswer, LinkedTab DEF Next

LEMMA IInvInit == Init => IInv
<1>1. SUFFICES ASSUME Init PROVE IInv
  OBVIOUS
<1>2. /\ Blank \in Tab /\ Home \in Tab /\ [Home EXCEPT !.access = "stale"] \in Tab
      /\ ~Blank.refreshing /\ ~Home.refreshing /\ ~[Home EXCEPT !.access = "stale"].refreshing
  <2>1. Home \in Tab /\ ~Home.refreshing /\ Blank \in Tab /\ ~Blank.refreshing
    BY DEF Blank, Home, Tab, Access
  <2>2. QED
    BY <2>1 DEF Tab, Access
<1>3. tab \in [Tabs -> Tab] /\ \A t \in Tabs : ~tab[t].refreshing
  BY <1>1, <1>2 DEF Init
<1>4. req \in [Tabs -> [Slots -> Req]] /\ \A t \in Tabs, r \in Slots : req[t][r] = Free
  BY <1>1, KeptFree DEF Init
<1>5. Shape
  BY <1>3, <1>4, FreeSound DEF Shape, One, LiveSso, Live
<1>6. Small
  <2>1. disturbed \in BOOLEAN
    BY <1>1, Zenon DEF Init
  <2>2. /\ stored \in Held \ {"old"} /\ cookie \in Held
        /\ account \in {"active", "disabled", "deleted"} /\ denied = FALSE /\ events = 0
    <3>1. \/ stored = "none" /\ cookie = "none"
          \/ stored = "current" /\ cookie \in {"current", "old"}
      BY <1>1 DEF Init
    <3>2. account = "active" /\ denied = FALSE /\ events = 0
      BY <1>1 DEF Init
    <3>3. QED
      BY <3>1, <3>2 DEF Held
  <2>3. denied \in BOOLEAN
    BY <2>2, Zenon
  <2>4. events \in 0..MaxEvents
    BY <2>2, EventsAssumption
  <2>5. QED
    BY <2>1, <2>2, <2>3, <2>4 DEF Small
<1>7. Linked
  BY <1>1, <1>4, KeptFree DEF Init, Linked
<1>8. QED
  BY <1>5, <1>6, <1>7 DEF IInv

\* The inductive invariant: of the requests of a tab one at most drives a refresh, and what
\* outlives a page drives none.
THEOREM Invariance == Spec => []IInv
<1>1. IInv /\ [Next]_vars => IInv'
  BY ShapeStep, SmallStep, LinkedStep DEF IInv, Small
<1>2. QED
  BY <1>1, IInvInit, PTL DEF Spec

\* The state is well typed; no token is current when Redis has none.
THEOREM TypeCorrect == Spec => []TypeOK
<1>1. QED
  BY Invariance, IInvTypes, PTL

\* A tab refreshes at most once at a time, and whoever waits for a refresh waits for one
\* that is on its way (api.ts:29-85).
THEOREM RefreshesOnce == Spec => []OneRefresh
<1>1. QED
  BY Invariance, IInvTypes, PTL

-----------------------------------------------------------------------------
(***************************************************************************)
(* A session nobody has disturbed is kept.  The session holds three copies *)
(* of one token, in Redis, in the cookie and in requests, which agree only *)
(* between refreshes.  Calm says what is true during one: there is only    *)
(* one in the whole browser, and as long as its answer is on its way       *)
(* nothing else, the cookie included, holds the token that is stored.      *)
(***************************************************************************)

\* A request of an undisturbed session: it has no token but the one stored.
Fresh(q) ==
    /\ q.pc # "cleared" /\ q.token # "old"
    /\ q.pc = "queued" => q.kind # "init"
    /\ Refreshing(q) => ~q.gone
    /\ q.gone => q.kind \in {"logout", "password"}
    /\ q.pc = "answer" => q.token = "current"
    /\ q.token = "current" => q.pc \in {"validate", "answer"}
    /\ q.pc \in {"validate", "rotate", "refused"} => q.driver \/ q.kind = "init"
    /\ q.token = "current" \/ q.pc = "rotate" => stored = "current"

Answered(t, r) == req[t][r].pc = "answer"

\* p neither is a refresh nor answers one, nor stands beside one that is answered.
Beside(p) == p.pc \notin {"answer", "rotate"} /\ p.token # "current"

Single ==
    \A t, u \in Tabs, r, s \in Slots : <<t, r>> # <<u, s>> =>
        /\ ~(Refreshing(req[t][r]) /\ Refreshing(req[u][s]))
        /\ Answered(t, r) => Beside(req[u][s])

CookieHeld ==
    /\ (\E t \in Tabs, r \in Slots : Answered(t, r)) => cookie # "current"
    /\ cookie = stored \/ \E t \in Tabs, r \in Slots : Answered(t, r)
    /\ cookie = "old" => \E t \in Tabs, r \in Slots : Answered(t, r) /\ Refreshing(req[t][r])

Calm == ~denied /\ (\A t \in Tabs, r \in Slots : Fresh(req[t][r])) /\ Single /\ CookieHeld

KInv == ~disturbed => Calm

LEMMA CalmKeeps == KInv => SessionKept
<1>1. SUFFICES ASSUME Calm, \A t \in Tabs, r \in Slots : req[t][r].pc = "idle"
               PROVE  cookie = stored
  BY DEF KInv, SessionKept, Calm
<1>2. QED
  BY <1>1 DEF Calm, CookieHeld, Answered

-----------------------------------------------------------------------------
(* Requests that move without a token.                                     *)

\* What a request is for the refresh, whatever else of it changes.
Same(p, q) == p.pc = q.pc /\ p.kind = q.kind /\ p.driver = q.driver /\ p.gone = q.gone /\ p.token = q.token

Tame(p) ==
    /\ ~Refreshing(p) /\ p.pc \notin {"answer", "cleared"} /\ p.token = "none"
    /\ p.pc = "queued" => p.kind # "init"
    /\ p.gone => p.kind \in {"logout", "password"}

Still == stored' = stored /\ cookie' = cookie /\ denied' = denied

LEMMA Tamed ==
    ASSUME Calm, Still,
           \A t \in Tabs, r \in Slots :
              \/ Same(req'[t][r], req[t][r])
              \/ ~Answered(t, r) /\ Tame(req'[t][r])
    PROVE  Calm'
<1>1. ~denied' /\ \A t \in Tabs, r \in Slots : Fresh(req[t][r])
  BY DEF Calm, Still
<1>2. ASSUME NEW t \in Tabs, NEW r \in Slots
      PROVE  /\ Fresh(req[t][r])'
             /\ Refreshing(req'[t][r]) => Refreshing(req[t][r])
             /\ Answered(t, r)' <=> Answered(t, r)
             /\ Answered(t, r)' => (Refreshing(req'[t][r]) <=> Refreshing(req[t][r]))
             /\ Beside(req[t][r]) => Beside(req'[t][r])
  <2>1. CASE Same(req'[t][r], req[t][r])
    BY <1>1, <2>1 DEF Same, Fresh, Still, Refreshing, Answered, Beside
  <2>2. CASE ~Answered(t, r) /\ Tame(req'[t][r])
    BY <2>2 DEF Tame, Fresh, Still, Refreshing, Answered, Beside
  <2>3. QED
    BY <2>1, <2>2
<1>3. Single'
  BY <1>2 DEF Calm, Single
<1>4. CookieHeld'
  BY <1>2 DEF Calm, CookieHeld, Still
<1>5. QED
  BY <1>1, <1>2, <1>3, <1>4 DEF Calm

\* One request moves without a token.
LEMMA SlotTamed ==
    ASSUME Calm, Still, Shape, NEW t \in Tabs, NEW r \in Slots, ~Answered(t, r),
           NEW p, Tame(p), req' = [req EXCEPT ![t][r] = p]
    PROVE  Calm'
<1>1. req'[t][r] = p /\ \A u \in Tabs, s \in Slots : <<u, s>> # <<t, r>> => req'[u][s] = req[u][s]
  BY DEF Shape
<1>2. ASSUME NEW u \in Tabs, NEW s \in Slots
      PROVE  Same(req'[u][s], req[u][s]) \/ (~Answered(u, s) /\ Tame(req'[u][s]))
  BY <1>1 DEF Same
<1>3. QED
  BY <1>2, Tamed

\* All requests of a tab move so, or stay.
LEMMA RowTamed ==
    ASSUME Calm, Still, Shape, NEW t \in Tabs, NEW Q, req' = [req EXCEPT ![t] = Q],
           \A s \in Slots : Same(Q[s], req[t][s]) \/ (~Answered(t, s) /\ Tame(Q[s]))
    PROVE  Calm'
<1>1. req'[t] = Q /\ \A u \in Tabs \ {t} : req'[u] = req[u]
  BY DEF Shape
<1>2. ASSUME NEW u \in Tabs, NEW s \in Slots
      PROVE  Same(req'[u][s], req[u][s]) \/ (~Answered(u, s) /\ Tame(req'[u][s]))
  BY <1>1 DEF Same
<1>3. QED
  BY <1>2, Tamed

\* A refresh begins, with the cookie, and there is no other.
LEMMA Starts ==
    ASSUME Calm, Still, Shape, NEW t \in Tabs, NEW r \in Slots, ~Answered(t, r), ~Overlaps(t, r),
           NEW p, p.pc = "validate", p.token = cookie, ~p.gone, p.driver \/ p.kind = "init",
           req' = [req EXCEPT ![t][r] = p]
    PROVE  Calm'
<1>1. req'[t][r] = p /\ \A u \in Tabs, s \in Slots : <<u, s>> # <<t, r>> => req'[u][s] = req[u][s]
  BY DEF Shape
<1>2. \A u \in Tabs, s \in Slots : <<u, s>> # <<t, r>> => ~Refreshing(req[u][s])
  BY DEF Overlaps
<1>3. cookie # "old"
  BY <1>2 DEF Calm, CookieHeld
<1>4. cookie = "current" => stored = "current" /\ \A u \in Tabs, s \in Slots : ~Answered(u, s)
  BY DEF Calm, CookieHeld
<1>5. /\ ~Answered(t, r)' /\ Refreshing(req'[t][r])
      /\ \A u \in Tabs, s \in Slots : Answered(u, s)' <=> Answered(u, s)
      /\ (\E u \in Tabs, s \in Slots : Answered(u, s)) => Beside(p)
  BY <1>1, <1>4 DEF Answered, Refreshing, Beside
<1>6. \A u \in Tabs, s \in Slots : Fresh(req[u][s])'
  BY <1>1, <1>3, <1>4 DEF Calm, Fresh, Still, Refreshing
<1>7. Single'
  BY <1>1, <1>2, <1>5 DEF Calm, Single
<1>8. CookieHeld'
  BY <1>1, <1>3, <1>5 DEF Calm, CookieHeld, Still
<1>9. QED
  BY <1>6, <1>7, <1>8 DEF Calm, Still

-----------------------------------------------------------------------------
(* The interceptor and the auth store.                                     *)

LEMMA FreeTame == Tame(Free)
BY DEF Tame, Free, Refreshing

LEMMA NewTame ==
    ASSUME NEW kind, NEW access
    PROVE  /\ kind # "init" => Tame(New(kind, access))
           /\ kind = "init" => /\ New(kind, access).pc = "validate" /\ New(kind, access).token = cookie
                               /\ ~New(kind, access).gone /\ New(kind, access).kind = "init"
BY DEF Tame, New, Sent, Free, Refreshing

LEMMA RejectCalm ==
    ASSUME Calm, Still, Shape, NEW t \in Tabs, NEW r \in Slots, ~Answered(t, r),
           req' = [req EXCEPT ![t][r] = Free]
    PROVE  Calm'
BY FreeTame, SlotTamed

LEMMA UnauthorizedCalm ==
    ASSUME Calm, Still, Shape, ~disturbed', NEW t \in Tabs, NEW r \in Slots, ~Answered(t, r),
           ~req[t][r].driver, ~req[t][r].gone, req[t][r].pc = "refused" \/ req[t][r].kind # "init",
           Unauthorized(t, r)
    PROVE  Calm'
<1> DEFINE q == req[t][r]
           w == [q EXCEPT !.pc = "queued", !.access = "none", !.token = "none"]
           d == [q EXCEPT !.pc = "validate", !.retry = TRUE, !.driver = TRUE,
                          !.access = "none", !.token = cookie]
<1>1. q \in Req
  BY DEF Shape
<1>2. CASE q.retry
  BY <1>2, RejectCalm DEF Unauthorized, Reject
<1>3. CASE ~q.retry /\ tab[t].refreshing
  <2>1. PICK s \in Slots : req[t][s].driver
    BY <1>3 DEF Shape, One
  <2>2. Refreshing(req[t][s]) /\ s # r
    BY <2>1 DEF Shape, Sound
  <2>3. ~Refreshing(q)
    BY <2>2 DEF Calm, Single
  <2>4. q.kind # "init"
    BY <2>3 DEF Refreshing
  <2>5. w.pc = "queued" /\ w.token = "none" /\ w.kind = q.kind /\ w.gone = q.gone
    BY <1>1 DEF Req
  <2>6. req' = [req EXCEPT ![t][r] = w]
    BY <1>3 DEF Unauthorized
  <2> HIDE DEF w
  <2>7. Tame(w)
    BY <2>4, <2>5 DEF Tame, Refreshing
  <2>8. QED
    BY <2>6, <2>7, SlotTamed
<1>4. CASE ~q.retry /\ ~tab[t].refreshing
  <2>1. d.pc = "validate" /\ d.token = cookie /\ d.gone = q.gone /\ d.driver
    BY <1>1 DEF Req
  <2>2. req' = [req EXCEPT ![t][r] = d] /\ ~Overlaps(t, r)
    BY <1>4 DEF Unauthorized
  <2> HIDE DEF d
  <2>3. QED
    BY <2>1, <2>2, Starts
<1>5. QED
  BY <1>2, <1>3, <1>4

LEMMA RefreshFailedCalm ==
    ASSUME Calm, Still, Shape, NEW t \in Tabs, NEW r \in Slots, ~Answered(t, r), RefreshFailed(t, r)
    PROVE  Calm'
<1> DEFINE over == Queued(t) \cup {r}
           mine == IF tab[t].access = "none" THEN Free ELSE New("logout", tab[t].access)
           Q == [s \in Slots |-> IF s = r THEN mine ELSE IF s \in over THEN Free ELSE req[t][s]]
<1>1. req' = [req EXCEPT ![t] = Q]
  BY DEF RefreshFailed
<1>2. Tame(mine)
  BY FreeTame, NewTame
<1>3. \A s \in over : ~Answered(t, s)
  BY DEF Queued, Answered
<1> HIDE DEF mine, over
<1>4. \A s \in Slots : Same(Q[s], req[t][s]) \/ (~Answered(t, s) /\ Tame(Q[s]))
  <2>1. \A s \in Slots : Q[s] = IF s = r THEN mine ELSE IF s \in over THEN Free ELSE req[t][s]
    OBVIOUS
  <2> HIDE DEF Q
  <2>2. QED
    BY <1>2, <1>3, <2>1, FreeTame DEF Same
<1> HIDE DEF Q
<1>5. QED
  BY <1>1, <1>4, RowTamed

-----------------------------------------------------------------------------
(* Answers.                                                                *)

\* Answers that leave the tokens alone.
LEMMA ServedCalm ==
    ASSUME Calm, Shape, ~disturbed', NEW t \in Tabs, NEW r \in Slots,
           Serve(t, r) \/ EndSession(t, r) \/ Refused(t, r)
    PROVE  Calm'
<1>1. Fresh(req[t][r]) /\ Sound(req[t][r])
  BY DEF Calm, Shape
<1>2. ~Answered(t, r)
  BY DEF Serve, EndSession, Refused, Answered
<1>3. CASE Serve(t, r)
  <2>1. Still /\ ~req[t][r].driver /\ req[t][r].kind # "init" /\ ~req[t][r].gone
    BY <1>1, <1>3 DEF Serve, Still, Sound, Refreshing, Fresh
  <2>2. CASE req' = [req EXCEPT ![t][r] = Free] \/ Reject(t, r)
    BY <1>2, <2>1, <2>2, RejectCalm DEF Reject
  <2>3. CASE Unauthorized(t, r)
    BY <1>2, <2>1, <2>3, UnauthorizedCalm
  <2>4. QED
    BY <1>3, <2>2, <2>3 DEF Serve
<1>4. CASE EndSession(t, r)
  <2>1. /\ Fails(t, r) \/ (Dropped(t, r) /\ UNCHANGED <<stored, cookie>>)
        /\ denied' = denied /\ req[t][r].kind # "init" /\ req[t][r].pc = "sent"
    BY <1>4 DEF EndSession
  <2>2. Still /\ ~req[t][r].driver
    BY <1>1, <2>1 DEF Fails, Still, Sound, Refreshing
  <2>3. CASE Dropped(t, r) \/ Reject(t, r)
    BY <1>2, <2>2, <2>3, RejectCalm DEF Reject, Dropped
  <2>4. CASE ~req[t][r].gone /\ Unauthorized(t, r)
    BY <1>2, <2>1, <2>2, <2>4, UnauthorizedCalm
  <2>5. QED
    BY <2>1, <2>3, <2>4 DEF Fails
<1>5. CASE Refused(t, r)
  <2>1. Still /\ req[t][r].pc = "refused" /\ ~req[t][r].gone
    BY <1>1, <1>5 DEF Refused, Still, Fresh, Refreshing
  <2>2. CASE req[t][r].driver
    BY <1>2, <1>5, <2>1, <2>2, RefreshFailedCalm DEF Refused
  <2>3. CASE ~req[t][r].driver
    BY <1>2, <1>5, <2>1, <2>3, UnauthorizedCalm DEF Refused
  <2>4. QED
    BY <2>2, <2>3
<1>6. QED
  BY <1>3, <1>4, <1>5

\* A log-in stores a token where there was none; it is not a refresh.
LEMMA LogInCalm ==
    ASSUME Calm, Shape, ~disturbed', NEW t \in Tabs, NEW r \in Slots, LogIn(t, r)
    PROVE  Calm'
<1> DEFINE q == req[t][r]
           p == [q EXCEPT !.pc = "answer", !.access = "none", !.token = "current"]
<1>1. q \in Req /\ Sound(q) /\ Fresh(q) /\ q.pc = "sent" /\ q.kind \in {"login", "sso"}
  BY DEF Shape, Calm, LogIn
<1>2. ~Answered(t, r) /\ ~q.driver /\ ~q.gone /\ q.kind # "init" /\ denied' = denied
  BY <1>1 DEF Answered, Sound, Refreshing, Fresh, LogIn
<1>3. CASE Still /\ req' = [req EXCEPT ![t][r] = Free]
  BY <1>2, <1>3, RejectCalm
<1>4. CASE Still /\ Unauthorized(t, r)
  BY <1>2, <1>4, UnauthorizedCalm
<1>5. CASE Store(t, r, p) /\ stored = "none" /\ ~Overlaps(t, r)
  <2>1. p.pc = "answer" /\ p.token = "current" /\ p.kind = q.kind /\ p.driver = q.driver /\ p.gone = q.gone
    BY <1>1 DEF Req
  <2>2. /\ stored' = "current" /\ cookie' = Old(cookie) /\ req' = [Replaced(req) EXCEPT ![t][r] = p]
    BY <1>5 DEF Store
  <2> HIDE DEF p
  <2>3. \A u \in Tabs, s \in Slots : Fresh(req[u][s]) /\ ~Answered(u, s) /\ req[u][s].token = "none"
    <3>1. \A u \in Tabs, s \in Slots : Fresh(req[u][s]) /\ req[u][s] \in Req
      BY DEF Calm, Shape
    <3>2. QED
      BY <1>5, <3>1 DEF Fresh, Answered, Req, Held
  <2>4. cookie' = "none"
    BY <1>5, <2>2, <2>3 DEF Calm, CookieHeld, Old
  <2>5. /\ req'[t][r] = p
        /\ \A u \in Tabs, s \in Slots : <<u, s>> # <<t, r>> => Same(req'[u][s], req[u][s])
    <3>1. Replaced(req) \in [Tabs -> [Slots -> Req]]
      BY ReplacedShape
    <3>2. req'[t][r] = p /\ \A u \in Tabs, s \in Slots : <<u, s>> # <<t, r>> => req'[u][s] = Replaced(req)[u][s]
      BY <2>2, <3>1
    <3>3. \A u \in Tabs, s \in Slots : Same(Replaced(req)[u][s], req[u][s])
      BY <2>3, ReplacedLike DEF Like, Same, Old
    <3>4. QED
      BY <3>2, <3>3
  <2>6. ~Refreshing(p) /\ Fresh(req[t][r])'
    BY <1>1, <1>2, <2>1, <2>2, <2>5 DEF Refreshing, Fresh
  <2>7. ASSUME NEW u \in Tabs, NEW s \in Slots, <<u, s>> # <<t, r>>
        PROVE  Fresh(req[u][s])' /\ ~Answered(u, s)' /\ Beside(req'[u][s]) /\ ~Refreshing(req'[u][s])
    <3>1. Same(req'[u][s], req[u][s]) /\ ~Refreshing(req[u][s])
      BY <1>5, <2>5, <2>7 DEF Overlaps
    <3>2. QED
      BY <2>2, <2>3, <3>1 DEF Same, Fresh, Answered, Beside, Refreshing
  <2>8. (\A u \in Tabs, s \in Slots : Fresh(req[u][s])')
    BY <2>5, <2>6, <2>7
  <2>9. Single'
    BY <2>5, <2>6, <2>7 DEF Single
  <2>10. CookieHeld'
    BY <2>1, <2>4, <2>5 DEF CookieHeld, Answered
  <2>11. QED
    BY <1>2, <2>8, <2>9, <2>10 DEF Calm
<1>6. QED
  BY <1>2, <1>3, <1>4, <1>5 DEF LogIn, Still, Dropped, Reject

LEMMA ValidateCalm ==
    ASSUME Calm, Shape, NEW t \in Tabs, NEW r \in Slots, Validate(t, r)
    PROVE  Calm'
<1> DEFINE q == req[t][r]
           p == [q EXCEPT !.pc = IF q.token = "current" THEN "rotate" ELSE "refused", !.token = "none"]
<1>1. q \in Req /\ Fresh(q) /\ q.pc = "validate" /\ Refreshing(q) /\ ~q.gone
  BY DEF Shape, Calm, Validate, Fresh, Refreshing
<1>2. /\ p.pc = IF q.token = "current" THEN "rotate" ELSE "refused"
      /\ p.token = "none" /\ p.kind = q.kind /\ p.driver = q.driver /\ p.gone = q.gone
  BY <1>1 DEF Req
<1>3. req' = [req EXCEPT ![t][r] = p] /\ stored' = stored /\ cookie' = cookie /\ ~denied'
  <2>1. q.token # "old"
    BY <1>1 DEF Fresh
  <2>2. stored' = stored /\ cookie' = cookie
    BY DEF Validate
  <2>3. ~denied'
    <3>1. ~denied /\ denied' = (denied \/ q.token = "old")
      BY DEF Validate, Calm
    <3>2. QED
      BY <2>1, <3>1
  <2>4. req' = [req EXCEPT ![t][r] = p]
    BY <1>1 DEF Validate
  <2>5. QED
    BY <2>2, <2>3, <2>4
<1> HIDE DEF p
<1>4. req'[t][r] = p /\ \A u \in Tabs, s \in Slots : <<u, s>> # <<t, r>> => req'[u][s] = req[u][s]
  BY <1>3 DEF Shape
<1>5. /\ Refreshing(p) /\ Fresh(req[t][r])'
  BY <1>1, <1>2, <1>3, <1>4 DEF Refreshing, Fresh
<1>6. \A u \in Tabs, s \in Slots :
         /\ Answered(u, s)' <=> Answered(u, s)
         /\ Answered(u, s) => Beside(p)
  <2>1. ~Answered(t, r) /\ ~Answered(t, r)'
    BY <1>1, <1>2, <1>4 DEF Answered
  <2>2. \A u \in Tabs, s \in Slots : Answered(u, s) => Beside(q)
    BY <2>1 DEF Calm, Single
  <2>3. \A u \in Tabs, s \in Slots : Answered(u, s) => Beside(p)
    BY <1>1, <1>2, <2>2 DEF Beside
  <2>4. QED
    BY <1>4, <2>1, <2>3 DEF Answered
<1>7. \A u \in Tabs, s \in Slots : Fresh(req[u][s])'
  BY <1>3, <1>4, <1>5 DEF Calm, Fresh
<1>8. \A u \in Tabs, s \in Slots : Refreshing(req'[u][s]) <=> Refreshing(req[u][s])
  BY <1>1, <1>4, <1>5
<1>9. Single'
  <2>1. ASSUME NEW u \in Tabs, NEW x \in Tabs, NEW s \in Slots, NEW y \in Slots,
               <<u, s>> # <<x, y>>, Answered(u, s)'
        PROVE  Beside(req'[x][y])
    <3>1. Beside(req[x][y]) /\ Beside(p)
      BY <1>6, <2>1 DEF Calm, Single
    <3>2. QED
      BY <1>4, <3>1
  <2>2. QED
    BY <1>8, <2>1 DEF Calm, Single
<1>10. CookieHeld'
  BY <1>3, <1>6, <1>8 DEF Calm, CookieHeld
<1>11. QED
  BY <1>3, <1>7, <1>9, <1>10 DEF Calm

\* The new token is stored: the one in the cookie is old until the answer arrives.
LEMMA RotateCalm ==
    ASSUME Calm, Shape, NEW t \in Tabs, NEW r \in Slots, Rotate(t, r)
    PROVE  Calm'
<1> DEFINE q == req[t][r]
           p == [q EXCEPT !.pc = "answer", !.token = "current"]
<1>1. /\ q \in Req /\ Fresh(q) /\ q.pc = "rotate" /\ Refreshing(q) /\ ~q.gone
      /\ q.driver \/ q.kind = "init"
  BY DEF Shape, Calm, Rotate, Fresh, Refreshing
<1>2. p.pc = "answer" /\ p.token = "current" /\ p.kind = q.kind /\ p.driver = q.driver /\ p.gone = q.gone
  BY <1>1 DEF Req
<1>3. /\ stored' = "current" /\ cookie' = Old(cookie) /\ denied' = denied
      /\ req' = [Replaced(req) EXCEPT ![t][r] = p]
  BY <1>1 DEF Rotate, Store
<1> HIDE DEF p
<1>4. ASSUME NEW u \in Tabs, NEW s \in Slots, <<u, s>> # <<t, r>>
      PROVE  /\ Fresh(req[u][s]) /\ ~Answered(u, s) /\ ~Refreshing(req[u][s])
             /\ req[u][s].token = "none"
  <2>1. Fresh(req[u][s]) /\ req[u][s] \in Req /\ ~Refreshing(req[u][s])
    BY <1>1, <1>4 DEF Calm, Single, Shape
  <2>2. ~Answered(u, s)
    BY <1>1, <1>4 DEF Calm, Single, Beside
  <2>3. QED
    BY <2>1, <2>2 DEF Fresh, Req, Held, Refreshing, Answered
<1>5. /\ req'[t][r] = p
      /\ \A u \in Tabs, s \in Slots : <<u, s>> # <<t, r>> => Same(req'[u][s], req[u][s])
  <2>1. Replaced(req) \in [Tabs -> [Slots -> Req]]
    BY ReplacedShape
  <2>2. req'[t][r] = p /\ \A u \in Tabs, s \in Slots : <<u, s>> # <<t, r>> => req'[u][s] = Replaced(req)[u][s]
    BY <1>3, <2>1
  <2>3. \A u \in Tabs, s \in Slots : <<u, s>> # <<t, r>> => Same(Replaced(req)[u][s], req[u][s])
    BY <1>4, ReplacedLike DEF Like, Same, Old
  <2>4. QED
    BY <2>2, <2>3
<1>6. Refreshing(p) /\ Fresh(req[t][r])' /\ Answered(t, r)'
  BY <1>1, <1>2, <1>3, <1>5 DEF Refreshing, Fresh, Answered
<1>7. ASSUME NEW u \in Tabs, NEW s \in Slots, <<u, s>> # <<t, r>>
      PROVE  Fresh(req[u][s])' /\ ~Answered(u, s)' /\ Beside(req'[u][s]) /\ ~Refreshing(req'[u][s])
  <2>1. Same(req'[u][s], req[u][s])
    BY <1>5, <1>7
  <2>2. /\ Fresh(req[u][s]) /\ ~Answered(u, s) /\ ~Refreshing(req[u][s])
        /\ req[u][s].token = "none"
    BY <1>4, <1>7
  <2>3. QED
    BY <1>3, <2>1, <2>2 DEF Same, Fresh, Answered, Beside, Refreshing
<1>8. \A u \in Tabs, s \in Slots : Fresh(req[u][s])'
  BY <1>5, <1>6, <1>7
<1>9. Single'
  BY <1>5, <1>6, <1>7 DEF Single
<1>10. CookieHeld'
  <2>1. cookie' # "current"
    BY <1>3 DEF Old
  <2>2. QED
    BY <1>5, <1>6, <2>1 DEF CookieHeld
<1>11. QED
  BY <1>3, <1>8, <1>9, <1>10 DEF Calm

\* An answer arrives, and its token is in the cookie again.
LEMMA Lands ==
    ASSUME Calm, Shape, NEW t \in Tabs, NEW r \in Slots, Answered(t, r),
           stored' = stored, cookie' = "current", denied' = denied,
           NEW Q, req' = [req EXCEPT ![t] = Q],
           \A s \in Slots \ {r} : Same(Q[s], req[t][s]) \/ (~Answered(t, s) /\ Tame(Q[s])),
           \/ Tame(Q[r])
           \/ /\ Refreshing(req[t][r]) /\ Q[r].pc = "validate" /\ Q[r].token = "current"
              /\ ~Q[r].gone /\ Q[r].kind = "init"
    PROVE  Calm'
<1>1. stored = "current" /\ ~denied'
  BY DEF Calm, Fresh, Answered
<1>2. req'[t] = Q /\ \A u \in Tabs \ {t} : req'[u] = req[u]
  BY DEF Shape
<1>3. /\ Fresh(req[t][r])' /\ ~Answered(t, r)'
      /\ Refreshing(req'[t][r]) => Refreshing(req[t][r])
  BY <1>1, <1>2 DEF Tame, Fresh, Answered, Refreshing
<1>4. ASSUME NEW u \in Tabs, NEW s \in Slots, <<u, s>> # <<t, r>>
      PROVE  /\ Fresh(req[u][s])' /\ ~Answered(u, s)'
             /\ Refreshing(req'[u][s]) => Refreshing(req[u][s])
  <2>1. Fresh(req[u][s]) /\ ~Answered(u, s)
    BY <1>4 DEF Calm, Single, Beside, Answered
  <2>2. CASE Same(req'[u][s], req[u][s])
    BY <1>1, <2>1, <2>2 DEF Same, Fresh, Answered, Refreshing
  <2>3. CASE Tame(req'[u][s])
    BY <1>1, <2>1, <2>3 DEF Tame, Fresh, Answered, Refreshing
  <2>4. QED
    BY <1>2, <1>4, <2>2, <2>3 DEF Same
<1>5. \A u \in Tabs, s \in Slots :
         /\ Fresh(req[u][s])' /\ ~Answered(u, s)'
         /\ Refreshing(req'[u][s]) => Refreshing(req[u][s])
  BY <1>3, <1>4
<1>6. Single' /\ CookieHeld'
  BY <1>1, <1>5 DEF Calm, Single, CookieHeld
<1>7. QED
  BY <1>1, <1>5, <1>6 DEF Calm

LEMMA ArriveCalm ==
    ASSUME Calm, Shape, NEW t \in Tabs, NEW r \in Slots, Arrive(t, r)
    PROVE  Calm'
<1> DEFINE q == req[t][r]
<1>1. /\ q \in Req /\ Answered(t, r) /\ q.token = "current" /\ req[t] \in [Slots -> Req]
      /\ stored' = stored /\ cookie' = "current" /\ denied' = denied
  BY DEF Shape, Calm, Arrive, Answered, Fresh
<1>2. CASE q.driver
  <2> DEFINE Q == [s \in Slots |->
                     IF s \in Queued(t) \cup {r} THEN Sent(req[t][s], "live", q.token) ELSE req[t][s]]
  <2>1. req' = [req EXCEPT ![t] = Q]
    BY <1>2 DEF Arrive
  <2>2. \A s \in Slots : Q[s] = IF s \in Queued(t) \cup {r} THEN Sent(req[t][s], "live", q.token)
                                ELSE req[t][s]
    OBVIOUS
  <2> HIDE DEF Q
  <2>3. ASSUME NEW s \in Slots \ {r}
        PROVE  Same(Q[s], req[t][s]) \/ (~Answered(t, s) /\ Tame(Q[s]))
    <3>1. CASE s \in Queued(t)
      <4>1. /\ req[t][s] \in Req /\ req[t][s].kind # "init" /\ ~Answered(t, s)
            /\ req[t][s].gone => req[t][s].kind \in {"logout", "password"}
        BY <3>1 DEF Shape, Queued, Calm, Fresh, Answered
      <4>2. Tame(Sent(req[t][s], "live", q.token))
        BY <4>1 DEF Sent, Req, Tame, Refreshing
      <4>3. QED
        BY <2>2, <3>1, <4>1, <4>2
    <3>2. CASE s \notin Queued(t)
      BY <2>2, <3>2 DEF Same
    <3>3. QED
      BY <3>1, <3>2
  <2>4. Refreshing(q) /\ ~q.gone
    BY <1>1, <1>2 DEF Calm, Fresh, Refreshing, Answered
  <2>5. \/ Tame(Q[r])
        \/ /\ Q[r].pc = "validate" /\ Q[r].token = "current" /\ ~Q[r].gone /\ Q[r].kind = "init"
    <3>1. Q[r] = Sent(q, "live", q.token)
      BY <2>2
    <3>2. QED
      BY <1>1, <2>4, <3>1 DEF Sent, Req, Tame, Refreshing
  <2>6. QED
    BY <1>1, <2>1, <2>3, <2>4, <2>5, Lands
<1>3. ASSUME NEW p, Tame(p), req' = [req EXCEPT ![t][r] = p]
      PROVE  Calm'
  <2> DEFINE Q == [req[t] EXCEPT ![r] = p]
  <2>1. req' = [req EXCEPT ![t] = Q]
    BY <1>3
  <2>2. Q[r] = p /\ \A s \in Slots \ {r} : Q[s] = req[t][s]
    BY <1>1
  <2> HIDE DEF Q
  <2>3. \A s \in Slots \ {r} : Same(Q[s], req[t][s])
    BY <2>2 DEF Same
  <2>4. QED
    BY <1>1, <1>3, <2>1, <2>2, <2>3, Lands
<1>4. CASE ~q.driver /\ q.kind \in {"init", "login"}
  <2>1. Tame(New(IF q.kind = "init" THEN "initme" ELSE "loginme", "live"))
    BY NewTame
  <2>2. req' = [req EXCEPT ![t][r] = New(IF q.kind = "init" THEN "initme" ELSE "loginme", "live")]
    BY <1>4 DEF Arrive
  <2>3. QED
    BY <1>3, <2>1, <2>2
<1>5. CASE ~q.driver /\ q.kind = "sso"
  BY <1>3, <1>5, FreeTame DEF Arrive
<1>6. QED
  BY <1>2, <1>4, <1>5 DEF Arrive

-----------------------------------------------------------------------------
(* Pages and users.                                                        *)

\* A page that goes has no refresh and no log-in on its way, or the session is disturbed.
LEMMA AbandonedTame ==
    ASSUME Calm, Shape, NEW t \in Tabs, ~Cut(t)
    PROVE  \A s \in Slots : ~Answered(t, s) /\ Tame(Abandoned(t)[s])
<1> SUFFICES ASSUME NEW s \in Slots
             PROVE  ~Answered(t, s) /\ Tame(Abandoned(t)[s])
  OBVIOUS
<1> DEFINE q == req[t][s]
           p == [q EXCEPT !.gone = TRUE, !.driver = FALSE, !.retry = FALSE]
<1>1. q \in Req /\ Fresh(q) /\ Sound(q)
  BY DEF Calm, Shape
<1>2. q.gone \/ (~Refreshing(q) /\ (q.pc \in {"sent", "answer"} => q.kind \notin {"login", "sso"}))
  BY DEF Cut
<1>3. ~Refreshing(q) /\ q.pc # "answer"
  BY <1>1, <1>2 DEF Fresh, Refreshing, Sound, Goes
<1>4. CASE Goes(q)
  <2>1. p.pc = q.pc /\ p.kind = q.kind /\ p.token = q.token /\ p.driver = FALSE /\ p.gone = TRUE
    BY <1>1 DEF Req
  <2>2. Abandoned(t)[s] = p
    BY <1>4 DEF Abandoned
  <2>3. q.pc = "sent" /\ q.kind \in {"logout", "password"} /\ q.token = "none"
    BY <1>1, <1>2, <1>3, <1>4 DEF Goes, Refreshing, Fresh, Sound
  <2> HIDE DEF p
  <2>4. QED
    BY <1>3, <2>1, <2>2, <2>3 DEF Tame, Refreshing, Answered
<1>5. CASE ~Goes(q)
  BY <1>3, <1>5, FreeTame DEF Abandoned, Answered
<1>6. QED
  BY <1>4, <1>5

LEMMA GoCalm ==
    ASSUME Calm, Shape, ~disturbed', NEW t \in Tabs, NEW T, Go(t, T)
    PROVE  Calm'
<1> DEFINE Q == Abandoned(t)
<1>1. req' = [req EXCEPT ![t] = Q] /\ Still /\ ~Cut(t)
  BY DEF Go, Still
<1>2. \A s \in Slots : ~Answered(t, s) /\ Tame(Q[s])
  BY <1>1, AbandonedTame
<1> HIDE DEF Q
<1>3. QED
  BY <1>1, <1>2, RowTamed

LEMMA BeginCalm ==
    ASSUME Calm, Shape, ~disturbed', NEW t \in Tabs, NEW r \in Slots, NEW kind, Begin(t, r, kind)
    PROVE  Calm'
<1> DEFINE p == New(kind, tab[t].access)
<1>1. req' = [req EXCEPT ![t][r] = p] /\ Still /\ ~Answered(t, r)
  BY DEF Begin, Still, Answered
<1>2. /\ kind # "init" => Tame(p)
      /\ kind = "init" => p.pc = "validate" /\ p.token = cookie /\ ~p.gone /\ p.kind = "init"
  BY NewTame
<1>3. kind = "init" => ~Overlaps(t, r)
  BY DEF Begin
<1> HIDE DEF p
<1>4. QED
  BY <1>1, <1>2, <1>3, SlotTamed, Starts

LEMMA SingleSignOnCalm ==
    ASSUME Calm, Shape, ~disturbed', NEW t \in Tabs, NEW r \in Slots, SingleSignOn(t, r)
    PROVE  Calm'
<1> DEFINE A == Abandoned(t)
           n == New("sso", "none")
           Q == [A EXCEPT ![r] = n]
<1>1. req' = [req EXCEPT ![t] = Q] /\ Still /\ ~Cut(t)
  BY DEF SingleSignOn, Still
<1>2. \A s \in Slots : ~Answered(t, s) /\ Tame(A[s])
  BY <1>1, AbandonedTame
<1>3. Tame(n)
  BY NewTame
<1>4. DOMAIN A = Slots
  BY DEF Abandoned
<1> HIDE DEF A, n
<1>5. \A s \in Slots : Tame(Q[s])
  BY <1>2, <1>3, <1>4
<1> HIDE DEF Q
<1>6. QED
  BY <1>1, <1>2, <1>5, RowTamed

LEMMA ExpireCalm ==
    ASSUME Calm, Shape, NEW t \in Tabs, Expire(t)
    PROVE  Calm'
<1> DEFINE Q == [s \in Slots |-> [req[t][s] EXCEPT !.access = Stale(@)]]
<1>1. req' = [req EXCEPT ![t] = Q] /\ Still
  BY DEF Expire, Still
<1>2. \A s \in Slots : Same(Q[s], req[t][s])
  BY DEF Shape, Req, Same
<1> HIDE DEF Q
<1>3. QED
  BY <1>1, <1>2, RowTamed

\* Steps that touch no request and no token.
LEMMA IdleCalm == ASSUME Calm, Still, req' = req PROVE Calm'
<1>1. \A t \in Tabs, r \in Slots : Same(req'[t][r], req[t][r])
  BY DEF Same
<1>2. QED
  BY <1>1, Tamed

LEMMA CalmStep ==
    ASSUME Calm, Shape, ~disturbed', [Next]_vars
    PROVE  Calm'
<1>1. ASSUME NEW t \in Tabs, NEW r \in Slots, Answer(t, r) PROVE Calm'
  <2>1. ~Cleared(t, r)
    BY DEF Calm, Fresh, Cleared
  <2>2. QED
    BY <1>1, <2>1, ServedCalm, LogInCalm, ValidateCalm, RotateCalm, ArriveCalm DEF Answer
<1>2. ASSUME NEW t \in Tabs, Page(t) PROVE Calm'
  <2>1. CASE Leave(t)
    BY <2>1, GoCalm DEF Leave
  <2>2. CASE Redirect(t)
    BY <2>2, IdleCalm DEF Redirect, Still
  <2>3. ASSUME NEW r \in Slots, Restore(t, r) \/ ReadProfile(t, r) PROVE Calm'
    BY <2>3, BeginCalm DEF Restore, ReadProfile
  <2>4. QED
    BY <1>2, <2>1, <2>2, <2>3 DEF Page
<1>3. ASSUME NEW t \in Tabs, User(t) PROVE Calm'
  <2>1. CASE Open(t) \/ Expire(t)
    BY <2>1, GoCalm, ExpireCalm DEF Open
  <2>2. ASSUME NEW r \in Slots, SignOut(t, r) PROVE Calm'
    BY <2>2, BeginCalm, IdleCalm DEF SignOut, Still
  <2>3. ASSUME NEW r \in Slots, Use(t, r) \/ SignIn(t, r) PROVE Calm'
    BY <2>3, BeginCalm DEF Use, SignIn
  <2>4. ASSUME NEW r \in Slots, SingleSignOn(t, r) PROVE Calm'
    BY <2>4, SingleSignOnCalm
  <2>5. \A r \in Slots : ~Lose(t, r)
    BY DEF Lose
  <2>6. QED
    BY <1>3, <2>1, <2>2, <2>3, <2>4, <2>5 DEF User
<1>4. CASE Administer \/ UNCHANGED vars
  BY <1>4, IdleCalm DEF Administer, vars, Still
<1>5. QED
  BY <1>1, <1>2, <1>3, <1>4 DEF Next, Elsewhere

\* What has disturbed the session once is not forgotten.
LEMMA Forgotten == ASSUME disturbed, [Next]_vars PROVE disturbed'
<1>1. ASSUME NEW t \in Tabs, NEW r \in Slots, Unauthorized(t, r) PROVE disturbed'
  BY <1>1 DEF Unauthorized
<1>2. ASSUME NEW t \in Tabs, NEW r \in Slots, Answer(t, r) PROVE disturbed'
  BY <1>1, <1>2 DEF Answer, Serve, LogIn, EndSession, Fails, Dropped, Cleared, Validate, Rotate,
                    Arrive, Refused
<1>3. ASSUME NEW t \in Tabs, Page(t) \/ User(t) PROVE disturbed'
  BY <1>3 DEF Page, User, Leave, Redirect, Restore, ReadProfile, Open, Expire, Use, SignIn,
              SingleSignOn, SignOut, Lose, Begin, Go
<1>4. CASE Elsewhere
  BY <1>4 DEF Elsewhere
<1>5. CASE UNCHANGED disturbed
  BY <1>5
<1>6. Administer \/ UNCHANGED vars => UNCHANGED disturbed
  BY DEF Administer, vars
<1>7. QED
  BY <1>2, <1>3, <1>4, <1>5, <1>6 DEF Next

LEMMA KInvInit == Init => KInv
<1>1. SUFFICES ASSUME Init, ~disturbed PROVE Calm
  BY DEF KInv
<1>2. cookie = stored /\ cookie # "old" /\ ~denied
  BY <1>1 DEF Init
<1>3. \A t \in Tabs, r \in Slots : req[t][r] = Free
  BY <1>1 DEF Init
<1>4. \A t \in Tabs, r \in Slots : Fresh(req[t][r]) /\ ~Refreshing(req[t][r]) /\ ~Answered(t, r)
  BY <1>3 DEF Fresh, Refreshing, Answered, Free
<1>5. QED
  BY <1>2, <1>4 DEF Calm, Single, CookieHeld

\* A session that nobody ended, and no refresh of which was cut off or overlapped by another,
\* is kept: no refresh is refused, and when nothing is on its way the browser has the token
\* that Redis has (routers/auth.py:142-174, api.ts:29-85).
THEOREM SessionsAreKept == Spec => []SessionKept
<1>1. KInv /\ Shape /\ [Next]_vars => KInv'
  BY CalmStep, Forgotten DEF KInv
<1>2. IInv => Shape
  BY DEF IInv
<1>3. QED
  BY <1>1, <1>2, KInvInit, Invariance, CalmKeeps, PTL DEF Spec
=============================================================================
