----------------------------- MODULE AuthSessions -----------------------------
(***************************************************************************)
(* Sessions: the tokens of one user, from log-in to log-out.  The server   *)
(* keeps one refresh token per user, in Redis, and replaces it at every    *)
(* refresh; the browser keeps it in a cookie that its tabs share; a tab    *)
(* keeps an access token in memory.  A request that is refused with 401    *)
(* makes the tab's interceptor refresh the token, once for all requests    *)
(* that are refused meanwhile, and send them again; when that fails it     *)
(* logs out and loads the log-in page anew.                                *)
(*                                                                         *)
(* What is stored and what is set in the cookie are different moments, and *)
(* tabs, late answers, reloads and other devices come between them.        *)
(* Passwords, encoding and signatures are choices of the environment.      *)
(* Every refresh token is different (its jti), so one that is no longer    *)
(* the stored one never is again: it is enough to know which are "current" *)
(* and which are "old".                                                    *)
(***************************************************************************)
EXTENDS Naturals

CONSTANTS
    Tabs,       \* tabs of the browser
    Slots,      \* bound: requests of a tab at one time
    MaxEvents   \* bound: what users, clocks and networks do

ASSUME EventsAssumption == MaxEvents \in Nat

VARIABLES
    stored,     \* the refresh token in Redis: there is one, or none
    cookie,     \* the refresh token in the cookie of the browser
    account,    \* what the administrators have made of the account
    tab,        \* tab[t]: the page, the auth store and the interceptor of a tab
    req,        \* req[t][r]: a request of the tab, on its way
    disturbed,  \* history: the session was ended, an answer lost, or a refresh cut off or overlapped
    denied,     \* history: a refresh with a cookie was refused
    events

vars == <<stored, cookie, account, tab, req, disturbed, denied, events>>

Held == {"none", "old", "current"}

\* "stale": the access token has expired.
Access == {"none", "live", "stale"}

\* leaving: window.location was set and the page is about to go; due: the effect that
\* restores the session has to run; loading: isLoading of the store.
Tab == [page : {"login", "app", "sso"}, access : Access, user : BOOLEAN, hydrated : BOOLEAN,
        refreshing : BOOLEAN, due : BOOLEAN, leaving : BOOLEAN, loading : BOOLEAN]

\* The profile is read by fetchMe ("me"), after the cookie ("initme") and after a log-in.
Kinds == {"call", "init", "initme", "login", "loginme", "me", "logout", "password", "sso"}

\* A request awaits its own answer ("sent"), or that of a refresh: to "validate" its
\* token, to "rotate" it, with the new one ("answer") or a 401 ("refused"); "cleared" is
\* the answer of a log-out.
Places == {"idle", "sent", "queued", "validate", "rotate", "answer", "refused", "cleared"}

\* driver: the refresh is the interceptor's, for this request; gone: the tab no longer waits.
Req == [pc : Places, kind : Kinds, access : Access, token : Held,
        retry : BOOLEAN, driver : BOOLEAN, gone : BOOLEAN]

Free  == [pc |-> "idle", kind |-> "call", access |-> "none", token |-> "none",
          retry |-> FALSE, driver |-> FALSE, gone |-> FALSE]
Blank == [page |-> "login", access |-> "none", user |-> FALSE, hydrated |-> FALSE,
          refreshing |-> FALSE, due |-> FALSE, leaving |-> FALSE, loading |-> FALSE]
Home  == [Blank EXCEPT !.page = "app", !.access = "live", !.user = TRUE, !.hydrated = TRUE]

\* A refresh that the server has not answered, or whose answer is on its way.
Refreshing(q) == \/ q.pc \in {"validate", "rotate", "refused"}
                 \/ q.pc = "answer" /\ (q.driver \/ q.kind \notin {"login", "sso"})
Driving(q)    == q.driver /\ ~q.gone

TypeOK ==
    /\ stored \in Held \ {"old"} /\ cookie \in Held
    /\ account \in {"active", "disabled", "deleted"}
    /\ tab \in [Tabs -> Tab]
    /\ req \in [Tabs -> [Slots -> Req]]
    /\ \A t \in Tabs, r \in Slots :
         /\ req[t][r].driver => req[t][r].retry /\ Refreshing(req[t][r])
         /\ req[t][r].pc = "idle" => req[t][r] = Free
    /\ stored = "none" => \A t \in Tabs, r \in Slots : "current" \notin {cookie, req[t][r].token}
    /\ disturbed \in BOOLEAN /\ denied \in BOOLEAN
    /\ events \in 0..MaxEvents

\* Nobody is signed in, or the browser is, with tabs that are, some for long, and tabs
\* at the log-in page; another device may have signed in since.
Init ==
    /\ account = "active"
    /\ req = [t \in Tabs |-> [r \in Slots |-> Free]]
    /\ \/ stored = "none" /\ cookie = "none" /\ tab = [t \in Tabs |-> Blank]
       \/ /\ stored = "current" /\ cookie \in {"current", "old"}
          /\ tab \in [Tabs -> {Blank, Home, [Home EXCEPT !.access = "stale"]}]
    /\ disturbed = (cookie = "old") /\ denied = FALSE /\ events = 0

Event == events < MaxEvents /\ events' = events + 1
Quiet == events' = events

\* Redis gets another token, or none: whatever was current is old.
Old(token)     == IF token = "current" THEN "old" ELSE token
Replaced(reqs) == [t \in Tabs |-> [r \in Slots |-> [reqs[t][r] EXCEPT !.token = Old(@)]]]

Store(t, r, q) ==
    /\ stored' = "current" /\ cookie' = Old(cookie)
    /\ req' = [Replaced(req) EXCEPT ![t][r] = q]

Unstore(t, r, q) ==
    /\ stored' = "none" /\ cookie' = Old(cookie)
    /\ req' = [Replaced(req) EXCEPT ![t][r] = q]

Overlaps(t, r) == \E u \in Tabs, s \in Slots : <<u, s>> # <<t, r>> /\ Refreshing(req[u][s])

-----------------------------------------------------------------------------
(* The interceptor and the auth store, in the tab.                         *)

\* The request as it leaves: a refresh takes the cookie along, others the access token.
Sent(q, access, jar) ==
    IF q.kind = "init" THEN [q EXCEPT !.pc = "validate", !.token = jar, !.driver = FALSE]
    ELSE [q EXCEPT !.pc = "sent", !.access = access, !.token = "none", !.driver = FALSE]

New(kind, access) == Sent([Free EXCEPT !.kind = kind], access, cookie)

\* The request ends, and what its caller then does to the store: whoever restores the
\* session, reads the profile or logs out empties it on failure.
Empties == {"init", "initme", "me", "logout"}

\* Whoever logs in or reads the profile by fetchMe sets isLoading, and resets it in the
\* end, even if another one is still at it.
Loads == {"login", "loginme", "me"}

After(T, kinds) ==
    LET E == IF kinds \cap Empties = {} THEN T
             ELSE [T EXCEPT !.access = "none", !.user = FALSE, !.hydrated = TRUE]
    IN  [E EXCEPT !.loading = @ /\ kinds \cap Loads = {}]

Reject(t, r) ==
    /\ req' = [req EXCEPT ![t][r] = Free]
    /\ tab' = [tab EXCEPT ![t] = After(@, {req[t][r].kind})]

\* The access token is stored: the effect of an app page that is not hydrated runs again.
Holding(T) == [T EXCEPT !.access = "live", !.due = (T.page = "app" /\ ~T.hydrated)]

Queued(t) == {r \in Slots : req[t][r].pc = "queued"}

\* Mutant: the request is not marked as sent for the second time.
UnauthorizedUnmarked(t, r) ==
    LET q == req[t][r] IN
    IF tab[t].refreshing
    THEN /\ req' = [req EXCEPT ![t][r] = [@ EXCEPT !.pc = "queued", !.access = "none", !.token = "none"]]
         /\ UNCHANGED <<tab, disturbed>>
    ELSE /\ req' = [req EXCEPT ![t][r] = [@ EXCEPT !.pc = "validate",
                                            !.driver = TRUE, !.access = "none", !.token = cookie]]
         /\ tab' = [tab EXCEPT ![t].refreshing = TRUE]
         /\ disturbed' = (disturbed \/ Overlaps(t, r))

\* A 401 reaches the tab.
Unauthorized(t, r) ==
    LET q == req[t][r] IN
    IF q.retry THEN Reject(t, r) /\ UNCHANGED disturbed
    ELSE IF tab[t].refreshing
    THEN /\ req' = [req EXCEPT ![t][r] = [@ EXCEPT !.pc = "queued", !.access = "none", !.token = "none"]]
         /\ UNCHANGED <<tab, disturbed>>
    ELSE /\ req' = [req EXCEPT ![t][r] = [@ EXCEPT !.pc = "validate", !.retry = TRUE,
                                            !.driver = TRUE, !.access = "none", !.token = cookie]]
         /\ tab' = [tab EXCEPT ![t].refreshing = TRUE]
         /\ disturbed' = (disturbed \/ Overlaps(t, r))

\* Mutant: those who wait for the refresh are not told that it failed.
RefreshFailedAlone(t, r) ==
    LET T    == tab[t]
        mine == IF T.access = "none" THEN Free ELSE New("logout", T.access)
        kinds == {req[t][r].kind} \cup (IF T.access = "none" THEN {"logout"} ELSE {})
    IN  /\ req' = [req EXCEPT ![t][r] = mine]
        /\ tab' = [tab EXCEPT ![t] = [After(T, kinds) EXCEPT !.refreshing = FALSE, !.leaving = TRUE]]

\* The refresh has failed: the queue is rejected, and the store logs out, for which it
\* posts with the token it has; the page is left.
RefreshFailed(t, r) ==
    LET T    == tab[t]
        over == Queued(t) \cup {r}
        mine == IF T.access = "none" THEN Free ELSE New("logout", T.access)
        kinds == {req[t][s].kind : s \in over} \cup (IF T.access = "none" THEN {"logout"} ELSE {})
    IN  /\ req' = [req EXCEPT ![t] = [s \in Slots |->
                     IF s = r THEN mine ELSE IF s \in over THEN Free ELSE req[t][s]]]
        /\ tab' = [tab EXCEPT ![t] = [After(T, kinds) EXCEPT !.refreshing = FALSE, !.leaving = TRUE]]

-----------------------------------------------------------------------------
(* Requests: on the server, and when their answers arrive.                 *)

Works(q) == q.access = "live" /\ account = "active"

\* get_current_user: 403 for an account that is disabled and 401 for a token that is
\* not accepted; for no token it depends on the version of FastAPI.
Forbidden(q)  == q.access = "none" \/ (q.access = "live" /\ account = "disabled")
Unaccepted(q) == q.access # "live" \/ account = "deleted"

\* A request of the API is handled and answered.
Serve(t, r) ==
    LET q == req[t][r] IN
    /\ q.pc = "sent" /\ q.kind \in {"call", "initme", "me", "loginme"}
    /\ Quiet /\ UNCHANGED <<stored, cookie, account, denied>>
    /\ \/ /\ Works(q)
          /\ req' = [req EXCEPT ![t][r] = Free]
          /\ tab' = IF q.kind = "call" THEN tab
                    ELSE [tab EXCEPT ![t].user = TRUE, ![t].hydrated = TRUE, ![t].due = FALSE,
                                     ![t].loading = @ /\ q.kind \notin Loads]
          /\ UNCHANGED disturbed
       \/ Forbidden(q) /\ Reject(t, r) /\ UNCHANGED disturbed
       \/ Unaccepted(q) /\ Unauthorized(t, r)

\* Nobody waits for the refusal.
Dropped(t, r) == req' = [req EXCEPT ![t][r] = Free] /\ UNCHANGED <<tab, disturbed>>

\* What is refused without a 401, and what is refused with one, which the interceptor gets.
Fails(t, r) ==
    LET q == req[t][r] IN
    /\ UNCHANGED <<stored, cookie>>
    /\ \/ q.gone /\ ~Works(q) /\ Dropped(t, r)
       \/ ~q.gone /\ Forbidden(q) /\ Reject(t, r) /\ UNCHANGED disturbed
       \/ ~q.gone /\ Unaccepted(q) /\ Unauthorized(t, r)

\* Both take the user's token from Redis; the change of the password is committed before,
\* and the log-out takes the cookie away with its answer.  A password that is wrong or not
\* new is refused with 400.
EndSession(t, r) ==
    LET q == req[t][r]
        answer == IF q.kind = "password" \/ q.gone THEN Free
                  ELSE [q EXCEPT !.pc = "cleared", !.access = "none"]
    IN  /\ q.pc = "sent" /\ q.kind \in {"logout", "password"}
        /\ Quiet /\ UNCHANGED <<account, denied>>
        /\ \/ Works(q) /\ Unstore(t, r, answer) /\ disturbed' = TRUE /\ UNCHANGED tab
           \/ Works(q) /\ q.kind = "password" /\ Dropped(t, r) /\ UNCHANGED <<stored, cookie>>
           \/ Fails(t, r)

\* A password is right or wrong; a sign-on by Microsoft works or not.  A deleted
\* account would be made anew by it: that is another user.
LogIn(t, r) ==
    LET q == req[t][r] IN
    /\ q.pc = "sent" /\ q.kind \in {"login", "sso"}
    /\ Quiet /\ UNCHANGED <<account, denied>>
    /\ \/ /\ account = "active"
          /\ Store(t, r, IF q.gone THEN Free
                         ELSE [q EXCEPT !.pc = "answer", !.access = "none", !.token = "current"])
          /\ disturbed' = (disturbed \/ stored # "none" \/ Overlaps(t, r))
          /\ UNCHANGED tab
       \/ /\ UNCHANGED <<stored, cookie>>
          /\ \/ q.gone /\ Dropped(t, r)
             \/ /\ ~q.gone /\ q.kind = "sso"
                /\ req' = [req EXCEPT ![t][r] = Free]
                /\ tab' = [tab EXCEPT ![t] = Blank]
                /\ UNCHANGED disturbed
             \/ ~q.gone /\ q.kind = "login" /\ Unauthorized(t, r)
             \/ ~q.gone /\ q.kind = "login" /\ account = "disabled" /\ Reject(t, r) /\ UNCHANGED disturbed

Cleared(t, r) ==
    /\ req[t][r].pc = "cleared"
    /\ Reject(t, r) /\ cookie' = "none"
    /\ Quiet /\ UNCHANGED <<stored, account, disturbed, denied>>

\* refresh: the cookie is compared with what is stored, and the new token is stored
\* in a second step, whatever happened between; the account is not looked at.
Validate(t, r) ==
    LET q == req[t][r]
        valid == q.token = "current"
    IN  /\ q.pc = "validate"
        /\ req' = [req EXCEPT ![t][r] = IF valid THEN [q EXCEPT !.pc = "rotate", !.token = "none"]
                       ELSE IF q.gone THEN Free ELSE [q EXCEPT !.pc = "refused", !.token = "none"]]
        /\ denied' = (denied \/ q.token = "old")
        /\ Quiet /\ UNCHANGED <<stored, cookie, account, tab, disturbed>>

\* Mutant: the new token is stored in Redis under the old name, that is, not at all.
RotateUnstored(t, r) ==
    LET q == req[t][r] IN
    /\ q.pc = "rotate"
    /\ req' = [req EXCEPT ![t][r] = IF q.gone THEN Free ELSE [q EXCEPT !.pc = "answer", !.token = "old"]]
    /\ Quiet /\ UNCHANGED <<stored, cookie, account, tab, disturbed, denied>>

Rotate(t, r) ==
    LET q == req[t][r] IN
    /\ q.pc = "rotate"
    /\ Store(t, r, IF q.gone THEN Free ELSE [q EXCEPT !.pc = "answer", !.token = "current"])
    /\ Quiet /\ UNCHANGED <<account, tab, disturbed, denied>>

\* A new token arrives, with its cookie.  A log-in and the restoring of a session read
\* the profile next; a refresh of the interceptor sends again whatever waited for it.
Arrive(t, r) ==
    LET q == req[t][r] IN
    /\ q.pc = "answer"
    /\ cookie' = q.token
    /\ Quiet /\ UNCHANGED <<stored, account, denied, disturbed>>
    /\ \/ /\ q.driver
          /\ tab' = [tab EXCEPT ![t] = [Holding(@) EXCEPT !.refreshing = FALSE]]
          /\ req' = [req EXCEPT ![t] = [s \in Slots |->
                        IF s \in Queued(t) \cup {r} THEN Sent(req[t][s], "live", q.token) ELSE @[s]]]
       \/ /\ ~q.driver /\ q.kind \in {"init", "login"}
          /\ tab' = [tab EXCEPT ![t] = Holding(@)]
          /\ req' = [req EXCEPT ![t][r] = New(IF q.kind = "init" THEN "initme" ELSE "loginme", "live")]
       \/ /\ ~q.driver /\ q.kind = "sso"
          /\ tab' = [tab EXCEPT ![t] = [Blank EXCEPT !.page = "app", !.due = TRUE]]
          /\ req' = [req EXCEPT ![t][r] = Free]

\* The 401 of a refresh arrives.
Refused(t, r) ==
    /\ req[t][r].pc = "refused"
    /\ Quiet /\ UNCHANGED <<stored, cookie, account, denied>>
    /\ IF req[t][r].driver THEN RefreshFailed(t, r) /\ UNCHANGED disturbed
       ELSE Unauthorized(t, r)

\* The network fails, before the server or after it: no status, so nothing is refreshed,
\* and a refresh that got no answer counts as failed.
Lose(t, r) ==
    LET q == req[t][r] IN
    /\ q.pc \in {"sent", "validate", "answer", "refused", "cleared"} /\ ~q.gone
    /\ Event /\ disturbed' = TRUE
    /\ \/ /\ q.kind = "sso"
          /\ req' = [req EXCEPT ![t][r] = Free] /\ tab' = [tab EXCEPT ![t] = Blank]
       \/ q.driver /\ RefreshFailed(t, r)
       \/ q.kind # "sso" /\ ~q.driver /\ Reject(t, r)
    /\ UNCHANGED <<stored, cookie, account, denied>>

-----------------------------------------------------------------------------
(* Pages.                                                                  *)

\* A page goes: what it sent goes on, on the server, where that matters.
Goes(q) == \/ q.pc \in {"validate", "rotate"}
           \/ q.pc = "sent" /\ q.kind \in {"logout", "password", "login", "sso"}

Abandoned(t) == [r \in Slots |->
    IF Goes(req[t][r]) THEN [req[t][r] EXCEPT !.gone = TRUE, !.driver = FALSE, !.retry = FALSE] ELSE Free]

\* A page that goes may not hear of a token that is stored.
Cut(t) == \E r \in Slots : LET q == req[t][r] IN
            ~q.gone /\ (Refreshing(q) \/ (q.pc \in {"sent", "answer"} /\ q.kind \in {"login", "sso"}))

Go(t, T) ==
    /\ tab' = [tab EXCEPT ![t] = T]
    /\ req' = [req EXCEPT ![t] = Abandoned(t)]
    /\ disturbed' = (disturbed \/ Cut(t))
    /\ UNCHANGED <<stored, cookie, account, denied>>

\* window.location, after a refresh that failed.
Leave(t) == tab[t].leaving /\ Go(t, Blank) /\ Quiet

\* The dashboard is opened, or loaded anew.
Open(t) == Event /\ Go(t, [Blank EXCEPT !.page = "app", !.due = TRUE])

Begin(t, r, kind) ==
    /\ req[t][r].pc = "idle" /\ ~tab[t].leaving
    /\ req' = [req EXCEPT ![t][r] = New(kind, tab[t].access)]
    /\ disturbed' = (disturbed \/ (kind = "init" /\ Overlaps(t, r)))
    /\ UNCHANGED <<stored, cookie, account, denied>>

\* The effect of the dashboard: it restores the session, again whenever the access token
\* changes before the profile is there; then it leaves for the log-in page without a
\* token, and reads the profile when there is none.
Restore(t, r) ==
    /\ tab[t].page = "app" /\ ~tab[t].hydrated /\ tab[t].due
    /\ Begin(t, r, "init") /\ tab' = [tab EXCEPT ![t].due = FALSE] /\ Quiet

ReadProfile(t, r) ==
    /\ tab[t].page = "app" /\ tab[t].hydrated /\ tab[t].access # "none" /\ ~tab[t].user
    /\ ~tab[t].loading
    /\ Begin(t, r, "me") /\ tab' = [tab EXCEPT ![t].loading = TRUE] /\ Quiet

Redirect(t) ==
    /\ tab[t].hydrated
    /\ \/ tab[t].page = "app" /\ tab[t].access = "none" /\ tab' = [tab EXCEPT ![t].page = "login"]
       \/ tab[t].page = "login" /\ tab[t].access # "none" /\ tab' = [tab EXCEPT ![t].page = "app"]
    /\ Quiet /\ UNCHANGED <<stored, cookie, account, req, disturbed, denied>>

\* What users do: use the dashboard, change the password, sign in, sign out.
Use(t, r) ==
    /\ tab[t].page = "app" /\ tab[t].user
    /\ \E kind \in {"call", "password"} : Begin(t, r, kind)
    /\ Event /\ UNCHANGED tab

SignIn(t, r) ==
    /\ tab[t].page = "login" /\ ~tab[t].loading
    /\ Begin(t, r, "login") /\ tab' = [tab EXCEPT ![t].loading = TRUE] /\ Event

\* Both redirects to Microsoft and back: the state parameter is taken from Redis and
\* used once, or has expired.
SingleSignOn(t, r) ==
    /\ tab[t].page = "login" /\ ~tab[t].leaving /\ account # "deleted"
    /\ Abandoned(t)[r].pc = "idle"
    /\ tab' = [tab EXCEPT ![t] = [Blank EXCEPT !.page = "sso"]]
    /\ req' = [req EXCEPT ![t] = [Abandoned(t) EXCEPT ![r] = New("sso", "none")]]
    /\ disturbed' = (disturbed \/ Cut(t))
    /\ Event /\ UNCHANGED <<stored, cookie, account, denied>>

SignOut(t, r) ==
    /\ tab[t].page = "app" /\ tab[t].user
    /\ IF tab[t].access # "none" THEN Begin(t, r, "logout") /\ UNCHANGED tab
       ELSE /\ tab' = [tab EXCEPT ![t] = After(@, {"logout"})]
            /\ UNCHANGED <<stored, cookie, account, req, disturbed, denied>>
    /\ Event

-----------------------------------------------------------------------------
(* Clocks, administrators and other devices.                               *)

Stale(access) == IF access = "live" THEN "stale" ELSE access

\* The access token of a tab is older than ACCESS_TOKEN_EXPIRE_MINUTES.
Expire(t) ==
    /\ tab[t].access = "live" /\ Event
    /\ tab' = [tab EXCEPT ![t].access = "stale"]
    /\ req' = [req EXCEPT ![t] = [r \in Slots |-> [req[t][r] EXCEPT !.access = Stale(@)]]]
    /\ UNCHANGED <<stored, cookie, account, disturbed, denied>>

\* The refresh token has expired, or another device signed in or out, or changed the password.
Elsewhere ==
    /\ stored' \in (IF account = "active" THEN {"none", "current"} ELSE {"none"})
    /\ cookie' = Old(cookie) /\ req' = Replaced(req)
    /\ disturbed' = TRUE /\ Event
    /\ UNCHANGED <<account, tab, denied>>

Administer ==
    /\ account # "deleted"
    /\ account' \in {"active", "disabled", "deleted"} \ {account}
    /\ Event /\ UNCHANGED <<stored, cookie, tab, req, disturbed, denied>>

-----------------------------------------------------------------------------
Answer(t, r) ==
    \/ Serve(t, r) \/ LogIn(t, r) \/ EndSession(t, r) \/ Cleared(t, r)
    \/ Validate(t, r) \/ Rotate(t, r) \/ Arrive(t, r) \/ Refused(t, r)

Page(t) == Leave(t) \/ Redirect(t) \/ \E r \in Slots : Restore(t, r) \/ ReadProfile(t, r)

User(t) ==
    \/ Open(t) \/ Expire(t)
    \/ \E r \in Slots : Use(t, r) \/ SignIn(t, r) \/ SingleSignOn(t, r) \/ SignOut(t, r) \/ Lose(t, r)

Next ==
    \/ \E t \in Tabs : Page(t) \/ User(t) \/ \E r \in Slots : Answer(t, r)
    \/ Elsewhere \/ Administer

Spec == Init /\ [][Next]_vars

\* Requests are answered, and a browser runs its effects and loads its pages.
FairSpec ==
    /\ Spec
    /\ \A t \in Tabs : WF_vars(Page(t)) /\ \A r \in Slots : WF_vars(Answer(t, r))

-----------------------------------------------------------------------------
(* Properties.                                                             *)

\* A tab refreshes at most once at a time, and whoever waits for a refresh waits for one
\* that is on its way: failedQueue never outlives isRefreshing.
OneRefresh ==
    \A t \in Tabs :
        /\ tab[t].refreshing <=> \E r \in Slots : Driving(req[t][r])
        /\ \A r, s \in Slots : Driving(req[t][r]) /\ Driving(req[t][s]) => r = s
        /\ Queued(t) # {} => tab[t].refreshing

\* A session that nobody ended is not lost: while no answer of any request was lost, no
\* refresh was cut off by a reload and none overlapped another of the browser, no refresh
\* is refused, and when nothing is on its way the cookie is what Redis has.
SessionKept ==
    ~disturbed =>
        /\ ~denied
        /\ (\A t \in Tabs, r \in Slots : req[t][r].pc = "idle") => cookie = stored

\* Once users, clocks and networks leave the browser alone, every request is answered,
\* those that wait for another one's refresh too, and every tab comes to rest at the
\* log-in page or with a token and a profile: retries, log-outs and effects that start
\* one another end.
ComesToRest ==
    <>[]( \A t \in Tabs :
            /\ \A r \in Slots : req[t][r].pc = "idle"
            /\ tab[t].page = "login" \/ (tab[t].user /\ tab[t].access # "none") )
=============================================================================
