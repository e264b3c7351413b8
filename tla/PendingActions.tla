--------------------------- MODULE PendingActions ---------------------------
(***************************************************************************)
(* The approval flow of the assistant's builder: a message that asks for a *)
(* policy, a group or a script makes a plan, the plan waits in a table of  *)
(* the worker process that built it, keyed by chat session, and a later    *)
(* message approves it (the plan is taken from the table and posted to the *)
(* Jamf server) or cancels it.                                             *)
(*                                                                         *)
(* The requests of one user, /chat and /chat/stream, are coroutines of     *)
(* several uvicorn workers; nothing decides which worker gets a message.   *)
(* Between two awaits a coroutine runs alone in its worker.  The text of   *)
(* messages and replies, the history sent to the model and the retrieved   *)
(* documents are left out.  The tables of users, roles and servers belong  *)
(* to other components and may change at any time: each time the handler   *)
(* reads one, the model takes every answer it can get.                     *)
(***************************************************************************)
EXTENDS Naturals

CONSTANTS
    Workers,      \* uvicorn processes
    Requests,     \* messages being handled at one time
    Sessions,     \* chat sessions of the user
    MaxPlans,     \* bound: plans built
    New,          \* session_id omitted: the message opens a session
    NoWorker      \* a message not sent yet

ASSUME NewAssumption      == New \notin Sessions
ASSUME NoWorkerAssumption == NoWorker \notin Workers
ASSUME MaxPlansAssumption == MaxPlans \in Nat

VARIABLES
    chat,       \* chat[r]: the message a request handles and where the handler is
    pending,    \* pending[w][s]: _PENDING_ACTIONS of worker w, 0 when s has none
    made,       \* plans built so far, numbered from 1
    origin,     \* origin[p]: the session plan p was made in
    withdrawn,  \* history: plans cancelled, or replaced by a newer one
    posted,     \* posted[p]: how often Jamf carried out plan p
    session     \* the rows of chat_sessions

vars == <<chat, pending, made, origin, withdrawn, posted, session>>

Plans == 1..MaxPlans
None  == 0

\* What the handlers tell apart: a message in read-only mode, and in builder mode
\* the three intents and any other message.
Messages == {"ask", "create", "approve", "cancel", "talk"}

\* Each value but "idle" is an await (or, for "announced", a yield) of the handler.
Places == {"idle", "context", "accepted", "announced", "resolving", "planning",
           "answering", "executing", "posting", "saving"}

Chat == [pc : Places, msg : Messages, stream : BOOLEAN, worker : Workers \cup {NoWorker},
         session : Sessions \cup {New}, plan : 0..MaxPlans, may : BOOLEAN]

Idle == [pc |-> "idle", msg |-> "ask", stream |-> FALSE, worker |-> NoWorker,
         session |-> New, plan |-> None, may |-> FALSE]

Built == 1..made

At(r, pc) == chat[r].pc = pc

TypeOK ==
    /\ chat \in [Requests -> Chat]
    /\ \A r \in Requests :
         /\ chat[r].plan \in IF chat[r].pc \in {"executing", "posting"} THEN Built ELSE {None}
         /\ chat[r].pc \notin {"idle", "answering", "saving"} =>
              chat[r].worker \in Workers /\ (At(r, "context") \/ chat[r].session \in Sessions)
         /\ At(r, "announced") => chat[r].msg = "approve"
    /\ pending \in [Workers -> [Sessions -> 0..MaxPlans]]
    /\ made \in 0..MaxPlans
    /\ origin \in [Built -> Sessions]
    /\ withdrawn \in SUBSET Plans
    /\ posted \in [Plans -> Nat]
    /\ session \in [Sessions -> {"fresh", "open", "deleted"}]

Init ==
    /\ chat = [r \in Requests |-> Idle]
    /\ pending = [w \in Workers |-> [s \in Sessions |-> None]]
    /\ made = 0 /\ origin = [p \in {} |-> New]
    /\ withdrawn = {} /\ posted = [p \in Plans |-> 0]
    /\ session \in [Sessions -> {"fresh", "open"}]

Goto(r, pc) == chat' = [chat EXCEPT ![r].pc = pc]
End(r) == chat' = [chat EXCEPT ![r] = Idle]

\* Only the reply is missing: however the handler ends, nothing else happens.
Wind(r, pc) == chat' = [chat EXCEPT ![r] = [Idle EXCEPT !.pc = pc]]

table == <<pending, made, origin, withdrawn>>

\* _peek_pending_action, in the worker that got the message.
Pending(r) == pending[chat[r].worker][chat[r].session]
Cleared(r) == [pending EXCEPT ![chat[r].worker][chat[r].session] = None]
-----------------------------------------------------------------------------
\* A message reaches a worker; get_current_user loads the user and its role, and
\* with them whether it has servers.manage.
Send(r, m, w, s) ==
    /\ At(r, "idle")
    /\ s \in Sessions => session[s] # "fresh"
    /\ \E stream, may \in BOOLEAN :
         chat' = [chat EXCEPT ![r] = [pc |-> "context", msg |-> m, stream |-> stream,
                    worker |-> w, session |-> s, plan |-> None, may |-> may]]
    /\ UNCHANGED <<table, posted, session>>

\* After the summary and the retrieved documents: the session is found, or
\* created, and the user's message committed.
Accept(r) ==
    /\ At(r, "context")
    /\ \E s \in Sessions :
         /\ IF chat[r].session = New THEN session[s] = "fresh"
                                     ELSE s = chat[r].session /\ session[s] = "open"
         /\ chat' = [chat EXCEPT ![r].session = s, ![r].pc = "accepted"]
         /\ session' = [session EXCEPT ![s] = "open"]
    /\ UNCHANGED <<table, posted>>

\* 404, Session not found.
NotFound(r) ==
    /\ At(r, "context") /\ chat[r].session # New
    /\ session[chat[r].session] = "deleted"
    /\ End(r) /\ UNCHANGED <<table, posted, session>>

Cancels(r)  == chat[r].msg = "cancel" /\ Pending(r) # None

\* Mutant: the wording of the message is not looked at.
ApprovesAnything(r) == Pending(r) # None

Approves(r) == chat[r].msg = "approve" /\ Pending(r) # None

\* rag_readonly: the model answers, whatever is pending.
Ask(r) ==
    /\ At(r, "accepted") /\ chat[r].msg = "ask"
    /\ Wind(r, "answering") /\ UNCHANGED <<table, posted, session>>

\* "Canceled pending action."
Cancel(r) ==
    /\ At(r, "accepted") /\ Cancels(r)
    /\ withdrawn' = withdrawn \cup {Pending(r)}
    /\ pending' = Cleared(r)
    /\ Wind(r, "saving") /\ UNCHANGED <<made, origin, posted, session>>

\* The stream yields "Executing approved action..." between the peek and the pop.
Announce(r) ==
    /\ At(r, "accepted") /\ Approves(r) /\ chat[r].stream
    /\ Goto(r, "announced") /\ UNCHANGED <<table, posted, session>>

\* _pop_pending_action.
Popped(r) ==
    /\ chat' = [chat EXCEPT ![r].pc = "executing", ![r].plan = Pending(r)]
    /\ pending' = Cleared(r)
    /\ UNCHANGED <<made, origin, withdrawn, posted, session>>

\* Mutant: what the pop returns in the stream is not tested.
TakeBlind(r) ==
    /\ (At(r, "accepted") /\ Approves(r) /\ ~chat[r].stream) \/ At(r, "announced")
    /\ Popped(r)

\* Mutant: the plan stays in the table while it is carried out.
TakePeek(r) ==
    /\ At(r, "accepted") /\ Approves(r)
    /\ chat' = [chat EXCEPT ![r].pc = "executing", ![r].plan = Pending(r)]
    /\ UNCHANGED <<table, posted, session>>

Take(r) ==
    /\ \/ At(r, "accepted") /\ Approves(r) /\ ~chat[r].stream
       \/ At(r, "announced") /\ Pending(r) # None
    /\ Popped(r)

\* "No pending action found."
TakeNone(r) ==
    /\ At(r, "announced") /\ Pending(r) = None
    /\ Wind(r, "saving") /\ UNCHANGED <<table, posted, session>>
-----------------------------------------------------------------------------
\* _build_action_plan: permission first, then the intent, then the server.
Builds(r) == At(r, "accepted") /\ chat[r].msg # "ask" /\ ~Cancels(r) /\ ~Approves(r)

Forbid(r) ==
    /\ Builds(r) /\ ~chat[r].may
    /\ Wind(r, "saving") /\ UNCHANGED <<table, posted, session>>

Converse(r) ==
    /\ Builds(r) /\ chat[r].may
    /\ IF chat[r].msg = "create" THEN Goto(r, "resolving") ELSE Wind(r, "answering")
    /\ UNCHANGED <<table, posted, session>>

\* _resolve_target_server finds the server named, or the only active one.
Resolve(r) ==
    /\ At(r, "resolving")
    /\ Goto(r, "planning") /\ UNCHANGED <<table, posted, session>>

\* "No target Jamf server found."
NoTarget(r) ==
    /\ At(r, "resolving")
    /\ Wind(r, "saving") /\ UNCHANGED <<table, posted, session>>

\* The model returns a draft; _set_pending_action overwrites what was waiting.
Propose(r) ==
    /\ At(r, "planning") /\ made < MaxPlans
    /\ made' = made + 1
    /\ origin' = [p \in 1..made + 1 |-> IF p \in Built THEN origin[p] ELSE chat[r].session]
    /\ withdrawn' = withdrawn \cup ({Pending(r)} \ {None})
    /\ pending' = [pending EXCEPT ![chat[r].worker][chat[r].session] = made + 1]
    /\ Wind(r, "saving") /\ UNCHANGED <<posted, session>>

\* The model's reply is complete.
Answer(r) ==
    /\ At(r, "answering")
    /\ Wind(r, "saving") /\ UNCHANGED <<table, posted, session>>
-----------------------------------------------------------------------------
\* _execute_action_plan checks the permission again and looks the server up again:
\* it may be gone.
Refuse(r) ==
    /\ At(r, "executing")
    /\ Wind(r, "saving") /\ UNCHANGED <<table, posted, session>>

Connect(r) ==
    /\ At(r, "executing") /\ chat[r].may
    /\ Goto(r, "posting") /\ UNCHANGED <<table, posted, session>>

\* What may have happened at the Jamf server by the time a request in R is heard of no more.
Attempt(R) ==
    \E X \in SUBSET {chat[r].plan : r \in {q \in R : At(q, "posting")}} :
        posted' = [p \in Plans |-> IF p \in X THEN posted[p] + 1 ELSE posted[p]]

Post(r) ==
    /\ At(r, "posting")
    /\ posted' = [posted EXCEPT ![chat[r].plan] = @ + 1]
    /\ Wind(r, "saving") /\ UNCHANGED <<table, session>>

\* No token, or a status that is not 200 or 201.
PostRefused(r) ==
    /\ At(r, "posting")
    /\ Wind(r, "saving") /\ UNCHANGED <<table, posted, session>>

\* The reply is committed; the foreign key refuses it when the session is gone.
Save(r) ==
    /\ At(r, "saving")
    /\ End(r) /\ UNCHANGED <<table, posted, session>>

\* Where an exception can end the handler: no context, several servers are active and
\* none was named, the model or the Jamf server does not answer in time.
Failing(r) == chat[r].pc \in {"context", "resolving", "planning", "answering", "posting"}

\* Mutant: a POST that fails is sent again.
FailRetried(r) ==
    /\ Failing(r) /\ Attempt({r})
    /\ IF At(r, "posting") THEN Goto(r, "executing") ELSE End(r)
    /\ UNCHANGED <<table, session>>

Fail(r) ==
    /\ Failing(r) /\ Attempt({r})
    /\ End(r) /\ UNCHANGED <<table, session>>

\* Mutant: a plan whose execution breaks off goes back into the table.
DisconnectPutBack(r) ==
    /\ ~At(r, "idle") /\ chat[r].stream
    /\ Attempt({r})
    /\ IF At(r, "executing")
         THEN pending' = [pending EXCEPT ![chat[r].worker][chat[r].session] = chat[r].plan]
         ELSE UNCHANGED pending
    /\ End(r) /\ UNCHANGED <<made, origin, withdrawn, session>>

\* The browser goes away: the generator of a stream is cancelled where it stands.
Disconnect(r) ==
    /\ ~At(r, "idle") /\ chat[r].stream
    /\ Attempt({r})
    /\ End(r) /\ UNCHANGED <<table, session>>

Step(r) ==
    \/ Accept(r) \/ NotFound(r) \/ Ask(r) \/ Cancel(r)
    \/ Announce(r) \/ Take(r) \/ TakeNone(r)
    \/ Forbid(r) \/ Converse(r) \/ Resolve(r) \/ NoTarget(r) \/ Propose(r)
    \/ Answer(r) \/ Refuse(r) \/ Connect(r) \/ Post(r) \/ PostRefused(r) \/ Save(r) \/ Fail(r)
-----------------------------------------------------------------------------
\* The process dies and is started again: its table is empty.
Crash(w) ==
    /\ Attempt({r \in Requests : chat[r].worker = w})
    /\ chat' = [r \in Requests |-> IF chat[r].worker = w THEN Idle ELSE chat[r]]
    /\ pending' = [pending EXCEPT ![w] = [s \in Sessions |-> None]]
    /\ UNCHANGED <<made, origin, withdrawn, session>>

\* delete_session leaves the table alone.
DeleteSession(s) ==
    /\ session[s] = "open"
    /\ session' = [session EXCEPT ![s] = "deleted"]
    /\ UNCHANGED <<chat, table, posted>>

Next ==
    \/ \E r \in Requests :
         \/ Step(r) \/ Disconnect(r)
         \/ \E m \in Messages, w \in Workers, s \in Sessions \cup {New} : Send(r, m, w, s)
    \/ \E w \in Workers : Crash(w)
    \/ \E s \in Sessions : DeleteSession(s)

Spec == Init /\ [][Next]_vars
-----------------------------------------------------------------------------
\* A plan is carried out at most once, however often the user clicks Approve,
\* whatever is retried, and whichever of the two endpoints handles it.
PostedOnce == \A p \in Plans : posted[p] <= 1

\* A plan the user was told is cancelled, or that a newer preview of the same worker
\* replaced, is gone: it does not wait again, and no approval, not even one that was
\* on its way, has carried it out or will.
WithdrawnIsFinal ==
    \A p \in withdrawn :
        /\ posted[p] = 0
        /\ \A r \in Requests : chat[r].plan # p
        /\ \A w \in Workers, s \in Sessions : pending[w][s] # p

\* Jamf is changed only by a plan whose own session got an approval, from a user who
\* had the permission when the approving message arrived.
ApprovedInSession ==
    [][\A p \in Plans : posted'[p] > posted[p] =>
         \E r \in Requests : /\ chat[r].plan = p /\ chat[r].msg = "approve" /\ chat[r].may
                             /\ chat[r].session = origin[p]]_vars

\* What makes these hold: a plan is in one place.  It waits in one table, under the
\* session it was made in, or it is in the hands of one approval of that session, and
\* then it has been neither carried out nor withdrawn.
Holding(r) == chat[r].pc \in {"executing", "posting"}

Untouched(p) == posted[p] = 0 /\ p \notin withdrawn

Waiting ==
    \A w \in Workers, s \in Sessions : pending[w][s] # None =>
        /\ pending[w][s] \in Built /\ Untouched(pending[w][s]) /\ origin[pending[w][s]] = s
        /\ \A v \in Workers \ {w} : pending[v][s] # pending[w][s]

Held ==
    \A r \in Requests : Holding(r) =>
        /\ Untouched(chat[r].plan) /\ origin[chat[r].plan] = chat[r].session
        /\ chat[r].msg = "approve" /\ (At(r, "posting") => chat[r].may)
        /\ \A q \in Requests \ {r} : chat[q].plan # chat[r].plan
        /\ \A w \in Workers : pending[w][chat[r].session] # chat[r].plan

Unborn == \A p \in Plans \ Built : Untouched(p)

Dead == \A p \in withdrawn : posted[p] = 0

OnePlace == Waiting /\ Held /\ Unborn /\ Dead /\ PostedOnce

\* The flow implements the life of a plan: whatever breaks off, is sent twice or starts
\* again, a plan does not come back once it has left the table of its worker, and what
\* replaces it is a preview of its own session.
PhaseOf(p) ==
    IF p \notin Built THEN "unborn"
    ELSE IF posted[p] > 0 THEN "posted"
    ELSE IF p \in withdrawn THEN "withdrawn"
    ELSE IF \E r \in Requests : chat[r].plan = p THEN "approved"
    ELSE IF \E w \in Workers, s \in Sessions : pending[w][s] = p THEN "waiting"
    ELSE "dropped"

Phase == [p \in Plans |-> PhaseOf(p)]

Life == INSTANCE PlanLifecycle WITH phase <- Phase, home <- origin

LifecycleSpec == Life!Spec

\* "Reply with `approve` to execute": with one message at a time, what is executed is
\* the plan of the last preview in the session.
PreviewedIsExecuted ==
    [][\A p \in Plans : posted'[p] > posted[p] =>
         \A q \in Built : origin[q] = origin[p] => q <= p]_vars
=============================================================================
