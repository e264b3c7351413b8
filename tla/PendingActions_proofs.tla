------------------------ MODULE PendingActions_proofs ------------------------
(***************************************************************************)
(* Proofs about PendingActions, for any workers, requests, sessions and    *)
(* number of plans: the state is well typed, a plan is carried out at most *)
(* once, a withdrawn one never, and only in answer to an approval in its   *)
(* own session; and the flow implements PlanLifecycle.                     *)
(*                                                                         *)
(* The inductive invariant adds to them that a plan is in one place.  Most *)
(* steps only take plans away (Ends); Cancel, Take, Propose and Connect    *)
(* move one.                                                               *)
(***************************************************************************)
EXTENDS PendingActions, TLAPS

IInv == TypeOK /\ OnePlace

Hands == {"executing", "posting"}

LEMMA BuiltArePlans == ASSUME TypeOK PROVE Built \subseteq Plans /\ None \notin Built
BY MaxPlansAssumption DEF TypeOK, Built, Plans, None

\* The handlers in R have no plan any more, and the others are as they were.
Emptied(R) ==
    /\ chat' \in [Requests -> Chat]
    /\ \A q \in Requests \ R : chat'[q] = chat[q]
    /\ \A q \in R : chat'[q].plan = None /\ chat'[q].pc \notin Hands

LEMMA IdleChat == Idle \in Chat /\ Idle.plan = None /\ Idle.pc = "idle"
BY MaxPlansAssumption DEF Idle, Chat, Places, Messages, None

LEMMA WindEffect ==
    ASSUME TypeOK, NEW r \in Requests, NEW pc \in Places \ Hands, Wind(r, pc)
    PROVE  Emptied({r})
<1> DEFINE c == [Idle EXCEPT !.pc = pc]
<1>1. c \in Chat /\ c.plan = None /\ c.pc = pc
  BY IdleChat DEF Chat
<1>2. chat' = [chat EXCEPT ![r] = c] /\ chat \in [Requests -> Chat]
  BY DEF Wind, TypeOK
<1> HIDE DEF c
<1>3. QED
  BY <1>1, <1>2 DEF Emptied

LEMMA EndEffect ==
    ASSUME TypeOK, NEW r \in Requests, End(r)
    PROVE  Emptied({r})
<1>1. chat' = [chat EXCEPT ![r] = Idle] /\ chat \in [Requests -> Chat]
  BY DEF End, TypeOK
<1>2. "idle" \notin Hands
  BY DEF Hands
<1>3. QED
  BY <1>1, <1>2, IdleChat DEF Emptied

LEMMA GotoEffect ==
    ASSUME TypeOK, NEW r \in Requests, NEW pc \in Places \ Hands,
           chat[r].pc \notin Hands, Goto(r, pc)
    PROVE  Emptied({r})
<1>1. chat[r] \in Chat /\ chat[r].plan = None
  BY DEF TypeOK, Hands
<1>2. [chat[r] EXCEPT !.pc = pc] \in Chat
  BY <1>1 DEF Chat
<1>3. chat' = [chat EXCEPT ![r] = [chat[r] EXCEPT !.pc = pc]] /\ chat \in [Requests -> Chat]
  BY DEF Goto, TypeOK
<1>4. [chat[r] EXCEPT !.pc = pc].pc = pc /\ [chat[r] EXCEPT !.pc = pc].plan = None
  BY <1>1 DEF Chat
<1>5. QED
  BY <1>2, <1>3, <1>4 DEF Emptied

\* How far the count of a plan can go in the hands of the handlers in R.
Tried(R) ==
    /\ posted' \in [Plans -> Nat]
    /\ \A p \in Plans : posted'[p] # posted[p] =>
         posted'[p] = posted[p] + 1 /\ \E q \in R : At(q, "posting") /\ chat[q].plan = p

LEMMA AttemptEffect ==
    ASSUME TypeOK, NEW R \in SUBSET Requests, Attempt(R)
    PROVE  Tried(R)
BY DEF TypeOK, Attempt, Tried

LEMMA PostEffect ==
    ASSUME TypeOK, NEW r \in Requests, Post(r)
    PROVE  Tried({r}) /\ Emptied({r})
<1>1. chat[r].plan \in Built /\ Built \subseteq Plans
  BY MaxPlansAssumption DEF TypeOK, Post, At, Built, Plans
<1>2. Tried({r})
  BY <1>1 DEF TypeOK, Post, Tried, At
<1>3. Emptied({r})
  BY WindEffect DEF Post, Places, Hands
<1>4. QED
  BY <1>2, <1>3

-----------------------------------------------------------------------------
\* The steps that take plans away: a table may lose plans and handlers end, each of
\* them having had its plan carried out at most once.
LEMMA Ends ==
    ASSUME IInv, NEW R \in SUBSET Requests, Emptied(R), Tried(R),
           UNCHANGED <<made, origin, withdrawn>>,
           pending' \in [Workers -> [Sessions -> 0..MaxPlans]],
           \A w \in Workers, s \in Sessions : pending'[w][s] \in {None, pending[w][s]}
    PROVE  OnePlace'
<1>1. \A q \in R : At(q, "posting") => posted[chat[q].plan] = 0 /\ chat[q].plan \notin withdrawn
  BY DEF IInv, OnePlace, Held, Holding, Untouched, At
<1>2. \A q \in R : At(q, "posting") => chat[q].plan \in Built
  BY DEF IInv, TypeOK, At
<1>3. Waiting'
  <2>1. SUFFICES ASSUME NEW w \in Workers, NEW s \in Sessions, pending'[w][s] # None
                 PROVE  /\ pending[w][s] \in Built /\ Untouched(pending[w][s])'
                        /\ origin[pending[w][s]] = s /\ pending'[w][s] = pending[w][s]
                        /\ \A v \in Workers \ {w} : pending'[v][s] # pending[w][s]
    BY DEF Waiting, Built, Untouched
  <2>2. /\ pending'[w][s] = pending[w][s] /\ pending[w][s] # None
        /\ pending[w][s] \in Built /\ Untouched(pending[w][s]) /\ origin[pending[w][s]] = s
        /\ \A v \in Workers \ {w} : pending[v][s] # pending[w][s]
    BY <2>1 DEF IInv, OnePlace, Waiting
  <2>3. \A q \in R : At(q, "posting") => chat[q].plan # pending[w][s]
    <3>1. SUFFICES ASSUME NEW q \in R, At(q, "posting"), chat[q].plan = pending[w][s]
                   PROVE  FALSE
      OBVIOUS
    <3>2. Holding(q) /\ origin[chat[q].plan] = chat[q].session
      BY <3>1 DEF IInv, OnePlace, Held, Holding, At
    <3>3. pending[w][chat[q].session] # chat[q].plan
      BY <3>1, <3>2 DEF IInv, OnePlace, Held
    <3>4. QED
      BY <2>2, <3>1, <3>2, <3>3
  <2>4. posted'[pending[w][s]] = posted[pending[w][s]]
    BY <2>2, <2>3, BuiltArePlans DEF Tried, IInv
  <2>5. \A v \in Workers \ {w} : pending'[v][s] # pending[w][s]
    BY <2>2
  <2>6. Untouched(pending[w][s])'
    BY <2>2, <2>4 DEF Untouched
  <2>7. QED
    BY <2>2, <2>5, <2>6
<1>4. Held'
  <2>1. SUFFICES ASSUME NEW r \in Requests, Holding(r)'
                 PROVE  /\ Untouched(chat[r].plan)' /\ origin[chat[r].plan] = chat[r].session
                        /\ chat[r].msg = "approve" /\ (At(r, "posting") => chat[r].may)
                        /\ chat'[r] = chat[r]
                        /\ \A q \in Requests \ {r} : chat'[q].plan # chat[r].plan
                        /\ \A w \in Workers : pending'[w][chat[r].session] # chat[r].plan
    BY DEF Held, Untouched, At
  <2>2. r \notin R /\ chat'[r] = chat[r] /\ Holding(r)
    BY <2>1 DEF Emptied, Holding, Hands
  <2>3. chat[r].plan \in Built /\ chat[r].session \in Sessions \cup {New}
    BY <2>2 DEF IInv, TypeOK, Holding, Chat
  <2>4. /\ Untouched(chat[r].plan) /\ origin[chat[r].plan] = chat[r].session
        /\ chat[r].msg = "approve" /\ (At(r, "posting") => chat[r].may)
        /\ \A q \in Requests \ {r} : chat[q].plan # chat[r].plan
        /\ \A w \in Workers : pending[w][chat[r].session] # chat[r].plan
    BY <2>2 DEF IInv, OnePlace, Held
  <2>5. posted'[chat[r].plan] = posted[chat[r].plan]
    BY <2>2, <2>3, <2>4, BuiltArePlans DEF Tried, IInv
  <2>6. \A q \in Requests \ {r} : chat'[q].plan # chat[r].plan
    BY <2>3, <2>4 DEF Emptied, None, Built
  <2>7. \A w \in Workers : pending'[w][chat[r].session] # chat[r].plan
    <3>1. chat[r].session \in Sessions
      BY <2>3, <2>4 DEF IInv, TypeOK
    <3>2. QED
      BY <2>3, <2>4, <3>1 DEF None, Built
  <2>8. QED
    BY <2>2, <2>4, <2>5, <2>6, <2>7 DEF Untouched
<1>5. Unborn' /\ Dead'
  <2>1. \A p \in Plans : posted'[p] # posted[p] => p \in Built /\ p \notin withdrawn
    BY <1>1, <1>2 DEF Tried
  <2>2. QED
    BY <2>1, MaxPlansAssumption DEF IInv, OnePlace, Unborn, Dead, Untouched, Built, Plans, TypeOK
<1>6. PostedOnce'
  <2>1. \A p \in Plans : posted'[p] # posted[p] => posted[p] = 0
    BY <1>1 DEF Tried
  <2>2. QED
    BY <2>1 DEF IInv, OnePlace, PostedOnce, Tried
<1>7. QED
  BY <1>3, <1>4, <1>5, <1>6 DEF OnePlace
-----------------------------------------------------------------------------
\* The steps that move a plan.  The plan that waits for the message r is touched by no
\* other table and no handler.
LEMMA PendingIsAlone ==
    ASSUME IInv, NEW r \in Requests, chat[r].session \in Sessions, Pending(r) # None,
           chat[r].worker \in Workers
    PROVE  /\ Pending(r) \in Built /\ Untouched(Pending(r)) /\ origin[Pending(r)] = chat[r].session
           /\ \A w \in Workers, s \in Sessions :
                pending[w][s] = Pending(r) => w = chat[r].worker /\ s = chat[r].session
           /\ \A q \in Requests : chat[q].plan # Pending(r)
<1> DEFINE w0 == chat[r].worker
           s0 == chat[r].session
           p0 == pending[w0][s0]
<1>1. /\ p0 # None /\ p0 \in Built /\ Untouched(p0) /\ origin[p0] = s0
      /\ \A v \in Workers \ {w0} : pending[v][s0] # p0
  BY DEF IInv, OnePlace, Waiting, Pending
<1>2. ASSUME NEW w \in Workers, NEW s \in Sessions, pending[w][s] = p0
      PROVE  w = w0 /\ s = s0
  <2>1. origin[pending[w][s]] = s
    BY <1>1, <1>2 DEF IInv, OnePlace, Waiting
  <2>2. QED
    BY <1>1, <1>2, <2>1
<1>3. ASSUME NEW q \in Requests, chat[q].plan = p0
      PROVE  FALSE
  <2>1. Holding(q)
    BY <1>1, <1>3 DEF IInv, TypeOK, Holding
  <2>2. origin[chat[q].plan] = chat[q].session /\ pending[w0][chat[q].session] # chat[q].plan
    BY <2>1 DEF IInv, OnePlace, Held
  <2>3. QED
    BY <1>1, <1>3, <2>2
<1>4. QED
  BY <1>1, <1>2, <1>3 DEF Pending

\* A handler that got as far as its session works on a worker and a session.
Placed(r) == chat[r].session \in Sessions /\ chat[r].worker \in Workers

LEMMA CancelKeeps ==
    ASSUME IInv, NEW r \in Requests, Placed(r), Cancel(r), Emptied({r})
    PROVE  OnePlace'
<1> DEFINE p0 == Pending(r)
<1>1. /\ p0 \in Built /\ Untouched(p0)
      /\ \A w \in Workers, s \in Sessions :
           pending[w][s] = p0 => w = chat[r].worker /\ s = chat[r].session
      /\ \A q \in Requests : chat[q].plan # p0
  BY PendingIsAlone DEF Placed, Cancel, Cancels
<1>2. UNCHANGED <<made, origin, posted>> /\ withdrawn' = withdrawn \cup {p0}
  BY DEF Cancel
<1>3. \A w \in Workers, s \in Sessions :
        /\ pending'[w][s] \in {None, pending[w][s]}
        /\ pending'[w][s] # None => pending[w][s] # p0
  BY <1>1 DEF Cancel, Cleared, Placed, IInv, TypeOK
<1> HIDE DEF p0
<1>4. Waiting'
  <2>1. SUFFICES ASSUME NEW w \in Workers, NEW s \in Sessions, pending'[w][s] # None
                 PROVE  /\ pending[w][s] \in Built /\ Untouched(pending[w][s])'
                        /\ origin[pending[w][s]] = s /\ pending'[w][s] = pending[w][s]
                        /\ \A v \in Workers \ {w} : pending'[v][s] # pending[w][s]
    BY <1>2 DEF Waiting, Built, Untouched
  <2>2. /\ pending'[w][s] = pending[w][s] /\ pending[w][s] # None /\ pending[w][s] # p0
        /\ pending[w][s] \in Built /\ Untouched(pending[w][s]) /\ origin[pending[w][s]] = s
        /\ \A v \in Workers \ {w} : pending[v][s] # pending[w][s]
    BY <1>3, <2>1 DEF IInv, OnePlace, Waiting
  <2>3. \A v \in Workers \ {w} : pending'[v][s] # pending[w][s]
    BY <1>3, <2>2
  <2>4. Untouched(pending[w][s])'
    BY <1>2, <2>2 DEF Untouched
  <2>5. QED
    BY <2>2, <2>3, <2>4
<1>5. Held'
  <2>1. SUFFICES ASSUME NEW q \in Requests, Holding(q)'
                 PROVE  /\ Untouched(chat[q].plan)' /\ origin[chat[q].plan] = chat[q].session
                        /\ chat[q].msg = "approve" /\ (At(q, "posting") => chat[q].may)
                        /\ chat'[q] = chat[q]
                        /\ \A v \in Requests \ {q} : chat'[v].plan # chat[q].plan
                        /\ \A w \in Workers : pending'[w][chat[q].session] # chat[q].plan
    BY <1>2 DEF Held, Untouched, At
  <2>2. q # r /\ chat'[q] = chat[q] /\ Holding(q)
    BY <2>1 DEF Emptied, Holding, Hands
  <2>3. chat[q].plan \in Built /\ chat[q].plan # p0 /\ chat[q].plan # None
    BY <1>1, <2>2, BuiltArePlans DEF IInv, TypeOK, Holding
  <2>4. /\ Untouched(chat[q].plan) /\ origin[chat[q].plan] = chat[q].session
        /\ chat[q].msg = "approve" /\ (At(q, "posting") => chat[q].may)
        /\ \A v \in Requests \ {q} : chat[v].plan # chat[q].plan
        /\ \A w \in Workers : pending[w][chat[q].session] # chat[q].plan
    BY <2>2 DEF IInv, OnePlace, Held
  <2>5. chat[q].session \in Sessions
    BY <2>3, <2>4 DEF IInv, TypeOK
  <2>6. \A w \in Workers : pending'[w][chat[q].session] # chat[q].plan
    BY <1>3, <2>3, <2>4, <2>5
  <2>7. \A v \in Requests \ {q} : chat'[v].plan # chat[q].plan
    BY <2>3, <2>4 DEF Emptied
  <2>8. QED
    BY <1>2, <2>2, <2>3, <2>4, <2>6, <2>7 DEF Untouched
<1>6. Unborn' /\ Dead' /\ PostedOnce'
  BY <1>1, <1>2 DEF IInv, OnePlace, Unborn, Dead, PostedOnce, Untouched, Built
<1>7. QED
  BY <1>4, <1>5, <1>6 DEF OnePlace

LEMMA TakeKeeps ==
    ASSUME IInv, NEW r \in Requests, Placed(r), chat[r].msg = "approve", Pending(r) # None,
           chat[r].pc \notin Hands, Popped(r)
    PROVE  OnePlace'
<1> DEFINE p0 == Pending(r)
<1>1. /\ p0 \in Built /\ Untouched(p0) /\ origin[p0] = chat[r].session
      /\ \A w \in Workers, s \in Sessions :
           pending[w][s] = p0 => w = chat[r].worker /\ s = chat[r].session
      /\ \A q \in Requests : chat[q].plan # p0
  BY PendingIsAlone DEF Placed
<1>2. UNCHANGED <<made, origin, posted, withdrawn>>
  BY DEF Popped
<1>3. \A w \in Workers, s \in Sessions :
        /\ pending'[w][s] \in {None, pending[w][s]}
        /\ pending'[w][s] # p0
  BY <1>1, BuiltArePlans DEF Popped, Cleared, Placed, IInv, TypeOK
<1>4. /\ \A q \in Requests \ {r} : chat'[q] = chat[q]
      /\ chat'[r].pc = "executing" /\ chat'[r].plan = p0
      /\ chat'[r].msg = "approve" /\ chat'[r].session = chat[r].session
  BY DEF Popped, IInv, TypeOK, Chat
<1> HIDE DEF p0
<1>5. Waiting'
  <2>1. SUFFICES ASSUME NEW w \in Workers, NEW s \in Sessions, pending'[w][s] # None
                 PROVE  /\ pending[w][s] \in Built /\ Untouched(pending[w][s])'
                        /\ origin[pending[w][s]] = s /\ pending'[w][s] = pending[w][s]
                        /\ \A v \in Workers \ {w} : pending'[v][s] # pending[w][s]
    BY <1>2 DEF Waiting, Built, Untouched
  <2>2. /\ pending'[w][s] = pending[w][s] /\ pending[w][s] # None
        /\ pending[w][s] \in Built /\ Untouched(pending[w][s]) /\ origin[pending[w][s]] = s
        /\ \A v \in Workers \ {w} : pending[v][s] # pending[w][s]
    BY <1>3, <2>1 DEF IInv, OnePlace, Waiting
  <2>3. \A v \in Workers \ {w} : pending'[v][s] # pending[w][s]
    BY <1>3, <2>2
  <2>4. Untouched(pending[w][s])'
    BY <1>2, <2>2 DEF Untouched
  <2>5. QED
    BY <2>2, <2>3, <2>4
<1>6. ASSUME NEW q \in Requests \ {r}, Holding(q)'
      PROVE  /\ Untouched(chat[q].plan)' /\ origin[chat[q].plan] = chat[q].session
             /\ chat[q].msg = "approve" /\ (At(q, "posting") => chat[q].may)
             /\ chat'[q] = chat[q]
             /\ \A v \in Requests \ {q} : chat'[v].plan # chat[q].plan
             /\ \A w \in Workers : pending'[w][chat[q].session] # chat[q].plan
  <2>1. chat'[q] = chat[q] /\ Holding(q)
    BY <1>4, <1>6 DEF Holding
  <2>2. chat[q].plan \in Built /\ chat[q].plan # p0 /\ chat[q].plan # None
    BY <1>1, <2>1, BuiltArePlans DEF IInv, TypeOK, Holding
  <2>3. /\ Untouched(chat[q].plan) /\ origin[chat[q].plan] = chat[q].session
        /\ chat[q].msg = "approve" /\ (At(q, "posting") => chat[q].may)
        /\ \A v \in Requests \ {q} : chat[v].plan # chat[q].plan
        /\ \A w \in Workers : pending[w][chat[q].session] # chat[q].plan
    BY <2>1 DEF IInv, OnePlace, Held
  <2>4. chat[q].session \in Sessions
    BY <2>2, <2>3 DEF IInv, TypeOK
  <2>5. \A w \in Workers : pending'[w][chat[q].session] # chat[q].plan
    BY <1>3, <2>2, <2>3, <2>4
  <2>6. \A v \in Requests \ {q} : chat'[v].plan # chat[q].plan
    BY <1>4, <2>2, <2>3
  <2>7. QED
    BY <1>2, <2>1, <2>3, <2>5, <2>6 DEF Untouched
<1>7. /\ posted'[p0] = 0 /\ p0 \notin withdrawn' /\ origin'[p0] = chat'[r].session
      /\ \A v \in Requests \ {r} : chat'[v].plan # p0
      /\ \A w \in Workers : pending'[w][chat'[r].session] # p0
  BY <1>1, <1>2, <1>3, <1>4 DEF Untouched, Placed
<1>8. Held'
  <2>1. SUFFICES ASSUME NEW q \in Requests, Holding(q)'
                 PROVE  /\ Untouched(chat[q].plan)' /\ origin'[chat'[q].plan] = chat'[q].session
                        /\ chat'[q].msg = "approve" /\ (chat'[q].pc = "posting" => chat'[q].may)
                        /\ \A v \in Requests \ {q} : chat'[v].plan # chat'[q].plan
                        /\ \A w \in Workers : pending'[w][chat'[q].session] # chat'[q].plan
    BY DEF Held, At
  <2>2. CASE q = r
    BY <1>4, <1>7, <2>2 DEF Untouched
  <2>3. CASE q # r
    BY <1>2, <1>6, <2>1, <2>3 DEF At, Untouched
  <2>4. QED
    BY <2>2, <2>3
<1>9. Unborn' /\ Dead' /\ PostedOnce'
  BY <1>2 DEF IInv, OnePlace, Unborn, Dead, PostedOnce, Untouched, Built
<1>10. QED
  BY <1>5, <1>8, <1>9 DEF OnePlace

LEMMA ConnectKeeps ==
    ASSUME IInv, NEW r \in Requests, Connect(r)
    PROVE  OnePlace'
<1>1. UNCHANGED <<pending, made, origin, withdrawn, posted>>
  BY DEF Connect, table
<1>2. /\ \A q \in Requests : /\ chat'[q].plan = chat[q].plan /\ chat'[q].msg = chat[q].msg
                             /\ chat'[q].may = chat[q].may /\ chat'[q].session = chat[q].session
      /\ \A q \in Requests \ {r} : chat'[q] = chat[q]
      /\ Holding(r) /\ chat[r].may
  BY DEF Connect, Goto, At, Holding, IInv, TypeOK, Chat
<1>3. \A q \in Requests : Holding(q)' => Holding(q)
  BY <1>2 DEF Holding
<1>4. \A q \in Requests : At(q, "posting")' => At(q, "posting") \/ chat[q].may
  BY <1>2 DEF At
<1>5. Held'
  BY <1>1, <1>2, <1>3, <1>4 DEF IInv, OnePlace, Held, Untouched
<1>6. (Waiting /\ Unborn /\ Dead /\ PostedOnce)'
  BY <1>1 DEF IInv, OnePlace, Waiting, Unborn, Dead, PostedOnce, Untouched, Built
<1>7. QED
  BY <1>5, <1>6 DEF OnePlace

LEMMA ProposeKeeps ==
    ASSUME IInv, NEW r \in Requests, Placed(r), Propose(r), Emptied({r})
    PROVE  OnePlace'
<1> DEFINE p0 == made + 1
           old == Pending(r)
<1>1. /\ made \in Nat /\ p0 \in Plans \ Built /\ p0 # None /\ made' = p0
      /\ Built' = Built \cup {p0} /\ Built \subseteq Plans /\ UNCHANGED posted
  <2>1. made \in 0..MaxPlans /\ made < MaxPlans /\ made' = made + 1 /\ UNCHANGED posted
    BY DEF IInv, TypeOK, Propose
  <2>2. QED
    BY <2>1, MaxPlansAssumption DEF Plans, Built, None
<1>2. Untouched(p0)
  BY <1>1 DEF IInv, OnePlace, Unborn
<1>3. /\ origin'[p0] = chat[r].session
      /\ \A p \in Built : origin'[p] = origin[p]
  BY <1>1 DEF Propose, Built
<1>4. /\ pending'[chat[r].worker][chat[r].session] = p0
      /\ \A w \in Workers, s \in Sessions :
           w # chat[r].worker \/ s # chat[r].session => pending'[w][s] = pending[w][s]
  <2>1. pending \in [Workers -> [Sessions -> 0..MaxPlans]]
    BY DEF IInv, TypeOK
  <2>2. pending' = [pending EXCEPT ![chat[r].worker][chat[r].session] = made + 1]
    BY DEF Propose
  <2>3. QED
    BY <2>1, <2>2 DEF Placed
<1>5. \A w \in Workers, s \in Sessions : pending[w][s] # p0
  BY <1>1 DEF IInv, OnePlace, Waiting
<1>6. withdrawn' = withdrawn \cup ({old} \ {None})
  BY DEF Propose
<1>7. old # None => /\ old \in Built /\ posted[old] = 0
                    /\ \A w \in Workers, s \in Sessions :
                         pending[w][s] = old => w = chat[r].worker /\ s = chat[r].session
                    /\ \A q \in Requests : chat[q].plan # old
  BY PendingIsAlone DEF Placed, Untouched
<1> HIDE DEF p0, old
<1>8. Waiting'
  <2>1. SUFFICES ASSUME NEW w \in Workers, NEW s \in Sessions, pending'[w][s] # None
                 PROVE  /\ pending'[w][s] \in Built' /\ posted[pending'[w][s]] = 0
                        /\ pending'[w][s] \notin withdrawn' /\ origin'[pending'[w][s]] = s
                        /\ \A v \in Workers \ {w} : pending'[v][s] # pending'[w][s]
    BY <1>1 DEF Waiting, Untouched
  <2>2. CASE w = chat[r].worker /\ s = chat[r].session
    <3>1. pending'[w][s] = p0
      BY <1>4, <2>2
    <3>2. \A v \in Workers \ {w} : pending'[v][s] # p0
      BY <1>4, <1>5, <2>2
    <3>3. p0 \notin withdrawn' /\ posted[p0] = 0
      BY <1>1, <1>2, <1>6, <1>7 DEF Untouched
    <3>4. QED
      BY <1>1, <1>3, <2>2, <3>1, <3>2, <3>3
  <2>3. CASE w # chat[r].worker \/ s # chat[r].session
    <3>1. pending'[w][s] = pending[w][s]
      BY <1>4, <2>3
    <3>2. /\ pending[w][s] \in Built /\ Untouched(pending[w][s]) /\ origin[pending[w][s]] = s
          /\ \A v \in Workers \ {w} : pending[v][s] # pending[w][s]
      BY <2>1, <3>1 DEF IInv, OnePlace, Waiting
    <3>3. old # None => pending[w][s] # old
      BY <1>7, <2>3
    <3>4. pending[w][s] \notin withdrawn'
      BY <1>6, <3>2, <3>3 DEF Untouched
    <3>5. \A v \in Workers \ {w} : pending'[v][s] # pending[w][s]
      BY <1>1, <1>4, <3>2
    <3>6. QED
      BY <1>1, <1>3, <3>1, <3>2, <3>4, <3>5 DEF Untouched
  <2>4. QED
    BY <2>2, <2>3
<1>9. Held'
  <2>1. SUFFICES ASSUME NEW q \in Requests, Holding(q)'
                 PROVE  /\ Untouched(chat[q].plan)' /\ origin'[chat[q].plan] = chat[q].session
                        /\ chat[q].msg = "approve" /\ (At(q, "posting") => chat[q].may)
                        /\ chat'[q] = chat[q]
                        /\ \A v \in Requests \ {q} : chat'[v].plan # chat[q].plan
                        /\ \A w \in Workers : pending'[w][chat[q].session] # chat[q].plan
    BY DEF Held, Untouched, At
  <2>2. q # r /\ chat'[q] = chat[q] /\ Holding(q)
    BY <2>1 DEF Emptied, Holding, Hands
  <2>3. chat[q].plan \in Built /\ chat[q].plan # None /\ chat[q].plan # p0
    BY <1>1, <2>2, BuiltArePlans DEF IInv, TypeOK, Holding
  <2>4. /\ Untouched(chat[q].plan) /\ origin[chat[q].plan] = chat[q].session
        /\ chat[q].msg = "approve" /\ (At(q, "posting") => chat[q].may)
        /\ \A v \in Requests \ {q} : chat[v].plan # chat[q].plan
        /\ \A w \in Workers : pending[w][chat[q].session] # chat[q].plan
    BY <2>2 DEF IInv, OnePlace, Held
  <2>5. chat[q].session \in Sessions
    BY <2>3, <2>4 DEF IInv, TypeOK
  <2>6. \A w \in Workers : pending'[w][chat[q].session] # chat[q].plan
    BY <1>4, <2>3, <2>4, <2>5
  <2>7. \A v \in Requests \ {q} : chat'[v].plan # chat[q].plan
    BY <2>3, <2>4 DEF Emptied
  <2>8. chat[q].plan \notin withdrawn' /\ posted'[chat[q].plan] = 0
    BY <1>1, <1>6, <1>7, <2>4 DEF Untouched
  <2>9. Untouched(chat[q].plan)'
    BY <2>2, <2>8 DEF Untouched
  <2>10. QED
    BY <1>3, <2>2, <2>3, <2>4, <2>6, <2>7, <2>9
<1>10. Unborn' /\ Dead' /\ PostedOnce'
  <2>1. \A p \in Plans \ Built' : p \notin withdrawn' /\ posted'[p] = 0
    BY <1>1, <1>6, <1>7 DEF IInv, OnePlace, Unborn, Untouched
  <2>2. \A p \in withdrawn' : posted'[p] = 0
    BY <1>1, <1>6, <1>7 DEF IInv, OnePlace, Dead
  <2>3. QED
    BY <1>1, <2>1, <2>2 DEF IInv, OnePlace, Unborn, Untouched, Dead, PostedOnce
<1>11. QED
  BY <1>8, <1>9, <1>10 DEF OnePlace
-----------------------------------------------------------------------------
LEMMA Initially == Init => IInv
<1> SUFFICES ASSUME Init PROVE IInv
  OBVIOUS
<1>1. TypeOK
  <2>1. chat \in [Requests -> Chat] /\ \A r \in Requests : chat[r].plan = None /\ chat[r].pc = "idle"
    BY IdleChat DEF Init
  <2>2. made = 0 /\ Built = {}
    BY DEF Init, Built
  <2>3. /\ pending \in [Workers -> [Sessions -> 0..MaxPlans]]
        /\ origin \in [{} -> Sessions] /\ withdrawn \in SUBSET Plans
        /\ posted \in [Plans -> Nat]
        /\ session \in [Sessions -> {"fresh", "open", "deleted"}]
    BY MaxPlansAssumption DEF Init, None
  <2>4. QED
    BY <2>1, <2>2, <2>3, MaxPlansAssumption DEF TypeOK, At
<1>2. OnePlace
  BY DEF Init, OnePlace, Waiting, Held, Holding, Unborn, Untouched, Dead, PostedOnce, Idle
<1>3. QED
  BY <1>1, <1>2 DEF IInv

Resting == {"idle", "answering", "saving"}

\* The part of TypeOK about one handler.
Sound(r) ==
    /\ chat[r].plan \in IF chat[r].pc \in Hands THEN Built ELSE {None}
    /\ chat[r].pc \notin Resting =>
         chat[r].worker \in Workers /\ (At(r, "context") \/ chat[r].session \in Sessions)
    /\ At(r, "announced") => chat[r].msg = "approve"

ChatOK == chat \in [Requests -> Chat] /\ \A r \in Requests : Sound(r)

TablesOK ==
    /\ pending \in [Workers -> [Sessions -> 0..MaxPlans]]
    /\ made \in 0..MaxPlans
    /\ origin \in [Built -> Sessions]
    /\ withdrawn \in SUBSET Plans

RestOK ==
    /\ posted \in [Plans -> Nat]
    /\ session \in [Sessions -> {"fresh", "open", "deleted"}]

LEMMA TypeParts == TypeOK <=> ChatOK /\ TablesOK /\ RestOK
BY DEF TypeOK, ChatOK, TablesOK, RestOK, Sound, Hands, Resting, At

\* A step of one handler.
LEMMA OneChat ==
    ASSUME ChatOK, NEW r \in Requests, Built \subseteq Built', chat' \in [Requests -> Chat],
           \A q \in Requests \ {r} : chat'[q] = chat[q], Sound(r)'
    PROVE  ChatOK'
<1>1. \A q \in Requests \ {r} : Sound(q)'
  BY DEF ChatOK, Sound, At
<1>2. QED
  BY <1>1 DEF ChatOK

LEMMA WindSound ==
    ASSUME TypeOK, NEW r \in Requests, NEW pc \in {"answering", "saving"}, Wind(r, pc),
           Built \subseteq Built'
    PROVE  ChatOK' /\ Emptied({r})
<1>1. Emptied({r})
  BY WindEffect DEF Places, Hands
<1>2. chat'[r].pc = pc
  BY IdleChat DEF Wind, TypeOK, Chat
<1>3. Sound(r)'
  BY <1>1, <1>2 DEF Emptied, Sound, Resting, At
<1>4. QED
  BY <1>1, <1>3, OneChat, TypeParts DEF Emptied

LEMMA EndSound ==
    ASSUME TypeOK, NEW r \in Requests, End(r), Built \subseteq Built'
    PROVE  ChatOK' /\ Emptied({r})
<1>1. Emptied({r})
  BY EndEffect
<1>2. chat'[r].pc = "idle"
  BY IdleChat DEF End, TypeOK
<1>3. Sound(r)'
  BY <1>1, <1>2 DEF Emptied, Sound, Resting, At
<1>4. QED
  BY <1>1, <1>3, OneChat, TypeParts DEF Emptied

LEMMA GotoSound ==
    ASSUME TypeOK, NEW r \in Requests, NEW pc \in Places \ Hands, Goto(r, pc),
           chat[r].pc \notin Hands \cup Resting \cup {"context"}, Built \subseteq Built',
           pc = "announced" => chat[r].msg = "approve"
    PROVE  ChatOK' /\ Emptied({r})
<1>1. Emptied({r})
  BY GotoEffect
<1>2. Sound(r) /\ chat[r] \in Chat
  BY TypeParts DEF ChatOK
<1>3. /\ chat'[r].session = chat[r].session /\ chat'[r].worker = chat[r].worker
      /\ chat'[r].msg = chat[r].msg /\ chat'[r].pc = pc
  BY <1>2 DEF Goto, TypeOK, Chat
<1>4. Sound(r)'
  BY <1>1, <1>2, <1>3 DEF Emptied, Sound, At
<1>5. QED
  BY <1>1, <1>4, OneChat, TypeParts DEF Emptied
-----------------------------------------------------------------------------
\* The invariant over the steps.  First those after which the plans are where they were.
LEMMA Quiet ==
    ASSUME IInv, NEW r \in Requests, Emptied({r}), ChatOK', UNCHANGED <<table, posted>>,
           session' \in [Sessions -> {"fresh", "open", "deleted"}]
    PROVE  IInv'
<1>1. TablesOK /\ RestOK
  BY TypeParts DEF IInv
<1>2. TypeOK'
  <2>1. TablesOK' /\ RestOK'
    BY <1>1 DEF TablesOK, RestOK, table, Built
  <2>2. QED
    BY <2>1, TypeParts DEF ChatOK, TablesOK, RestOK, TypeOK, Sound, Hands, Resting, At
<1>3. OnePlace'
  <2>1. Tried({r})
    BY <1>1 DEF Tried, RestOK
  <2>2. QED
    BY <1>1, <2>1, Ends DEF table, TablesOK
<1>4. QED
  BY <1>2, <1>3 DEF IInv

LEMMA Winds ==
    ASSUME IInv, NEW r \in Requests, NEW pc \in {"answering", "saving"}, Wind(r, pc),
           UNCHANGED <<table, posted, session>>
    PROVE  IInv'
<1>1. ChatOK' /\ Emptied({r})
  BY WindSound DEF IInv, table, Built
<1>2. QED
  BY <1>1, Quiet DEF IInv, TypeOK

LEMMA Moves ==
    ASSUME IInv, NEW r \in Requests, NEW pc \in Places \ Hands, Goto(r, pc),
           chat[r].pc \notin Hands \cup Resting \cup {"context"}, UNCHANGED <<table, posted, session>>,
           pc = "announced" => chat[r].msg = "approve"
    PROVE  IInv'
<1>1. ChatOK' /\ Emptied({r})
  BY GotoSound DEF IInv, table, Built
<1>2. QED
  BY <1>1, Quiet DEF IInv, TypeOK

\* The handler ends, and its POST, if there is one on the way, may have been carried out.
LEMMA Leaves ==
    ASSUME IInv, NEW r \in Requests, Emptied({r}), ChatOK', Tried({r}),
           UNCHANGED <<table, session>>
    PROVE  IInv'
<1>1. TablesOK /\ RestOK
  BY TypeParts DEF IInv
<1>2. TypeOK'
  <2>1. TablesOK' /\ RestOK'
    BY <1>1 DEF TablesOK, RestOK, table, Built, Tried
  <2>2. QED
    BY <2>1, TypeParts DEF ChatOK, TablesOK, RestOK, TypeOK, Sound, Hands, Resting, At
<1>3. OnePlace'
  BY <1>1, Ends DEF table, TablesOK
<1>4. QED
  BY <1>2, <1>3 DEF IInv

LEMMA SendStep ==
    ASSUME IInv, NEW r \in Requests, NEW m \in Messages, NEW w \in Workers,
           NEW s \in Sessions \cup {New}, Send(r, m, w, s)
    PROVE  IInv'
<1>1. PICK stream \in BOOLEAN, may \in BOOLEAN :
        chat' = [chat EXCEPT ![r] = [pc |-> "context", msg |-> m, stream |-> stream,
                   worker |-> w, session |-> s, plan |-> None, may |-> may]]
  BY DEF Send
<1> DEFINE c == [pc |-> "context", msg |-> m, stream |-> stream, worker |-> w,
                 session |-> s, plan |-> None, may |-> may]
<1>2. c \in Chat /\ c.plan = None /\ c.pc = "context" /\ c.worker = w
  BY MaxPlansAssumption DEF Chat, Places, None
<1>3. chat \in [Requests -> Chat] /\ chat' = [chat EXCEPT ![r] = c]
  BY <1>1 DEF IInv, TypeOK
<1> HIDE DEF c
<1>4. Emptied({r}) /\ Sound(r)'
  BY <1>2, <1>3 DEF Emptied, Sound, Hands, Resting, At
<1>5. ChatOK'
  BY <1>4, OneChat, TypeParts DEF Emptied, IInv, Send, table, Built
<1>6. QED
  BY <1>4, <1>5, Quiet DEF IInv, TypeOK, Send

LEMMA AcceptStep ==
    ASSUME IInv, NEW r \in Requests, Accept(r)
    PROVE  IInv'
<1>1. PICK s \in Sessions :
        /\ chat' = [chat EXCEPT ![r].session = s, ![r].pc = "accepted"]
        /\ session' = [session EXCEPT ![s] = "open"]
        /\ IF chat[r].session = New THEN session[s] = "fresh" ELSE s = chat[r].session
  BY DEF Accept
<1> DEFINE c == [chat[r] EXCEPT !.session = s, !.pc = "accepted"]
<1>2. chat[r] \in Chat /\ chat[r].plan = None /\ chat \in [Requests -> Chat]
  BY DEF IInv, TypeOK, Accept, At
<1>3. c \in Chat /\ c.plan = None /\ c.pc = "accepted" /\ c.session = s
      /\ c.worker = chat[r].worker
  BY <1>2 DEF Chat, Places
<1>4. chat' = [chat EXCEPT ![r] = c]
  BY <1>1
<1> HIDE DEF c
<1>5. chat[r].worker \in Workers
  BY DEF Accept, At, IInv, TypeOK
<1>6. Emptied({r}) /\ Sound(r)'
  BY <1>2, <1>3, <1>4, <1>5 DEF Emptied, Sound, Hands, At
<1>7. ChatOK'
  BY <1>6, OneChat, TypeParts DEF Emptied, IInv, Accept, table, Built
<1>8. QED
  BY <1>1, <1>6, <1>7, Quiet DEF IInv, TypeOK, Accept

LEMMA AllTyped == ASSUME ChatOK', TablesOK', RestOK' PROVE TypeOK'
BY DEF ChatOK, TablesOK, RestOK, TypeOK, Sound, Hands, Resting, At

LEMMA IsPlaced ==
    ASSUME TypeOK, NEW r \in Requests, chat[r].pc \notin Resting \cup {"context"}
    PROVE  Placed(r) /\ Pending(r) \in 0..MaxPlans
<1>1. Sound(r)
  BY TypeParts DEF ChatOK
<1>2. Placed(r)
  BY <1>1 DEF Sound, Placed, At
<1>3. QED
  BY <1>2 DEF Placed, Pending, TypeOK

LEMMA ClearedTyped ==
    ASSUME TypeOK, NEW r \in Requests, Placed(r), pending' = Cleared(r)
    PROVE  pending' \in [Workers -> [Sessions -> 0..MaxPlans]]
BY MaxPlansAssumption DEF TypeOK, Cleared, Placed, None

LEMMA CancelStep ==
    ASSUME IInv, NEW r \in Requests, Cancel(r)
    PROVE  IInv'
<1>1. Placed(r) /\ Pending(r) \in 0..MaxPlans
  BY IsPlaced DEF Cancel, At, Resting, IInv
<1>2. ChatOK' /\ Emptied({r})
  BY WindSound DEF Cancel, IInv, Built
<1>3. TablesOK'
  <2>1. Pending(r) \in Plans
    BY <1>1, MaxPlansAssumption DEF Cancel, Cancels, Plans, None
  <2>2. pending' \in [Workers -> [Sessions -> 0..MaxPlans]]
    BY <1>1, ClearedTyped DEF Cancel, IInv
  <2>3. QED
    BY <2>1, <2>2 DEF IInv, TypeOK, TablesOK, Cancel, Built
<1>4. RestOK'
  BY DEF IInv, TypeOK, RestOK, Cancel
<1>5. QED
  BY <1>1, <1>2, <1>3, <1>4, AllTyped, CancelKeeps DEF IInv

LEMMA TakeStep ==
    ASSUME IInv, NEW r \in Requests, Take(r), chat[r].msg = "approve"
    PROVE  IInv'
<1>1. /\ Placed(r) /\ Pending(r) \in 0..MaxPlans /\ Pending(r) # None
      /\ chat[r].pc \notin Hands /\ Popped(r)
  BY IsPlaced DEF Take, Approves, At, Resting, Hands, IInv
<1>2. Pending(r) \in Built
  BY <1>1, PendingIsAlone DEF Placed
<1> DEFINE c == [chat[r] EXCEPT !.pc = "executing", !.plan = Pending(r)]
<1>3. chat[r] \in Chat /\ chat \in [Requests -> Chat]
  BY DEF IInv, TypeOK
<1>4. /\ c \in Chat /\ c.plan = Pending(r) /\ c.pc = "executing"
      /\ c.session = chat[r].session /\ c.worker = chat[r].worker
  BY <1>1, <1>3 DEF Chat, Places
<1>5. chat' = [chat EXCEPT ![r] = c] /\ UNCHANGED <<made, origin, withdrawn, posted, session>>
  BY <1>1 DEF Popped
<1> HIDE DEF c
<1>6. Sound(r)'
  BY <1>1, <1>2, <1>3, <1>4, <1>5 DEF Sound, Placed, Hands, Built, At
<1>7. ChatOK'
  BY <1>3, <1>4, <1>5, <1>6, OneChat, TypeParts DEF IInv, Built
<1>8. TablesOK' /\ RestOK'
  <2>1. pending' \in [Workers -> [Sessions -> 0..MaxPlans]]
    BY <1>1, ClearedTyped DEF Popped, IInv
  <2>2. QED
    BY <1>5, <2>1 DEF IInv, TypeOK, TablesOK, RestOK, Built
<1>9. QED
  BY <1>1, <1>7, <1>8, AllTyped, TakeKeeps DEF IInv

LEMMA ProposeStep ==
    ASSUME IInv, NEW r \in Requests, Propose(r)
    PROVE  IInv'
<1>1. Placed(r) /\ Pending(r) \in 0..MaxPlans
  BY IsPlaced DEF Propose, At, Resting, IInv
<1>2. made \in Nat /\ made' = made + 1 /\ made' \in 0..MaxPlans /\ Built' = 1..made + 1
  BY MaxPlansAssumption DEF IInv, TypeOK, Propose, Built
<1>3. ChatOK' /\ Emptied({r})
  BY <1>2, WindSound DEF Propose, IInv, Built
<1>4. TablesOK'
  <2>1. {Pending(r)} \ {None} \subseteq Plans
    BY <1>1, MaxPlansAssumption DEF Plans, None
  <2>2. pending' \in [Workers -> [Sessions -> 0..MaxPlans]]
    BY <1>1, <1>2 DEF Propose, Placed, IInv, TypeOK
  <2>3. origin' \in [Built' -> Sessions]
    BY <1>1, <1>2 DEF Propose, Placed, IInv, TypeOK
  <2>4. withdrawn' \in SUBSET Plans
    BY <2>1 DEF Propose, IInv, TypeOK
  <2>5. QED
    BY <1>2, <2>2, <2>3, <2>4 DEF TablesOK
<1>5. RestOK'
  BY DEF IInv, TypeOK, RestOK, Propose
<1>6. QED
  BY <1>1, <1>3, <1>4, <1>5, AllTyped, ProposeKeeps DEF IInv

LEMMA ConnectStep ==
    ASSUME IInv, NEW r \in Requests, Connect(r)
    PROVE  IInv'
<1> DEFINE c == [chat[r] EXCEPT !.pc = "posting"]
<1>1. chat[r] \in Chat /\ chat \in [Requests -> Chat] /\ Sound(r) /\ chat[r].pc = "executing"
  BY TypeParts DEF IInv, ChatOK, Connect, At
<1>2. /\ c \in Chat /\ c.plan = chat[r].plan /\ c.pc = "posting"
      /\ c.session = chat[r].session /\ c.worker = chat[r].worker
  BY <1>1 DEF Chat, Places
<1>3. chat' = [chat EXCEPT ![r] = c] /\ UNCHANGED <<pending, made, origin, withdrawn, posted, session>>
  BY DEF Connect, Goto, table
<1> HIDE DEF c
<1>4. Sound(r)'
  BY <1>1, <1>2, <1>3 DEF Sound, Hands, Resting, At, Built
<1>5. ChatOK'
  BY <1>1, <1>2, <1>3, <1>4, OneChat, TypeParts DEF IInv, Built
<1>6. TablesOK' /\ RestOK'
  BY <1>3 DEF IInv, TypeOK, TablesOK, RestOK, Built
<1>7. QED
  BY <1>5, <1>6, AllTyped, ConnectKeeps DEF IInv

LEMMA FailStep ==
    ASSUME IInv, NEW r \in Requests, End(r), Attempt({r}), UNCHANGED <<table, session>>
    PROVE  IInv'
<1>1. Tried({r})
  BY AttemptEffect DEF IInv
<1>2. ChatOK' /\ Emptied({r})
  BY EndSound DEF IInv, table, Built
<1>3. QED
  BY <1>1, <1>2, Leaves

LEMMA CrashStep ==
    ASSUME IInv, NEW w \in Workers, Crash(w)
    PROVE  IInv'
<1> DEFINE R == {r \in Requests : chat[r].worker = w}
<1>1. Tried(R)
  BY AttemptEffect DEF IInv, Crash
<1>2. chat' = [r \in Requests |-> IF r \in R THEN Idle ELSE chat[r]] /\ chat \in [Requests -> Chat]
  BY DEF Crash, IInv, TypeOK
<1>3. R \in SUBSET Requests
  OBVIOUS
<1> HIDE DEF R
<1>4. Emptied(R)
  BY <1>2, <1>3, IdleChat DEF Emptied, Hands
<1>5. UNCHANGED <<made, origin, withdrawn, session>>
  BY DEF Crash
<1>6. ChatOK'
  <2>1. ASSUME NEW r \in Requests PROVE Sound(r)'
    <3>1. CASE r \in R
      BY <1>2, <3>1, IdleChat DEF Sound, Hands, Resting, At
    <3>2. CASE r \notin R
      <4>1. chat'[r] = chat[r] /\ Sound(r)
        BY <1>2, <3>2, TypeParts DEF IInv, ChatOK
      <4>2. QED
        BY <1>5, <4>1 DEF Sound, At, Built
    <3>3. QED
      BY <3>1, <3>2
  <2>2. QED
    BY <1>4, <2>1 DEF ChatOK, Emptied
<1>7. /\ pending' \in [Workers -> [Sessions -> 0..MaxPlans]]
      /\ \A v \in Workers, s \in Sessions : pending'[v][s] \in {None, pending[v][s]}
  BY MaxPlansAssumption DEF Crash, IInv, TypeOK, None
<1>8. TablesOK' /\ RestOK'
  BY <1>1, <1>5, <1>7 DEF IInv, TypeOK, TablesOK, RestOK, Tried, Built
<1>9. OnePlace'
  BY <1>1, <1>4, <1>5, <1>7, <1>3, Ends
<1>10. QED
  BY <1>6, <1>8, <1>9, AllTyped DEF IInv

\* What is left of a state when a session is deleted, or nothing happens.
LEMMA SameRequests ==
    ASSUME IInv, UNCHANGED <<chat, table, posted>>,
           session' \in [Sessions -> {"fresh", "open", "deleted"}]
    PROVE  IInv'
<1>1. TypeOK'
  BY DEF IInv, TypeOK, table, Built, At
<1>2. OnePlace'
  BY DEF IInv, OnePlace, Waiting, Held, Holding, At, Untouched, Unborn, Dead, PostedOnce, table, Built
<1>3. QED
  BY <1>1, <1>2 DEF IInv

LEMMA StepKeeps ==
    ASSUME IInv, NEW r \in Requests, Step(r)
    PROVE  IInv'
<1>1. CASE Accept(r)
  BY <1>1, AcceptStep
<1>2. CASE NotFound(r) \/ Save(r)
  <2>1. ChatOK' /\ Emptied({r}) /\ UNCHANGED <<table, posted, session>>
    BY <1>2, EndSound DEF NotFound, Save, IInv, table, Built
  <2>2. QED
    BY <2>1, Quiet DEF IInv, TypeOK
<1>3. CASE Ask(r) \/ TakeNone(r) \/ Forbid(r) \/ NoTarget(r) \/ Answer(r) \/ Refuse(r) \/ PostRefused(r)
  BY <1>3, Winds DEF Ask, TakeNone, Forbid, NoTarget, Answer, Refuse, PostRefused
<1>4. CASE Converse(r)
  <2>1. CASE chat[r].msg = "create"
    BY <1>4, <2>1, Moves DEF Converse, Builds, At, Places, Hands, Resting
  <2>2. CASE chat[r].msg # "create"
    BY <1>4, <2>2, Winds DEF Converse
  <2>3. QED
    BY <2>1, <2>2
<1>5. CASE Announce(r) \/ Resolve(r)
  BY <1>5, Moves DEF Announce, Approves, Resolve, At, Places, Hands, Resting
<1>6. CASE Cancel(r)
  BY <1>6, CancelStep
<1>7. CASE Take(r)
  <2>1. chat[r].msg = "approve"
    BY <1>7 DEF Take, Approves, IInv, TypeOK
  <2>2. QED
    BY <1>7, <2>1, TakeStep
<1>8. CASE Propose(r)
  BY <1>8, ProposeStep
<1>9. CASE Connect(r)
  BY <1>9, ConnectStep
<1>10. CASE Post(r)
  <2>1. ChatOK' /\ Emptied({r}) /\ Tried({r}) /\ UNCHANGED <<table, session>>
    BY <1>10, WindSound, PostEffect DEF Post, IInv, table, Built
  <2>2. QED
    BY <2>1, Leaves
<1>11. CASE Fail(r)
  BY <1>11, FailStep DEF Fail
<1>12. QED
  BY <1>1, <1>2, <1>3, <1>4, <1>5, <1>6, <1>7, <1>8, <1>9, <1>10, <1>11 DEF Step

LEMMA Inductive == IInv /\ [Next]_vars => IInv'
<1> SUFFICES ASSUME IInv, [Next]_vars PROVE IInv'
  OBVIOUS
<1>1. ASSUME NEW r \in Requests, Step(r)
      PROVE  IInv'
  BY <1>1, StepKeeps
<1>2. ASSUME NEW r \in Requests, Disconnect(r)
      PROVE  IInv'
  BY <1>2, FailStep DEF Disconnect
<1>3. ASSUME NEW r \in Requests, NEW m \in Messages, NEW w \in Workers,
             NEW s \in Sessions \cup {New}, Send(r, m, w, s)
      PROVE  IInv'
  BY <1>3, SendStep
<1>4. ASSUME NEW w \in Workers, Crash(w)
      PROVE  IInv'
  BY <1>4, CrashStep
<1>5. ASSUME NEW s \in Sessions, DeleteSession(s)
      PROVE  IInv'
  BY <1>5, SameRequests DEF DeleteSession, IInv, TypeOK
<1>6. CASE UNCHANGED vars
  BY <1>6, SameRequests DEF vars, table, IInv, TypeOK
<1>7. QED
  BY <1>1, <1>2, <1>3, <1>4, <1>5, <1>6 DEF Next
-----------------------------------------------------------------------------
\* The invariant of the approval flow: besides the types, a plan is in one place.
THEOREM Invariance == Spec => []IInv
BY Initially, Inductive, PTL DEF Spec

\* Every message, table and history of the flow keeps its type.
THEOREM TypeCorrect == Spec => []TypeOK
<1>1. IInv => TypeOK
  BY DEF IInv
<1>2. QED
  BY <1>1, Invariance, PTL

\* However many workers and messages there are, no plan is carried out twice.
THEOREM CarriedOutOnce == Spec => []PostedOnce
<1>1. IInv => PostedOnce
  BY DEF IInv, OnePlace
<1>2. QED
  BY <1>1, Invariance, PTL

\* A plan that was cancelled or replaced is in no table and in nobody's hands, and is
\* never carried out.
THEOREM WithdrawnNeverPosted == Spec => []WithdrawnIsFinal
<1>1. IInv => WithdrawnIsFinal
  <2>1. SUFFICES ASSUME IInv, NEW p \in withdrawn
                 PROVE  /\ posted[p] = 0
                        /\ \A r \in Requests : chat[r].plan # p
                        /\ \A w \in Workers, s \in Sessions : pending[w][s] # p
    BY DEF WithdrawnIsFinal
  <2>2. p # None
    BY <2>1 DEF IInv, TypeOK, Plans, None
  <2>3. ASSUME NEW r \in Requests PROVE chat[r].plan # p
    BY <2>1, <2>2 DEF IInv, TypeOK, OnePlace, Held, Holding, Untouched
  <2>4. ASSUME NEW w \in Workers, NEW s \in Sessions PROVE pending[w][s] # p
    BY <2>1, <2>2 DEF IInv, OnePlace, Waiting, Untouched
  <2>5. QED
    BY <2>1, <2>3, <2>4 DEF IInv, OnePlace, Dead
<1>2. QED
  BY <1>1, Invariance, PTL

\* Nothing is posted but in answer to an approval, given in the session the plan was
\* made in by a user with the permission.
THEOREM ApprovedOnly == Spec => ApprovedInSession
<1> DEFINE Answered ==
      \A p \in Plans : posted'[p] > posted[p] =>
         \E r \in Requests : /\ chat[r].plan = p /\ chat[r].msg = "approve" /\ chat[r].may
                             /\ chat[r].session = origin[p]
<1>1. ASSUME IInv, NEW R \in SUBSET Requests, Tried(R) PROVE Answered
  <2>1. SUFFICES ASSUME NEW p \in Plans, posted'[p] > posted[p]
                 PROVE  \E r \in Requests : /\ chat[r].plan = p /\ chat[r].msg = "approve"
                                            /\ chat[r].may /\ chat[r].session = origin[p]
    OBVIOUS
  <2>2. PICK r \in R : At(r, "posting") /\ chat[r].plan = p
    BY <1>1, <2>1 DEF Tried, IInv, TypeOK
  <2>3. chat[r].msg = "approve" /\ chat[r].may /\ chat[r].session = origin[p]
    BY <1>1, <2>2 DEF IInv, OnePlace, Held, Holding, At
  <2>4. QED
    BY <1>1, <2>2, <2>3
<1>2. ASSUME IInv, UNCHANGED posted PROVE Answered
  BY <1>2 DEF IInv, TypeOK
<1>3. IInv /\ [Next]_vars => [Answered]_vars
  <2> SUFFICES ASSUME IInv, Next PROVE Answered
    OBVIOUS
  <2> HIDE DEF Answered
  <2>1. ASSUME NEW r \in Requests, Post(r) PROVE Answered
    BY <1>1, <2>1, PostEffect DEF IInv
  <2>2. ASSUME NEW R \in SUBSET Requests, Attempt(R) PROVE Answered
    BY <1>1, <2>2, AttemptEffect DEF IInv
  <2>3. ASSUME NEW r \in Requests, Step(r) PROVE Answered
    <3>1. CASE Post(r)
      BY <2>1, <3>1
    <3>2. CASE Fail(r)
      BY <2>2, <3>2 DEF Fail
    <3>3. CASE ~Post(r) /\ ~Fail(r)
      BY <1>2, <2>3, <3>3 DEF Step, Accept, NotFound, Ask, Cancel, Announce, Take, Popped,
           TakeNone, Forbid, Converse, Resolve, NoTarget, Propose, Answer, Refuse, Connect,
           PostRefused, Save
    <3>4. QED
      BY <3>1, <3>2, <3>3
  <2>4. QED
    BY <1>2, <2>2, <2>3 DEF Next, Disconnect, Send, Crash, DeleteSession
<1>4. QED
  BY <1>3, Invariance, PTL DEF Spec, ApprovedInSession
-----------------------------------------------------------------------------
(***************************************************************************)
(* The flow implements PlanLifecycle.  Most steps leave every plan where   *)
(* it is or end some of them (Leaving); Cancel, Take and Propose move one. *)
(***************************************************************************)

LEMMA PhaseMap == Phase = [p \in Plans |-> PhaseOf(p)]
BY DEF Phase

\* The place of a plan decides its phase.
PlacesKnown ==
    \A p \in Plans :
        /\ \A r \in Requests : chat[r].plan = p => PhaseOf(p) = "approved"
        /\ \A w \in Workers, s \in Sessions : pending[w][s] = p => PhaseOf(p) = "waiting"

LEMMA Known == IInv => PlacesKnown
<1> SUFFICES ASSUME IInv, NEW p \in Plans
             PROVE  /\ \A r \in Requests : chat[r].plan = p => PhaseOf(p) = "approved"
                    /\ \A w \in Workers, s \in Sessions : pending[w][s] = p => PhaseOf(p) = "waiting"
  BY DEF PlacesKnown
<1>1. p # None
  BY DEF Plans, None
<1>2. ASSUME NEW r \in Requests, chat[r].plan = p
      PROVE  PhaseOf(p) = "approved"
  <2>1. Holding(r) /\ p \in Built
    BY <1>1, <1>2 DEF IInv, TypeOK, Holding
  <2>2. Untouched(p)
    BY <1>2, <2>1 DEF IInv, OnePlace, Held
  <2>3. QED
    BY <1>2, <2>1, <2>2 DEF PhaseOf, Untouched
<1>3. ASSUME NEW w \in Workers, NEW s \in Sessions, pending[w][s] = p
      PROVE  PhaseOf(p) = "waiting"
  <2>1. p \in Built /\ Untouched(p) /\ origin[p] = s
    BY <1>1, <1>3 DEF IInv, OnePlace, Waiting
  <2>2. ASSUME NEW r \in Requests, chat[r].plan = p
        PROVE  FALSE
    <3>1. Holding(r)
      BY <1>1, <2>2 DEF IInv, TypeOK, Holding
    <3>2. origin[p] = chat[r].session /\ pending[w][chat[r].session] # p
      BY <2>2, <3>1 DEF IInv, OnePlace, Held
    <3>3. QED
      BY <1>3, <2>1, <3>2
  <2>3. QED
    BY <1>3, <2>1, <2>2 DEF PhaseOf, Untouched
<1>4. QED
  BY <1>2, <1>3

\* No handler gets a plan it did not have.
Shed == \A q \in Requests : chat'[q].plan \in {None, chat[q].plan}

LEMMA Leaving ==
    ASSUME IInv, IInv', Shed, Tried(Requests), UNCHANGED <<made, origin, withdrawn>>,
           \A w \in Workers, s \in Sessions : pending'[w][s] \in {None, pending[w][s]}
    PROVE  [Life!Next]_<<Phase, origin>>
<1> DEFINE L == {p \in Plans : PhaseOf(p)' # PhaseOf(p)}
           X == {p \in L : PhaseOf(p)' = "posted"}
<1>1. ASSUME NEW p \in Plans
      PROVE  \/ PhaseOf(p)' = PhaseOf(p)
             \/ PhaseOf(p) = "approved" /\ PhaseOf(p)' \in {"posted", "dropped"}
             \/ PhaseOf(p) = "waiting" /\ PhaseOf(p)' = "dropped"
  <2>1. p # None /\ Built' = Built /\ posted[p] \in Nat /\ posted'[p] \in Nat /\ PlacesKnown
    <3>1. p # None /\ Built' = Built
      BY MaxPlansAssumption DEF Plans, None, Built
    <3>2. posted[p] \in Nat /\ posted'[p] \in Nat
      BY DEF Tried, IInv, TypeOK
    <3>3. QED
      BY <3>1, <3>2, Known
  <2>2. CASE p \notin Built
    BY <2>1, <2>2 DEF PhaseOf
  <2>3. CASE p \in Built /\ posted[p] > 0
    <3>1. posted'[p] > 0
      BY <2>1, <2>3 DEF Tried
    <3>2. QED
      BY <2>1, <2>3, <3>1 DEF PhaseOf
  <2>4. CASE p \in Built /\ p \in withdrawn
    <3>1. posted[p] = 0 /\ posted'[p] = 0
      BY <2>4 DEF IInv, OnePlace, Dead
    <3>2. QED
      BY <2>1, <2>4, <3>1 DEF PhaseOf
  <2>5. CASE p \in Built /\ ~(posted[p] > 0) /\ p \notin withdrawn
    <3>1. CASE \E r \in Requests : chat[r].plan = p
      <4>1. PhaseOf(p) = "approved"
        BY <2>1, <3>1 DEF PlacesKnown
      <4>2. \A w \in Workers, s \in Sessions : pending'[w][s] # p
        BY <2>1, <4>1 DEF PlacesKnown
      <4>3. PhaseOf(p)' \in {"posted", "approved", "dropped"}
        BY <2>1, <2>5, <4>2 DEF PhaseOf
      <4>4. QED
        BY <4>1, <4>3
    <3>2. CASE \A r \in Requests : chat[r].plan # p
      <4>1. posted'[p] = posted[p] /\ \A r \in Requests : chat'[r].plan # p
        BY <2>1, <3>2 DEF Tried, Shed
      <4>2. PhaseOf(p) = IF \E w \in Workers, s \in Sessions : pending[w][s] = p
                         THEN "waiting" ELSE "dropped"
        BY <2>5, <3>2 DEF PhaseOf
      <4>3. PhaseOf(p)' = IF \E w \in Workers, s \in Sessions : pending'[w][s] = p
                          THEN "waiting" ELSE "dropped"
        BY <2>1, <2>5, <4>1 DEF PhaseOf
      <4>4. QED
        BY <2>1, <4>2, <4>3
    <3>3. QED
      BY <3>1, <3>2
  <2>6. QED
    BY <2>2, <2>3, <2>4, <2>5
<1>2. L \in SUBSET Plans /\ X \in SUBSET L
  OBVIOUS
<1>3. Phase' = [p \in Plans |-> IF p \in X THEN "posted" ELSE IF p \in L THEN "dropped" ELSE Phase[p]]
  <2>1. \A p \in Plans :
          PhaseOf(p)' = IF p \in X THEN "posted" ELSE IF p \in L THEN "dropped" ELSE PhaseOf(p)
    BY <1>1
  <2>2. QED
    BY <2>1, PhaseMap DEF Phase
<1>4. \A p \in L : Phase[p] \in {"waiting", "approved"}
  BY <1>1, PhaseMap
<1>5. \A p \in X : Phase[p] = "approved"
  BY <1>1, PhaseMap
<1> HIDE DEF L, X
<1>6. Life!Leave(L, X)
  BY <1>3, <1>4, <1>5 DEF Life!Leave
<1>7. QED
  BY <1>2, <1>6 DEF Life!Next

\* The handler r goes on, or ends, without touching the table.
LEMMA Sheds ==
    ASSUME IInv, NEW r \in Requests, NEW c \in Chat, c.plan \in {None, chat[r].plan},
           chat' = [chat EXCEPT ![r] = c]
    PROVE  Shed
BY DEF IInv, TypeOK, Shed

LEMMA WindSheds ==
    ASSUME IInv, NEW r \in Requests, NEW pc \in {"answering", "saving"}, Wind(r, pc)
    PROVE  Shed
<1>1. [Idle EXCEPT !.pc = pc] \in Chat /\ [Idle EXCEPT !.pc = pc].plan = None
  BY IdleChat DEF Chat, Places
<1>2. QED
  BY <1>1, Sheds DEF Wind

LEMMA EndSheds == ASSUME IInv, NEW r \in Requests, End(r) PROVE Shed
BY IdleChat, Sheds DEF End

LEMMA GotoSheds ==
    ASSUME IInv, NEW r \in Requests, NEW pc \in Places, Goto(r, pc)
    PROVE  Shed
<1> DEFINE c == [chat[r] EXCEPT !.pc = pc]
<1>1. c \in Chat /\ c.plan = chat[r].plan
  BY DEF Chat, IInv, TypeOK
<1>2. chat' = [chat EXCEPT ![r] = c]
  BY DEF Goto
<1> HIDE DEF c
<1>3. QED
  BY <1>1, <1>2, Sheds

LEMMA QuietLeaves ==
    ASSUME IInv, IInv', Shed, UNCHANGED <<table, posted>>
    PROVE  [Life!Next]_<<Phase, origin>>
<1>1. Tried(Requests) /\ UNCHANGED <<pending, made, origin, withdrawn>>
  BY DEF Tried, IInv, TypeOK, table
<1>2. QED
  BY <1>1, Leaving

\* The steps that move a plan.
LEMMA AnswerRefines ==
    ASSUME NEW p \in Plans, NEW reply \in {"approved", "withdrawn"}, UNCHANGED origin,
           PhaseOf(p) = "waiting", PhaseOf(p)' = reply,
           \A q \in Plans \ {p} : PhaseOf(q)' = PhaseOf(q)
    PROVE  Life!Next
<1>1. Phase' = [Phase EXCEPT ![p] = reply]
  BY PhaseMap DEF Phase
<1>2. Life!Answer(p, reply)
  BY <1>1, PhaseMap DEF Life!Answer
<1>3. QED
  BY <1>2 DEF Life!Next

LEMMA CancelRefines ==
    ASSUME IInv, IInv', NEW r \in Requests, Cancel(r)
    PROVE  Life!Next
<1>1. Placed(r) /\ Pending(r) # None /\ Pending(r) \in Plans
  BY IsPlaced, PendingIsAlone, BuiltArePlans DEF Cancel, Cancels, At, Resting, IInv, Placed
<1> PICK p0 \in Plans : p0 = Pending(r)
  BY <1>1
<1>2. /\ p0 \in Built /\ posted[p0] = 0
      /\ \A q \in Requests : chat[q].plan # p0
      /\ \A w \in Workers, s \in Sessions :
           pending[w][s] = p0 => w = chat[r].worker /\ s = chat[r].session
  BY <1>1, PendingIsAlone DEF Placed, Untouched
<1>3. PhaseOf(p0) = "waiting"
  BY <1>1, Known DEF PlacesKnown, Pending, Placed
<1>4. PhaseOf(p0)' = "withdrawn"
  BY <1>2 DEF Cancel, PhaseOf, Built
<1>5. ASSUME NEW p \in Plans \ {p0}
      PROVE  PhaseOf(p)' = PhaseOf(p)
  <2>1. p # None /\ Built' = Built
    BY MaxPlansAssumption DEF Plans, None, Built, Cancel
  <2>2. \A q \in Requests : chat'[q].plan = p <=> chat[q].plan = p
    <3>1. chat[r].plan = None /\ chat'[r].plan = None
      BY IdleChat DEF Cancel, At, IInv, TypeOK, Wind, Chat
    <3>2. \A q \in Requests \ {r} : chat'[q] = chat[q]
      BY DEF Cancel, Wind, IInv, TypeOK
    <3>3. QED
      BY <2>1, <3>1, <3>2
  <2>3. \A w \in Workers, s \in Sessions : pending'[w][s] = p <=> pending[w][s] = p
    BY <1>1, <2>1 DEF Cancel, Cleared, Pending, Placed, IInv, TypeOK
  <2>4. UNCHANGED posted /\ (p \in withdrawn' <=> p \in withdrawn)
    BY DEF Cancel
  <2>5. QED
    BY <2>1, <2>2, <2>3, <2>4 DEF PhaseOf
<1>6. UNCHANGED origin
  BY DEF Cancel
<1>7. QED
  BY <1>3, <1>4, <1>5, <1>6, AnswerRefines

LEMMA TakeRefines ==
    ASSUME IInv, IInv', NEW r \in Requests, Take(r)
    PROVE  Life!Next
<1>1. /\ Placed(r) /\ Pending(r) # None /\ Pending(r) \in Plans /\ Popped(r)
      /\ chat[r].plan = None
  <2>1. /\ Placed(r) /\ Pending(r) # None /\ Popped(r) /\ chat[r].plan = None
    BY IsPlaced DEF Take, Approves, At, Resting, IInv, TypeOK
  <2>2. QED
    BY <2>1, PendingIsAlone, BuiltArePlans DEF Placed, IInv
<1> PICK p0 \in Plans : p0 = Pending(r)
  BY <1>1
<1>2. PhaseOf(p0) = "waiting" /\ p0 # None
  BY <1>1, Known DEF PlacesKnown, Pending, Placed
<1>3. /\ chat'[r].plan = p0 /\ \A q \in Requests \ {r} : chat'[q] = chat[q]
      /\ UNCHANGED <<made, origin, withdrawn, posted>>
  BY <1>1 DEF Popped, IInv, TypeOK, Chat
<1>4. PhaseOf(p0)' = "approved"
  BY <1>2, <1>3 DEF PhaseOf, Built
<1>5. ASSUME NEW p \in Plans \ {p0}
      PROVE  PhaseOf(p)' = PhaseOf(p)
  <2>1. p # None /\ Built' = Built
    BY <1>3, MaxPlansAssumption DEF Plans, None, Built
  <2>2. \A q \in Requests : chat'[q].plan = p <=> chat[q].plan = p
    BY <1>1, <1>3, <2>1
  <2>3. \A w \in Workers, s \in Sessions : pending'[w][s] = p <=> pending[w][s] = p
    BY <1>1, <2>1 DEF Popped, Cleared, Pending, Placed, IInv, TypeOK
  <2>4. QED
    BY <1>3, <2>1, <2>2, <2>3 DEF PhaseOf
<1>6. QED
  BY <1>2, <1>3, <1>4, <1>5, AnswerRefines

LEMMA ProposeRefines ==
    ASSUME IInv, IInv', NEW r \in Requests, Propose(r)
    PROVE  Life!Next
<1>1. Placed(r) /\ Pending(r) \in 0..MaxPlans /\ chat[r].plan = None
  BY IsPlaced DEF Propose, At, Resting, IInv, TypeOK
<1>2. /\ made + 1 \in Plans \ Built /\ made' = made + 1 /\ made + 1 # None
      /\ Built' = Built \cup {made + 1} /\ Built \subseteq Plans /\ UNCHANGED posted
  <2>1. made \in 0..MaxPlans /\ made < MaxPlans /\ made' = made + 1 /\ UNCHANGED posted
    BY DEF IInv, TypeOK, Propose
  <2>2. QED
    BY <2>1, MaxPlansAssumption DEF Plans, Built, None
<1> PICK p0 \in Plans : p0 = made + 1
  BY <1>2
<1> PICK old \in 0..MaxPlans : old = Pending(r)
  BY <1>1
<1>3. /\ pending'[chat[r].worker][chat[r].session] = p0
      /\ \A w \in Workers, s \in Sessions :
           w # chat[r].worker \/ s # chat[r].session => pending'[w][s] = pending[w][s]
  <2>1. pending \in [Workers -> [Sessions -> 0..MaxPlans]]
    BY DEF IInv, TypeOK
  <2>2. pending' = [pending EXCEPT ![chat[r].worker][chat[r].session] = made + 1]
    BY DEF Propose
  <2>3. QED
    BY <1>1, <2>1, <2>2 DEF Placed
<1>4. \A q \in Requests : chat'[q].plan = chat[q].plan
  BY <1>1, IdleChat DEF Propose, Wind, IInv, TypeOK, Chat
<1>5. PhaseOf(p0) = "unborn" /\ PhaseOf(p0)' = "waiting"
  <2>1. PhaseOf(p0) = "unborn"
    BY <1>2 DEF PhaseOf
  <2>2. PlacesKnown'
    <3>1. IInv' => PlacesKnown'
      BY Known, PTL
    <3>2. QED
      BY <3>1
  <2>3. QED
    BY <1>1, <1>3, <2>1, <2>2 DEF PlacesKnown, Placed
<1>6. withdrawn' = withdrawn \cup ({old} \ {None})
  BY DEF Propose
<1>7. ASSUME NEW p \in Plans \ {p0, old}
      PROVE  PhaseOf(p)' = PhaseOf(p)
  <2>1. p # None /\ (p \in Built' <=> p \in Built) /\ (p \in withdrawn' <=> p \in withdrawn)
    BY <1>2, <1>6, MaxPlansAssumption DEF Plans, None
  <2>2. \A w \in Workers, s \in Sessions : pending'[w][s] = p <=> pending[w][s] = p
    BY <1>1, <1>3 DEF Pending, Placed
  <2>3. QED
    BY <1>2, <1>4, <2>1, <2>2 DEF PhaseOf
<1>8. origin' = [q \in DOMAIN origin \cup {p0} |-> IF q = p0 THEN chat[r].session ELSE origin[q]]
  <2>1. DOMAIN origin = Built /\ 1..made + 1 = Built \cup {p0}
    BY <1>2 DEF IInv, TypeOK, Built
  <2>2. QED
    BY <1>2, <2>1 DEF Propose
<1>9. CASE old = None
  <2>1. Phase' = [Phase EXCEPT ![p0] = "waiting"]
    <3>1. old \notin Plans
      BY <1>9, MaxPlansAssumption DEF Plans, None
    <3>2. \A p \in Plans \ {p0} : PhaseOf(p)' = PhaseOf(p)
      BY <1>7, <3>1
    <3>3. QED
      BY <1>5, <3>2, PhaseMap DEF Phase
  <2>2. Life!Preview(p0, chat[r].session)
    BY <1>5, <1>8, <2>1, PhaseMap DEF Life!Preview, Life!Housed
  <2>3. QED
    BY <1>1, <2>2 DEF Life!Next, Placed
<1>10. CASE old # None
  <2>1. old \in Built /\ origin[old] = chat[r].session /\ posted[old] = 0
    BY <1>1, <1>10, PendingIsAlone DEF Placed, Untouched
  <2>2. old \in Plans /\ PhaseOf(old) = "waiting"
    BY <1>1, <1>2, <2>1, Known DEF PlacesKnown, Pending, Placed
  <2>3. PhaseOf(old)' = "withdrawn"
    BY <1>2, <1>6, <1>10, <2>1 DEF PhaseOf
  <2>4. Phase' = [Phase EXCEPT ![p0] = "waiting", ![old] = "withdrawn"]
    BY <1>2, <1>5, <1>7, <2>1, <2>2, <2>3, PhaseMap DEF Phase
  <2>5. Life!Replace(p0, old)
    BY <1>5, <1>8, <2>1, <2>2, <2>4, PhaseMap DEF Life!Replace, Life!Housed
  <2>6. QED
    BY <2>2, <2>5 DEF Life!Next
<1>11. QED
  BY <1>9, <1>10

LEMMA StepRefines ==
    ASSUME IInv, IInv', NEW r \in Requests, Step(r)
    PROVE  [Life!Next]_<<Phase, origin>>
<1>1. CASE Accept(r)
  <2>1. PICK s \in Sessions : chat' = [chat EXCEPT ![r].session = s, ![r].pc = "accepted"]
    BY <1>1 DEF Accept
  <2> DEFINE c == [chat[r] EXCEPT !.session = s, !.pc = "accepted"]
  <2>2. c \in Chat /\ c.plan = chat[r].plan
    <3>1. chat[r] \in Chat
      BY DEF IInv, TypeOK
    <3>2. QED
      BY <3>1 DEF Chat, Places
  <2>3. chat' = [chat EXCEPT ![r] = c]
    BY <2>1
  <2> HIDE DEF c
  <2>4. QED
    BY <1>1, <2>2, <2>3, Sheds, QuietLeaves DEF Accept
<1>2. CASE NotFound(r) \/ Save(r)
  BY <1>2, EndSheds, QuietLeaves DEF NotFound, Save
<1>3. CASE Ask(r) \/ TakeNone(r) \/ Forbid(r) \/ NoTarget(r) \/ Answer(r) \/ Refuse(r) \/ PostRefused(r)
  BY <1>3, WindSheds, QuietLeaves DEF Ask, TakeNone, Forbid, NoTarget, Answer, Refuse, PostRefused
<1>4. CASE Announce(r) \/ Converse(r) \/ Resolve(r) \/ Connect(r)
  <2>1. Shed
    BY <1>4, WindSheds, GotoSheds DEF Announce, Converse, Resolve, Connect, Places
  <2>2. QED
    BY <1>4, <2>1, QuietLeaves DEF Announce, Converse, Resolve, Connect
<1>5. CASE Cancel(r)
  BY <1>5, CancelRefines
<1>6. CASE Take(r)
  BY <1>6, TakeRefines
<1>7. CASE Propose(r)
  BY <1>7, ProposeRefines
<1>8. CASE Post(r)
  <2>1. Shed
    BY <1>8, WindSheds DEF Post
  <2>2. Tried(Requests)
    <3>1. Tried({r})
      BY <1>8, PostEffect DEF IInv
    <3>2. QED
      BY <3>1 DEF Tried
  <2>3. QED
    BY <1>8, <2>1, <2>2, Leaving DEF Post, table
<1>9. CASE Fail(r)
  <2>1. Tried(Requests)
    BY <1>9, AttemptEffect DEF Fail, Tried, IInv
  <2>2. QED
    BY <1>9, <2>1, EndSheds, Leaving DEF Fail, table
<1>10. QED
  BY <1>1, <1>2, <1>3, <1>4, <1>5, <1>6, <1>7, <1>8, <1>9 DEF Step

LEMMA NextRefines == IInv /\ IInv' /\ [Next]_vars => [Life!Next]_<<Phase, origin>>
<1> SUFFICES ASSUME IInv, IInv', [Next]_vars PROVE [Life!Next]_<<Phase, origin>>
  OBVIOUS
<1>1. ASSUME NEW r \in Requests, Disconnect(r)
      PROVE  [Life!Next]_<<Phase, origin>>
  <2>1. Tried(Requests)
    BY <1>1, AttemptEffect DEF Disconnect, Tried, IInv
  <2>2. QED
    BY <1>1, <2>1, EndSheds, Leaving DEF Disconnect, table
<1>2. ASSUME NEW r \in Requests, NEW m \in Messages, NEW w \in Workers,
             NEW s \in Sessions \cup {New}, Send(r, m, w, s)
      PROVE  [Life!Next]_<<Phase, origin>>
  <2>1. PICK stream \in BOOLEAN, may \in BOOLEAN :
          chat' = [chat EXCEPT ![r] = [pc |-> "context", msg |-> m, stream |-> stream,
                     worker |-> w, session |-> s, plan |-> None, may |-> may]]
    BY <1>2 DEF Send
  <2> DEFINE c == [pc |-> "context", msg |-> m, stream |-> stream, worker |-> w,
                   session |-> s, plan |-> None, may |-> may]
  <2>2. c \in Chat /\ c.plan = None /\ chat' = [chat EXCEPT ![r] = c]
    BY <2>1, MaxPlansAssumption DEF Chat, Places, None
  <2> HIDE DEF c
  <2>3. QED
    BY <1>2, <2>2, Sheds, QuietLeaves DEF Send
<1>3. ASSUME NEW w \in Workers, Crash(w)
      PROVE  [Life!Next]_<<Phase, origin>>
  <2>1. Shed
    BY <1>3, IdleChat DEF Crash, Shed, IInv, TypeOK
  <2>2. Tried(Requests)
    BY <1>3, AttemptEffect DEF Crash, Tried, IInv
  <2>3. \A v \in Workers, s \in Sessions : pending'[v][s] \in {None, pending[v][s]}
    BY <1>3 DEF Crash, IInv, TypeOK
  <2>4. QED
    BY <1>3, <2>1, <2>2, <2>3, Leaving DEF Crash
<1>4. CASE UNCHANGED <<chat, table, posted>>
  <2>1. Shed
    BY <1>4 DEF Shed
  <2>2. QED
    BY <1>4, <2>1, QuietLeaves
<1>5. QED
  BY <1>1, <1>2, <1>3, <1>4, StepRefines DEF Next, DeleteSession, vars, table

\* The approval flow implements the life of a plan, for any number of workers, messages
\* and sessions: no failure, retry or restart brings a plan back, or sends one that was
\* not waiting in its session when it was approved.
THEOREM Lifecycle == Spec => LifecycleSpec
<1>1. Init => Life!Init
  <2> SUFFICES ASSUME Init PROVE Life!Init
    OBVIOUS
  <2>1. Built = {}
    BY DEF Init, Built
  <2>2. Phase = [p \in Plans |-> "unborn"]
    BY <2>1 DEF Phase, PhaseOf
  <2>3. origin = [p \in {} |-> "unborn"]
    BY DEF Init
  <2>4. QED
    BY <2>2, <2>3 DEF Life!Init
<1>2. QED
  BY <1>1, NextRefines, Invariance, PTL DEF Spec, LifecycleSpec, Life!Spec
=============================================================================
