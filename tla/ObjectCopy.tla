------------------------------ MODULE ObjectCopy ------------------------------
(***************************************************************************)
(* Copying objects from one Jamf server to others: the migrator (policies, *)
(* scripts and computer groups, to one target, a policy with the scripts   *)
(* and groups it refers to) and the package synchronisation (packages, to  *)
(* several targets, with their files).  Both routers have the same loop,   *)
(* written twice; a request walks through it, one call to a server per     *)
(* step.  Nothing is stored on this side, nothing is locked and nothing is *)
(* undone: two requests, an administrator of the target, and a call whose  *)
(* answer is lost all meet in the state of the target.                     *)
(*                                                                         *)
(* An object is known by its name.  A target refuses a second object of a  *)
(* name, and a category it does not have.  Which encoding the target takes *)
(* (JSON or XML, with and without ?format) is part of one call.  A smart   *)
(* group and a static group of one name are different names here.          *)
(***************************************************************************)
EXTENDS Naturals

CONSTANTS
    Policies, Scripts, Groups, Packages,   \* the objects of the source, by kind
    References,   \* References[p]: the scripts and groups policy p refers to
    Categorised,  \* the policies, scripts and packages that carry the category
    Category,     \* the name of the category
    Targets,      \* servers copied to
    Closed,       \* those where this client may not create categories
    Stock,        \* <<t, o>>: what a target may have from the start
    Orders,       \* the requests that may be sent
    Requests,     \* requests being handled at one time
    MaxRuns,      \* bound: requests sent
    MaxMishaps,   \* bound: calls that fail, lost answers, removals, crashes
    Nothing       \* no target, no object, no reference

Deps   == Scripts \cup Groups
Things == Policies \cup Deps \cup Packages

ASSUME KindsAssumption ==
    /\ Policies \cap Deps = {} /\ Policies \cap Packages = {} /\ Deps \cap Packages = {}
    /\ Scripts \cap Groups = {}
ASSUME ReferencesAssumption  == References \in [Policies -> SUBSET Deps]
ASSUME CategorisedAssumption == Categorised \subseteq Policies \cup Scripts \cup Packages
ASSUME CategoryAssumption    == Category \notin Things
ASSUME NothingAssumption     == Nothing \notin Targets \cup Things \cup Nat
ASSUME TargetsAssumption     == Closed \subseteq Targets /\ Stock \subseteq Targets \X (Things \cup {Category})
ASSUME BoundsAssumption      == MaxRuns \in Nat /\ MaxMishaps \in Nat

\* What a request says: objects of one kind, one target unless they are packages, and for
\* policies whether to copy dependencies and which are selected (all, without the lists).
Order == [chosen : SUBSET Things, targets : SUBSET Targets, skip : BOOLEAN,
          deps : BOOLEAN, file : BOOLEAN, selected : SUBSET (Deps \cup {Category})]

ASSUME OrdersAssumption ==
    \A o \in Orders :
        /\ o \in Order /\ o.chosen # {} /\ o.targets # {}
        /\ \E kind \in {Policies, Scripts, Groups, Packages} : o.chosen \subseteq kind
        /\ o.chosen \subseteq Packages \/ \A t, u \in o.targets : t = u
        /\ o.chosen \subseteq Policies \/ (~o.deps /\ o.selected = Deps \cup {Category})
        /\ o.file => o.chosen \subseteq Packages

VARIABLES
    server,     \* server[t][o]: object o on target t
    category,   \* the targets that have the category
    copy,       \* copy[r]: the request r handles and where it is
    clean,      \* history: the last request, if no other and no mishap was beside it
    warned,     \* history: <<t, o>> that a response reported as not copied whole
    unsaid,     \* history: <<t, o>> not copied whole by a request that had no response
    runs, mishaps

world == <<category, unsaid, runs>>
vars  == <<server, copy, clean, warned, mishaps, world>>

\* id: the last id target t gave to an object of this name; refs: the ids a policy
\* refers to, 0 for an id of the source, Nothing where the reference is struck; remapped:
\* it was copied with its dependencies; owed: it was created by a request that also copies the file.
Object == [there : BOOLEAN, id : Nat, refs : [Deps -> Nat \cup {Nothing}],
           remapped : BOOLEAN, cat : BOOLEAN, file : BOOLEAN, owed : BOOLEAN]

NoRefs == [d \in Deps |-> Nothing]
Absent == [there |-> FALSE, id |-> 0, refs |-> NoRefs, remapped |-> FALSE,
           cat |-> FALSE, file |-> FALSE, owed |-> FALSE]
Found  == [Absent EXCEPT !.there = TRUE, !.id = 1, !.cat = TRUE, !.file = TRUE]

\* "analysed": the page shows the dependencies, nothing is sent yet; each place after
\* those four is a call that is being made.
Places == {"idle", "analysed", "done", "aborted", "open", "fetch", "deps", "copydeps", "category",
           "newcategory", "create", "nocategory", "transfer"}

\* What the response says of an object; nofile: created, its file failed.
Statuses == {"none", "created", "nofile", "skipped", "failed"}
Short    == {"failed", "nofile"}

Copy == [pc : Places, chosen : SUBSET Things, targets : SUBSET Targets,
         skip : BOOLEAN, deps : BOOLEAN, selected : SUBSET (Deps \cup {Category}),
         file : BOOLEAN, at : Targets \cup {Nothing}, existing : SUBSET Things,
         item : Things \cup {Nothing}, lacking : SUBSET Deps,
         ids : [Deps -> Nat \cup {Nothing}], cat : BOOLEAN,
         made : Nat,      \* the id that the answer to a create gave
         told : [Targets -> [Things -> Statuses]]]

Untold == [t \in Targets |-> [o \in Things |-> "none"]]
Idle == [pc |-> "idle", chosen |-> {}, targets |-> {}, skip |-> FALSE, deps |-> FALSE,
         selected |-> {}, file |-> FALSE, at |-> Nothing, existing |-> {},
         item |-> Nothing, lacking |-> {}, ids |-> NoRefs, cat |-> FALSE, made |-> 0,
         told |-> Untold]

Ended  == {"idle", "analysed", "done", "aborted"}
InItem == Places \ (Ended \cup {"open", "fetch"})
At(r, pc) == copy[r].pc = pc
Busy == {r \in Requests : copy[r].pc \notin Ended}

TypeOK ==
    /\ server \in [Targets -> [Things -> Object]]
    /\ category \in SUBSET Targets
    /\ copy \in [Requests -> Copy]
    /\ \A r \in Requests :
         /\ copy[r].pc \in InItem => copy[r].item \in copy[r].chosen
         /\ copy[r].pc \in InItem \cup {"fetch"} => copy[r].at \in copy[r].targets
         /\ copy[r].pc \in {"deps", "copydeps"} => copy[r].item \in Policies
         /\ At(r, "transfer") => copy[r].item \in Packages
    /\ clean \in SUBSET Requests
    /\ warned \in SUBSET (Targets \X Things) /\ unsaid \in SUBSET (Targets \X Things)
    /\ runs \in 0..MaxRuns /\ mishaps \in 0..MaxMishaps

Init ==
    /\ \E here \in SUBSET Stock :
         /\ server = [t \in Targets |-> [o \in Things |->
                        IF <<t, o>> \in here THEN Found ELSE Absent]]
         /\ category = {t \in Targets : <<t, Category>> \in here}
    /\ copy = [r \in Requests |-> Idle]
    /\ clean = {} /\ warned = {} /\ unsaid = {} /\ runs = 0 /\ mishaps = 0

There(t, o) == server[t][o].there
Names(t)    == {o \in Things : There(t, o)}
Goto(r, pc) == copy' = [copy EXCEPT ![r].pc = pc]

Remaining(r) == {o \in copy[r].chosen : copy[r].told[copy[r].at][o] = "none"}

\* Mutant: every server that is registered, not those the request names.
UnopenedAny(r) == {t \in Targets : \A o \in copy[r].chosen : copy[r].told[t][o] = "none"}

Unopened(r) == {t \in copy[r].targets : \A o \in copy[r].chosen : copy[r].told[t][o] = "none"}

\* The object is reported, and the loop goes on to the next one, to the next target or
\* to the response, which is the first that is heard of any of them.
Report(r, o, status) ==
    LET told == [copy[r].told EXCEPT ![copy[r].at][o] = status]
        next == IF Remaining(r) # {o} THEN "fetch"
                ELSE IF Unopened(r) \ {copy[r].at} # {} THEN "open" ELSE "done"
        at   == IF next = "fetch" THEN copy[r].at ELSE Nothing
        seen == IF next = "fetch" THEN copy[r].existing ELSE {}
    IN  /\ copy' = [copy EXCEPT ![r] =
                     [copy[r] EXCEPT !.told = told, !.pc = next, !.at = at, !.existing = seen,
                        !.item = Nothing, !.lacking = {}, !.ids = NoRefs, !.cat = FALSE,
                        !.made = 0]]
        /\ warned' = IF next = "done"
                     THEN warned \cup {x \in Targets \X Things : told[x[1]][x[2]] \in Short}
                     ELSE warned

\* A step of the loop that meets no mishap.
Smooth == UNCHANGED <<clean, mishaps, world>>
Mishap == /\ mishaps < MaxMishaps /\ mishaps' = mishaps + 1
          /\ clean' = {} /\ UNCHANGED <<category, runs>>
-----------------------------------------------------------------------------
Filled(o) == [Idle EXCEPT !.chosen = o.chosen, !.targets = o.targets, !.skip = o.skip,
                !.deps = o.deps, !.file = o.file, !.selected = o.selected]

\* "Analyze Dependencies": the page asks which scripts, groups and categories the policies
\* need and the target lacks, and ticks those and no others.
Lacks(ps, t) ==
    {d \in Deps : ~There(t, d) /\ \E p \in ps : d \in References[p]}
      \cup (IF t \notin category /\ ps \cap Categorised # {} THEN {Category} ELSE {})

Preflight(r, o) ==
    /\ copy[r].pc \in {"idle", "done", "aborted"} /\ runs < MaxRuns
    /\ o.chosen \subseteq Policies
    /\ \E t \in o.targets :
         copy' = [copy EXCEPT ![r] = [Filled(o) EXCEPT !.pc = "analysed", !.selected = Lacks(o.chosen, t)]]
    /\ clean' = clean \ {r}
    /\ UNCHANGED <<server, warned, mishaps, world>>

\* The request is sent, from the page or by another client.
Submit(r, request) ==
    /\ runs < MaxRuns /\ runs' = runs + 1
    /\ copy' = [copy EXCEPT ![r] = [request EXCEPT !.pc = "open"]]
    /\ clean' = IF Busy = {} THEN {r} ELSE {}
    /\ UNCHANGED <<server, warned, unsaid, mishaps, category>>

Migrate(r) == At(r, "analysed") /\ Submit(r, copy[r])
Send(r, o) == copy[r].pc \in Ended \ {"analysed"} /\ Submit(r, Filled(o))

\* The token of a target, and the names it has: read once, before its objects.
Open(r) ==
    /\ At(r, "open")
    /\ \E t \in Unopened(r) :
         copy' = [copy EXCEPT ![r].pc = "fetch", ![r].at = t, ![r].existing = Names(t)]
    /\ UNCHANGED <<server, warned>> /\ Smooth

\* The name the loop takes from the details.  That of a policy is not where the loop looks
\* (it is under "general"): the policy gets a name of its own, which no target lists.
Recognised(r, o) == o \notin Policies /\ o \in copy[r].existing

Skips(r, o) == copy[r].skip /\ Recognised(r, o)

\* Fetch the details of the next object of the list; the payload keeps the category when
\* it is selected.  Only for policies and scripts is the category seen to on the target.
Fetch(r) ==
    /\ At(r, "fetch")
    /\ \E o \in Remaining(r) :
         \/ /\ Skips(r, o) /\ Report(r, o, "skipped")
         \/ /\ ~Skips(r, o)
            /\ copy' = [copy EXCEPT ![r].item = o,
                 ![r].cat = o \in Categorised /\ Category \in copy[r].selected,
                 ![r].pc = IF o \in Policies /\ copy[r].deps THEN "deps"
                           ELSE IF o \in Policies \cup Scripts THEN "category" ELSE "create"]
            /\ UNCHANGED warned
    /\ UNCHANGED server /\ Smooth
-----------------------------------------------------------------------------
\* The references of the policy that are selected; the others are struck from it.
Kept(r) == References[copy[r].item] \cap copy[r].selected

\* Mutant: what the target has already is not looked at.
ListDepsBlind(r) ==
    /\ At(r, "deps")
    /\ copy' = [copy EXCEPT ![r].pc = "copydeps", ![r].lacking = Kept(r)]
    /\ UNCHANGED <<server, warned>> /\ Smooth

\* _migrate_policy_dependencies: what the target has is listed once ...
ListDeps(r) ==
    /\ At(r, "deps")
    /\ copy' = [copy EXCEPT ![r].pc = "copydeps",
                            ![r].lacking = {d \in Kept(r) : ~There(copy[r].at, d)}]
    /\ UNCHANGED <<server, warned>> /\ Smooth

\* ... what it lacked is created, scripts first; a script of an unknown category without
\* it, in a second attempt of the same call.
CopyOf(t, d, cat) == [Absent EXCEPT !.there = TRUE, !.id = server[t][d].id + 1, !.cat = cat]

NextDep(r, d) == d \in copy[r].lacking /\ (d \in Scripts \/ copy[r].lacking \cap Scripts = {})

CopyDep(r) ==
    LET t == copy[r].at IN
    /\ At(r, "copydeps")
    /\ \E d \in copy[r].lacking :
         /\ NextDep(r, d)
         /\ \/ /\ There(t, d)    \* created by someone else since: refused
               /\ Report(r, copy[r].item, "failed") /\ UNCHANGED server
            \/ /\ ~There(t, d)
               /\ server' = [server EXCEPT ![t][d] = CopyOf(t, d, d \in Categorised /\ t \in category)]
               /\ copy' = [copy EXCEPT ![r].lacking = @ \ {d}] /\ UNCHANGED warned
    /\ Smooth

\* Mutant: what the second listing does not find is left out of the map.
NoAbsentees(r) == {}

\* ... and the target is listed again for the ids; a name that is missing fails the policy.
Absentees(r) == {d \in Kept(r) : ~There(copy[r].at, d)}

MapDeps(r) ==
    LET t == copy[r].at IN
    /\ At(r, "copydeps") /\ copy[r].lacking = {}
    /\ \/ /\ Absentees(r) # {} /\ Report(r, copy[r].item, "failed")
       \/ /\ Absentees(r) = {}
          /\ copy' = [copy EXCEPT ![r].pc = "category",
               ![r].ids = [d \in Deps |-> IF d \in Kept(r) /\ There(t, d)
                                          THEN server[t][d].id ELSE Nothing]]
          /\ UNCHANGED warned
    /\ UNCHANGED server /\ Smooth

\* _ensure_payload_categories_exist
ListCategories(r) ==
    /\ At(r, "category")
    /\ Goto(r, IF copy[r].cat /\ copy[r].at \notin category THEN "newcategory" ELSE "create")
    /\ UNCHANGED <<server, warned>> /\ Smooth

\* Created, or there by now (409), or not permitted: the loop goes on in each case.
AddCategory(r) ==
    /\ At(r, "newcategory")
    /\ category' = IF copy[r].at \in Closed THEN category ELSE category \cup {copy[r].at}
    /\ Goto(r, "create")
    /\ UNCHANGED <<server, warned, unsaid, clean, mishaps, runs>>
-----------------------------------------------------------------------------
\* _remap_policy_reference_ids on the references that are left: an id without a mapping
\* stays the id of the source.
Remapped(r) ==
    IF copy[r].item \notin Policies THEN NoRefs
    ELSE [d \in Deps |-> IF d \notin Kept(r) THEN Nothing
                         ELSE IF copy[r].ids[d] = Nothing THEN 0 ELSE copy[r].ids[d]]

Made(r, cat) ==
    LET o == copy[r].item IN
    [CopyOf(copy[r].at, o, cat) EXCEPT !.refs = Remapped(r), !.remapped = copy[r].deps,
                                       !.owed = o \in Packages /\ copy[r].file]

Creating(r) == copy[r].pc \in {"create", "nocategory"}
WithCategory(r) == At(r, "create") /\ copy[r].cat

Unmatched(r) == WithCategory(r) /\ copy[r].at \notin category

\* A reference to an id that the target has not, of the source or of something removed.
Unresolved(r) ==
    \E d \in Deps : /\ Remapped(r)[d] # Nothing
                    /\ ~(There(copy[r].at, d) /\ server[copy[r].at][d].id = Remapped(r)[d])

Put(r) == server' = [server EXCEPT ![copy[r].at][copy[r].item] = Made(r, WithCategory(r))]

\* The target takes the object, and may take a policy with references it cannot resolve.
\* The file is for the id that the answer gives.
Create(r) ==
    LET o == copy[r].item IN
    /\ Creating(r) /\ ~There(copy[r].at, o) /\ ~Unmatched(r)
    /\ Put(r)
    /\ \/ /\ copy[r].file /\ UNCHANGED warned
          /\ copy' = [copy EXCEPT ![r].pc = "transfer", ![r].made = server'[copy[r].at][o].id]
       \/ /\ ~copy[r].file /\ Report(r, o, "created")
    /\ Smooth

\* "No match found for category": a policy or a script once more, without it.
RetryWithoutCategory(r) ==
    /\ Creating(r) /\ ~There(copy[r].at, copy[r].item) /\ Unmatched(r)
    /\ copy[r].item \notin Packages
    /\ Goto(r, "nocategory") /\ UNCHANGED <<server, warned>> /\ Smooth

\* A name the target has is refused, and a package of a category it has not; a policy
\* whose references it cannot resolve may be ("Unable to match").
Refused(r) ==
    /\ Creating(r)
    /\ \/ There(copy[r].at, copy[r].item)
       \/ copy[r].item \in Packages /\ Unmatched(r)
       \/ copy[r].item \in Policies /\ Unresolved(r)
    /\ Report(r, copy[r].item, "failed") /\ UNCHANGED server /\ Smooth

\* The record of the target still is the one this request created.
Reaches(r) ==
    LET t == copy[r].at IN
    LET o == copy[r].item IN
    At(r, "transfer") /\ There(t, o) /\ server[t][o].id = copy[r].made

\* _transfer_package_file: downloaded from the source, uploaded under the id of the record.
Transfer(r) ==
    LET t == copy[r].at IN
    LET o == copy[r].item IN
    /\ At(r, "transfer")
    /\ \/ /\ Reaches(r)
          /\ server' = [server EXCEPT ![t][o].file = TRUE] /\ Report(r, o, "created")
       \/ /\ ~Reaches(r) /\ UNCHANGED server /\ Report(r, o, "nofile")
    /\ Smooth
-----------------------------------------------------------------------------
\* Mutant: the status of the file is left as if there had been nothing to copy.
FailureUnseen(r) == IF At(r, "transfer") THEN {"created"} ELSE {"failed"}

\* Whatever fails within an object fails this object only.  A transfer leaves its record:
\* of a failed call or a file the response says so, of an answer that is no JSON it says
\* that the package failed.
Failure(r) == IF At(r, "transfer") THEN {"nofile", "failed"} ELSE {"failed"}

Fails(r) ==
    /\ \/ copy[r].pc \in InItem /\ \E status \in Failure(r) : Report(r, copy[r].item, status)
       \/ At(r, "fetch") /\ \E o \in Remaining(r) : Report(r, o, "failed")
    /\ UNCHANGED <<server, unsaid>> /\ Mishap

\* The call was carried out, its answer is lost or cannot be read.  For a package whose
\* answer has no id, only the file fails.
Unanswered(r) ==
    LET t == copy[r].at IN
    LET o == copy[r].item IN
    /\ \/ /\ Creating(r) /\ ~There(t, o) /\ ~Unmatched(r) /\ Put(r)
          /\ \E status \in {"failed"} \cup (IF copy[r].file THEN {"nofile"} ELSE {}) :
               Report(r, o, status)
       \/ /\ At(r, "copydeps")
          /\ \E d \in copy[r].lacking :
               /\ NextDep(r, d) /\ ~There(t, d)
               /\ server' = [server EXCEPT ![t][d] = CopyOf(t, d, d \in Categorised /\ t \in category)]
          /\ Report(r, o, "failed")
       \/ /\ Reaches(r)
          /\ server' = [server EXCEPT ![t][o].file = TRUE] /\ Report(r, o, "nofile")
    /\ UNCHANGED unsaid /\ Mishap

\* An answer other than success, whatever it is, makes a script try once more without its
\* category, a script among the dependencies of a policy too (_create_on_target).
RetryScript(r) ==
    LET t == copy[r].at IN
    /\ \/ /\ WithCategory(r) /\ copy[r].item \in Scripts
          /\ Goto(r, "nocategory") /\ UNCHANGED server
       \/ /\ At(r, "copydeps")
          /\ \E d \in copy[r].lacking \cap Scripts \cap Categorised :
               /\ ~There(t, d)
               /\ server' = [server EXCEPT ![t][d] = CopyOf(t, d, FALSE)]
               /\ copy' = [copy EXCEPT ![r].lacking = @ \ {d}]
    /\ UNCHANGED <<warned, unsaid>> /\ Mishap

\* What a request has failed to copy whole so far, or has in hand between record and file.
Unfinished(r) ==
    {x \in Targets \X Things :
        \/ copy[r].told[x[1]][x[2]] \in Short
        \/ Reaches(r) /\ x = <<copy[r].at, copy[r].item>>}

\* No token or no list from a target, or the process dies between two calls: there is no
\* response, and what the loop noted so far is lost with it, for earlier targets too.
Abort(r) ==
    /\ r \in Busy
    /\ copy' = [copy EXCEPT ![r] = [Idle EXCEPT !.pc = "aborted"]]
    /\ unsaid' = unsaid \cup Unfinished(r)
    /\ UNCHANGED <<server, warned>> /\ Mishap

\* The administrator of a target removes an object.
Remove(t, o) ==
    /\ There(t, o)
    /\ server' = [server EXCEPT ![t][o] = [Absent EXCEPT !.id = server[t][o].id]]
    /\ UNCHANGED <<copy, warned, unsaid>> /\ Mishap

Step(r) ==
    \/ Open(r) \/ Fetch(r) \/ ListDeps(r) \/ CopyDep(r) \/ MapDeps(r)
    \/ ListCategories(r) \/ AddCategory(r)
    \/ Create(r) \/ RetryWithoutCategory(r) \/ Refused(r) \/ Transfer(r)

Trouble(r) == Fails(r) \/ Unanswered(r) \/ RetryScript(r) \/ Abort(r)

Next ==
    \/ \E r \in Requests, o \in Orders : Preflight(r, o) \/ Send(r, o)
    \/ \E r \in Requests : Migrate(r) \/ Step(r) \/ Trouble(r)
    \/ \E t \in Targets, o \in Things : Remove(t, o)

Spec == Init /\ [][Next]_vars
-----------------------------------------------------------------------------
\* A clean run may still have an object refused: a package whose category the target
\* lacks, a policy sent without its dependencies that keeps references of the source.
Unportable(r, t, o) ==
    \/ o \in Packages \cap Categorised /\ t \notin category
    \/ o \in Policies /\ ~copy[r].deps /\ References[o] \cap copy[r].selected # {}

\* A request that was alone on its way and met no mishap has put every object on every
\* target, whatever earlier requests left half done, except one that is not portable, which
\* it reported as failed; what it created carries the category that was selected, wherever
\* the target has it now, and has its file if files were copied
\* (routers/migrator.py:846-1058, routers/package_sync.py:359-482).
CleanRunCompletes ==
    \A r \in clean : At(r, "done") =>
        \A t \in copy[r].targets, o \in copy[r].chosen :
            LET told == copy[r].told[t][o] IN
            /\ There(t, o) \/ (told = "failed" /\ Unportable(r, t, o))
            /\ told = "created" /\ o \in Categorised /\ Category \in copy[r].selected
                 /\ t \in category => server[t][o].cat
            /\ copy[r].file /\ told \in {"created", "nofile"} => server[t][o].file

\* A policy copied with its dependencies refers only to ids the target itself has given to
\* objects of the names the source policy refers to, never to ids of the source
\* (migrator.py:361-437 and 889-950).
RefsSound ==
    \A t \in Targets, p \in Policies :
        server[t][p].remapped =>
            \A d \in Deps : server[t][p].refs[d] \in {Nothing} \cup 1..server[t][d].id

\* A package record that should have its file and has not is one that a response said was
\* not copied whole, or that a request under way has noted or has in hand; the one gap that
\* is silent is that of a request that ended with no response at all.  No later run that
\* skips existing names closes the gap (package_sync.py:359-482, 568).
NoSilentGap ==
    \A t \in Targets, o \in Packages :
        server[t][o].owed /\ There(t, o) /\ ~server[t][o].file =>
            \/ <<t, o>> \in warned \cup unsaid
            \/ \E r \in Busy : <<t, o>> \in Unfinished(r)
=============================================================================
