----------------------------- MODULE MCObjectCopy -----------------------------
(***************************************************************************)
(* ObjectCopy for TLC: a policy that refers to a script and a group, a     *)
(* second one that refers to the group only, and a package; two targets.   *)
(***************************************************************************)
EXTENDS ObjectCopy, TLC

CONSTANTS p1, p2, s1, g1, k1, t1, t2, r1, r2

ThePolicies   == {p1, p2}
TheScripts    == {s1}
TheGroups     == {g1}
ThePackages   == {k1}
TheReferences == [p \in ThePolicies |-> IF p = p1 THEN {s1, g1} ELSE {g1}]
WithCategories == {p1, s1, k1}
ClosedTargets == {t2}
InStock       == {<<t1, s1>>, <<t1, "category">>}
TwoTargets    == {t1, t2}
OneRequest    == {r1}
TwoRequests   == {r1, r2}

Everything == TheScripts \cup TheGroups \cup {Category}
Of(os, ts) == [chosen |-> os, targets |-> ts, skip |-> TRUE, deps |-> FALSE, file |-> FALSE,
               selected |-> Everything]

\* With and without dependencies, all selected or, as from the page, none; the script,
\* the group and the package by themselves, with and without skipping existing names.
TheOrders ==
    {[Of({p1, p2}, {t1}) EXCEPT !.deps = TRUE],
     [Of({p1}, {t2}) EXCEPT !.deps = TRUE], Of({p1}, {t1}),
     Of({s1}, {t1}), [Of({g1}, {t1}) EXCEPT !.skip = FALSE],
     [Of({k1}, {t1, t2}) EXCEPT !.file = TRUE]}

Symmetric == Permutations(Requests)

\* A second mishap only among requests for packages: a file fails, then a later target
\* gives no token.
SecondAmongPackages == mishaps <= 1 \/ \A r \in Requests : copy[r].chosen \subseteq Packages
=============================================================================
