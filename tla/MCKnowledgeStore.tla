--------------------------- MODULE MCKnowledgeStore ---------------------------
(***************************************************************************)
(* KnowledgeStore for TLC: two bases, one page with two texts, two crawls and  *)
(* two requests of administrators at a time.                               *)
(***************************************************************************)
EXTENDS KnowledgeStore, TLC

CONSTANTS b1, b2, p1, c1, c2, h1, h2, x1, x2

TwoBases    == {b1, b2}
AtFirst     == <<b1, b2>>
OnePage     == {p1}
OneKey      == [p \in OnePage |-> 0]
TwoTexts    == {x1, x2}
TwoCrawls   == {c1, c2}
TwoHandlers == {h1, h2}

Symmetric == Permutations(Crawls) \cup Permutations(Handlers) \cup Permutations(Texts)

\* Three pages visited with three calls, two with four.
FewVisitsOrCalls == visits <= 2 \/ calls <= 3
=============================================================================
