----------------------------- MODULE MCWalkState -----------------------------
(* Small histories for the walk model: a fork, where c2 and c3 are the two  *)
(* children of c1, and a merge, where c3 joins c1 and c2.                   *)
EXTENDS WalkState, TLC

CONSTANTS c1, c2, c3, main, side, omain

ForkAnc == (c1 :> {c1}) @@ (c2 :> {c1, c2}) @@ (c3 :> {c1, c3})

MergeAnc == (c1 :> {c1}) @@ (c2 :> {c2}) @@ (c3 :> {c1, c2, c3})

MCBranch == [r \in Refs |-> IF r = side THEN "side" ELSE "main"]

Settings(explicit, branch, headOnly, skipMerges, force) ==
  [explicit |-> explicit, branch |-> branch, headOnly |-> headOnly,
   skipMerges |-> skipMerges, force |-> force]

AllRefs    == Settings({}, None, FALSE, FALSE, FALSE)
Forced     == Settings({}, None, FALSE, FALSE, TRUE)
NoMerges   == Settings({}, None, FALSE, TRUE, FALSE)
HeadOnly   == Settings({}, None, TRUE, FALSE, FALSE)

CoveringConfigs == {AllRefs, Forced, NoMerges, HeadOnly}
OneConfig       == {AllRefs}

\* The two roots of the merge, and the two children of the fork, can be
\* exchanged: neither history tells them apart.
MergeSymmetry == Permutations({c1, c2})
ForkSymmetry  == Permutations(Procs) \cup Permutations({c2, c3})
=============================================================================
