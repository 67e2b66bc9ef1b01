----------------------------- MODULE MCEngine -----------------------------
\* Instances of Engine for the model checker.
EXTENDS Engine, TLC

CONSTANTS j1, j2, j3, u1, u2, c1, c2

OneOwner == [j \in Jobs |-> u1]
TwoOwners == [j \in Jobs |-> IF j = j3 THEN u2 ELSE u1]

\* The two jobs of one user are alike.
Siblings == Permutations({j1, j2})

VideoOnly == {{"video"}}
HomeworkOnly == {{"homework"}}

TwoKinds == {"all", "video"}
=============================================================================
