--------------------------- MODULE MCSubmission ---------------------------
\* Instances of Submission for the model checker.
EXTENDS Submission, TLC

CONSTANTS s1, s2

ServerSymmetry == Permutations(Servers)

Row(state, retries, retryable) == [state |-> state, retries |-> retries, retryable |-> retryable]

NoLegacy == {{}}

\* One old row of each interesting kind, and two that must be merged.
SomeLegacy == {
  {},
  {Row("pending", 1, TRUE)},
  {Row("unknown", 0, FALSE)},
  {Row("posted", 0, FALSE), Row("unknown", 2, TRUE)}}
=============================================================================
