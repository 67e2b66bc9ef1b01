----------------------------- MODULE MCAnswers -----------------------------
(* Scenes for two questions and two answers.                                *)
EXTENDS Answers

CONSTANTS q1, q2, a, b

All(v) == [q \in Questions |-> v]
Of(v, w) == [q \in Questions |-> IF q = q1 THEN v ELSE w]

\* Nothing fails, and nothing is known at first.
Calm ==
  [asked |-> {q1}, legacy |-> All(None), platform |-> All("open"), unread |-> {}, shown |-> All("hidden"), revealed |-> All(a),
   others |-> {}, faults |-> FALSE, hangs |-> FALSE, pauses |-> FALSE]

\* Accounts are shown different answers, and an older version holds one of them.
Disagree == [Calm EXCEPT !.legacy = All(b), !.shown = All("reference"), !.others = {All(a), Of(b, "hidden")}]

\* Two questions: one is shown to the collector, the other may be revealed.
Two == [Calm EXCEPT !.asked = Questions, !.shown = Of(a, "hidden")]

\* The worker, a call or the collector fails while the worker waits.
Break == [Calm EXCEPT !.faults = TRUE]

\* The worker hangs, and the module is paused.
Halt == [Calm EXCEPT !.hangs = TRUE, !.pauses = TRUE]

\* Questions that were answered before, or whose count is unknown.
Before == [Calm EXCEPT !.asked = Questions, !.legacy = All(a), !.platform = Of("wrong", "open")]
Uncounted == [Before EXCEPT !.platform = Of("right", "bad")]
Unjudged == [Before EXCEPT !.platform = Of("unjudged", "open")]

\* A list that could not be read.
Unread == [Before EXCEPT !.platform = Of("right", "open"), !.unread = {q2}]

MCScenes == {Disagree, Two, Break, Halt, Before, Uncounted, Unjudged, Unread}
=============================================================================
