\* Module MCAnswers: answers that disagree, lost wakes, crashes and hanging workers.
SPECIFICATION Spec
CONSTANTS
  q1 = q1
  q2 = q2
  a = a
  b = b
  Questions = {q1, q2}
  Answers = {a, b}
  Concurrency = 2
  WakeCap = 1
  Scenes <- MCScenes
INVARIANTS
  TypeOK
  OneAnswerTold
  NoStrayCalls
  DoneIsConfirmed
PROPERTIES
  HomeworkEnds
CHECK_DEADLOCK FALSE
