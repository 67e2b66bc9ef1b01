\* Module MCUsers: overlapping requests about one address, and two processes that send mail.
SPECIFICATION Spec
CONSTANTS
  Posters = {w1, w2}
  MaxAttempts = 3
  Requests = {r1, r2, r3}
  MaxGuesses = 2
  MaxSends = 2
  MaxOps = 5
  Scenes <- MCScenes
INVARIANTS
  TypeOK
  CodeBudget
  MailOnce
PROPERTIES
  ProvenRegistration
  MailsSettle
CHECK_DEADLOCK FALSE
