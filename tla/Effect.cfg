\* Module MCEffect: every kind of unit, two processes, crashes and lost replies.
SPECIFICATION Spec
CONSTANTS
  Servers = {s1, s2}
  Kinds <- AllKinds
  MaxAdrift = 2
INVARIANTS
  TypeOK
  PostedOnce
  SendableIsUnsent
  ConfirmedIsShown
PROPERTIES
  UnitsEnd
