\* Module MCAccess: the broker's queue, replaced accounts, QR codes, shared and private identities.
SPECIFICATION Spec
CONSTANTS
  c1 = c1
  c2 = c2
  c3 = c3
  f1 = f1
  f2 = f2
  f3 = f3
  p = p
  q = q
  user = user
  admin = admin
  i1 = i1
  i2 = i2
  Clients = {c1, c2, c3}
  Users = {i1, i2}
  UserOf <- MCUserOf
  Submissions = {c1, c2}
  Reads = {c3}
  MaxTotal = 2
  MaxWrites = 1
  MinCool = 1
  MaxCool = 2
  MaxLeft = 1
  Services = {p, q}
  Broking = p
  Owners = {user, admin}
  Admins = {admin}
  Ids = {i1, i2}
  Signers = {f1, f2, f3}
  Callers = {c1, c2, c3}
  AccountOf <- MCAccountOf
  MaxOps = 3
  Scenes <- MCScenes
INVARIANTS
  TypeOK
  CountersExact
  PrivateXorShared
PROPERTIES
  CooldownNotShortened
  DeniedAccountRests
  SignInsInOrder
  OnlyBlamedInvalid
  SessionsFinal
  CallsEnd
  SessionsEnd
CHECK_DEADLOCK FALSE
