SPECIFICATION Spec
CONSTANTS
  j1 = j1
  j2 = j2
  j3 = j3
  u1 = u1
  u2 = u2
  c1 = c1
  c2 = c2
  Changes = {c1}
  Jobs = {j1, j2, j3}
  Owners = {u1, u2}
  OwnerOf <- TwoOwners
  Media = {"video"}
  Starts <- VideoOnly
  Scopes = {"all"}
  GlobalLimit = 2
  UserLimit = 1
  MaxRequests = 3
  MaxChanges = 0
  MaxCrashes = 0
  MaxStops = 0
  MaxLate = 1
  LocalPrompt = TRUE
CHECK_DEADLOCK FALSE
INVARIANTS SlotsRespected SlotsReturned
SYMMETRY Siblings
