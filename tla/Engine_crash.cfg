SPECIFICATION Spec
CONSTANTS
  j1 = j1
  j2 = j2
  j3 = j3
  u1 = u1
  u2 = u2
  c1 = c1
  c2 = c2
  Changes = {c1}
  Jobs = {j1}
  Owners = {u1}
  OwnerOf <- OneOwner
  Media = {"video"}
  Starts <- VideoOnly
  Scopes = {"all"}
  GlobalLimit = 1
  UserLimit = 1
  MaxRequests = 2
  MaxChanges = 0
  MaxCrashes = 2
  MaxStops = 0
  MaxLate = 0
  LocalPrompt = TRUE
CHECK_DEADLOCK FALSE
PROPERTY CrashIsRecovered
