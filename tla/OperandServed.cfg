\* One resource, for each controller: an edit of it, and a write by others to its objects,
\* its deletion or a fault.
SPECIFICATION FairSpec
CONSTANTS
  Crs = {c1}
  NoCr = NoCr
  Starts <- MCStarts
  MaxGen = 2
  Deletable = {c1}
  Tampered = {"Service", "Deployment", "Certificate", "APIService"}
  MaxDisturbances = 1
INVARIANTS
  TypeOK
  NoLostWakeUp
PROPERTIES
  EventuallyServed
\* With the budgets spent and everything in place, nothing is left to do.
CHECK_DEADLOCK FALSE
