\* Two resources that ask for the same objects; one of them is deleted.
SPECIFICATION Spec
CONSTANTS
  Crs = {c1, c2}
  NoCr = NoCr
  Starts <- MCNewInterface
  MaxGen = 1
  Deletable = {c1}
  Tampered = {}
  MaxDisturbances = 1
INVARIANTS
  CreatedForEach
\* With the budgets spent and everything in place, nothing is left to do.
CHECK_DEADLOCK FALSE
