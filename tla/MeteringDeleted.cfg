\* The resource is deleted at any point of a run, once installed.
SPECIFICATION FairSpec
CONSTANTS
  MaxGen = 1
  Enabled <- MCNever
  RacmHub = FALSE
  MayDelete = TRUE
  Starts = {"installed"}
  CertStarts = {"watched"}
  DomainKnown = TRUE
  Tampered = {}
  MaxTampers = 0
  MaxFaults = 0
PROPERTIES
  EventuallyCollected
\* With the budgets spent and everything in place, nothing is left to do.
CHECK_DEADLOCK FALSE
