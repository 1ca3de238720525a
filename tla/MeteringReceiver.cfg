\* The receiver is switched on and off again, without a failure.
SPECIFICATION Spec
CONSTANTS
  MaxGen = 3
  Enabled <- MCOnOff
  RacmHub = TRUE
  MayDelete = FALSE
  Starts = {"installed"}
  CertStarts = {"watched"}
  DomainKnown = TRUE
  Tampered = {}
  MaxTampers = 0
  MaxFaults = 0
INVARIANTS
  ReceiverRemoved
\* With the budgets spent and everything in place, nothing is left to do.
CHECK_DEADLOCK FALSE
