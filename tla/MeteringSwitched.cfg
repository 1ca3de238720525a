\* The receiver is switched off and on again, while its Certificate is edited or
\* deleted once and a call fails.
SPECIFICATION FairSpec
CONSTANTS
  MaxGen = 3
  Enabled <- MCOffOn
  RacmHub = FALSE
  MayDelete = FALSE
  Starts = {"podsChanged"}
  CertStarts = {"watched"}
  DomainKnown = TRUE
  Tampered = {"receiverCert"}
  MaxTampers = 1
  MaxFaults = 1
INVARIANTS
  NoLostWakeUp
  RemovalComplete
  HostKept
PROPERTIES
  EventuallyInstalled
  EventuallyIdle
\* With the budgets spent and everything in place, nothing is left to do.
CHECK_DEADLOCK FALSE
