\* Installation, with the receiver, on an empty cluster and over version 3.5: the
\* domain comes late, and cert-manager is there or comes late too.
SPECIFICATION Spec
CONSTANTS
  MaxGen = 1
  Enabled <- MCOnly
  RacmHub = TRUE
  MayDelete = FALSE
  Starts = {"empty", "upgrade"}
  CertStarts = {"none", "watched"}
  DomainKnown = FALSE
  Tampered = {}
  MaxTampers = 0
  MaxFaults = 1
INVARIANTS
  TypeOK
  NoLostWakeUp
  OldReaderGone
\* With the budgets spent and everything in place, nothing is left to do.
CHECK_DEADLOCK FALSE
