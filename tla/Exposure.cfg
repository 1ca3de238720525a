\* Any two changes to the objects of an operand, its resource or its surroundings.
SPECIFICATION Spec
CONSTANTS
  Operands = {"metering", "ui", "mcmui", "report"}
  Issuers = {"", "own"}
  Domains = {"", "a", "b"}
  RouteEdits = {"labels", "host", "name", "termination"}
  MaxChanges = 2
INVARIANTS
  Restored
  RunsSettle
  NothingRefused
  Reachable
  CertificatesCover
PROPERTIES
  OthersKept
\* The changes by others are limited.
CHECK_DEADLOCK FALSE
