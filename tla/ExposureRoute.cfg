\* Somebody changes the port of the Route.
SPECIFICATION Spec
CONSTANTS
  Operands = {"metering"}
  Issuers = {""}
  Domains = {"a"}
  RouteEdits = {"port"}
  MaxChanges = 1
INVARIANTS
  RouteRestored
\* The changes by others are limited.
CHECK_DEADLOCK FALSE
