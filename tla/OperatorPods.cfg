\* Two roll-outs and three faults; a pod for each of them and the first.
SPECIFICATION FairSpec
CONSTANTS
  MaxPods = 6
  MaxRollouts = 2
  MaxFaults = 3
INVARIANTS
  OneReconciles
PROPERTIES
  EventuallyRolledOut
\* Once rolled out, nothing is left to do.
CHECK_DEADLOCK FALSE
