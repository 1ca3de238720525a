\* Everything others may write to the Deployment, in any state it may be found
\* in, against two generations: the resource is edited, deleted and created
\* again, pods come and go, a call fails or the operator restarts.
SPECIFICATION FairSpec
CONSTANTS
  MaxGen = 2
  CrReplicas <- MCCrReplicas2
  ScaledTo = {0, 1}
  RestartTimes = {t1}
  HeapSizes = {h1}
  NoLabel = NoLabel
  NoHeapSize = NoHeapSize
  Pods = {p1, p2}
  NoStatus = NoStatus
  OldStatus = OldStatus
  MaxEdits = 1
  MaxFaults = 1
INVARIANTS
  TypeOK
  GenerationsInOrder
  NoLostWakeUp
PROPERTIES
  ScaleToZeroRespected
  SettingsSurvive
  ImplementsContract
  EventuallyConverged
  EventuallyIdle
\* With the budgets spent and the resource gone, nothing is left to do.
CHECK_DEADLOCK FALSE
