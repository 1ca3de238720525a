---------------------------- MODULE MeteringProofs ----------------------------
(***************************************************************************)
(* Theorems about Metering, for every value of its constants: types and the *)
(* end of the DaemonSet of version 3.5; and what versions say of contents,  *)
(* on which the proofs of other theorems rest.                              *)
(***************************************************************************)
EXTENDS Metering, TLAPS

ClusterTypeOK ==
  /\ server \in [Objects -> Contents] /\ cache \in [Objects -> Contents]
  /\ stale \in SUBSET Objects

LEMMA AfterType == \A p \in DOMAIN After : After[p] \in DOMAIN After \cup {"idle"}
BY DEF After

LEMMA StepsAndObjects ==
  /\ Always \cup Receiver \cup {"receiverSecret", "daemonSet"} = Objects
  /\ Objects \cup {"defaultStatus", "lookup", "status"} = DOMAIN After
BY DEF Always, Receiver, Objects, KindOf, After

LEMMA BuiltType == \A o, g, host : Built(o, g, host) \in Contents \ {"absent", "edited"}
BY DEF Built, Contents

LEMMA WriteType ==
  ASSUME ClusterTypeOK, NEW o \in Objects, NEW c \in Contents, Write(o, c)
  PROVE  ClusterTypeOK'
BY DEF ClusterTypeOK, Write

LEMMA EnsureType ==
  ASSUME TypeOK, NEW o \in Objects, pc \in Objects, Ensure(o)
  PROVE  /\ ClusterTypeOK' /\ pc' \in DOMAIN After \cup {"idle"}
         /\ queued' \in BOOLEAN /\ needToRequeue' \in BOOLEAN
<1> DEFINE new == Built(o, inst.gen, routeHost)
<1>1. new \in Contents
  BY BuiltType
<1>2. ClusterTypeOK
  BY DEF TypeOK, ClusterTypeOK
<1>3. After[pc] \in DOMAIN After \cup {"idle"}
  BY AfterType, StepsAndObjects
<1>4. Write(o, new) => ClusterTypeOK'
  BY <1>1, <1>2, WriteType
<1>5. UNCHANGED clusterVars => ClusterTypeOK'
  BY <1>2 DEF clusterVars, ClusterTypeOK
<1> HIDE DEF new
<1>6. /\ Write(o, new) \/ UNCHANGED clusterVars
      /\ pc' \in {After[pc], "idle"} /\ queued' \in {queued, TRUE}
      /\ needToRequeue' \in {needToRequeue, TRUE}
  BY DEF Ensure, Again, new
<1> QED
  BY <1>3, <1>4, <1>5, <1>6 DEF TypeOK

LEMMA RemoveType ==
  ASSUME TypeOK, NEW o \in Objects, Remove(o)
  PROVE  ClusterTypeOK' /\ faults' \in 0..MaxFaults
<1>1. faults < MaxFaults => faults + 1 \in 0..MaxFaults
  BY EnvironmentAssumption DEF TypeOK
<1>2. ClusterTypeOK
  BY DEF TypeOK, ClusterTypeOK
<1>3. Write(o, "absent") => ClusterTypeOK'
  BY <1>2, WriteType DEF Contents
<1>4. UNCHANGED clusterVars => ClusterTypeOK'
  BY <1>2 DEF clusterVars, ClusterTypeOK
<1> QED
  BY <1>1, <1>3, <1>4 DEF Remove, TypeOK

LEMMA PutStatusType ==
  ASSUME TypeOK, NEW s \in Statuses, PutStatus(s)
  PROVE  /\ cr' \in CustomResource /\ crCache' \in CustomResource /\ inst' \in CustomResource
         /\ crFresh' \in BOOLEAN /\ instFresh' \in BOOLEAN
BY DEF TypeOK, CustomResource, PutStatus

-----------------------------------------------------------------------------
(* Type correctness.                                                       *)

LEMMA FaultCounted ==
  ASSUME TypeOK, faults < MaxFaults
  PROVE  faults + 1 \in 0..MaxFaults
BY EnvironmentAssumption DEF TypeOK

LEMMA InitType == Init => TypeOK
<1> SUFFICES ASSUME Init PROVE TypeOK
  OBVIOUS
<1>1. 1 \in Generations
  BY GenerationsAssumption DEF Generations
<1>2. cr \in CustomResource
  BY <1>1 DEF Init, CustomResource, Statuses
<1>3. Installed \in [Objects -> Contents]
  BY BuiltType DEF Installed, Contents
<1>4. server \in [Objects -> Contents]
  BY <1>3 DEF Init, Contents
<1>5. 0 \in 0..MaxTampers /\ 0 \in 0..MaxFaults
  BY EnvironmentAssumption
<1>6. certs \in {"none", "unwatched", "watched"} /\ domain \in BOOLEAN
  BY EnvironmentAssumption DEF Init
<1> QED
  BY <1>2, <1>4, <1>5, <1>6 DEF Init, TypeOK

LEMMA TypeStep == TypeOK /\ [Next]_vars => TypeOK'
<1> SUFFICES ASSUME TypeOK, [Next]_vars PROVE TypeOK'
  OBVIOUS
<1>0. ClusterTypeOK
  BY DEF TypeOK, ClusterTypeOK
<1> USE DEF crVars, runVars, surroundings
<1>1. CASE StartReconcile
  BY <1>1, StepsAndObjects DEF StartReconcile, TypeOK, clusterVars
<1>2. CASE SetDefaultStatus
  <2>1. \A s \in {"old", "current"} : s \in Statuses
    BY DEF Statuses
  <2>2. pc' \in DOMAIN After \cup {"idle"} /\ queued' \in BOOLEAN
    BY <1>2, AfterType DEF SetDefaultStatus, StatusRefused, Again, TypeOK
  <2>3. /\ cr' \in CustomResource /\ crCache' \in CustomResource /\ inst' \in CustomResource
        /\ crFresh' \in BOOLEAN /\ instFresh' \in BOOLEAN
    <3>1. CASE \E s \in {"old", "current"} : PutStatus(s)
      BY <2>1, <3>1, PutStatusType
    <3>2. CASE StatusRefused
      BY <3>2 DEF StatusRefused, TypeOK
    <3> QED
      BY <1>2, <3>1, <3>2 DEF SetDefaultStatus
  <2> QED
    BY <1>2, <2>2, <2>3 DEF SetDefaultStatus, TypeOK, clusterVars
<1>3. CASE Lookup
  BY <1>3, AfterType, FaultCounted, EnvironmentAssumption
  DEF Lookup, Again, TypeOK, clusterVars
<1>4. CASE EnsureObject
  <2>1. pc \in Objects
    BY <1>4, StepsAndObjects DEF EnsureObject, Always, Receiver
  <2>2. CASE Ensure(pc)
    BY <1>4, <2>1, <2>2, EnsureType DEF EnsureObject, TypeOK, ClusterTypeOK
  <2>3. CASE ~Ensure(pc)
    <3>1. /\ UNCHANGED <<clusterVars, needToRequeue>>
          /\ pc' \in {After[pc], "idle"} /\ queued' \in {queued, TRUE}
      BY <1>4, <2>3 DEF EnsureObject, Again
    <3>2. After[pc] \in DOMAIN After \cup {"idle"}
      BY <2>1, AfterType, StepsAndObjects
    <3> QED
      BY <1>4, <3>1, <3>2 DEF EnsureObject, TypeOK, clusterVars
  <2> QED
    BY <2>2, <2>3
<1>5. CASE RemoveReceiver
  <2>1. pc \in Objects
    BY <1>5, StepsAndObjects DEF RemoveReceiver
  <2>2. pc' \in DOMAIN After \cup {"idle"}
    BY <1>5, <2>1, AfterType, StepsAndObjects DEF RemoveReceiver
  <2>3. ClusterTypeOK' /\ faults' \in 0..MaxFaults
    BY <1>5, <2>1, <1>0, RemoveType, FaultCounted
    DEF RemoveReceiver, ClusterTypeOK, clusterVars
  <2> QED
    BY <1>5, <2>2, <2>3 DEF RemoveReceiver, TypeOK, ClusterTypeOK
<1>6. CASE RemoveReceiverSecret
  <2>1. ClusterTypeOK' /\ faults' \in 0..MaxFaults
    BY <1>6, StepsAndObjects, RemoveType DEF RemoveReceiverSecret
  <2> QED
    BY <1>6, <2>1, AfterType DEF RemoveReceiverSecret, TypeOK, ClusterTypeOK
<1>7. CASE CheckDaemonSet
  <2>1. ClusterTypeOK' /\ faults' \in 0..MaxFaults
    BY <1>7, StepsAndObjects, RemoveType DEF CheckDaemonSet
  <2> QED
    BY <1>7, <2>1, AfterType DEF CheckDaemonSet, Again, TypeOK, ClusterTypeOK
<1>8. CASE UpdateStatus
  <2>1. pc' \in DOMAIN After \cup {"idle"} /\ queued' \in BOOLEAN
    BY <1>8, AfterType DEF UpdateStatus, StatusRefused, Again, TypeOK
  <2>2. /\ cr' \in CustomResource /\ crCache' \in CustomResource /\ inst' \in CustomResource
        /\ crFresh' \in BOOLEAN /\ instFresh' \in BOOLEAN
    BY <1>8, PutStatusType DEF UpdateStatus, StatusRefused, Statuses, TypeOK
  <2> QED
    BY <1>8, <2>1, <2>2 DEF UpdateStatus, TypeOK, clusterVars
<1>9. CASE EnsureFails
  <2>1. pc \in Objects
    BY <1>9, StepsAndObjects DEF EnsureFails
  <2>2. \A o, g, host : Built(o, g, host) \in Contents
    BY BuiltType
  <2>3. ClusterTypeOK'
    BY <1>9, <1>0, <2>1, <2>2, WriteType DEF EnsureFails, ClusterTypeOK, clusterVars
  <2> QED
    BY <1>9, <2>3, FaultCounted DEF EnsureFails, Again, TypeOK, ClusterTypeOK
<1>10. CASE StatusFails
  <2>1. cr' \in CustomResource
    BY <1>10 DEF StatusFails, TypeOK, CustomResource, Statuses
  <2> QED
    BY <1>10, <2>1, FaultCounted DEF StatusFails, Again, TypeOK, clusterVars
<1>11. CASE Resync
  BY <1>11, FaultCounted DEF Resync, TypeOK, clusterVars
<1>12. CASE Restart
  BY <1>12, FaultCounted DEF Restart, Again, TypeOK, clusterVars
<1>13. CASE EditCr
  <2>1. cr.gen + 1 \in Generations
    BY <1>13, GenerationsAssumption DEF EditCr, Generations
  <2>2. cr' \in CustomResource
    BY <1>13, <2>1 DEF EditCr, TypeOK, CustomResource
  <2> QED
    BY <1>13, <2>2 DEF EditCr, TypeOK, clusterVars
<1>14. CASE DeleteCr
  <2>1. cr' \in CustomResource
    BY <1>14, GenerationsAssumption DEF DeleteCr, CustomResource, Statuses, Generations
  <2> QED
    BY <1>14, <2>1 DEF DeleteCr, TypeOK, clusterVars
<1>15. CASE CollectGarbage
  BY <1>15 DEF CollectGarbage, TypeOK, Owned, Contents
<1>16. CASE Tamper
  <2>1. ClusterTypeOK'
    BY <1>16, <1>0, WriteType, EnvironmentAssumption DEF Tamper, Contents
  <2>2. tampers' \in 0..MaxTampers
    BY <1>16, EnvironmentAssumption DEF Tamper, TypeOK
  <2> QED
    BY <1>16, <2>1, <2>2 DEF Tamper, TypeOK, ClusterTypeOK
<1>17. CASE StartIssuing
  BY <1>17 DEF StartIssuing, TypeOK, clusterVars
<1>18. CASE FinishIssuing
  <2>1. ClusterTypeOK'
    BY <1>18, <1>0, WriteType, StepsAndObjects DEF FinishIssuing, Contents
  <2> QED
    BY <1>18, <2>1 DEF FinishIssuing, TypeOK, ClusterTypeOK
<1>19. CASE SyncCr
  BY <1>19 DEF SyncCr, TypeOK, clusterVars
<1>20. ASSUME NEW k \in Kinds, Sync(k) PROVE TypeOK'
  <2>1. queued' \in BOOLEAN
    BY <1>20 DEF Sync
  <2> QED
    BY <1>20, <2>1 DEF Sync, TypeOK
<1>21. CASE InstallCertManager \/ LearnDomain
  BY <1>21 DEF InstallCertManager, LearnDomain, TypeOK, clusterVars
<1>22. CASE UNCHANGED vars
  BY <1>22 DEF vars, TypeOK, clusterVars
<1> QED
  BY <1>1, <1>2, <1>3, <1>4, <1>5, <1>6, <1>7, <1>8, <1>9, <1>10, <1>11, <1>12, <1>13,
     <1>14, <1>15, <1>16, <1>17, <1>18, <1>19, <1>20, <1>21, <1>22
  DEF Next, Reconcile, Issue

\* Every variable has its type in every reachable state.
THEOREM TypeCorrect == Spec => []TypeOK
BY InitType, TypeStep, PTL DEF Spec

-----------------------------------------------------------------------------
(* Versions.                                                               *)

\* A cached object that is not stale is the server's, and so is a fresh copy of
\* the resource: the version check of an update is a check on the content.
VersionsIdentify ==
  /\ \A o \in Objects \ stale : cache[o] = server[o]
  /\ crFresh => crCache = cr
  /\ instFresh => inst = cr

\* What a step does to the objects and their cached copies.
LEMMA ClusterSteps ==
  ASSUME TypeOK, [Next]_vars
  PROVE  \/ UNCHANGED clusterVars
         \/ \E o \in Objects, c \in Contents : Write(o, c)
         \/ CollectGarbage
         \/ \E k \in Kinds : Sync(k)
<1>1. \A o, g, host : Built(o, g, host) \in Contents
  BY BuiltType
<1>2. "absent" \in Contents /\ "edited" \in Contents /\ "basic" \in Contents
  BY DEF Contents
<1>3. CASE Reconcile
  <2>1. CASE EnsureObject
    <3> DEFINE new == Built(pc, inst.gen, routeHost)
    <3>1. pc \in Objects /\ new \in Contents
      BY <1>1, <2>1, StepsAndObjects DEF EnsureObject, Always, Receiver
    <3>2. Ensure(pc) => UNCHANGED clusterVars \/ Write(pc, new)
      BY DEF Ensure
    <3> HIDE DEF new
    <3> QED
      BY <2>1, <3>1, <3>2 DEF EnsureObject, clusterVars
  <2>2. CASE RemoveReceiver \/ RemoveReceiverSecret \/ CheckDaemonSet
    BY <1>2, <2>2, StepsAndObjects
    DEF RemoveReceiver, RemoveReceiverSecret, CheckDaemonSet, Remove, clusterVars
  <2> QED
    BY <1>3, <2>1, <2>2
    DEF Reconcile, StartReconcile, SetDefaultStatus, Lookup, UpdateStatus, clusterVars
<1>4. CASE EnsureFails
  BY <1>1, <1>4, StepsAndObjects DEF EnsureFails
<1>5. CASE Tamper
  BY <1>2, <1>5, EnvironmentAssumption DEF Tamper
<1>6. CASE Issue
  BY <1>2, <1>6, StepsAndObjects DEF Issue, StartIssuing, FinishIssuing
<1> QED
  BY <1>3, <1>4, <1>5, <1>6
  DEF Next, StatusFails, Resync, Restart, EditCr, DeleteCr, SyncCr, InstallCertManager,
      LearnDomain, vars, clusterVars

\* What a step does to the resource and its copies.
LEMMA CrSteps ==
  ASSUME [Next]_vars
  PROVE  \/ UNCHANGED <<crVars, inst, instFresh>>
         \/ UNCHANGED crVars /\ ~instFresh' /\ inst' = inst
         \/ ~crFresh' /\ ~instFresh' /\ UNCHANGED <<crCache, inst>>
         \/ \E s : PutStatus(s)
         \/ SyncCr
         \/ StartReconcile
<1> USE DEF crVars, runVars
<1>1. CASE Reconcile
  BY <1>1
  DEF Reconcile, SetDefaultStatus, StatusRefused, Lookup, EnsureObject, RemoveReceiver,
      RemoveReceiverSecret, CheckDaemonSet, UpdateStatus
<1>2. CASE EnsureFails \/ StatusFails \/ Resync \/ Restart
  BY <1>2 DEF EnsureFails, StatusFails, Resync, Restart
<1>3. CASE EditCr \/ DeleteCr \/ CollectGarbage \/ Tamper \/ Issue
  BY <1>3 DEF EditCr, DeleteCr, CollectGarbage, Tamper, Issue, StartIssuing, FinishIssuing
<1> QED
  BY <1>1, <1>2, <1>3 DEF Next, Sync, InstallCertManager, LearnDomain, vars

LEMMA VersionsStep == TypeOK /\ VersionsIdentify /\ [Next]_vars => VersionsIdentify'
<1> SUFFICES ASSUME TypeOK, VersionsIdentify, [Next]_vars PROVE VersionsIdentify'
  OBVIOUS
<1>1. \A o \in Objects \ stale' : cache'[o] = server'[o]
  <2>1. CASE UNCHANGED clusterVars
    BY <2>1 DEF clusterVars, VersionsIdentify
  <2>2. ASSUME NEW p \in Objects, NEW c \in Contents, Write(p, c)
        PROVE  \A o \in Objects \ stale' : cache'[o] = server'[o]
    BY <2>2 DEF Write, VersionsIdentify, TypeOK
  <2>3. CASE CollectGarbage
    BY <2>3 DEF CollectGarbage, VersionsIdentify, TypeOK
  <2>4. ASSUME NEW k \in Kinds, Sync(k)
        PROVE  \A o \in Objects \ stale' : cache'[o] = server'[o]
    BY <2>4 DEF Sync, VersionsIdentify, TypeOK
  <2> QED
    BY <2>1, <2>2, <2>3, <2>4, ClusterSteps
<1>2. (crFresh' => crCache' = cr') /\ (instFresh' => inst' = cr')
  <2>1. CASE SyncCr \/ StartReconcile
    BY <2>1 DEF SyncCr, StartReconcile, crVars, runVars, VersionsIdentify
  <2>2. ASSUME NEW s, PutStatus(s) PROVE ~crFresh' /\ inst' = cr'
    BY <2>2 DEF PutStatus, VersionsIdentify
  <2> QED
    BY <2>1, <2>2, CrSteps DEF crVars, VersionsIdentify
<1> QED
  BY <1>1, <1>2 DEF VersionsIdentify

LEMMA VersionsIdentifyAlways == Spec => []VersionsIdentify
<1>1. Init => VersionsIdentify
  BY DEF Init, VersionsIdentify
<1> QED
  BY <1>1, VersionsStep, TypeCorrect, PTL DEF Spec

-----------------------------------------------------------------------------
(* The DaemonSet of version 3.5.                                           *)

OldReaderLeft == server["daemonSet"] # "absent"

\* Before the first fault no run has reached the end, and the status is still
\* that of version 3.5; a run that did not remove the DaemonSet because of that
\* fault asked for another run, or has a status to write, whose event does.
OldReaderInv ==
  /\ cache["daemonSet"] = "absent" => ~OldReaderLeft
  /\ crCache.gen = 0 => cr.gen = 0
  /\ OldReaderLeft /\ faults = 0 =>
       /\ pc \notin {"status", "defaultStatus"}
       /\ cr.gen # 0 => cr.status = "old"
       /\ crCache.gen # 0 => crCache.status = "old"
       /\ pc # "idle" => inst.status = "old"
       /\ pc = "idle" => queued \/ crCache.gen = 0
  /\ OldReaderLeft /\ faults = 1 =>
       /\ pc = "status" => inst.status = "old"
       /\ pc = "idle" => queued \/ ~crFresh \/ crCache.gen = 0

\* A step that leaves the DaemonSet alone, takes no fault and leaves the
\* controller where it is.
LEMMA OldReaderUnaffected ==
  ASSUME OldReaderInv, UNCHANGED <<crVars, inst, faults, pc>>, queued => queued',
         server'["daemonSet"] = server["daemonSet"], cache'["daemonSet"] = cache["daemonSet"]
  PROVE  OldReaderInv'
BY DEF OldReaderInv, OldReaderLeft, crVars

\* A step of a run to another than the last, which leaves the DaemonSet alone.
LEMMA OldReaderGoesOn ==
  ASSUME TypeOK, OldReaderInv, UNCHANGED <<crVars, inst>>,
         faults' \in {faults, faults + 1}, pc' # "status",
         pc' = "idle" => queued', faults' # faults => pc # "idle",
         pc # "idle", pc' # "defaultStatus",
         server'["daemonSet"] = server["daemonSet"], cache'["daemonSet"] = cache["daemonSet"]
  PROVE  OldReaderInv'
BY DEF OldReaderInv, OldReaderLeft, crVars, TypeOK

\* Writes to other objects.
LEMMA OtherWritten ==
  ASSUME TypeOK, NEW o \in Objects \ {"daemonSet"}, NEW c, Write(o, c)
  PROVE  server'["daemonSet"] = server["daemonSet"] /\ cache'["daemonSet"] = cache["daemonSet"]
BY DEF TypeOK, Write

LEMMA OldReaderStep == TypeOK /\ OldReaderInv /\ [Next]_vars => OldReaderInv'
<1> SUFFICES ASSUME TypeOK, OldReaderInv, [Next]_vars PROVE OldReaderInv'
  OBVIOUS
<1> USE DEF crVars, runVars, clusterVars
<1>0. "daemonSet" \in Objects /\ faults \in Nat
  BY StepsAndObjects DEF TypeOK
<1>1. CASE StartReconcile
  BY <1>1 DEF StartReconcile, OldReaderInv, OldReaderLeft
<1>2. CASE SetDefaultStatus
  <2>1. cr'.gen = cr.gen /\ crCache' = crCache
    BY <1>2 DEF SetDefaultStatus, PutStatus, StatusRefused, TypeOK, CustomResource
  <2>2. pc' \in {"lookup", "idle"} /\ (pc' = "idle" => queued')
    BY <1>2 DEF SetDefaultStatus, StatusRefused, Again, After
  <2> QED
    BY <1>2, <2>1, <2>2 DEF SetDefaultStatus, OldReaderInv, OldReaderLeft
<1>3. CASE Lookup
  <2>1. pc' \in {"dmService", "idle"} /\ (pc' = "idle" => queued')
    BY <1>3 DEF Lookup, Again, After
  <2> QED
    BY <1>3, <2>1, OldReaderGoesOn DEF Lookup
<1>4. CASE EnsureObject
  <2>1. pc \in Always \cup Receiver
    BY <1>4 DEF EnsureObject, Always, Receiver
  <2>2. After[pc] \notin {"status", "defaultStatus", "idle"} /\ pc \in Objects \ {"daemonSet"}
    BY <2>1, StepsAndObjects DEF Always, Receiver, After
  <2>3. pc' \in {After[pc], "idle"} /\ (pc' = "idle" => queued')
    BY <1>4, <2>2 DEF EnsureObject, Ensure, Again
  <2>4. server'["daemonSet"] = server["daemonSet"] /\ cache'["daemonSet"] = cache["daemonSet"]
    BY <1>4, <2>2, OtherWritten DEF EnsureObject, Ensure
  <2> QED
    BY <1>4, <2>1, <2>2, <2>3, <2>4, OldReaderGoesOn DEF EnsureObject, Always, Receiver
<1>5. CASE RemoveReceiver \/ RemoveReceiverSecret
  <2>1. pc \in Receiver \cup {"receiverSecret"}
    BY <1>5 DEF RemoveReceiver, RemoveReceiverSecret
  <2>2. After[pc] \notin {"status", "defaultStatus", "idle"} /\ pc \in Objects \ {"daemonSet"}
    BY <2>1, StepsAndObjects DEF Receiver, After
  <2>3. pc' \in {After[pc], "receiverSecret"}
    BY <1>5 DEF RemoveReceiver, RemoveReceiverSecret
  <2>4. server'["daemonSet"] = server["daemonSet"] /\ cache'["daemonSet"] = cache["daemonSet"]
    BY <1>5, <2>2, OtherWritten DEF RemoveReceiver, RemoveReceiverSecret, Remove
  <2>5. faults' \in {faults, faults + 1}
    BY <1>5 DEF RemoveReceiver, RemoveReceiverSecret, Remove
  <2> QED
    BY <1>5, <2>1, <2>2, <2>3, <2>4, <2>5, OldReaderGoesOn
    DEF RemoveReceiver, RemoveReceiverSecret, Receiver
<1>6. CASE CheckDaemonSet
  <2>1. pc = "daemonSet" /\ pc' \in {"status", "idle"} /\ (pc' = "idle" => queued')
    BY <1>6 DEF CheckDaemonSet, Again, After
  <2>2. \/ ~OldReaderLeft'
        \/ OldReaderLeft /\ cache' = cache /\ faults' = faults + 1
    BY <1>0, <1>6 DEF CheckDaemonSet, Remove, Write, OldReaderInv, OldReaderLeft, TypeOK
  <2>3. ~OldReaderLeft' => OldReaderInv'
    BY <1>6 DEF CheckDaemonSet, OldReaderInv, OldReaderLeft
  <2> QED
    BY <1>0, <1>6, <2>1, <2>2, <2>3 DEF CheckDaemonSet, OldReaderInv, OldReaderLeft
<1>7. CASE UpdateStatus
  <2>1. cr'.gen = cr.gen /\ crCache' = crCache
    BY <1>7 DEF UpdateStatus, PutStatus, StatusRefused, TypeOK, CustomResource
  <2>2. pc' = "idle"
    BY <1>7 DEF UpdateStatus, StatusRefused, Again, After
  <2>3. inst.status = "old" => queued' \/ ~crFresh'
    BY <1>7 DEF UpdateStatus, PutStatus, StatusRefused, Again
  <2> QED
    BY <1>7, <2>1, <2>2, <2>3 DEF UpdateStatus, OldReaderInv, OldReaderLeft
<1>8. CASE EnsureFails
  <2>1. pc \in Objects \ {"daemonSet"}
    BY <1>8, StepsAndObjects DEF EnsureFails, Always, Receiver
  <2>2. server'["daemonSet"] = server["daemonSet"] /\ cache'["daemonSet"] = cache["daemonSet"]
    BY <1>8, <2>1, OtherWritten DEF EnsureFails
  <2> QED
    BY <1>8, <2>1, <2>2, OldReaderGoesOn, StepsAndObjects DEF EnsureFails, Again, Always, Receiver
<1>9. CASE StatusFails
  <2>1. cr'.gen = cr.gen
    BY <1>9 DEF StatusFails, TypeOK, CustomResource
  <2> QED
    BY <1>0, <1>9, <2>1 DEF StatusFails, Again, OldReaderInv, OldReaderLeft
<1>10. CASE Resync \/ Restart
  BY <1>0, <1>10 DEF Resync, Restart, Again, OldReaderInv, OldReaderLeft
<1>11. CASE EditCr
  <2>1. cr.gen # 0 /\ cr'.gen # 0 /\ cr'.status = cr.status
    BY <1>11, GenerationsAssumption DEF EditCr, TypeOK, CustomResource
  <2> QED
    BY <1>11, <2>1 DEF EditCr, OldReaderInv, OldReaderLeft
<1>12. CASE DeleteCr
  BY <1>12 DEF DeleteCr, OldReaderInv, OldReaderLeft
<1>13. CASE CollectGarbage
  <2>1. server'["daemonSet"] = server["daemonSet"]
    BY <1>0, <1>13 DEF CollectGarbage, Owned
  <2> QED
    BY <1>13, <2>1, OldReaderUnaffected DEF CollectGarbage
<1>14. CASE Tamper
  <2>1. OldReaderLeft' => OldReaderLeft
    BY <1>0, <1>14, EnvironmentAssumption DEF Tamper, Write, TypeOK, OldReaderLeft
  <2> QED
    BY <1>14, <2>1 DEF Tamper, Write, OldReaderInv
<1>15. CASE Issue
  <2>1. server'["daemonSet"] = server["daemonSet"] /\ cache'["daemonSet"] = cache["daemonSet"]
    BY <1>15, OtherWritten, StepsAndObjects DEF Issue, StartIssuing, FinishIssuing
  <2> QED
    BY <1>15, <2>1, OldReaderUnaffected DEF Issue, StartIssuing, FinishIssuing
<1>16. CASE SyncCr
  BY <1>16 DEF SyncCr, OldReaderInv, OldReaderLeft
<1>17. ASSUME NEW k \in Kinds, Sync(k) PROVE OldReaderInv'
  <2>1. cache'["daemonSet"] \in {cache["daemonSet"], server["daemonSet"]}
    BY <1>0, <1>17 DEF Sync
  <2>2. queued => queued'
    BY <1>17 DEF Sync
  <2> QED
    BY <1>17, <2>1, <2>2 DEF Sync, OldReaderInv, OldReaderLeft
<1>18. CASE InstallCertManager \/ LearnDomain
  BY <1>18, OldReaderUnaffected DEF InstallCertManager, LearnDomain
<1>19. CASE UNCHANGED vars
  BY <1>19, OldReaderUnaffected DEF vars
<1> QED
  BY <1>1, <1>2, <1>3, <1>4, <1>5, <1>6, <1>7, <1>8, <1>9, <1>10, <1>11, <1>12, <1>13,
     <1>14, <1>15, <1>16, <1>17, <1>18, <1>19
  DEF Next, Reconcile

\* Over version 3.5, the controller does not sleep before its DaemonSet is gone,
\* unless two calls have failed.
THEOREM OldReaderGoneCorrect == Spec => []OldReaderGone
<1>1. Init => OldReaderInv
  <2>1. "daemonSet" \in Objects
    BY StepsAndObjects
  <2>2. Installed["daemonSet"] = "absent"
    BY <2>1 DEF Installed
  <2>3. Init /\ OldReaderLeft => cr = [gen |-> 1, status |-> "old"]
    BY <2>1, <2>2 DEF Init, OldReaderLeft
  <2> QED
    BY <2>3 DEF Init, OldReaderInv, OldReaderLeft
<1>2. TypeOK /\ OldReaderInv => OldReaderGone
  BY DEF TypeOK, OldReaderInv, OldReaderLeft, OldReaderGone, Asleep
<1> QED
  BY <1>1, <1>2, OldReaderStep, TypeCorrect, PTL DEF Spec

=============================================================================
