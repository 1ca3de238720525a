------------------------ MODULE OperandReconcileProofs ------------------------
(***************************************************************************)
(* Theorems about OperandReconcile.  The types are right for every value   *)
(* of the constants.  That no wake-up is lost is so as long as there is    *)
(* one resource of the controller's kind: two ask for the same objects.    *)
(***************************************************************************)
EXTENDS OperandReconcile, TLAPS

\* The steps do not depend on the controller, which stays what it is.
LEMMA StepNames ==
  /\ DOMAIN After = Kinds \cup {"defaultStatus", "status"}
  /\ DOMAIN After' = Kinds \cup {"defaultStatus", "status"}
  /\ Kinds \cap {"defaultStatus", "status", "idle"} = {}
BY DEF After, Kinds

LEMMA AfterType ==
  ASSUME controller \in {"ui", "report"}, pc \in DOMAIN After, pc \in Kinds => pc \in Kept[controller]
  PROVE  /\ After[pc] \in DOMAIN After \cup {"idle"}
         /\ After[pc] \in Kinds => After[pc] \in Kept[controller]
BY DEF After, Kinds, Kept

LEMMA BuiltType ==
  ASSUME NEW k \in Kinds, NEW c \in Crs, NEW g \in Generations
  PROVE  Built(k, c, g) \in Object /\ Built(k, c, g) # Absent
BY ResourcesAssumption DEF Built, Object, Absent, Owners, Generations

LEMMA AbsentType == Absent \in Object
BY ResourcesAssumption DEF Absent, Object, Owners

LEMMA UpdatedType ==
  ASSUME NEW found \in Object, NEW new \in Object
  PROVE  Updated(found, new) \in Object
BY DEF Updated, Object

LEMMA EditedCrType ==
  ASSUME NEW r \in CustomResource
  PROVE  /\ \A g \in Generations : [r EXCEPT !.gen = g] \in CustomResource
         /\ [r EXCEPT !.live = FALSE] \in CustomResource
         /\ \A s \in Statuses : [r EXCEPT !.status = s] \in CustomResource
BY DEF CustomResource

ClusterTypeOK ==
  server \in [Kinds -> Object] /\ cache \in [Kinds -> Object] /\ stale \in SUBSET Kinds

CrTypeOK ==
  /\ crs \in [Crs -> CustomResource] /\ crCache \in [Crs -> CustomResource]
  /\ crStale \in SUBSET Crs

RunTypeOK ==
  /\ me \in IF pc = "idle" THEN Owners ELSE Crs
  /\ inst \in CustomResource /\ instFresh \in BOOLEAN /\ needToRequeue \in BOOLEAN

StepTypeOK ==
  /\ queue \in SUBSET Crs /\ certs \in {"none", "unwatched", "watched"}
  /\ pc \in DOMAIN After \cup {"idle"} /\ (pc \in Kinds => pc \in Kept[controller])

LEMMA TypeParts ==
  TypeOK <=> /\ controller \in {"ui", "report"} /\ ClusterTypeOK /\ CrTypeOK /\ RunTypeOK /\ StepTypeOK
             /\ tampers \in 0..MaxDisturbances /\ faults \in 0..MaxDisturbances
BY DEF TypeOK, ClusterTypeOK, CrTypeOK, RunTypeOK, StepTypeOK

LEMMA TypePartsNext ==
  ASSUME controller' = controller, controller \in {"ui", "report"},
         ClusterTypeOK', CrTypeOK', RunTypeOK', StepTypeOK',
         tampers' \in 0..MaxDisturbances, faults' \in 0..MaxDisturbances
  PROVE  TypeOK'
BY DEF TypeOK, ClusterTypeOK, CrTypeOK, RunTypeOK, StepTypeOK

LEMMA WriteType ==
  ASSUME ClusterTypeOK, NEW k \in Kinds, NEW o \in Object, Write(k, o)
  PROVE  ClusterTypeOK'
BY DEF ClusterTypeOK, Write

LEMMA WriteCrType ==
  ASSUME CrTypeOK, NEW c \in Crs, NEW r \in CustomResource, WriteCr(c, r)
  PROVE  CrTypeOK'
BY DEF CrTypeOK, WriteCr

LEMMA Counted ==
  ASSUME TypeOK, MayDisturb
  PROVE  tampers + 1 \in 0..MaxDisturbances /\ faults + 1 \in 0..MaxDisturbances
BY ResourcesAssumption DEF TypeOK, MayDisturb

\* In a run, what it builds for the object of its step has its type.
LEMMA NewType ==
  ASSUME TypeOK, pc \in Kinds
  PROVE  /\ pc \in Kept[controller] /\ me \in Crs /\ inst.gen \in Generations
         /\ Built(pc, me, inst.gen) \in Object /\ Built(pc, me, inst.gen) # Absent
         /\ Updated(cache[pc], Built(pc, me, inst.gen)) \in Object
<1>1. pc \in Kept[controller] /\ me \in Crs /\ inst.gen \in Generations /\ cache[pc] \in Object
  BY DEF TypeOK, CustomResource, Kinds
<1> QED
  BY <1>1, BuiltType, UpdatedType

-----------------------------------------------------------------------------
(* Type correctness.                                                       *)

LEMMA InitType == Init => TypeOK
<1> SUFFICES ASSUME Init PROVE TypeOK
  OBVIOUS
<1>1. /\ [live |-> TRUE, gen |-> 1, status |-> "unset"] \in CustomResource
      /\ [live |-> TRUE, gen |-> 1, status |-> "old"] \in CustomResource
  BY ResourcesAssumption DEF CustomResource, Statuses, Generations
<1>2. 0 \in 0..MaxDisturbances
  BY ResourcesAssumption
<1>3. server \in [Kinds -> Object] /\ crs \in [Crs -> CustomResource]
  <2>1. ASSUME NEW c \in Crs PROVE Older(c) \in [Kinds -> Object]
    <3>1. \A k \in Kinds : Built(k, c, 1) \in Object
      BY BuiltType, ResourcesAssumption DEF Generations
    <3>2. \A k \in Kinds : [Built(k, c, 1) EXCEPT !.gen = 0] \in Object
      BY <3>1, ResourcesAssumption DEF Object
    <3> QED
      BY <3>2, AbsentType DEF Older
  <2> QED
    BY <1>1, <2>1, AbsentType DEF Init
<1>4. controller \in {"ui", "report"} /\ certs \in {"none", "unwatched", "watched"}
  BY ResourcesAssumption DEF Init
<1> QED
  BY <1>1, <1>2, <1>3, <1>4, StepNames DEF Init, TypeOK, Owners

LEMMA TypeStep == TypeOK /\ [Next]_vars => TypeOK'
<1> SUFFICES ASSUME TypeOK, [Next]_vars PROVE TypeOK'
  OBVIOUS
<1>0. /\ controller \in {"ui", "report"} /\ ClusterTypeOK /\ CrTypeOK /\ RunTypeOK /\ StepTypeOK
      /\ tampers \in 0..MaxDisturbances /\ faults \in 0..MaxDisturbances
  BY TypeParts
<1> USE DEF clusterVars, crVars, runVars
<1>1. CASE StartReconcile
  <2>1. "defaultStatus" \notin Kinds /\ "Service" \in Kept[controller]
        /\ {"defaultStatus", "Service"} \subseteq DOMAIN After
    BY <1>0, ResourcesAssumption DEF Kinds, Kept, After
  <2>2. StepTypeOK' /\ RunTypeOK'
    <3>1. CASE UNCHANGED <<pc, runVars>> /\ queue' \subseteq queue
      BY <1>0, <1>1, <3>1, StepNames DEF StartReconcile, StepTypeOK, RunTypeOK
    <3>2. ASSUME NEW c \in Crs, me' = c, inst' = crCache[c], instFresh' = (c \notin crStale),
                 needToRequeue' = FALSE, pc' \in {"defaultStatus", "Service"},
                 queue' \subseteq queue
          PROVE  StepTypeOK' /\ RunTypeOK'
      BY <1>0, <1>1, <2>1, <3>2, StepNames DEF StartReconcile, StepTypeOK, RunTypeOK, CrTypeOK
    <3> QED
      BY <1>0, <1>1, <3>1, <3>2 DEF StartReconcile, StepTypeOK
  <2> QED
    BY <1>0, <1>1, <2>2, TypePartsNext DEF StartReconcile, ClusterTypeOK, CrTypeOK
<1>2. CASE SetDefaultStatus
  <2>1. /\ After["defaultStatus"] = "Service" /\ "Service" \in Kept[controller]
        /\ "Service" \in DOMAIN After
    BY <1>0, ResourcesAssumption, StepNames DEF Kept, After, Kinds
  <2>2. StepTypeOK' /\ me' \in Crs
    BY <1>0, <1>2, <2>1, StepNames
    DEF SetDefaultStatus, StatusRefused, Again, StepTypeOK, RunTypeOK
  <2>3. CrTypeOK' /\ inst' \in CustomResource /\ instFresh' \in BOOLEAN
    <3>1. ASSUME NEW s \in {"old", "current"}, PutStatus(s)
          PROVE  CrTypeOK' /\ inst' \in CustomResource /\ instFresh' \in BOOLEAN
      <4>1. me \in Crs /\ s \in Statuses /\ crs[me] \in CustomResource
        BY <1>2 DEF SetDefaultStatus, TypeOK, Statuses
      <4> QED
        BY <1>0, <3>1, <4>1, EditedCrType, WriteCrType DEF PutStatus, RunTypeOK
    <3>2. CASE StatusRefused
      BY <1>0, <3>2 DEF StatusRefused, CrTypeOK, RunTypeOK
    <3> QED
      BY <1>2, <3>1, <3>2 DEF SetDefaultStatus
  <2> QED
    BY <1>0, <1>2, <2>2, <2>3, TypePartsNext DEF SetDefaultStatus, RunTypeOK, ClusterTypeOK, Owners
<1>3. CASE CreateObject
  <2>1. ClusterTypeOK'
    BY <1>0, <1>3, NewType, WriteType DEF CreateObject, ClusterTypeOK
  <2>2. StepTypeOK' /\ RunTypeOK'
    BY <1>0, <1>3, NewType, AfterType, StepNames DEF CreateObject, StepTypeOK, RunTypeOK, Owners
  <2> QED
    BY <1>0, <1>3, <2>1, <2>2, TypePartsNext DEF CreateObject, CrTypeOK
<1>4. CASE KeepObject
  <2>1. StepTypeOK' /\ RunTypeOK'
    BY <1>0, <1>4, NewType, AfterType, StepNames DEF KeepObject, StepTypeOK, RunTypeOK, Owners
  <2> QED
    BY <1>0, <1>4, <2>1, TypePartsNext DEF KeepObject, ClusterTypeOK, CrTypeOK
<1>5. CASE UpdateObject
  <2>1. ClusterTypeOK'
    BY <1>0, <1>5, NewType, WriteType DEF UpdateObject, ClusterTypeOK
  <2>2. StepTypeOK' /\ RunTypeOK'
    BY <1>0, <1>5, NewType, AfterType, StepNames
    DEF UpdateObject, Again, StepTypeOK, RunTypeOK, Owners
  <2> QED
    BY <1>0, <1>5, <2>1, <2>2, TypePartsNext DEF UpdateObject, CrTypeOK
<1>6. CASE UpdateStatus
  <2>1. me \in Crs /\ After["status"] = "idle"
    BY <1>0, <1>6 DEF UpdateStatus, RunTypeOK, After
  <2>2. StepTypeOK' /\ me' \in Crs
    BY <1>0, <1>6, <2>1, StepNames DEF UpdateStatus, StatusRefused, Again, StepTypeOK
  <2>3. CrTypeOK' /\ inst' \in CustomResource /\ instFresh' \in BOOLEAN
    <3>1. CASE PutStatus("current")
      <4>1. "current" \in Statuses /\ crs[me] \in CustomResource
        BY <1>0, <2>1 DEF CrTypeOK, Statuses
      <4> QED
        BY <1>0, <2>1, <3>1, <4>1, EditedCrType, WriteCrType DEF PutStatus, RunTypeOK
    <3>2. CASE UNCHANGED <<crVars, inst, instFresh>>
      BY <1>0, <3>2 DEF CrTypeOK, RunTypeOK
    <3> QED
      BY <1>6, <3>1, <3>2 DEF UpdateStatus, StatusRefused
  <2> QED
    BY <1>0, <1>6, <2>2, <2>3, TypePartsNext DEF UpdateStatus, RunTypeOK, ClusterTypeOK, Owners
<1>7. CASE CallFails
  <2>1. me \in Crs
    BY <1>0, <1>7 DEF CallFails, RunTypeOK
  <2>2. ClusterTypeOK'
    BY <1>0, <1>7, NewType, WriteType DEF CallFails, ClusterTypeOK
  <2>3. CrTypeOK' /\ instFresh' \in BOOLEAN
    <3>1. ASSUME NEW s \in {"old", "current"}, WriteCr(me, [crs[me] EXCEPT !.status = s])
          PROVE  CrTypeOK'
      <4>1. s \in Statuses /\ crs[me] \in CustomResource
        BY <1>0, <2>1 DEF CrTypeOK, Statuses
      <4> QED
        BY <1>0, <2>1, <3>1, <4>1, EditedCrType, WriteCrType
    <3> QED
      BY <1>0, <1>7, <3>1 DEF CallFails, CrTypeOK, RunTypeOK
  <2> QED
    BY <1>0, <1>7, <2>1, <2>2, <2>3, TypePartsNext, Counted, StepNames
    DEF CallFails, Again, StepTypeOK, RunTypeOK, Owners
<1>8. CASE Resync \/ Restart
  <2>1. queue' \in SUBSET Crs
    BY <1>0, <1>8 DEF Resync, Restart, Listed, StepTypeOK
  <2> QED
    BY <1>0, <1>8, <2>1, TypePartsNext, Counted, StepNames
    DEF Resync, Restart, StepTypeOK, RunTypeOK, ClusterTypeOK, CrTypeOK, Owners
<1>9. CASE EditCr
  <2>1. CrTypeOK'
    <3>1. PICK c \in Crs : crs[c].gen < MaxGen /\ WriteCr(c, [crs[c] EXCEPT !.gen = @ + 1])
      BY <1>9 DEF EditCr
    <3>2. crs[c] \in CustomResource /\ crs[c].gen + 1 \in Generations
      BY <1>0, <3>1, ResourcesAssumption DEF CrTypeOK, CustomResource, Generations
    <3> QED
      BY <1>0, <3>1, <3>2, EditedCrType, WriteCrType
  <2> QED
    BY <1>0, <1>9, <2>1, TypePartsNext, StepNames DEF EditCr, StepTypeOK, RunTypeOK, ClusterTypeOK
<1>10. CASE DeleteCr
  <2>1. CrTypeOK'
    <3>1. PICK c \in Crs : WriteCr(c, [crs[c] EXCEPT !.live = FALSE])
      BY <1>10, ResourcesAssumption DEF DeleteCr
    <3> QED
      BY <1>0, <3>1, EditedCrType, WriteCrType DEF CrTypeOK
  <2> QED
    BY <1>0, <1>10, <2>1, TypePartsNext, Counted, StepNames
    DEF DeleteCr, StepTypeOK, RunTypeOK, ClusterTypeOK
<1>11. CASE Tamper
  <2>1. ClusterTypeOK'
    <3>1. PICK k \in Tampered : Write(k, Absent) \/ Write(k, [server[k] EXCEPT !.gen = 0])
      BY <1>11 DEF Tamper
    <3>2. k \in Kinds /\ [server[k] EXCEPT !.gen = 0] \in Object
      BY <1>0, ResourcesAssumption DEF ClusterTypeOK, Kinds, Object
    <3> QED
      BY <1>0, <3>1, <3>2, AbsentType, WriteType
  <2> QED
    BY <1>0, <1>11, <2>1, TypePartsNext, Counted, StepNames
    DEF Tamper, StepTypeOK, RunTypeOK, CrTypeOK
<1>12. CASE CollectGarbage
  <2>1. ClusterTypeOK'
    BY <1>0, <1>12, AbsentType, WriteType DEF CollectGarbage
  <2> QED
    BY <1>0, <1>12, <2>1, TypePartsNext, StepNames DEF CollectGarbage, StepTypeOK, RunTypeOK, CrTypeOK
<1>13. ASSUME NEW k \in Kinds, Sync(k) PROVE TypeOK'
  <2>1. ClusterTypeOK'
    BY <1>0, <1>13 DEF Sync, ClusterTypeOK
  <2>2. queue' \in SUBSET Crs
    BY <1>0, <1>13 DEF Sync, ClusterTypeOK, StepTypeOK, Object, Owners
  <2> QED
    BY <1>0, <1>13, <2>1, <2>2, TypePartsNext, StepNames DEF Sync, StepTypeOK, RunTypeOK, CrTypeOK
<1>14. ASSUME NEW c \in Crs, SyncCr(c) PROVE TypeOK'
  <2>1. CrTypeOK' /\ queue' \in SUBSET Crs
    BY <1>0, <1>14 DEF SyncCr, CrTypeOK, StepTypeOK
  <2> QED
    BY <1>0, <1>14, <2>1, TypePartsNext, StepNames DEF SyncCr, StepTypeOK, RunTypeOK, ClusterTypeOK
<1>15. CASE CertificatesUnserved
  BY <1>0, <1>15, TypePartsNext, StepNames
  DEF CertificatesUnserved, Again, StepTypeOK, RunTypeOK, ClusterTypeOK, CrTypeOK, Kinds, Owners
<1>16. CASE InstallCertManager
  BY <1>0, <1>16, TypePartsNext, StepNames
  DEF InstallCertManager, StepTypeOK, RunTypeOK, ClusterTypeOK, CrTypeOK
<1>17. CASE UNCHANGED vars
  BY <1>0, <1>17, TypePartsNext, StepNames
  DEF vars, StepTypeOK, RunTypeOK, ClusterTypeOK, CrTypeOK
<1> QED
  BY <1>1, <1>2, <1>3, <1>4, <1>5, <1>6, <1>7, <1>8, <1>9, <1>10, <1>11, <1>12, <1>13,
     <1>14, <1>15, <1>16, <1>17
  DEF Next, Reconcile

\* Every variable has its type in every reachable state.
THEOREM TypeCorrect == Spec => []TypeOK
BY InitType, TypeStep, PTL DEF Spec

-----------------------------------------------------------------------------
(* Versions and owners.                                                    *)

\* A copy with the server's version is the server's object.
FreshObjects == \A k \in Kinds \ stale : cache[k] = server[k]

FreshResources ==
  /\ \A c \in Crs \ crStale : crCache[c] = crs[c]
  /\ instFresh => me \in Crs /\ inst = crs[me]

\* An object that is there has an owner, whoever wrote it last.
AllOwned ==
  \A k \in Kinds :
    /\ server[k] # Absent => server[k].owner \in Crs
    /\ cache[k] # Absent => cache[k].owner \in Crs

\* Nobody has a Certificate before the cluster serves them.
NoneUnserved ==
  certs = "none" => server["Certificate"] = Absent /\ cache["Certificate"] = Absent

CopiesInv == FreshObjects /\ FreshResources /\ AllOwned /\ NoneUnserved

OwnedObject == {o \in Object : o # Absent => o.owner \in Crs}

LEMMA OwnedWrites ==
  ASSUME TypeOK, AllOwned
  PROVE  /\ Absent \in OwnedObject
         /\ \A k \in Kinds : server[k] # Absent => [server[k] EXCEPT !.gen = 0] \in OwnedObject
         /\ pc \in Kinds => Built(pc, me, inst.gen) \in OwnedObject
         /\ pc \in Kinds /\ cache[pc] # Absent =>
              Updated(cache[pc], Built(pc, me, inst.gen)) \in OwnedObject
<1>1. Absent \in OwnedObject
  BY AbsentType DEF OwnedObject
<1>2. ASSUME NEW k \in Kinds, server[k] # Absent
      PROVE  [server[k] EXCEPT !.gen = 0] \in OwnedObject
  <2>1. server[k] \in Object /\ server[k].owner \in Crs /\ 0 \in 0..MaxGen
    BY <1>2, ResourcesAssumption DEF TypeOK, AllOwned
  <2> QED
    BY <2>1 DEF OwnedObject, Object
<1>3. ASSUME pc \in Kinds PROVE Built(pc, me, inst.gen) \in OwnedObject
  BY <1>3, NewType DEF OwnedObject, Built
<1>4. ASSUME pc \in Kinds, cache[pc] # Absent
      PROVE  Updated(cache[pc], Built(pc, me, inst.gen)) \in OwnedObject
  <2>1. Built(pc, me, inst.gen) \in Object /\ cache[pc].owner \in Crs
    BY <1>4, NewType DEF AllOwned
  <2>2. Updated(cache[pc], Built(pc, me, inst.gen)).owner = cache[pc].owner
    BY <2>1 DEF Updated, Object
  <2> QED
    BY <1>4, <2>1, <2>2, NewType DEF OwnedObject
<1> QED
  BY <1>1, <1>2, <1>3, <1>4

\* What a step does to the objects and their cached copies.
LEMMA ClusterSteps ==
  ASSUME TypeOK, AllOwned, NoneUnserved, [Next]_vars
  PROVE  \/ UNCHANGED clusterVars
         \/ \E k \in Kinds, o \in OwnedObject : Write(k, o) /\ (k = "Certificate" => certs # "none")
         \/ \E k \in Kinds : Sync(k)
<1> DEFINE new == Built(pc, me, inst.gen)
<1> DEFINE updated == Updated(cache[pc], new)
<1>1. /\ Absent \in OwnedObject
      /\ \A k \in Kinds : server[k] # Absent => [server[k] EXCEPT !.gen = 0] \in OwnedObject
      /\ pc \in Kinds => new \in OwnedObject
      /\ pc \in Kinds /\ cache[pc] # Absent => updated \in OwnedObject
  BY OwnedWrites
<1>2. /\ CreateObject => /\ pc \in Kinds /\ (pc = "Certificate" => certs # "none")
                         /\ UNCHANGED clusterVars \/ Write(pc, new)
      /\ UpdateObject => pc \in Kinds /\ cache[pc] # Absent
                         /\ (UNCHANGED clusterVars \/ Write(pc, updated))
      /\ CallFails => /\ pc = "Certificate" => certs # "none"
                      /\ \/ UNCHANGED clusterVars
                         \/ pc \in Kinds /\ Write(pc, new)
                         \/ pc \in Kinds /\ cache[pc] # Absent /\ Write(pc, updated)
  BY DEF CreateObject, UpdateObject, CallFails
<1> HIDE DEF new, updated
<1>3. CASE CreateObject \/ UpdateObject \/ CallFails
  BY <1>1, <1>2, <1>3 DEF NoneUnserved
<1>4. CASE Tamper \/ CollectGarbage
  BY <1>1, <1>4, ResourcesAssumption DEF Tamper, CollectGarbage, Kinds, NoneUnserved
<1> QED
  BY <1>3, <1>4
  DEF Next, CertificatesUnserved, InstallCertManager, Reconcile, StartReconcile, SetDefaultStatus, KeepObject, UpdateStatus, Resync,
      Restart, EditCr, DeleteCr, SyncCr, vars, clusterVars

\* What a step does to the service of Certificates and their watch.
LEMMA CertsSteps ==
  ASSUME TypeOK, [Next]_vars
  PROVE  certs' = certs \/ InstallCertManager \/ Restart
BY DEF Next, Reconcile, StartReconcile, SetDefaultStatus, CreateObject, CertificatesUnserved, KeepObject,
       UpdateObject, UpdateStatus, CallFails, Resync, EditCr, DeleteCr, Tamper, CollectGarbage,
       Sync, SyncCr, vars

LEMMA StaysServed ==
  ASSUME TypeOK, [Next]_vars
  PROVE  certs' = "none" => certs = "none"
BY CertsSteps DEF InstallCertManager, Restart

\* What a step does to the resources and their copies.
LEMMA CrSteps ==
  ASSUME TypeOK, [Next]_vars
  PROVE  \/ UNCHANGED <<crVars, me, inst, instFresh>>
         \/ UNCHANGED crVars /\ ~instFresh'
         \/ /\ \E c \in Crs, r \in CustomResource :
                 WriteCr(c, r) /\ (instFresh' => instFresh /\ me # c)
            /\ UNCHANGED <<me, inst>>
         \/ me \in Crs /\ (\E s : PutStatus(s)) /\ UNCHANGED me
         \/ UNCHANGED crVars /\ me' \in Crs /\ inst' = crCache[me'] /\ instFresh' = (me' \notin crStale)
         \/ UNCHANGED <<me, inst, instFresh>> /\ \E c \in Crs : SyncCr(c)
<1> USE DEF crVars, runVars
<1>0. crs \in [Crs -> CustomResource] /\ queue \in SUBSET Crs /\ (pc # "idle" => me \in Crs)
  BY DEF TypeOK
<1>1. CASE StartReconcile
  BY <1>0, <1>1 DEF StartReconcile
<1>2. CASE SetDefaultStatus \/ UpdateStatus
  BY <1>0, <1>2 DEF SetDefaultStatus, UpdateStatus, StatusRefused
<1>3. CASE CreateObject \/ KeepObject \/ UpdateObject
  BY <1>3 DEF CreateObject, KeepObject, UpdateObject
<1>4. CASE EditCr
  <2>1. PICK c \in Crs : /\ crs[c].gen < MaxGen
                         /\ WriteCr(c, [crs[c] EXCEPT !.gen = @ + 1])
                         /\ instFresh' = (instFresh /\ me # c)
    BY <1>4 DEF EditCr
  <2>2. [crs[c] EXCEPT !.gen = @ + 1] \in CustomResource
    BY <1>0, <2>1, ResourcesAssumption DEF CustomResource, Generations
  <2> QED
    BY <1>4, <2>1, <2>2 DEF EditCr
<1>5. CASE DeleteCr
  <2>1. PICK c \in Crs : /\ WriteCr(c, [crs[c] EXCEPT !.live = FALSE])
                         /\ instFresh' = (instFresh /\ me # c)
    BY <1>5, ResourcesAssumption DEF DeleteCr
  <2>2. [crs[c] EXCEPT !.live = FALSE] \in CustomResource
    BY <1>0, EditedCrType
  <2> QED
    BY <1>5, <2>1, <2>2 DEF DeleteCr
<1>6. CASE CallFails
  <2>1. CASE UNCHANGED <<crVars, instFresh>>
    BY <1>6, <2>1 DEF CallFails
  <2>2. ASSUME NEW s \in {"old", "current"}, WriteCr(me, [crs[me] EXCEPT !.status = s]), ~instFresh'
        PROVE  \E c \in Crs, r \in CustomResource :
                 WriteCr(c, r) /\ (instFresh' => instFresh /\ me # c)
    <3>1. me \in Crs /\ s \in Statuses
      BY <1>0, <1>6 DEF CallFails, Statuses
    <3>2. [crs[me] EXCEPT !.status = s] \in CustomResource
      BY <1>0, <3>1, EditedCrType
    <3> QED
      BY <2>2, <3>1, <3>2
  <2> QED
    BY <1>6, <2>1, <2>2 DEF CallFails
<1> QED
  BY <1>1, <1>2, <1>3, <1>4, <1>5, <1>6
  DEF Next, Reconcile, CertificatesUnserved, InstallCertManager, Resync, Restart, Tamper,
      CollectGarbage, Sync, SyncCr, vars

LEMMA CopiesStep == TypeOK /\ CopiesInv /\ [Next]_vars => CopiesInv'
<1> SUFFICES ASSUME TypeOK, FreshObjects, FreshResources, AllOwned, NoneUnserved, [Next]_vars
             PROVE  FreshObjects' /\ FreshResources' /\ AllOwned' /\ NoneUnserved'
  BY DEF CopiesInv
<1>0. /\ server \in [Kinds -> Object] /\ cache \in [Kinds -> Object]
      /\ crs \in [Crs -> CustomResource] /\ crCache \in [Crs -> CustomResource]
  BY DEF TypeOK
<1>1. FreshObjects' /\ AllOwned' /\ NoneUnserved'
  <2>0. certs' = "none" => certs = "none"
    BY StaysServed
  <2>1. CASE UNCHANGED clusterVars
    BY <2>0, <2>1 DEF clusterVars, FreshObjects, AllOwned, NoneUnserved
  <2>2. ASSUME NEW k \in Kinds, NEW o \in OwnedObject, Write(k, o), k = "Certificate" => certs # "none"
        PROVE  FreshObjects' /\ AllOwned' /\ NoneUnserved'
    BY <1>0, <2>0, <2>2 DEF Write, FreshObjects, AllOwned, OwnedObject, NoneUnserved
  <2>3. ASSUME NEW k \in Kinds, Sync(k)
        PROVE  FreshObjects' /\ AllOwned' /\ NoneUnserved'
    BY <1>0, <2>0, <2>3 DEF Sync, FreshObjects, AllOwned, NoneUnserved, Kinds
  <2> QED
    BY <2>1, <2>2, <2>3, ClusterSteps
<1>2. FreshResources'
  <2>1. CASE UNCHANGED <<crVars, me, inst, instFresh>>
    BY <2>1 DEF crVars, FreshResources
  <2>2. CASE UNCHANGED crVars /\ ~instFresh'
    BY <2>2 DEF crVars, FreshResources
  <2>3. ASSUME NEW c \in Crs, NEW r \in CustomResource, WriteCr(c, r),
               instFresh' => instFresh /\ me # c, UNCHANGED <<me, inst>>
        PROVE  FreshResources'
    BY <1>0, <2>3 DEF WriteCr, FreshResources
  <2>4. ASSUME NEW s, PutStatus(s), me \in Crs, UNCHANGED me
        PROVE  FreshResources'
    BY <1>0, <2>4 DEF PutStatus, WriteCr, FreshResources
  <2>5. CASE UNCHANGED crVars /\ me' \in Crs /\ inst' = crCache[me'] /\ instFresh' = (me' \notin crStale)
    BY <2>5 DEF crVars, FreshResources
  <2>6. ASSUME NEW c \in Crs, SyncCr(c), UNCHANGED <<me, inst, instFresh>>
        PROVE  FreshResources'
    BY <1>0, <2>6 DEF SyncCr, FreshResources
  <2>7. CASE UNCHANGED <<me, inst>> /\ \E c \in Crs, r \in CustomResource :
               WriteCr(c, r) /\ (instFresh' => instFresh /\ me # c)
    BY <2>3, <2>7
  <2>8. CASE me \in Crs /\ (\E s : PutStatus(s)) /\ UNCHANGED me
    BY <2>4, <2>8
  <2>9. CASE UNCHANGED <<me, inst, instFresh>> /\ \E c \in Crs : SyncCr(c)
    BY <2>6, <2>9
  <2> QED
    BY <2>1, <2>2, <2>5, <2>7, <2>8, <2>9, CrSteps
<1> QED
  BY <1>1, <1>2

\* The marks mean what they say, and every object has an owner, whoever wrote it
\* last: what the informers' events enqueue for.
LEMMA CopiesInvariant == Spec => []CopiesInv
<1>1. ASSUME Init PROVE CopiesInv
  <2>1. \A c \in Crs, k \in Kinds : Older(c)[k] # Absent => Older(c)[k].owner = c
    BY DEF Older, Built
  <2>2. AllOwned
    BY <1>1, <2>1 DEF Init, AllOwned
  <2>3. NoneUnserved
    <3> SUFFICES ASSUME certs = "none" PROVE server["Certificate"] = Absent
      BY <1>1 DEF Init, NoneUnserved
    <3>1. CASE server = [k \in Kinds |-> Absent]
      BY <3>1 DEF Kinds
    <3>2. CASE controller = "report" /\ \E c \in Crs : server = Older(c)
      BY <3>2 DEF Older, Kinds, Kept
    <3> QED
      BY <1>1, <3>1, <3>2, ResourcesAssumption DEF Init
  <2> QED
    BY <1>1, <2>2, <2>3 DEF Init, CopiesInv, FreshObjects, FreshResources
<1> QED
  BY <1>1, TypeCorrect, CopiesStep, PTL DEF Spec

-----------------------------------------------------------------------------
(* One resource: no wake-up is lost.                                       *)

\* The steps in their order; a controller skips those that are not its own.
Position ==
  [ defaultStatus |-> 1, Service |-> 2, Deployment |-> 3, Ingress |-> 4, Certificate |-> 5,
    APIService |-> 6, status |-> 7, idle |-> 8 ]

\* The run is past the step of an object, or over.
Handled(k) == Position[k] < Position[pc]

\* No request for the resource c, which is there.
Quiet(c) == queue = {} /\ crCache[c].live

\* The run is for the cached generation and, unless an event will tell of a
\* newer one, the cached status; when it has ended, that is the current one.
ActsForCached(c) ==
  /\ pc # "idle" => /\ inst.gen = crCache[c].gen
                    /\ c \in crStale \/ inst.status = crCache[c].status
  /\ pc = "idle" => c \in crStale \/ crCache[c].status = "current"

\* What the run has handled without creating it is in the cache, as the cached
\* generation asks for it or soon to change, with an event for the owner.
HandledInCache(c) ==
  pc = "idle" \/ ~needToRequeue =>
    \A k \in Kept[controller] \cap Watched : Handled(k) =>
      cache[k] # Absent /\ (k \in stale \/ cache[k] = Built(k, c, crCache[c].gen))

\* The run has got past the Certificates only where they are served.
PastCertificates ==
  controller = "ui" /\ certs = "none" => pc \notin {"status", "idle"}

WakeUpInv(c) == Quiet(c) => ActsForCached(c) /\ HandledInCache(c) /\ PastCertificates

\* The last of a controller's objects, the one that may not be watched; what is
\* asked of it, and what an older operator made of it.
Last == IF controller = "report" THEN "APIService" ELSE "Certificate"
Asked(c) == Built(Last, c, 1)
MadeBefore(c) == [Asked(c) EXCEPT !.gen = 0]

LastInCache(c) ==
  /\ cache[Last] \in {Absent, MadeBefore(c), Asked(c)}
  /\ server[Last] \in {cache[Last], Asked(c)}

LastMade(c) ==
  pc = "status" \/ (pc = "idle" /\ queue = {}) => server[Last] = Asked(c)

\* As long as others write nothing, that object is at most what an older
\* operator made of it until the run gets there, and from then on what the only
\* resource asks for.
LastInv(c) ==
  tampers = 0 => crs[c].live /\ crCache[c].live /\ LastInCache(c) /\ LastMade(c)

-----------------------------------------------------------------------------
(* The steps of the only resource's runs, and the invariants.              *)

\* What is handled after the step of an object was handled before, or is it.
LEMMA HandledNext ==
  ASSUME TypeOK, pc \in Kinds, pc' = After[pc], NEW k \in Kept[controller]
  PROVE  Handled(k)' => Handled(k) \/ k = pc
<1>1. pc \in Kept[controller] /\ controller \in {"ui", "report"}
  BY ResourcesAssumption DEF TypeOK
<1> QED
  BY <1>1 DEF Handled, Position, After, Kinds, Kept

LEMMA NothingHandled ==
  ASSUME pc' \in {"defaultStatus", "Service"}, NEW k \in Kinds
  PROVE  ~Handled(k)'
BY DEF Handled, Position, Kinds

LEMMA AllHandled ==
  ASSUME pc \in {"status", "idle"}, NEW k \in Kinds
  PROVE  Handled(k)
BY DEF Handled, Position, Kinds

LEMMA KeptKinds ==
  ASSUME TypeOK
  PROVE  Kept[controller] \subseteq Kinds
BY DEF TypeOK, Kept, Kinds

\* A step that leaves the queue and the run alone, and the cached copies, and
\* brings none of them up to date.
LEMMA Unaffected ==
  ASSUME NEW c, WakeUpInv(c),
         UNCHANGED <<controller, certs, queue, pc, inst, needToRequeue, crCache, cache>>,
         stale \subseteq stale', crStale \subseteq crStale'
  PROVE  WakeUpInv(c)'
BY DEF WakeUpInv, Quiet, ActsForCached, HandledInCache, Handled, PastCertificates, Watched

\* The run goes on after the step of an object, which it has found or made what
\* the resource asks for, or it asks for another run.
LEMMA GoesOn ==
  ASSUME NEW c, TypeOK, WakeUpInv(c), pc \in Kinds, pc' = After[pc],
         UNCHANGED <<controller, certs, queue, inst, crCache, crStale, cache>>,
         pc = "Certificate" => certs # "none",
         stale \subseteq stale', ~needToRequeue' => ~needToRequeue,
         Quiet(c) /\ ~needToRequeue' =>
           cache[pc] # Absent /\ (pc \in stale' \/ cache[pc] = Built(pc, c, crCache[c].gen))
  PROVE  WakeUpInv(c)'
<1> SUFFICES ASSUME Quiet(c)' PROVE ActsForCached(c)' /\ HandledInCache(c)' /\ PastCertificates'
  BY DEF WakeUpInv
<1>1. Quiet(c)
  BY DEF Quiet
<1>2. pc # "idle" /\ pc' # "idle"
  BY DEF Kinds, After
<1>3. ActsForCached(c)'
  BY <1>1, <1>2 DEF WakeUpInv, ActsForCached
<1>4. HandledInCache(c)'
  <2> SUFFICES ASSUME ~needToRequeue', NEW k \in Kept[controller] \cap Watched, Handled(k)'
               PROVE  cache[k] # Absent /\ (k \in stale' \/ cache[k] = Built(k, c, crCache[c].gen))
    BY <1>2 DEF HandledInCache, Watched
  <2>1. CASE k = pc
    BY <1>1, <2>1
  <2>2. CASE Handled(k)
    BY <1>1, <2>2 DEF WakeUpInv, HandledInCache
  <2> QED
    BY <2>1, <2>2, HandledNext
<1>5. PastCertificates'
  BY <1>2 DEF PastCertificates, After, TypeOK, Kept
<1> QED
  BY <1>3, <1>4, <1>5

LEMMA WakeUpStep ==
  ASSUME NEW c, Crs = {c}, TypeOK, CopiesInv, WakeUpInv(c), [Next]_vars
  PROVE  WakeUpInv(c)'
<1>0. /\ queue \in SUBSET {c} /\ (pc # "idle" => me = c)
      /\ server \in [Kinds -> Object] /\ cache \in [Kinds -> Object]
      /\ crs \in [{c} -> CustomResource] /\ crCache \in [{c} -> CustomResource]
      /\ crStale \in SUBSET {c}
  BY DEF TypeOK
<1> USE DEF clusterVars, crVars, runVars
<1>1. ASSUME Again, pc # "idle" PROVE WakeUpInv(c)'
  BY <1>0, <1>1 DEF Again, WakeUpInv, Quiet
<1>2. CASE StartReconcile
  <2> SUFFICES ASSUME Quiet(c)' PROVE ActsForCached(c)' /\ HandledInCache(c)' /\ PastCertificates'
    BY DEF WakeUpInv
  <2>1. /\ me' = c /\ inst' = crCache[c] /\ pc' \in {"defaultStatus", "Service"}
        /\ UNCHANGED <<controller, certs, crVars, clusterVars>>
    BY <1>0, <1>2 DEF StartReconcile, Quiet
  <2>2. ActsForCached(c)'
    BY <2>1 DEF ActsForCached
  <2>3. HandledInCache(c)'
    BY <2>1, NothingHandled, KeptKinds DEF HandledInCache
  <2>4. PastCertificates'
    BY <2>1 DEF PastCertificates
  <2> QED
    BY <2>2, <2>3, <2>4
<1>3. CASE SetDefaultStatus
  <2>1. ASSUME NEW s, PutStatus(s), pc' = After[pc], UNCHANGED queue
        PROVE  WakeUpInv(c)'
    <3> SUFFICES ASSUME Quiet(c)' PROVE ActsForCached(c)' /\ HandledInCache(c)' /\ PastCertificates'
      BY DEF WakeUpInv
    <3>1. /\ pc' = "Service" /\ crCache' = crCache /\ c \in crStale' /\ inst'.gen = inst.gen
          /\ controller' = controller
      BY <1>0, <1>3, <2>1 DEF SetDefaultStatus, PutStatus, WriteCr, After, TypeOK, CustomResource
    <3>2. ActsForCached(c)'
      BY <1>3, <2>1, <3>1 DEF WakeUpInv, ActsForCached, Quiet, SetDefaultStatus
    <3>3. HandledInCache(c)'
      BY <3>1, NothingHandled, KeptKinds DEF HandledInCache
    <3>4. PastCertificates'
      BY <3>1 DEF PastCertificates
    <3> QED
      BY <3>2, <3>3, <3>4
  <2> QED
    BY <1>1, <1>3, <2>1 DEF SetDefaultStatus, StatusRefused
<1>4. CASE CreateObject
  BY <1>4, GoesOn DEF CreateObject, Write
<1>c. cache["Certificate"] # Absent => certs # "none"
  BY DEF CopiesInv, NoneUnserved
<1>5. CASE KeepObject
  <2>1. Quiet(c) => cache[pc] = Built(pc, c, crCache[c].gen)
    <3> SUFFICES ASSUME Quiet(c) PROVE cache[pc] = Built(pc, c, crCache[c].gen)
      OBVIOUS
    <3>1. pc \in Kinds /\ pc # "idle" /\ cache[pc].owner = c /\ me = c
      BY <1>0, <1>5 DEF KeepObject, Kinds, CopiesInv, AllOwned
    <3>2. inst.gen = crCache[c].gen
      BY <3>1 DEF WakeUpInv, ActsForCached
    <3>3. [cache[pc] EXCEPT !.owner = c] = Built(pc, c, crCache[c].gen)
      BY <1>5, <3>1, <3>2 DEF KeepObject, Equal, Built
    <3>4. [cache[pc] EXCEPT !.owner = c] = cache[pc]
      BY <1>0, <3>1 DEF Object
    <3> QED
      BY <3>3, <3>4
  <2> QED
    BY <1>5, <1>c, <2>1, GoesOn DEF KeepObject
<1>6. CASE UpdateObject
  BY <1>1, <1>6, <1>c, GoesOn DEF UpdateObject, Write, Kinds
<1>7. CASE UpdateStatus
  <2>1. ASSUME ~needToRequeue, pc' = "idle", UNCHANGED <<crCache, queue>>, inst'.gen = inst.gen,
               c \in crStale' \/ (inst.status = "current" /\ UNCHANGED <<crStale, inst>>)
        PROVE  WakeUpInv(c)'
    <3> SUFFICES ASSUME Quiet(c)' PROVE ActsForCached(c)' /\ HandledInCache(c)' /\ PastCertificates'
      BY DEF WakeUpInv
    <3>1. Quiet(c) /\ pc = "status" /\ UNCHANGED <<controller, certs, clusterVars, needToRequeue>>
      BY <1>7, <2>1 DEF Quiet, UpdateStatus
    <3>2. ActsForCached(c)'
      BY <2>1, <3>1 DEF WakeUpInv, ActsForCached
    <3>3. HandledInCache(c)'
      BY <2>1, <3>1, AllHandled, KeptKinds DEF WakeUpInv, HandledInCache, Watched
    <3>4. PastCertificates'
      BY <3>1 DEF WakeUpInv, PastCertificates
    <3> QED
      BY <3>2, <3>3, <3>4
  <2>2. After["status"] = "idle"
    BY DEF After
  <2>3. ASSUME PutStatus("current") PROVE c \in crStale' /\ crCache' = crCache /\ inst'.gen = inst.gen
    BY <1>0, <1>7, <2>3 DEF PutStatus, WriteCr, UpdateStatus, TypeOK, CustomResource
  <2> QED
    BY <1>1, <1>7, <2>1, <2>2, <2>3 DEF UpdateStatus, StatusRefused
<1>8. CASE CallFails
  BY <1>1, <1>8 DEF CallFails
<1>9. CASE Resync \/ Restart
  BY <1>9 DEF Resync, Restart, Listed, WakeUpInv, Quiet
<1>10. CASE EditCr \/ DeleteCr
  BY <1>10, Unaffected DEF EditCr, DeleteCr, WriteCr
<1>11. CASE Tamper \/ CollectGarbage
  BY <1>11, Unaffected DEF Tamper, CollectGarbage, Write
<1>12. ASSUME NEW k \in Kinds, Sync(k) PROVE WakeUpInv(c)'
  <2> SUFFICES ASSUME Quiet(c)' PROVE ActsForCached(c)' /\ HandledInCache(c)' /\ PastCertificates'
    BY DEF WakeUpInv
  <2>1. /\ Quiet(c) /\ UNCHANGED <<controller, certs, crVars, pc, runVars>>
        /\ k \in Watched => cache[k].owner = NoCr
        /\ cache' = [cache EXCEPT ![k] = server[k]] /\ stale' = stale \ {k}
    BY <1>12 DEF Quiet, Sync
  <2>2. k \in Watched => cache[k] = Absent
    BY <2>1, ResourcesAssumption DEF CopiesInv, AllOwned
  <2>3. ActsForCached(c)'
    BY <2>1 DEF WakeUpInv, ActsForCached
  <2>4. HandledInCache(c)'
    <3> SUFFICES ASSUME pc = "idle" \/ ~needToRequeue,
                        NEW j \in Kept[controller] \cap Watched, Handled(j)
                 PROVE  cache'[j] # Absent /\ (j \in stale' \/ cache'[j] = Built(j, c, crCache[c].gen))
      BY <2>1 DEF HandledInCache, Handled, Watched
    <3>1. cache[j] # Absent /\ (j \in stale \/ cache[j] = Built(j, c, crCache[c].gen))
      BY <2>1 DEF WakeUpInv, HandledInCache
    <3>2. j # k
      BY <2>2, <3>1, KeptKinds
    <3> QED
      BY <1>0, <2>1, <3>1, <3>2, KeptKinds
  <2>5. PastCertificates'
    BY <2>1 DEF WakeUpInv, PastCertificates
  <2> QED
    BY <2>3, <2>4, <2>5
<1>13. ASSUME SyncCr(c) PROVE WakeUpInv(c)'
  BY <1>13 DEF SyncCr, WakeUpInv, Quiet
<1>14. CASE CertificatesUnserved
  BY <1>1, <1>14 DEF CertificatesUnserved, Kinds
<1>15. CASE InstallCertManager
  <2>1. Watched' = Watched /\ PastCertificates'
    BY <1>15 DEF InstallCertManager, Watched, PastCertificates
  <2> QED
    BY <1>15, <2>1
    DEF InstallCertManager, WakeUpInv, Quiet, ActsForCached, HandledInCache, Handled
<1>16. CASE UNCHANGED vars
  BY <1>16, Unaffected DEF vars
<1> QED
  BY <1>2, <1>3, <1>4, <1>5, <1>6, <1>7, <1>8, <1>9, <1>10, <1>11, <1>12, <1>13, <1>14,
     <1>15, <1>16
  DEF Next, Reconcile

\* While others write nothing, the resource stays, in the cache too.
LEMMA StaysLive ==
  ASSUME NEW c, Crs = {c}, TypeOK, [Next]_vars, tampers' = 0, crs[c].live, crCache[c].live
  PROVE  tampers = 0 /\ controller' = controller /\ crs'[c].live /\ crCache'[c].live
<1>0. /\ crs \in [{c} -> CustomResource] /\ tampers \in Nat /\ (pc # "idle" => me = c)
  BY DEF TypeOK
<1> USE DEF crVars
<1>1. CASE Reconcile
  BY <1>0, <1>1
  DEF Reconcile, StartReconcile, SetDefaultStatus, StatusRefused, PutStatus, WriteCr, CreateObject,
      CertificatesUnserved, KeepObject, UpdateObject, UpdateStatus, CustomResource
<1>2. CASE CallFails
  BY <1>0, <1>2 DEF CallFails, WriteCr, CustomResource
<1>3. CASE EditCr
  BY <1>0, <1>3 DEF EditCr, WriteCr, CustomResource
<1>4. CASE DeleteCr \/ Tamper
  BY <1>0, <1>4 DEF DeleteCr, Tamper
<1>5. CASE Resync \/ Restart \/ CollectGarbage
  BY <1>5 DEF Resync, Restart, CollectGarbage
<1>6. ASSUME NEW k \in Kinds, Sync(k)
      PROVE  tampers = 0 /\ controller' = controller /\ crs'[c].live /\ crCache'[c].live
  BY <1>6 DEF Sync
<1>7. CASE SyncCr(c)
  BY <1>0, <1>7 DEF SyncCr
<1>8. CASE InstallCertManager
  BY <1>8 DEF InstallCertManager
<1>9. CASE UNCHANGED vars
  BY <1>9 DEF vars
<1> QED
  BY <1>1, <1>2, <1>3, <1>4, <1>5, <1>6, <1>7, <1>8, <1>9 DEF Next

LEMMA LastStep ==
  ASSUME NEW c, Crs = {c}, TypeOK, CopiesInv, LastInv(c), [Next]_vars
  PROVE  LastInv(c)'
<1>p. PICK last, asked, before : last = Last /\ asked = Asked(c) /\ before = MadeBefore(c)
  OBVIOUS
<1> DEFINE Objects == cache[last] \in {Absent, before, asked} /\ server[last] \in {cache[last], asked}
<1> DEFINE Made == pc = "status" \/ (pc = "idle" /\ queue = {}) => server[last] = asked
<1> SUFFICES ASSUME tampers' = 0
             PROVE  crs'[c].live /\ crCache'[c].live /\ LastInCache(c)' /\ LastMade(c)'
  BY DEF LastInv
<1>1. tampers = 0 /\ controller' = controller
  BY DEF Next, Reconcile, StartReconcile, SetDefaultStatus, StatusRefused, PutStatus, CreateObject,
      CertificatesUnserved, KeepObject, UpdateObject, UpdateStatus, CallFails, Resync, Restart,
      EditCr, DeleteCr, Tamper, CollectGarbage, InstallCertManager, Sync, SyncCr, vars, TypeOK
<1>0. /\ queue \in SUBSET {c} /\ (pc # "idle" => me = c) /\ pc \in DOMAIN After \cup {"idle"}
      /\ server \in [Kinds -> Object] /\ cache \in [Kinds -> Object]
      /\ last \in Kinds /\ last # "Deployment" /\ last \notin {"idle", "status", "defaultStatus"}
  BY <1>p DEF TypeOK, Kinds, Last
<1>2. crs[c].live /\ crCache[c].live /\ Objects /\ Made
  BY <1>1, <1>p DEF LastInv, LastInCache, LastMade
<1>3. crs'[c].live /\ crCache'[c].live
  BY <1>1, <1>2, StaysLive
<1>4. pc # "idle" => Built(last, me, inst.gen) = asked
  BY <1>0, <1>p DEF Built, Asked
<1>s. /\ asked # Absent /\ Equal(asked, asked)
      /\ before # asked /\ ~Equal(before, asked) /\ Updated(before, asked) = asked
  <2>1. asked = [owner |-> c, selects |-> asked.selects, gen |-> 1]
    BY <1>0, <1>p DEF Asked, Built
  <2>2. before = [owner |-> c, selects |-> asked.selects, gen |-> 0]
    BY <1>p, <2>1 DEF MadeBefore
  <2>3. c # NoCr
    BY ResourcesAssumption
  <2> QED
    BY <2>1, <2>2, <2>3 DEF Absent, Equal, Updated
<1>u. Last' = Last /\ Asked(c)' = Asked(c) /\ MadeBefore(c)' = MadeBefore(c)
  BY <1>1 DEF Last, Asked, MadeBefore, Built
<1> SUFFICES Objects' /\ Made'
  BY <1>3, <1>p, <1>u DEF LastInCache, LastMade
\* The steps of the other objects do not touch it, and a run does not end with them.
<1>5. pc \in Kinds \ {last} => After[pc] \notin {"status", "idle"}
  BY <1>p DEF After, Kinds, Kept, TypeOK, Last
<1>6. After[last] = "status" /\ After["defaultStatus"] = "Service" /\ After["status"] = "idle"
  BY <1>p DEF After, Last
<1> USE DEF clusterVars, crVars, runVars
<1>7. ASSUME Again, pc # "idle" PROVE pc' = "idle" /\ queue' # {}
  BY <1>0, <1>7 DEF Again
<1>8. CASE StartReconcile
  BY <1>0, <1>2, <1>8 DEF StartReconcile
<1>9. CASE SetDefaultStatus
  BY <1>0, <1>2, <1>6, <1>7, <1>9 DEF SetDefaultStatus, StatusRefused
<1>10. CASE CreateObject
  <2>1. CASE pc = last
    BY <1>0, <1>2, <1>4, <1>6, <1>10, <2>1 DEF CreateObject, Write
  <2>2. CASE pc # last
    BY <1>0, <1>2, <1>5, <1>10, <2>2 DEF CreateObject, Write
  <2> QED
    BY <2>1, <2>2
<1>11. CASE KeepObject
  <2>1. pc = last => server[last] = asked
    BY <1>0, <1>2, <1>4, <1>s, <1>11 DEF KeepObject
  <2> QED
    BY <1>0, <1>2, <1>5, <1>11, <2>1 DEF KeepObject
<1>12. CASE UpdateObject
  <2>1. pc = last => Updated(cache[pc], Built(pc, me, inst.gen)) = asked
    BY <1>0, <1>2, <1>4, <1>12, <1>s DEF UpdateObject
  <2>2. CASE Write(pc, Updated(cache[pc], Built(pc, me, inst.gen))) /\ pc' = After[pc]
    BY <1>0, <1>2, <1>5, <1>12, <2>1, <2>2 DEF UpdateObject, Write
  <2>3. CASE Again /\ UNCHANGED clusterVars
    BY <1>0, <1>2, <1>7, <1>12, <2>3 DEF UpdateObject, Kinds
  <2> QED
    BY <1>12, <2>2, <2>3 DEF UpdateObject
<1>13. CASE UpdateStatus
  BY <1>0, <1>2, <1>6, <1>7, <1>13 DEF UpdateStatus, StatusRefused
<1>14. CASE CallFails
  <2>1. CASE UNCHANGED clusterVars
    BY <1>0, <1>2, <1>7, <1>14, <2>1 DEF CallFails
  <2>2. CASE pc \in Kinds /\ Write(pc, Built(pc, me, inst.gen)) /\ cache[pc] = Absent
    BY <1>0, <1>2, <1>4, <1>7, <1>14, <2>2 DEF CallFails, Write
  <2>3. CASE /\ pc \in Kinds /\ cache[pc] # Absent /\ ~Equal(cache[pc], Built(pc, me, inst.gen))
             /\ Write(pc, Updated(cache[pc], Built(pc, me, inst.gen)))
    <3>1. pc = last => Updated(cache[pc], Built(pc, me, inst.gen)) = asked
      BY <1>0, <1>2, <1>4, <1>s, <2>3
    <3> QED
      BY <1>0, <1>2, <1>7, <1>14, <2>3, <3>1 DEF CallFails, Write
  <2> QED
    BY <1>14, <2>1, <2>2, <2>3 DEF CallFails
<1>15. CASE Resync \/ Restart
  BY <1>0, <1>2, <1>15 DEF Resync, Restart, Listed
<1>16. CASE EditCr \/ DeleteCr
  BY <1>2, <1>16 DEF EditCr, DeleteCr
<1>17. CASE Tamper
  BY <1>1, <1>17 DEF Tamper
<1>18. CASE CollectGarbage
  <2>1. PICK k \in Kinds : server[k] # Absent /\ ~crs[server[k].owner].live /\ Write(k, Absent)
    BY <1>18 DEF CollectGarbage
  <2>2. server[k].owner = c
    BY <2>1 DEF CopiesInv, AllOwned
  <2> QED
    BY <1>2, <2>1, <2>2
<1>19. ASSUME NEW k \in Kinds, Sync(k) PROVE Objects' /\ Made'
  <2>1. server' = server /\ pc' = pc /\ (queue' = {} => queue = {})
        /\ cache' = [cache EXCEPT ![k] = server[k]]
    BY <1>19 DEF Sync
  <2> QED
    BY <1>0, <1>2, <2>1
<1>20. ASSUME SyncCr(c) PROVE Objects' /\ Made'
  BY <1>0, <1>2, <1>20 DEF SyncCr
<1>21. CASE CertificatesUnserved
  BY <1>0, <1>2, <1>7, <1>21 DEF CertificatesUnserved, Kinds
<1>22. CASE InstallCertManager
  BY <1>2, <1>22 DEF InstallCertManager
<1>23. CASE UNCHANGED vars
  BY <1>2, <1>23 DEF vars
<1> QED
  BY <1>3, <1>8, <1>9, <1>10, <1>11, <1>12, <1>13, <1>14, <1>15, <1>16, <1>17, <1>18, <1>19,
     <1>20, <1>21, <1>22, <1>23
  DEF Next, Reconcile

\* As long as there is one resource of the controller's kind, no wake-up of it
\* is lost, whatever it goes through: edits, its deletion, failed calls, resyncs
\* and restarts, cert-manager not yet or no longer watched, and others who edit or
\* delete its objects.  When the controller sleeps next to the live resource, its
\* watched objects are there as asked for, its status is the current one, and what
\* is not watched is there too if others have written nothing.
THEOREM NoLostWakeUpCorrect ==
  ASSUME NEW CONSTANT c, Crs = {c}
  PROVE  Spec => []NoLostWakeUp
<1>1. ASSUME Init PROVE WakeUpInv(c) /\ LastInv(c)
  <2>1. WakeUpInv(c)
    BY <1>1 DEF Init, WakeUpInv, Quiet
  <2>2. controller \in {"ui", "report"} /\ pc = "idle" /\ queue = {c} /\ cache = server
        /\ (server = [k \in Kinds |-> Absent] \/ server = Older(c))
        /\ crs[c].live /\ crCache = crs
    BY <1>1, ResourcesAssumption DEF Init
  <2>3. server[Last] \in {Absent, MadeBefore(c)}
    BY <2>2 DEF Older, Last, MadeBefore, Asked, Kinds, Kept
  <2> QED
    BY <2>1, <2>2, <2>3 DEF LastInv, LastInCache, LastMade
<1>2. TypeOK /\ CopiesInv /\ WakeUpInv(c) /\ LastInv(c) /\ [Next]_vars => WakeUpInv(c)' /\ LastInv(c)'
  BY WakeUpStep, LastStep
<1>3. TypeOK /\ CopiesInv /\ WakeUpInv(c) /\ LastInv(c) => NoLostWakeUp
  <2> SUFFICES ASSUME TypeOK, CopiesInv, WakeUpInv(c), LastInv(c), Asleep, crs[c].live
               PROVE  /\ CanComplete /\ Served(c) /\ crs[c].status = "current"
                      /\ tampers = 0 =>
                           \A k \in Kept[controller] \ Watched : server[k] = Built(k, c, 1)
    BY DEF NoLostWakeUp
  <2>1. crCache[c] = crs[c] /\ c \notin crStale /\ Quiet(c) /\ pc = "idle"
    BY DEF Asleep, CopiesInv, FreshResources, Quiet
  <2>2. ActsForCached(c) /\ HandledInCache(c) /\ PastCertificates
    BY <2>1 DEF WakeUpInv
  <2>3. Served(c)
    <3> SUFFICES ASSUME NEW k \in Kept[controller] \cap Watched
                 PROVE  server[k] = Built(k, c, crs[c].gen)
      BY DEF Served
    <3>1. k \in Kinds /\ k \notin stale
      BY KeptKinds DEF Asleep
    <3>2. server[k] = cache[k]
      BY <3>1 DEF CopiesInv, FreshObjects
    <3> QED
      BY <2>1, <2>2, <3>1, <3>2, AllHandled DEF HandledInCache
  <2>4. crs[c].status = "current" /\ CanComplete
    BY <2>1, <2>2 DEF ActsForCached, PastCertificates, CanComplete
  <2>5. ASSUME tampers = 0, NEW k \in Kept[controller] \ Watched PROVE server[k] = Built(k, c, 1)
    <3>1. k = Last
      BY DEF TypeOK, Kept, Watched, Last
    <3> QED
      BY <2>1, <2>5, <3>1 DEF Asleep, LastInv, LastMade, Asked
  <2> QED
    BY <2>3, <2>4, <2>5
<1> QED
  BY <1>1, <1>2, <1>3, TypeCorrect, CopiesInvariant, PTL DEF Spec

=============================================================================
