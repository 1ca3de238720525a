------------------------ MODULE MeteringSenderProofs ------------------------
(***************************************************************************)
(* Theorems about MeteringSender, for every value of its constants.        *)
(***************************************************************************)
EXTENDS MeteringSender, FiniteSetTheorems, TLAPS

LEMMA DefaultStatusIsAPodList == DefaultStatus \in PodLists
<1>1. Cardinality({}) = 0
  BY FS_EmptySet
<1>2. DefaultStatus \in Orders({})
  BY <1>1 DEF DefaultStatus, Orders
<1> QED
  BY <1>2 DEF PodLists

LEMMA NewDeploymentType ==
  ASSUME NEW g \in Generations, NEW uid \in Nat
  PROVE  NewDeployment(g, uid) \in Deployment
BY BoundsAssumption DEF NewDeployment, Deployment, Generations, Replicas

LEMMA UpdatedDeploymentType ==
  ASSUME NEW old \in Deployment, NEW new \in Deployment
  PROVE  UpdatedDeployment(old, new) \in Deployment
BY DEF UpdatedDeployment, WithPreserved, Deployment

LEMMA NoDeploymentType == NoDeployment \in Deployment
BY BoundsAssumption DEF NoDeployment, Deployment

-----------------------------------------------------------------------------
(* Type correctness.                                                       *)

LEMMA StatusType ==
  /\ NoStatus \in Status /\ OldStatus \in Status /\ DefaultStatus \in Status
  /\ \A ps \in SUBSET Pods : Orders(ps) \subseteq Status
BY DefaultStatusIsAPodList DEF PodLists, Status

LEMMA EditedCrType ==
  ASSUME NEW c \in CustomResource
  PROVE  /\ \A g \in Generations : [c EXCEPT !.gen = g] \in CustomResource
         /\ \A b \in BOOLEAN : [c EXCEPT !.live = b] \in CustomResource
         /\ \A s \in Status : [c EXCEPT !.status = s] \in CustomResource
BY DEF CustomResource

LEMMA NextGeneration ==
  ASSUME TypeOK, cr.gen < MaxGen
  PROVE  cr.gen + 1 \in Generations
<1>1. cr.gen \in Generations
  BY DEF TypeOK, CustomResource
<1> QED
  BY <1>1, BoundsAssumption DEF Generations

LEMMA InitType == Init => TypeOK
<1> SUFFICES ASSUME Init PROVE TypeOK
  OBVIOUS
<1>1. cr \in CustomResource
  <2>1. 1 \in Generations
    BY BoundsAssumption DEF Generations
  <2> QED
    BY <2>1, StatusType DEF Init, CustomResource
<1>2. dep \in Deployment
  <2>1. CASE dep = NoDeployment
    BY <2>1, NoDeploymentType
  <2>2. CASE dep # NoDeployment
    <3>1. 1 \in Nat /\ 0 \in 0..MaxGen /\ ScaledTo \subseteq Nat
      BY BoundsAssumption
    <3> QED
      BY <2>2, <3>1 DEF Init, Deployment
  <2> QED
    BY <2>1, <2>2
<1>3. edits \in 0..MaxEdits /\ faults \in 0..MaxFaults
  BY BudgetAssumption DEF Init
<1> QED
  BY <1>1, <1>2, <1>3, NoDeploymentType DEF Init, TypeOK

\* A type-correct edit of a type-correct Deployment.
LEMMA EditsType ==
  ASSUME NEW d \in Deployment, NEW e \in EditsOf(d)
  PROVE  e \in Deployment
BY BoundsAssumption, NoDeploymentType DEF EditsOf, Deployment

\* The Deployment the handler builds, and the one it sends.
LEMMA WantedType == TypeOK => Wanted \in Deployment /\ UpdatedDeployment(cur, Wanted) \in Deployment
BY NewDeploymentType, UpdatedDeploymentType
DEF TypeOK, Wanted, CustomResource, Generations

LEMMA TypeStep == TypeOK /\ [Next]_vars => TypeOK'
<1> SUFFICES ASSUME TypeOK, [Next]_vars PROVE TypeOK'
  OBVIOUS
<1> USE DEF serverVars, cacheVars, runVars, WriteCr, WriteDep
<1>1. CASE EditCr
  BY <1>1, NextGeneration, EditedCrType DEF EditCr, TypeOK
<1>2. CASE DeleteCr
  BY <1>2, EditedCrType DEF DeleteCr, TypeOK
<1>3. CASE CreateCr
  BY <1>3, NextGeneration, StatusType DEF CreateCr, TypeOK, CustomResource
<1>4. CASE EditDeployment
  <2>1. edits' \in 0..MaxEdits
    BY <1>4, BudgetAssumption DEF EditDeployment, TypeOK
  <2> QED
    BY <1>4, <2>1, EditsType DEF EditDeployment, TypeOK
<1>5. CASE ChangePods
  <2>1. edits' \in 0..MaxEdits
    BY <1>5, BudgetAssumption DEF ChangePods, TypeOK
  <2> QED
    BY <1>5, <2>1 DEF ChangePods, TypeOK
<1>6. CASE CollectGarbage
  BY <1>6, NoDeploymentType DEF CollectGarbage, TypeOK
<1>7. CASE SyncCr
  BY <1>7 DEF SyncCr, TypeOK
<1>8. CASE SyncDeployment
  BY <1>8 DEF SyncDeployment, TypeOK
<1>9. CASE SyncPods
  BY <1>9 DEF SyncPods, TypeOK
<1>10. CASE StartReconcile
  BY <1>10 DEF StartReconcile, TypeOK, Calls
<1>11. CASE SetDefaultStatus
  BY <1>11, StatusType, EditedCrType
  DEF SetDefaultStatus, PutStatus, Refused, Again, TypeOK, Calls
<1>12. CASE GetDeployment
  BY <1>12 DEF GetDeployment, TypeOK, Calls
<1>13. CASE CreateDeployment
  BY <1>13, WantedType DEF CreateDeployment, Again, TypeOK
<1>14. CASE UpdateDeployment
  BY <1>14, WantedType DEF UpdateDeployment, Refused, Again, TypeOK, Calls
<1>15. CASE NamesAsBefore
  BY <1>15 DEF NamesAsBefore, Finish, TypeOK
<1>16. CASE NamesChanged
  BY <1>16, StatusType, EditedCrType DEF NamesChanged, TypeOK, Calls
<1>17. CASE UpdateStatus
  <2>1. inst.status \in Status
    BY DEF TypeOK, CustomResource
  <2> QED
    BY <1>17, <2>1, EditedCrType DEF UpdateStatus, PutStatus, Refused, Finish, Again, TypeOK
<1>18. CASE CallFails
  <2>1. faults' \in 0..MaxFaults
    BY <1>18, BudgetAssumption DEF CallFails, TypeOK
  <2>2. inst.status \in Status
    BY DEF TypeOK, CustomResource
  <2> QED
    BY <1>18, <2>1, <2>2, WantedType, StatusType, EditedCrType
    DEF CallFails, Refused, Again, TypeOK
<1>19. CASE Restart
  <2>1. faults' \in 0..MaxFaults
    BY <1>19, BudgetAssumption DEF Restart, TypeOK
  <2> QED
    BY <1>19, <2>1 DEF Restart, TypeOK
<1>20. CASE Resync
  <2>1. faults' \in 0..MaxFaults
    BY <1>20, BudgetAssumption DEF Resync, TypeOK
  <2> QED
    BY <1>20, <2>1 DEF Resync, TypeOK
<1>21. CASE UNCHANGED vars
  BY <1>21 DEF vars, TypeOK
<1> QED
  BY <1>1, <1>2, <1>3, <1>4, <1>5, <1>6, <1>7, <1>8, <1>9, <1>10, <1>11, <1>12, <1>13,
     <1>14, <1>15, <1>16, <1>17, <1>18, <1>19, <1>20, <1>21
  DEF Next, Reconcile, Environment, Informers

\* Every variable has its type in every reachable state.
THEOREM TypeCorrect == Spec => []TypeOK
BY InitType, TypeStep, PTL DEF Spec

-----------------------------------------------------------------------------
(* Versions.                                                               *)

\* A copy marked fresh is the server's object, so that the version check of
\* client.Update is a guard on the content the handler computed from.
FreshCopies ==
  /\ crFresh => crCache = cr
  /\ depFresh => depCache = dep
  /\ curFresh => cur = dep
  /\ instFresh => cr.live /\ inst.uid = cr.uid /\ inst.gen = cr.gen

LEMMA FreshStep == TypeOK /\ FreshCopies /\ [Next]_vars => FreshCopies'
<1> SUFFICES ASSUME TypeOK, FreshCopies, [Next]_vars PROVE FreshCopies'
  OBVIOUS
<1> USE DEF serverVars, cacheVars, runVars, WriteCr, WriteDep, TypeOK, CustomResource
<1>1. CASE EditCr
  BY <1>1 DEF EditCr, FreshCopies
<1>2. CASE DeleteCr
  BY <1>2 DEF DeleteCr, FreshCopies
<1>3. CASE CreateCr
  BY <1>3 DEF CreateCr, FreshCopies
<1>4. CASE EditDeployment
  BY <1>4 DEF EditDeployment, FreshCopies
<1>5. CASE ChangePods
  BY <1>5 DEF ChangePods, FreshCopies
<1>6. CASE CollectGarbage
  BY <1>6 DEF CollectGarbage, FreshCopies
<1>7. CASE SyncCr
  BY <1>7 DEF SyncCr, FreshCopies
<1>8. CASE SyncDeployment
  BY <1>8 DEF SyncDeployment, FreshCopies
<1>9. CASE SyncPods
  BY <1>9 DEF SyncPods, FreshCopies
<1>10. CASE StartReconcile
  BY <1>10 DEF StartReconcile, FreshCopies
<1>11. CASE SetDefaultStatus
  BY <1>11 DEF SetDefaultStatus, PutStatus, Refused, FreshCopies
<1>12. CASE GetDeployment
  BY <1>12 DEF GetDeployment, FreshCopies
<1>13. CASE CreateDeployment
  BY <1>13 DEF CreateDeployment, FreshCopies
<1>14. CASE UpdateDeployment
  BY <1>14 DEF UpdateDeployment, Refused, FreshCopies
<1>15. CASE NamesAsBefore
  BY <1>15 DEF NamesAsBefore, FreshCopies
<1>16. CASE NamesChanged
  BY <1>16 DEF NamesChanged, FreshCopies
<1>17. CASE UpdateStatus
  BY <1>17 DEF UpdateStatus, PutStatus, Refused, FreshCopies
<1>18. CASE CallFails
  BY <1>18 DEF CallFails, Refused, FreshCopies
<1>19. CASE Restart
  BY <1>19 DEF Restart, FreshCopies
<1>20. CASE Resync
  BY <1>20 DEF Resync, FreshCopies
<1>21. CASE UNCHANGED vars
  BY <1>21 DEF vars, FreshCopies
<1> QED
  BY <1>1, <1>2, <1>3, <1>4, <1>5, <1>6, <1>7, <1>8, <1>9, <1>10, <1>11, <1>12, <1>13,
     <1>14, <1>15, <1>16, <1>17, <1>18, <1>19, <1>20, <1>21
  DEF Next, Reconcile, Environment, Informers

LEMMA FreshCopiesInvariant == Spec => []FreshCopies
<1>1. Init => FreshCopies
  BY DEF Init, FreshCopies
<1> QED
  BY <1>1, FreshStep, TypeCorrect, PTL DEF Spec

-----------------------------------------------------------------------------
(* Generations.                                                            *)

\* An update sends the template of the generation it was built from.
LEMMA TemplateWritten ==
  /\ Wanted.template = inst.gen
  /\ UpdatedDeployment(cur, Wanted).template = inst.gen
BY DEF UpdatedDeployment, WithPreserved, Wanted, NewDeployment

LEMMA EditsTemplate ==
  ASSUME NEW d \in Deployment, NEW e \in EditsOf(d)
  PROVE  e.template = d.template \/ e.template = 0
BY DEF EditsOf, Deployment, NoDeployment

LEMMA OrderStep ==
  TypeOK /\ FreshCopies /\ GenerationsInOrder /\ [Next]_vars => GenerationsInOrder'
<1> SUFFICES ASSUME TypeOK, FreshCopies, GenerationsInOrder, [Next]_vars
             PROVE GenerationsInOrder'
  OBVIOUS
<1>0. /\ cr.gen \in Nat /\ cr.uid \in Nat
      /\ crCache.gen \in Nat /\ crCache.uid \in Nat
      /\ inst.gen \in Nat /\ inst.uid \in Nat
      /\ dep.template \in Nat
  <2>1. Generations \subseteq Nat /\ 0..MaxGen \subseteq Nat
    BY BoundsAssumption DEF Generations
  <2> QED
    BY <2>1 DEF TypeOK, CustomResource, Deployment
<1>a. NoDeployment.template = 0
  BY DEF NoDeployment
<1>b. /\ cr  = [live |-> cr.live, uid |-> cr.uid, gen |-> cr.gen, status |-> cr.status]
      /\ inst = [live |-> inst.live, uid |-> inst.uid, gen |-> inst.gen, status |-> inst.status]
  BY DEF TypeOK, CustomResource
<1> USE <1>0, <1>a, <1>b DEF serverVars, cacheVars, runVars, WriteCr, WriteDep
<1>1. CASE EditCr
  BY <1>1 DEF EditCr, GenerationsInOrder
<1>2. CASE DeleteCr
  BY <1>2 DEF DeleteCr, GenerationsInOrder
<1>3. CASE CreateCr
  BY <1>3 DEF CreateCr, GenerationsInOrder
<1>4. CASE EditDeployment
  <2>1. PICK d \in EditsOf(dep) : dep' = d
    BY <1>4 DEF EditDeployment
  <2>2. dep'.template = dep.template \/ dep'.template = 0
    BY <2>1, EditsTemplate DEF TypeOK
  <2> QED
    BY <1>4, <2>2 DEF EditDeployment, GenerationsInOrder
<1>5. CASE ChangePods
  BY <1>5 DEF ChangePods, GenerationsInOrder
<1>6. CASE CollectGarbage
  BY <1>6 DEF CollectGarbage, GenerationsInOrder
<1>7. CASE SyncCr
  BY <1>7 DEF SyncCr, GenerationsInOrder
<1>8. CASE SyncDeployment
  BY <1>8 DEF SyncDeployment, GenerationsInOrder
<1>9. CASE SyncPods
  BY <1>9 DEF SyncPods, GenerationsInOrder
<1>10. CASE StartReconcile
  BY <1>10 DEF StartReconcile, GenerationsInOrder
<1>11. CASE SetDefaultStatus
  BY <1>11 DEF SetDefaultStatus, PutStatus, Refused, GenerationsInOrder
<1>12. CASE GetDeployment
  BY <1>12 DEF GetDeployment, GenerationsInOrder
<1>13. CASE CreateDeployment
  BY <1>13, TemplateWritten DEF CreateDeployment, GenerationsInOrder
<1>14. CASE UpdateDeployment
  BY <1>14, TemplateWritten DEF UpdateDeployment, Refused, GenerationsInOrder
<1>15. CASE NamesAsBefore
  BY <1>15 DEF NamesAsBefore, GenerationsInOrder
<1>16. CASE NamesChanged
  BY <1>16 DEF NamesChanged, GenerationsInOrder
<1>17. CASE UpdateStatus
  BY <1>17 DEF UpdateStatus, PutStatus, Refused, GenerationsInOrder
<1>18. CASE CallFails
  BY <1>18, TemplateWritten DEF CallFails, Refused, GenerationsInOrder
<1>19. CASE Restart
  BY <1>19 DEF Restart, GenerationsInOrder
<1>20. CASE Resync
  BY <1>20 DEF Resync, GenerationsInOrder
<1>21. CASE UNCHANGED vars
  BY <1>21 DEF vars, GenerationsInOrder
<1> QED
  BY <1>1, <1>2, <1>3, <1>4, <1>5, <1>6, <1>7, <1>8, <1>9, <1>10, <1>11, <1>12, <1>13,
     <1>14, <1>15, <1>16, <1>17, <1>18, <1>19, <1>20, <1>21
  DEF Next, Reconcile, Environment, Informers

\* The generations never overtake one another.
THEOREM OrderCorrect == Spec => []GenerationsInOrder
<1>1. Init => GenerationsInOrder
  BY DEF Init, GenerationsInOrder, NoDeployment
<1> QED
  BY <1>1, OrderStep, FreshCopiesInvariant, TypeCorrect, PTL DEF Spec

-----------------------------------------------------------------------------
(* What the operator writes.                                               *)

\* The handler updates a Deployment it found.
UpdatesFound == pc = "update" => Exists(cur)

LEMMA FoundStep == TypeOK /\ UpdatesFound /\ [Next]_vars => UpdatesFound'
<1> SUFFICES ASSUME TypeOK, UpdatesFound, [Next]_vars PROVE UpdatesFound'
  OBVIOUS
<1> USE DEF serverVars, cacheVars, runVars, UpdatesFound, Exists
<1>1. CASE Environment
  BY <1>1 DEF Environment, EditCr, DeleteCr, CreateCr, EditDeployment, ChangePods, CollectGarbage
<1>2. CASE Informers
  BY <1>2 DEF Informers, SyncCr, SyncDeployment, SyncPods
<1>3. CASE StartReconcile \/ SetDefaultStatus \/ CreateDeployment \/ UpdateDeployment
  BY <1>3 DEF StartReconcile, SetDefaultStatus, CreateDeployment, UpdateDeployment, Refused, Again
<1>4. CASE NamesAsBefore \/ NamesChanged \/ UpdateStatus
  BY <1>4 DEF NamesAsBefore, NamesChanged, UpdateStatus, Refused, Again, Finish
<1>5. CASE GetDeployment
  BY <1>5 DEF GetDeployment
<1>6. CASE CallFails \/ Resync \/ Restart
  BY <1>6 DEF CallFails, Resync, Restart, Refused, Again
<1>7. CASE UNCHANGED vars
  BY <1>7 DEF vars
<1> QED
  BY <1>1, <1>2, <1>3, <1>4, <1>5, <1>6, <1>7 DEF Next, Reconcile

\* A write of the operator to the Deployment is a create where there is none,
\* or an update computed from the Deployment as it is on the server.
AtomicWrite ==
  \/ ~Exists(dep) /\ dep' = Wanted
  \/ Exists(dep) /\ dep' = UpdatedDeployment(dep, Wanted)

LEMMA OperatorWrites ==
  ASSUME FreshCopies, UpdatesFound, [Next]_vars, OperatorStep, dep' # dep
  PROVE  AtomicWrite /\ UNCHANGED <<cr, inst>>
<1> USE DEF serverVars, cacheVars, runVars, OperatorStep
<1>1. CASE CreateDeployment
  BY <1>1 DEF CreateDeployment, WriteDep, AtomicWrite
<1>2. CASE UpdateDeployment
  BY <1>2 DEF UpdateDeployment, WriteDep, Refused, FreshCopies, UpdatesFound, AtomicWrite
<1>3. CASE CallFails
  BY <1>3 DEF CallFails, WriteDep, Refused, FreshCopies, UpdatesFound, AtomicWrite
<1>4. CASE Environment
  BY <1>4 DEF Environment, EditCr, DeleteCr, CreateCr, EditDeployment, ChangePods, CollectGarbage
<1>5. CASE Informers
  BY <1>5 DEF Informers, SyncCr, SyncDeployment, SyncPods
<1>6. CASE StartReconcile \/ SetDefaultStatus \/ GetDeployment
  BY <1>6 DEF StartReconcile, SetDefaultStatus, GetDeployment, Refused
<1>7. CASE NamesAsBefore \/ NamesChanged \/ UpdateStatus
  BY <1>7 DEF NamesAsBefore, NamesChanged, UpdateStatus, Refused
<1>8. CASE Resync \/ Restart \/ UNCHANGED vars
  BY <1>8 DEF Resync, Restart, vars
<1> QED
  BY <1>1, <1>2, <1>3, <1>4, <1>5, <1>6, <1>7, <1>8 DEF Next, Reconcile

\* The inductive invariant the action properties rest on.
IInv == TypeOK /\ FreshCopies /\ GenerationsInOrder /\ UpdatesFound

THEOREM IInvCorrect == Spec => []IInv
<1>1. Init => UpdatesFound
  BY DEF Init, UpdatesFound
<1>2. Spec => []UpdatesFound
  BY <1>1, FoundStep, TypeCorrect, PTL DEF Spec
<1> QED
  BY <1>2, TypeCorrect, FreshCopiesInvariant, OrderCorrect, PTL DEF IInv

\* No update of the operator scales up a Deployment that is scaled to 0.
THEOREM ScaleToZeroCorrect == Spec => ScaleToZeroRespected
<1> DEFINE Kept == OperatorRewrites /\ dep.replicas = 0 => dep'.replicas = 0
<1>1. IInv /\ [Next]_vars => [Kept]_vars
  <2> SUFFICES ASSUME IInv, [Next]_vars, OperatorRewrites, dep.replicas = 0
               PROVE dep'.replicas = 0
    OBVIOUS
  <2>1. dep' = UpdatedDeployment(dep, Wanted)
    BY OperatorWrites DEF IInv, OperatorRewrites, AtomicWrite
  <2> QED
    BY <2>1 DEF UpdatedDeployment, WithPreserved, Wanted, NewDeployment
<1> QED
  BY <1>1, IInvCorrect, PTL DEF Spec, ScaleToZeroRespected

\* No update of the operator loses the restart label or the heap size.
THEOREM SettingsCorrect == Spec => SettingsSurvive
<1> DEFINE Kept ==
      OperatorRewrites => /\ dep.label # NoLabel => dep'.label = dep.label
                          /\ dep.heapSize # NoHeapSize => dep'.heapSize = dep.heapSize
<1>1. IInv /\ [Next]_vars => [Kept]_vars
  <2> SUFFICES ASSUME IInv, [Next]_vars, OperatorRewrites PROVE Kept
    OBVIOUS
  <2>1. dep' = UpdatedDeployment(dep, Wanted)
    BY OperatorWrites DEF IInv, OperatorRewrites, AtomicWrite
  <2> QED
    BY <2>1 DEF UpdatedDeployment, WithPreserved, Wanted, NewDeployment
<1> QED
  BY <1>1, IInvCorrect, PTL DEF Spec, SettingsSurvive

-----------------------------------------------------------------------------
(* The controller implements the contract.                                 *)

LEMMA SameOperators ==
  /\ \A g, u : Contract!NewDeployment(g, u) = NewDeployment(g, u)
  /\ \A o, n : Contract!UpdatedDeployment(o, n) = UpdatedDeployment(o, n)
  /\ \A d : Contract!Exists(d) <=> Exists(d)
  /\ Contract!NoDeployment = NoDeployment
  /\ Contract!Generations = Generations
  /\ Contract!Deployment = Deployment
BY DEF Contract!NewDeployment, NewDeployment, Contract!Replicas, Replicas,
       Contract!UpdatedDeployment, UpdatedDeployment, Contract!WithPreserved, WithPreserved,
       Contract!Exists, Exists, Contract!NoDeployment, NoDeployment,
       Contract!Generations, Generations, Contract!Deployment, Deployment

LEMMA ContractInit == Init => Contract!Init
<1> SUFFICES ASSUME Init PROVE Contract!Init
  OBVIOUS
<1>1. dep \in Deployment
  BY InitType DEF TypeOK
<1>2. dep = NoDeployment \/ (dep \in Deployment /\ dep.owner = 1 /\ dep.template = 0)
  BY <1>1 DEF Init
<1> QED
  BY <1>2, SameOperators DEF Init, Contract!Init

\* What a step of the controller, seen through the mapping, does.
LEMMA ContractStep == IInv /\ [Next]_vars => [Contract!Next]_(Contract!vars)
<1> SUFFICES ASSUME IInv, [Next]_vars PROVE [Contract!Next]_(Contract!vars)
  OBVIOUS
<1>a. cr \in CustomResource /\ crCache \in CustomResource /\ inst \in CustomResource /\ dep \in Deployment
  BY DEF IInv, TypeOK
<1> USE DEF serverVars, cacheVars, runVars, WriteCr, WriteDep
<1>1. CASE EditCr
  <2>1. Contract!EditResource
    <3>1. cr'.live = cr.live /\ cr'.uid = cr.uid /\ cr'.gen = cr.gen + 1
      BY <1>1, <1>a DEF EditCr, CustomResource
    <3>2. [[live |-> cr.live, uid |-> cr.uid, gen |-> cr.gen] EXCEPT !.gen = cr.gen + 1]
            = [live |-> cr.live, uid |-> cr.uid, gen |-> cr.gen + 1]
      OBVIOUS
    <3> QED
      BY <1>1, <3>1, <3>2 DEF EditCr, Contract!EditResource
  <2> QED
    BY <2>1 DEF Contract!Next
<1>2. CASE DeleteCr
  <2>1. Contract!DeleteResource
    <3>1. cr'.live = FALSE /\ cr'.uid = cr.uid /\ cr'.gen = cr.gen
      BY <1>2, <1>a DEF DeleteCr, CustomResource
    <3> QED
      BY <1>2, <3>1 DEF DeleteCr, Contract!DeleteResource
  <2> QED
    BY <2>1 DEF Contract!Next
<1>3. CASE CreateCr
  <2>1. Contract!CreateResource
    BY <1>3, <1>a DEF CreateCr, Contract!CreateResource, CustomResource
  <2> QED
    BY <2>1 DEF Contract!Next
<1>4. CASE EditDeployment
  <2>1. Contract!ChangedByOthers
    BY <1>4, SameOperators DEF EditDeployment, EditsOf, Contract!ChangedByOthers
  <2> QED
    BY <2>1 DEF Contract!Next
<1>5. CASE CollectGarbage
  <2>1. Contract!CollectGarbage
    BY <1>5, SameOperators DEF CollectGarbage, Contract!CollectGarbage
  <2> QED
    BY <2>1 DEF Contract!Next
<1>6. CASE StartReconcile /\ inst' # inst
  <2>1. inst'.gen \in inst.gen..cr.gen /\ inst'.uid \in Generations
    <3>1. inst' = crCache
      BY <1>6 DEF StartReconcile
    <3>2. inst.gen \in Int /\ crCache.gen \in Int /\ cr.gen \in Int
      BY <1>a, BoundsAssumption DEF CustomResource, Generations
    <3> QED
      BY <3>1, <3>2, <1>a DEF IInv, GenerationsInOrder, CustomResource
  <2>2. Contract!Observe
    BY <1>6, <2>1, SameOperators DEF StartReconcile, Contract!Observe
  <2> QED
    BY <2>2 DEF Contract!Next
<1>7. CASE OperatorStep /\ dep' # dep
  <2>1. AtomicWrite /\ UNCHANGED <<cr, inst>>
    BY <1>7, OperatorWrites DEF IInv
  <2>2. Contract!Create \/ Contract!Apply
    BY <2>1, SameOperators DEF AtomicWrite, Wanted, Contract!Create, Contract!Apply
  <2> QED
    BY <2>2 DEF Contract!Next
<1>8. CASE UNCHANGED <<dep, cr.live, cr.uid, cr.gen, inst.uid, inst.gen>>
  BY <1>8 DEF Contract!vars
<1>9. ChangePods => UNCHANGED <<dep, cr, inst>>
  BY DEF ChangePods
<1>10. Informers \/ UNCHANGED vars => UNCHANGED <<dep, cr, inst>>
  BY DEF Informers, SyncCr, SyncDeployment, SyncPods, vars
<1>11. StartReconcile => UNCHANGED <<dep, cr>>
  BY DEF StartReconcile
<1>12. SetDefaultStatus \/ UpdateStatus \/ NamesChanged =>
         UNCHANGED <<dep, cr.live, cr.uid, cr.gen, inst.uid, inst.gen>>
  BY <1>a DEF SetDefaultStatus, UpdateStatus, NamesChanged, PutStatus, Refused, CustomResource
<1>13. GetDeployment \/ NamesAsBefore \/ Resync \/ Restart => UNCHANGED <<dep, cr, inst>>
  BY DEF GetDeployment, NamesAsBefore, Resync, Restart
<1>14. CreateDeployment \/ UpdateDeployment => OperatorStep /\ UNCHANGED <<cr, inst>>
  BY DEF CreateDeployment, UpdateDeployment, Refused, Again, OperatorStep
<1>15. CallFails => OperatorStep /\ UNCHANGED <<cr.live, cr.uid, cr.gen, inst>>
  BY <1>a DEF CallFails, Refused, Again, OperatorStep, CustomResource
<1> QED
  BY <1>1, <1>2, <1>3, <1>4, <1>5, <1>6, <1>7, <1>8, <1>9, <1>10, <1>11, <1>12, <1>13,
     <1>14, <1>15
  DEF Next, Reconcile, Environment

\* Every behaviour of the controller is one the contract allows: whatever the
\* caches, versions, failures and restarts did, each write of the operator is
\* one atomic step on the live Deployment.
THEOREM ContractImplemented == Spec => ImplementsContract
BY ContractInit, ContractStep, IInvCorrect, PTL DEF Spec, ImplementsContract, Contract!Spec

=============================================================================
