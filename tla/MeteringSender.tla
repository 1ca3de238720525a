--------------------------- MODULE MeteringSender ---------------------------
(***************************************************************************)
(* The controller of one MeteringSender custom resource:                   *)
(* pkg/controller/meteringsender with ReconcileDeployment of               *)
(* pkg/resources/reconcile.go, the informer cache and work queue it runs   *)
(* on, and what else writes the same objects: the customer, cert-manager,  *)
(* the deployment controller and the garbage collector.                    *)
(*                                                                         *)
(* The handler reads from the cache and writes to the API server.  The     *)
(* server accepts an update only if the copy sent carries the object's     *)
(* current resourceVersion.  A resourceVersion is never used twice, so all *)
(* that matters about the version of a copy is whether it still is the     *)
(* server's: one Boolean per copy.                                         *)
(*                                                                         *)
(* A cache moves to the server's current state in one step.  Passing       *)
(* through the versions in between adds nothing: an update from any of     *)
(* them is refused, and a cache that stops at one of them is a cache that  *)
(* moved before the later writes.                                          *)
(***************************************************************************)
EXTENDS Deployments, FiniteSets

CONSTANTS
  Pods,         \* the pods the Deployment may have
  NoStatus,     \* a status without pod names: a resource just created
  OldStatus,    \* a status written by another version of the operator
  MaxEdits,     \* bound: writes by others to the Deployment and the pods
  MaxFaults     \* bound: failed calls, resyncs and operator restarts

\* A list call returns the pods in any order: the cache keeps them in a Go map.
Orders(ps) ==
  {l \in [1..Cardinality(ps) -> ps] : \A i, j \in DOMAIN l : l[i] = l[j] => i = j}

\* The names a status of this version of the operator may show.  The empty
\* list stands for DefaultStatusForCR, which is shown when there is no pod.
PodLists == UNION {Orders(ps) : ps \in SUBSET Pods}
DefaultStatus == << >>

ASSUME StatusAssumption ==
  /\ IsFiniteSet(Pods)
  /\ NoStatus \notin PodLists /\ OldStatus \notin PodLists
  /\ NoStatus # OldStatus

ASSUME BudgetAssumption == MaxEdits \in Nat /\ MaxFaults \in Nat

VARIABLES
  \* the API server
  cr,         \* the MeteringSender
  dep,        \* the Deployment metering-sender
  pods,       \* its pods
  \* the operator's informer cache
  crCache, crFresh,    \* cached MeteringSender; does it have the server's version
  depCache, depFresh,  \* cached Deployment; does it have the server's version
  podCache,            \* cached pods
  \* the controller
  queued,     \* is the request in the work queue
  pc,         \* the next call of Reconcile; "idle" between two runs
  inst, instFresh,     \* instance, and whether its version is the server's
  cur, curFresh,       \* currentDeployment, and the same
  \* budgets of the environment
  edits, faults

serverVars == <<cr, dep, pods>>
cacheVars  == <<crCache, crFresh, depCache, depFresh, podCache>>
runVars    == <<pc, inst, instFresh, cur, curFresh>>
vars == <<serverVars, cacheVars, queued, runVars, edits, faults>>

Status == PodLists \cup {NoStatus, OldStatus}

CustomResource ==
  [ live : BOOLEAN, uid : Generations, gen : Generations, status : Status ]

\* The calls of Reconcile in the order it makes them.
Calls == {"defaultStatus", "getDeployment", "create", "update", "listPods", "status"}

TypeOK ==
  /\ cr \in CustomResource /\ crCache \in CustomResource /\ inst \in CustomResource
  /\ dep \in Deployment /\ depCache \in Deployment /\ cur \in Deployment
  /\ pods \in SUBSET Pods /\ podCache \in SUBSET Pods
  /\ crFresh \in BOOLEAN /\ depFresh \in BOOLEAN
  /\ instFresh \in BOOLEAN /\ curFresh \in BOOLEAN
  /\ queued \in BOOLEAN
  /\ pc \in Calls \cup {"idle"}
  /\ edits \in 0..MaxEdits /\ faults \in 0..MaxFaults

-----------------------------------------------------------------------------
\* The operator starts over a resource that is new, or that an older version
\* of the operator left with its Deployment, scaled and labelled in any way.
Init ==
  /\ \E s \in {NoStatus, OldStatus} : cr = [live |-> TRUE, uid |-> 1, gen |-> 1, status |-> s]
  /\ dep \in {NoDeployment} \cup
       [ owner : {1}, template : {0}, replicas : ScaledTo,
         label : RestartTimes \cup {NoLabel}, heapSize : HeapSizes \cup {NoHeapSize} ]
  /\ pods = {}
  /\ crCache = cr /\ crFresh = TRUE
  /\ depCache = dep /\ depFresh = TRUE
  /\ podCache = pods
  /\ queued = TRUE
  /\ pc = "idle"
  /\ inst = cr /\ instFresh = FALSE
  /\ cur = NoDeployment /\ curFresh = FALSE
  /\ edits = 0 /\ faults = 0

\* A write to the server leaves every copy with an old version, except the
\* copy the writer gets back.
WriteCr(c)  == cr' = c /\ crFresh' = FALSE
WriteDep(d) == dep' = d /\ depFresh' = FALSE /\ curFresh' = FALSE

-----------------------------------------------------------------------------
(* The environment.                                                        *)

\* The customer edits, deletes or creates the MeteringSender.
EditCr ==
  /\ cr.live /\ cr.gen < MaxGen
  /\ WriteCr([cr EXCEPT !.gen = @ + 1])
  /\ instFresh' = FALSE
  /\ UNCHANGED <<dep, pods, crCache, depCache, depFresh, podCache, queued, pc,
                 inst, cur, curFresh, edits, faults>>

DeleteCr ==
  /\ cr.live
  /\ WriteCr([cr EXCEPT !.live = FALSE])
  /\ instFresh' = FALSE
  /\ UNCHANGED <<dep, pods, crCache, depCache, depFresh, podCache, queued, pc,
                 inst, cur, curFresh, edits, faults>>

CreateCr ==
  /\ ~cr.live /\ cr.gen < MaxGen
  /\ WriteCr([live |-> TRUE, uid |-> cr.gen + 1, gen |-> cr.gen + 1, status |-> NoStatus])
  /\ instFresh' = FALSE
  /\ UNCHANGED <<dep, pods, crCache, depCache, depFresh, podCache, queued, pc,
                 inst, cur, curFresh, edits, faults>>

\* What the customer and cert-manager do to the Deployment.
EditsOf(d) ==
  {[d EXCEPT !.replicas = n] : n \in ScaledTo}
    \cup {[d EXCEPT !.heapSize = h] : h \in HeapSizes}
    \cup {[d EXCEPT !.label = t] : t \in RestartTimes}
    \cup {[d EXCEPT !.template = 0], NoDeployment}

EditDeployment ==
  /\ edits < MaxEdits
  /\ Exists(dep)
  /\ \E d \in EditsOf(dep) : WriteDep(d)
  /\ edits' = edits + 1
  /\ UNCHANGED <<cr, pods, crCache, crFresh, depCache, podCache, queued, pc,
                 inst, instFresh, cur, faults>>

\* Pods come and go, and the deployment controller notes it in the status of
\* the Deployment, a write like any other.  A pod that vanishes at the end of
\* its termination, which the Deployment no longer counts, changes no Deployment.
ChangePods ==
  /\ edits < MaxEdits
  /\ pods' \in (SUBSET Pods) \ {pods}
  /\ \/ Exists(dep) /\ WriteDep(dep)
     \/ pods' \subseteq pods /\ UNCHANGED <<dep, depFresh, curFresh>>
  /\ edits' = edits + 1
  /\ UNCHANGED <<cr, crCache, crFresh, depCache, podCache, queued, pc,
                 inst, instFresh, cur, faults>>

\* The garbage collector deletes a Deployment whose owner is gone.
CollectGarbage ==
  /\ Exists(dep)
  /\ ~(cr.live /\ cr.uid = dep.owner)
  /\ WriteDep(NoDeployment)
  /\ UNCHANGED <<cr, pods, crCache, crFresh, depCache, podCache, queued, pc,
                 inst, instFresh, cur, edits, faults>>

-----------------------------------------------------------------------------
(* The informers: they bring a cache up to date and enqueue the request.   *)

SyncCr ==
  /\ ~crFresh
  /\ crCache' = cr /\ crFresh' = TRUE
  /\ queued' = TRUE
  /\ UNCHANGED <<serverVars, depCache, depFresh, podCache, runVars, edits, faults>>

\* Mutant: Deployments are not watched.
SyncDeploymentUnwatched ==
  /\ ~depFresh
  /\ depCache' = dep /\ depFresh' = TRUE
  /\ UNCHANGED <<serverVars, crCache, crFresh, podCache, queued, runVars, edits, faults>>

\* EnqueueRequestForOwner looks at the owner of the old and of the new object.
SyncDeployment ==
  /\ ~depFresh
  /\ depCache' = dep /\ depFresh' = TRUE
  /\ queued' = (queued \/ Exists(depCache) \/ Exists(dep))
  /\ UNCHANGED <<serverVars, crCache, crFresh, podCache, runVars, edits, faults>>

\* Pods are cached for the list call, but nothing watches them.
SyncPods ==
  /\ podCache # pods
  /\ podCache' = pods
  /\ UNCHANGED <<serverVars, crCache, crFresh, depCache, depFresh, queued, runVars,
                 edits, faults>>

-----------------------------------------------------------------------------
(* Reconcile.                                                              *)

\* Mutant: an error is logged, and the request forgotten.
AgainForgotten == pc' = "idle" /\ queued' = queued

\* How a run ends: with nothing more to do, or asking to be run again (an
\* error, or Requeue: true).  In both cases an event that came during the run
\* has left the request in the queue.
Finish == pc' = "idle" /\ queued' = queued
Again  == pc' = "idle" /\ queued' = TRUE

\* Take the request and fetch the MeteringSender; a resource that is not found
\* ends the run.
StartReconcile ==
  /\ pc = "idle" /\ queued
  /\ queued' = FALSE
  /\ \/ ~crCache.live /\ UNCHANGED <<pc, inst, instFresh>>
     \/ /\ crCache.live
        /\ inst' = crCache /\ instFresh' = crFresh
        /\ pc' = IF crCache.status = NoStatus THEN "defaultStatus" ELSE "getDeployment"
  /\ UNCHANGED <<serverVars, cacheVars, cur, curFresh, edits, faults>>

\* Status().Update(instance): accepted if instance has the current version,
\* and instance gets the new one; else a conflict, or not found.
PutStatus(s) ==
  /\ instFresh
  /\ WriteCr([cr EXCEPT !.status = s])
  /\ inst' = [inst EXCEPT !.status = s]
  /\ UNCHANGED instFresh

Refused == UNCHANGED <<cr, dep, crFresh, depFresh, inst, instFresh, curFresh>> /\ Again

SetDefaultStatus ==
  /\ pc = "defaultStatus"
  /\ \/ /\ PutStatus(DefaultStatus)
        /\ pc' = "getDeployment"
        /\ UNCHANGED <<dep, depFresh, curFresh, queued>>
     \/ ~instFresh /\ Refused
  /\ UNCHANGED <<pods, crCache, depCache, podCache, cur, edits, faults>>

\* Mutant: the resource is read again for the Deployment.
WantedReadAgain == NewDeployment(crCache.gen, crCache.uid)

\* ReconcileDeployment gets the Deployment, from the cache, and compares.
Wanted == NewDeployment(inst.gen, inst.uid)

GetDeployment ==
  /\ pc = "getDeployment"
  /\ cur' = depCache /\ curFresh' = depFresh
  /\ pc' = IF ~Exists(depCache) THEN "create"
           ELSE IF IsDeploymentEqual(depCache, Wanted) THEN "listPods" ELSE "update"
  /\ UNCHANGED <<serverVars, cacheVars, queued, inst, instFresh, edits, faults>>

\* A create asks for another run when it succeeds and when the Deployment
\* turns out to exist.
CreateDeployment ==
  /\ pc = "create"
  /\ IF Exists(dep) THEN UNCHANGED <<dep, depFresh, curFresh>> ELSE WriteDep(Wanted)
  /\ Again
  /\ UNCHANGED <<cr, pods, crCache, crFresh, depCache, podCache, inst, instFresh,
                 cur, edits, faults>>

\* Mutant: the update is sent without a resourceVersion.
UpdateDeploymentBlindly ==
  /\ pc = "update"
  /\ \/ /\ Exists(dep)
        /\ WriteDep(UpdatedDeployment(cur, Wanted))
        /\ pc' = "listPods"
        /\ UNCHANGED <<cr, crFresh, queued, inst, instFresh>>
     \/ ~Exists(dep) /\ Refused
  /\ UNCHANGED <<pods, crCache, depCache, podCache, cur, edits, faults>>

UpdateDeployment ==
  /\ pc = "update"
  /\ \/ /\ curFresh
        /\ WriteDep(UpdatedDeployment(cur, Wanted))
        /\ pc' = "listPods"
        /\ UNCHANGED <<cr, crFresh, queued, inst, instFresh>>
     \/ ~curFresh /\ Refused
  /\ UNCHANGED <<pods, crCache, depCache, podCache, cur, edits, faults>>

\* List the pods, in the cache.  Names equal to those in instance's status, in
\* the same order, end the run; others are put there and written.
NamesAsBefore ==
  /\ pc = "listPods"
  /\ inst.status \in Orders(podCache)
  /\ Finish
  /\ UNCHANGED <<serverVars, cacheVars, inst, instFresh, cur, curFresh, edits, faults>>

NamesChanged ==
  /\ pc = "listPods"
  /\ \E names \in Orders(podCache) \ {inst.status} : inst' = [inst EXCEPT !.status = names]
  /\ pc' = "status"
  /\ UNCHANGED <<serverVars, cacheVars, queued, instFresh, cur, curFresh, edits, faults>>

UpdateStatus ==
  /\ pc = "status"
  /\ \/ PutStatus(inst.status) /\ Finish /\ UNCHANGED <<dep, depFresh, curFresh>>
     \/ ~instFresh /\ Refused
  /\ UNCHANGED <<pods, crCache, depCache, podCache, cur, edits, faults>>

\* A call fails.  A write may have reached the server all the same; a create
\* that did is CreateDeployment.
CallFails ==
  /\ pc # "idle" /\ faults < MaxFaults
  /\ faults' = faults + 1
  /\ \/ Refused
     \/ /\ pc = "update" /\ curFresh
        /\ WriteDep(UpdatedDeployment(cur, Wanted))
        /\ Again /\ UNCHANGED <<cr, crFresh, inst, instFresh>>
     \/ /\ pc \in {"defaultStatus", "status"} /\ instFresh
        /\ WriteCr([cr EXCEPT !.status = IF pc = "status" THEN inst.status ELSE DefaultStatus])
        /\ instFresh' = FALSE
        /\ Again /\ UNCHANGED <<dep, depFresh, curFresh, inst>>
  /\ UNCHANGED <<pods, crCache, depCache, podCache, cur, edits>>

\* Every ten hours the informers hand out again what they hold.
Resync ==
  /\ faults < MaxFaults
  /\ faults' = faults + 1
  /\ crCache.live \/ Exists(depCache)
  /\ queued' = TRUE
  /\ UNCHANGED <<serverVars, cacheVars, runVars, edits>>

\* The operator restarts.  Its new cache lists what the old one had or
\* something newer (SyncCr, SyncDeployment), and the list enqueues the request
\* if it has the resource or a Deployment it owns.
Restart ==
  /\ faults < MaxFaults
  /\ faults' = faults + 1
  /\ pc' = "idle"
  /\ queued' = (crCache.live \/ Exists(depCache))
  /\ instFresh' = FALSE /\ curFresh' = FALSE
  /\ UNCHANGED <<serverVars, cacheVars, inst, cur, edits>>

Reconcile ==
  \/ StartReconcile \/ SetDefaultStatus \/ GetDeployment \/ CreateDeployment
  \/ UpdateDeployment \/ NamesAsBefore \/ NamesChanged \/ UpdateStatus

Environment ==
  EditCr \/ DeleteCr \/ CreateCr \/ EditDeployment \/ ChangePods \/ CollectGarbage

Informers == SyncCr \/ SyncDeployment \/ SyncPods

Next == Reconcile \/ CallFails \/ Resync \/ Restart \/ Environment \/ Informers

\* The worker keeps taking requests, watches keep delivering, and the garbage
\* collector keeps running.  Go picks the order of a map at random at every
\* iteration, so the list that equals the status comes up again and again, and
\* is met some time.  Nothing obliges a customer, a pod or a fault.
Fairness ==
  /\ WF_vars(Reconcile) /\ SF_vars(NamesAsBefore)
  /\ WF_vars(SyncCr) /\ WF_vars(SyncDeployment) /\ WF_vars(SyncPods)
  /\ WF_vars(CollectGarbage)

Spec == Init /\ [][Next]_vars
FairSpec == Spec /\ Fairness

-----------------------------------------------------------------------------
(* Properties.                                                             *)

\* The generations of the resource reach the cache, the run and the Deployment
\* in this order and never overtake one another, across edits, re-creations of
\* the resource and restarts of the operator.
GenerationsInOrder ==
  /\ inst.gen <= crCache.gen /\ crCache.gen <= cr.gen
  /\ dep.template <= inst.gen
  /\ cr.uid <= cr.gen /\ crCache.uid <= crCache.gen /\ inst.uid <= inst.gen

\* The Deployment d is what generation g asks for: compared by the code, so a
\* Deployment scaled to 0 is.
Matches(d, g) == Exists(d) /\ IsDeploymentEqual(d, NewDeployment(g, 0))

\* The controller sleeps with the request out of the queue, and no event that
\* would enqueue it is under way.
Asleep == pc = "idle" /\ ~queued /\ crFresh /\ depFresh

\* No lost wake-up: asleep, there is nothing left to do: the Deployment is what
\* the live resource asks for, and the resource has a status of this version of
\* the operator.
NoLostWakeUp ==
  Asleep /\ cr.live => Matches(dep, cr.gen) /\ cr.status \in PodLists

\* Only steps of the operator change pc.
OperatorStep == pc' # pc

\* The operator writes a Deployment that was there and still is.
OperatorRewrites == OperatorStep /\ dep' # dep /\ Exists(dep) /\ Exists(dep')

\* A Deployment the customer scaled to 0 is never scaled up by the operator,
\* even when the scaling races with an update computed from an older copy.
ScaleToZeroRespected ==
  [][OperatorRewrites /\ dep.replicas = 0 => dep'.replicas = 0]_vars

\* The label cert-manager uses to restart the pods and the customer's
\* NODE_HEAP_SIZE survive every update of the operator, also those written
\* between its read and its write.
SettingsSurvive ==
  [][OperatorRewrites => /\ dep.label # NoLabel => dep'.label = dep.label
                         /\ dep.heapSize # NoHeapSize => dep'.heapSize = dep.heapSize]_vars

\* What it all comes to: a live resource has its Deployment, owned by it, and a
\* status; a deleted one has none.
Converged ==
  IF cr.live THEN Matches(dep, cr.gen) /\ dep.owner = cr.uid /\ cr.status \in PodLists
             ELSE ~Exists(dep)

\* Once others stop writing, this state is reached and kept.
EventuallyConverged == <>[]Converged

\* And the operator comes to rest: its own writes, whose events wake it, do not
\* keep it busy for ever.
EventuallyIdle == <>[](pc = "idle" /\ ~queued)

\* The promise of the operator about its Deployment.
Contract == INSTANCE DeploymentContract WITH
  resource <- [live |-> cr.live, uid |-> cr.uid, gen |-> cr.gen],
  seen     <- [uid |-> inst.uid, gen |-> inst.gen]

\* Every write of the operator to the Deployment is one atomic step from the
\* Deployment as it is on the server.
ImplementsContract == Contract!Spec

=============================================================================
