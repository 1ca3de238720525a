--------------------- MODULE MeteringSenderWakeUpProofs ---------------------
(***************************************************************************)
(* The controller of a MeteringSender does not lose a wake-up: when it     *)
(* sleeps and sees the server's objects, nothing is left to do.            *)
(*                                                                         *)
(* The argument.  What a run establishes holds of the cached objects it    *)
(* read, and as long as the request is out of the queue no event has       *)
(* changed them: an event enqueues the request.  A write of the run itself *)
(* makes the cached copy old, and the event that renews it enqueues the    *)
(* request too.  So every part of the invariant below is about a state     *)
(* with the request out of the queue, and compares the run with the cache. *)
(***************************************************************************)
EXTENDS MeteringSenderProofs

\* The run acts for the resource in the cache.
ActsForCached ==
  pc # "idle" => /\ crCache.live /\ inst.gen = crCache.gen
                 /\ pc # "status" /\ crFresh => inst.status = crCache.status

\* From the step that found the Deployment on, the cache has it, and beyond the
\* update it is what the run wants, unless the run has just replaced it.
FoundInCache ==
  /\ pc \in {"update", "listPods", "status"} => Exists(depCache)
  /\ pc \in {"listPods", "status"} /\ depFresh => Matches(depCache, inst.gen)

\* After a run the cached Deployment is what the cached resource asks for, and
\* the cached resource has a status, unless the run has just written them.
DoneForCached ==
  pc = "idle" /\ crCache.live =>
    /\ Exists(depCache)
    /\ depFresh => Matches(depCache, crCache.gen)
    /\ crFresh => crCache.status \in PodLists

WakeUpInv == ~queued => ActsForCached /\ FoundInCache /\ DoneForCached

-----------------------------------------------------------------------------
\* The comparison does not look at the owner.
LEMMA EqualIsMatch ==
  ASSUME NEW d, NEW g, NEW u, Exists(d), IsDeploymentEqual(d, NewDeployment(g, u))
  PROVE  Matches(d, g)
BY DEF Matches, IsDeploymentEqual, WithPreserved, NewDeployment

\* A step that leaves the queue, the run and the cached objects alone, and brings
\* no cached object up to date.
LEMMA Unaffected ==
  ASSUME WakeUpInv, queued' = queued, UNCHANGED <<pc, inst, crCache, depCache>>,
         crFresh' => crFresh, depFresh' => depFresh
  PROVE  WakeUpInv'
BY DEF WakeUpInv, ActsForCached, FoundInCache, DoneForCached, Matches

LEMMA WakeUpStep == TypeOK /\ WakeUpInv /\ [Next]_vars => WakeUpInv'
<1> SUFFICES ASSUME TypeOK, WakeUpInv, [Next]_vars PROVE WakeUpInv'
  OBVIOUS
<1> USE DEF serverVars, cacheVars, runVars, WriteCr, WriteDep
<1>0. queued' => WakeUpInv'
  BY DEF WakeUpInv
<1>1. CASE Environment
  BY <1>1, Unaffected
  DEF Environment, EditCr, DeleteCr, CreateCr, EditDeployment, ChangePods, CollectGarbage
<1>2. CASE SyncCr
  BY <1>2, <1>0 DEF SyncCr
<1>3. CASE SyncDeployment
  <2>1. CASE queued'
    BY <2>1, <1>0
  <2>2. CASE ~queued'
    BY <1>3, <2>2 DEF SyncDeployment, WakeUpInv, ActsForCached, FoundInCache, DoneForCached
  <2> QED
    BY <2>1, <2>2
<1>4. CASE SyncPods
  BY <1>4, Unaffected DEF SyncPods
<1>5. CASE StartReconcile
  BY <1>5 DEF StartReconcile, WakeUpInv, ActsForCached, FoundInCache, DoneForCached
<1>6. CASE SetDefaultStatus
  <2>1. CASE Again
    BY <2>1, <1>0 DEF Again
  <2>2. CASE PutStatus(DefaultStatus) /\ pc' = "getDeployment" /\ queued' = queued
    BY <1>6, <2>2
    DEF SetDefaultStatus, PutStatus, WakeUpInv, ActsForCached, FoundInCache, DoneForCached,
        TypeOK, CustomResource
  <2> QED
    BY <1>6, <2>1, <2>2 DEF SetDefaultStatus, Refused
<1>7. CASE GetDeployment
  <2>1. pc' = "listPods" => Matches(depCache, inst.gen)
    BY <1>7, EqualIsMatch DEF GetDeployment, Wanted
  <2> QED
    BY <1>7, <2>1
    DEF GetDeployment, WakeUpInv, ActsForCached, FoundInCache, DoneForCached, Matches
<1>8. CASE CreateDeployment
  BY <1>8, <1>0 DEF CreateDeployment, Again
<1>9. CASE UpdateDeployment
  BY <1>9, <1>0
  DEF UpdateDeployment, Refused, Again, WakeUpInv, ActsForCached, FoundInCache, DoneForCached
<1>10. CASE NamesAsBefore
  <2>1. inst.status \in PodLists
    BY <1>10 DEF NamesAsBefore, PodLists, TypeOK
  <2> QED
    BY <1>10, <2>1
    DEF NamesAsBefore, Finish, WakeUpInv, ActsForCached, FoundInCache, DoneForCached, Matches
<1>11. CASE NamesChanged
  <2>1. inst'.gen = inst.gen
    BY <1>11 DEF NamesChanged, TypeOK, CustomResource
  <2> QED
    BY <1>11, <2>1
    DEF NamesChanged, WakeUpInv, ActsForCached, FoundInCache, DoneForCached, Matches
<1>12. CASE UpdateStatus
  BY <1>12, <1>0
  DEF UpdateStatus, PutStatus, Refused, Again, Finish,
      WakeUpInv, ActsForCached, FoundInCache, DoneForCached, Matches
<1>13. CASE CallFails
  BY <1>13, <1>0 DEF CallFails, Refused, Again
<1>14. CASE Resync
  BY <1>14, <1>0 DEF Resync
<1>15. CASE Restart
  BY <1>15, <1>0 DEF Restart, WakeUpInv, ActsForCached, FoundInCache, DoneForCached
<1>16. CASE UNCHANGED vars
  BY <1>16, Unaffected DEF vars
<1> QED
  BY <1>1, <1>2, <1>3, <1>4, <1>5, <1>6, <1>7, <1>8, <1>9, <1>10, <1>11, <1>12, <1>13,
     <1>14, <1>15, <1>16
  DEF Next, Reconcile, Informers

THEOREM WakeUpInvCorrect == Spec => []WakeUpInv
<1>1. Init => WakeUpInv
  BY DEF Init, WakeUpInv
<1> QED
  BY <1>1, WakeUpStep, TypeCorrect, PTL DEF Spec

\* When the controller sleeps and no event is under way, the Deployment is what
\* the live resource asks for, and the resource has a status.
THEOREM NoLostWakeUpCorrect == Spec => []NoLostWakeUp
<1>1. FreshCopies /\ WakeUpInv => NoLostWakeUp
  BY DEF FreshCopies, WakeUpInv, DoneForCached, NoLostWakeUp, Asleep
<1> QED
  BY <1>1, WakeUpInvCorrect, FreshCopiesInvariant, PTL

=============================================================================
