-------------------------- MODULE OperatorPodsProofs --------------------------
(***************************************************************************)
(* However many pods, roll-outs and faults there are, at most one process  *)
(* reconciles.  The invariant: a process past leader.Become owns the lock, *)
(* and a pod that is not running and not terminating has no process, so    *)
(* that the lock is only ever released when its owner is down.             *)
(***************************************************************************)
EXTENDS OperatorPods, TLAPS

LeaderOwnsLock == \A p \in Pods : at[p] \in Leading => lock = p

NoProcess == \A p \in Pods : phase[p] \in {"unborn", "evicted", "gone"} => at[p] = "down"

IInv == TypeOK /\ LeaderOwnsLock /\ NoProcess

LEMMA PodsArePositive == \A p \in Pods : p # NoPod
  BY PodsAssumption DEF Pods, NoPod

\* In the first state there is no process and no lock.
LEMMA InitIInv == Init => IInv
  BY PodsAssumption DEF Init, IInv, TypeOK, LeaderOwnsLock, NoProcess, Phases, Steps, Leading

\* The bounds of the two counters that are counted up.
LEMMA Counting ==
  ASSUME IInv
  PROVE  /\ revision < MaxRollouts => revision + 1 \in 0..MaxRollouts
         /\ faults < MaxFaults => faults + 1 \in 0..MaxFaults
  BY PodsAssumption DEF IInv, TypeOK

\* Every step keeps the invariant; only leader.Become gives the lock away, and
\* takes it only when nobody or this pod itself has it.
LEMMA StepIInv == IInv /\ [Next]_vars => IInv'
<1> SUFFICES ASSUME IInv, [Next]_vars PROVE IInv'
  OBVIOUS
<1> USE DEF IInv, TypeOK, LeaderOwnsLock, NoProcess
<1>1. CASE RollOut
  BY <1>1, Counting DEF RollOut
<1>2. CASE ReleaseLock
  BY <1>2 DEF ReleaseLock, Leading
<1>3. ASSUME NEW p \in Pods, CreatePod(p) PROVE IInv'
  BY <1>3 DEF CreatePod, Phases, Leading
<1>4. ASSUME NEW p \in Pods, RetirePod(p) PROVE IInv'
  BY <1>4 DEF RetirePod, Running, Phases
<1>5. ASSUME NEW p \in Pods, StopPod(p) PROVE IInv'
  BY <1>5 DEF StopPod, Phases, Leading
<1>6. ASSUME NEW p \in Pods, EvictPod(p) PROVE IInv'
  BY <1>6, Counting DEF EvictPod, Phases, Leading
<1>7. ASSUME NEW p \in Pods, StartContainer(p) PROVE IInv'
  BY <1>7 DEF StartContainer, Running, Steps, Leading
<1>8. ASSUME NEW p \in Pods, Configure(p) PROVE IInv'
  BY <1>8 DEF Configure, Go, Steps, Leading
<1>9. ASSUME NEW p \in Pods, BecomeLeader(p) PROVE IInv'
  <2>1. \A q \in Pods : at[q] \in Leading => q = p
    BY <1>9, PodsArePositive DEF BecomeLeader
  <2>2. TypeOK' /\ NoProcess'
    BY <1>9 DEF BecomeLeader, Go, Steps
  <2>3. LeaderOwnsLock'
    BY <1>9, <2>1 DEF BecomeLeader, Go, Leading
  <2> QED
    BY <2>2, <2>3
<1>10. ASSUME NEW p \in Pods, Register(p) PROVE IInv'
  BY <1>10 DEF Register, Go, Steps, Leading
<1>11. ASSUME NEW p \in Pods, AddMetrics(p) PROVE IInv'
  BY <1>11 DEF AddMetrics, Go, Steps, Leading
<1>12. ASSUME NEW p \in Pods, Exit(p) PROVE IInv'
  <2>1. lock' \in Pods \cup {NoPod}
    BY <1>12 DEF Exit
  <2>2. TypeOK' /\ NoProcess'
    BY <1>12, <2>1, Counting DEF Exit, Go, Steps
  <2>3. LeaderOwnsLock'
    BY <1>12, PodsArePositive DEF Exit, Go, Leading
  <2> QED
    BY <2>2, <2>3
<1>13. CASE UNCHANGED vars
  BY <1>13 DEF vars
<1> QED
  BY <1>1, <1>2, <1>3, <1>4, <1>5, <1>6, <1>7, <1>8, <1>9, <1>10, <1>11, <1>12, <1>13
     DEF Next, Process

\* The types hold in every reachable state.
THEOREM TypeCorrect == Spec => []TypeOK
<1>1. IInv => TypeOK
  BY DEF IInv
<1> QED
  BY InitIInv, StepIInv, <1>1, PTL DEF Spec

\* At most one process is past leader.Become, whatever the pods go through.
THEOREM OneReconcilesCorrect == Spec => []OneReconciles
<1>1. IInv => OneReconciles
  BY DEF IInv, LeaderOwnsLock, OneReconciles
<1> QED
  BY InitIInv, StepIInv, <1>1, PTL DEF Spec

=============================================================================
