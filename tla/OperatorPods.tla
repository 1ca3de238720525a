----------------------------- MODULE OperatorPods -----------------------------
(***************************************************************************)
(* The operator's own pods: the start of cmd/manager/main.go, step by      *)
(* step, in every pod the Deployment of deploy/operator.yaml has over      *)
(* time.  A roll-out has the new pod next to the old one, containers exit  *)
(* and are started again, pods are evicted.  What the controllers' modules *)
(* take for granted, that one process reconciles at a time, rests on the   *)
(* lock taken here and on its place among the steps.                       *)
(*                                                                         *)
(* External: leader.Become, which makes a ConfigMap that the pod owns, and *)
(* waits while another pod owns it; the garbage collector, which deletes   *)
(* it with that pod; the kubelet and the deployment controller.            *)
(***************************************************************************)
EXTENDS Naturals

CONSTANTS
  MaxPods,      \* bound: pods of the operator, numbered as they are made
  MaxRollouts,  \* bound: changes of the Deployment's pod template
  MaxFaults     \* bound: exits, failing calls, evictions

ASSUME PodsAssumption ==
  MaxPods \in Nat /\ MaxRollouts \in Nat /\ MaxFaults \in Nat

VARIABLES
  revision,  \* of the Deployment's pod template
  phase,     \* of each pod
  made,      \* the revision each pod was made from
  at,        \* the next step of the process in each pod; "down" if there is none
  lock,      \* the pod that owns the ConfigMap ibm-metering-operator-lock
  faults

vars == <<revision, phase, made, at, lock, faults>>

Pods == 1..MaxPods
NoPod == 0

Phases == {"unborn", "running", "evicted", "terminating", "gone"}
Steps == {"configure", "become", "register", "metrics", "managing"}

\* The steps for which a process must be the leader, the last of which is the
\* controllers at work.
Leading == {"register", "metrics", "managing"}

TypeOK ==
  /\ revision \in 0..MaxRollouts /\ faults \in 0..MaxFaults
  /\ phase \in [Pods -> Phases] /\ made \in [Pods -> 0..MaxRollouts]
  /\ at \in [Pods -> Steps \cup {"down"}]
  /\ lock \in Pods \cup {NoPod}

Init ==
  /\ revision = 0 /\ faults = 0 /\ lock = NoPod
  /\ phase = [p \in Pods |-> "unborn"] /\ made = [p \in Pods |-> 0]
  /\ at = [p \in Pods |-> "down"]

-----------------------------------------------------------------------------
(* The Deployment and its pods.                                            *)

Running == {p \in Pods : phase[p] = "running"}

\* Mutant: a readiness probe that only the leader answers.
ReadyWhenManaging == {p \in Running : at[p] = "managing"}

\* There is no readiness probe: a container that runs is ready.
Ready == {p \in Running : at[p] # "down"}

RollOut ==
  /\ revision < MaxRollouts /\ revision' = revision + 1
  /\ UNCHANGED <<phase, made, at, lock, faults>>

\* One replica, and by default one more during a roll-out.
CreatePod(p) ==
  /\ phase[p] = "unborn" /\ \A q \in 1..(p - 1) : phase[q] # "unborn"
  /\ \A q \in Running : made[q] # revision
  /\ \A q, r \in Running : q = r
  /\ phase' = [phase EXCEPT ![p] = "running"] /\ made' = [made EXCEPT ![p] = revision]
  /\ UNCHANGED <<revision, at, lock, faults>>

\* A pod of an older template goes when another is ready, or is not ready itself.
RetirePod(p) ==
  /\ p \in Running /\ made[p] # revision
  /\ p \notin Ready \/ \E q \in Ready : q # p
  /\ phase' = [phase EXCEPT ![p] = "terminating"]
  /\ UNCHANGED <<revision, made, at, lock, faults>>

\* The kubelet stops the process, and then lets the pod's object go.
StopPod(p) ==
  /\ phase[p] = "terminating" /\ at' = [at EXCEPT ![p] = "down"]
  /\ phase' = [phase EXCEPT ![p] = IF at[p] = "down" THEN "gone" ELSE @]
  /\ UNCHANGED <<revision, made, lock, faults>>

EvictPod(p) ==
  /\ p \in Running /\ faults < MaxFaults /\ faults' = faults + 1
  /\ phase' = [phase EXCEPT ![p] = "evicted"] /\ at' = [at EXCEPT ![p] = "down"]
  /\ UNCHANGED <<revision, made, lock>>

\* With its pod gone the ConfigMap is collected.  An evicted pod stays, and is
\* deleted by the pods that wait for its lock.
ReleaseLock ==
  /\ lock # NoPod
  /\ \/ phase[lock] = "gone"
     \/ phase[lock] = "evicted" /\ \E p \in Pods : at[p] = "become"
  /\ lock' = NoPod
  /\ UNCHANGED <<revision, phase, made, at, faults>>

StartContainer(p) ==
  /\ p \in Running /\ at[p] = "down"
  /\ at' = [at EXCEPT ![p] = "configure"]
  /\ UNCHANGED <<revision, phase, made, lock, faults>>

-----------------------------------------------------------------------------
(* main.                                                                   *)

Go(p, step) == at' = [at EXCEPT ![p] = step]

Configure(p) ==
  /\ at[p] = "configure" /\ Go(p, "become")
  /\ UNCHANGED <<revision, phase, made, lock, faults>>

\* A container that was started again finds its own pod's lock.
BecomeLeader(p) ==
  /\ at[p] = "become" /\ lock \in {NoPod, p}
  /\ lock' = p /\ Go(p, "register")
  /\ UNCHANGED <<revision, phase, made, faults>>

\* manager.New, the schemes, AddToManager.
Register(p) ==
  /\ at[p] = "register" /\ Go(p, "metrics")
  /\ UNCHANGED <<revision, phase, made, lock, faults>>

\* Whatever fails here is logged, and the manager is started.
AddMetrics(p) ==
  /\ at[p] = "metrics" /\ Go(p, "managing")
  /\ UNCHANGED <<revision, phase, made, lock, faults>>

\* Mutant: the error of leader.Become is logged like those of the metrics.
ExitLocklessly(p) ==
  /\ at[p] # "down" /\ faults < MaxFaults /\ faults' = faults + 1
  /\ lock' \in IF at[p] = "become" /\ lock = NoPod THEN {NoPod, p} ELSE {lock}
  /\ Go(p, IF at[p] = "become" THEN "register" ELSE "down")
  /\ UNCHANGED <<revision, phase, made>>

\* Every other step that fails exits, and the process may die at any time, in
\* leader.Become before or after the ConfigMap was made.
Exit(p) ==
  /\ at[p] # "down" /\ faults < MaxFaults /\ faults' = faults + 1
  /\ lock' \in IF at[p] = "become" /\ lock = NoPod THEN {NoPod, p} ELSE {lock}
  /\ Go(p, "down")
  /\ UNCHANGED <<revision, phase, made>>

Process(p) == Configure(p) \/ BecomeLeader(p) \/ Register(p) \/ AddMetrics(p)

Next ==
  \/ RollOut \/ ReleaseLock
  \/ \E p \in Pods : \/ CreatePod(p) \/ RetirePod(p) \/ StopPod(p) \/ EvictPod(p)
                     \/ StartContainer(p) \/ Process(p) \/ Exit(p)

Spec == Init /\ [][Next]_vars

\* The deployment controller, the kubelet, the garbage collector and the
\* processes keep going.
FairSpec ==
  /\ Spec /\ WF_vars(ReleaseLock)
  /\ WF_vars(\E p \in Pods : CreatePod(p))
  /\ \A p \in Pods : /\ WF_vars(RetirePod(p)) /\ WF_vars(StopPod(p))
                     /\ WF_vars(StartContainer(p)) /\ WF_vars(Process(p))

-----------------------------------------------------------------------------
(* Properties.                                                             *)

\* "Become the leader before proceeding": in no two pods is a process past that
\* point, through roll-outs, exits and evictions, so one at most reconciles.
OneReconciles == \A p, q \in Pods : at[p] \in Leading /\ at[q] \in Leading => p = q

\* A roll-out does not stop half-way, with the old pod kept until the new one is
\* ready and the new one waiting for the old one's lock: in the end a pod of the
\* newest template reconciles.
EventuallyRolledOut ==
  <>[]\E p \in Pods : at[p] = "managing" /\ phase[p] = "running" /\ made[p] = revision

=============================================================================
