------------------------- MODULE DeploymentContract -------------------------
(***************************************************************************)
(* What the operator promises about one Deployment of one custom resource, *)
(* without caches, versions, queues, calls that fail or restarts: it       *)
(* creates the Deployment when there is none, and otherwise changes it in  *)
(* one atomic step from the Deployment as it is, keeping what customer and *)
(* cert-manager put there, to what a state of the custom resource asks     *)
(* for, and it never goes back to an older state of the resource than one  *)
(* it acted upon.                                                          *)
(***************************************************************************)
EXTENDS Deployments

VARIABLES
  resource,  \* the custom resource: live, uid and generation
  dep,       \* the Deployment
  seen       \* the uid and generation the operator acts upon

vars == <<resource, dep, seen>>

Init ==
  /\ resource = [live |-> TRUE, uid |-> 1, gen |-> 1]
  /\ dep = NoDeployment \/ (dep \in Deployment /\ dep.owner = 1 /\ dep.template = 0)
  /\ seen = [uid |-> 1, gen |-> 1]

EditResource ==
  /\ resource.live /\ resource.gen < MaxGen
  /\ resource' = [resource EXCEPT !.gen = @ + 1]
  /\ UNCHANGED <<dep, seen>>

DeleteResource ==
  /\ resource.live
  /\ resource' = [live |-> FALSE, uid |-> resource.uid, gen |-> resource.gen]
  /\ UNCHANGED <<dep, seen>>

CreateResource ==
  /\ ~resource.live /\ resource.gen < MaxGen
  /\ resource' = [live |-> TRUE, uid |-> resource.gen + 1, gen |-> resource.gen + 1]
  /\ UNCHANGED <<dep, seen>>

\* Others scale, edit, label or delete the Deployment.
ChangedByOthers ==
  /\ Exists(dep)
  /\ \/ dep' = NoDeployment
     \/ \E n \in ScaledTo : dep' = [dep EXCEPT !.replicas = n]
     \/ \E h \in HeapSizes : dep' = [dep EXCEPT !.heapSize = h]
     \/ \E t \in RestartTimes : dep' = [dep EXCEPT !.label = t]
     \/ dep' = [dep EXCEPT !.template = 0]
  /\ UNCHANGED <<resource, seen>>

CollectGarbage ==
  /\ Exists(dep)
  /\ ~(resource.live /\ resource.uid = dep.owner)
  /\ dep' = NoDeployment
  /\ UNCHANGED <<resource, seen>>

\* The operator learns of a state of the resource, late perhaps, but never of
\* an older one.
Observe ==
  /\ seen' \in [uid : Generations, gen : seen.gen..resource.gen]
  /\ UNCHANGED <<resource, dep>>

Create ==
  /\ ~Exists(dep)
  /\ dep' = NewDeployment(seen.gen, seen.uid)
  /\ UNCHANGED <<resource, seen>>

Apply ==
  /\ Exists(dep)
  /\ dep' = UpdatedDeployment(dep, NewDeployment(seen.gen, seen.uid))
  /\ UNCHANGED <<resource, seen>>

Next ==
  \/ EditResource \/ DeleteResource \/ CreateResource
  \/ ChangedByOthers \/ CollectGarbage
  \/ Observe \/ Create \/ Apply

Spec == Init /\ [][Next]_vars

=============================================================================
