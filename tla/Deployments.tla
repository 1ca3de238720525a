---------------------------- MODULE Deployments ----------------------------
(***************************************************************************)
(* A Deployment as pkg/resources/reconcile.go sees it, and the pure part   *)
(* of ReconcileDeployment: the Deployment built from a custom resource,    *)
(* the comparison with the one found, and the object an update sends.      *)
(*                                                                         *)
(* What the operator builds from one state of the custom resource (labels, *)
(* volumes, containers, image, environment) is abstracted to the number    *)
(* of that state, its generation: two generations are two different pod    *)
(* templates.  Template 0 is any template the operator does not build: the *)
(* one of an older operator version, or one somebody edited.               *)
(***************************************************************************)
EXTENDS Naturals

CONSTANTS
  MaxGen,        \* bound: the last generation the custom resource reaches
  CrReplicas,    \* spec.replicas in each generation; 0 is "not set"
  ScaledTo,      \* the replica counts a customer scales to
  RestartTimes,  \* values of the label certmanager.k8s.io/time-restarted
  HeapSizes,     \* values of the variable NODE_HEAP_SIZE
  NoLabel,       \* the label is not there
  NoHeapSize     \* the variable is not there

ASSUME BoundsAssumption ==
  /\ MaxGen \in Nat \ {0}
  /\ CrReplicas \in [1..MaxGen -> Nat]
  /\ ScaledTo \subseteq Nat

ASSUME MarkersAssumption ==
  /\ NoLabel \notin RestartTimes
  /\ NoHeapSize \notin HeapSizes

Generations == 1..MaxGen

\* Containers[0].Env holds at most one NODE_HEAP_SIZE; the label is written by
\* cert-manager on the Deployment and on its pod template in one update, so one
\* field stands for both copies.  owner is the uid of the custom resource in
\* the controller reference, 0 when there is no Deployment.
Deployment ==
  [ owner    : Nat,
    template : 0..MaxGen,
    replicas : Nat,
    label    : RestartTimes \cup {NoLabel},
    heapSize : HeapSizes \cup {NoHeapSize} ]

NoDeployment ==
  [ owner |-> 0, template |-> 0, replicas |-> 0,
    label |-> NoLabel, heapSize |-> NoHeapSize ]

Exists(d) == d.owner # 0

\* "replicas" should be set in the CR; if it is not, the default is used.
Replicas(g) == IF CrReplicas[g] > 0 THEN CrReplicas[g] ELSE 1

\* The Deployment built from generation g of the custom resource with this uid.
NewDeployment(g, uid) ==
  [ owner |-> uid, template |-> g, replicas |-> Replicas(g),
    label |-> NoLabel, heapSize |-> NoHeapSize ]

\* Mutants: the heap size is forgotten; it is copied from the wrong place.
WithPreservedLabelOnly(old, new) ==
  [ new EXCEPT !.label = IF old.label # NoLabel THEN old.label ELSE @ ]
WithPreservedMixedUp(old, new) ==
  [ new EXCEPT !.label    = IF old.label # NoLabel THEN old.label ELSE @,
               !.heapSize = IF old.label # NoLabel THEN old.label ELSE @ ]

\* IsDeploymentEqual first copies cert-manager's label and the customer's heap
\* size from the Deployment found into the one built ...
WithPreserved(old, new) ==
  [ new EXCEPT !.label    = IF old.label # NoLabel THEN old.label ELSE @,
               !.heapSize = IF old.heapSize # NoHeapSize THEN old.heapSize ELSE @ ]

\* Mutant: the replicas must be equal.
IsDeploymentEqualStrict(old, new) == old = [WithPreserved(old, new) EXCEPT !.owner = old.owner]

\* ... and compares the result, allowing a Deployment that is scaled to 0.
IsDeploymentEqual(old, new) ==
  LET kept == WithPreserved(old, new)
  IN  /\ old.label = kept.label
      /\ old.replicas = kept.replicas \/ old.replicas = 0
      /\ old.template = kept.template
      /\ old.heapSize = kept.heapSize

\* Mutant: a Deployment scaled to 0 gets the replicas of the spec.
UpdatedDeploymentScales(old, new) == [WithPreserved(old, new) EXCEPT !.owner = old.owner]

\* What ReconcileDeployment sends in its update: the spec it built, in the
\* object it found (whose owner references it leaves alone), except that a
\* Deployment found scaled to 0 stays at 0.
UpdatedDeployment(old, new) ==
  [ WithPreserved(old, new) EXCEPT
      !.owner    = old.owner,
      !.replicas = IF old.replicas = 0 THEN 0 ELSE @ ]

=============================================================================
