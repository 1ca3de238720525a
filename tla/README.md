# Verification of ibm-metering-operator

TLA+ models of the controllers of the IBM Metering operator, TLC
configurations that check them on small instances, and TLAPS proofs that hold
for every instance. Paths below are relative to the repository; `SENDER` is
`pkg/controller/meteringsender/meteringsender_controller.go`, `METERING` is
`pkg/controller/metering/metering_controller.go`, `RECONCILE` is
`pkg/resources/reconcile.go` and `UTILS` is `pkg/resources/utils.go`.

## 1. The system

The operator is one process with five controllers built on controller-runtime,
each for a custom resource (CR). A controller keeps no state of its own between
runs: everything is in the Kubernetes API server. What makes it a concurrent
system is that a run reads from an informer cache, which lags behind the
server, and writes to the server, which customers, cert-manager, the deployment
controller and the garbage collector write to as well.

| component | state | operations | interacts with |
|---|---|---|---|
| Metering controller (`METERING`) | CR status; 3 Services, Route, 2 Deployments, 3 Ingresses, 2 Certificates; globals `isRACMHub`, `routeHost` | `Reconcile`, `add` (watches) | shared Reconcile functions, cert-manager (writes the receiver's Secret), IngressController and RHACM lookups, the DaemonSet of version 3.5 |
| MeteringSender controller (`SENDER`) | CR status; one Deployment | `Reconcile`, `add` | `ReconcileDeployment` |
| MeteringUI, MeteringMultiCloudUI controllers | CR status; Service, Deployment, Ingress, Certificate | `Reconcile`, `add` | shared Reconcile functions |
| MeteringReportServer controller | CR status; Service, Deployment, APIService (not watched) | `Reconcile`, `reconcileAPIService`, `add` | shared Reconcile functions; mounts the Secret of the Metering controller's API Certificate |
| `RECONCILE` | none | `ReconcileX` (get, create or compare and update), `IsXEqual` | client, cache |
| `UTILS`, `pkg/resources/containers.go` | package variables with default objects | builders of labels, volumes, containers, environment, images, resources | called by all controllers |
| API types (`pkg/apis/operator/v1alpha1`) | the CRs | generated deep copies | |
| `cmd/manager/main.go` | one process per operator pod; the lock, a ConfigMap | leader lock, start of the manager, metrics | kubelet, deployment controller, garbage collector |

### What is hard here, and what must be true

* **Stale caches.** A create may meet the object it just created; an update may
  be computed from a copy others have overwritten. *Needed:* the version check
  of the server makes each update one atomic step from the object as it is, and
  what is preserved from the copy is what is on the server.
* **Settings that belong to others.** cert-manager's restart label, the
  customer's `NODE_HEAP_SIZE` and a scale to 0 share an object with the fields
  the operator replaces. *Needed:* they survive every race with an update.
* **An API that may be missing.** Without cert-manager the watch of Certificates fails,
  which `add` tolerates, and each run ends at the first Certificate; installed later,
  cert-manager is still not watched. *Needed:* installation goes on when it comes, and
  what does not depend on the watch is as good as ever.
* **Lost wake-ups.** A run ends early in many ways: an error, a refused update,
  `Requeue`, "not found", or as a success that swallowed an error. *Needed:*
  whenever the controller sleeps and no watched event is under way, nothing is
  left to do.
* **Progress.** The operator's own writes wake it again; status lists come in
  random order. *Needed:* it converges and comes to rest.
* **Re-creation and restarts.** A run may act for a CR that was deleted and
  created again; an operator may restart between any two calls. *Needed:*
  never back to an older generation; in the end the owner is the live CR.
* **Switching the receiver.** Objects are removed by a run that sees them in
  its cache, with errors logged and forgotten, some kinds unwatched, and the
  Secret handled only along with the Certificate.
* **Two operators.** During a roll-out there are two pods of the operator, and a
  process may die at any point. *Needed:* one process reconciles at a time, and a
  roll-out ends.
* **What belongs to whom in one object.** The server fills in addresses and node
  ports, others set what the operator does not care about. *Needed:* updates are
  accepted and leave these alone, comparisons do not look at them, and yet what is
  the operator's always comes back.
* **Fixed names.** The objects' names do not depend on the CR, so two CRs of a
  kind share them. *Needed:* what the documentation promises each CR.
* **Three lists and two functions.** A pod's volumes, its mounts, and the names
  and directories of its secret check are built in different places. *Needed:*
  they fit together for every CR, and the comparison overlooks nothing a CR can
  change.

The full list, with lines and the properties that answer each item, is
`hazards` in `PROJECT.json`.

## 2. Modules

| module | models | role |
|---|---|---|
| `Deployments` | the pure part of `ReconcileDeployment`: the Deployment built from a CR, `IsDeploymentEqual` with what it copies before comparing, the object an update sends | definitions |
| `DeploymentContract` | what the operator promises about one Deployment: no cache, no versions, no faults | abstract specification |
| `MeteringSender` | the MeteringSender controller, one action per call it makes, with cache, queue, environment and faults | component |
| `MCMeteringSender` | constants | model checking |
| `MeteringSenderProofs` | types, order, preserved settings and refinement of `MeteringSender`, for all constants | proofs |
| `MeteringSenderWakeUpProofs` | `MeteringSender` loses no wake-up, for all constants | proofs |
| `Metering` | the Metering controller with all its objects, one action per object | component |
| `MCMetering` | constants | model checking |
| `MeteringProofs` | types of `Metering`, what its old marks mean, and the end of the old DaemonSet, for all constants | proofs |
| `MeteringWakeUpProofs` | `Metering` loses no wake-up, removes a disabled receiver and keeps the host of an enabled one, for all constants | proofs |
| `OperandReconcile` | the controllers of MeteringUI, MeteringMultiCloudUI and MeteringReportServer, with several CRs | component |
| `MCOperandReconcile` | how the controllers start | model checking |
| `OperandReconcileProofs` | types of `OperandReconcile`; one CR loses no wake-up | proofs |
| `PodTemplates` | the pods the six operands' Deployments ask for, the comparison that decides on an update, and what the API server refuses | builders |
| `MCPodTemplates` | the CRs | model checking |
| `PodTemplatesProofs` | all invariants of `PodTemplates`, for every CR and image | proofs |
| `Exposure` | the Services, Ingresses, Certificates, the Route and the APIService field by field: built, compared, updated, and whether requests get through | builders |
| `ExposureProofs` | all properties of `Exposure`, for every issuer, domain and number of changes | proofs |
| `OperatorPods` | `main` in every pod the operator has over time, with the leader lock | component |
| `OperatorPodsProofs` | one process reconciles, for any number of pods, roll-outs and faults | proofs |

`OperatorPods` justifies the other modules' one operator process; `Exposure` and
`PodTemplates` open up the content that `Metering`, `OperandReconcile` and
`MeteringSender` keep abstract, and leave out what those have: caches, watches
and the steps of a run.

Definitions named `...Forgotten`, `...Unwatched`, `...ButEnv` and the like, each
marked "Mutant", are plausible bugs of the definition that follows them. They
are used by no specification; substituting one for the original must make the
property it belongs to fail, which shows that the property depends on that code.

### MeteringSender and Deployments

State: `cr`, `dep`, `pods` are the server's objects; `crCache`, `depCache`,
`podCache` the informer cache; `queued` the work queue, which holds at most the
one request of this CR; `pc`, `inst`, `cur` the local variables of `Reconcile`
(`instance`) and `ReconcileDeployment` (`currentDeployment`). Actions and code:

| action | code |
|---|---|
| `StartReconcile` | take the request, `Get` of the CR, "not found" (`SENDER` 113-141) |
| `SetDefaultStatus` | default status (139-148) |
| `GetDeployment` | `Get`, choice of create, update or nothing (`RECONCILE` 136-160) |
| `CreateDeployment` | create, AlreadyExists, requeue (138-153; `SENDER` 171-178) |
| `UpdateDeployment` | update with the preserved fields, conflict (158-177) |
| `NamesAsBefore`, `NamesChanged`, `UpdateStatus` | pod list and status (`SENDER` 180-212) |
| `CallFails` | any call returns an error, a write perhaps having taken effect |
| `Resync` | the informers hand out again what they hold, every ten hours |
| `Restart` | the process dies at any point and starts again |
| `SyncCr`, `SyncDeployment`, `SyncPods` | informers, and the watches of `add` (68-93) |
| `EditCr`, `DeleteCr`, `CreateCr`, `EditDeployment`, `ChangePods`, `CollectGarbage` | external: customer, cert-manager, deployment controller, garbage collector |

Abstractions:

* *Content.* What is built from a state of the CR is the number of that state,
  its generation; two generations give different pod templates. Template 0 is
  one this operator does not build. The fields others own are kept apart:
  replicas, restart label, heap size. The label sits on the Deployment and on its
  pod template, both written in one update, so one field stands for both.
* *Versions.* An update is accepted if its copy has the current
  resourceVersion. Versions are never reused, so one Boolean per copy says
  whether it still has it; every write clears it in all other copies. This is
  the whole effect of version numbers, without an unbounded counter.
* *Cache.* A cache jumps to the server's present object. A cache that passes
  through the versions in between adds no behaviour: an update from one of them
  is refused like one from a still older copy, and stopping at one of them is
  the same as having jumped before the later writes.
* *Restart.* The new cache is taken to be listed from the one API server, so that it
  is not older than the old one; what it has newer is a `Sync` step after the restart. This is
  an assumption about the server and not about the operator: a list served from an
  API server's watch cache that is behind would break `GenerationsInOrder`.
* *Pods.* The names are a permutation of a set: a list call returns the pods of
  a Go map.

### Metering

One run goes through `After`: default status, lookups, the Services and the
Route, the Deployments, the Ingresses (one object: the same loop handles all
three), the Certificates, the old DaemonSet, the status. An object is absent,
what a run builds ("basic", or "extended" when the DM Deployment mounts the
receiver's Secret or the Certificate names the route's host), or "edited".

The read, the comparison and the write of an object are one step. The cached
object may lag for as long as it likes, so a write in the same step meets
everything a later write would: a copy that became stale after the read is a
copy that was stale at the read. `MeteringSender` keeps the two apart. `Sync(k)`
brings a kind up to date and wakes the controller if it watches that kind; Routes,
Secrets and DaemonSets are not watched, and Certificates only if their watch did not
fail (`METERING` 110-165). `certs` says so: "none" if the cluster does not serve them, so
that each run ends with the Get of the first Certificate; "unwatched" after
`InstallCertManager`, or if the watch failed when the operator started over a cluster that
serves them; "watched". A restart tries the watch again. `Lookup` sets the
globals and swallows errors (227-257), and an IngressController that does not name its
domain yet (`domain`, `LearnDomain`) leaves the host empty without any error; `Remove` swallows errors of deletes
(404-436, 479-513, 924-947). cert-manager issues a Secret for a Certificate in
two steps, so that it may finish after the Certificate was deleted.

Generation 0 is a deleted CR. Everything in `Owned` has the CR as its controller
reference and is collected, the objects of a kind together; the Secret is
cert-manager's and the DaemonSet is that of an older operator, so both stay.
A run that began before goes on and may create objects again; these are collected
too, and the run after it finds no CR (`METERING` 200-207).

### OperandReconcile

The same pattern for a set of CRs, each of which may be deleted: `Kept` says which objects a controller has,
`After` in which order a run handles them, `queue` holds one request per CR.
MeteringUI and MeteringMultiCloudUI differ in names only and are both "ui". An
object carries its owner, what it selects (Services and Deployments select the
pods of a CR by its name) and the generation it was built from; the comparisons
do not look at the owner and the updates leave it alone. External: the API
server, which refuses an update from an old copy or of a Deployment's selector
(`Accepted`), and the garbage collector.

| action | code (MeteringUI; `reconcileAPIService` of the report server is the same pattern) |
|---|---|
| `StartReconcile`, `SetDefaultStatus` | 146-181 |
| `CreateObject`, `KeepObject`, `UpdateObject` | the calls of `ReconcileService`, `-Deployment`, `-Ingress`, `-Certificate` |
| `UpdateStatus` | the requeue after a create, the pod names (235-276) |
| `CertificatesUnserved` | the Get of a Certificate where `certs` is "none", as in `Metering` (431-454) |
| `Sync`, `SyncCr` | the watches of `add` (72-126) |

A controller starts in a new cluster or over what an older operator made for a CR
(`Older`), so that an object nobody watches, the APIService or a Certificate whose watch
failed, is updated too, and its update may be refused or fail.

### PodTemplates

Pure builders as operators: one `...Template` per operand puts together
`CommonVolumes`, `SecretCheckContainer`, `InitContainer` and `MainContainer` as the
`deploymentFor...` functions do; `IsPodTemplateEqual` is the comparison. Around
them a small machine: the CR is edited, the operator is replaced by a release with
other images, or somebody changes a part of the template, and a run compares and
updates. `Accepted` is the API server's validation as far as the builders can miss
it: every mount has a volume, no two mounts of a container have one path, a request
is within its limit. A run that is refused ends with an error and changes nothing.

`ImageID` is `GetImageID`: a digest stands for itself, a tag or the default gets the
CR's postfix. `ResourceRequirements` merges the CR's amounts with the defaults, each
for itself. `CommonClusterEnv`, `UIClusterEnv`, `SenderClusterEnv` and `MongoEnv` are
the variables that come from the CR, with their defaults, MongoDB's port and the keys in
its secrets among them, as are the namespaces the reader excludes; "own" is the CR's
namespace. A secret or directory name is a pair of prefix and base, so that
"muser-x" is `<<"muser", "x">>`; no name in a CR is taken to begin with one of these
prefixes. One resource (memory) stands for both. What is the same
in every template (labels, probes, commands, constant variables) is left out.

### Exposure

`Order` lists the objects a controller keeps, in the order of its run; `Built`
says what it builds for each, from the CR (receiver, issuer), the hub and the
IngressController's domain. `Equal` and `Updated` are the `IsXEqual` and the
assignments of the `ReconcileX` functions, field by field. `Stored` and `Accepted` are
the API server's part: addresses, node ports, the immutable address. A run is one step up to the
first error (a Route without a domain) or crash (`Result`); the caches in between
are the other modules' matter. `Edits` is what others may do to an object: each field
that the code compares, one it does not, and one that only others set.
Names of ports and labels are strings of the code; a path, an annotation or a set
of DNS names is what it takes to tell two of them apart.

### OperatorPods

A pod goes from "unborn" to "running" and then to "evicted" or by "terminating" to
"gone"; `at` is the next step of its process. `BecomeLeader` is `leader.Become`:
it succeeds if there is no lock or the lock is the pod's own, which is how a
restarted container goes on. `Exit` is every `os.Exit` of `main` and any other death.
External: one replica, rolled out with one pod more, which waits to be ready before
the old pod goes (`deploy/operator.yaml` has neither a strategy nor a probe, so a
container that runs is ready); the lock disappears with its pod's object, and the
kubelet lets that go only when the process has stopped; waiting pods delete an evicted owner.

## 3. Runs

| run | question | bounds |
|---|---|---|
| `sender` | safety, refinement, convergence and rest of MeteringSender | 2 generations, any initial Deployment, 1 write by others, 2 pods, 1 fault |
| `metering_install` | from an empty cluster or over 3.5: asleep, is everything there and the DaemonSet gone? | 1 generation with receiver and hub; the domain comes late; with cert-manager, or it comes late; 1 fault |
| `metering_switched` | asleep, is nothing left to do; convergence and rest | receiver on, off, on over an installation with watched Certificates; the receiver's edited or deleted once; 1 fault |
| `metering_deleted` | is nothing left of a deleted CR, and does nothing come back? | 1 generation, deletion at any point; no fault |
| `metering_receiver` | are the objects of a disabled receiver removed? (violated) | receiver off, on, off; no fault |
| `operand_served` | asleep, is all there, does it come back, and go with the CR? | a user interface with cert-manager or without, the report server in a new cluster and over an older operator's objects; 1 CR of 2 generations; and once: its deletion, an object edited or deleted, or a fault |
| `operand_shared` | has each CR its objects? (violated) | 2 CRs, one deleted; no fault |
| `pods` | do the parts of a template fit together, what is refused, and does an update reach all parts? | CRs that differ in one field, in the six names of the surroundings or in MongoDB's address and keys, 7 pairs of amounts, 3 images, 2 changes between two runs |
| `pods_secrets` | is a CR with another user secret served? (violated) | 2 names of that secret |
| `exposure` | does a run restore what is the operator's and leave the rest, and do requests get through? | each controller, 2 changes of any kind, 2 issuers, 3 domains |
| `exposure_route` | does it restore a Route without a port? (violated) | 1 change |
| `operator_pods` | does one process reconcile, and does a roll-out end? | 2 roll-outs, 3 faults, 6 pods, which is one for each and the first |

Why the bounds are enough: the races have three parties, an old copy, a write
by others, and a write computed from the copy. Two generations give an old and
a new CR, also a deleted and a re-created one; one write by others on any
initial object is before, between or after the read and the write of a run; one
fault at any call or a restart at any point can be followed by everything else.
The combinations that `operand_served` and `metering_switched` leave out, a fault and a write
by others around one run, an operator that starts where the watch of Certificates fails, are
in the safety theorems of section 5.
In `pods` an update of a part compares two values of each field (the names of namespaces, cluster
and hub change together, and so do MongoDB's host, port and keys, since they all end in variables, which are compared as a whole), and no
builder relates two fields beyond equality and the order of a limit and a request,
for which amounts below, at and above the defaults occur. In `exposure` two changes
are an edit that meets another edit, or a change of the settings.
Of a Route only `exposure_route` has the port removed. The theorems of section 5 do
not depend on the bounds. Deadlock is checked in the `pods` runs only, because the
budgets of the environment run out and a system at rest has nothing to do; that
it rests only where it should is what `NoLostWakeUp` says.

Fairness: the worker keeps running (weak fairness of `Reconcile`), watches
deliver, the garbage collector and cert-manager work; in `OperatorPods` the
deployment controller, the kubelet and each process go on. The only strong fairness
is on `NamesAsBefore`: Go picks the order of a map at random at each
iteration, so a list equal to the status comes up again and again and is met in
the end. Customers, pods and faults owe nothing, and no property relies on the
resync of the informers, which repairs after ten hours what a lost wake-up
left.

What the runs show: apart from the findings the controllers keep their safety
properties and converge. `EventuallyIdle` is not obvious: the status write of a
run wakes the controller, and with two pods it ends only because some list
equals the previous one. Nor is `RemovalComplete`: a run removes what its
cache shows, and it takes the events of both objects to bring about the run that sees
the rest. It speaks of runs without a failed call, because the errors of the deletes are
logged and forgotten (`METERING` 410-419): one failure is often made good by the run
that the event of the other deleted object causes, but not always. With four
generations, receiver on, off, on and off again, TLC finds an object left by one failed delete, if
the cache still shows neither object when the last run looks.
It speaks of the Certificate only where Certificates are watched: without the watch one that the
cache did not show stays, which is the price of what `add` tolerates. `HostKept` is
not obvious either: a failed lookup (`METERING` 236) takes the host from the Certificate, and no event
of the IngressController would bring it back; the event of that very update does, so that one
failure is made good; of a second one the property says nothing.
`OldReaderGone` is of the same kind: the delete of the DaemonSet is an attempt per
run, and it is the requeue after a create or the event of the status that leads to
another attempt, so that one failure is allowed there. `RefusedForCause` names, besides the
secrets of finding 3 and amounts that do not fit together, a cause that needs no finding but
care: the secret check mounts each secret at a directory of its name, so a CR whose CA secret is called
like the client's, or like a directory of the operand's own certificate
(`metering-api` for the reader), is refused (`UTILS` 643-660). `EventuallyRolledOut` holds because the operator's container counts
as ready while it waits for the lock; with a probe that only the leader answers (the mutant)
old and new pod would wait for each other. `RunsSettle` has one exception, a Service that
others made a NodePort: its ports compare different after each update, so that the
controller writes it at every run.

## 4. Findings

Each is a disagreement between a comment and the code, shown by a run. "At rest"
means: the controller sleeps, nothing is under way, and only a resync or an
unrelated event would start another run.

1. **Receiver's Route and Secret** (`metering_receiver`). "make sure the service and
   route to it are deleted" (`METERING` 405, also 421) and "also delete the secret"
   (492): both are still there at rest, no failure needed. The cache did not show the Route in the
   run that switched the receiver off, and Routes are not watched; the Secret is
   deleted only in the run that finds the Certificate, and cert-manager may write it
   after that. Not even a resync removes the Secret.
2. **Shared objects** (`operand_shared`). "creates a UI Deployment and Service for
   each MeteringUI CR" (`meteringui_controller.go:141`): the names are fixed and the
   first CR owns the objects. When it is deleted, they are collected, and the events
   wake their owner only: the other CR is left without its Service at rest.
3. **Names of volumes** (`pods_secrets`). "mongoDB contains the password names from the
   CR." (`UTILS` 630): the mounts of the secret check follow the CR (651-659), the
   volumes are called `muser-icp-mongodb-admin` and `mpass-icp-mongodb-admin` whatever
   the CR says (548, 558). With any other user secret a mount has no volume, and the
   API server refuses the Deployment.
4. **Comparing Routes** (`exposure_route`). "Check ObjectMeta, Port, Host and To. If
   there are any differences, return false." (`RECONCILE` 703-704): the code looks
   into `oldRoute.Spec.Port` (722), which a Route need not have, and crashes at each run.
   With `RouteEdits = {"weight"}` the same property fails too: of `To` only the
   name is compared (736).

Not a disagreement of this kind, but worth knowing: the pod names in a status may be those of
pods that are gone, since pods are not watched (`SENDER` 199); and without cert-manager, which `add`
tolerates (`METERING` 160), each run ends with an error at the first Certificate, before the status,
and is repeated until cert-manager comes. `EventuallyInstalled`, `EventuallyServed` and
`EventuallyIdle` make the condition explicit.

## 5. Proofs

`MeteringSenderProofs` proves, for every value of the constants that satisfies
the named assumptions of `Deployments` and `MeteringSender`:

* `TypeCorrect`: `Spec => []TypeOK`.
* `OrderCorrect`: `GenerationsInOrder`. Inductive with `TypeOK` and the lemma
  `FreshCopiesInvariant`, which says that the marks of the model mean what they should: a
  copy with the server's version is the server's object.
* `IInvCorrect`: `IInv`, the conjunction of these with `UpdatesFound`: at "update"
  the copy `cur` is of a Deployment that exists. `FreshCopies` turns `curFresh` into
  `cur = dep`, without which no statement about the Deployment an update
  replaces can be made.
* `ScaleToZeroCorrect`, `SettingsCorrect`: the action properties, from `IInv`.
* `ContractImplemented`: `Spec => ImplementsContract`: the controller with its
  caches, versions, faults and restarts implements `DeploymentContract` under the
  mapping `resource <- cr` without its status, `seen <- inst`.

`MeteringSenderWakeUpProofs` proves `NoLostWakeUpCorrect`: `Spec => []NoLostWakeUp`.
The property speaks of a sleeping controller, so it is not inductive; `WakeUpInv`
says what holds while the request is out of the queue: the run acts for the
cached CR (`ActsForCached`), from the step that found the Deployment on the cache has
it, and it matches unless the run has just replaced it (`FoundInCache`), and
between runs the same is true of the cached CR (`DoneForCached`). An event enqueues
the request, which makes the invariant say nothing until the next run has
established it again. With `FreshCopies` the cached objects of a sleeping controller
are the server's, and the property follows.

`OperatorPodsProofs` proves `OneReconcilesCorrect`: `Spec => []OneReconciles`, and
`TypeCorrect`. The invariant adds to the property that a process past
`leader.Become` owns the lock (`LeaderOwnsLock`), of which there is one, and that pods
not yet made, evicted or gone have no process (`NoProcess`), so that the lock is never
released under a running leader. It rests on the external part stated above: the
lock goes after the process.

`MeteringProofs` proves of `Metering`, for every number of generations, writes by others
and faults, any order of receiver switches, hub or not, and each start:

* `TypeCorrect`.
* `OldReaderGoneCorrect`. `OldReaderInv` says of the time in which the DaemonSet is there: before
  the first fault no run has reached its end and the status is still that of
  version 3.5; a run that missed it because of the fault has asked for another, or has
  that status to rewrite, whose event does.

`MeteringWakeUpProofs` proves `NoLostWakeUpCorrect`, `RemovalCompleteCorrect` and `HostKeptCorrect`, for any
outcome of the watch of Certificates. The first two rest on `WakeUpInv`. While the request is out of the queue, no event has changed what the
cache holds of the CR and the watched objects. So each step of a run can be
recorded as a fact about the cache: an object the run is past (`Handled`) is in the cache
as asked, or stale, in which case its event will enqueue the request
(`HandledInCache`); one that is not asked for is out of the cache or stale
(`RemovedFromCache`); a run that created anything asks for another. Asleep, all objects are
handled and none is stale. The second needs `faults = 0`, the first does not: an error of
a create or update ends the run and the request goes back into the queue, an error of
a delete does not. That the controller sleeps only where Certificates are served is
part of `WakeUpInv` (a run gets past the API Certificate only there); that an unwatched API Certificate is as
asked, if others write nothing, is `ApiCertInv`. `HostInv` is the argument for `HostKept`: before the first fault every lookup finds the
host and nobody writes a Certificate without it; so the run whose lookup fails finds one with
the host, has to write one without, and is past it only while the event of that
update is on its way or another run is asked for.

`OperandReconcileProofs` proves, for any set of CRs, `TypeCorrect`, and with the same kind of invariant
`NoLostWakeUpCorrect` for a controller with one CR, `Crs = {c}`, and any start. `LastInv` is about the object that may not
be watched, the APIService or the Certificate: while others write nothing it is absent, what an
older operator made, or as asked, and the run that gets past it has made it the last. The hypothesis is that of run `operand_served`
and cannot be dropped: two CRs of a kind ask for the same objects, one of them is left
without (finding 2).

`ExposureProofs` proves all six properties of run `exposure`, for all issuers, domains and edits and any number
of changes between two runs. Objects of a kind are records with the same fields (`ObjectsTyped`).
From this: objects that compare equal agree in what the operator claims of
them; an update is accepted, makes the object agree in that and keeps the rest; the
updated object compares equal, unless its type is NodePort. A run without an error has come past
all objects of its order, so `SettledInv` holds after it, and `Restored`, `RunsSettle`, `Reachable` and
`CertificatesCover` follow. `ErrorInv` says that only a Route without a domain ends a run
with an error. `RestoredCorrect` assumes that others do not edit the weight of the Route,
which the comparison does not read (finding 4); `"port"` may be among the
edits, since a crashed run is not settled.

`PodTemplatesProofs` proves all four invariants of run `pods`, for every CR and image. `TypeInv` says that a
template, whoever wrote it, is a record of sequences of records; then `EqualIsSame`: two
templates that compare equal are the same, which gives `AsAsked`. The other three are facts about the
template that is asked for, the same for all operands (`Assembled`): its volumes are the common ones and those of
its own secrets (`ExtraOf`), its secret check has the lists for MongoDB's secrets followed by
those of the operand (`MoreOf`), which fit these volumes (`MoreFits`), and its main container mounts `MainMounts`.
`ChecksTheNamed` also needs that the API server accepted the template (`AcceptedInv`): for
a renamed user secret the lists do not fit, but such a template is never stored.

The only assumptions are the named ones of the modules, which TLC evaluates in each run, and the two
hypotheses named above. Proving found three things that the bounded runs had not: the four generations
of `RemovalComplete`, the colliding names of `RefusedForCause`, and two overlapping cases in an
earlier form of `Exposure` which left a value undefined.

Every invariant and every action property of a passing run is proved. Only
model-checked are the liveness properties (`EventuallyConverged`, `EventuallyIdle`,
`EventuallyInstalled`, `EventuallyCollected`, `EventuallyServed`, `EventuallyRolledOut`), which
are out of the prover's reach.

## 6. Not modelled, and the plan

Not modelled: generated code, manifests and scripts; flags, the
scheme and what the metrics service publishes (library calls that decide nothing);
`IsDaemonSetEqual`, which nobody calls; probes, affinity and annotations of pods, which are
constants; the schemas' validation of a
CR. A cache that fails to list, and an operator that keeps running after its pod was
evicted, are outside the external parts' description.

A model of `Metering` with the read and the write of each object apart, to be
implemented by the present one, is not planned any more: for eleven objects it is
beyond TLC, and `MeteringSender` has the two steps apart.

What is left to prove: an abstract specification of what a controller promises about all
its objects, as `DeploymentContract` is for one, and that `OperandReconcile` and
`Metering` implement it; and what `OperandReconcile` guarantees to several CRs.
