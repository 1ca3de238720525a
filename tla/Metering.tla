------------------------------ MODULE Metering ------------------------------
(***************************************************************************)
(* The controller of the Metering custom resource                          *)
(* (pkg/controller/metering): one run of Reconcile brings eleven objects   *)
(* to what the resource asks for, among them the multicloud receiver's,    *)
(* which the resource switches on and off.                                 *)
(*                                                                         *)
(* Each object is handled in one step: the read from the cache, the        *)
(* comparison and the write to the API server.  The cache of an object may *)
(* lag behind the server for as long as it likes, so a write in the same   *)
(* step as the read meets everything a later write would.  MeteringSender  *)
(* models the same pattern with the two steps apart, and the fields of a   *)
(* Deployment that survive an update.                                      *)
(***************************************************************************)
EXTENDS Naturals

CONSTANTS
  MaxGen,      \* bound: the last generation the custom resource reaches
  Enabled,     \* is multiCloudReceiverEnabled set in each generation
  RacmHub,     \* does the cluster serve multiclusterhubs, RHACM's resource
  MayDelete,   \* may the custom resource be deleted
  Starts,      \* in which clusters the operator may start
  CertStarts,  \* what may have come of its watch of Certificates
  DomainKnown, \* does the IngressController name its domain from the start
  Tampered,    \* the objects others may edit or delete
  MaxTampers,  \* bound: how often they do
  MaxFaults    \* bound: failed calls, resyncs and operator restarts

ASSUME GenerationsAssumption ==
  MaxGen \in Nat \ {0} /\ Enabled \in [1..MaxGen -> BOOLEAN]

\* The three Ingresses are handled alike and by the same loop: one object.
KindOf ==
  [ dmService |-> "Service", readerService |-> "Service", receiverService |-> "Service",
    receiverRoute |-> "Route", dm |-> "Deployment", reader |-> "Deployment",
    ingress |-> "Ingress", apiCert |-> "Certificate", receiverCert |-> "Certificate",
    receiverSecret |-> "Secret", daemonSet |-> "DaemonSet" ]

Objects == DOMAIN KindOf
Kinds == {KindOf[o] : o \in Objects}
Always == {"dmService", "readerService", "dm", "reader", "ingress", "apiCert"}
Receiver == {"receiverService", "receiverRoute", "receiverCert"}

ASSUME EnvironmentAssumption ==
  /\ RacmHub \in BOOLEAN /\ MayDelete \in BOOLEAN
  /\ Starts \subseteq {"empty", "installed", "podsChanged", "upgrade"}
  /\ CertStarts \subseteq {"none", "unwatched", "watched"} /\ DomainKnown \in BOOLEAN
  /\ Tampered \subseteq Objects
  /\ MaxTampers \in Nat /\ MaxFaults \in Nat

\* What an object may be.  The DM Deployment is "extended" when it mounts the
\* receiver's secret, the receiver's Certificate when it names the route's
\* host; "edited" is anything the operator does not build.
Contents == {"absent", "edited", "basic", "extended"}

VARIABLES
  server,          \* the objects on the API server
  cache, stale,    \* the cached objects; those whose cached version is not the server's
  cr,              \* the Metering on the server: generation, 0 if deleted, and status
  crCache, crFresh,
  issuing,         \* cert-manager is about to write the receiver's secret
  certs,           \* "none" if the cluster does not serve Certificates, else "watched",
                   \* or "unwatched" when the watch failed as the operator started
  domain,          \* does the IngressController name its domain
  queued,          \* is the request in the work queue
  pc,              \* the next step of Reconcile, "idle" between two runs
  inst, instFresh, \* instance, and whether its version is the server's
  isRACMHub, routeHost, \* the globals; is the host set
  needToRequeue,
  tampers, faults

clusterVars == <<server, cache, stale>>
crVars      == <<cr, crCache, crFresh>>
runVars     == <<inst, instFresh, isRACMHub, routeHost, needToRequeue>>
surroundings == <<issuing, certs, domain>>
vars == <<clusterVars, crVars, surroundings, queued, pc, runVars, tampers, faults>>

Generations == 1..MaxGen
\* No status; one of another operator version, or whose pods have changed; one
\* as a run of this version writes it.
Statuses == {"unset", "old", "current"}
CustomResource == [gen : Generations \cup {0}, status : Statuses]

\* Mutant: Services are not watched.
WatchedWithoutServices ==
  {"Deployment", "Ingress"} \cup (IF certs = "watched" THEN {"Certificate"} ELSE {})

\* The kinds the controller watches: add goes on without Certificates.
Watched ==
  {"Service", "Deployment", "Ingress"} \cup (IF certs = "watched" THEN {"Certificate"} ELSE {})

\* Mutant: the owner of the Ingresses is not set.
OwnedButIngress == Objects \ {"ingress", "receiverSecret", "daemonSet"}

\* What the resource owns, so that it is collected when the resource is gone.
Owned == Objects \ {"receiverSecret", "daemonSet"}

\* Mutant: the last step of a run leads nowhere.
AfterStuck ==
  [ defaultStatus |-> "lookup", lookup |-> "dmService",
    dmService |-> "readerService", readerService |-> "receiverService",
    receiverService |-> "receiverRoute", receiverRoute |-> "dm", dm |-> "reader",
    reader |-> "ingress", ingress |-> "apiCert", apiCert |-> "receiverCert",
    receiverCert |-> "daemonSet", receiverSecret |-> "daemonSet",
    daemonSet |-> "status", status |-> "done" ]

\* The steps of a run, in order.
After ==
  [ defaultStatus |-> "lookup", lookup |-> "dmService",
    dmService |-> "readerService", readerService |-> "receiverService",
    receiverService |-> "receiverRoute", receiverRoute |-> "dm", dm |-> "reader",
    reader |-> "ingress", ingress |-> "apiCert", apiCert |-> "receiverCert",
    receiverCert |-> "daemonSet", receiverSecret |-> "daemonSet",
    daemonSet |-> "status", status |-> "idle" ]

TypeOK ==
  /\ server \in [Objects -> Contents] /\ cache \in [Objects -> Contents]
  /\ stale \in SUBSET Objects
  /\ cr \in CustomResource /\ crCache \in CustomResource /\ inst \in CustomResource
  /\ pc \in DOMAIN After \cup {"idle"}
  /\ crFresh \in BOOLEAN /\ instFresh \in BOOLEAN /\ issuing \in BOOLEAN /\ queued \in BOOLEAN
  /\ certs \in {"none", "unwatched", "watched"} /\ domain \in BOOLEAN
  /\ isRACMHub \in BOOLEAN /\ routeHost \in BOOLEAN /\ needToRequeue \in BOOLEAN
  /\ tampers \in 0..MaxTampers /\ faults \in 0..MaxFaults

-----------------------------------------------------------------------------
\* What a run builds for object o from the generation g, knowing the host or not.
Built(o, g, host) ==
  IF \/ o = "dm" /\ Enabled[g]
     \/ o = "receiverCert" /\ host
  THEN "extended" ELSE "basic"

\* All objects of generation 1 as earlier runs left them.
Installed ==
  [ o \in Objects |->
      IF \/ o = "daemonSet"
         \/ o \in Receiver \cup {"receiverSecret"} /\ ~Enabled[1]
         \/ o = "receiverRoute" /\ ~RacmHub
      THEN "absent" ELSE Built(o, 1, TRUE) ]

\* The operator starts in an empty cluster, over what it installed before, its
\* pods still the same or not, or over the DaemonSet of version 3.5.
Init ==
  /\ \/ /\ "empty" \in Starts
        /\ server = [o \in Objects |-> "absent"] /\ cr = [gen |-> 1, status |-> "unset"]
     \/ /\ "installed" \in Starts
        /\ server = Installed /\ cr = [gen |-> 1, status |-> "current"]
     \/ /\ "podsChanged" \in Starts
        /\ server = Installed /\ cr = [gen |-> 1, status |-> "old"]
     \/ /\ "upgrade" \in Starts
        /\ server = [o \in Objects |-> IF o = "daemonSet" THEN "edited" ELSE "absent"]
        /\ cr = [gen |-> 1, status |-> "old"]
  /\ cache = server /\ stale = {}
  /\ crCache = cr /\ crFresh = TRUE
  /\ issuing = FALSE /\ domain = DomainKnown
  /\ certs \in CertStarts /\ (certs = "none" => server["apiCert"] = "absent")
  /\ queued = TRUE /\ pc = "idle"
  /\ inst = cr /\ instFresh = FALSE
  /\ isRACMHub = FALSE /\ routeHost = FALSE /\ needToRequeue = FALSE
  /\ tampers = 0 /\ faults = 0

\* A write to the server leaves the cached copy behind.
Write(o, c) ==
  /\ server' = [server EXCEPT ![o] = c]
  /\ stale' = stale \cup {o}
  /\ UNCHANGED cache

-----------------------------------------------------------------------------
(* The environment.                                                        *)

EditCr ==
  /\ cr.gen \in 1..(MaxGen - 1)
  /\ cr' = [cr EXCEPT !.gen = @ + 1]
  /\ crFresh' = FALSE /\ instFresh' = FALSE
  /\ UNCHANGED <<clusterVars, crCache, surroundings, queued, pc, inst, isRACMHub, routeHost,
                 needToRequeue, tampers, faults>>

DeleteCr ==
  /\ MayDelete /\ cr.gen # 0
  /\ cr' = [gen |-> 0, status |-> "unset"]
  /\ crFresh' = FALSE /\ instFresh' = FALSE
  /\ UNCHANGED <<clusterVars, crCache, surroundings, queued, pc, inst, isRACMHub, routeHost,
                 needToRequeue, tampers, faults>>

\* The objects of a kind go together.
CollectGarbage ==
  /\ cr.gen = 0
  /\ \E k \in Kinds :
       LET garbage == {o \in Owned : KindOf[o] = k /\ server[o] # "absent"}
       IN  /\ garbage # {}
           /\ server' = [o \in Objects |-> IF o \in garbage THEN "absent" ELSE server[o]]
           /\ stale' = stale \cup garbage
  /\ UNCHANGED <<cache, crVars, surroundings, queued, pc, runVars, tampers, faults>>

Tamper ==
  /\ tampers < MaxTampers
  /\ \E o \in Tampered, c \in {"absent", "edited"} : server[o] # "absent" /\ Write(o, c)
  /\ tampers' = tampers + 1
  /\ UNCHANGED <<crVars, surroundings, queued, pc, runVars, faults>>

\* cert-manager finds a Certificate without its secret, and writes the secret
\* when the certificate has been issued.
StartIssuing ==
  /\ ~issuing
  /\ server["receiverCert"] # "absent" /\ server["receiverSecret"] = "absent"
  /\ issuing' = TRUE /\ UNCHANGED <<certs, domain>>
  /\ UNCHANGED <<clusterVars, crVars, queued, pc, runVars, tampers, faults>>

FinishIssuing ==
  /\ issuing
  /\ issuing' = FALSE /\ UNCHANGED <<certs, domain>>
  /\ Write("receiverSecret", "basic")
  /\ UNCHANGED <<crVars, queued, pc, runVars, tampers, faults>>

\* cert-manager is installed under a running operator, which adds no watch then.
InstallCertManager ==
  /\ certs = "none"
  /\ certs' = "unwatched"
  /\ UNCHANGED <<clusterVars, crVars, issuing, domain, queued, pc, runVars, tampers, faults>>

LearnDomain ==
  /\ ~domain
  /\ domain' = TRUE
  /\ UNCHANGED <<clusterVars, crVars, issuing, certs, queued, pc, runVars, tampers, faults>>

\* Mutants: the handler drops the events of creations; those of updates.
SyncWithoutCreations(k) ==
  LET late == {o \in stale : KindOf[o] = k}
  IN  /\ late # {}
      /\ stale' = stale \ late
      /\ cache' = [o \in Objects |-> IF o \in late THEN server[o] ELSE cache[o]]
      /\ queued' = (queued \/ (k \in Watched
                     /\ \E o \in late : cache[o] # "absent"))
      /\ UNCHANGED <<server, crVars, surroundings, pc, runVars, tampers, faults>>

SyncWithoutUpdates(k) ==
  LET late == {o \in stale : KindOf[o] = k}
  IN  /\ late # {}
      /\ stale' = stale \ late
      /\ cache' = [o \in Objects |-> IF o \in late THEN server[o] ELSE cache[o]]
      /\ queued' = (queued \/ (k \in Watched
                     /\ \E o \in late : (cache[o] = "absent") # (server[o] = "absent")))
      /\ UNCHANGED <<server, crVars, surroundings, pc, runVars, tampers, faults>>

\* The informer of a kind brings all its objects up to date; an event of a
\* watched kind enqueues the Metering that owns the object.
Sync(k) ==
  LET late == {o \in stale : KindOf[o] = k}
  IN  /\ late # {}
      /\ stale' = stale \ late
      /\ cache' = [o \in Objects |-> IF o \in late THEN server[o] ELSE cache[o]]
      /\ queued' = (queued \/ (k \in Watched
                     /\ \E o \in late : cache[o] # "absent" \/ server[o] # "absent"))
      /\ UNCHANGED <<server, crVars, surroundings, pc, runVars, tampers, faults>>

SyncCr ==
  /\ ~crFresh
  /\ crCache' = cr /\ crFresh' = TRUE /\ queued' = TRUE
  /\ UNCHANGED <<clusterVars, cr, surroundings, pc, runVars, tampers, faults>>

-----------------------------------------------------------------------------
(* Reconcile.                                                              *)

\* Mutant: an error is logged, and the request forgotten.
AgainForgotten == pc' = "idle" /\ queued' = queued

Again == pc' = "idle" /\ queued' = TRUE

\* The request is done with if the resource is not found.
StartReconcile ==
  /\ pc = "idle" /\ queued
  /\ queued' = FALSE
  /\ IF crCache.gen = 0
     THEN UNCHANGED <<pc, inst, instFresh, needToRequeue>>
     ELSE /\ inst' = crCache /\ instFresh' = crFresh
          /\ needToRequeue' = FALSE
          /\ pc' = IF crCache.status = "unset" THEN "defaultStatus" ELSE "lookup"
  /\ UNCHANGED <<clusterVars, crVars, surroundings, isRACMHub, routeHost, tampers, faults>>

\* Status().Update(instance), refused if instance is not of the server's version.
PutStatus(s) ==
  /\ instFresh
  /\ cr' = [cr EXCEPT !.status = s] /\ crFresh' = FALSE
  /\ inst' = [inst EXCEPT !.status = s]
  /\ UNCHANGED <<crCache, instFresh>>

StatusRefused == ~instFresh /\ UNCHANGED <<crVars, inst, instFresh>> /\ Again

\* The default, "none", is what the pods' names come to when there is no pod.
SetDefaultStatus ==
  /\ pc = "defaultStatus"
  /\ \/ \E s \in {"old", "current"} : PutStatus(s) /\ pc' = After[pc] /\ UNCHANGED queued
     \/ StatusRefused
  /\ UNCHANGED <<clusterVars, surroundings, isRACMHub, routeHost, needToRequeue, tampers, faults>>

\* Look up the application domain and RHACM, if the receiver is enabled.  A
\* lookup that fails is no error: it leaves its global as if nothing was found,
\* as does an IngressController without a domain.
\* Between the two, a configuration that cannot be read ends the run.
Lookup ==
  /\ pc = "lookup"
  /\ IF Enabled[inst.gen]
     THEN \/ /\ routeHost' = domain /\ isRACMHub' = RacmHub
             /\ pc' = After[pc] /\ UNCHANGED <<queued, faults>>
          \/ /\ faults < MaxFaults /\ faults' = faults + 1
             /\ routeHost' \in {domain, FALSE}
             /\ \/ isRACMHub' \in {RacmHub, FALSE} /\ pc' = After[pc] /\ UNCHANGED queued
                \/ isRACMHub' = FALSE /\ Again
     ELSE /\ routeHost' = FALSE /\ isRACMHub' = FALSE
          /\ pc' = After[pc] /\ UNCHANGED <<queued, faults>>
  /\ UNCHANGED <<clusterVars, crVars, surroundings, inst, instFresh, needToRequeue, tampers>>

\* ReconcileService, -Route, -Deployment, -Ingress and -Certificate.
Ensure(o) ==
  LET new == Built(o, inst.gen, routeHost)
  IN  \/ /\ cache[o] = "absent"
         /\ IF server[o] = "absent" THEN Write(o, new) ELSE UNCHANGED clusterVars
         /\ needToRequeue' = TRUE
         /\ pc' = After[pc] /\ UNCHANGED queued
      \/ /\ cache[o] = new
         /\ pc' = After[pc] /\ UNCHANGED <<clusterVars, queued, needToRequeue>>
      \/ /\ cache[o] \notin {"absent", new} /\ o \notin stale
         /\ Write(o, new)
         /\ pc' = After[pc] /\ UNCHANGED <<queued, needToRequeue>>
      \/ /\ cache[o] \notin {"absent", new} /\ o \in stale
         /\ Again /\ UNCHANGED <<clusterVars, needToRequeue>>

\* The objects there always are, and the receiver's when it is enabled.  The
\* Route is only for a hub, and routeForReceiver fails without a host.  A cluster
\* that does not serve Certificates ends the run with the Get of the first one.
EnsureObject ==
  /\ \/ pc \in Always \cup (Receiver \ {"receiverRoute"})
        /\ (pc \in Receiver => Enabled[inst.gen])
        /\ (pc = "apiCert" => certs # "none")
        /\ Ensure(pc)
     \/ pc = "apiCert" /\ certs = "none" /\ Again /\ UNCHANGED <<clusterVars, needToRequeue>>
     \/ pc = "receiverRoute" /\ Enabled[inst.gen]
        /\ \/ isRACMHub /\ routeHost /\ Ensure(pc)
           \/ isRACMHub /\ ~routeHost /\ Again /\ UNCHANGED <<clusterVars, needToRequeue>>
           \/ /\ ~isRACMHub
              /\ pc' = After[pc] /\ UNCHANGED <<clusterVars, queued, needToRequeue>>
  /\ UNCHANGED <<crVars, surroundings, inst, instFresh, isRACMHub, routeHost, tampers, faults>>

\* A call that creates, updates or gets fails, and ends the run with an error.
\* A write may have reached the server all the same.
EnsureFails ==
  /\ pc \in Always \cup Receiver
  /\ pc \in Receiver => Enabled[inst.gen]
  /\ pc = "receiverRoute" => isRACMHub /\ routeHost
  /\ pc = "apiCert" => certs # "none"
  /\ faults < MaxFaults /\ faults' = faults + 1
  /\ LET new == Built(pc, inst.gen, routeHost)
     IN  \/ UNCHANGED clusterVars
         \/ cache[pc] = "absent" /\ server[pc] = "absent" /\ Write(pc, new)
         \/ cache[pc] \notin {"absent", new} /\ pc \notin stale /\ Write(pc, new)
  /\ Again
  /\ UNCHANGED <<crVars, surroundings, runVars, tampers>>

\* Delete by name what the cache has.  An error, also "not found", is logged
\* and forgotten.
Remove(o) ==
  \/ cache[o] = "absent" /\ UNCHANGED <<clusterVars, faults>>
  \/ /\ cache[o] # "absent"
     /\ \/ server[o] # "absent" /\ Write(o, "absent") /\ UNCHANGED faults
        \/ server[o] = "absent" /\ UNCHANGED <<clusterVars, faults>>
        \/ faults < MaxFaults /\ faults' = faults + 1 /\ UNCHANGED clusterVars

\* The receiver is disabled: its Service, its Route and, when the cache has the
\* Certificate, the Certificate and then the secret.  A get that fails for any
\* other reason than "not found" is logged and forgotten too.
RemoveReceiver ==
  /\ pc \in Receiver /\ ~Enabled[inst.gen]
  /\ \/ /\ Remove(pc)
        /\ pc' = IF pc = "receiverCert" /\ cache[pc] # "absent" THEN "receiverSecret" ELSE After[pc]
     \/ /\ faults < MaxFaults /\ faults' = faults + 1
        /\ pc' = After[pc] /\ UNCHANGED clusterVars
  /\ UNCHANGED <<crVars, surroundings, queued, runVars, tampers>>

RemoveReceiverSecret ==
  /\ pc = "receiverSecret"
  /\ Remove(pc) /\ pc' = After[pc]
  /\ UNCHANGED <<crVars, surroundings, queued, runVars, tampers>>

\* Mutant: only a run that created something looks for the DaemonSet.
CheckDaemonSetOnce ==
  /\ pc = "daemonSet"
  /\ IF needToRequeue
     THEN Remove(pc) /\ Again
     ELSE pc' = After[pc] /\ UNCHANGED <<clusterVars, queued, faults>>
  /\ UNCHANGED <<crVars, surroundings, runVars, tampers>>

\* checkDaemonSet, and then the decision to run again after a create.
CheckDaemonSet ==
  /\ pc = "daemonSet"
  /\ Remove(pc)
  /\ IF needToRequeue THEN Again ELSE pc' = After[pc] /\ UNCHANGED queued
  /\ UNCHANGED <<crVars, surroundings, runVars, tampers>>

\* Mutant: the status is written without a comparison.
UpdateStatusUncompared ==
  /\ pc = "status"
  /\ \/ PutStatus("current") /\ pc' = After[pc] /\ UNCHANGED queued
     \/ StatusRefused
  /\ UNCHANGED <<clusterVars, surroundings, isRACMHub, routeHost, needToRequeue, tampers, faults>>

UpdateStatus ==
  /\ pc = "status"
  /\ \/ inst.status = "current" /\ pc' = After[pc] /\ UNCHANGED <<crVars, inst, instFresh, queued>>
     \/ inst.status # "current" /\ PutStatus("current") /\ pc' = After[pc] /\ UNCHANGED queued
     \/ inst.status # "current" /\ StatusRefused
  /\ UNCHANGED <<clusterVars, surroundings, isRACMHub, routeHost, needToRequeue, tampers, faults>>

StatusFails ==
  /\ pc \in {"defaultStatus", "status"}
  /\ faults < MaxFaults /\ faults' = faults + 1
  /\ \/ UNCHANGED <<cr, crFresh, instFresh>>
     \/ /\ instFresh /\ inst.status # "current"
        /\ \/ cr' = [cr EXCEPT !.status = "current"]
           \/ pc = "defaultStatus" /\ cr' = [cr EXCEPT !.status = "old"]
        /\ crFresh' = FALSE /\ instFresh' = FALSE
  /\ Again
  /\ UNCHANGED <<clusterVars, crCache, surroundings, inst, isRACMHub, routeHost, needToRequeue, tampers>>

\* The informers hand out again what they hold, which they do now and then.
Resync ==
  /\ faults < MaxFaults /\ faults' = faults + 1
  /\ queued' = TRUE
  /\ UNCHANGED <<clusterVars, crVars, surroundings, pc, runVars, tampers>>

\* The operator restarts; listing the resource enqueues it.  The watch of
\* Certificates may fail, and must if the cluster does not serve them.
Restart ==
  /\ faults < MaxFaults /\ faults' = faults + 1
  /\ Again
  /\ certs' \in IF certs = "none" THEN {"none"} ELSE {"unwatched", "watched"}
  /\ instFresh' = FALSE
  /\ isRACMHub' = FALSE /\ routeHost' = FALSE /\ needToRequeue' = FALSE
  /\ UNCHANGED <<clusterVars, crVars, issuing, domain, inst, tampers>>

Reconcile ==
  \/ StartReconcile \/ SetDefaultStatus \/ Lookup \/ EnsureObject
  \/ RemoveReceiver \/ RemoveReceiverSecret \/ CheckDaemonSet \/ UpdateStatus

Issue == StartIssuing \/ FinishIssuing

Next ==
  \/ Reconcile \/ EnsureFails \/ StatusFails \/ Resync \/ Restart
  \/ EditCr \/ DeleteCr \/ CollectGarbage \/ Tamper \/ Issue
  \/ InstallCertManager \/ LearnDomain
  \/ SyncCr \/ \E k \in Kinds : Sync(k)

Spec == Init /\ [][Next]_vars

\* The worker takes requests, watches deliver, cert-manager issues and garbage is
\* collected.
FairSpec ==
  /\ Spec
  /\ WF_vars(Reconcile) /\ WF_vars(Issue) /\ WF_vars(CollectGarbage)
  /\ WF_vars(SyncCr) /\ \A k \in Kinds : WF_vars(Sync(k))

-----------------------------------------------------------------------------
(* Properties.                                                             *)

\* The controller sleeps, and no event of what it watches is under way.
Asleep ==
  /\ pc = "idle" /\ ~queued /\ crFresh
  /\ \A o \in stale : KindOf[o] \notin Watched

\* No lost wake-up: the controller sleeps only where Certificates are served,
\* and then the objects there always are and, of an enabled receiver, the
\* Service and the Certificate are what the last lookups asked for; a hub
\* without a host does not let it sleep.  Where Certificates are not watched,
\* they may differ: the receiver's, and the other if somebody writes to it.
NoLostWakeUp ==
  Asleep /\ cr.gen # 0 =>
    /\ certs # "none"
    /\ \A o \in Always :
         (KindOf[o] \in Watched \/ tampers = 0) => server[o] = Built(o, cr.gen, routeHost)
    /\ Enabled[cr.gen] =>
         /\ \A o \in Receiver : KindOf[o] \in Watched => server[o] = Built(o, cr.gen, routeHost)
         /\ isRACMHub => routeHost
    /\ cr.status = "current"

\* The Service and the Certificate of a disabled receiver are gone when the
\* controller sleeps, however late its cache was and whatever others wrote, as
\* long as no call failed; the Certificate, if the watch of Certificates did not
\* fail.  A delete that fails is not tried again: the event of the other object
\* is often cause for another run, but not always.
RemovalComplete ==
  Asleep /\ cr.gen # 0 /\ ~Enabled[cr.gen] /\ faults = 0 =>
    /\ server["receiverService"] = "absent"
    /\ certs = "watched" => server["receiverCert"] = "absent"

\* A failed lookup takes the host from the receiver's Certificate, but the event
\* of this very update causes the run that puts it back: one failure, of
\* whatever call, does not leave the Certificate without the host.
HostKept ==
  Asleep /\ cr.gen # 0 /\ Enabled[cr.gen] /\ DomainKnown /\ certs = "watched" /\ faults <= 1 =>
    server["receiverCert"] = "extended"

\* Once the resource is left alone, the objects it asks for are there to stay,
\* as far as the cluster serves Certificates; where they are watched, the
\* receiver's secret is there when the DM Deployment mounts it, even if a run
\* with an old copy of the resource deleted it after it was enabled again.
EventuallyInstalled ==
  <>[](/\ cr.gen # 0
       /\ \A o \in Always : (KindOf[o] = "Certificate" => certs # "none")
                              => server[o] = Built(o, cr.gen, FALSE)
       /\ Enabled[cr.gen] =>
            /\ server["receiverService"] # "absent"
            /\ certs = "watched" => server["receiverCert"] # "absent" /\ server["receiverSecret"] # "absent")

\* "Owned objects are automatically garbage collected", also those that a run
\* with an old copy of the deleted resource goes on to create.
EventuallyCollected == <>[](cr.gen = 0 => \A o \in Always \cup Receiver : server[o] = "absent")

\* The DaemonSet of version 3.5 is gone when the controller sleeps.  A delete that
\* fails is not tried again, but over that version the first runs have cause for
\* others, so that one failure alone is made good.
OldReaderGone == Asleep /\ cr.gen # 0 /\ faults <= 1 => server["daemonSet"] = "absent"

\* And the controller comes to rest, where Certificates are served.
EventuallyIdle == <>[](certs # "none" => pc = "idle" /\ ~queued)

\* The controller sleeps and sees everything; cert-manager is done too.
AtRest == Asleep /\ stale = {} /\ ~issuing

\* "If the multicloud receiver is disabled then make sure the service and route
\* to it are deleted", and "also delete the secret": at least not both are left
\* when the run that should delete them has ended with success.
ReceiverRemoved ==
  AtRest /\ cr.gen # 0 /\ ~Enabled[cr.gen] =>
    server["receiverRoute"] = "absent" \/ server["receiverSecret"] = "absent"

=============================================================================
