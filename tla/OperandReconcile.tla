-------------------------- MODULE OperandReconcile --------------------------
(***************************************************************************)
(* The controllers of MeteringUI, MeteringMultiCloudUI and                 *)
(* MeteringReportServer, which follow one scheme: a Service, a Deployment, *)
(* and then an Ingress and Certificates (the two user interfaces) or an    *)
(* APIService (the report server).                                         *)
(*                                                                         *)
(* The names of these objects are fixed, so two custom resources of a kind *)
(* ask for the same objects.  What a Service and a Deployment select       *)
(* carries the name of the resource; the API server refuses to change the  *)
(* selector of a Deployment.                                               *)
(*                                                                         *)
(* As in Metering, an object is read, compared and written in one step.    *)
(***************************************************************************)
EXTENDS Naturals

CONSTANTS
  Crs,          \* the custom resources of the controller's kind
  NoCr,         \* no custom resource
  Starts,       \* the controllers looked at, and how they may start
  MaxGen,       \* bound: the last generation of a custom resource
  Deletable,    \* the custom resources that may be deleted
  Tampered,     \* the kinds of the objects others may write
  MaxDisturbances  \* bound: writes by others and deletions of resources, failed
                   \* calls, resyncs and restarts, all together

ASSUME ResourcesAssumption ==
  /\ NoCr \notin Crs /\ Deletable \subseteq Crs
  /\ Starts \subseteq [ controller : {"ui", "report"}, objects : {"none", "older"},
                      certs : {"none", "unwatched", "watched"} ]
  /\ \A start \in Starts :
       IF start.controller = "report" THEN start.certs = "none"
       ELSE start.objects = "older" => start.certs # "none"
  /\ Tampered \subseteq {"Service", "Deployment", "Ingress", "Certificate", "APIService"}
  /\ MaxGen \in Nat \ {0} /\ MaxDisturbances \in Nat

VARIABLES
  controller,      \* which controller this is
  server,          \* its objects on the API server, by kind
  cache, stale,    \* the cached objects; those whose cached version is not the server's
  crs,             \* the custom resources on the server
  crCache, crStale,
  certs,           \* "none" if the cluster does not serve Certificates, else "watched",
                   \* or "unwatched" when the watch failed as the operator started;
                   \* the report server's, which has none, is left at "none"
  queue,           \* the requests in the work queue
  pc,              \* the next step of Reconcile, "idle" between two runs
  me,              \* the resource of the present run
  inst, instFresh, \* instance, and whether its version is the server's
  needToRequeue,
  tampers,         \* writes by others to the objects, deletions of resources
  faults           \* failed calls, resyncs and restarts of the operator

clusterVars == <<server, cache, stale>>
crVars      == <<crs, crCache, crStale>>
runVars     == <<me, inst, instFresh, needToRequeue>>
vars == <<controller, clusterVars, crVars, certs, queue, pc, runVars, tampers, faults>>

Kinds == {"Service", "Deployment", "Ingress", "Certificate", "APIService"}

\* The objects a controller keeps, in the order of its steps.
Kept ==
  [ ui     |-> {"Service", "Deployment", "Ingress", "Certificate"},
    report |-> {"Service", "Deployment", "APIService"} ]

\* The kinds a controller watches, of those it keeps: the user interfaces' go on
\* without Certificates, and the report server's has none.
Watched ==
  {"Service", "Deployment", "Ingress"} \cup (IF certs = "watched" THEN {"Certificate"} ELSE {})

Generations == 1..MaxGen
Owners == Crs \cup {NoCr}

\* gen is the generation the object was built from, 1 if its content is always
\* the same and 0 if somebody edited it.  An object without owner is not there.
Object == [owner : Owners, selects : Owners, gen : 0..MaxGen]
Absent == [owner |-> NoCr, selects |-> NoCr, gen |-> 0]

\* No status; one of another operator version, or whose pods have changed; one
\* as a run of this version writes it.
Statuses == {"unset", "old", "current"}
CustomResource == [live : BOOLEAN, gen : Generations, status : Statuses]

\* Mutant: the report server's controller goes on like the others.
AfterAlike ==
  [ defaultStatus |-> "Service", Service |-> "Deployment", Deployment |-> "Ingress",
    Ingress |-> "Certificate", Certificate |-> "status", APIService |-> "status",
    status |-> "idle" ]

\* The steps of a run, in order.
After ==
  [ defaultStatus |-> "Service", Service |-> "Deployment",
    Deployment |-> IF controller = "ui" THEN "Ingress" ELSE "APIService",
    Ingress |-> "Certificate", Certificate |-> "status", APIService |-> "status",
    status |-> "idle" ]

TypeOK ==
  /\ controller \in {"ui", "report"}
  /\ server \in [Kinds -> Object] /\ cache \in [Kinds -> Object] /\ stale \in SUBSET Kinds
  /\ crs \in [Crs -> CustomResource] /\ crCache \in [Crs -> CustomResource]
  /\ crStale \in SUBSET Crs /\ queue \in SUBSET Crs
  /\ certs \in {"none", "unwatched", "watched"}
  /\ pc \in DOMAIN After \cup {"idle"}
  /\ pc \in Kinds => pc \in Kept[controller]
  /\ me \in IF pc = "idle" THEN Owners ELSE Crs
  /\ inst \in CustomResource
  /\ instFresh \in BOOLEAN /\ needToRequeue \in BOOLEAN
  /\ tampers \in 0..MaxDisturbances /\ faults \in 0..MaxDisturbances

-----------------------------------------------------------------------------
\* What a run for generation g of resource c builds.
Built(k, c, g) ==
  [ owner   |-> c,
    selects |-> IF k \in {"Service", "Deployment"} THEN c ELSE NoCr,
    gen     |-> IF k = "Deployment" THEN g ELSE 1 ]

\* The comparisons do not look at the owner, and the updates leave it alone.
Equal(found, new) == [found EXCEPT !.owner = new.owner] = new
Updated(found, new) == [new EXCEPT !.owner = found.owner]

\* The operator starts in an empty cluster, or over what an older version of it
\* has made for resource c.
Older(c) ==
  [k \in Kinds |-> IF k \in Kept[controller] THEN [Built(k, c, 1) EXCEPT !.gen = 0] ELSE Absent]

Init ==
  /\ \E start \in Starts :
       /\ controller = start.controller /\ certs = start.certs
       /\ \/ /\ start.objects = "none"
             /\ server = [k \in Kinds |-> Absent]
             /\ crs = [c \in Crs |-> [live |-> TRUE, gen |-> 1, status |-> "unset"]]
          \/ /\ start.objects = "older"
             /\ \E c \in Crs : server = Older(c)
             /\ crs = [c \in Crs |-> [live |-> TRUE, gen |-> 1, status |-> "old"]]
  /\ cache = server /\ stale = {}
  /\ crCache = crs /\ crStale = {}
  /\ queue = Crs /\ pc = "idle"
  /\ me = NoCr /\ inst = [live |-> TRUE, gen |-> 1, status |-> "unset"] /\ instFresh = FALSE
  /\ needToRequeue = FALSE
  /\ tampers = 0 /\ faults = 0

\* A write to the server leaves the cached copy behind.
Write(k, o) ==
  /\ server' = [server EXCEPT ![k] = o]
  /\ stale' = stale \cup {k}
  /\ UNCHANGED cache

WriteCr(c, r) ==
  /\ crs' = [crs EXCEPT ![c] = r]
  /\ crStale' = crStale \cup {c}
  /\ UNCHANGED crCache

-----------------------------------------------------------------------------
(* The environment and the informers.                                      *)

\* The bound leaves room for one more disturbance.
MayDisturb == tampers + faults < MaxDisturbances

EditCr ==
  /\ \E c \in Crs :
       /\ crs[c].live /\ crs[c].gen < MaxGen
       /\ WriteCr(c, [crs[c] EXCEPT !.gen = @ + 1])
       /\ instFresh' = (instFresh /\ me # c)
  /\ UNCHANGED <<controller, certs, clusterVars, queue, pc, me, inst, needToRequeue, tampers, faults>>

DeleteCr ==
  /\ MayDisturb /\ tampers' = tampers + 1
  /\ \E c \in Deletable :
       /\ crs[c].live
       /\ WriteCr(c, [crs[c] EXCEPT !.live = FALSE])
       /\ instFresh' = (instFresh /\ me # c)
  /\ UNCHANGED <<controller, certs, clusterVars, queue, pc, me, inst, needToRequeue, faults>>

Tamper ==
  /\ MayDisturb
  /\ \E k \in Tampered :
       /\ server[k] # Absent
       /\ Write(k, Absent) \/ Write(k, [server[k] EXCEPT !.gen = 0])
  /\ tampers' = tampers + 1
  /\ UNCHANGED <<controller, certs, crVars, queue, pc, runVars, faults>>

CollectGarbage ==
  /\ \E k \in Kinds :
       server[k] # Absent /\ ~crs[server[k].owner].live /\ Write(k, Absent)
  /\ UNCHANGED <<controller, certs, crVars, queue, pc, runVars, tampers, faults>>

\* cert-manager is installed under a running operator, which adds no watch then.
InstallCertManager ==
  /\ controller = "ui" /\ certs = "none"
  /\ certs' = "unwatched"
  /\ UNCHANGED <<controller, clusterVars, crVars, queue, pc, runVars, tampers, faults>>

\* An event of a watched kind enqueues the owners of the old and the new object.
Sync(k) ==
  /\ k \in stale
  /\ cache' = [cache EXCEPT ![k] = server[k]] /\ stale' = stale \ {k}
  /\ queue' = IF k \in Watched
              THEN queue \cup ({cache[k].owner, server[k].owner} \ {NoCr}) ELSE queue
  /\ UNCHANGED <<controller, certs, server, crVars, pc, runVars, tampers, faults>>

SyncCr(c) ==
  /\ c \in crStale
  /\ crCache' = [crCache EXCEPT ![c] = crs[c]] /\ crStale' = crStale \ {c}
  /\ queue' = queue \cup {c}
  /\ UNCHANGED <<controller, certs, clusterVars, crs, pc, runVars, tampers, faults>>

-----------------------------------------------------------------------------
(* Reconcile.                                                              *)

\* Mutant: an error is logged, and the request forgotten.
AgainForgotten == pc' = "idle" /\ queue' = queue

Again == pc' = "idle" /\ queue' = queue \cup {me}

StartReconcile ==
  /\ pc = "idle"
  /\ \E c \in queue :
       /\ queue' = queue \ {c}
       /\ \/ ~crCache[c].live /\ UNCHANGED <<pc, runVars>>
          \/ /\ crCache[c].live
             /\ me' = c /\ inst' = crCache[c] /\ instFresh' = (c \notin crStale)
             /\ needToRequeue' = FALSE
             /\ pc' = IF crCache[c].status = "unset" THEN "defaultStatus" ELSE "Service"
  /\ UNCHANGED <<controller, certs, clusterVars, crVars, tampers, faults>>

\* Status().Update(instance), refused if instance is not of the server's version.
PutStatus(s) ==
  /\ instFresh
  /\ WriteCr(me, [crs[me] EXCEPT !.status = s])
  /\ inst' = [inst EXCEPT !.status = s]
  /\ UNCHANGED instFresh

StatusRefused == ~instFresh /\ UNCHANGED <<crVars, inst, instFresh>> /\ Again

\* The default, "none", is what the pods' names come to when there is no pod.
SetDefaultStatus ==
  /\ pc = "defaultStatus"
  /\ \/ \E s \in {"old", "current"} : PutStatus(s) /\ pc' = After[pc] /\ UNCHANGED queue
     \/ StatusRefused
  /\ UNCHANGED <<controller, certs, clusterVars, me, needToRequeue, tampers, faults>>

\* What is not in the cache is created, even if it turns out to exist.
CreateObject ==
  /\ pc \in Kinds /\ cache[pc] = Absent
  /\ pc = "Certificate" => certs # "none"
  /\ IF server[pc] = Absent THEN Write(pc, Built(pc, me, inst.gen)) ELSE UNCHANGED clusterVars
  /\ needToRequeue' = TRUE
  /\ pc' = After[pc]
  /\ UNCHANGED <<controller, certs, crVars, queue, me, inst, instFresh, tampers, faults>>

\* A cluster that does not serve Certificates ends the run with the Get of one.
CertificatesUnserved ==
  /\ pc = "Certificate" /\ certs = "none"
  /\ Again
  /\ UNCHANGED <<controller, certs, clusterVars, crVars, runVars, tampers, faults>>

\* Mutant: an object that is found asks for another run too.
KeepObjectRequeues ==
  /\ pc \in Kinds /\ cache[pc] # Absent
  /\ Equal(cache[pc], Built(pc, me, inst.gen))
  /\ needToRequeue' = TRUE
  /\ pc' = After[pc]
  /\ UNCHANGED <<controller, certs, clusterVars, crVars, queue, me, inst, instFresh, tampers, faults>>

KeepObject ==
  /\ pc \in Kinds /\ cache[pc] # Absent
  /\ Equal(cache[pc], Built(pc, me, inst.gen))
  /\ pc' = After[pc]
  /\ UNCHANGED <<controller, certs, clusterVars, crVars, queue, runVars, tampers, faults>>

\* The server takes an update from a current copy that keeps the selector of a
\* Deployment.
Accepted(k, found, new) ==
  /\ k \notin stale
  /\ k = "Deployment" => found.selects = new.selects

UpdateObject ==
  /\ pc \in Kinds /\ cache[pc] # Absent
  /\ LET new == Built(pc, me, inst.gen)
     IN  /\ ~Equal(cache[pc], new)
         /\ IF Accepted(pc, cache[pc], new)
            THEN Write(pc, Updated(cache[pc], new)) /\ pc' = After[pc] /\ UNCHANGED queue
            ELSE Again /\ UNCHANGED clusterVars
  /\ UNCHANGED <<controller, certs, crVars, runVars, tampers, faults>>

\* A created object asks for another run; otherwise the status is brought up to
\* date and the run ends.
UpdateStatus ==
  /\ pc = "status"
  /\ \/ needToRequeue /\ Again /\ UNCHANGED <<crVars, inst, instFresh>>
     \/ ~needToRequeue /\ inst.status = "current"
        /\ pc' = After[pc] /\ UNCHANGED <<crVars, inst, instFresh, queue>>
     \/ ~needToRequeue /\ inst.status # "current"
        /\ \/ PutStatus("current") /\ pc' = After[pc] /\ UNCHANGED queue
           \/ StatusRefused
  /\ UNCHANGED <<controller, certs, clusterVars, me, needToRequeue, tampers, faults>>

\* A call fails.  A write may have reached the server all the same; a create
\* that did is CreateObject, but for the request that it leaves in the queue.
CallFails ==
  /\ pc # "idle"
  /\ pc = "Certificate" => certs # "none"
  /\ MayDisturb /\ faults' = faults + 1
  /\ \/ UNCHANGED <<clusterVars, crVars, instFresh>>
     \/ /\ pc \in Kinds
        /\ LET new == Built(pc, me, inst.gen)
           IN  \/ cache[pc] = Absent /\ server[pc] = Absent /\ Write(pc, new)
               \/ /\ cache[pc] # Absent /\ ~Equal(cache[pc], new)
                  /\ Accepted(pc, cache[pc], new) /\ Write(pc, Updated(cache[pc], new))
        /\ UNCHANGED <<crVars, instFresh>>
     \/ /\ pc \in {"defaultStatus", "status"} /\ instFresh /\ inst.status # "current"
        /\ pc = "status" => ~needToRequeue
        /\ \/ WriteCr(me, [crs[me] EXCEPT !.status = "current"])
           \/ pc = "defaultStatus" /\ WriteCr(me, [crs[me] EXCEPT !.status = "old"])
        /\ instFresh' = FALSE
        /\ UNCHANGED clusterVars
  /\ Again
  /\ UNCHANGED <<controller, certs, me, inst, needToRequeue, tampers>>

\* The owners of what the cache holds, and the resources it holds.
Listed ==
  {c \in Crs : crCache[c].live \/ \E k \in Watched : cache[k].owner = c}

Resync ==
  /\ MayDisturb /\ faults' = faults + 1
  /\ queue' = queue \cup Listed
  /\ UNCHANGED <<controller, certs, clusterVars, crVars, pc, runVars, tampers>>

\* The watch of Certificates may fail, and must if the cluster does not serve them.
Restart ==
  /\ MayDisturb /\ faults' = faults + 1
  /\ certs' \in IF certs = "none" THEN {"none"} ELSE {"unwatched", "watched"}
  /\ UNCHANGED <<controller, clusterVars, crVars, inst, tampers>>
  /\ queue' = Listed' /\ pc' = "idle"
  /\ me' = NoCr /\ instFresh' = FALSE /\ needToRequeue' = FALSE

Reconcile ==
  \/ StartReconcile \/ SetDefaultStatus \/ CreateObject \/ CertificatesUnserved
  \/ KeepObject \/ UpdateObject \/ UpdateStatus

Next ==
  \/ Reconcile \/ CallFails \/ Resync \/ Restart
  \/ EditCr \/ DeleteCr \/ Tamper \/ CollectGarbage \/ InstallCertManager
  \/ (\E k \in Kinds : Sync(k)) \/ (\E c \in Crs : SyncCr(c))

Spec == Init /\ [][Next]_vars

\* The worker takes requests, watches deliver and garbage is collected.
FairSpec ==
  /\ Spec
  /\ WF_vars(Reconcile) /\ WF_vars(CollectGarbage)
  /\ \A k \in Kinds : WF_vars(Sync(k))
  /\ \A c \in Crs : WF_vars(SyncCr(c))

-----------------------------------------------------------------------------
(* Properties.                                                             *)

\* The objects of watched kinds are what resource c asks for, and its own.
Served(c) ==
  \A k \in Kept[controller] \cap Watched : server[k] = Built(k, c, crs[c].gen)

\* No request, no event under way, no garbage.
Asleep ==
  /\ pc = "idle" /\ queue = {} /\ crStale = {} /\ stale \cap Watched = {}
  /\ \A k \in Kinds : server[k] # Absent => crs[server[k].owner].live

\* Without Certificates, a user interface cannot be completed.
CanComplete == controller = "ui" => certs # "none"

\* No lost wake-up: when the controller sleeps next to a live resource, the
\* cluster serves what it needs, the resource has its objects and a status.  An
\* APIService, which nobody watches, and a Certificate whose watch failed are
\* there too, brought up to date from what an older operator made, unless
\* others have written to them.
NoLostWakeUp ==
  Asleep => \A c \in Crs : crs[c].live =>
    /\ CanComplete
    /\ Served(c)
    /\ crs[c].status = "current"
    /\ tampers = 0 => \A k \in Kept[controller] \ Watched : server[k] = Built(k, c, 1)

\* Once others stop writing, a live resource is served, for good, and the
\* objects of a deleted resource are gone; the controller comes to rest, unless
\* Certificates are missing to a live resource.
EventuallyServed ==
  <>[](/\ \A c \in Crs :
            IF crs[c].live THEN Served(c) ELSE \A k \in Kinds : server[k].owner # c
       /\ CanComplete \/ (\A c \in Crs : ~crs[c].live) => pc = "idle" /\ queue = {})

\* "a UI Deployment and Service for each MeteringUI CR": whoever sleeps next to
\* a live resource has created them.
CreatedForEach ==
  Asleep => \A c \in Crs : crs[c].live =>
    \A k \in {"Deployment", "Service"} : server[k].owner = c

=============================================================================
