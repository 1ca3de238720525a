------------------------- MODULE MeteringWakeUpProofs -------------------------
(***************************************************************************)
(* The controller of a Metering does not lose a wake-up: when it sleeps    *)
(* and no event is under way, the objects it watches are what the resource *)
(* asks for, those of a disabled receiver are gone, the receiver's         *)
(* Certificate has its host, and the status is written.                    *)
(*                                                                         *)
(* The argument.  While the request is out of the queue, no event has      *)
(* changed what the cache holds of the resource and of the watched objects *)
(* there are.  So what a step of the run has found or made of an object    *)
(* can be said of the cached object, until the run itself has replaced it: *)
(* the object is then stale, and the event that renews it enqueues the     *)
(* request.                                                                *)
(***************************************************************************)
EXTENDS MeteringProofs

\* The steps in their order.
Position ==
  [ defaultStatus |-> 1, lookup |-> 2, dmService |-> 3, readerService |-> 4,
    receiverService |-> 5, receiverRoute |-> 6, dm |-> 7, reader |-> 8, ingress |-> 9,
    apiCert |-> 10, receiverCert |-> 11, receiverSecret |-> 12, daemonSet |-> 13,
    status |-> 14, idle |-> 15 ]

\* The objects but the Route, those of watched kinds among them, and of these
\* the ones that the cached resource asks for.
Lasting == Always \cup {"receiverService", "receiverCert"}
Seen == {o \in Lasting : KindOf[o] \in Watched}
Asked == IF Enabled[crCache.gen] THEN Seen ELSE Seen \cap Always

\* The run is past the step of an object, or over.
Handled(o) == Position[o] < Position[pc]

\* The run acts for the resource in the cache.
ActsForCached ==
  pc # "idle" => inst.gen = crCache.gen /\ (crFresh => inst.status = crCache.status)

\* What the resource asks for is in the cache, and as asked unless it is stale.
HandledInCache ==
  \A o \in Asked : Handled(o) =>
    cache[o] # "absent" /\ (o \in stale \/ cache[o] = Built(o, crCache.gen, routeHost))

\* What it does not ask for is not in the cache, or no more on the server.
RemovedFromCache ==
  \A o \in Seen \ Asked : Handled(o) => cache[o] = "absent" \/ o \in stale

\* A run for an enabled receiver gets past the Route of a hub with a host only.
HostForHub == Enabled[crCache.gen] /\ Handled("receiverRoute") /\ isRACMHub => routeHost

\* A run gets past the first Certificate only where Certificates are served.
CertificatesServed == Handled("apiCert") => certs # "none"

\* At the end of a run there was nothing to create, and the status is written.
DoneForCached ==
  /\ pc \in {"status", "idle"} => ~needToRequeue
  /\ pc = "idle" /\ crFresh => crCache.status = "current"

WakeUpInv ==
  ~queued /\ crCache.gen # 0 =>
    /\ ActsForCached /\ HostForHub /\ CertificatesServed /\ DoneForCached
    /\ ~needToRequeue => HandledInCache
    /\ ~needToRequeue /\ faults = 0 => RemovedFromCache

-----------------------------------------------------------------------------
(* The steps and the objects.                                              *)

LEMMA SeenObjects ==
  /\ Lasting \subseteq Objects /\ Seen \subseteq Lasting /\ Asked \subseteq Seen
  /\ "receiverRoute" \notin Lasting /\ "apiCert" \in Lasting
  /\ \A o \in Seen : KindOf[o] \in Watched /\ KindOf[o] \in Kinds
BY DEF Lasting, Seen, Asked, Always, Objects, Kinds, KindOf

\* What is watched changes only when the operator restarts.
LEMMA SameSeen ==
  ASSUME certs' = certs \/ (certs = "none" /\ certs' = "unwatched")
  PROVE  Watched' = Watched /\ Seen' = Seen /\ (crCache' = crCache => Asked' = Asked)
<1>1. Watched' = Watched
  BY DEF Watched
<1> QED
  BY <1>1 DEF Seen, Asked

\* What is handled after the step of object o was handled before, or is o.
LEMMA HandledNext ==
  ASSUME NEW p \in Always \cup Receiver, pc = p, pc' = After[p], NEW o \in Objects \ {"receiverSecret"}
  PROVE  Handled(o)' => Handled(o) \/ o = p
BY DEF Handled, Position, After, Always, Receiver, Objects, KindOf

LEMMA NothingHandled ==
  ASSUME pc' \in {"defaultStatus", "lookup", "dmService"}
  PROVE  HandledInCache' /\ RemovedFromCache' /\ HostForHub' /\ CertificatesServed'
<1>1. \A o \in Lasting \cup {"receiverRoute"} : ~Handled(o)'
  BY DEF Handled, Position, Lasting, Always
<1>2. Seen' \subseteq Lasting /\ Asked' \subseteq Lasting /\ "apiCert" \in Lasting
  BY DEF Asked, Seen, Lasting, Always
<1> QED
  BY <1>1, <1>2 DEF HandledInCache, RemovedFromCache, HostForHub, CertificatesServed

LEMMA AllHandled ==
  ASSUME pc \in {"daemonSet", "status", "idle"}, NEW o \in Lasting \cup {"receiverRoute"}
  PROVE  Handled(o)
BY DEF Handled, Position, Lasting, Always

\* A step that leaves the queue and the run alone, and the cached copies, and
\* brings none of them up to date.
LEMMA Unaffected ==
  ASSUME WakeUpInv, queued' = queued,
         UNCHANGED <<pc, inst, crCache, cache, isRACMHub, routeHost, needToRequeue>>,
         certs' = certs \/ (certs = "none" /\ certs' = "unwatched"),
         stale \subseteq stale', crFresh' => crFresh, faults' = 0 => faults = 0
  PROVE  WakeUpInv'
<1>1. Seen' = Seen /\ Asked' = Asked /\ \A o : Handled(o)' <=> Handled(o)
  BY SameSeen DEF Handled
<1> QED
  BY <1>1 DEF WakeUpInv, ActsForCached, HandledInCache, RemovedFromCache, HostForHub,
              CertificatesServed, DoneForCached

\* The run goes on after the step of an object, which it has found or made what
\* the resource asks for, or has written, or asks for another run.
LEMMA GoesOn ==
  ASSUME WakeUpInv, ~queued, crCache.gen # 0, pc \in Always \cup Receiver,
         \/ pc' = After[pc]
         \/ pc = "receiverCert" /\ pc' = "receiverSecret",
         inst' = inst, cr' = cr, crCache' = crCache, crFresh' = crFresh, cache' = cache,
         isRACMHub' = isRACMHub, routeHost' = routeHost, certs' = certs,
         pc = "apiCert" => certs # "none",
         stale \subseteq stale', faults' = 0 => faults = 0, ~needToRequeue' => ~needToRequeue,
         pc = "receiverRoute" /\ Enabled[crCache.gen] /\ isRACMHub => routeHost,
         ~needToRequeue' /\ pc \in Asked =>
           /\ cache[pc] # "absent"
           /\ pc \in stale' \/ cache[pc] = Built(pc, crCache.gen, routeHost),
         faults' = 0 /\ pc \in Seen \ Asked => cache[pc] = "absent" \/ pc \in stale'
  PROVE  WakeUpInv'
<1>1. pc' \notin {"idle", "status"} /\ pc # "idle"
  BY DEF After, Always, Receiver
<1>2. \A p \in Lasting \cup {"receiverRoute"} : Handled(p)' => Handled(p) \/ p = pc
  BY SeenObjects DEF Handled, Position, After, Always, Receiver, Lasting
<1>3. Asked' = Asked /\ Seen' = Seen
  BY SameSeen
<1>4. ActsForCached' /\ DoneForCached'
  BY <1>1 DEF WakeUpInv, ActsForCached, DoneForCached
<1>5. HostForHub' /\ CertificatesServed'
  BY <1>2, SeenObjects DEF WakeUpInv, HostForHub, CertificatesServed
<1>6. ~needToRequeue' => HandledInCache'
  BY <1>2, <1>3, SeenObjects DEF WakeUpInv, HandledInCache
<1>7. ~needToRequeue' /\ faults' = 0 => RemovedFromCache'
  BY <1>2, <1>3, SeenObjects DEF WakeUpInv, RemovedFromCache
<1> QED
  BY <1>4, <1>5, <1>6, <1>7 DEF WakeUpInv

LEMMA EnsureStep ==
  ASSUME TypeOK, WakeUpInv, EnsureObject
  PROVE  WakeUpInv'
<1>0. queued' => WakeUpInv'
  BY DEF WakeUpInv
<1>1. SUFFICES ASSUME ~queued, ~queued', crCache'.gen # 0 PROVE WakeUpInv'
  BY <1>0 DEF WakeUpInv, EnsureObject, Ensure, Again
<1>2. pc \in Always \cup Receiver /\ pc # "idle" /\ crCache.gen # 0
  BY <1>1 DEF EnsureObject, Always, Receiver, crVars
<1>3. inst.gen = crCache.gen
  BY <1>1, <1>2 DEF WakeUpInv, ActsForCached
<1>4. pc \in Receiver => Enabled[crCache.gen]
  BY <1>3 DEF EnsureObject, Receiver
<1>5. pc \notin Seen \ Asked
  BY <1>4 DEF Seen, Lasting, Asked, Receiver
<1>6. CASE Ensure(pc) /\ (pc = "receiverRoute" => routeHost) /\ (pc = "apiCert" => certs # "none")
  <2> DEFINE new == Built(pc, inst.gen, routeHost)
  <2>0. Write(pc, new) => cache' = cache /\ stale' = stale \cup {pc}
    BY DEF Write
  <2> HIDE DEF new
  <2>1. /\ pc' = After[pc] /\ cache' = cache /\ stale \subseteq stale'
        /\ ~needToRequeue' => ~needToRequeue
        /\ ~needToRequeue' => cache[pc] = new \/ (cache[pc] # "absent" /\ pc \in stale')
    BY <1>1, <1>6, <2>0 DEF Ensure, Again, clusterVars, new
  <2>2. Built(pc, inst.gen, routeHost) # "absent"
    BY BuiltType
  <2> QED
    BY <1>1, <1>2, <1>3, <1>5, <1>6, <2>1, <2>2, GoesOn DEF EnsureObject, new, crVars, surroundings
<1>7. CASE pc = "receiverRoute" /\ ~isRACMHub /\ UNCHANGED <<clusterVars, needToRequeue>>
  <2>1. pc' = After[pc] /\ pc \notin Seen /\ pc \notin Asked
    BY <1>1, <1>7, SeenObjects DEF EnsureObject, Always, Receiver, Again
  <2> QED
    BY <1>1, <1>2, <1>7, <2>1, GoesOn DEF EnsureObject, clusterVars, crVars, surroundings
<1> QED
  BY <1>1, <1>6, <1>7 DEF EnsureObject, Again, Always

LEMMA RemoveStep ==
  ASSUME TypeOK, VersionsIdentify, WakeUpInv, RemoveReceiver
  PROVE  WakeUpInv'
<1>1. SUFFICES ASSUME ~queued, crCache.gen # 0 PROVE WakeUpInv'
  BY DEF WakeUpInv, RemoveReceiver, crVars
<1>2. pc \in Receiver /\ pc # "idle" /\ pc \in Objects /\ faults \in Nat
  BY StepsAndObjects DEF RemoveReceiver, Receiver, TypeOK
<1>3. inst.gen = crCache.gen
  BY <1>1, <1>2 DEF WakeUpInv, ActsForCached
<1>4. ~Enabled[crCache.gen] /\ pc \notin Asked /\ pc # "apiCert"
  BY <1>2, <1>3 DEF RemoveReceiver, Asked, Always, Receiver
<1>5. /\ cache' = cache /\ stale \subseteq stale'
      /\ faults' = 0 => faults = 0 /\ (cache[pc] = "absent" \/ pc \in stale')
  <2>1. cache[pc] # "absent" /\ server[pc] = "absent" => pc \in stale
    BY <1>2 DEF VersionsIdentify
  <2>2. Write(pc, "absent") => cache' = cache /\ stale' = stale \cup {pc}
    BY DEF Write
  <2>3. faults + 1 # 0
    BY <1>2
  <2> QED
    BY <2>1, <2>2, <2>3 DEF RemoveReceiver, Remove, clusterVars
<1> QED
  BY <1>1, <1>2, <1>4, <1>5, GoesOn DEF RemoveReceiver, runVars, crVars, surroundings

\* An event of a watched kind that changes a cached object, or brings one, comes
\* with the request.
LEMMA SyncStep ==
  ASSUME TypeOK, WakeUpInv, NEW k \in Kinds, Sync(k)
  PROVE  WakeUpInv'
<1>1. SUFFICES ASSUME ~queued, ~queued' PROVE WakeUpInv'
  BY DEF WakeUpInv, Sync
<1>2. \A o \in Seen : cache'[o] = cache[o]
  BY <1>1, SeenObjects DEF Sync, TypeOK
<1>3. \A o \in Seen : o \in stale /\ cache[o] # "absent" => o \in stale'
  BY <1>1, SeenObjects DEF Sync
<1>4. Asked' = Asked /\ Seen' = Seen /\ \A o : Handled(o)' <=> Handled(o)
  BY SameSeen DEF Handled, Sync, crVars, surroundings
<1>5. HandledInCache => HandledInCache'
  BY <1>2, <1>3, <1>4, SeenObjects DEF HandledInCache, Sync, crVars, runVars
<1>6. RemovedFromCache => RemovedFromCache'
  BY <1>2, <1>3, <1>4, SeenObjects DEF RemovedFromCache
<1>7. (ActsForCached => ActsForCached') /\ (HostForHub => HostForHub')
      /\ (DoneForCached => DoneForCached') /\ (CertificatesServed => CertificatesServed')
  BY <1>4
  DEF ActsForCached, HostForHub, DoneForCached, CertificatesServed, Sync, crVars, runVars,
      surroundings
<1> QED
  BY <1>1, <1>5, <1>6, <1>7 DEF WakeUpInv, Sync, crVars, runVars

LEMMA WakeUpStep == TypeOK /\ VersionsIdentify /\ WakeUpInv /\ [Next]_vars => WakeUpInv'
<1> SUFFICES ASSUME TypeOK, VersionsIdentify, WakeUpInv, [Next]_vars PROVE WakeUpInv'
  OBVIOUS
<1> USE DEF crVars, runVars, clusterVars, surroundings
<1>0. queued' => WakeUpInv'
  BY DEF WakeUpInv
<1>1. CASE StartReconcile
  <2>1. SUFFICES ASSUME crCache.gen # 0 PROVE WakeUpInv'
    BY <1>1 DEF StartReconcile, WakeUpInv
  <2>2. pc' \in {"defaultStatus", "lookup"} /\ inst' = crCache /\ ~needToRequeue'
    BY <1>1, <2>1 DEF StartReconcile
  <2>3. ActsForCached' /\ DoneForCached'
    BY <1>1, <2>2 DEF StartReconcile, ActsForCached, DoneForCached
  <2> QED
    BY <2>2, <2>3, NothingHandled DEF WakeUpInv
<1>2. CASE SetDefaultStatus \/ Lookup
  <2>1. SUFFICES ASSUME ~queued, ~queued', crCache.gen # 0 PROVE WakeUpInv'
    BY <1>0, <1>2 DEF SetDefaultStatus, PutStatus, StatusRefused, Lookup, Again, WakeUpInv
  <2>2. After["defaultStatus"] = "lookup" /\ After["lookup"] = "dmService"
    BY DEF After
  <2>3. pc' \in {"lookup", "dmService"} /\ pc # "idle"
    BY <1>2, <2>1, <2>2 DEF SetDefaultStatus, StatusRefused, Lookup, Again
  <2>4. inst'.gen = inst.gen /\ crCache' = crCache /\ (crFresh' => crFresh /\ inst' = inst)
    <3>1. CASE SetDefaultStatus
      BY <2>1, <3>1
      DEF SetDefaultStatus, PutStatus, StatusRefused, Again, TypeOK, CustomResource
    <3>2. CASE Lookup
      BY <3>2 DEF Lookup
    <3> QED
      BY <1>2, <3>1, <3>2
  <2>5. ActsForCached' /\ DoneForCached'
    BY <2>1, <2>3, <2>4 DEF WakeUpInv, ActsForCached, DoneForCached
  <2> QED
    BY <2>3, <2>5, NothingHandled DEF WakeUpInv
<1>3. CASE EnsureObject
  BY <1>3, EnsureStep
<1>4. CASE RemoveReceiver
  BY <1>4, RemoveStep
<1>5. CASE RemoveReceiverSecret \/ CheckDaemonSet
  <2>1. SUFFICES ASSUME ~queued, ~queued', crCache.gen # 0 PROVE WakeUpInv'
    BY <1>0, <1>5 DEF RemoveReceiverSecret, CheckDaemonSet, Again, WakeUpInv
  <2>2. After["receiverSecret"] = "daemonSet" /\ After["daemonSet"] = "status"
    BY DEF After
  <2>3. \/ pc = "receiverSecret" /\ pc' = "daemonSet"
        \/ pc = "daemonSet" /\ pc' = "status" /\ ~needToRequeue
    BY <1>5, <2>2, <2>1 DEF RemoveReceiverSecret, CheckDaemonSet, Again
  <2>4. \A o \in Lasting \cup {"receiverRoute"} : Handled(o)
    BY <2>3 DEF Handled, Position, Lasting, Always
  <2>5. cache' = cache /\ stale \subseteq stale' /\ (faults' = 0 => faults = 0)
    BY <1>5 DEF RemoveReceiverSecret, CheckDaemonSet, Remove, Write, TypeOK
  <2>6. Asked' = Asked /\ Seen' = Seen
    BY <1>5, SameSeen DEF RemoveReceiverSecret, CheckDaemonSet
  <2> QED
    BY <1>5, <2>1, <2>3, <2>4, <2>5, <2>6, SeenObjects
    DEF RemoveReceiverSecret, CheckDaemonSet, WakeUpInv, ActsForCached, HandledInCache,
        RemovedFromCache, HostForHub, CertificatesServed, DoneForCached
<1>6. CASE UpdateStatus
  <2>1. SUFFICES ASSUME ~queued, ~queued', crCache.gen # 0 PROVE WakeUpInv'
    BY <1>0, <1>6 DEF UpdateStatus, PutStatus, StatusRefused, Again, WakeUpInv
  <2>2. pc = "status" /\ pc' = "idle" /\ crCache' = crCache
        /\ (crFresh' => crFresh /\ inst.status = "current")
    BY <1>6, <2>1 DEF UpdateStatus, PutStatus, StatusRefused, Again, After
  <2>3. \A o \in Lasting \cup {"receiverRoute"} : Handled(o)
    BY <2>2, AllHandled
  <2>4. Asked' = Asked /\ Seen' = Seen
    BY <1>6, <2>2, SameSeen DEF UpdateStatus
  <2> QED
    BY <1>6, <2>1, <2>2, <2>3, <2>4, SeenObjects
    DEF UpdateStatus, WakeUpInv, ActsForCached, HandledInCache, RemovedFromCache, HostForHub,
        CertificatesServed, DoneForCached
<1>7. CASE EnsureFails \/ StatusFails \/ Resync \/ Restart
  BY <1>0, <1>7 DEF EnsureFails, StatusFails, Resync, Restart, Again
<1>8. CASE EditCr \/ DeleteCr \/ InstallCertManager \/ LearnDomain
  BY <1>8, Unaffected DEF EditCr, DeleteCr, InstallCertManager, LearnDomain
<1>9. CASE CollectGarbage \/ Tamper \/ Issue
  <2>1. stale \subseteq stale' /\ cache' = cache
    BY <1>9 DEF CollectGarbage, Tamper, Issue, StartIssuing, FinishIssuing, Write
  <2> QED
    BY <1>9, <2>1, Unaffected DEF CollectGarbage, Tamper, Issue, StartIssuing, FinishIssuing
<1>10. CASE SyncCr
  BY <1>0, <1>10 DEF SyncCr
<1>11. ASSUME NEW k \in Kinds, Sync(k) PROVE WakeUpInv'
  BY <1>11, SyncStep
<1>12. CASE UNCHANGED vars
  BY <1>12, Unaffected DEF vars
<1> QED
  BY <1>1, <1>2, <1>3, <1>4, <1>5, <1>6, <1>7, <1>8, <1>9, <1>10, <1>11, <1>12
  DEF Next, Reconcile

\* While the request is out of the queue, the run acts for the cached resource, and
\* each object it is past is in the cache as asked, or about to cause an event.
THEOREM WakeUpInvCorrect == Spec => []WakeUpInv
<1>1. Init => WakeUpInv
  BY DEF Init, WakeUpInv
<1> QED
  BY <1>1, WakeUpStep, TypeCorrect, VersionsIdentifyAlways, PTL DEF Spec

-----------------------------------------------------------------------------
(* The Certificates.                                                       *)

\* What replaces a Certificate or its cached copy.
LEMMA CertificateSteps ==
  ASSUME TypeOK, [Next]_vars, NEW o \in {"apiCert", "receiverCert"}
  PROVE  \/ server'[o] = server[o] /\ cache'[o] = cache[o] /\ (o \in stale => o \in stale')
         \/ pc = o /\ (EnsureObject \/ EnsureFails \/ RemoveReceiver)
         \/ Tamper \/ CollectGarbage \/ Sync("Certificate")
<1>0. o \in Objects /\ KindOf[o] = "Certificate" /\ o \notin {"daemonSet", "receiverSecret"}
  BY DEF Objects, KindOf
<1>1. ASSUME NEW p \in Objects \ {o}, NEW c, Write(p, c)
      PROVE  server'[o] = server[o] /\ cache'[o] = cache[o] /\ (o \in stale => o \in stale')
  BY <1>0, <1>1 DEF Write, TypeOK
<1>2. CASE EnsureObject \/ EnsureFails \/ RemoveReceiver
  <2>1. pc \in Objects
    BY <1>2, StepsAndObjects DEF EnsureObject, EnsureFails, RemoveReceiver, Always, Receiver
  <2> QED
    BY <1>0, <1>1, <1>2, <2>1
    DEF EnsureObject, EnsureFails, RemoveReceiver, Ensure, Remove, clusterVars
<1>3. CASE RemoveReceiverSecret \/ CheckDaemonSet \/ Issue
  BY <1>0, <1>1, <1>3, StepsAndObjects
  DEF RemoveReceiverSecret, CheckDaemonSet, Issue, StartIssuing, FinishIssuing, Remove, clusterVars
<1>4. ASSUME NEW k \in Kinds, k # "Certificate", Sync(k)
      PROVE  server'[o] = server[o] /\ cache'[o] = cache[o] /\ (o \in stale => o \in stale')
  BY <1>0, <1>4 DEF Sync
<1> QED
  BY <1>2, <1>3, <1>4
  DEF Next, Reconcile, StartReconcile, SetDefaultStatus, Lookup, UpdateStatus, StatusFails,
      Resync, Restart, EditCr, DeleteCr, SyncCr, InstallCertManager, LearnDomain, vars, clusterVars

\* The Certificate of the API, left alone: what a run has found or made stays,
\* also when no event tells of it.
ApiCertInv ==
  tampers = 0 /\ cr.gen # 0 =>
    /\ server["apiCert"] \in {"absent", "basic"} /\ cache["apiCert"] \in {"absent", "basic"}
    /\ cache["apiCert"] # "absent" => server["apiCert"] = "basic"
    /\ ~queued /\ crCache.gen # 0 /\ ~needToRequeue /\ Handled("apiCert")
         => server["apiCert"] = "basic"

\* A deleted resource stays deleted, and writes of others stay counted.
LEMMA OnlyForward ==
  ASSUME TypeOK, [Next]_vars
  PROVE  (cr'.gen # 0 => cr.gen # 0) /\ (tampers' = 0 => tampers = 0 /\ ~Tamper)
<1>1. cr'.gen # 0 => cr.gen # 0
  <2>1. \A s : PutStatus(s) => cr'.gen = cr.gen
    BY DEF PutStatus, TypeOK, CustomResource
  <2>2. StatusFails => cr'.gen = cr.gen
    BY DEF StatusFails, TypeOK, CustomResource
  <2>3. EditCr => cr.gen # 0
    BY DEF EditCr
  <2>4. DeleteCr => cr'.gen = 0
    BY DEF DeleteCr
  <2> QED
    BY <2>1, <2>2, <2>3, <2>4
    DEF Next, Reconcile, StartReconcile, SetDefaultStatus, StatusRefused, Lookup, EnsureObject,
        RemoveReceiver, RemoveReceiverSecret, CheckDaemonSet, UpdateStatus, EnsureFails, Resync,
        Restart, CollectGarbage, Tamper, Issue, StartIssuing, FinishIssuing, SyncCr, Sync,
        InstallCertManager, LearnDomain, crVars, vars
<1>2. tampers' = 0 => tampers = 0 /\ ~Tamper
  <2>1. Tamper => tampers' # 0
    BY DEF Tamper, TypeOK
  <2>2. ~Tamper => tampers' = tampers
    BY DEF Next, Reconcile, StartReconcile, SetDefaultStatus, Lookup, EnsureObject,
           RemoveReceiver, RemoveReceiverSecret, CheckDaemonSet, UpdateStatus, EnsureFails,
           StatusFails, EditCr, DeleteCr, Resync, Restart, CollectGarbage, Issue,
           StartIssuing, FinishIssuing, SyncCr, Sync, InstallCertManager, LearnDomain, vars
  <2> QED
    BY <2>1, <2>2
<1> QED
  BY <1>1, <1>2

\* How the controller comes to be past the first Certificate.
LEMMA PastApiCert ==
  ASSUME TypeOK, [Next]_vars, ~queued', crCache'.gen # 0, ~needToRequeue', Handled("apiCert")'
  PROVE  \/ ~queued /\ crCache.gen # 0 /\ ~needToRequeue /\ Handled("apiCert")
         \/ pc = "apiCert" /\ Ensure(pc)
<1> USE DEF crVars, runVars
<1>1. CASE StartReconcile
  <2>1. crCache' = crCache /\ pc' \in {"defaultStatus", "lookup"}
    BY <1>1 DEF StartReconcile
  <2> QED
    BY <2>1 DEF Handled, Position
<1>2. CASE SetDefaultStatus \/ Lookup
  <2>0. After["defaultStatus"] = "lookup" /\ After["lookup"] = "dmService"
    BY DEF After
  <2>1. pc' \in {"lookup", "dmService", "idle"} /\ (pc' = "idle" => queued')
    BY <1>2, <2>0 DEF SetDefaultStatus, StatusRefused, Lookup, Again
  <2> QED
    BY <2>1 DEF Handled, Position
<1>3. CASE EnsureObject
  <2>1. pc \in Always \cup Receiver /\ pc' = After[pc] /\ queued' = queued
    BY <1>3 DEF EnsureObject, Ensure, Again, Always, Receiver
  <2>2. Handled("apiCert") \/ pc = "apiCert"
    BY <2>1, HandledNext DEF Objects, KindOf
  <2>3. ~needToRequeue /\ crCache' = crCache
    BY <1>3 DEF EnsureObject, Ensure, TypeOK
  <2>4. pc = "apiCert" => Ensure(pc)
    BY <1>3 DEF EnsureObject, Again
  <2> QED
    BY <2>1, <2>2, <2>3, <2>4
<1>4. CASE RemoveReceiver \/ RemoveReceiverSecret \/ CheckDaemonSet \/ UpdateStatus
  <2>1. pc \in {"receiverService", "receiverRoute"} => pc' = After[pc]
    BY <1>4 DEF RemoveReceiver, RemoveReceiverSecret, CheckDaemonSet, UpdateStatus, Receiver
  <2>2. pc \in Receiver \cup {"receiverSecret", "daemonSet", "status"}
    BY <1>4 DEF RemoveReceiver, RemoveReceiverSecret, CheckDaemonSet, UpdateStatus
  <2>3. Handled("apiCert")
    BY <2>1, <2>2 DEF Handled, Position, After, Receiver
  <2>4. ~queued /\ ~needToRequeue /\ crCache' = crCache
    BY <1>4
    DEF RemoveReceiver, RemoveReceiverSecret, CheckDaemonSet, UpdateStatus, PutStatus,
        StatusRefused, Again, TypeOK
  <2> QED
    BY <2>3, <2>4
<1>5. CASE EnsureFails \/ StatusFails \/ Resync \/ Restart \/ SyncCr
  BY <1>5 DEF EnsureFails, StatusFails, Resync, Restart, SyncCr, Again
<1>6. CASE EditCr \/ DeleteCr \/ CollectGarbage \/ Tamper \/ Issue \/ InstallCertManager
           \/ LearnDomain
  BY <1>6
  DEF EditCr, DeleteCr, CollectGarbage, Tamper, Issue, StartIssuing, FinishIssuing,
      InstallCertManager, LearnDomain, Handled
<1>7. ASSUME NEW k \in Kinds, Sync(k)
      PROVE  ~queued /\ crCache.gen # 0 /\ ~needToRequeue /\ Handled("apiCert")
  BY <1>7 DEF Sync, Handled
<1>8. CASE UNCHANGED vars
  BY <1>8 DEF vars, Handled
<1> QED
  BY <1>1, <1>2, <1>3, <1>4, <1>5, <1>6, <1>7, <1>8 DEF Next, Reconcile

LEMMA ApiCertStep == TypeOK /\ ApiCertInv /\ [Next]_vars => ApiCertInv'
<1> SUFFICES ASSUME TypeOK, ApiCertInv, [Next]_vars, tampers' = 0, cr'.gen # 0
             PROVE  ApiCertInv'
  BY DEF ApiCertInv
<1>1. tampers = 0 /\ cr.gen # 0 /\ ~Tamper /\ ~CollectGarbage
  BY OnlyForward DEF CollectGarbage, crVars
<1>2. \A g, host : Built("apiCert", g, host) = "basic"
  BY DEF Built
<1>3. "apiCert" \in Objects /\ "apiCert" \notin Receiver
  BY DEF Objects, KindOf, Receiver
<1>4. /\ server'["apiCert"] \in {"absent", "basic"} /\ cache'["apiCert"] \in {"absent", "basic"}
      /\ cache'["apiCert"] # "absent" => server'["apiCert"] = "basic"
      /\ server["apiCert"] = "basic" => server'["apiCert"] = "basic"
  <2>1. CASE server'["apiCert"] = server["apiCert"] /\ cache'["apiCert"] = cache["apiCert"]
    BY <1>1, <2>1 DEF ApiCertInv
  <2>2. CASE pc = "apiCert" /\ (EnsureObject \/ EnsureFails)
    <3>1. UNCHANGED clusterVars \/ Write("apiCert", "basic")
      BY <1>2, <1>3, <2>2 DEF EnsureObject, EnsureFails, Ensure, clusterVars, Always
    <3>2. Write("apiCert", "basic") => server'["apiCert"] = "basic" /\ cache' = cache
      BY <1>3 DEF Write, TypeOK
    <3> QED
      BY <1>1, <3>1, <3>2 DEF ApiCertInv, clusterVars
  <2>3. CASE Sync("Certificate")
    BY <1>1, <1>3, <2>3 DEF ApiCertInv, Sync
  <2> QED
    BY <1>1, <1>3, <2>1, <2>2, <2>3, CertificateSteps DEF RemoveReceiver
<1>5. ASSUME ~queued', crCache'.gen # 0, ~needToRequeue', Handled("apiCert")'
      PROVE  server'["apiCert"] = "basic"
  <2>1. pc = "apiCert" /\ Ensure(pc) => cache["apiCert"] # "absent"
    BY <1>5, BuiltType DEF Ensure
  <2> QED
    BY <1>1, <1>4, <1>5, <2>1, PastApiCert DEF ApiCertInv
<1> QED
  BY <1>4, <1>5 DEF ApiCertInv

LEMMA ApiCertAlways == Spec => []ApiCertInv
<1>1. Init => ApiCertInv
  <2>1. "apiCert" \in Objects /\ "apiCert" \notin Receiver
    BY DEF Objects, KindOf, Receiver
  <2>2. Installed["apiCert"] = "basic"
    BY <2>1 DEF Installed, Built
  <2> QED
    BY <2>1, <2>2 DEF Init, ApiCertInv
<1> QED
  BY <1>1, ApiCertStep, TypeCorrect, PTL DEF Spec

-----------------------------------------------------------------------------
(* The controller asleep.                                                  *)

\* Asleep, the cache shows the server's resource and watched objects.
LEMMA AsleepSees ==
  ASSUME TypeOK, VersionsIdentify, WakeUpInv, Asleep, cr.gen # 0
  PROVE  /\ crCache = cr /\ HandledInCache /\ HostForHub /\ CertificatesServed /\ DoneForCached
         /\ faults = 0 => RemovedFromCache
         /\ \A o \in Seen : o \notin stale /\ cache[o] = server[o]
         /\ \A o \in Lasting \cup {"receiverRoute"} : Handled(o)
<1>1. crCache = cr /\ ~queued /\ pc = "idle"
  BY DEF Asleep, VersionsIdentify
<1>2. \A o \in Seen : o \notin stale /\ cache[o] = server[o]
  BY SeenObjects DEF Asleep, VersionsIdentify
<1>3. \A o \in Lasting \cup {"receiverRoute"} : Handled(o)
  BY <1>1, AllHandled
<1> QED
  BY <1>1, <1>2, <1>3 DEF WakeUpInv, DoneForCached

\* The controller sleeps only where Certificates are served, when the objects the
\* live resource asks for are there as asked and its status is written; a
\* Certificate that is not watched is there as asked if nobody wrote to it.
THEOREM NoLostWakeUpCorrect == Spec => []NoLostWakeUp
<1>1. TypeOK /\ VersionsIdentify /\ WakeUpInv /\ ApiCertInv => NoLostWakeUp
  <2> SUFFICES ASSUME TypeOK, VersionsIdentify, WakeUpInv, ApiCertInv, Asleep, cr.gen # 0
               PROVE  /\ certs # "none"
                      /\ \A o \in Asked : server[o] = Built(o, cr.gen, routeHost)
                      /\ tampers = 0 => server["apiCert"] = Built("apiCert", cr.gen, routeHost)
                      /\ Enabled[cr.gen] /\ isRACMHub => routeHost
                      /\ cr.status = "current"
                      /\ crCache = cr
    <3>1. \A o \in Always : KindOf[o] \in Watched \/ o = "apiCert"
      BY DEF Always, KindOf, Watched
    <3>2. KindOf["receiverRoute"] \notin Watched
      BY DEF KindOf, Watched
    <3>3. \A o \in Always : KindOf[o] \in Watched => o \in Seen \cap Always
      BY DEF Seen, Lasting
    <3>4. \A o \in Receiver : KindOf[o] \in Watched => o \in Seen
      BY <3>2 DEF Seen, Lasting, Receiver
    <3> QED
      BY <3>1, <3>3, <3>4 DEF NoLostWakeUp, Asked
  <2>1. "apiCert" \in Lasting /\ ~queued /\ ~needToRequeue
    BY AsleepSees, SeenObjects DEF Asleep, DoneForCached
  <2>2. server["apiCert"] = "basic" \/ tampers # 0
    BY <2>1, AsleepSees DEF ApiCertInv
  <2>3. Built("apiCert", cr.gen, routeHost) = "basic"
    BY DEF Built
  <2> QED
    BY <2>1, <2>2, <2>3, AsleepSees, SeenObjects
    DEF HandledInCache, HostForHub, CertificatesServed, DoneForCached, Asleep
<1> QED
  BY <1>1, WakeUpInvCorrect, ApiCertAlways, TypeCorrect, VersionsIdentifyAlways, PTL

\* When the controller sleeps and no call has failed, the Service of a disabled
\* receiver is gone, and the Certificate where Certificates are watched.
THEOREM RemovalCompleteCorrect == Spec => []RemovalComplete
<1>1. TypeOK /\ VersionsIdentify /\ WakeUpInv => RemovalComplete
  <2> SUFFICES ASSUME TypeOK, VersionsIdentify, WakeUpInv, Asleep, cr.gen # 0,
                      ~Enabled[cr.gen], faults = 0,
                      NEW o \in {"receiverService", "receiverCert"}, KindOf[o] \in Watched
               PROVE  server[o] = "absent"
    BY DEF RemovalComplete, KindOf, Watched
  <2>1. o \in Seen \ Asked
    BY AsleepSees DEF Seen, Lasting, Asked, Always
  <2> QED
    BY <2>1, AsleepSees, SeenObjects DEF RemovedFromCache
<1> QED
  BY <1>1, WakeUpInvCorrect, TypeCorrect, VersionsIdentifyAlways, PTL

-----------------------------------------------------------------------------
(* The host in the receiver's Certificate.                                 *)

\* The steps between the lookup and the receiver's Certificate, and those after.
BeforeReceiverCert == Always \cup Receiver
AfterReceiverCert == {"receiverSecret", "daemonSet", "status", "idle"}

\* Before the first fault each lookup finds the host, and nobody writes a
\* Certificate without it.  The run whose lookup fails then finds a Certificate
\* with the host, so that it has to write one without, of which an event tells.
HostInv ==
  DomainKnown /\ faults <= 1 =>
    /\ domain
    /\ faults = 0 => server["receiverCert"] # "basic" /\ cache["receiverCert"] # "basic"
    /\ pc \in BeforeReceiverCert /\ Enabled[inst.gen] /\ ~routeHost =>
         faults # 0 /\ server["receiverCert"] # "basic" /\ cache["receiverCert"] # "basic"
    /\ /\ pc \in AfterReceiverCert /\ Enabled[crCache.gen] /\ ~routeHost /\ certs = "watched"
       /\ ~queued /\ crCache.gen # 0 /\ ~needToRequeue
       => "receiverCert" \in stale

\* A step that ends the run with a fault, or takes one, asks for another run.
LEMMA HostEnds ==
  ASSUME TypeOK, HostInv, domain' = domain, faults' = faults + 1, pc' = "idle", queued'
  PROVE  HostInv'
BY DEF HostInv, TypeOK, BeforeReceiverCert, Always, Receiver

\* A step that leaves the run and the receiver's Certificate alone.
LEMMA HostUnaffected ==
  ASSUME TypeOK, HostInv, faults' \in {faults, faults + 1}, domain' \in {domain, TRUE},
         inst'.gen = inst.gen, pc' = pc, routeHost' = routeHost,
         server'["receiverCert"] \in {server["receiverCert"], "absent", "edited"},
         cache'["receiverCert"] \in {cache["receiverCert"], server["receiverCert"]},
         queued' \/ ( /\ queued' = queued /\ crCache' = crCache /\ needToRequeue' = needToRequeue
                      /\ certs' = "watched" => certs = "watched"
                      /\ "receiverCert" \in stale => "receiverCert" \in stale' )
  PROVE  HostInv'
<1>1. faults \in Nat /\ (faults' <= 1 => faults <= 1) /\ (faults' = 0 => faults = 0)
  BY DEF TypeOK
<1>2. domain => domain'
  BY DEF TypeOK
<1> QED
  BY <1>1, <1>2 DEF HostInv

\* The run goes on after a step that leaves the receiver's Certificate alone.
LEMMA HostGoesOn ==
  ASSUME TypeOK, HostInv, faults' \in {faults, faults + 1}, domain' = domain,
         inst'.gen = inst.gen, UNCHANGED <<routeHost, crCache, certs>>,
         queued' \in {queued, TRUE}, needToRequeue' \in {needToRequeue, TRUE},
         server'["receiverCert"] \in {server["receiverCert"], "absent"},
         cache'["receiverCert"] = cache["receiverCert"],
         "receiverCert" \in stale => "receiverCert" \in stale',
         \/ pc \in BeforeReceiverCert /\ pc' \in BeforeReceiverCert
         \/ pc \in AfterReceiverCert /\ pc' \in AfterReceiverCert
         \/ /\ pc \in BeforeReceiverCert /\ pc' \in AfterReceiverCert
            /\ ~queued' /\ crCache.gen # 0 => ~Enabled[crCache.gen] \/ routeHost
  PROVE  HostInv'
<1>1. faults \in Nat /\ (faults' <= 1 => faults <= 1) /\ (faults' = 0 => faults = 0)
  BY DEF TypeOK
<1>2. BeforeReceiverCert \cap AfterReceiverCert = {}
  BY DEF BeforeReceiverCert, AfterReceiverCert, Always, Receiver
<1> QED
  BY <1>1, <1>2 DEF HostInv

LEMMA HostEnsured ==
  ASSUME TypeOK, HostInv, EnsureObject
  PROVE  HostInv'
<1> DEFINE new == Built("receiverCert", inst.gen, routeHost)
<1>0. "receiverCert" \in Objects /\ "receiverCert" \notin {"daemonSet", "receiverSecret"}
  BY DEF Objects, KindOf
<1>1. /\ pc \in BeforeReceiverCert /\ pc \in Objects
      /\ pc # "receiverCert" => After[pc] \in BeforeReceiverCert
      /\ After["receiverCert"] = "daemonSet" /\ "daemonSet" \notin BeforeReceiverCert
      /\ "idle" \in AfterReceiverCert /\ "idle" \notin BeforeReceiverCert
  BY DEF EnsureObject, BeforeReceiverCert, AfterReceiverCert, Always, Receiver, After, Objects,
         KindOf
<1>2. CASE pc # "receiverCert"
  <2>1. ASSUME NEW c, Write(pc, c)
        PROVE  /\ server'["receiverCert"] = server["receiverCert"] /\ cache' = cache
               /\ stale \subseteq stale'
    BY <1>0, <1>1, <1>2, <2>1 DEF Write, TypeOK
  <2>2. /\ server'["receiverCert"] = server["receiverCert"] /\ cache' = cache
        /\ stale \subseteq stale' /\ needToRequeue' \in {needToRequeue, TRUE}
        /\ queued' \in {queued, TRUE}
        /\ pc' = After[pc] \/ (pc' = "idle" /\ queued')
    <3>1. CASE Ensure(pc)
      <4> DEFINE mine == Built(pc, inst.gen, routeHost)
      <4>1. UNCHANGED clusterVars \/ Write(pc, mine)
        BY <3>1 DEF Ensure
      <4>2. /\ needToRequeue' \in {needToRequeue, TRUE}
            /\ queued' \in {queued, TRUE}
            /\ pc' = After[pc] \/ (pc' = "idle" /\ queued')
        BY <3>1 DEF Ensure, Again
      <4> HIDE DEF mine
      <4> QED
        BY <2>1, <4>1, <4>2 DEF clusterVars
    <3>2. CASE ~Ensure(pc)
      BY <3>2 DEF EnsureObject, Again, clusterVars
    <3> QED
      BY <3>1, <3>2
  <2> QED
    BY <1>1, <1>2, <2>2, HostGoesOn DEF EnsureObject, crVars, surroundings
<1>3. CASE pc = "receiverCert"
  <2>1. Ensure("receiverCert") /\ Enabled[inst.gen]
    BY <1>3 DEF EnsureObject, Receiver, Always
  <2>2. new = IF routeHost THEN "extended" ELSE "basic"
    BY DEF Built
  <2> HIDE DEF new
  <2>3. Write("receiverCert", new) =>
          server'["receiverCert"] = new /\ cache' = cache /\ "receiverCert" \in stale'
    BY <1>0 DEF Write, TypeOK
  <2>4. /\ pc' = "daemonSet" \/ (pc' = "idle" /\ queued')
        /\ cache' = cache /\ server'["receiverCert"] \in {server["receiverCert"], new}
        /\ \/ needToRequeue' \/ queued'
           \/ cache["receiverCert"] = new \/ "receiverCert" \in stale'
    BY <1>1, <1>3, <2>1, <2>3 DEF Ensure, Again, clusterVars, new
  <2>5. UNCHANGED <<faults, inst, routeHost, crCache, certs, domain>>
    BY <1>3 DEF EnsureObject, crVars, surroundings
  <2> QED
    BY <1>1, <1>3, <2>1, <2>2, <2>4, <2>5 DEF HostInv
<1> QED
  BY <1>2, <1>3

LEMMA HostRemoved ==
  ASSUME TypeOK, WakeUpInv, HostInv, RemoveReceiver \/ RemoveReceiverSecret \/ CheckDaemonSet
  PROVE  HostInv'
<1>1. "receiverCert" \in Objects /\ pc \in Objects
  BY StepsAndObjects DEF RemoveReceiver, RemoveReceiverSecret, CheckDaemonSet, Receiver
<1>2. Write(pc, "absent") =>
        /\ server'["receiverCert"] \in {server["receiverCert"], "absent"} /\ cache' = cache
        /\ stale \subseteq stale'
  BY <1>1 DEF Write, TypeOK
<1>3. /\ server'["receiverCert"] \in {server["receiverCert"], "absent"} /\ cache' = cache
      /\ stale \subseteq stale' /\ faults' \in {faults, faults + 1}
  BY <1>2 DEF RemoveReceiver, RemoveReceiverSecret, CheckDaemonSet, Remove, clusterVars
<1>4. CASE RemoveReceiver
  <2>1. pc \in BeforeReceiverCert /\ pc # "idle" /\ pc' \in BeforeReceiverCert \cup AfterReceiverCert
    BY <1>4 DEF RemoveReceiver, BeforeReceiverCert, AfterReceiverCert, Receiver, Always, After
  <2>2. ~queued /\ crCache.gen # 0 => ~Enabled[crCache.gen]
    BY <1>4, <2>1 DEF RemoveReceiver, WakeUpInv, ActsForCached
  <2> QED
    BY <1>3, <1>4, <2>1, <2>2, HostGoesOn DEF RemoveReceiver, crVars, runVars, surroundings, TypeOK
<1>5. CASE RemoveReceiverSecret \/ CheckDaemonSet
  <2>1. /\ pc \in AfterReceiverCert /\ pc' \in AfterReceiverCert
        /\ queued' \in {queued, TRUE}
    <3>1. After["receiverSecret"] = "daemonSet" /\ After["daemonSet"] = "status"
      BY DEF After
    <3> QED
      BY <1>5, <3>1 DEF RemoveReceiverSecret, CheckDaemonSet, AfterReceiverCert, Again
  <2>2. UNCHANGED <<inst, routeHost, needToRequeue, crCache, certs, domain>>
    BY <1>5 DEF RemoveReceiverSecret, CheckDaemonSet, crVars, runVars, surroundings
  <2> QED
    BY <1>3, <2>1, <2>2, HostGoesOn
<1> QED
  BY <1>4, <1>5

LEMMA HostSynced ==
  ASSUME TypeOK, WakeUpInv, HostInv, NEW k \in Kinds, Sync(k)
  PROVE  HostInv'
<1> USE DEF crVars, runVars, surroundings
<1>1. "receiverCert" \in Objects /\ KindOf["receiverCert"] = "Certificate"
  BY DEF Objects, KindOf
<1>2. cache'["receiverCert"] \in {cache["receiverCert"], server["receiverCert"]}
  BY <1>1 DEF Sync
<1>3. ASSUME ~queued', crCache.gen # 0, ~needToRequeue, certs = "watched",
             Enabled[crCache.gen], pc \in AfterReceiverCert, "receiverCert" \in stale
      PROVE  "receiverCert" \in stale'
  <2>1. "receiverCert" \in Asked /\ "Certificate" \in Watched
    BY <1>1, <1>3 DEF Asked, Seen, Lasting, Watched
  <2>2. Handled("receiverCert")
    BY <1>3 DEF Handled, Position, AfterReceiverCert
  <2>3. ~queued
    BY <1>3 DEF Sync
  <2>4. cache["receiverCert"] # "absent"
    BY <1>3, <2>1, <2>2, <2>3 DEF WakeUpInv, HandledInCache
  <2>5. k # "Certificate"
    BY <1>1, <1>3, <2>1, <2>4 DEF Sync
  <2> QED
    BY <1>1, <1>3, <2>5 DEF Sync
<1>4. queued => queued'
  BY DEF Sync
<1> QED
  BY <1>2, <1>3, <1>4 DEF Sync, HostInv

LEMMA HostStep == TypeOK /\ WakeUpInv /\ HostInv /\ [Next]_vars => HostInv'
<1> SUFFICES ASSUME TypeOK, WakeUpInv, HostInv, [Next]_vars PROVE HostInv'
  OBVIOUS
<1> USE DEF crVars, runVars, clusterVars, surroundings
<1>0. /\ "receiverCert" \in Objects /\ KindOf["receiverCert"] = "Certificate"
      /\ faults \in Nat
  BY DEF Objects, KindOf, TypeOK
<1>1. CASE StartReconcile
  <2>1. \/ crCache.gen = 0 /\ UNCHANGED <<pc, inst>>
        \/ pc' \notin BeforeReceiverCert /\ pc' \notin AfterReceiverCert
    BY <1>1 DEF StartReconcile, BeforeReceiverCert, AfterReceiverCert, Always, Receiver
  <2> QED
    BY <1>1, <2>1 DEF StartReconcile, HostInv
<1>2. CASE SetDefaultStatus
  <2>1. pc' = "lookup" \/ (pc' = "idle" /\ queued')
    BY <1>2 DEF SetDefaultStatus, StatusRefused, Again, After
  <2>2. pc' \notin BeforeReceiverCert /\ (~queued' => pc' \notin AfterReceiverCert)
    BY <2>1 DEF BeforeReceiverCert, AfterReceiverCert, Always, Receiver
  <2> QED
    BY <1>2, <2>2 DEF SetDefaultStatus, HostInv
<1>3. CASE Lookup
  <2>0. After["lookup"] = "dmService"
    BY DEF After
  <2>1. pc' = "dmService" \/ (pc' = "idle" /\ queued')
    BY <1>3, <2>0 DEF Lookup, Again
  <2>2. "dmService" \notin AfterReceiverCert /\ "idle" \notin BeforeReceiverCert
    BY DEF BeforeReceiverCert, AfterReceiverCert, Always, Receiver
  <2>3. \/ ~Enabled[inst.gen] /\ faults' = faults
        \/ Enabled[inst.gen] /\ faults' = faults /\ routeHost' = domain
        \/ faults' = faults + 1
    BY <1>3 DEF Lookup
  <2>4. UNCHANGED <<server, cache, stale, domain, inst, crCache, certs, needToRequeue>>
    BY <1>3 DEF Lookup
  <2> QED
    BY <1>0, <2>1, <2>2, <2>3, <2>4 DEF HostInv
<1>4. CASE EnsureObject
  BY <1>4, HostEnsured
<1>5. CASE RemoveReceiver \/ RemoveReceiverSecret \/ CheckDaemonSet
  BY <1>5, HostRemoved
<1>6. CASE UpdateStatus
  <2>1. inst'.gen = inst.gen /\ crCache' = crCache
    BY <1>6 DEF UpdateStatus, PutStatus, StatusRefused, TypeOK, CustomResource
  <2>2. pc \in AfterReceiverCert /\ pc' \in AfterReceiverCert /\ queued' \in {queued, TRUE}
    BY <1>6 DEF UpdateStatus, StatusRefused, Again, AfterReceiverCert, After
  <2> QED
    BY <1>6, <2>1, <2>2, HostGoesOn DEF UpdateStatus
<1>7. CASE EnsureFails \/ StatusFails \/ Restart
  BY <1>7, HostEnds DEF EnsureFails, StatusFails, Restart, Again
<1>8. CASE Resync \/ SyncCr
  BY <1>8, HostUnaffected DEF Resync, SyncCr
<1>9. CASE EditCr \/ DeleteCr \/ InstallCertManager \/ LearnDomain
  BY <1>9, HostUnaffected DEF EditCr, DeleteCr, InstallCertManager, LearnDomain
<1>10. CASE CollectGarbage \/ Tamper \/ Issue
  <2>1. /\ server'["receiverCert"] \in {server["receiverCert"], "absent", "edited"}
        /\ cache' = cache /\ stale \subseteq stale'
    BY <1>0, <1>10
    DEF CollectGarbage, Tamper, Issue, StartIssuing, FinishIssuing, Write, TypeOK
  <2> QED
    BY <1>10, <2>1, HostUnaffected DEF CollectGarbage, Tamper, Issue, StartIssuing, FinishIssuing
<1>11. ASSUME NEW k \in Kinds, Sync(k) PROVE HostInv'
  BY <1>11, HostSynced
<1>12. CASE UNCHANGED vars
  BY <1>12 DEF vars, HostInv
<1> QED
  BY <1>1, <1>2, <1>3, <1>4, <1>5, <1>6, <1>7, <1>8, <1>9, <1>10, <1>11, <1>12
  DEF Next, Reconcile

\* Where the domain is known and Certificates are watched, one failure of whatever
\* call does not leave the Certificate of an enabled receiver without the host.
THEOREM HostKeptCorrect == Spec => []HostKept
<1>1. Init => HostInv
  <2>1. "receiverCert" \in Objects
    BY DEF Objects, KindOf
  <2>2. Installed["receiverCert"] # "basic"
    BY <2>1 DEF Installed, Built
  <2>3. Init => server["receiverCert"] # "basic"
    BY <2>1, <2>2 DEF Init
  <2> QED
    BY <2>3 DEF Init, HostInv, BeforeReceiverCert, Always, Receiver
<1>2. TypeOK /\ VersionsIdentify /\ WakeUpInv /\ HostInv => HostKept
  <2> SUFFICES ASSUME TypeOK, VersionsIdentify, WakeUpInv, HostInv, Asleep, cr.gen # 0,
                      Enabled[cr.gen], DomainKnown, certs = "watched", faults <= 1
               PROVE  server["receiverCert"] = "extended"
    BY DEF HostKept
  <2>1. "receiverCert" \in Asked /\ crCache = cr /\ ~needToRequeue
    BY AsleepSees DEF Asked, Seen, Lasting, KindOf, Watched, DoneForCached, Asleep
  <2>2. "receiverCert" \notin stale /\ pc \in AfterReceiverCert /\ ~queued
    BY <2>1, AsleepSees, SeenObjects DEF Asleep, AfterReceiverCert
  <2>3. routeHost
    BY <2>1, <2>2 DEF HostInv
  <2>4. server["receiverCert"] = Built("receiverCert", cr.gen, routeHost)
    BY <2>1, <2>2, AsleepSees, SeenObjects DEF HandledInCache, Asleep
  <2> QED
    BY <2>3, <2>4 DEF Built
<1> QED
  BY <1>1, <1>2, HostStep, WakeUpInvCorrect, TypeCorrect, VersionsIdentifyAlways, PTL DEF Spec

=============================================================================
