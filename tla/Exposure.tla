------------------------------- MODULE Exposure -------------------------------
(***************************************************************************)
(* How the operands are reached: the Services, Ingresses, Certificates,    *)
(* the Route and the APIService, field by field, as the controllers build  *)
(* them, the IsXEqual functions of pkg/resources/reconcile.go compare them *)
(* and the ReconcileX functions update them.                               *)
(*                                                                         *)
(* Some fields are not the operator's: the API server assigns addresses    *)
(* and node ports, cert-manager labels a Certificate, and the rest of a    *)
(* spec can be changed by others.  A run is one step that goes through the *)
(* objects in order, up to the first error or crash; the other modules     *)
(* have the steps of a run, with caches, and an abstract content.          *)
(*                                                                         *)
(* Lists and maps are sets; constant labels and annotations are left out.  *)
(* External: the API server, RHACM and the IngressController's domain.     *)
(***************************************************************************)
EXTENDS Naturals, Sequences, SequencesExt

CONSTANTS
  Operands,    \* the custom resources looked at
  Issuers,     \* issuers a Metering may name, "" for none
  Domains,     \* domains the IngressController may report, NoDomain for none
  RouteEdits,  \* what others change of the Route
  MaxChanges   \* bound: changes by others

ASSUME ExposureAssumption ==
  /\ Operands \subseteq {"metering", "ui", "mcmui", "report"}
  /\ RouteEdits \subseteq {"labels", "host", "name", "termination", "weight", "port"}
  /\ MaxChanges \in Nat

VARIABLES
  operand,   \* whose objects these are
  spec,      \* what its custom resource says
  hub,       \* whether RHACM is there
  domain,    \* of the IngressController
  objects,   \* what is on the server, by the names in Order
  changes,   \* how much others changed
  due,       \* whether there was a change since the last run
  outcome    \* of the last run

vars == <<operand, spec, hub, domain, objects, changes, due, outcome>>

NoDomain == ""
NoPort == ""
Absent == << >>

-----------------------------------------------------------------------------
(* The names, ports and labels of utils.go and containers.go.              *)

\* The order of a run.
Order ==
  [ metering |-> << "dmService", "readerService", "receiverService", "route",
                    "checkIngress", "rbacIngress", "swaggerIngress",
                    "apiCert", "receiverCert" >>,
    ui       |-> << "uiService", "uiIngress", "uiCert" >>,
    mcmui    |-> << "mcmService", "mcmIngress", "mcmCert" >>,
    report   |-> << "reportService", "apiService" >> ]

Port(name, port, target) == [name |-> name, port |-> port, target |-> target, node |-> 0]

Services ==
  [ dmService       |-> [name |-> "metering-dm", app |-> "metering-dm", meta |-> "metering-dm",
                         ports |-> {Port("datamanager", 3000, 3000)}],
    readerService   |-> [name |-> "metering-server", app |-> "metering-reader", meta |-> "metering-server",
                         ports |-> {Port("apiserver", 4000, 4000), Port("internal-api", 4002, 4002)}],
    receiverService |-> [name |-> "metering-receiver", app |-> "metering-dm", meta |-> "metering-dm",
                         ports |-> {Port("metering-receiver", 5000, 5000)}],
    reportService   |-> [name |-> "metering-report", app |-> "metering-report", meta |-> "metering-report",
                         ports |-> {Port(NoPort, 443, 7443)}],
    uiService       |-> [name |-> "metering-ui", app |-> "metering-ui", meta |-> "metering-ui",
                         ports |-> {Port("dashboard", 3130, 3130)}],
    mcmService      |-> [name |-> "metering-mcmui", app |-> "metering-mcmui", meta |-> "metering-mcmui",
                         ports |-> {Port("metering-mcm-dashboard", 3001, 3001)}] ]

Ingresses ==
  [ checkIngress   |-> [path |-> "api/v1", service |-> "metering-server", port |-> 4000],
    rbacIngress    |-> [path |-> "api/", service |-> "metering-server", port |-> 4000],
    swaggerIngress |-> [path |-> "api/swagger", service |-> "metering-server", port |-> 4000],
    uiIngress      |-> [path |-> "metering/", service |-> "metering-ui", port |-> 3130],
    mcmIngress     |-> [path |-> "metering-mcm", service |-> "metering-mcmui", port |-> 3001] ]

Certificates ==
  [ apiCert      |-> [common |-> "metering-server", app |-> "metering-reader"],
    receiverCert |-> [common |-> "metering-receiver", app |-> "metering-dm"],
    uiCert       |-> [common |-> "metering-ui", app |-> "metering-ui"],
    mcmCert      |-> [common |-> "metering-mcmui", app |-> "metering-mcmui"] ]

\* What the main containers listen on; the report server's port is an argument.
ContainerPorts ==
  [ metering |-> [app \in {"metering-dm", "metering-reader"} |->
                    IF app = "metering-dm" THEN {3000, 5000} ELSE {3000, 4000, 4002}],
    ui       |-> [app \in {"metering-ui"} |-> {3130}],
    mcmui    |-> [app \in {"metering-mcmui"} |-> {3001}],
    report   |-> [app \in {"metering-report"} |-> {7443}] ]

CrType ==
  [ metering |-> "metering_cr", ui |-> "meteringui_cr", mcmui |-> "meteringmulticloudui_cr",
    report |-> "meteringreportserver_cr" ]

LabelsForMetadata(app) == {<<"app.kubernetes.io/name", app>>}
LabelsForSelector(app) == {<<"app", app>>, <<CrType[operand], "cr">>}
LabelsForPodMetadata(app) == LabelsForMetadata(app) \cup LabelsForSelector(app)

-----------------------------------------------------------------------------
(* The builders.                                                           *)

\* Mutant: the Service selects pods by its own name.
BuildServiceByName(k) ==
  [ labels |-> LabelsForMetadata(Services[k].meta), ports |-> Services[k].ports,
    selector |-> LabelsForSelector(Services[k].name), type |-> "ClusterIP", ip |-> "none" ]

BuildService(k) ==
  [ labels |-> LabelsForMetadata(Services[k].meta), ports |-> Services[k].ports,
    selector |-> LabelsForSelector(Services[k].app), type |-> "ClusterIP", ip |-> "none" ]

BuildIngress(k) ==
  [ labels |-> LabelsForMetadata(k), annotations |-> {"built"},
    path |-> Ingresses[k].path, service |-> Ingresses[k].service, port |-> Ingresses[k].port ]

RouteHost == <<"metering-receiver", domain>>

\* The receiver's Certificate is also for the host of the Route, if it is known.
BuildCertificate(k) ==
  LET common == Certificates[k].common
  IN  [ labels |-> {<<"app", Certificates[k].app>>},
        issuer |-> IF operand = "metering" /\ spec.issuer # "" THEN spec.issuer ELSE "cs-ca-issuer",
        names  |-> {<<common>>}
                   \cup IF k = "receiverCert" /\ domain # NoDomain THEN {RouteHost} ELSE {} ]

BuildRoute ==
  [ labels |-> LabelsForMetadata("metering-receiver-route"), host |-> RouteHost,
    port |-> "metering-receiver", to |-> [name |-> "metering-receiver", weight |-> 100],
    termination |-> "passthrough" ]

BuildAPIService ==
  [ labels |-> LabelsForMetadata("metering-report"), insecure |-> TRUE,
    service |-> "metering-report", priority |-> 15 ]

IsService(k) == k \in DOMAIN Services
IsCertificate(k) == k \in DOMAIN Certificates

Built(k) ==
  CASE IsService(k)           -> BuildService(k)
    [] k \in DOMAIN Ingresses -> BuildIngress(k)
    [] IsCertificate(k)       -> BuildCertificate(k)
    [] k = "route"            -> BuildRoute
    [] k = "apiService"       -> BuildAPIService

-----------------------------------------------------------------------------
(* The comparisons and the updates.                                        *)

\* Mutant: the address is compared too.
IsServiceEqualWhole(old, new) ==
  old.labels = new.labels /\ old.ports = new.ports /\ old.selector = new.selector /\ old.ip = new.ip

\* Mutant: the selector is not compared.
IsServiceEqualButSelector(old, new) == old.labels = new.labels /\ old.ports = new.ports

IsServiceEqual(old, new) ==
  old.labels = new.labels /\ old.ports = new.ports /\ old.selector = new.selector

RestartLabels(c) == {l \in c.labels : l[1] = "certmanager.k8s.io/time-restarted"}

\* Mutant: cert-manager's label is not copied.
WithRestartLabelDropped(old, new) == new

\* cert-manager's label is copied from the old to the new Certificate.
WithRestartLabel(old, new) == [new EXCEPT !.labels = @ \cup RestartLabels(old)]

\* Mutant: only labels and issuer are compared.
IsCertificateEqualButNames(old, new) ==
  old.labels = WithRestartLabel(old, new).labels /\ old.issuer = new.issuer

IsCertificateEqual(old, new) == old = WithRestartLabel(old, new)

IsRouteEqual(old, new) ==
  /\ old.labels = new.labels /\ old.port = new.port /\ old.host = new.host
  /\ old.to.name = new.to.name

IsAPIServiceEqual(old, new) ==
  old.labels = new.labels /\ old.insecure = new.insecure /\ old.service = new.service

Equal(k, old, new) ==
  CASE IsService(k)           -> IsServiceEqual(old, new)
    [] k \in DOMAIN Ingresses -> old = new
    [] IsCertificate(k)       -> IsCertificateEqual(old, new)
    [] k = "route"            -> IsRouteEqual(old, new)
    [] k = "apiService"       -> IsAPIServiceEqual(old, new)

\* Mutant: the whole spec is replaced.
UpdatedWhole(k, old, new) == IF IsCertificate(k) THEN WithRestartLabel(old, new) ELSE new

\* The object an update sends.  The address of a Service cannot be changed, so
\* its spec is not replaced as a whole, nor is that of a Route.
Updated(k, old, new) ==
  CASE IsService(k) ->
         [old EXCEPT !.labels = new.labels, !.ports = new.ports, !.selector = new.selector]
    [] k = "route" ->
         [old EXCEPT !.labels = new.labels, !.port = new.port, !.host = new.host, !.to = new.to]
    [] IsCertificate(k) -> WithRestartLabel(old, new)
    [] OTHER -> new

\* The API server gives every Service an address, and node ports if its type
\* asks for them; it refuses to change an address.
Stored(k, o) ==
  IF ~IsService(k) THEN o
  ELSE [o EXCEPT !.ip = "assigned",
                 !.ports = {[p EXCEPT !.node = IF o.type = "NodePort" THEN 1 ELSE 0] : p \in @}]

Accepted(k, old, new) == IsService(k) => new.ip = old.ip

-----------------------------------------------------------------------------
Kinds == ToSet(Order[operand])

ReceiverKinds == {"receiverService", "route", "receiverCert"}

\* What a run makes sure of, and what it removes.
Required ==
  {k \in Kinds : /\ k \in ReceiverKinds => spec.receiver
                 /\ k = "route" => hub}
Removed == {k \in Kinds \cap ReceiverKinds : ~spec.receiver}

Init ==
  /\ operand \in Operands
  /\ spec \in [receiver : BOOLEAN, issuer : Issuers]
  /\ hub \in BOOLEAN /\ domain \in Domains
  /\ objects = [k \in Kinds |-> Absent]
  /\ changes = 0 /\ due = TRUE /\ outcome = "none"

RouteEdit(r) ==
  [ labels |-> [r EXCEPT !.labels = {}], host |-> [r EXCEPT !.host = <<"other">>],
    name |-> [r EXCEPT !.to.name = "other"], weight |-> [r EXCEPT !.to.weight = 0],
    termination |-> [r EXCEPT !.termination = "edge"], port |-> [r EXCEPT !.port = NoPort] ]

\* What others may make of an object, apart from deleting it.
Edits(k, o) ==
  CASE IsService(k) ->
         { [o EXCEPT !.labels = {}], [o EXCEPT !.selector = {<<"app", "other">>}],
           [o EXCEPT !.ports = {[p EXCEPT !.target = 1] : p \in @}],
           Stored(k, [o EXCEPT !.type = IF @ = "ClusterIP" THEN "NodePort" ELSE "ClusterIP"]) }
    [] k \in DOMAIN Ingresses ->
         { [o EXCEPT !.labels = {}], [o EXCEPT !.annotations = @ \cup {"other"}],
           [o EXCEPT !.service = "other"] }
    [] IsCertificate(k) ->
         { [o EXCEPT !.labels = {}], [o EXCEPT !.issuer = "other"], [o EXCEPT !.names = {<<"other">>}],
           [o EXCEPT !.labels = @ \cup {<<"certmanager.k8s.io/time-restarted", "now">>}] }
    [] k = "apiService" ->
         { [o EXCEPT !.labels = {}], [o EXCEPT !.insecure = FALSE], [o EXCEPT !.service = "other"],
           [o EXCEPT !.priority = 1] }
    [] k = "route" -> {RouteEdit(o)[e] : e \in RouteEdits}

\* Somebody edits or deletes an object.
Tamper ==
  /\ changes < MaxChanges /\ changes' = changes + 1 /\ due' = TRUE
  /\ \E k \in Kinds :
       /\ objects[k] # Absent
       /\ \E o \in Edits(k, objects[k]) \cup {Absent} : objects' = [objects EXCEPT ![k] = o]
  /\ UNCHANGED <<operand, spec, hub, domain, outcome>>

\* The customer edits the resource, RHACM comes or goes, the domain changes.
ChangeSetting ==
  /\ changes < MaxChanges /\ changes' = changes + 1 /\ due' = TRUE
  /\ \/ spec' \in [receiver : BOOLEAN, issuer : Issuers] \ {spec} /\ UNCHANGED <<hub, domain>>
     \/ hub' = ~hub /\ UNCHANGED <<spec, domain>>
     \/ domain' \in Domains \ {domain} /\ UNCHANGED <<spec, hub>>
  /\ UNCHANGED <<operand, objects, outcome>>

\* How a run gets past object k.  IsRouteEqual looks into the Route's port, if
\* the labels are the same, and a Route need not have one.
Result(k) ==
  IF k \notin Required \/ (objects[k] = Absent /\ k # "route") THEN "done"
  ELSE IF k = "route" /\ domain = NoDomain THEN "error"
  ELSE IF objects[k] = Absent THEN "done"
  ELSE IF k = "route" /\ objects[k].labels = Built(k).labels /\ objects[k].port = NoPort THEN "crash"
  ELSE IF \/ Equal(k, objects[k], Built(k))
          \/ Accepted(k, objects[k], Updated(k, objects[k], Built(k))) THEN "done"
  ELSE "error"

Reconciled(k) ==
  IF k \in Removed THEN Absent
  ELSE IF k \notin Required THEN objects[k]
  ELSE IF objects[k] = Absent THEN Stored(k, Built(k))
  ELSE IF Equal(k, objects[k], Built(k)) THEN objects[k]
  ELSE Stored(k, Updated(k, objects[k], Built(k)))

\* A run, up to the first object that ends it.
Reconcile ==
  LET order   == Order[operand]
      stops   == {i \in DOMAIN order : Result(order[i]) # "done"}
      handled == {order[i] : i \in {j \in DOMAIN order : \A s \in stops : j < s}}
  IN  /\ due /\ due' = FALSE
      /\ objects' = [k \in Kinds |-> IF k \in handled THEN Reconciled(k) ELSE objects[k]]
      /\ outcome' = IF stops = {} THEN "done"
                    ELSE Result(order[CHOOSE i \in stops : \A s \in stops : i <= s])
      /\ UNCHANGED <<operand, spec, hub, domain, changes>>

Next == Tamper \/ ChangeSetting \/ Reconcile

Spec == Init /\ [][Next]_vars

-----------------------------------------------------------------------------
(* Properties.                                                             *)

Settled == ~due /\ outcome = "done"

\* What the operator claims of an object; it leaves the rest to others.
Claimed(k, o) ==
  CASE IsService(k) -> [labels |-> o.labels, selector |-> o.selector,
                        ports |-> {[p EXCEPT !.node = 0] : p \in o.ports}]
    [] k = "route" -> [labels |-> o.labels, host |-> o.host, port |-> o.port, to |-> o.to]
    [] IsCertificate(k) -> [o EXCEPT !.labels = @ \ RestartLabels(o)]
    [] k = "apiService" -> [labels |-> o.labels, insecure |-> o.insecure, service |-> o.service]
    [] OTHER -> o

\* After a run that met no error, whatever others did before, each object is as
\* built in all the operator claims, and what a disabled receiver had is gone.
Restored ==
  Settled => /\ \A k \in Required : objects[k] # Absent /\ Claimed(k, objects[k]) = Claimed(k, Built(k))
             /\ \A k \in Removed : objects[k] = Absent

\* A second run has nothing to write: no comparison looks at what the server
\* fills in or others own.  Only a Service that others made a NodePort never
\* compares equal, since its ports then have node ports.
RunsSettle ==
  Settled => \A k \in Required : \/ Equal(k, objects[k], Built(k))
                                 \/ IsService(k) /\ objects[k].type = "NodePort"

\* "Can't copy the entire Spec because ClusterIP is immutable": a run does not
\* end with an error because the server refuses what it wrote; the only error is
\* that of a Route without a domain.
NothingRefused ==
  ~due /\ outcome = "error" => "route" \in Required /\ domain = NoDomain

\* A run leaves cert-manager's label, the type of a Service and the termination
\* of a Route as they are.
OthersKept ==
  [][~due' =>
       \A k \in Kinds : objects[k] # Absent /\ objects'[k] # Absent =>
         /\ IsCertificate(k) => RestartLabels(objects'[k]) = RestartLabels(objects[k])
         /\ IsService(k) => objects'[k].type = objects[k].type
         /\ k = "route" => objects'[k].termination = objects[k].termination]_vars

\* Whether requests for a port of the Service reach a container that listens.
Serves(k, p) ==
  \E app \in DOMAIN ContainerPorts[operand] :
    /\ objects[k].selector \subseteq LabelsForPodMetadata(app)
    /\ p.target \in ContainerPorts[operand][app]

\* Ingresses, the Route and the APIService lead to a Service and a port it has,
\* and from there to pods that listen.
Reachable ==
  Settled => \A k \in Required :
    /\ k \in DOMAIN Ingresses =>
         \E s \in Required \cap DOMAIN Services : \E p \in objects[s].ports :
           Services[s].name = objects[k].service /\ p.port = objects[k].port /\ Serves(s, p)
    /\ k = "route" =>
         \E s \in Required \cap DOMAIN Services : \E p \in objects[s].ports :
           Services[s].name = objects[k].to.name /\ p.name = objects[k].port /\ Serves(s, p)
    /\ k = "apiService" =>
         \E s \in Required \cap DOMAIN Services : \E p \in objects[s].ports :
           Services[s].name = objects[k].service /\ p.port = 443 /\ Serves(s, p)

\* Who comes by a Route or by an Ingress (all have secure backends) finds the
\* name it asked for in a certificate, also after the domain or the hub changed.
CertificatesCover ==
  Settled => \A k \in Required :
    /\ k \in DOMAIN Ingresses =>
         \E c \in Required \cap DOMAIN Certificates :
           <<objects[k].service>> \in objects[c].names
    /\ k = "route" => objects[k].host \in objects["receiverCert"].names

\* IsRouteEqual: "Check ObjectMeta, Port, Host and To.  If there are any
\* differences, return false": the run then puts them back.
RouteRestored ==
  ~due /\ "route" \in Required /\ domain # NoDomain =>
    objects["route"] # Absent /\ Claimed("route", objects["route"]) = Claimed("route", BuildRoute)

=============================================================================
