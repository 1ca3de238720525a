---------------------------- MODULE ExposureProofs ----------------------------
(***************************************************************************)
(* What a run does to the operand's objects, whatever others did to them   *)
(* before: for every issuer and domain, and any number of changes.         *)
(*                                                                         *)
(* The argument.  Objects of a kind are records with the same fields       *)
(* (ObjectsTyped), so that comparisons and updates can be followed field   *)
(* by field: objects that compare equal agree in what the operator claims  *)
(* of them, an updated object does so too, and it compares equal.  A run   *)
(* that met no error came past all objects.                                *)
(***************************************************************************)
EXTENDS Exposure, TLAPS

IsIngress(k) == k \in DOMAIN Ingresses

PortTyped(p) == p = [name |-> p.name, port |-> p.port, target |-> p.target, node |-> p.node]

ServiceTyped(o) ==
  /\ o = [labels |-> o.labels, ports |-> o.ports, selector |-> o.selector, type |-> o.type, ip |-> o.ip]
  /\ \A p \in o.ports : PortTyped(p)
  /\ o.type \in {"ClusterIP", "NodePort"}

IngressTyped(o) ==
  o = [ labels |-> o.labels, annotations |-> o.annotations, path |-> o.path,
        service |-> o.service, port |-> o.port ]

CertificateTyped(o) == o = [labels |-> o.labels, issuer |-> o.issuer, names |-> o.names]

RouteTyped(o) ==
  /\ o = [ labels |-> o.labels, host |-> o.host, port |-> o.port, to |-> o.to,
           termination |-> o.termination ]
  /\ o.to = [name |-> o.to.name, weight |-> o.to.weight]

APIServiceTyped(o) ==
  o = [labels |-> o.labels, insecure |-> o.insecure, service |-> o.service, priority |-> o.priority]

\* The fields that an object of kind k has, whoever wrote it last.
Typed(k, o) ==
  /\ IsService(k) => ServiceTyped(o)
  /\ IsIngress(k) => IngressTyped(o)
  /\ IsCertificate(k) => CertificateTyped(o)
  /\ k = "route" => RouteTyped(o)
  /\ k = "apiService" => APIServiceTyped(o)

ObjectsTyped ==
  /\ operand \in {"metering", "ui", "mcmui", "report"}
  /\ objects = [k \in Kinds |-> objects[k]]
  /\ \A k \in Kinds : objects[k] # Absent => Typed(k, objects[k])

Bare(p) == [p EXCEPT !.node = 0]
WithNode(p, n) == [p EXCEPT !.node = n]
ServiceClaim(o) ==
  [labels |-> o.labels, selector |-> o.selector, ports |-> {Bare(p) : p \in o.ports}]
RouteClaim(o) == [labels |-> o.labels, host |-> o.host, port |-> o.port, to |-> o.to]
APIServiceClaim(o) == [labels |-> o.labels, insecure |-> o.insecure, service |-> o.service]
WithoutRestart(o) == [o EXCEPT !.labels = @ \ RestartLabels(o)]

-----------------------------------------------------------------------------
(* The kinds of objects.                                                   *)

LEMMA Classes ==
  /\ DOMAIN Services \cap DOMAIN Ingresses = {}
  /\ (DOMAIN Services \cup DOMAIN Ingresses) \cap DOMAIN Certificates = {}
  /\ {"route", "apiService"} \cap (DOMAIN Services \cup DOMAIN Ingresses \cup DOMAIN Certificates) = {}
  /\ "route" # "apiService"
BY DEF Services, Ingresses, Certificates

LEMMA KindsClassified ==
  ASSUME operand \in {"metering", "ui", "mcmui", "report"}, NEW k \in Kinds
  PROVE  \/ IsService(k) \/ IsIngress(k) \/ IsCertificate(k) \/ k = "route" \/ k = "apiService"
BY DEF Kinds, Order, ToSet, IsService, IsIngress, IsCertificate, Services, Ingresses, Certificates

\* Which builder, comparison, update and claim is whose.
LEMMA OfService ==
  ASSUME NEW k, IsService(k)
  PROVE  /\ Built(k) = BuildService(k)
         /\ \A o, n : Equal(k, o, n) <=> IsServiceEqual(o, n)
         /\ \A o : Claimed(k, o) = ServiceClaim(o)
         /\ ~IsIngress(k) /\ ~IsCertificate(k) /\ k # "route" /\ k # "apiService"
<1>1. ~IsIngress(k) /\ ~IsCertificate(k) /\ k # "route" /\ k # "apiService"
  BY Classes DEF IsService, IsIngress, IsCertificate
<1> QED
  BY <1>1, Zenon DEF Built, Equal, Claimed, IsIngress, ServiceClaim, Bare

LEMMA OfIngress ==
  ASSUME NEW k, IsIngress(k)
  PROVE  /\ Built(k) = BuildIngress(k)
         /\ \A o, n : Equal(k, o, n) <=> (o = n)
         /\ \A o, n : Updated(k, o, n) = n
         /\ \A o : Claimed(k, o) = o
         /\ ~IsService(k) /\ ~IsCertificate(k) /\ k # "route" /\ k # "apiService"
<1>1. ~IsService(k) /\ ~IsCertificate(k) /\ k # "route" /\ k # "apiService"
  BY Classes DEF IsService, IsIngress, IsCertificate
<1> QED
  BY <1>1, Zenon DEF Built, Equal, Updated, Claimed, IsIngress

LEMMA OfCertificate ==
  ASSUME NEW k, IsCertificate(k)
  PROVE  /\ Built(k) = BuildCertificate(k)
         /\ \A o, n : Equal(k, o, n) <=> IsCertificateEqual(o, n)
         /\ \A o, n : Updated(k, o, n) = WithRestartLabel(o, n)
         /\ \A o : Claimed(k, o) = WithoutRestart(o)
         /\ ~IsService(k) /\ ~IsIngress(k) /\ k # "route" /\ k # "apiService"
<1>1. ~IsService(k) /\ ~IsIngress(k) /\ k # "route" /\ k # "apiService"
  BY Classes DEF IsService, IsIngress, IsCertificate
<1> QED
  BY <1>1, Zenon DEF Built, Equal, Updated, Claimed, IsIngress, WithoutRestart

LEMMA OfRoute ==
  ASSUME NEW k, k = "route"
  PROVE  /\ Built(k) = BuildRoute
         /\ \A o, n : Equal(k, o, n) <=> IsRouteEqual(o, n)
         /\ \A o : Claimed(k, o) = RouteClaim(o)
         /\ ~IsService(k) /\ ~IsIngress(k) /\ ~IsCertificate(k) /\ k # "apiService"
<1>1. ~IsService(k) /\ ~IsIngress(k) /\ ~IsCertificate(k) /\ k # "apiService"
  BY Classes DEF IsService, IsIngress, IsCertificate
<1> QED
  BY <1>1, Zenon DEF Built, Equal, Claimed, IsIngress, RouteClaim

LEMMA OfAPIService ==
  ASSUME NEW k, k = "apiService"
  PROVE  /\ Built(k) = BuildAPIService
         /\ \A o, n : Equal(k, o, n) <=> IsAPIServiceEqual(o, n)
         /\ \A o, n : Updated(k, o, n) = n
         /\ \A o : Claimed(k, o) = APIServiceClaim(o)
         /\ ~IsService(k) /\ ~IsIngress(k) /\ ~IsCertificate(k) /\ k # "route"
<1>1. ~IsService(k) /\ ~IsIngress(k) /\ ~IsCertificate(k) /\ k # "route"
  BY Classes DEF IsService, IsIngress, IsCertificate
<1> QED
  BY <1>1, Zenon DEF Built, Equal, Updated, Claimed, IsIngress, APIServiceClaim

-----------------------------------------------------------------------------
(* What is built and stored.                                               *)

LEMMA PortShape ==
  ASSUME NEW name, NEW port, NEW target
  PROVE  PortTyped(Port(name, port, target)) /\ Port(name, port, target).node = 0
BY DEF Port, PortTyped

LEMMA ServicePorts ==
  ASSUME NEW k \in DOMAIN Services, NEW p \in Services[k].ports
  PROVE  PortTyped(p) /\ p.node = 0
<1>1. /\ DOMAIN Services = { "dmService", "readerService", "receiverService", "reportService",
                             "uiService", "mcmService" }
      /\ Services.dmService.ports = {Port("datamanager", 3000, 3000)}
      /\ Services.readerService.ports =
           {Port("apiserver", 4000, 4000), Port("internal-api", 4002, 4002)}
      /\ Services.receiverService.ports = {Port("metering-receiver", 5000, 5000)}
      /\ Services.reportService.ports = {Port(NoPort, 443, 7443)}
      /\ Services.uiService.ports = {Port("dashboard", 3130, 3130)}
      /\ Services.mcmService.ports = {Port("metering-mcm-dashboard", 3001, 3001)}
  BY DEF Services
<1> QED
  BY <1>1, PortShape

LEMMA BuiltIs ==
  ASSUME NEW k
  PROVE  /\ IsService(k) => Built(k) = BuildService(k)
         /\ IsIngress(k) => Built(k) = BuildIngress(k)
         /\ IsCertificate(k) => Built(k) = BuildCertificate(k)
         /\ k = "route" => Built(k) = BuildRoute
         /\ k = "apiService" => Built(k) = BuildAPIService
BY OfService, OfIngress, OfCertificate, OfRoute, OfAPIService, Zenon

LEMMA BuiltTyped ==
  ASSUME NEW k
  PROVE  Typed(k, Built(k))
<1>1. IsService(k) => ServiceTyped(BuildService(k))
  BY ServicePorts DEF ServiceTyped, BuildService, IsService
<1>2. IngressTyped(BuildIngress(k))
  BY DEF IngressTyped, BuildIngress
<1>3. CertificateTyped(BuildCertificate(k))
  BY DEF CertificateTyped, BuildCertificate
<1>4. RouteTyped(BuildRoute)
  BY DEF RouteTyped, BuildRoute
<1>5. APIServiceTyped(BuildAPIService)
  BY DEF APIServiceTyped, BuildAPIService
<1> QED
  BY <1>1, <1>2, <1>3, <1>4, <1>5, BuiltIs DEF Typed

StoredPorts(o) == {WithNode(p, IF o.type = "NodePort" THEN 1 ELSE 0) : p \in o.ports}

\* Node ports are all that the server fills in.
LEMMA PortsStored ==
  ASSUME NEW o, ServiceTyped(o)
  PROVE  /\ \A p \in StoredPorts(o) : PortTyped(p)
         /\ {Bare(p) : p \in StoredPorts(o)} = {Bare(p) : p \in o.ports}
         /\ o.type # "NodePort" /\ (\A p \in o.ports : p.node = 0) => StoredPorts(o) = o.ports
<1>1. ASSUME NEW p \in o.ports, NEW n
      PROVE  PortTyped(WithNode(p, n)) /\ Bare(WithNode(p, n)) = Bare(p)
  <2>1. PortTyped(p)
    BY DEF ServiceTyped
  <2>2. WithNode(p, n) = [name |-> p.name, port |-> p.port, target |-> p.target, node |-> n]
    BY <2>1 DEF PortTyped, WithNode
  <2>3. Bare(p) = [name |-> p.name, port |-> p.port, target |-> p.target, node |-> 0]
    BY <2>1 DEF PortTyped, Bare
  <2>4. Bare(WithNode(p, n)) = [name |-> p.name, port |-> p.port, target |-> p.target, node |-> 0]
    BY <2>2 DEF Bare
  <2> QED
    BY <2>2, <2>3, <2>4 DEF PortTyped
<1>2. ASSUME NEW p \in o.ports, p.node = 0 PROVE WithNode(p, 0) = p
  BY <1>2 DEF ServiceTyped, PortTyped, WithNode
<1> QED
  BY <1>1, <1>2 DEF StoredPorts

\* What an update of a Service and of a Route sends, field by field.
ServiceUpdate(o, n) ==
  [ labels |-> n.labels, ports |-> n.ports, selector |-> n.selector, type |-> o.type, ip |-> o.ip ]
RouteUpdate(o, n) ==
  [ labels |-> n.labels, host |-> n.host, port |-> n.port, to |-> n.to,
    termination |-> o.termination ]

LEMMA UpdatedService ==
  ASSUME NEW k, IsService(k), NEW o, ServiceTyped(o), NEW n
  PROVE  Updated(k, o, n) = ServiceUpdate(o, n)
<1>1. PICK o1 : o1 = [o EXCEPT !.labels = n.labels]
  OBVIOUS
<1>2. PICK o2 : o2 = [o1 EXCEPT !.ports = n.ports]
  OBVIOUS
<1>3. PICK o3 : o3 = [o2 EXCEPT !.selector = n.selector]
  OBVIOUS
<1>4. Updated(k, o, n) = o3
  <2>1. Updated(k, o, n) =
          [o EXCEPT !.labels = n.labels, !.ports = n.ports, !.selector = n.selector]
    <3>1. k # "route" /\ ~IsCertificate(k)
      BY OfService
    <3> QED
      BY <3>1, Zenon DEF Updated
  <2>2. o2 = [o EXCEPT !.labels = n.labels, !.ports = n.ports]
    BY <1>1, <1>2, Zenon
  <2>3. o3 = [o EXCEPT !.labels = n.labels, !.ports = n.ports, !.selector = n.selector]
    BY <1>3, <2>2, Zenon
  <2> QED
    BY <2>1, <2>3, Zenon
<1>5. o1 = [ labels |-> n.labels, ports |-> o.ports, selector |-> o.selector,
             type |-> o.type, ip |-> o.ip ]
  BY <1>1 DEF ServiceTyped
<1>6. o2 = [ labels |-> n.labels, ports |-> n.ports, selector |-> o.selector,
             type |-> o.type, ip |-> o.ip ]
  BY <1>2, <1>5
<1>7. o3 = [ labels |-> n.labels, ports |-> n.ports, selector |-> n.selector,
             type |-> o.type, ip |-> o.ip ]
  BY <1>3, <1>6
<1> QED
  BY <1>4, <1>7 DEF ServiceUpdate

LEMMA UpdatedRoute ==
  ASSUME NEW k, k = "route", NEW o, RouteTyped(o), NEW n
  PROVE  Updated(k, o, n) = RouteUpdate(o, n)
<1>1. PICK o1 : o1 = [o EXCEPT !.labels = n.labels]
  OBVIOUS
<1>2. PICK o2 : o2 = [o1 EXCEPT !.port = n.port]
  OBVIOUS
<1>3. PICK o3 : o3 = [o2 EXCEPT !.host = n.host]
  OBVIOUS
<1>4. PICK o4 : o4 = [o3 EXCEPT !.to = n.to]
  OBVIOUS
<1>5. Updated(k, o, n) = o4
  <2>1. Updated(k, o, n) =
          [o EXCEPT !.labels = n.labels, !.port = n.port, !.host = n.host, !.to = n.to]
    <3>1. ~IsService(k) /\ ~IsCertificate(k)
      BY OfRoute
    <3> QED
      BY <3>1, Zenon DEF Updated
  <2>2. o2 = [o EXCEPT !.labels = n.labels, !.port = n.port]
    BY <1>1, <1>2, Zenon
  <2>3. o3 = [o EXCEPT !.labels = n.labels, !.port = n.port, !.host = n.host]
    BY <1>3, <2>2, Zenon
  <2>4. o4 = [o EXCEPT !.labels = n.labels, !.port = n.port, !.host = n.host, !.to = n.to]
    BY <1>4, <2>3, Zenon
  <2> QED
    BY <2>1, <2>4, Zenon
<1>6. o1 = [ labels |-> n.labels, host |-> o.host, port |-> o.port, to |-> o.to,
             termination |-> o.termination ]
  BY <1>1 DEF RouteTyped
<1>7. o2 = [ labels |-> n.labels, host |-> o.host, port |-> n.port, to |-> o.to,
             termination |-> o.termination ]
  BY <1>2, <1>6
<1>8. o3 = [ labels |-> n.labels, host |-> n.host, port |-> n.port, to |-> o.to,
             termination |-> o.termination ]
  BY <1>3, <1>7
<1>9. o4 = [ labels |-> n.labels, host |-> n.host, port |-> n.port, to |-> n.to,
             termination |-> o.termination ]
  BY <1>4, <1>8
<1> QED
  BY <1>5, <1>9 DEF RouteUpdate

LEMMA StoredIs ==
  ASSUME NEW k, NEW o
  PROVE  /\ ~IsService(k) => Stored(k, o) = o
         /\ IsService(k) /\ ServiceTyped(o) =>
              Stored(k, o) = [ labels |-> o.labels, ports |-> StoredPorts(o), selector |-> o.selector,
                               type |-> o.type, ip |-> "assigned" ]
<1>1. ~IsService(k) => Stored(k, o) = o
  BY Zenon DEF Stored
<1>2. ASSUME IsService(k), ServiceTyped(o)
      PROVE  Stored(k, o) = [ labels |-> o.labels, ports |-> StoredPorts(o), selector |-> o.selector,
                              type |-> o.type, ip |-> "assigned" ]
  <2>1. PICK o1 : o1 = [o EXCEPT !.ip = "assigned"]
    OBVIOUS
  <2>2. o1 = [ labels |-> o.labels, ports |-> o.ports, selector |-> o.selector,
               type |-> o.type, ip |-> "assigned" ]
    BY <1>2, <2>1 DEF ServiceTyped
  <2>3. Stored(k, o) = [o1 EXCEPT !.ports = StoredPorts(o)]
    <3>1. Stored(k, o) = [o1 EXCEPT !.ports =
                            {[p EXCEPT !.node = IF o.type = "NodePort" THEN 1 ELSE 0] : p \in o1.ports}]
      BY <1>2, <2>1, Zenon DEF Stored
    <3>2. o1.ports = o.ports
      BY <2>2
    <3> QED
      BY <3>1, <3>2, Zenon DEF StoredPorts, WithNode
  <2> QED
    BY <2>2, <2>3
<1> QED
  BY <1>1, <1>2

\* What a client sees of a Service that the server has stored.
LEMMA StoredService ==
  ASSUME NEW k, IsService(k), NEW o, ServiceTyped(o), NEW s, s = Stored(k, o)
  PROVE  /\ ServiceTyped(s)
         /\ s.labels = o.labels /\ s.selector = o.selector /\ s.type = o.type
         /\ {Bare(p) : p \in s.ports} = {Bare(p) : p \in o.ports}
         /\ o.type # "NodePort" /\ (\A p \in o.ports : p.node = 0) => s.ports = o.ports
<1>1. s = [ labels |-> o.labels, ports |-> StoredPorts(o), selector |-> o.selector,
            type |-> o.type, ip |-> "assigned" ]
  BY StoredIs
<1> QED
  BY <1>1, PortsStored DEF ServiceTyped

-----------------------------------------------------------------------------
(* What a run makes of an object.                                          *)

Classified(k) == IsService(k) \/ IsIngress(k) \/ IsCertificate(k) \/ k = "route" \/ k = "apiService"

LEMMA TypedIsThere ==
  ASSUME NEW k, Classified(k), NEW o, Typed(k, o)
  PROVE  o # Absent
BY DEF Classified, Typed, Absent, ServiceTyped, IngressTyped, CertificateTyped, RouteTyped,
       APIServiceTyped

\* The claimed part of a Certificate, and cert-manager's part.
LEMMA CertificateParts ==
  ASSUME NEW k, NEW o, CertificateTyped(o), NEW new, new = BuildCertificate(k),
         NEW sent, sent = WithRestartLabel(o, new)
  PROVE  /\ CertificateTyped(sent) /\ IsCertificateEqual(sent, new)
         /\ RestartLabels(sent) = RestartLabels(o) /\ RestartLabels(new) = {}
         /\ WithoutRestart(sent) = new /\ WithoutRestart(new) = new
<1>1. CertificateTyped(new) /\ new.labels = {<<"app", Certificates[k].app>>}
  BY DEF CertificateTyped, BuildCertificate
<1>2. RestartLabels(new) = {} /\ \A c : new.labels \cap RestartLabels(c) = {}
  BY <1>1 DEF RestartLabels
<1>3. sent = [labels |-> new.labels \cup RestartLabels(o), issuer |-> new.issuer, names |-> new.names]
  BY <1>1 DEF CertificateTyped, WithRestartLabel
<1>4. RestartLabels(sent) = RestartLabels(o)
  BY <1>2, <1>3 DEF RestartLabels
<1>5. CertificateTyped(sent)
  BY <1>3 DEF CertificateTyped
<1>6. WithoutRestart(sent) = new
  <2>1. sent.labels \ RestartLabels(sent) = new.labels
    BY <1>2, <1>3, <1>4
  <2>2. [sent EXCEPT !.labels = new.labels] = new
    BY <1>1, <1>3 DEF CertificateTyped
  <2> QED
    BY <2>1, <2>2, Zenon DEF WithoutRestart
<1>7. WithoutRestart(new) = new
  <2>1. new.labels \ RestartLabels(new) = new.labels
    BY <1>2
  <2>2. [new EXCEPT !.labels = new.labels] = new
    BY <1>1 DEF CertificateTyped
  <2> QED
    BY <2>1, <2>2, Zenon DEF WithoutRestart
<1>8. IsCertificateEqual(sent, new)
  <2>1. WithRestartLabel(sent, new) =
          [labels |-> new.labels \cup RestartLabels(sent), issuer |-> new.issuer, names |-> new.names]
    BY <1>1, SMTT(30) DEF CertificateTyped, WithRestartLabel
  <2> QED
    BY <1>3, <1>4, <2>1 DEF IsCertificateEqual
<1> QED
  BY <1>2, <1>4, <1>5, <1>6, <1>7, <1>8

\* An updated object has what the operator claims, keeps what is others', and
\* compares equal, unless it is a Service that has node ports.
LEMMA UpdateSettles ==
  ASSUME NEW k, Classified(k), NEW o, Typed(k, o), NEW new, new = Built(k),
         NEW s, s = Stored(k, Updated(k, o, new))
  PROVE  /\ Typed(k, s)
         /\ Claimed(k, s) = Claimed(k, new)
         /\ Equal(k, s, new) \/ (IsService(k) /\ s.type = "NodePort")
         /\ IsCertificate(k) => RestartLabels(s) = RestartLabels(o)
         /\ IsService(k) => s.type = o.type
         /\ k = "route" => s.termination = o.termination /\ s.to = new.to
<1>1. CASE IsService(k)
  <2>0. PICK sent : sent = Updated(k, o, new)
    OBVIOUS
  <2>1. new = BuildService(k) /\ ServiceTyped(new) /\ ServiceTyped(o) /\ new.type = "ClusterIP"
        /\ \A p \in new.ports : p.node = 0
    BY <1>1, BuiltIs, BuiltTyped, ServicePorts DEF Typed, BuildService, IsService
  <2>2. sent = [ labels |-> new.labels, ports |-> new.ports, selector |-> new.selector,
                 type |-> o.type, ip |-> o.ip ]
    <3>1. sent = ServiceUpdate(o, new)
      BY <1>1, <2>0, <2>1, UpdatedService
    <3> QED
      BY <3>1 DEF ServiceUpdate
  <2>3. ServiceTyped(sent)
    BY <2>1, <2>2 DEF ServiceTyped
  <2>4. /\ ServiceTyped(s) /\ s.labels = new.labels /\ s.selector = new.selector /\ s.type = o.type
        /\ {Bare(p) : p \in s.ports} = {Bare(p) : p \in new.ports}
        /\ o.type # "NodePort" => s.ports = new.ports
    BY <1>1, <2>0, <2>1, <2>2, <2>3, StoredService
  <2>5. Claimed(k, s) = Claimed(k, new)
    <3>1. ServiceClaim(s) = ServiceClaim(new)
      BY <2>4, Zenon DEF ServiceClaim
    <3> QED
      BY <1>1, <3>1, OfService, Zenon
  <2>6. Equal(k, s, new) \/ s.type = "NodePort"
    BY <1>1, <2>4, OfService DEF IsServiceEqual
  <2> QED
    BY <1>1, <2>4, <2>5, <2>6, OfService DEF Typed
<1>2. CASE IsIngress(k)
  BY <1>2, OfIngress, StoredIs, BuiltTyped
<1>3. CASE IsCertificate(k)
  <2>1. new = BuildCertificate(k) /\ CertificateTyped(o) /\ s = WithRestartLabel(o, new)
    BY <1>3, OfCertificate, StoredIs DEF Typed
  <2>2. /\ CertificateTyped(s) /\ IsCertificateEqual(s, new)
        /\ RestartLabels(s) = RestartLabels(o)
        /\ WithoutRestart(s) = new /\ WithoutRestart(new) = new
    BY <2>1, CertificateParts
  <2>3. Claimed(k, s) = Claimed(k, new)
    BY <1>3, <2>2, OfCertificate
  <2>4. Equal(k, s, new) /\ ~IsService(k) /\ ~IsIngress(k) /\ k # "route" /\ k # "apiService"
    BY <1>3, <2>2, OfCertificate
  <2> QED
    BY <1>3, <2>2, <2>3, <2>4 DEF Typed
<1>4. CASE k = "route"
  <2>1. new = BuildRoute /\ RouteTyped(new) /\ RouteTyped(o)
    BY <1>4, BuiltIs, BuiltTyped DEF Typed
  <2>2. s = Updated(k, o, new)
    BY <1>4, OfRoute, StoredIs
  <2>3. s = [ labels |-> new.labels, host |-> new.host, port |-> new.port, to |-> new.to,
              termination |-> o.termination ]
    <3>1. s = RouteUpdate(o, new)
      BY <1>4, <2>1, <2>2, UpdatedRoute
    <3> QED
      BY <3>1 DEF RouteUpdate
  <2> QED
    <3>1. RouteTyped(s) /\ s.termination = o.termination /\ s.to = new.to
      BY <2>1, <2>3 DEF RouteTyped
    <3>2. IsRouteEqual(s, new) /\ RouteClaim(s) = RouteClaim(new)
      BY <2>3 DEF IsRouteEqual, RouteClaim
    <3> QED
      BY <1>4, <3>1, <3>2, OfRoute DEF Typed
<1>5. CASE k = "apiService"
  BY <1>5, OfAPIService, StoredIs, BuiltTyped DEF IsAPIServiceEqual, APIServiceClaim
<1> QED
  BY <1>1, <1>2, <1>3, <1>4, <1>5 DEF Classified

\* A new object is as built in what the operator claims, and compares equal.
LEMMA CreateSettles ==
  ASSUME NEW k, Classified(k), NEW new, new = Built(k), NEW s, s = Stored(k, new)
  PROVE  /\ Typed(k, s)
         /\ Claimed(k, s) = Claimed(k, new)
         /\ Equal(k, s, new)
         /\ k = "route" => s.to = new.to
<1>1. CASE IsService(k)
  <2>1. ServiceTyped(new) /\ new.type = "ClusterIP" /\ \A p \in new.ports : p.node = 0
    BY <1>1, BuiltIs, BuiltTyped, ServicePorts DEF Typed, BuildService, IsService
  <2>2. ServiceTyped(s) /\ s.labels = new.labels /\ s.selector = new.selector /\ s.ports = new.ports
    BY <1>1, <2>1, StoredService
  <2>3. {Bare(p) : p \in s.ports} = {Bare(p) : p \in new.ports}
    BY <2>2
  <2> QED
    <3>1. IsServiceEqual(s, new) /\ ServiceClaim(s) = ServiceClaim(new)
      BY <2>2, <2>3 DEF IsServiceEqual, ServiceClaim
    <3> QED
      BY <1>1, <2>2, <3>1, OfService DEF Typed
<1>2. CASE ~IsService(k)
  <2>1. s = new /\ Typed(k, s)
    BY <1>2, StoredIs, BuiltTyped
  <2>2. Equal(k, new, new)
    <3>1. ASSUME IsCertificate(k) PROVE IsCertificateEqual(new, new)
      <4>1. new = BuildCertificate(k) /\ CertificateTyped(new)
        BY <3>1, BuiltIs, BuiltTyped DEF Typed
      <4>2. RestartLabels(new) = {}
        BY <4>1, CertificateParts
      <4>3. WithRestartLabel(new, new) = [new EXCEPT !.labels = @ \cup RestartLabels(new)]
        BY Zenon DEF WithRestartLabel
      <4>4. new.labels \cup RestartLabels(new) = new.labels
        BY <4>2
      <4>5. [new EXCEPT !.labels = new.labels] = new
        BY <4>1 DEF CertificateTyped
      <4> QED
        BY <4>3, <4>4, <4>5, Zenon DEF IsCertificateEqual
    <3> QED
      BY <1>2, <3>1, OfIngress, OfCertificate, OfRoute, OfAPIService
      DEF Classified, IsRouteEqual, IsAPIServiceEqual
  <2> QED
    BY <2>1, <2>2
<1> QED
  BY <1>1, <1>2

\* Objects that compare equal agree in what the operator claims; the weight of a
\* Route is claimed, but not compared.
LEMMA EqualAgrees ==
  ASSUME NEW k, Classified(k), NEW o, Typed(k, o), NEW new, new = Built(k), Equal(k, o, new),
         k = "route" => o.to.weight = 100
  PROVE  Claimed(k, o) = Claimed(k, new)
<1>1. CASE IsService(k)
  <2>1. o.labels = new.labels /\ o.ports = new.ports /\ o.selector = new.selector
    BY <1>1, OfService DEF IsServiceEqual
  <2>2. {Bare(p) : p \in o.ports} = {Bare(p) : p \in new.ports}
    BY <2>1
  <2>3. ServiceClaim(o) = ServiceClaim(new)
    BY <2>1, <2>2, Zenon DEF ServiceClaim
  <2> QED
    BY <1>1, <2>3, OfService, Zenon
<1>2. CASE IsIngress(k)
  BY <1>2, OfIngress
<1>3. CASE IsCertificate(k)
  <2>1. new = BuildCertificate(k) /\ CertificateTyped(o) /\ o = WithRestartLabel(o, new)
    BY <1>3, OfCertificate DEF Typed, IsCertificateEqual
  <2>2. WithoutRestart(o) = new /\ WithoutRestart(new) = new
    BY <2>1, CertificateParts
  <2> QED
    BY <1>3, <2>2, OfCertificate
<1>4. CASE k = "route"
  <2>1. RouteTyped(o) /\ new = BuildRoute
    BY <1>4, BuiltIs DEF Typed
  <2>2. new.to = [name |-> "metering-receiver", weight |-> 100]
    BY <2>1 DEF BuildRoute
  <2>3. o.to = new.to /\ o.labels = new.labels /\ o.port = new.port /\ o.host = new.host
    BY <1>4, <2>1, <2>2, OfRoute DEF IsRouteEqual, RouteTyped
  <2> QED
    BY <1>4, <2>3, OfRoute DEF RouteClaim
<1>5. CASE k = "apiService"
  BY <1>5, OfAPIService DEF IsAPIServiceEqual, APIServiceClaim
<1> QED
  BY <1>1, <1>2, <1>3, <1>4, <1>5 DEF Classified

-----------------------------------------------------------------------------
(* What others and a run do to the objects.                                *)

\* Somebody's edit leaves an object of its kind, and the weight of a Route
\* unless that is what is edited.
LEMMA EditedTyped ==
  ASSUME NEW k, Classified(k), NEW o, Typed(k, o), NEW e \in Edits(k, o)
  PROVE  /\ Typed(k, e)
         /\ k = "route" /\ "weight" \notin RouteEdits => e.to.weight = o.to.weight
<1>1. CASE IsService(k)
  <2>0. ServiceTyped(o) /\ ~IsCertificate(k) /\ ~IsIngress(k) /\ k # "route" /\ k # "apiService"
    BY <1>1, OfService DEF Typed
  <2>1. \/ e = [o EXCEPT !.labels = {}] \/ e = [o EXCEPT !.selector = {<<"app", "other">>}]
        \/ e = [o EXCEPT !.ports = {[p EXCEPT !.target = 1] : p \in @}]
        \/ e = Stored(k, [o EXCEPT !.type = IF @ = "ClusterIP" THEN "NodePort" ELSE "ClusterIP"])
    <3> DEFINE a == [o EXCEPT !.labels = {}]
               b == [o EXCEPT !.selector = {<<"app", "other">>}]
               c == [o EXCEPT !.ports = {[p EXCEPT !.target = 1] : p \in @}]
               d == Stored(k, [o EXCEPT !.type = IF @ = "ClusterIP" THEN "NodePort" ELSE "ClusterIP"])
    <3>1. Edits(k, o) = {a, b, c, d}
      BY <1>1, <2>0, Zenon DEF Edits, IsIngress
    <3> HIDE DEF a, b, c, d
    <3>2. e = a \/ e = b \/ e = c \/ e = d
      BY <3>1
    <3> QED
      BY <3>2, Zenon DEF a, b, c, d
  <2>2. ASSUME e = [o EXCEPT !.labels = {}] \/ e = [o EXCEPT !.selector = {<<"app", "other">>}]
        PROVE  ServiceTyped(e)
    BY <2>0, <2>2 DEF ServiceTyped
  <2>3. ASSUME e = [o EXCEPT !.ports = {[p EXCEPT !.target = 1] : p \in @}] PROVE ServiceTyped(e)
    <3> DEFINE Targeted(p) == [p EXCEPT !.target = 1]
    <3>1. ASSUME NEW p \in o.ports PROVE PortTyped(Targeted(p))
      BY <2>0 DEF ServiceTyped, PortTyped
    <3> HIDE DEF Targeted
    <3>2. PICK ports : ports = {Targeted(p) : p \in o.ports}
      OBVIOUS
    <3>3. \A p \in ports : PortTyped(p)
      BY <3>1, <3>2
    <3>4. e = [o EXCEPT !.ports = ports]
      BY <2>3, <3>2, Zenon DEF Targeted
    <3> QED
      BY <2>0, <3>3, <3>4 DEF ServiceTyped
  <2>4. ASSUME e = Stored(k, [o EXCEPT !.type = IF @ = "ClusterIP" THEN "NodePort" ELSE "ClusterIP"])
        PROVE  ServiceTyped(e)
    <3>1. PICK type : type = IF o.type = "ClusterIP" THEN "NodePort" ELSE "ClusterIP"
      OBVIOUS
    <3>2. PICK other : other = [o EXCEPT !.type = type]
      OBVIOUS
    <3>3. e = Stored(k, other)
      BY <2>4, <3>1, <3>2, Zenon
    <3>4. ServiceTyped(other)
      BY <2>0, <3>1, <3>2 DEF ServiceTyped
    <3> QED
      BY <1>1, <3>3, <3>4, StoredService
  <2>5. ServiceTyped(e)
    BY <2>1, <2>2, <2>3, <2>4, Zenon
  <2> QED
    BY <2>0, <2>5 DEF Typed
<1>2. CASE IsIngress(k)
  <2>0. IngressTyped(o) /\ ~IsService(k) /\ ~IsCertificate(k) /\ k # "route" /\ k # "apiService"
    BY <1>2, OfIngress DEF Typed
  <2>1. \/ e = [o EXCEPT !.labels = {}] \/ e = [o EXCEPT !.annotations = @ \cup {"other"}]
        \/ e = [o EXCEPT !.service = "other"]
    BY <1>2, <2>0, Zenon DEF Edits, IsIngress
  <2>2. IngressTyped(e)
    BY <2>0, <2>1 DEF IngressTyped
  <2> QED
    BY <2>0, <2>2 DEF Typed
<1>3. CASE IsCertificate(k)
  <2>0. CertificateTyped(o) /\ ~IsService(k) /\ ~IsIngress(k) /\ k # "route" /\ k # "apiService"
    BY <1>3, OfCertificate DEF Typed
  <2>1. \/ e = [o EXCEPT !.labels = {}] \/ e = [o EXCEPT !.issuer = "other"]
        \/ e = [o EXCEPT !.names = {<<"other">>}]
        \/ e = [o EXCEPT !.labels = @ \cup {<<"certmanager.k8s.io/time-restarted", "now">>}]
    BY <1>3, <2>0, Zenon DEF Edits, IsIngress
  <2>2. CertificateTyped(e)
    BY <2>0, <2>1 DEF CertificateTyped
  <2> QED
    BY <2>0, <2>2 DEF Typed
<1>4. CASE k = "route"
  <2>0. RouteTyped(o) /\ ~IsService(k) /\ ~IsIngress(k) /\ ~IsCertificate(k) /\ k # "apiService"
    BY <1>4, OfRoute DEF Typed
  <2>1. PICK edit \in RouteEdits : e = RouteEdit(o)[edit]
    BY <1>4, <2>0, Zenon DEF Edits, IsIngress
  <2>2. edit \in {"labels", "host", "name", "termination", "weight", "port"}
    BY ExposureAssumption
  <2> DEFINE l == [o EXCEPT !.labels = {}]
             h == [o EXCEPT !.host = <<"other">>]
             n == [o EXCEPT !.to.name = "other"]
             w == [o EXCEPT !.to.weight = 0]
             t == [o EXCEPT !.termination = "edge"]
             p == [o EXCEPT !.port = NoPort]
  <2>3. RouteEdit(o) = [labels |-> l, host |-> h, name |-> n, weight |-> w, termination |-> t, port |-> p]
    BY Zenon DEF RouteEdit
  <2>4. /\ RouteTyped(l) /\ l.to = o.to /\ RouteTyped(h) /\ h.to = o.to
        /\ RouteTyped(t) /\ t.to = o.to /\ RouteTyped(p) /\ p.to = o.to
    BY <2>0 DEF RouteTyped
  <2>5. RouteTyped(n) /\ n.to.weight = o.to.weight
    BY <2>0 DEF RouteTyped
  <2>6. RouteTyped(w)
    BY <2>0 DEF RouteTyped
  <2> HIDE DEF l, h, n, w, t, p
  <2>7. e = l \/ e = h \/ e = n \/ e = t \/ e = p \/ (e = w /\ edit = "weight")
    BY <2>1, <2>2, <2>3
  <2> QED
    BY <2>0, <2>1, <2>4, <2>5, <2>6, <2>7 DEF Typed
<1>5. CASE k = "apiService"
  <2>0. APIServiceTyped(o) /\ ~IsService(k) /\ ~IsIngress(k) /\ ~IsCertificate(k) /\ k # "route"
    BY <1>5, OfAPIService DEF Typed
  <2>1. \/ e = [o EXCEPT !.labels = {}] \/ e = [o EXCEPT !.insecure = FALSE]
        \/ e = [o EXCEPT !.service = "other"] \/ e = [o EXCEPT !.priority = 1]
    BY <1>5, <2>0, Zenon DEF Edits, IsIngress
  <2>2. APIServiceTyped(e)
    BY <2>0, <2>1 DEF APIServiceTyped
  <2> QED
    BY <2>0, <2>2 DEF Typed
<1> QED
  BY <1>1, <1>2, <1>3, <1>4, <1>5 DEF Classified

\* What is built and what is asked for depends on the settings.
LEMMA SameSettings ==
  ASSUME UNCHANGED <<operand, spec, hub, domain>>
  PROVE  /\ Kinds' = Kinds /\ Required' = Required /\ Removed' = Removed
         /\ \A k : Built(k)' = Built(k)
<1>1. Kinds' = Kinds /\ Required' = Required /\ Removed' = Removed
  BY DEF Kinds, Required, Removed
<1>2. ASSUME NEW k PROVE Built(k)' = Built(k)
  <2>1. /\ BuildService(k)' = BuildService(k) /\ BuildIngress(k)' = BuildIngress(k)
        /\ BuildRoute' = BuildRoute /\ BuildAPIService' = BuildAPIService
    BY DEF BuildService, LabelsForSelector, BuildIngress, BuildRoute, RouteHost, BuildAPIService
  <2>2. BuildCertificate(k)' = BuildCertificate(k)
    BY DEF BuildCertificate, RouteHost
  <2> QED
    BY <2>1, <2>2, Zenon DEF Built
<1> QED
  BY <1>1, <1>2

\* The least of the steps that end a run.
LEMMA FirstStop ==
  ASSUME NEW stops, stops \subseteq 1..9, stops # {}
  PROVE  (CHOOSE i \in stops : \A s \in stops : i <= s) \in stops
<1>1. \E i \in stops : \A s \in stops : i <= s
  <2>1. PICK n : n \in stops
    OBVIOUS
  <2>2. ASSUME \A i \in stops : \E s \in stops : ~(i <= s) PROVE FALSE
    <3>1. 1 \notin stops
      BY <2>2
    <3>2. 2 \notin stops
      BY <2>2, <3>1
    <3>3. 3 \notin stops
      BY <2>2, <3>1, <3>2
    <3>4. 4 \notin stops
      BY <2>2, <3>1, <3>2, <3>3
    <3>5. 5 \notin stops
      BY <2>2, <3>1, <3>2, <3>3, <3>4
    <3>6. 6 \notin stops
      BY <2>2, <3>1, <3>2, <3>3, <3>4, <3>5
    <3>7. 7 \notin stops
      BY <2>2, <3>1, <3>2, <3>3, <3>4, <3>5, <3>6
    <3>8. 8 \notin stops
      BY <2>2, <3>1, <3>2, <3>3, <3>4, <3>5, <3>6, <3>7
    <3> QED
      BY <2>1, <2>2, <3>1, <3>2, <3>3, <3>4, <3>5, <3>6, <3>7, <3>8
  <2> QED
    BY <2>2
<1> QED
  BY <1>1, Zenon

\* A run gets past some of the objects; past all of them if it met no error.
LEMMA RunSteps ==
  ASSUME operand \in {"metering", "ui", "mcmui", "report"}, Reconcile
  PROVE  \E handled \in SUBSET Kinds :
           /\ objects' = [k \in Kinds |-> IF k \in handled THEN Reconciled(k) ELSE objects[k]]
           /\ outcome' = "done" => handled = Kinds /\ \A k \in Kinds : Result(k) = "done"
           /\ outcome' # "done" => \E k \in Kinds : outcome' = Result(k)
<1> DEFINE order == Order[operand]
<1> DEFINE stops == {i \in DOMAIN order : Result(order[i]) # "done"}
<1> DEFINE handled == {order[i] : i \in {j \in DOMAIN order : \A s \in stops : j < s}}
<1> DEFINE first == CHOOSE i \in stops : \A s \in stops : i <= s
<1>1. DOMAIN order \subseteq 1..9 /\ Kinds = {order[i] : i \in DOMAIN order}
  BY DEF Order, Kinds, ToSet
<1>2. /\ objects' = [k \in Kinds |-> IF k \in handled THEN Reconciled(k) ELSE objects[k]]
      /\ outcome' = IF stops = {} THEN "done" ELSE Result(order[first])
  BY Zenon DEF Reconcile
<1> HIDE DEF order
<1>3. handled \in SUBSET Kinds
  BY <1>1
<1>4. ASSUME stops = {} PROVE handled = Kinds /\ \A k \in Kinds : Result(k) = "done"
  BY <1>1, <1>4
<1>5. ASSUME stops # {} PROVE first \in DOMAIN order /\ Result(order[first]) # "done"
  <2>1. stops \subseteq 1..9
    BY <1>1
  <2>2. first \in stops
    BY <1>5, <2>1, FirstStop, Zenon
  <2> QED
    BY <2>2
<1> HIDE DEF stops, handled, first
<1> QED
  BY <1>1, <1>2, <1>3, <1>4, <1>5

\* What a run makes of the objects it gets past.
LEMMA ReconciledIs ==
  ASSUME NEW k
  PROVE  /\ k \in Removed => Reconciled(k) = Absent
         /\ k \notin Removed /\ k \notin Required => Reconciled(k) = objects[k]
         /\ k \in Required /\ objects[k] = Absent => Reconciled(k) = Stored(k, Built(k))
         /\ k \in Required /\ objects[k] # Absent /\ Equal(k, objects[k], Built(k)) =>
              Reconciled(k) = objects[k]
         /\ k \in Required /\ objects[k] # Absent /\ ~Equal(k, objects[k], Built(k)) =>
              Reconciled(k) = Stored(k, Updated(k, objects[k], Built(k)))
<1>1. k \in Required => k \notin Removed
  BY DEF Required, Removed
<1> QED
  BY <1>1, Zenon DEF Reconciled

-----------------------------------------------------------------------------
(* The invariant.                                                          *)

\* Nobody but an editor of the weight changes it.
WeightKept ==
  "weight" \notin RouteEdits /\ "route" \in Kinds /\ objects["route"] # Absent =>
    objects["route"].to.weight = 100

ObjectsInv == ObjectsTyped /\ WeightKept

\* What a run leaves of object k is of its kind and as asked for, and what is
\* others' in it is as it was.
LEMMA RunObject ==
  ASSUME ObjectsInv, NEW k \in Kinds, NEW r, r = Reconciled(k)
  PROVE  /\ r # Absent => Typed(k, r)
         /\ "weight" \notin RouteEdits /\ k = "route" /\ r # Absent => r.to.weight = 100
         /\ k \in Removed => r = Absent
         /\ k \in Required =>
              /\ r # Absent
              /\ Equal(k, r, Built(k)) \/ (IsService(k) /\ r.type = "NodePort")
              /\ Equal(k, r, Built(k)) \/ Claimed(k, r) = Claimed(k, Built(k))
              /\ "weight" \notin RouteEdits => Claimed(k, r) = Claimed(k, Built(k))
         /\ r # Absent /\ objects[k] # Absent =>
              /\ IsCertificate(k) => RestartLabels(r) = RestartLabels(objects[k])
              /\ IsService(k) => r.type = objects[k].type
              /\ k = "route" => r.termination = objects[k].termination
<1>1. Classified(k) /\ Typed(k, Built(k))
  BY KindsClassified, BuiltTyped DEF Classified, ObjectsInv, ObjectsTyped
<1>2. k = "route" => Built(k).to.weight = 100
  BY BuiltIs DEF BuildRoute
<1>3. objects[k] # Absent => Typed(k, objects[k])
  BY DEF ObjectsInv, ObjectsTyped
<1>4. "weight" \notin RouteEdits /\ k = "route" /\ objects[k] # Absent => objects[k].to.weight = 100
  BY DEF ObjectsInv, WeightKept
<1>5. k \in Required => k \notin Removed
  BY DEF Required, Removed
<1>6. CASE k \notin Required \/ k \in Removed
  <2>1. r = Absent \/ (r = objects[k] /\ k \notin Removed)
    BY <1>5, <1>6, ReconciledIs, Zenon
  <2> QED
    BY <1>3, <1>4, <1>5, <1>6, <2>1, ReconciledIs
<1>7. CASE k \in Required /\ objects[k] = Absent
  <2>1. r = Stored(k, Built(k))
    BY <1>7, ReconciledIs
  <2>2. /\ Typed(k, r) /\ Claimed(k, r) = Claimed(k, Built(k)) /\ Equal(k, r, Built(k))
        /\ k = "route" => r.to = Built(k).to
    BY <1>1, <2>1, CreateSettles
  <2>3. r # Absent
    BY <1>1, <2>2, TypedIsThere
  <2> QED
    BY <1>2, <1>5, <1>7, <2>2, <2>3
<1>8. CASE k \in Required /\ objects[k] # Absent /\ Equal(k, objects[k], Built(k))
  <2>1. r = objects[k]
    BY <1>8, ReconciledIs
  <2>2. "weight" \notin RouteEdits => Claimed(k, r) = Claimed(k, Built(k))
    BY <1>1, <1>3, <1>4, <1>8, <2>1, EqualAgrees
  <2> QED
    BY <1>3, <1>4, <1>5, <1>8, <2>1, <2>2
<1>9. CASE k \in Required /\ objects[k] # Absent /\ ~Equal(k, objects[k], Built(k))
  <2>1. r = Stored(k, Updated(k, objects[k], Built(k)))
    BY <1>9, ReconciledIs
  <2>2. /\ Typed(k, r) /\ Claimed(k, r) = Claimed(k, Built(k))
        /\ Equal(k, r, Built(k)) \/ (IsService(k) /\ r.type = "NodePort")
        /\ IsCertificate(k) => RestartLabels(r) = RestartLabels(objects[k])
        /\ IsService(k) => r.type = objects[k].type
        /\ k = "route" => r.termination = objects[k].termination /\ r.to = Built(k).to
    BY <1>1, <1>3, <1>9, <2>1, UpdateSettles
  <2>3. r # Absent
    BY <1>1, <2>2, TypedIsThere
  <2> QED
    BY <1>2, <1>5, <1>9, <2>2, <2>3
<1> QED
  BY <1>6, <1>7, <1>8, <1>9

\* After a run that met no error.
SettledInv ==
  Settled =>
    /\ \A k \in Required :
         /\ objects[k] # Absent
         /\ Equal(k, objects[k], Built(k)) \/ (IsService(k) /\ objects[k].type = "NodePort")
         /\ Equal(k, objects[k], Built(k)) \/ Claimed(k, objects[k]) = Claimed(k, Built(k))
         /\ "weight" \notin RouteEdits => Claimed(k, objects[k]) = Claimed(k, Built(k))
         /\ k = "route" => domain # NoDomain
    /\ \A k \in Removed : objects[k] = Absent

LEMMA InitObjects == Init => ObjectsInv
BY ExposureAssumption DEF Init, ObjectsInv, ObjectsTyped, WeightKept

LEMMA TamperObjects == ObjectsInv /\ Tamper => ObjectsInv'
<1> SUFFICES ASSUME ObjectsInv, Tamper PROVE ObjectsInv'
  OBVIOUS
<1>1. operand' = operand /\ Kinds' = Kinds
  BY DEF Tamper, Kinds
<1>2. PICK k \in Kinds : /\ objects[k] # Absent
                        /\ \E o \in Edits(k, objects[k]) \cup {Absent} :
                             objects' = [objects EXCEPT ![k] = o]
  BY DEF Tamper
<1>3. PICK e \in Edits(k, objects[k]) \cup {Absent} : objects' = [objects EXCEPT ![k] = e]
  BY <1>2
<1>4. objects' = [l \in Kinds |-> IF l = k THEN e ELSE objects[l]]
  BY <1>3 DEF ObjectsInv, ObjectsTyped
<1>5. Classified(k) /\ Typed(k, objects[k])
  BY <1>2, KindsClassified DEF Classified, ObjectsInv, ObjectsTyped
<1>6. e # Absent => /\ Typed(k, e)
                    /\ k = "route" /\ "weight" \notin RouteEdits => e.to.weight = objects[k].to.weight
  BY <1>3, <1>5, EditedTyped
<1>7. ObjectsTyped'
  BY <1>1, <1>4, <1>6 DEF ObjectsInv, ObjectsTyped
<1>8. WeightKept'
  BY <1>1, <1>2, <1>4, <1>6 DEF ObjectsInv, WeightKept
<1> QED
  BY <1>7, <1>8 DEF ObjectsInv

LEMMA SettingObjects == ObjectsInv /\ ChangeSetting => ObjectsInv'
BY DEF ChangeSetting, ObjectsInv, ObjectsTyped, WeightKept, Kinds

LEMMA ReconcileObjects == ObjectsInv /\ Reconcile => ObjectsInv' /\ SettledInv'
<1> SUFFICES ASSUME ObjectsInv, Reconcile PROVE ObjectsInv' /\ SettledInv'
  OBVIOUS
<1>1. UNCHANGED <<operand, spec, hub, domain>>
  BY DEF Reconcile
<1>2. PICK handled \in SUBSET Kinds :
        /\ objects' = [k \in Kinds |-> IF k \in handled THEN Reconciled(k) ELSE objects[k]]
        /\ outcome' = "done" => handled = Kinds /\ \A k \in Kinds : Result(k) = "done"
        /\ outcome' # "done" => \E k \in Kinds : outcome' = Result(k)
  BY RunSteps DEF ObjectsInv, ObjectsTyped
<1>3. Kinds' = Kinds /\ Required' = Required /\ Removed' = Removed /\ \A k : Built(k)' = Built(k)
  BY <1>1, SameSettings
<1>4. ObjectsTyped'
  BY <1>1, <1>2, <1>3, RunObject DEF ObjectsInv, ObjectsTyped
<1>5. WeightKept'
  BY <1>2, <1>3, RunObject DEF ObjectsInv, WeightKept
<1>6. ASSUME Settled' PROVE \A k \in Kinds : objects'[k] = Reconciled(k) /\ Result(k) = "done"
  BY <1>2, <1>6 DEF Settled
<1>7. "route" \in Required /\ Result("route") = "done" => domain # NoDomain
  BY DEF Result
<1>8. SettledInv'
  <2> SUFFICES ASSUME Settled' PROVE (\A k \in Required :
         /\ objects'[k] # Absent
         /\ Equal(k, objects'[k], Built(k)) \/ (IsService(k) /\ objects'[k].type = "NodePort")
         /\ Equal(k, objects'[k], Built(k)) \/ Claimed(k, objects'[k]) = Claimed(k, Built(k))
         /\ "weight" \notin RouteEdits => Claimed(k, objects'[k]) = Claimed(k, Built(k))
         /\ k = "route" => domain # NoDomain)
       /\ \A k \in Removed : objects'[k] = Absent
    BY <1>1, <1>3 DEF SettledInv
  <2>1. Required \subseteq Kinds /\ Removed \subseteq Kinds
    BY DEF Required, Removed
  <2> QED
    BY <1>6, <1>7, <2>1, RunObject
<1> QED
  BY <1>4, <1>5, <1>8 DEF ObjectsInv

\* A run that ends with an error met a Route without a domain: the server
\* refuses nothing it writes.
ErrorInv == outcome = "error" /\ ~due => "route" \in Required /\ domain = NoDomain

LEMMA ReconcileError == ObjectsInv /\ Reconcile => ErrorInv'
<1> SUFFICES ASSUME ObjectsInv, Reconcile, outcome' = "error" PROVE ErrorInv'
  BY DEF ErrorInv
<1>1. UNCHANGED <<operand, spec, hub, domain>>
  BY DEF Reconcile
<1>2. PICK k \in Kinds : Result(k) = "error"
  BY RunSteps DEF ObjectsInv, ObjectsTyped
<1>3. CASE k = "route" /\ domain = NoDomain
  <2>1. k \in Required
    BY <1>2 DEF Result
  <2> QED
    BY <1>1, <1>3, <2>1, SameSettings DEF ErrorInv
<1>4. CASE ~(k = "route" /\ domain = NoDomain)
  <2>1. objects[k] # Absent /\ ~Accepted(k, objects[k], Updated(k, objects[k], Built(k)))
    BY <1>2, <1>4, Zenon DEF Result
  <2>2. IsService(k) /\ ServiceTyped(objects[k])
    BY <2>1 DEF Accepted, ObjectsInv, ObjectsTyped, Typed
  <2>3. Updated(k, objects[k], Built(k)).ip = objects[k].ip
    BY <2>2, UpdatedService DEF ServiceUpdate
  <2> QED
    BY <2>1, <2>3 DEF Accepted
<1> QED
  BY <1>3, <1>4

Inv == ObjectsInv /\ SettledInv /\ ErrorInv

LEMMA InvInductive == Inv /\ [Next]_vars => Inv'
<1> SUFFICES ASSUME Inv, [Next]_vars PROVE Inv'
  OBVIOUS
<1>1. CASE Tamper
  BY <1>1, TamperObjects DEF Inv, SettledInv, Settled, ErrorInv, Tamper
<1>2. CASE ChangeSetting
  BY <1>2, SettingObjects DEF Inv, SettledInv, Settled, ErrorInv, ChangeSetting
<1>3. CASE Reconcile
  BY <1>3, ReconcileObjects, ReconcileError DEF Inv
<1>4. CASE UNCHANGED vars
  <2>1. UNCHANGED <<operand, spec, hub, domain, objects, due, outcome>>
    BY <1>4 DEF vars
  <2>2. Kinds' = Kinds /\ Required' = Required /\ Removed' = Removed /\ \A k : Built(k)' = Built(k)
    BY <2>1, SameSettings
  <2>3. ObjectsInv' /\ ErrorInv'
    BY <2>1, <2>2 DEF Inv, ObjectsInv, ObjectsTyped, WeightKept, ErrorInv
  <2>4. SettledInv'
    BY <2>1, <2>2 DEF Inv, SettledInv, Settled
  <2> QED
    BY <2>3, <2>4 DEF Inv
<1> QED
  BY <1>1, <1>2, <1>3, <1>4 DEF Next

\* The fields of each object, the weight of the Route, and what a run that met
\* no error, or one, tells about the objects.
THEOREM InvCorrect == Spec => []Inv
<1>1. Init => Inv
  BY InitObjects DEF Init, Inv, SettledInv, Settled, ErrorInv
<1> QED
  BY <1>1, InvInductive, PTL DEF Spec

\* What the operator claims of its objects is as built after a run that met no
\* error, whatever others did; the weight of a Route is the one thing claimed
\* that IsRouteEqual does not look at.
THEOREM RestoredCorrect ==
  ASSUME "weight" \notin RouteEdits
  PROVE  Spec => []Restored
<1>1. Inv => Restored
  BY DEF Inv, SettledInv, Restored
<1> QED
  BY <1>1, InvCorrect, PTL

\* A second run has nothing to write, except for a Service that others made a
\* NodePort, whose ports never compare equal.
THEOREM RunsSettleCorrect == Spec => []RunsSettle
<1>1. Inv => RunsSettle
  BY DEF Inv, SettledInv, RunsSettle
<1> QED
  BY <1>1, InvCorrect, PTL

\* The server refuses no update: that of a Service keeps its address.
THEOREM NothingRefusedCorrect == Spec => []NothingRefused
<1>1. Inv => NothingRefused
  BY DEF Inv, ErrorInv, NothingRefused
<1> QED
  BY <1>1, InvCorrect, PTL

\* A run keeps cert-manager's label, the type of a Service and the termination
\* of a Route.
THEOREM OthersKeptCorrect == Spec => OthersKept
<1> DEFINE Keeps ==
      ~due' =>
        \A k \in Kinds : objects[k] # Absent /\ objects'[k] # Absent =>
          /\ IsCertificate(k) => RestartLabels(objects'[k]) = RestartLabels(objects[k])
          /\ IsService(k) => objects'[k].type = objects[k].type
          /\ k = "route" => objects'[k].termination = objects[k].termination
<1>1. ASSUME ObjectsInv, Reconcile PROVE Keeps
  <2>1. PICK handled \in SUBSET Kinds :
          objects' = [k \in Kinds |-> IF k \in handled THEN Reconciled(k) ELSE objects[k]]
    BY <1>1, RunSteps DEF ObjectsInv, ObjectsTyped
  <2>2. \A k \in Kinds : objects'[k] = Reconciled(k) \/ objects'[k] = objects[k]
    BY <2>1
  <2> QED
    BY <1>1, <2>2, RunObject
<1>2. Tamper \/ ChangeSetting => Keeps
  BY DEF Tamper, ChangeSetting
<1>3. Inv /\ [Next]_vars => [Keeps]_vars
  <2>1. Inv => ObjectsInv
    BY DEF Inv
  <2> HIDE DEF Keeps
  <2> QED
    BY <1>1, <1>2, <2>1 DEF Next
<1> QED
  BY <1>3, InvCorrect, PTL DEF Spec, OthersKept

-----------------------------------------------------------------------------
(* The ways in.                                                            *)

\* A Service with what the operator claims has the ports it was built with and
\* selects the pods of its app.
LEMMA ServiceServes ==
  ASSUME NEW k \in DOMAIN Services, ServiceTyped(objects[k]),
         Equal(k, objects[k], Built(k)) \/ Claimed(k, objects[k]) = Claimed(k, Built(k)),
         NEW q \in Services[k].ports,
         Services[k].app \in DOMAIN ContainerPorts[operand],
         q.target \in ContainerPorts[operand][Services[k].app]
  PROVE  \E p \in objects[k].ports : p.name = q.name /\ p.port = q.port /\ Serves(k, p)
<1>1. IsService(k) /\ Built(k) = BuildService(k)
  BY OfService DEF IsService
<1>2. /\ Built(k).ports = Services[k].ports
      /\ Built(k).selector = LabelsForSelector(Services[k].app)
  BY <1>1 DEF BuildService
<1>3. /\ objects[k].selector = Built(k).selector
      /\ {Bare(p) : p \in objects[k].ports} = {Bare(p) : p \in Built(k).ports}
  <2>1. CASE Equal(k, objects[k], Built(k))
    <3>1. objects[k].selector = Built(k).selector /\ objects[k].ports = Built(k).ports
      BY <1>1, <2>1, OfService DEF IsServiceEqual
    <3> QED
      BY <3>1
  <2>2. CASE Claimed(k, objects[k]) = Claimed(k, Built(k))
    <3>1. ServiceClaim(objects[k]) = ServiceClaim(Built(k))
      BY <1>1, <2>2, OfService, Zenon
    <3>2. ASSUME NEW o
          PROVE  /\ ServiceClaim(o).selector = o.selector
                 /\ ServiceClaim(o).ports = {Bare(p) : p \in o.ports}
      BY DEF ServiceClaim
    <3> QED
      BY <3>1, <3>2, Zenon
  <2> QED
    BY <2>1, <2>2
<1>4. PICK p \in objects[k].ports : Bare(p) = Bare(q)
  BY <1>2, <1>3
<1>5. PortTyped(p) /\ PortTyped(q)
  BY ServicePorts DEF ServiceTyped
<1>6. p.name = q.name /\ p.port = q.port /\ p.target = q.target
  <2>1. Bare(p).name = p.name /\ Bare(p).port = p.port /\ Bare(p).target = p.target
    BY <1>5 DEF PortTyped, Bare
  <2>2. Bare(q).name = q.name /\ Bare(q).port = q.port /\ Bare(q).target = q.target
    BY <1>5 DEF PortTyped, Bare
  <2> QED
    BY <1>4, <2>1, <2>2, Zenon
<1>7. objects[k].selector \subseteq LabelsForPodMetadata(Services[k].app)
  BY <1>2, <1>3 DEF LabelsForPodMetadata
<1>8. Serves(k, p)
  BY <1>6, <1>7 DEF Serves
<1> QED
  BY <1>6, <1>8

\* The Service that an object leads to is asked for too, and has a port that a
\* container listens on.
LEMMA BehindServes ==
  ASSUME operand \in {"metering", "ui", "mcmui", "report"}, NEW k \in Required,
         IsIngress(k) \/ k = "route" \/ k = "apiService"
  PROVE  \E s \in Required \cap DOMAIN Services : \E q \in Services[s].ports :
           /\ Services[s].app \in DOMAIN ContainerPorts[operand]
           /\ q.target \in ContainerPorts[operand][Services[s].app]
           /\ IsIngress(k) => Services[s].name = Ingresses[k].service /\ q.port = Ingresses[k].port
           /\ k = "route" => Services[s].name = "metering-receiver" /\ q.name = "metering-receiver"
           /\ k = "apiService" => Services[s].name = "metering-report" /\ q.port = 443
<1>1. CASE k \in {"checkIngress", "rbacIngress", "swaggerIngress"}
  <2>1. operand = "metering"
    BY <1>1 DEF Required, Kinds, Order, ToSet
  <2>2. "readerService" \in Required \cap DOMAIN Services
    BY <2>1 DEF Required, Kinds, Order, ToSet, ReceiverKinds, Services
  <2>3. Port("apiserver", 4000, 4000) \in Services["readerService"].ports
    BY DEF Services
  <2>4. /\ Services["readerService"].app = "metering-reader"
        /\ Services["readerService"].name = "metering-server"
    BY DEF Services
  <2>5. /\ "metering-reader" \in DOMAIN ContainerPorts[operand]
        /\ 4000 \in ContainerPorts[operand]["metering-reader"]
    BY <2>1 DEF ContainerPorts
  <2>6. Ingresses[k].service = "metering-server" /\ Ingresses[k].port = 4000
    BY <1>1 DEF Ingresses
  <2>7. k # "route" /\ k # "apiService"
    BY <1>1
  <2>8. /\ Port("apiserver", 4000, 4000).port = 4000
        /\ Port("apiserver", 4000, 4000).target = 4000
    BY DEF Port
  <2> QED
    BY <2>2, <2>3, <2>4, <2>5, <2>6, <2>7, <2>8
<1>2. CASE k = "uiIngress"
  <2>1. operand = "ui"
    BY <1>2 DEF Required, Kinds, Order, ToSet
  <2>2. "uiService" \in Required \cap DOMAIN Services
    BY <2>1 DEF Required, Kinds, Order, ToSet, ReceiverKinds, Services
  <2>3. Port("dashboard", 3130, 3130) \in Services["uiService"].ports
    BY DEF Services
  <2>4. Services["uiService"].app = "metering-ui" /\ Services["uiService"].name = "metering-ui"
    BY DEF Services
  <2>5. /\ "metering-ui" \in DOMAIN ContainerPorts[operand]
        /\ 3130 \in ContainerPorts[operand]["metering-ui"]
    BY <2>1 DEF ContainerPorts
  <2>6. Ingresses[k].service = "metering-ui" /\ Ingresses[k].port = 3130
    BY <1>2 DEF Ingresses
  <2>7. Port("dashboard", 3130, 3130).port = 3130 /\ Port("dashboard", 3130, 3130).target = 3130
    BY DEF Port
  <2> QED
    BY <1>2, <2>2, <2>3, <2>4, <2>5, <2>6, <2>7
<1>3. CASE k = "mcmIngress"
  <2>1. operand = "mcmui"
    BY <1>3 DEF Required, Kinds, Order, ToSet
  <2>2. "mcmService" \in Required \cap DOMAIN Services
    BY <2>1 DEF Required, Kinds, Order, ToSet, ReceiverKinds, Services
  <2>3. Port("metering-mcm-dashboard", 3001, 3001) \in Services["mcmService"].ports
    BY DEF Services
  <2>4. Services["mcmService"].app = "metering-mcmui" /\ Services["mcmService"].name = "metering-mcmui"
    BY DEF Services
  <2>5. /\ "metering-mcmui" \in DOMAIN ContainerPorts[operand]
        /\ 3001 \in ContainerPorts[operand]["metering-mcmui"]
    BY <2>1 DEF ContainerPorts
  <2>6. Ingresses[k].service = "metering-mcmui" /\ Ingresses[k].port = 3001
    BY <1>3 DEF Ingresses
  <2>7. /\ Port("metering-mcm-dashboard", 3001, 3001).port = 3001
        /\ Port("metering-mcm-dashboard", 3001, 3001).target = 3001
    BY DEF Port
  <2> QED
    BY <1>3, <2>2, <2>3, <2>4, <2>5, <2>6, <2>7
<1>4. CASE k = "route"
  <2>1. operand = "metering" /\ spec.receiver
    BY <1>4 DEF Required, Kinds, Order, ToSet, ReceiverKinds
  <2>2. "receiverService" \in Required \cap DOMAIN Services
    BY <2>1 DEF Required, Kinds, Order, ToSet, ReceiverKinds, Services
  <2>3. Port("metering-receiver", 5000, 5000) \in Services["receiverService"].ports
    BY DEF Services
  <2>4. /\ Services["receiverService"].app = "metering-dm"
        /\ Services["receiverService"].name = "metering-receiver"
    BY DEF Services
  <2>5. /\ "metering-dm" \in DOMAIN ContainerPorts[operand]
        /\ 5000 \in ContainerPorts[operand]["metering-dm"]
    BY <2>1 DEF ContainerPorts
  <2>6. ~IsIngress(k)
    BY <1>4, OfRoute
  <2>7. /\ Port("metering-receiver", 5000, 5000).name = "metering-receiver"
        /\ Port("metering-receiver", 5000, 5000).target = 5000
    BY DEF Port
  <2> QED
    BY <1>4, <2>2, <2>3, <2>4, <2>5, <2>6, <2>7
<1>5. CASE k = "apiService"
  <2>1. operand = "report"
    BY <1>5 DEF Required, Kinds, Order, ToSet
  <2>2. "reportService" \in Required \cap DOMAIN Services
    BY <2>1 DEF Required, Kinds, Order, ToSet, ReceiverKinds, Services
  <2>3. Port(NoPort, 443, 7443) \in Services["reportService"].ports
    BY DEF Services
  <2>4. /\ Services["reportService"].app = "metering-report"
        /\ Services["reportService"].name = "metering-report"
    BY DEF Services
  <2>5. /\ "metering-report" \in DOMAIN ContainerPorts[operand]
        /\ 7443 \in ContainerPorts[operand]["metering-report"]
    BY <2>1 DEF ContainerPorts
  <2>6. ~IsIngress(k)
    BY <1>5, OfAPIService
  <2>7. Port(NoPort, 443, 7443).port = 443 /\ Port(NoPort, 443, 7443).target = 7443
    BY DEF Port
  <2> QED
    BY <1>5, <2>2, <2>3, <2>4, <2>5, <2>6, <2>7
<1>6. IsIngress(k) =>
        k \in {"checkIngress", "rbacIngress", "swaggerIngress", "uiIngress", "mcmIngress"}
  BY DEF IsIngress, Ingresses
<1> QED
  BY <1>1, <1>2, <1>3, <1>4, <1>5, <1>6

\* A request that comes in by an Ingress, the Route or the APIService reaches a
\* container that listens, after a run that met no error.
THEOREM ReachableCorrect == Spec => []Reachable
<1>1. ASSUME Inv, Settled, NEW k \in Required, IsIngress(k) \/ k = "route" \/ k = "apiService"
      PROVE  \E s \in Required \cap DOMAIN Services : \E p \in objects[s].ports :
               /\ Serves(s, p)
               /\ IsIngress(k) => Services[s].name = objects[k].service /\ p.port = objects[k].port
               /\ k = "route" => Services[s].name = objects[k].to.name /\ p.name = objects[k].port
               /\ k = "apiService" => Services[s].name = objects[k].service /\ p.port = 443
  <2>1. operand \in {"metering", "ui", "mcmui", "report"}
    BY <1>1 DEF Inv, ObjectsInv, ObjectsTyped
  <2>2. PICK s \in Required \cap DOMAIN Services : \E q \in Services[s].ports :
           /\ Services[s].app \in DOMAIN ContainerPorts[operand]
           /\ q.target \in ContainerPorts[operand][Services[s].app]
           /\ IsIngress(k) => Services[s].name = Ingresses[k].service /\ q.port = Ingresses[k].port
           /\ k = "route" => Services[s].name = "metering-receiver" /\ q.name = "metering-receiver"
           /\ k = "apiService" => Services[s].name = "metering-report" /\ q.port = 443
    BY <1>1, <2>1, BehindServes
  <2>3. PICK q \in Services[s].ports :
           /\ Services[s].app \in DOMAIN ContainerPorts[operand]
           /\ q.target \in ContainerPorts[operand][Services[s].app]
           /\ IsIngress(k) => Services[s].name = Ingresses[k].service /\ q.port = Ingresses[k].port
           /\ k = "route" => Services[s].name = "metering-receiver" /\ q.name = "metering-receiver"
           /\ k = "apiService" => Services[s].name = "metering-report" /\ q.port = 443
    BY <2>2
  <2>4. /\ ServiceTyped(objects[s])
        /\ Equal(s, objects[s], Built(s)) \/ Claimed(s, objects[s]) = Claimed(s, Built(s))
    <3>1. s \in Kinds /\ IsService(s)
      BY DEF Required, IsService
    <3> QED
      BY <1>1, <3>1 DEF Inv, ObjectsInv, ObjectsTyped, SettledInv, Typed
  <2>5. PICK p \in objects[s].ports : p.name = q.name /\ p.port = q.port /\ Serves(s, p)
    BY <2>3, <2>4, ServiceServes
  <2>6. Equal(k, objects[k], Built(k)) \/ Claimed(k, objects[k]) = Claimed(k, Built(k))
    BY <1>1 DEF Inv, SettledInv
  <2>7. IsIngress(k) =>
          objects[k].service = Ingresses[k].service /\ objects[k].port = Ingresses[k].port
    <3>1. IsIngress(k) => objects[k] = BuildIngress(k)
      BY <2>6, OfIngress
    <3> QED
      BY <3>1 DEF BuildIngress
  <2>8. k = "route" => objects[k].to.name = "metering-receiver" /\ objects[k].port = "metering-receiver"
    <3> SUFFICES ASSUME k = "route"
                 PROVE  objects[k].to.name = "metering-receiver" /\ objects[k].port = "metering-receiver"
      OBVIOUS
    <3>1. objects[k].to.name = BuildRoute.to.name /\ objects[k].port = BuildRoute.port
      <4>1. ASSUME NEW o PROVE RouteClaim(o).to = o.to /\ RouteClaim(o).port = o.port
        BY DEF RouteClaim
      <4>2. CASE Equal(k, objects[k], Built(k))
        BY <4>2, OfRoute DEF IsRouteEqual
      <4>3. CASE Claimed(k, objects[k]) = Claimed(k, Built(k))
        <5>1. RouteClaim(objects[k]) = RouteClaim(BuildRoute)
          BY <4>3, OfRoute
        <5> QED
          BY <4>1, <5>1, Zenon
      <4> QED
        BY <2>6, <4>2, <4>3
    <3> QED
      BY <3>1 DEF BuildRoute
  <2>9. k = "apiService" => objects[k].service = "metering-report"
    <3> SUFFICES ASSUME k = "apiService" PROVE objects[k].service = "metering-report"
      OBVIOUS
    <3>1. objects[k].service = BuildAPIService.service
      <4>1. ASSUME NEW o PROVE APIServiceClaim(o).service = o.service
        BY DEF APIServiceClaim
      <4>2. CASE Equal(k, objects[k], Built(k))
        BY <4>2, OfAPIService DEF IsAPIServiceEqual
      <4>3. CASE Claimed(k, objects[k]) = Claimed(k, Built(k))
        <5>1. APIServiceClaim(objects[k]) = APIServiceClaim(BuildAPIService)
          BY <4>3, OfAPIService
        <5> QED
          BY <4>1, <5>1, Zenon
      <4> QED
        BY <2>6, <4>2, <4>3
    <3> QED
      BY <3>1 DEF BuildAPIService
  <2> QED
    BY <2>3, <2>5, <2>7, <2>8, <2>9
<1>2. Inv => Reachable
  <2> SUFFICES ASSUME Inv, Settled, NEW k \in Required
               PROVE  /\ IsIngress(k) =>
                           \E s \in Required \cap DOMAIN Services : \E p \in objects[s].ports :
                             Services[s].name = objects[k].service /\ p.port = objects[k].port /\ Serves(s, p)
                      /\ k = "route" =>
                           \E s \in Required \cap DOMAIN Services : \E p \in objects[s].ports :
                             Services[s].name = objects[k].to.name /\ p.name = objects[k].port /\ Serves(s, p)
                      /\ k = "apiService" =>
                           \E s \in Required \cap DOMAIN Services : \E p \in objects[s].ports :
                             Services[s].name = objects[k].service /\ p.port = 443 /\ Serves(s, p)
    BY Zenon DEF Reachable, IsIngress
  <2> QED
    BY <1>1
<1> QED
  BY <1>2, InvCorrect, PTL

\* Whoever comes by an Ingress or the Route finds the name it asked for in a
\* certificate, after a run that met no error.
THEOREM CertificatesCoverCorrect == Spec => []CertificatesCover
<1>1. ASSUME Inv, Settled, NEW c \in Required \cap DOMAIN Certificates
      PROVE  objects[c].names = BuildCertificate(c).names
  <2>1. IsCertificate(c) /\ c \in Kinds
    BY DEF IsCertificate, Required
  <2>2. Equal(c, objects[c], Built(c)) /\ CertificateTyped(objects[c])
    BY <1>1, <2>1, OfCertificate DEF Inv, ObjectsInv, ObjectsTyped, SettledInv, Typed
  <2>3. objects[c] = WithRestartLabel(objects[c], BuildCertificate(c))
    BY <2>1, <2>2, OfCertificate DEF IsCertificateEqual
  <2>4. CertificateTyped(BuildCertificate(c))
    BY <2>1, BuiltIs, BuiltTyped DEF Typed
  <2>5. WithRestartLabel(objects[c], BuildCertificate(c)).names = BuildCertificate(c).names
    BY <2>4 DEF WithRestartLabel, CertificateTyped
  <2> QED
    BY <2>3, <2>5
<1>2. ASSUME NEW c
      PROVE  /\ <<Certificates[c].common>> \in BuildCertificate(c).names
             /\ c = "receiverCert" /\ domain # NoDomain => RouteHost \in BuildCertificate(c).names
  BY DEF BuildCertificate
<1>3. ASSUME Inv, Settled, NEW k \in Required, IsIngress(k)
      PROVE  \E c \in Required \cap DOMAIN Certificates : <<objects[k].service>> \in objects[c].names
  <2>1. objects[k].service = Ingresses[k].service
    <3>1. objects[k] = BuildIngress(k)
      BY <1>3, OfIngress DEF Inv, SettledInv
    <3> QED
      BY <3>1 DEF BuildIngress
  <2>2. operand \in {"metering", "ui", "mcmui", "report"}
    BY <1>3 DEF Inv, ObjectsInv, ObjectsTyped
  <2>3. PICK c \in Required \cap DOMAIN Certificates : Certificates[c].common = Ingresses[k].service
    BY <1>3, <2>2 DEF Required, Kinds, Order, ToSet, ReceiverKinds, Certificates, Ingresses, IsIngress
  <2> QED
    BY <1>1, <1>2, <1>3, <2>1, <2>3
<1>4. ASSUME Inv, Settled, "route" \in Required
      PROVE  objects["route"].host \in objects["receiverCert"].names
  <2>1. domain # NoDomain
    BY <1>4 DEF Inv, SettledInv
  <2>2. operand = "metering" /\ spec.receiver
    <3>1. operand \in {"metering", "ui", "mcmui", "report"}
      BY <1>4 DEF Inv, ObjectsInv, ObjectsTyped
    <3> QED
      BY <1>4, <3>1 DEF Required, Kinds, Order, ToSet, ReceiverKinds
  <2>3. "receiverCert" \in Required \cap DOMAIN Certificates
    BY <2>2 DEF Required, Kinds, Order, ToSet, ReceiverKinds, Certificates
  <2>4. objects["route"].host = RouteHost
    <3>1. objects["route"].host = BuildRoute.host
      <4>1. ASSUME NEW o PROVE RouteClaim(o).host = o.host
        BY DEF RouteClaim
      <4>2. Equal("route", objects["route"], Built("route")) \/
            Claimed("route", objects["route"]) = Claimed("route", Built("route"))
        BY <1>4 DEF Inv, SettledInv
      <4>3. CASE Equal("route", objects["route"], Built("route"))
        BY <4>3, OfRoute DEF IsRouteEqual
      <4>4. CASE Claimed("route", objects["route"]) = Claimed("route", Built("route"))
        <5>1. RouteClaim(objects["route"]) = RouteClaim(BuildRoute)
          BY <4>4, OfRoute
        <5> QED
          BY <4>1, <5>1, Zenon
      <4> QED
        BY <4>2, <4>3, <4>4
    <3> QED
      BY <3>1 DEF BuildRoute
  <2> QED
    BY <1>1, <1>2, <1>4, <2>1, <2>3, <2>4
<1>5. Inv => CertificatesCover
  BY <1>3, <1>4 DEF CertificatesCover, IsIngress
<1> QED
  BY <1>5, InvCorrect, PTL

=============================================================================
