----------------------------- MODULE PodTemplates -----------------------------
(***************************************************************************)
(* The pods of the six operands: the volumes, init containers and main     *)
(* container that the controllers build from a custom resource with        *)
(* pkg/resources/utils.go and containers.go, and the comparison in         *)
(* pkg/resources/reconcile.go that decides whether a Deployment is         *)
(* rewritten.                                                              *)
(*                                                                         *)
(* A volume shows a secret to the containers that mount it.  All secrets   *)
(* are optional volumes, so the first init container waits for them: it    *)
(* looks into one directory after another until each has a file.           *)
(*                                                                         *)
(* A name is a pair of a prefix and a base, "muser-x" being                *)
(* <<"muser", "x">>.  What a template always contains is left out, labels  *)
(* and probes among it.                                                    *)
(***************************************************************************)
EXTENDS Naturals, Sequences, Functions

CONSTANTS
  Operands,     \* the operands looked at
  Specs,        \* what customers write into a resource
  Tags, Shas,   \* the images the operator's Deployment may name; "" names none
  MaxChanges    \* bound: changes by others between two runs

\* What templates depend on; "" or 0 if it is not given.  user, password, ca and
\* client are the secrets of MongoDB, mongo and port its address.  The amounts are
\* those of memory, in Mi; CPU is treated alike.
Fields ==
  { "receiver", "exclude", "mongo", "port", "user", "userKey", "password", "passwordKey",
    "ca", "client", "registry", "postfix", "iam", "ingress", "header", "cluster",
    "namespace", "hub", "limit", "request" }

ASSUME PodsAssumption ==
  /\ Operands \subseteq {"dm", "reader", "sender", "ui", "mcmui", "report"}
  /\ \A s \in Specs : /\ DOMAIN s = Fields /\ s.receiver \in BOOLEAN /\ s.exclude \in BOOLEAN
                      /\ s.limit \in Nat /\ s.request \in Nat
  /\ Tags \cap Shas = {} /\ MaxChanges \in Nat \ {0}

VARIABLES
  operand,  \* whose pods these are
  release,  \* IMAGE_SHA_OR_TAG_* in the operator's environment
  spec,     \* what the custom resource says
  pods,     \* the pod template of the Deployment; << >> if there is none
  refused,  \* whether the API server refused what the last run wrote
  changes   \* what others changed since the last run

vars == <<operand, release, spec, pods, refused, changes>>

-----------------------------------------------------------------------------
(* The builders.                                                           *)

Given(value, default) == IF value = "" THEN default ELSE value

NoSecret == ""
Plain(base) == <<"", base>>
Volume(name, secret) == [name |-> name, secret |-> secret]
Mount(volume, area, dir) == [volume |-> volume, path |-> <<area, dir>>]

\* The certificates of the operands.
Certificates ==
  [ dm     |-> [volume |-> "icp-metering-receiver-certs",
                secret |-> "icp-metering-receiver-secret", dir |-> "metering-receiver"],
    reader |-> [volume |-> "icp-metering-api-certs",
                secret |-> "icp-metering-api-secret", dir |-> "metering-api"],
    ui     |-> [volume |-> "metering-ui-certs",
                secret |-> "metering-ui-cert", dir |-> "metering-ui"],
    mcmui  |-> [volume |-> "metering-mcmui-certs",
                secret |-> "metering-mcmui-cert", dir |-> "metering-mcmui"] ]

CertVolume(o) == Volume(Plain(Certificates[o].volume), Certificates[o].secret)
CertMount(o, area) == Mount(Plain(Certificates[o].volume), area, Plain(Certificates[o].dir))

\* The volumes every operand but the report server has.
CommonVolumes(s, level) ==
  << Volume(Plain("mongodb-ca-cert"), s.ca),
     Volume(Plain("mongodb-client-cert"), s.client),
     Volume(<<"muser", "icp-mongodb-admin">>, s.user),
     Volume(<<"mpass", "icp-mongodb-admin">>, s.password),
     Volume(Plain(level), NoSecret) >>

CommonMounts ==
  << Mount(Plain("mongodb-ca-cert"), "certs", Plain("mongodb-ca")),
     Mount(Plain("mongodb-client-cert"), "certs", Plain("mongodb-client")) >>

LevelMount(level) == Mount(Plain(level), "etc", Plain("config"))

UISecrets == <<"icp-serviceid-apikey-secret", "platform-oidc-credentials">>

DefaultResources ==
  [ dm     |-> [limit |-> 850, request |-> 230], reader |-> [limit |-> 320, request |-> 240],
    sender |-> [limit |-> 320, request |-> 240], ui     |-> [limit |-> 375, request |-> 370],
    mcmui  |-> [limit |-> 375, request |-> 370], report |-> [limit |-> 90,  request |-> 65] ]

InitResources == [limit |-> 100, request |-> 100]

\* What is given replaces the default, each for itself.
ResourceRequirements(o, s) ==
  [ DefaultResources[o] EXCEPT !.limit   = IF s.limit = 0 THEN @ ELSE s.limit,
                               !.request = IF s.request = 0 THEN @ ELSE s.request ]

\* A digest stands for itself; a tag gets the postfix of the resource.
ImageID(name, s) ==
  [ registry |-> Given(s.registry, "quay.io/opencloudio"), name |-> name,
    tag      |-> IF release \in Shas THEN <<release>>
                 ELSE <<Given(release, "3.7.1"), s.postfix>> ]

MongoEnv(s) ==
  [ host |-> s.mongo, port |-> s.port, user |-> s.user, userKey |-> s.userKey,
    password |-> s.password, passwordKey |-> s.passwordKey ]

\* Namespaces that are not given are that of the resource.
CommonClusterEnv(s) == [iam |-> Given(s.iam, "own")]

SenderClusterEnv(s) ==
  [ cluster |-> Given(s.cluster, "mycluster"), namespace |-> Given(s.namespace, "own"),
    hub |-> s.hub ]

UIClusterEnv(s, isMcmUI) ==
  LET router == <<"icp-management-ingress", Given(s.ingress, "own")>>
      iam    == CommonClusterEnv(s).iam
  IN  [ iam      |-> iam, header |-> Given(s.header, "own"), router |-> router,
        provider |-> IF isMcmUI THEN router ELSE <<"platform-identity-provider", iam>>,
        cluster  |-> IF isMcmUI THEN "" ELSE Given(s.cluster, "mycluster"),
        secrets  |-> UISecrets ]

\* What the secret check is given besides the secrets of MongoDB.
NothingMore == [names |-> << >>, dirs |-> << >>, mounts |-> << >>]
CertCheck(o) ==
  [ names |-> <<Certificates[o].secret>>, dirs |-> <<Plain(Certificates[o].dir)>>,
    mounts |-> <<CertMount(o, "sec")>> ]

\* Mutant: the certificates change places in one of the lists.
SecretCheckContainerSwapped(image, s, more) ==
  LET user     == <<"muser", s.user>>
      password == <<"mpass", s.password>>
  IN  [ name   |-> "secret-check", image |-> ImageID(image, s), resources |-> InitResources,
        env    |-> [ names |-> <<s.user, s.password, s.client, s.ca>> \o more.names,
                     dirs  |-> <<user, password, Plain(s.ca), Plain(s.client)>> \o more.dirs ],
        mounts |-> << Mount(Plain("mongodb-ca-cert"), "sec", Plain(s.ca)),
                      Mount(Plain("mongodb-client-cert"), "sec", Plain(s.client)),
                      Mount(user, "sec", user), Mount(password, "sec", password) >>
                   \o more.mounts ]

SecretCheckContainer(image, s, more) ==
  LET user     == <<"muser", s.user>>
      password == <<"mpass", s.password>>
  IN  [ name   |-> "secret-check", image |-> ImageID(image, s), resources |-> InitResources,
        env    |-> [ names |-> <<s.user, s.password, s.ca, s.client>> \o more.names,
                     dirs  |-> <<user, password, Plain(s.ca), Plain(s.client)>> \o more.dirs ],
        mounts |-> << Mount(Plain("mongodb-ca-cert"), "sec", Plain(s.ca)),
                      Mount(Plain("mongodb-client-cert"), "sec", Plain(s.client)),
                      Mount(user, "sec", user), Mount(password, "sec", password) >>
                   \o more.mounts ]

InitContainer(image, s) ==
  [ name |-> "init", image |-> ImageID(image, s), resources |-> InitResources,
    env |-> MongoEnv(s), mounts |-> CommonMounts ]

MainContainer(o, s, env, mounts) ==
  [ name |-> o, image |-> ImageID(o, s), resources |-> ResourceRequirements(o, s),
    env |-> env, mounts |-> mounts ]

Template(volumes, initContainers, main) ==
  [volumes |-> volumes, init |-> initContainers, containers |-> <<main>>]

\* Mutant: the receiver's secret is mounted but not waited for.
DmTemplateUnchecked(s) ==
  LET cert(t) == IF s.receiver THEN <<t>> ELSE << >>
  IN  Template(
        CommonVolumes(s, "loglevel") \o cert(CertVolume("dm")),
        << SecretCheckContainer("dm", s, NothingMore), InitContainer("dm", s) >>,
        MainContainer("dm", s, <<MongoEnv(s), CommonClusterEnv(s), s.receiver>>,
          <<LevelMount("loglevel")>> \o cert(CertMount("dm", "certs")) \o CommonMounts))

\* Mutant: the receiver's certificate is mounted from a volume nobody added.
DmTemplateWithoutVolume(s) ==
  LET cert(t) == IF s.receiver THEN <<t>> ELSE << >>
  IN  Template(
        CommonVolumes(s, "loglevel"),
        << SecretCheckContainer("dm", s, IF s.receiver THEN CertCheck("dm") ELSE NothingMore),
           InitContainer("dm", s) >>,
        MainContainer("dm", s, <<MongoEnv(s), CommonClusterEnv(s), s.receiver>>,
          <<LevelMount("loglevel")>> \o cert(CertMount("dm", "certs")) \o CommonMounts))

DmTemplate(s) ==
  LET cert(t) == IF s.receiver THEN <<t>> ELSE << >>
  IN  Template(
        CommonVolumes(s, "loglevel") \o cert(CertVolume("dm")),
        << SecretCheckContainer("dm", s, IF s.receiver THEN CertCheck("dm") ELSE NothingMore),
           InitContainer("dm", s) >>,
        MainContainer("dm", s, <<MongoEnv(s), CommonClusterEnv(s), s.receiver>>,
          <<LevelMount("loglevel")>> \o cert(CertMount("dm", "certs")) \o CommonMounts))

\* The reader runs the image of the data manager.
ReaderTemplate(s) ==
  Template(
    Append(CommonVolumes(s, "loglevel"), CertVolume("reader")),
    << SecretCheckContainer("dm", s, CertCheck("reader")), InitContainer("dm", s) >>,
    [ MainContainer("reader", s, <<MongoEnv(s), CommonClusterEnv(s), s.exclude>>,
        <<CertMount("reader", "certs"), LevelMount("loglevel")>> \o CommonMounts)
      EXCEPT !.image = ImageID("dm", s) ])

SenderTemplate(s) ==
  Template(
    CommonVolumes(s, "loglevel"),
    << [ SecretCheckContainer("dm", s, NothingMore)
         EXCEPT !.env = [names |-> @.names, dirs |-> @.dirs, hub |-> s.hub] ],
       InitContainer("dm", s) >>,
    [ MainContainer("sender", s, <<MongoEnv(s), SenderClusterEnv(s)>>,
        <<LevelMount("loglevel")>> \o CommonMounts)
      EXCEPT !.image = ImageID("dm", s) ])

UITemplate(s) ==
  Template(
    Append(CommonVolumes(s, "loglevel"), CertVolume("ui")),
    << SecretCheckContainer("dm", s, CertCheck("ui")), InitContainer("dm", s) >>,
    MainContainer("ui", s, <<MongoEnv(s), UIClusterEnv(s, FALSE)>>,
      <<LevelMount("loglevel")>> \o CommonMounts \o <<CertMount("ui", "certs")>>))

\* The multicloud UI also waits for the secrets it takes variables from.
McmUITemplate(s) ==
  LET dirs   == [i \in DOMAIN UISecrets |-> Plain(UISecrets[i])]
      mounts == [i \in DOMAIN UISecrets |-> Mount(dirs[i], "sec", dirs[i])]
      more   == [ names  |-> UISecrets \o CertCheck("mcmui").names,
                  dirs   |-> dirs \o CertCheck("mcmui").dirs,
                  mounts |-> mounts \o CertCheck("mcmui").mounts ]
  IN  Template(
        Append(CommonVolumes(s, "log4js"), CertVolume("mcmui"))
          \o [i \in DOMAIN UISecrets |-> Volume(dirs[i], UISecrets[i])],
        << SecretCheckContainer("dm", s, more), InitContainer("dm", s) >>,
        MainContainer("mcmui", s, <<MongoEnv(s), UIClusterEnv(s, TRUE)>>,
          <<LevelMount("log4js")>> \o CommonMounts \o <<CertMount("mcmui", "certs")>>))

\* The report server mounts the certificate of the API and checks nothing.
ReportTemplate(s) ==
  Template(
    << Volume(Plain("tmp-dir"), NoSecret), CertVolume("reader") >>,
    << >>,
    MainContainer("report", s, << >>,
      << Mount(Plain("tmp-dir"), "tmp", Plain("")), CertMount("reader", "certs") >>))

Wanted(o, s) ==
  CASE o = "dm"     -> DmTemplate(s)
    [] o = "reader" -> ReaderTemplate(s)
    [] o = "sender" -> SenderTemplate(s)
    [] o = "ui"     -> UITemplate(s)
    [] o = "mcmui"  -> McmUITemplate(s)
    [] o = "report" -> ReportTemplate(s)

-----------------------------------------------------------------------------
(* The comparison.                                                         *)

\* Mutant: the variables of a container are not compared.
IsContainerEqualButEnv(old, new) ==
  /\ Len(old) = Len(new)
  /\ \A i \in DOMAIN old :
       /\ old[i].name = new[i].name /\ old[i].image = new[i].image
       /\ old[i].resources = new[i].resources
       /\ old[i].mounts = new[i].mounts

IsContainerEqual(old, new) ==
  /\ Len(old) = Len(new)
  /\ \A i \in DOMAIN old :
       /\ old[i].name = new[i].name /\ old[i].image = new[i].image
       /\ old[i].resources = new[i].resources
       /\ old[i].env = new[i].env
       /\ old[i].mounts = new[i].mounts

IsPodTemplateEqual(old, new) ==
  /\ Len(old.volumes) = Len(new.volumes)
  /\ \A i \in DOMAIN old.volumes : /\ old.volumes[i].name = new.volumes[i].name
                                   /\ old.volumes[i].secret = new.volumes[i].secret
  /\ IsContainerEqual(old.containers, new.containers)
  /\ IsContainerEqual(old.init, new.init)

-----------------------------------------------------------------------------
(* The run.                                                                *)

\* Each mount names a volume, and no container has two mounts at one place.
Consistent(template) ==
  \A c \in Range(template.init) \cup Range(template.containers) :
    /\ \A m \in Range(c.mounts) : \E v \in Range(template.volumes) : v.name = m.volume
    /\ \A i, j \in DOMAIN c.mounts : c.mounts[i].path = c.mounts[j].path => i = j

\* What the API server asks of a template.
Accepted(template) ==
  /\ Consistent(template)
  /\ \A c \in Range(template.containers) : c.resources.request <= c.resources.limit

Init ==
  /\ operand \in Operands /\ release \in Tags \cup Shas
  /\ spec \in Specs
  /\ pods = << >> /\ refused = FALSE
  /\ changes = 1

\* The customer changes the custom resource.
EditSpec ==
  /\ changes < MaxChanges /\ changes' = changes + 1
  /\ spec' \in Specs \ {spec}
  /\ UNCHANGED <<operand, release, pods, refused>>

\* Another version of the operator starts, with other images.
Upgrade ==
  /\ changes < MaxChanges /\ changes' = changes + 1
  /\ release' \in (Tags \cup Shas) \ {release}
  /\ UNCHANGED <<operand, spec, pods, refused>>

\* Somebody changes a part of the template to what other settings ask for; bound:
\* not while the resource is refused.
Tamper ==
  /\ pods # << >> /\ ~refused /\ changes < MaxChanges /\ changes' = changes + 1
  /\ \E s \in Specs :
       LET other == Wanted(operand, s)
       IN  pods' \in { t \in { [pods EXCEPT !.volumes = other.volumes],
                               [pods EXCEPT !.init = other.init],
                               [pods EXCEPT !.containers = other.containers] } : Accepted(t) }
  /\ UNCHANGED <<operand, release, spec, refused>>

\* A run creates the Deployment, or compares and updates it.  It ends with an
\* error, to be repeated, if the API server refuses that.
Reconcile ==
  LET wanted == Wanted(operand, spec)
      equal  == pods # << >> /\ IsPodTemplateEqual(pods, wanted)
  IN  /\ changes > 0 /\ changes' = 0
      /\ refused' = (~equal /\ ~Accepted(wanted))
      /\ pods' = IF equal \/ ~Accepted(wanted) THEN pods ELSE wanted
      /\ UNCHANGED <<operand, release, spec>>

Next == EditSpec \/ Upgrade \/ Tamper \/ Reconcile

Spec == Init /\ [][Next]_vars

-----------------------------------------------------------------------------
(* Properties.                                                             *)

Settled == changes = 0 /\ ~refused

\* The comparison overlooks nothing that depends on the resource or on the
\* release: after a run, the pods are those they ask for, in every part.
AsAsked == Settled => pods = Wanted(operand, spec)

\* "mongoDB contains the password names from the CR": whatever these are, the
\* pods exist and are as asked.
NamesServed == changes = 0 => pods = Wanted(operand, spec)

\* The directories of the secret check that bear no name from the resource.
OwnDirs(o) ==
  { Certificates[c].dir : c \in DOMAIN Certificates \cap {o} }
    \cup IF o = "mcmui" THEN Range(UISecrets) ELSE {}

\* A request above the limit: both given, or one of them and the other's default.
AmountsDisagree(o, s) ==
  \/ s.limit # 0 /\ s.request > s.limit
  \/ s.limit = 0 /\ s.request > DefaultResources[o].limit
  \/ s.limit # 0 /\ s.request = 0 /\ s.limit < DefaultResources[o].request

\* A resource whose amounts agree and that does not rename the secrets of the
\* MongoDB user gets its pods: volumes and mounts, built in different functions,
\* always fit together; but two secrets the check looks at must not have one name.
RefusedForCause ==
  refused /\ changes = 0 =>
    \/ AmountsDisagree(operand, spec)
    \/ /\ operand # "report"
       /\ \/ {spec.user, spec.password} # {"icp-mongodb-admin"}
          \/ spec.ca = spec.client \/ {spec.ca, spec.client} \cap OwnDirs(operand) # {}

\* The directories of the secret check, in which it looks for one secret after
\* the other, are mounts of those secrets; else it waits in vain, or for another.
ChecksTheNamed ==
  Settled /\ operand # "report" =>
    LET check == pods.init[1]
    IN  /\ Len(check.env.names) = Len(check.env.dirs)
        /\ \A i \in DOMAIN check.env.dirs :
             \E m \in Range(check.mounts), v \in Range(pods.volumes) :
               /\ m.path = <<"sec", check.env.dirs[i]>>
               /\ v.name = m.volume /\ v.secret = check.env.names[i]

\* The secrets the main container mounts, or takes variables from.
UsedSecrets ==
  LET main    == pods.containers[1]
      mounted == { v \in Range(pods.volumes) : \E m \in Range(main.mounts) : v.name = m.volume }
  IN  ({ v.secret : v \in mounted } \ {NoSecret})
        \cup {main.env[1].user, main.env[1].password}
        \cup IF operand = "mcmui" THEN Range(main.env[2].secrets) ELSE {}

\* The main container starts only when the secrets it uses are there, but for
\* two that are "read dynamically in the UI container".
WaitsForWhatItUses ==
  Settled /\ operand # "report" => UsedSecrets \subseteq Range(pods.init[1].env.names)

=============================================================================
