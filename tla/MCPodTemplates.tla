---------------------------- MODULE MCPodTemplates ----------------------------
(***************************************************************************)
(* Custom resources for TLC: the usual one, and those that differ from it  *)
(* in one field, in the names of what surrounds the operands, in MongoDB's *)
(* address and keys, or in the two amounts of memory.                      *)
(***************************************************************************)
EXTENDS PodTemplates

Usual ==
  [ receiver |-> FALSE, exclude |-> FALSE, mongo |-> "mongodb", port |-> "27017",
    user |-> "icp-mongodb-admin", userKey |-> "user",
    password |-> "icp-mongodb-admin", passwordKey |-> "password",
    ca |-> "mongodb-root-ca-cert", client |-> "icp-mongodb-client-cert",
    registry |-> "", postfix |-> "", iam |-> "", ingress |-> "", header |-> "", cluster |-> "",
    namespace |-> "", hub |-> "", limit |-> 0, request |-> 0 ]

Different ==
  [ receiver |-> TRUE, exclude |-> TRUE, user |-> "other", password |-> "other",
    ca |-> "other-ca-cert", client |-> "other-client-cert", registry |-> "other",
    postfix |-> "-amd64" ]

Elsewhere ==
  [ Usual EXCEPT !.iam = "other", !.ingress = "other", !.header = "other", !.cluster = "other",
                 !.namespace = "other", !.hub = "other" ]

OtherMongo ==
  [ Usual EXCEPT !.mongo = "other", !.port = "27018", !.userKey = "other", !.passwordKey = "other" ]

\* Amounts below, at and above the defaults, or none; two that are given differ.
Amounts == {0, 90, 900}

\* The last have certificate secrets of one name, or of a name that the reader's
\* secret check gives to a directory.
AllSpecs ==
  { [Usual EXCEPT ![f] = Different[f]] : f \in DOMAIN Different }
    \cup { [Usual EXCEPT !.limit = l, !.request = r] :
             <<l, r>> \in {p \in Amounts \X Amounts : p[1] # p[2] \/ p[1] = 0} }
    \cup { Elsewhere, OtherMongo,
            [Usual EXCEPT !.ca = Usual.client], [Usual EXCEPT !.ca = "metering-api"] }

RenamedSpecs == {Usual, [Usual EXCEPT !.user = "other"]}

=============================================================================
