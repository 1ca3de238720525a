-------------------------- MODULE PodTemplatesProofs --------------------------
(***************************************************************************)
(* The pod templates, whatever the custom resources say and however often  *)
(* they, the release and the templates change.                             *)
(*                                                                         *)
(* The argument.  Templates are records of sequences of records            *)
(* (TemplateTyped), whoever wrote them last, so that two that compare      *)
(* equal are the same.  What is then left to show is about the template    *)
(* that a resource asks for: a fact about the builders, one operand after  *)
(* the other.                                                              *)
(***************************************************************************)
EXTENDS PodTemplates, SequenceTheorems, TLAPS

-----------------------------------------------------------------------------
(* Sequences, whatever their elements.                                     *)

IsSeq(s) == s \in Seq(Range(s))

LEMMA SeqOfAny == ASSUME NEW S, NEW s \in Seq(S) PROVE IsSeq(s)
BY SeqOfRange DEF IsSeq

LEMMA SeqShape ==
  ASSUME NEW s, IsSeq(s)
  PROVE  /\ Len(s) \in Nat /\ DOMAIN s = 1..Len(s)
         /\ \A i \in 1..Len(s) : s[i] \in Range(s)
         /\ \A e \in Range(s) : \E i \in 1..Len(s) : e = s[i]
BY DEF IsSeq, Range

LEMMA SameSeq ==
  ASSUME NEW s, NEW t, IsSeq(s), IsSeq(t), Len(s) = Len(t), \A i \in DOMAIN s : s[i] = t[i]
  PROVE  s = t
<1> DEFINE S == Range(s) \cup Range(t)
<1>1. s \in Seq(S) /\ t \in Seq(S)
  BY DEF IsSeq
<1>2. \A i \in 1..Len(s) : s[i] = t[i]
  BY SeqShape
<1> QED
  BY <1>1, <1>2, SeqEqual

LEMMA Joined ==
  ASSUME NEW s, NEW t, IsSeq(s), IsSeq(t)
  PROVE  /\ IsSeq(s \o t)
         /\ Len(s \o t) = Len(s) + Len(t)
         /\ \A i \in 1..Len(s) : (s \o t)[i] = s[i]
         /\ \A i \in 1..Len(t) : (s \o t)[Len(s) + i] = t[i]
         /\ Range(s \o t) = Range(s) \cup Range(t)
<1> DEFINE S == Range(s) \cup Range(t)
<1>1. s \in Seq(S) /\ t \in Seq(S)
  BY DEF IsSeq
<1>2. s \o t \in Seq(S)
  BY <1>1, ConcatProperties
<1>3. /\ Len(s \o t) = Len(s) + Len(t)
      /\ \A i \in 1..Len(s) + Len(t) : (s \o t)[i] = IF i <= Len(s) THEN s[i] ELSE t[i - Len(s)]
  BY <1>1, ConcatProperties
<1>4. Len(s) \in Nat /\ Len(t) \in Nat
  BY SeqShape
<1>5. \A i \in 1..Len(s) : (s \o t)[i] = s[i]
  BY <1>3, <1>4
<1>6. \A i \in 1..Len(t) : (s \o t)[Len(s) + i] = t[i]
  BY <1>3, <1>4
<1>7. Range(s \o t) = Range(s) \cup Range(t)
  BY <1>1, RangeConcatenation
<1> QED
  BY <1>2, <1>3, <1>5, <1>6, <1>7, SeqOfAny

\* Sequence u is s followed by t.
JoinOf(u, s, t) ==
  /\ IsSeq(u) /\ Len(u) = Len(s) + Len(t)
  /\ \A i \in 1..Len(s) : u[i] = s[i]
  /\ \A i \in 1..Len(t) : u[Len(s) + i] = t[i]
  /\ Range(u) = Range(s) \cup Range(t)

LEMMA JoinedAs ==
  ASSUME NEW s, NEW t, IsSeq(s), IsSeq(t), NEW u, u = s \o t
  PROVE  JoinOf(u, s, t)
BY Joined DEF JoinOf

LEMMA Halves ==
  ASSUME NEW m \in Nat, NEW n \in Nat, NEW j \in 1..(m + n)
  PROVE  j \in 1..m \/ \E i \in 1..n : j = m + i
<1>1. CASE j > m
  <2>1. (j - m) \in 1..n /\ j = m + (j - m)
    BY <1>1
  <2> QED
    BY <2>1
<1> QED
  BY <1>1

LEMMA Appended ==
  ASSUME NEW s, NEW e, IsSeq(s)
  PROVE  IsSeq(Append(s, e)) /\ Range(Append(s, e)) = Range(s) \cup {e}
<1> DEFINE S == Range(s) \cup {e}
<1>1. s \in Seq(S) /\ e \in S
  BY DEF IsSeq
<1>2. /\ Append(s, e) \in Seq(S) /\ Len(Append(s, e)) = Len(s) + 1 /\ Len(s) \in Nat
      /\ \A i \in 1..Len(s) : Append(s, e)[i] = s[i]
      /\ Append(s, e)[Len(s) + 1] = e
  BY <1>1, AppendProperties
<1>3. Range(Append(s, e)) = {Append(s, e)[i] : i \in 1..Len(s) + 1}
  BY <1>2, SeqShape, SeqOfAny DEF Range
<1>4. Range(s) = {s[i] : i \in 1..Len(s)}
  BY SeqShape DEF Range
<1>5. Range(Append(s, e)) = Range(s) \cup {e}
  BY <1>2, <1>3, <1>4
<1> QED
  BY <1>2, <1>5, SeqOfAny

LEMMA Literal0 == IsSeq(<< >>) /\ Range(<< >>) = {} /\ Len(<< >>) = 0
BY DEF IsSeq, Range

LEMMA Literal1 ==
  ASSUME NEW a PROVE IsSeq(<<a>>) /\ Range(<<a>>) = {a} /\ Len(<<a>>) = 1
BY DEF IsSeq, Range

LEMMA Literal2 ==
  ASSUME NEW a, NEW b
  PROVE  IsSeq(<<a, b>>) /\ Range(<<a, b>>) = {a, b} /\ Len(<<a, b>>) = 2
BY DEF IsSeq, Range

LEMMA Pair ==
  ASSUME NEW a, NEW b, NEW q, q = <<a, b>>
  PROVE  IsSeq(q) /\ Range(q) = {a, b} /\ Len(q) = 2 /\ q[1] = a /\ q[2] = b
BY Literal2

LEMMA Literal4 ==
  ASSUME NEW a, NEW b, NEW c, NEW d
  PROVE  /\ IsSeq(<<a, b, c, d>>) /\ Range(<<a, b, c, d>>) = {a, b, c, d}
         /\ Len(<<a, b, c, d>>) = 4
BY DEF IsSeq, Range

LEMMA Literal5 ==
  ASSUME NEW a, NEW b, NEW c, NEW d, NEW e
  PROVE  /\ IsSeq(<<a, b, c, d, e>>) /\ Range(<<a, b, c, d, e>>) = {a, b, c, d, e}
         /\ Len(<<a, b, c, d, e>>) = 5
BY DEF IsSeq, Range

-----------------------------------------------------------------------------
(* The shape of templates.                                                 *)

VolumeTyped(v) == v = [name |-> v.name, secret |-> v.secret]

ContainerTyped(c) ==
  c = [ name |-> c.name, image |-> c.image, resources |-> c.resources, env |-> c.env,
        mounts |-> c.mounts ]

VolumesTyped(vs) == IsSeq(vs) /\ \A v \in Range(vs) : VolumeTyped(v)
ContainersTyped(cs) == IsSeq(cs) /\ \A c \in Range(cs) : ContainerTyped(c)

TemplateTyped(t) ==
  /\ t = [volumes |-> t.volumes, init |-> t.init, containers |-> t.containers]
  /\ VolumesTyped(t.volumes) /\ ContainersTyped(t.init) /\ ContainersTyped(t.containers)

LEMMA SameContainers ==
  ASSUME NEW old, NEW new, ContainersTyped(old), ContainersTyped(new), IsContainerEqual(old, new)
  PROVE  old = new
<1>1. Len(old) = Len(new) /\ DOMAIN old = 1..Len(old)
  BY SeqShape DEF ContainersTyped, IsContainerEqual
<1>2. ASSUME NEW i \in DOMAIN old PROVE old[i] = new[i]
  <2>1. ContainerTyped(old[i]) /\ ContainerTyped(new[i])
    BY <1>1, SeqShape DEF ContainersTyped
  <2>2. /\ old[i].name = new[i].name /\ old[i].image = new[i].image
        /\ old[i].resources = new[i].resources /\ old[i].env = new[i].env
        /\ old[i].mounts = new[i].mounts
    BY DEF IsContainerEqual
  <2> QED
    BY <2>1, <2>2 DEF ContainerTyped
<1> QED
  BY <1>1, <1>2, SameSeq DEF ContainersTyped

\* The comparison overlooks nothing.
LEMMA EqualIsSame ==
  ASSUME NEW old, NEW new, TemplateTyped(old), TemplateTyped(new), IsPodTemplateEqual(old, new)
  PROVE  old = new
<1>1. old.volumes = new.volumes
  <2>1. /\ VolumesTyped(old.volumes) /\ VolumesTyped(new.volumes)
        /\ Len(old.volumes) = Len(new.volumes)
    BY DEF TemplateTyped, IsPodTemplateEqual
  <2>2. ASSUME NEW i \in DOMAIN old.volumes PROVE old.volumes[i] = new.volumes[i]
    <3>1. VolumeTyped(old.volumes[i]) /\ VolumeTyped(new.volumes[i])
      BY <2>1, SeqShape DEF VolumesTyped
    <3>2. /\ old.volumes[i].name = new.volumes[i].name
          /\ old.volumes[i].secret = new.volumes[i].secret
      BY DEF IsPodTemplateEqual
    <3> QED
      BY <3>1, <3>2 DEF VolumeTyped
  <2> QED
    BY <2>1, <2>2, SameSeq DEF VolumesTyped
<1>2. old.init = new.init /\ old.containers = new.containers
  BY SameContainers DEF TemplateTyped, IsPodTemplateEqual
<1> QED
  BY <1>1, <1>2 DEF TemplateTyped

-----------------------------------------------------------------------------
(* The shape of what is built.                                             *)

LEMMA VolumeShape ==
  ASSUME NEW name, NEW secret
  PROVE  /\ VolumeTyped(Volume(name, secret))
         /\ Volume(name, secret).name = name /\ Volume(name, secret).secret = secret
BY DEF VolumeTyped, Volume

LEMMA CommonVolumesShape ==
  ASSUME NEW s, NEW level
  PROVE  /\ VolumesTyped(CommonVolumes(s, level))
         /\ Range(CommonVolumes(s, level)) =
              { Volume(Plain("mongodb-ca-cert"), s.ca),
                Volume(Plain("mongodb-client-cert"), s.client),
                Volume(<<"muser", "icp-mongodb-admin">>, s.user),
                Volume(<<"mpass", "icp-mongodb-admin">>, s.password),
                Volume(Plain(level), NoSecret) }
BY Literal5, VolumeShape DEF CommonVolumes, VolumesTyped

\* Volumes with some more at the end.
LEMMA MoreVolumes ==
  ASSUME NEW vs, VolumesTyped(vs), NEW v, VolumeTyped(v), NEW ws, VolumesTyped(ws)
  PROVE  VolumesTyped(Append(vs, v)) /\ VolumesTyped(vs \o ws) /\ VolumesTyped(<<v>>)
<1>1. IsSeq(<<v>>) /\ Range(<<v>>) = {v}
  BY Literal1
<1> QED
  BY <1>1, Appended, Joined DEF VolumesTyped

LEMMA TwoContainers ==
  ASSUME NEW a, NEW b, ContainerTyped(a), ContainerTyped(b)
  PROVE  ContainersTyped(<<a, b>>) /\ ContainersTyped(<<a>>) /\ ContainersTyped(<< >>)
BY Literal0, Literal1, Literal2 DEF ContainersTyped

LEMMA ContainerShape ==
  ASSUME NEW o, NEW image, NEW s, NEW more, NEW env, NEW mounts
  PROVE  /\ ContainerTyped(SecretCheckContainer(image, s, more))
         /\ ContainerTyped(InitContainer(image, s))
         /\ ContainerTyped(MainContainer(o, s, env, mounts))
<1>1. ContainerTyped(SecretCheckContainer(image, s, more))
  BY DEF ContainerTyped, SecretCheckContainer
<1>2. ContainerTyped(InitContainer(image, s))
  BY DEF ContainerTyped, InitContainer
<1>3. ContainerTyped(MainContainer(o, s, env, mounts))
  BY DEF ContainerTyped, MainContainer
<1> QED
  BY <1>1, <1>2, <1>3

LEMMA OtherImage ==
  ASSUME NEW c, ContainerTyped(c), NEW image, NEW env
  PROVE  ContainerTyped([c EXCEPT !.image = image]) /\ ContainerTyped([c EXCEPT !.env = env])
BY DEF ContainerTyped

LEMMA TemplateShape ==
  ASSUME NEW vs, NEW is, NEW main, VolumesTyped(vs), ContainersTyped(is), ContainerTyped(main)
  PROVE  TemplateTyped(Template(vs, is, main))
<1>1. ContainersTyped(<<main>>)
  BY TwoContainers
<1> QED
  BY <1>1 DEF TemplateTyped, Template

\* The operands, each with its builder.
LEMMA WantedIs ==
  ASSUME NEW s
  PROVE  /\ Wanted("dm", s) = DmTemplate(s) /\ Wanted("reader", s) = ReaderTemplate(s)
         /\ Wanted("sender", s) = SenderTemplate(s) /\ Wanted("ui", s) = UITemplate(s)
         /\ Wanted("mcmui", s) = McmUITemplate(s) /\ Wanted("report", s) = ReportTemplate(s)
BY Zenon DEF Wanted

\* The volumes of the secrets that the multicloud UI takes variables from.
SecretVolumes == [i \in DOMAIN UISecrets |-> Volume(Plain(UISecrets[i]), UISecrets[i])]

LEMMA SecretVolumesShape ==
  VolumesTyped(SecretVolumes)
<1>1. SecretVolumes \in Seq({Volume(Plain(x), x) : x \in Range(UISecrets)})
  BY DEF SecretVolumes, UISecrets, Range
<1>2. IsSeq(SecretVolumes)
  BY <1>1, SeqOfAny
<1>3. \A v \in Range(SecretVolumes) : VolumeTyped(v)
  BY VolumeShape DEF SecretVolumes, Range
<1> QED
  BY <1>2, <1>3 DEF VolumesTyped

LEMMA WantedTyped ==
  ASSUME NEW o \in {"dm", "reader", "sender", "ui", "mcmui", "report"}, NEW s
  PROVE  TemplateTyped(Wanted(o, s))
<1>1. \A c : VolumeTyped(CertVolume(c))
  BY VolumeShape DEF CertVolume
<1>2. VolumesTyped(<< >>)
  BY Literal0 DEF VolumesTyped
<1>3. \A image, more : ContainersTyped(<<SecretCheckContainer(image, s, more), InitContainer(image, s)>>)
  BY TwoContainers, ContainerShape
<1>4. CASE o = "dm"
  <2>1. DmTemplate(s).volumes = CommonVolumes(s, "loglevel") \o
          IF s.receiver THEN <<CertVolume("dm")>> ELSE << >>
    BY DEF DmTemplate, Template
  <2>2. VolumesTyped(IF s.receiver THEN <<CertVolume("dm")>> ELSE << >>)
    BY <1>1, <1>2, MoreVolumes
  <2>3. VolumesTyped(CommonVolumes(s, "loglevel") \o
                       IF s.receiver THEN <<CertVolume("dm")>> ELSE << >>)
    BY <1>1, <2>2, CommonVolumesShape, MoreVolumes
  <2> QED
    BY <1>3, <1>4, <2>3, ContainerShape, TemplateShape, WantedIs DEF DmTemplate
<1>5. CASE o = "reader"
  <2>1. VolumesTyped(Append(CommonVolumes(s, "loglevel"), CertVolume("reader")))
    BY <1>1, <1>2, CommonVolumesShape, MoreVolumes
  <2>2. PICK main : main = MainContainer("reader", s, <<MongoEnv(s), CommonClusterEnv(s), s.exclude>>,
                             <<CertMount("reader", "certs"), LevelMount("loglevel")>> \o CommonMounts)
    OBVIOUS
  <2>3. ContainerTyped([main EXCEPT !.image = ImageID("dm", s)])
    BY <2>2, ContainerShape, OtherImage
  <2> QED
    <3>1. ReaderTemplate(s) =
            Template(Append(CommonVolumes(s, "loglevel"), CertVolume("reader")),
                     <<SecretCheckContainer("dm", s, CertCheck("reader")), InitContainer("dm", s)>>,
                     [main EXCEPT !.image = ImageID("dm", s)])
      BY <2>2, Zenon DEF ReaderTemplate
    <3> QED
      BY <1>3, <1>5, <2>1, <2>3, <3>1, TemplateShape, WantedIs
<1>6. CASE o = "sender"
  <2>1. PICK check : check = SecretCheckContainer("dm", s, NothingMore)
    OBVIOUS
  <2>2. ContainerTyped([check EXCEPT !.env = [names |-> @.names, dirs |-> @.dirs, hub |-> s.hub]])
    BY <2>1, ContainerShape, OtherImage
  <2>3. ContainersTyped(
          << [check EXCEPT !.env = [names |-> @.names, dirs |-> @.dirs, hub |-> s.hub]],
             InitContainer("dm", s) >>)
    BY <2>2, ContainerShape, TwoContainers
  <2>4. PICK main : main = MainContainer("sender", s, <<MongoEnv(s), SenderClusterEnv(s)>>,
                             <<LevelMount("loglevel")>> \o CommonMounts)
    OBVIOUS
  <2>5. ContainerTyped([main EXCEPT !.image = ImageID("dm", s)])
    BY <2>4, ContainerShape, OtherImage
  <2> QED
    <3>1. SenderTemplate(s) =
            Template(CommonVolumes(s, "loglevel"),
                     << [check EXCEPT !.env = [names |-> @.names, dirs |-> @.dirs, hub |-> s.hub]],
                        InitContainer("dm", s) >>,
                     [main EXCEPT !.image = ImageID("dm", s)])
      BY <2>1, <2>4, Zenon DEF SenderTemplate
    <3> QED
      BY <1>6, <2>3, <2>5, <3>1, CommonVolumesShape, TemplateShape, WantedIs
<1>7. CASE o = "ui"
  <2>1. VolumesTyped(Append(CommonVolumes(s, "loglevel"), CertVolume("ui")))
    BY <1>1, <1>2, CommonVolumesShape, MoreVolumes
  <2> QED
    BY <1>3, <1>7, <2>1, ContainerShape, TemplateShape, WantedIs DEF UITemplate
<1>8. CASE o = "mcmui"
  <2>1. VolumesTyped(Append(CommonVolumes(s, "log4js"), CertVolume("mcmui")) \o SecretVolumes)
    BY <1>1, <1>2, CommonVolumesShape, MoreVolumes, SecretVolumesShape
  <2> QED
    BY <1>3, <1>8, <2>1, ContainerShape, TemplateShape, WantedIs DEF McmUITemplate, SecretVolumes
<1>9. CASE o = "report"
  <2>1. VolumesTyped(<<Volume(Plain("tmp-dir"), NoSecret), CertVolume("reader")>>)
    BY <1>1, Literal2, VolumeShape DEF VolumesTyped
  <2> QED
    BY <1>9, <2>1, ContainerShape, TemplateShape, TwoContainers, WantedIs DEF ReportTemplate
<1> QED
  BY <1>4, <1>5, <1>6, <1>7, <1>8, <1>9

-----------------------------------------------------------------------------
(* The invariant.                                                          *)

TypeInv ==
  /\ operand \in {"dm", "reader", "sender", "ui", "mcmui", "report"}
  /\ spec \in Specs /\ changes \in Nat
  /\ pods = << >> \/ TemplateTyped(pods)

\* What the API server refused is what the resource still asks for.
RefusedInv == refused /\ changes = 0 => ~Accepted(Wanted(operand, spec))

\* Whoever wrote the template, the API server accepted it.
AcceptedInv == pods # << >> => Accepted(pods)

Inv == TypeInv /\ AsAsked /\ RefusedInv /\ AcceptedInv

\* What is asked for depends on the operand, the resource and the release.
LEMMA SameTemplate ==
  ASSUME release' = release, NEW o, NEW s
  PROVE  Wanted(o, s)' = Wanted(o, s)
<1>1. \A n : ImageID(n, s)' = ImageID(n, s)
  BY DEF ImageID
<1>2. \A n : InitContainer(n, s)' = InitContainer(n, s)
  BY <1>1, Zenon DEF InitContainer
<1>3. \A n, more : SecretCheckContainer(n, s, more)' = SecretCheckContainer(n, s, more)
  BY <1>1, Zenon DEF SecretCheckContainer
<1>4. \A n, e, m : MainContainer(n, s, e, m)' = MainContainer(n, s, e, m)
  BY <1>1, Zenon DEF MainContainer
<1>5. DmTemplate(s)' = DmTemplate(s)
  BY <1>1, <1>2, <1>3, <1>4, Zenon DEF DmTemplate
<1>6. ReaderTemplate(s)' = ReaderTemplate(s)
  BY <1>1, <1>2, <1>3, <1>4, Zenon DEF ReaderTemplate
<1>7. SenderTemplate(s)' = SenderTemplate(s)
  BY <1>1, <1>2, <1>3, <1>4, Zenon DEF SenderTemplate
<1>8. UITemplate(s)' = UITemplate(s)
  BY <1>1, <1>2, <1>3, <1>4, Zenon DEF UITemplate
<1>9. McmUITemplate(s)' = McmUITemplate(s)
  BY <1>1, <1>2, <1>3, <1>4, Zenon DEF McmUITemplate
<1>10. ReportTemplate(s)' = ReportTemplate(s)
  BY <1>1, <1>2, <1>3, <1>4, Zenon DEF ReportTemplate
<1> QED
  BY <1>5, <1>6, <1>7, <1>8, <1>9, <1>10, Zenon DEF Wanted

LEMMA SameWanted ==
  ASSUME UNCHANGED <<operand, spec, release>>
  PROVE  /\ Wanted(operand, spec)' = Wanted(operand, spec)
         /\ Accepted(Wanted(operand, spec))' <=> Accepted(Wanted(operand, spec))
<1>1. PICK o, s : o = operand /\ s = spec
  OBVIOUS
<1>2. Wanted(operand, spec) = Wanted(o, s)
  BY <1>1
<1>3. Wanted(operand, spec)' = Wanted(o, s)'
  BY <1>1
<1>4. Wanted(operand, spec)' = Wanted(operand, spec)
  BY <1>2, <1>3, SameTemplate
<1>5. PICK w : w = Wanted(operand, spec)
  OBVIOUS
<1>6. (Accepted(Wanted(operand, spec)) <=> Accepted(w)) /\ (Accepted(Wanted(operand, spec))' <=> Accepted(w))
  BY <1>4, <1>5
<1> QED
  BY <1>4, <1>6

LEMMA TamperTyped == TypeInv /\ Tamper => TypeInv'
<1> SUFFICES ASSUME TypeInv, Tamper PROVE TypeInv'
  OBVIOUS
<1>1. PICK s \in Specs :
        \/ pods' = [pods EXCEPT !.volumes = Wanted(operand, s).volumes]
        \/ pods' = [pods EXCEPT !.init = Wanted(operand, s).init]
        \/ pods' = [pods EXCEPT !.containers = Wanted(operand, s).containers]
  BY DEF Tamper
<1>2. TemplateTyped(pods) /\ TemplateTyped(Wanted(operand, s))
  BY WantedTyped DEF TypeInv, Tamper
<1>3. TemplateTyped(pods')
  BY <1>1, <1>2 DEF TemplateTyped
<1> QED
  BY <1>3, PodsAssumption DEF TypeInv, Tamper

LEMMA ReconcileInv == Inv /\ Reconcile => Inv'
<1> SUFFICES ASSUME Inv, Reconcile PROVE Inv'
  OBVIOUS
<1> DEFINE wanted == Wanted(operand, spec)
           equal == pods # << >> /\ IsPodTemplateEqual(pods, wanted)
<1>1. TemplateTyped(wanted)
  BY WantedTyped DEF Inv, TypeInv
<1>2. /\ operand' = operand /\ spec' = spec /\ changes' = 0
      /\ refused' = (~equal /\ ~Accepted(wanted))
      /\ pods' = IF equal \/ ~Accepted(wanted) THEN pods ELSE wanted
  BY DEF Reconcile
<1>3. /\ Wanted(operand, spec)' = Wanted(operand, spec)
      /\ Accepted(Wanted(operand, spec))' <=> Accepted(Wanted(operand, spec))
  BY SameWanted DEF Reconcile
<1>4. equal => pods = wanted
  BY <1>1, EqualIsSame DEF Inv, TypeInv
<1>5. TypeInv'
  BY <1>1, <1>2 DEF Inv, TypeInv
<1>6. AsAsked'
  BY <1>2, <1>3, <1>4 DEF AsAsked, Settled
<1>7. RefusedInv'
  BY <1>2, <1>3 DEF RefusedInv
<1>8. AcceptedInv'
  <2>1. pods' = pods \/ (pods' = wanted /\ Accepted(wanted))
    BY <1>2
  <2>2. PICK p, q : p = pods' /\ q = wanted
    OBVIOUS
  <2>3. pods' = q /\ Accepted(q) => AcceptedInv'
    BY DEF AcceptedInv
  <2>4. pods' = pods => AcceptedInv'
    BY DEF Inv, AcceptedInv
  <2>5. Accepted(wanted) <=> Accepted(q)
    BY <2>2
  <2> QED
    BY <2>1, <2>2, <2>3, <2>4, <2>5
<1> QED
  BY <1>5, <1>6, <1>7, <1>8 DEF Inv

LEMMA InvInductive == Inv /\ [Next]_vars => Inv'
<1> SUFFICES ASSUME Inv, [Next]_vars PROVE Inv'
  OBVIOUS
<1>1. CASE EditSpec
  BY <1>1, PodsAssumption DEF EditSpec, Inv, TypeInv, AsAsked, RefusedInv, AcceptedInv, Settled
<1>2. CASE Upgrade
  BY <1>2, PodsAssumption DEF Upgrade, Inv, TypeInv, AsAsked, RefusedInv, AcceptedInv, Settled
<1>3. CASE Tamper
  <2>1. TypeInv' /\ changes' # 0
    BY <1>3, TamperTyped DEF Tamper, Inv, TypeInv
  <2>2. Accepted(pods')
    BY <1>3 DEF Tamper
  <2> QED
    BY <2>1, <2>2 DEF Inv, AsAsked, RefusedInv, AcceptedInv, Settled
<1>4. CASE Reconcile
  BY <1>4, ReconcileInv
<1>5. CASE UNCHANGED vars
  <2>1. UNCHANGED <<operand, spec, release, pods, refused, changes>>
    BY <1>5 DEF vars
  <2> QED
    BY <2>1, SameWanted DEF Inv, TypeInv, AsAsked, RefusedInv, AcceptedInv, Settled
<1> QED
  BY <1>1, <1>2, <1>3, <1>4, <1>5 DEF Next

\* Templates keep their shape and are accepted ones, are as asked when all is
\* settled, and a run failed only if what the resource asks for is not accepted.
THEOREM InvCorrect == Spec => []Inv
<1>1. Init => Inv
  BY PodsAssumption DEF Init, Inv, TypeInv, AsAsked, RefusedInv, AcceptedInv, Settled
<1> QED
  BY <1>1, InvInductive, PTL DEF Spec

\* After a run that is not refused, the pods are those the resource and the
\* release ask for, in every part.
THEOREM AsAskedCorrect == Spec => []AsAsked
<1>1. Inv => AsAsked
  BY DEF Inv
<1> QED
  BY <1>1, InvCorrect, PTL

-----------------------------------------------------------------------------
(* The secret check.                                                       *)

BaseNames(s) == <<s.user, s.password, s.ca, s.client>>
BaseDirs(s) == << <<"muser", s.user>>, <<"mpass", s.password>>, Plain(s.ca), Plain(s.client) >>
BaseMounts(s) ==
  << Mount(Plain("mongodb-ca-cert"), "sec", Plain(s.ca)),
     Mount(Plain("mongodb-client-cert"), "sec", Plain(s.client)),
     Mount(<<"muser", s.user>>, "sec", <<"muser", s.user>>),
     Mount(<<"mpass", s.password>>, "sec", <<"mpass", s.password>>) >>

\* Container c is given the secrets of MongoDB and more.
Checks(c, s, more) ==
  /\ c.env.names = BaseNames(s) \o more.names
  /\ c.env.dirs = BaseDirs(s) \o more.dirs
  /\ c.mounts = BaseMounts(s) \o more.mounts

LEMMA MountShape ==
  ASSUME NEW volume, NEW area, NEW dir
  PROVE  Mount(volume, area, dir).volume = volume /\ Mount(volume, area, dir).path = <<area, dir>>
BY DEF Mount

LEMMA CheckIs ==
  ASSUME NEW image, NEW s, NEW more
  PROVE  Checks(SecretCheckContainer(image, s, more), s, more)
BY DEF Checks, SecretCheckContainer, BaseNames, BaseDirs, BaseMounts

LEMMA BaseShape ==
  ASSUME NEW s
  PROVE  /\ IsSeq(BaseNames(s)) /\ IsSeq(BaseDirs(s)) /\ IsSeq(BaseMounts(s))
         /\ Len(BaseNames(s)) = 4 /\ Len(BaseDirs(s)) = 4 /\ Len(BaseMounts(s)) = 4
         /\ Range(BaseNames(s)) = {s.user, s.password, s.ca, s.client}
         /\ Range(BaseMounts(s)) =
              { Mount(Plain("mongodb-ca-cert"), "sec", Plain(s.ca)),
                Mount(Plain("mongodb-client-cert"), "sec", Plain(s.client)),
                Mount(<<"muser", s.user>>, "sec", <<"muser", s.user>>),
                Mount(<<"mpass", s.password>>, "sec", <<"mpass", s.password>>) }
BY Literal4 DEF BaseNames, BaseDirs, BaseMounts

\* Mounts at different places.
Clean(s) == IsSeq(s) /\ \A i, j \in DOMAIN s : s[i].path = s[j].path => i = j

LEMMA CleanJoined ==
  ASSUME NEW s, NEW t, Clean(s), Clean(t),
         \A m \in Range(s), n \in Range(t) : m.path # n.path
  PROVE  Clean(s \o t)
<1>1. IsSeq(s) /\ IsSeq(t) /\ IsSeq(s \o t) /\ Len(s) \in Nat /\ Len(t) \in Nat
  BY Joined, SeqShape DEF Clean
<1>2. DOMAIN (s \o t) = 1..(Len(s) + Len(t)) /\ DOMAIN s = 1..Len(s) /\ DOMAIN t = 1..Len(t)
  BY <1>1, Joined, SeqShape
<1>3. ASSUME NEW i \in 1..(Len(s) + Len(t))
      PROVE  \/ i \in 1..Len(s) /\ (s \o t)[i] = s[i] /\ s[i] \in Range(s)
             \/ /\ i - Len(s) \in 1..Len(t) /\ (s \o t)[i] = t[i - Len(s)]
                /\ t[i - Len(s)] \in Range(t)
  <2>1. CASE i \in 1..Len(s)
    BY <1>1, <2>1, Joined, SeqShape
  <2>2. CASE i - Len(s) \in 1..Len(t)
    <3>1. i = Len(s) + (i - Len(s))
      BY <1>1
    <3> QED
      BY <1>1, <2>2, <3>1, Joined, SeqShape
  <2> QED
    BY <1>1, <2>1, <2>2
<1>4. ASSUME NEW i \in 1..(Len(s) + Len(t)), NEW j \in 1..(Len(s) + Len(t)),
             (s \o t)[i].path = (s \o t)[j].path
      PROVE  i = j
  BY <1>1, <1>2, <1>3, <1>4, SMTT(30) DEF Clean
<1> QED
  BY <1>1, <1>2, <1>4 DEF Clean

LEMMA CleanLiterals ==
  ASSUME NEW a, NEW b
  PROVE  Clean(<< >>) /\ Clean(<<a>>) /\ (a.path # b.path => Clean(<<a, b>>))
BY Literal0, Literal1, Literal2 DEF Clean

LEMMA CleanFour ==
  ASSUME NEW a, NEW b, NEW c, NEW d, a.path # b.path, a.path # c.path, a.path # d.path,
         b.path # c.path, b.path # d.path, c.path # d.path
  PROVE  Clean(<<a, b, c, d>>)
BY Literal4 DEF Clean

LEMMA Names ==
  ASSUME NEW x, NEW y
  PROVE  /\ Plain(x) = Plain(y) => x = y
         /\ Plain(x) # <<"muser", y>> /\ Plain(x) # <<"mpass", y>>
         /\ <<"muser", x>> # <<"mpass", y>>
         /\ <<"muser", x>> = <<"muser", y>> => x = y
         /\ <<"mpass", x>> = <<"mpass", y>> => x = y
BY DEF Plain

LEMMA Places ==
  ASSUME NEW x, NEW y
  PROVE  /\ <<"sec", x>> = <<"sec", y>> => x = y
         /\ <<"certs", x>> = <<"certs", y>> => x = y
         /\ <<"etc", x>> # <<"certs", y>> /\ <<"tmp", x>> # <<"certs", y>>
OBVIOUS

-----------------------------------------------------------------------------
(* The parts of a template.                                                *)

HasCert(o, s) == o \in DOMAIN Certificates /\ (o = "dm" => s.receiver)

SecretDirs == [i \in DOMAIN UISecrets |-> Plain(UISecrets[i])]
SecretMounts == [i \in DOMAIN UISecrets |-> Mount(SecretDirs[i], "sec", SecretDirs[i])]

\* What the secret check of an operand is given besides the secrets of MongoDB.
McmMore ==
  [ names  |-> UISecrets \o CertCheck("mcmui").names,
    dirs   |-> SecretDirs \o CertCheck("mcmui").dirs,
    mounts |-> SecretMounts \o CertCheck("mcmui").mounts ]
MoreOf(o, s) ==
  IF o = "mcmui" THEN McmMore ELSE IF HasCert(o, s) THEN CertCheck(o) ELSE NothingMore

\* The volumes it has besides the common ones.
ExtraOf(o, s) ==
  (IF HasCert(o, s) THEN {CertVolume(o)} ELSE {})
    \cup (IF o = "mcmui" THEN Range(SecretVolumes) ELSE {})

LevelOf(o) == IF o = "mcmui" THEN "log4js" ELSE "loglevel"

\* A directory in which a check looks is the mount of a volume with the secret.
Shown(mounts, volumes, dir, name) ==
  \E m \in Range(mounts), v \in volumes :
    m.path = <<"sec", dir>> /\ v.name = m.volume /\ v.secret = name

\* What a check is given fits together, and is in the volumes.
Fits(more, volumes, dirs) ==
  /\ IsSeq(more.names) /\ IsSeq(more.dirs) /\ Clean(more.mounts)
  /\ Len(more.names) = Len(more.dirs)
  /\ \A j \in 1..Len(more.dirs) : Shown(more.mounts, volumes, more.dirs[j], more.names[j])
  /\ \A m \in Range(more.mounts) : /\ \E v \in volumes : v.name = m.volume
                                   /\ \E d \in dirs : m.path = <<"sec", Plain(d)>>
  /\ \A v \in volumes : v.secret \in Range(more.names) /\ \E x : v.name = Plain(x)

LEMMA NothingFits == ASSUME NEW dirs PROVE Fits(NothingMore, {}, dirs)
<1>1. /\ NothingMore.names = << >> /\ NothingMore.dirs = << >> /\ NothingMore.mounts = << >>
  BY DEF NothingMore
<1>2. /\ IsSeq(NothingMore.names) /\ IsSeq(NothingMore.dirs) /\ Clean(NothingMore.mounts)
      /\ Range(NothingMore.mounts) = {} /\ Len(NothingMore.names) = 0 /\ Len(NothingMore.dirs) = 0
  BY <1>1, Literal0, CleanLiterals, Zenon
<1> QED
  BY <1>2 DEF Fits

LEMMA CertVolumeIs ==
  ASSUME NEW o
  PROVE  /\ CertVolume(o).name = Plain(Certificates[o].volume)
         /\ CertVolume(o).secret = Certificates[o].secret
         /\ \A area : /\ CertMount(o, area).volume = Plain(Certificates[o].volume)
                      /\ CertMount(o, area).path = <<area, Plain(Certificates[o].dir)>>
BY VolumeShape, MountShape DEF CertVolume, CertMount

LEMMA CertFits ==
  ASSUME NEW o, NEW dirs, Certificates[o].dir \in dirs
  PROVE  Fits(CertCheck(o), {CertVolume(o)}, dirs)
<1>1. /\ CertCheck(o).names = <<Certificates[o].secret>>
      /\ CertCheck(o).dirs = <<Plain(Certificates[o].dir)>>
      /\ CertCheck(o).mounts = <<CertMount(o, "sec")>>
  BY DEF CertCheck
<1>2. /\ IsSeq(CertCheck(o).names) /\ IsSeq(CertCheck(o).dirs) /\ Clean(CertCheck(o).mounts)
      /\ Len(CertCheck(o).names) = 1 /\ Len(CertCheck(o).dirs) = 1
      /\ Range(CertCheck(o).mounts) = {CertMount(o, "sec")}
      /\ Range(CertCheck(o).names) = {Certificates[o].secret}
  BY <1>1, Literal1, CleanLiterals, Zenon
<1>3. /\ CertCheck(o).dirs[1] = Plain(Certificates[o].dir)
      /\ CertCheck(o).names[1] = Certificates[o].secret
  BY <1>1
<1> QED
  BY <1>2, <1>3, CertVolumeIs DEF Fits, Shown

\* The secrets that the multicloud UI takes variables from.
LEMMA SecretsAre ==
  LET a == UISecrets[1]
      b == UISecrets[2]
  IN  /\ a # b /\ UISecrets = <<a, b>>
      /\ SecretDirs = <<Plain(a), Plain(b)>>
      /\ SecretMounts = <<Mount(Plain(a), "sec", Plain(a)), Mount(Plain(b), "sec", Plain(b))>>
      /\ SecretVolumes = <<Volume(Plain(a), a), Volume(Plain(b), b)>>
<1>1. DOMAIN UISecrets = 1..2 /\ UISecrets[1] # UISecrets[2] /\ UISecrets = <<UISecrets[1], UISecrets[2]>>
  BY DEF UISecrets
<1>2. SecretDirs = <<Plain(UISecrets[1]), Plain(UISecrets[2])>>
  BY <1>1 DEF SecretDirs
<1>3. SecretMounts = << Mount(Plain(UISecrets[1]), "sec", Plain(UISecrets[1])),
                        Mount(Plain(UISecrets[2]), "sec", Plain(UISecrets[2])) >>
  BY <1>1, <1>2 DEF SecretMounts
<1>4. SecretVolumes = << Volume(Plain(UISecrets[1]), UISecrets[1]),
                         Volume(Plain(UISecrets[2]), UISecrets[2]) >>
  BY <1>1 DEF SecretVolumes
<1> QED
  BY <1>1, <1>2, <1>3, <1>4

LEMMA SecretsFit ==
  ASSUME NEW more, NEW dirs, Range(UISecrets) \subseteq dirs,
         more.names = UISecrets, more.dirs = SecretDirs, more.mounts = SecretMounts
  PROVE  Fits(more, Range(SecretVolumes), dirs)
<1>1. PICK a, b : a = UISecrets[1] /\ b = UISecrets[2]
  OBVIOUS
<1>2. PICK m, n : m = Mount(Plain(a), "sec", Plain(a)) /\ n = Mount(Plain(b), "sec", Plain(b))
  OBVIOUS
<1>3. PICK v, w : v = Volume(Plain(a), a) /\ w = Volume(Plain(b), b)
  OBVIOUS
<1>4. /\ a # b /\ more.names = <<a, b>> /\ more.dirs = <<Plain(a), Plain(b)>>
      /\ more.mounts = <<m, n>> /\ SecretVolumes = <<v, w>>
  BY <1>1, <1>2, <1>3, SecretsAre, Zenon
<1>5. /\ m.path = <<"sec", Plain(a)>> /\ m.volume = Plain(a)
      /\ n.path = <<"sec", Plain(b)>> /\ n.volume = Plain(b)
      /\ v.name = Plain(a) /\ v.secret = a /\ w.name = Plain(b) /\ w.secret = b
  BY <1>2, <1>3, MountShape, VolumeShape
<1>6. m.path # n.path
  BY <1>4, <1>5, Names, Places
<1>7. /\ IsSeq(more.names) /\ IsSeq(more.dirs) /\ Clean(more.mounts)
      /\ Len(more.names) = 2 /\ Len(more.dirs) = 2
      /\ Range(more.mounts) = {m, n} /\ Range(more.names) = {a, b}
      /\ Range(SecretVolumes) = {v, w} /\ Range(UISecrets) = {a, b}
  <2>1. /\ IsSeq(more.names) /\ Len(more.names) = 2 /\ Range(more.names) = {a, b}
    BY <1>4, Pair
  <2>2. IsSeq(more.dirs) /\ Len(more.dirs) = 2
    BY <1>4, Pair
  <2>3. Range(more.mounts) = {m, n} /\ Range(SecretVolumes) = {v, w}
    BY <1>4, Pair
  <2>4. Clean(more.mounts)
    BY <1>4, <1>6, CleanLiterals, Zenon
  <2> QED
    BY <2>1, <2>2, <2>3, <2>4
<1>8. /\ more.dirs[1] = Plain(a) /\ more.dirs[2] = Plain(b)
      /\ more.names[1] = a /\ more.names[2] = b
  BY <1>4
<1>9. \A j \in 1..2 : Shown(more.mounts, Range(SecretVolumes), more.dirs[j], more.names[j])
  <2>1. Shown(more.mounts, Range(SecretVolumes), Plain(a), a)
    BY <1>5, <1>7 DEF Shown
  <2>2. Shown(more.mounts, Range(SecretVolumes), Plain(b), b)
    BY <1>5, <1>7 DEF Shown
  <2> QED
    BY <1>8, <2>1, <2>2
<1> QED
  BY <1>5, <1>7, <1>9 DEF Fits

Together(more, a, b) ==
  /\ more.names = a.names \o b.names /\ more.dirs = a.dirs \o b.dirs
  /\ more.mounts = a.mounts \o b.mounts

LEMMA FitsJoined ==
  ASSUME NEW dirs, NEW a, NEW v, Fits(a, v, dirs), NEW b, NEW w, Fits(b, w, dirs),
         \A m \in Range(a.mounts), n \in Range(b.mounts) : m.path # n.path,
         NEW more, Together(more, a, b)
  PROVE  Fits(more, v \cup w, dirs)
<1>1. /\ IsSeq(a.names) /\ IsSeq(a.dirs) /\ IsSeq(a.mounts) /\ Len(a.names) = Len(a.dirs)
      /\ IsSeq(b.names) /\ IsSeq(b.dirs) /\ IsSeq(b.mounts) /\ Len(b.names) = Len(b.dirs)
  BY DEF Fits, Clean
<1>2. PICK na, nb : na = Len(a.dirs) /\ nb = Len(b.dirs)
  OBVIOUS
<1>3. na \in Nat /\ nb \in Nat /\ na = Len(a.names) /\ nb = Len(b.names)
  BY <1>1, <1>2, SeqShape
<1>4. JoinOf(more.names, a.names, b.names) /\ JoinOf(more.dirs, a.dirs, b.dirs)
  BY <1>1, JoinedAs, Zenon DEF Together
<1>5. /\ IsSeq(more.names) /\ IsSeq(more.dirs)
      /\ Len(more.names) = na + nb /\ Len(more.dirs) = na + nb
      /\ \A i \in 1..na : more.names[i] = a.names[i] /\ more.dirs[i] = a.dirs[i]
      /\ \A i \in 1..nb : more.names[na + i] = b.names[i] /\ more.dirs[na + i] = b.dirs[i]
      /\ Range(more.names) = Range(a.names) \cup Range(b.names)
  BY <1>2, <1>3, <1>4 DEF JoinOf
<1>6. Clean(more.mounts) /\ Range(more.mounts) = Range(a.mounts) \cup Range(b.mounts)
  <2>1. Clean(a.mounts) /\ Clean(b.mounts)
    BY DEF Fits
  <2>2. Clean(more.mounts)
    BY <2>1, CleanJoined, Zenon DEF Together
  <2>3. JoinOf(more.mounts, a.mounts, b.mounts)
    BY <1>1, JoinedAs, Zenon DEF Together
  <2> QED
    BY <2>2, <2>3 DEF JoinOf
<1>7. ASSUME NEW j \in 1..Len(more.dirs)
      PROVE  Shown(more.mounts, v \cup w, more.dirs[j], more.names[j])
  <2>1. CASE j \in 1..na
    <3>1. more.dirs[j] = a.dirs[j] /\ more.names[j] = a.names[j]
      BY <1>5, <2>1
    <3>2. Shown(a.mounts, v, a.dirs[j], a.names[j])
      BY <1>2, <2>1 DEF Fits
    <3> QED
      BY <1>6, <3>1, <3>2 DEF Shown
  <2>2. ASSUME NEW h \in 1..nb, j = na + h
        PROVE  Shown(more.mounts, v \cup w, more.dirs[j], more.names[j])
    <3>1. more.dirs[j] = b.dirs[h] /\ more.names[j] = b.names[h]
      BY <1>5, <2>2
    <3>2. Shown(b.mounts, w, b.dirs[h], b.names[h])
      BY <1>2 DEF Fits
    <3> QED
      BY <1>6, <3>1, <3>2 DEF Shown
  <2>3. j \in 1..na \/ \E h \in 1..nb : j = na + h
    <3>1. j \in 1..(na + nb) /\ na \in Nat /\ nb \in Nat
      BY <1>3, <1>5
    <3> QED
      BY <3>1, Halves
  <2> QED
    BY <2>1, <2>2, <2>3
<1>8. \A m \in Range(more.mounts) : /\ \E x \in v \cup w : x.name = m.volume
                                  /\ \E d \in dirs : m.path = <<"sec", Plain(d)>>
  BY <1>6 DEF Fits
<1>9. \A x \in v \cup w : x.secret \in Range(more.names) /\ \E y : x.name = Plain(y)
  BY <1>5 DEF Fits
<1>10. Len(more.names) = Len(more.dirs) /\ IsSeq(more.names) /\ IsSeq(more.dirs)
  BY <1>5
<1> QED
  BY <1>6, <1>7, <1>8, <1>9, <1>10 DEF Fits

LEMMA MoreFits ==
  ASSUME NEW o, NEW s PROVE Fits(MoreOf(o, s), ExtraOf(o, s), OwnDirs(o))
<1>1. /\ o \in DOMAIN Certificates => Certificates[o].dir \in OwnDirs(o)
      /\ o = "mcmui" => Range(UISecrets) \subseteq OwnDirs(o)
  BY DEF OwnDirs
<1>2. CASE o = "mcmui"
  <2>1. o \in DOMAIN Certificates /\ HasCert(o, s)
    BY <1>2 DEF Certificates, HasCert
  <2>2. PICK a : a = [names |-> UISecrets, dirs |-> SecretDirs, mounts |-> SecretMounts]
    OBVIOUS
  <2>3. Fits(a, Range(SecretVolumes), OwnDirs(o))
    BY <1>1, <1>2, <2>2, SecretsFit
  <2>4. Fits(CertCheck(o), {CertVolume(o)}, OwnDirs(o))
    BY <1>1, <2>1, CertFits
  <2>5. ASSUME NEW m \in Range(a.mounts), NEW n \in Range(CertCheck(o).mounts) PROVE m.path # n.path
    <3>1. n.path = <<"sec", Plain(Certificates[o].dir)>>
      <4>1. Range(CertCheck(o).mounts) = {CertMount(o, "sec")}
        BY Literal1 DEF CertCheck
      <4> QED
        BY <4>1, CertVolumeIs
    <3>2. PICK d \in Range(UISecrets) : m.path = <<"sec", Plain(d)>>
      <4>1. Fits(a, Range(SecretVolumes), Range(UISecrets))
        BY <2>2, SecretsFit
      <4> QED
        BY <4>1 DEF Fits
    <3>3. Certificates[o].dir \notin Range(UISecrets)
      BY <1>2 DEF Certificates, UISecrets, Range
    <3> QED
      BY <3>1, <3>2, <3>3, Names, Places
  <2>6. Fits(McmMore, Range(SecretVolumes) \cup {CertVolume(o)}, OwnDirs(o))
    <3>1. Together(McmMore, a, CertCheck(o))
      BY <1>2, <2>2 DEF McmMore, Together
    <3> QED
      BY <2>3, <2>4, <2>5, <3>1, FitsJoined
  <2>7. /\ MoreOf(o, s) = McmMore
        /\ ExtraOf(o, s) = Range(SecretVolumes) \cup {CertVolume(o)}
    BY <1>2, <2>1 DEF MoreOf, ExtraOf
  <2> QED
    BY <2>6, <2>7
<1>3. CASE o # "mcmui" /\ HasCert(o, s)
  <2>1. MoreOf(o, s) = CertCheck(o) /\ ExtraOf(o, s) = {CertVolume(o)}
    BY <1>3 DEF MoreOf, ExtraOf
  <2> QED
    BY <1>1, <1>3, <2>1, CertFits DEF HasCert
<1>4. CASE o # "mcmui" /\ ~HasCert(o, s)
  <2>1. MoreOf(o, s) = NothingMore /\ ExtraOf(o, s) = {}
    BY <1>4 DEF MoreOf, ExtraOf
  <2> QED
    BY <2>1, NothingFits
<1> QED
  BY <1>2, <1>3, <1>4

-----------------------------------------------------------------------------
(* The main container.                                                     *)

\* Mounts m at different places.
MountsOf(s, m) == Clean(s) /\ Range(s) = m

LEMMA MountsJoined ==
  ASSUME NEW s, NEW m, MountsOf(s, m), NEW t, NEW n, MountsOf(t, n),
         \A x \in m, y \in n : x.path # y.path
  PROVE  MountsOf(s \o t, m \cup n)
BY CleanJoined, Joined DEF MountsOf, Clean

LEMMA MountsLiteral ==
  ASSUME NEW a, NEW b
  PROVE  /\ MountsOf(<< >>, {}) /\ MountsOf(<<a>>, {a})
         /\ a.path # b.path => MountsOf(<<a, b>>, {a, b})
BY CleanLiterals, Literal0, Literal1, Literal2 DEF MountsOf

CaMount == Mount(Plain("mongodb-ca-cert"), "certs", Plain("mongodb-ca"))
ClientMount == Mount(Plain("mongodb-client-cert"), "certs", Plain("mongodb-client"))
MainMounts(o, s) ==
  {LevelMount(LevelOf(o)), CaMount, ClientMount}
    \cup IF HasCert(o, s) THEN {CertMount(o, "certs")} ELSE {}

\* All mounts of main containers are at different places.
LEMMA MainPlaces ==
  ASSUME NEW level
  PROVE  /\ LevelMount(level).path # CaMount.path /\ LevelMount(level).path # ClientMount.path
         /\ CaMount.path # ClientMount.path
         /\ \A o \in DOMAIN Certificates : /\ CertMount(o, "certs").path # LevelMount(level).path
                                          /\ CertMount(o, "certs").path # CaMount.path
                                          /\ CertMount(o, "certs").path # ClientMount.path
<1>1. /\ LevelMount(level).path = <<"etc", Plain("config")>>
      /\ CaMount.path = <<"certs", Plain("mongodb-ca")>>
      /\ ClientMount.path = <<"certs", Plain("mongodb-client")>>
  BY MountShape DEF LevelMount, CaMount, ClientMount
<1>2. \A o \in DOMAIN Certificates :
        Certificates[o].dir # "mongodb-ca" /\ Certificates[o].dir # "mongodb-client"
  BY DEF Certificates
<1>3. \A o : CertMount(o, "certs").path = <<"certs", Plain(Certificates[o].dir)>>
  BY CertVolumeIs
<1>4. Plain("mongodb-ca") # Plain("mongodb-client")
  BY Names
<1> QED
  BY <1>1, <1>2, <1>3, <1>4, Names, Places

LEMMA CommonMountsAre == MountsOf(CommonMounts, {CaMount, ClientMount})
<1>1. CommonMounts = <<CaMount, ClientMount>>
  BY DEF CommonMounts, CaMount, ClientMount
<1> QED
  BY <1>1, MountsLiteral, MainPlaces

\* The orders in which the builders put the mounts.
LEMMA MountOrders ==
  ASSUME NEW level, NEW o
  PROVE  /\ MountsOf(<<LevelMount(level)>> \o CommonMounts, {LevelMount(level), CaMount, ClientMount})
         /\ MountsOf(<<LevelMount(level)>> \o << >> \o CommonMounts,
                     {LevelMount(level), CaMount, ClientMount})
         /\ o \in DOMAIN Certificates =>
              /\ MountsOf(<<LevelMount(level)>> \o <<CertMount(o, "certs")>> \o CommonMounts,
                          {LevelMount(level), CaMount, ClientMount, CertMount(o, "certs")})
              /\ MountsOf(<<CertMount(o, "certs"), LevelMount(level)>> \o CommonMounts,
                          {LevelMount(level), CaMount, ClientMount, CertMount(o, "certs")})
              /\ MountsOf(<<LevelMount(level)>> \o CommonMounts \o <<CertMount(o, "certs")>>,
                          {LevelMount(level), CaMount, ClientMount, CertMount(o, "certs")})
<1> DEFINE l == LevelMount(level)
           c == CertMount(o, "certs")
           common == {CaMount, ClientMount}
<1>1. /\ l.path # CaMount.path /\ l.path # ClientMount.path
      /\ o \in DOMAIN Certificates => /\ c.path # l.path /\ c.path # CaMount.path
                                      /\ c.path # ClientMount.path
  BY MainPlaces
<1> HIDE DEF l, c
<1>2. MountsOf(<<l>>, {l}) /\ MountsOf(<<c>>, {c}) /\ MountsOf(<< >>, {})
  BY MountsLiteral
<1>3. MountsOf(<<l>> \o CommonMounts, {l} \cup common)
  BY <1>1, <1>2, CommonMountsAre, MountsJoined
<1>4. MountsOf(<<l>> \o << >> \o CommonMounts, {l} \cup common)
  <2>1. MountsOf(<<l>> \o << >>, {l} \cup {})
    BY <1>2, MountsJoined
  <2>2. MountsOf(<<l>> \o << >>, {l})
    BY <2>1
  <2> QED
    BY <1>1, <2>2, CommonMountsAre, MountsJoined
<1>5. ASSUME o \in DOMAIN Certificates
      PROVE  /\ MountsOf(<<l>> \o <<c>> \o CommonMounts, ({l} \cup {c}) \cup common)
             /\ MountsOf(<<c, l>> \o CommonMounts, {c, l} \cup common)
             /\ MountsOf(<<l>> \o CommonMounts \o <<c>>, ({l} \cup common) \cup {c})
  <2>1. MountsOf(<<l>> \o <<c>>, {l} \cup {c})
    BY <1>1, <1>2, <1>5, MountsJoined
  <2>2. MountsOf(<<l>> \o <<c>> \o CommonMounts, ({l} \cup {c}) \cup common)
    BY <1>1, <1>5, <2>1, CommonMountsAre, MountsJoined
  <2>3. MountsOf(<<c, l>>, {c, l})
    BY <1>1, <1>5, MountsLiteral
  <2>4. MountsOf(<<c, l>> \o CommonMounts, {c, l} \cup common)
    BY <1>1, <1>5, <2>3, CommonMountsAre, MountsJoined
  <2>5. MountsOf(<<l>> \o CommonMounts \o <<c>>, ({l} \cup common) \cup {c})
    BY <1>1, <1>2, <1>3, <1>5, MountsJoined
  <2> QED
    BY <2>2, <2>4, <2>5
<1>6. /\ {l} \cup common = {l, CaMount, ClientMount}
      /\ ({l} \cup {c}) \cup common = {l, CaMount, ClientMount, c}
      /\ {c, l} \cup common = {l, CaMount, ClientMount, c}
      /\ ({l} \cup common) \cup {c} = {l, CaMount, ClientMount, c}
  OBVIOUS
<1> QED
  BY <1>3, <1>4, <1>5, <1>6, Zenon DEF l, c

-----------------------------------------------------------------------------
(* What each operand's template consists of.                               *)

\* Template t is put together from volumes, a check, and a main container.
Assembled(t, o, s) ==
  /\ Range(t.volumes) = Range(CommonVolumes(s, LevelOf(o))) \cup ExtraOf(o, s)
  /\ t.init = <<t.init[1], InitContainer("dm", s)>> /\ Checks(t.init[1], s, MoreOf(o, s))
  /\ t.containers = <<t.containers[1]>>
  /\ t.containers[1].env[1] = MongoEnv(s)
  /\ o = "mcmui" => t.containers[1].env[2].secrets = UISecrets
  /\ t.containers[1].resources = ResourceRequirements(o, s)
  /\ MountsOf(t.containers[1].mounts, MainMounts(o, s))

LEMMA Assembly ==
  ASSUME NEW o, NEW s, NEW vs, NEW check, NEW main, NEW t,
         t = Template(vs, <<check, InitContainer("dm", s)>>, main),
         Range(vs) = Range(CommonVolumes(s, LevelOf(o))) \cup ExtraOf(o, s),
         Checks(check, s, MoreOf(o, s)),
         main.env[1] = MongoEnv(s), o = "mcmui" => main.env[2].secrets = UISecrets,
         main.resources = ResourceRequirements(o, s),
         MountsOf(main.mounts, MainMounts(o, s))
  PROVE  Assembled(t, o, s)
<1>1. /\ t.volumes = vs /\ t.init = <<check, InitContainer("dm", s)>> /\ t.containers = <<main>>
  BY DEF Template
<1>2. t.init[1] = check /\ t.containers[1] = main
  BY <1>1
<1> QED
  BY <1>1, <1>2, Zenon DEF Assembled

LEMMA MainContainerIs ==
  ASSUME NEW o, NEW s, NEW env, NEW mounts, NEW c, c = MainContainer(o, s, env, mounts)
  PROVE  c.env = env /\ c.mounts = mounts /\ c.resources = ResourceRequirements(o, s)
BY DEF MainContainer

LEMMA CommonVolumesSeq ==
  ASSUME NEW s, NEW level, NEW v
  PROVE  /\ IsSeq(CommonVolumes(s, level))
         /\ Range(Append(CommonVolumes(s, level), v)) = Range(CommonVolumes(s, level)) \cup {v}
         /\ IsSeq(Append(CommonVolumes(s, level), v))
         /\ Range(CommonVolumes(s, level) \o <<v>>) = Range(CommonVolumes(s, level)) \cup {v}
         /\ Range(CommonVolumes(s, level) \o << >>) = Range(CommonVolumes(s, level))
<1>1. IsSeq(CommonVolumes(s, level))
  BY CommonVolumesShape DEF VolumesTyped
<1>2. /\ IsSeq(<<v>>) /\ Range(<<v>>) = {v} /\ IsSeq(<< >>) /\ Range(<< >>) = {}
  BY Literal0, Literal1
<1> QED
  BY <1>1, <1>2, Appended, Joined

OneMore(s, level, v) == Append(CommonVolumes(s, level), v)

LEMMA OneMoreVolume ==
  ASSUME NEW s, NEW level, NEW v
  PROVE  /\ IsSeq(OneMore(s, level, v))
         /\ Range(OneMore(s, level, v)) = Range(CommonVolumes(s, level)) \cup {v}
<1>1. PICK vs : vs = CommonVolumes(s, level)
  OBVIOUS
<1>2. IsSeq(vs)
  BY <1>1, CommonVolumesSeq
<1>3. IsSeq(Append(vs, v)) /\ Range(Append(vs, v)) = Range(vs) \cup {v}
  BY <1>2, Appended
<1>4. OneMore(s, level, v) = Append(vs, v)
  BY <1>1, Zenon DEF OneMore
<1> QED
  BY <1>1, <1>3, <1>4, Zenon

LEMMA DmAssembled == ASSUME NEW s PROVE Assembled(Wanted("dm", s), "dm", s)
<1> DEFINE cert(t) == IF s.receiver THEN <<t>> ELSE << >>
<1>1. PICK vs : vs = CommonVolumes(s, "loglevel") \o cert(CertVolume("dm"))
  OBVIOUS
<1>2. PICK check : check = SecretCheckContainer("dm", s, IF s.receiver THEN CertCheck("dm") ELSE NothingMore)
  OBVIOUS
<1>3. PICK mounts : mounts = <<LevelMount("loglevel")>> \o cert(CertMount("dm", "certs")) \o CommonMounts
  OBVIOUS
<1>4. PICK main : main = MainContainer("dm", s, <<MongoEnv(s), CommonClusterEnv(s), s.receiver>>, mounts)
  OBVIOUS
<1>5. Wanted("dm", s) = Template(vs, <<check, InitContainer("dm", s)>>, main)
  BY <1>1, <1>2, <1>3, <1>4, WantedIs, Zenon DEF DmTemplate
<1>6. /\ LevelOf("dm") = "loglevel" /\ "dm" \in DOMAIN Certificates
      /\ HasCert("dm", s) <=> s.receiver
  BY DEF LevelOf, Certificates, HasCert
<1>7. MoreOf("dm", s) = IF s.receiver THEN CertCheck("dm") ELSE NothingMore
  BY <1>6 DEF MoreOf
<1>8. ExtraOf("dm", s) = IF s.receiver THEN {CertVolume("dm")} ELSE {}
  BY <1>6 DEF ExtraOf
<1>9. Range(vs) = Range(CommonVolumes(s, "loglevel")) \cup ExtraOf("dm", s)
  <2>1. CASE s.receiver
    <3>1. vs = CommonVolumes(s, "loglevel") \o <<CertVolume("dm")>>
      BY <1>1, <2>1, Zenon
    <3> QED
      BY <1>8, <2>1, <3>1, CommonVolumesSeq
  <2>2. CASE ~s.receiver
    <3>1. vs = CommonVolumes(s, "loglevel") \o << >>
      BY <1>1, <2>2, Zenon
    <3> QED
      BY <1>8, <2>2, <3>1, CommonVolumesSeq
  <2> QED
    BY <2>1, <2>2
<1>10. MountsOf(mounts, MainMounts("dm", s))
  <2>1. CASE s.receiver
    <3>1. mounts = <<LevelMount("loglevel")>> \o <<CertMount("dm", "certs")>> \o CommonMounts
      BY <1>3, <2>1, Zenon
    <3>2. MainMounts("dm", s) =
            {LevelMount("loglevel"), CaMount, ClientMount, CertMount("dm", "certs")}
      BY <1>6, <2>1 DEF MainMounts
    <3> QED
      BY <1>6, <3>1, <3>2, MountOrders, Zenon
  <2>2. CASE ~s.receiver
    <3>1. mounts = <<LevelMount("loglevel")>> \o << >> \o CommonMounts
      BY <1>3, <2>2, Zenon
    <3>2. MainMounts("dm", s) = {LevelMount("loglevel"), CaMount, ClientMount}
      BY <1>6, <2>2 DEF MainMounts
    <3> QED
      BY <3>1, <3>2, MountOrders, Zenon
  <2> QED
    BY <2>1, <2>2
<1>11. /\ main.env[1] = MongoEnv(s) /\ main.mounts = mounts
       /\ main.resources = ResourceRequirements("dm", s)
  BY <1>4, MainContainerIs
<1>12. Checks(check, s, MoreOf("dm", s))
  BY <1>2, <1>7, CheckIs
<1> QED
  BY <1>5, <1>6, <1>9, <1>10, <1>11, <1>12, Assembly

LEMMA ReaderAssembled == ASSUME NEW s PROVE Assembled(Wanted("reader", s), "reader", s)
<1>1. PICK vs : vs = OneMore(s, "loglevel", CertVolume("reader"))
  OBVIOUS
<1>2. PICK check : check = SecretCheckContainer("dm", s, CertCheck("reader"))
  OBVIOUS
<1>3. PICK mounts : mounts = <<CertMount("reader", "certs"), LevelMount("loglevel")>> \o CommonMounts
  OBVIOUS
<1>4. PICK own : own = MainContainer("reader", s, <<MongoEnv(s), CommonClusterEnv(s), s.exclude>>, mounts)
  OBVIOUS
<1>5. PICK main : main = [own EXCEPT !.image = ImageID("dm", s)]
  OBVIOUS
<1>6. Wanted("reader", s) = Template(vs, <<check, InitContainer("dm", s)>>, main)
  BY <1>1, <1>2, <1>3, <1>4, <1>5, WantedIs, Zenon DEF ReaderTemplate, OneMore
<1>7. /\ LevelOf("reader") = "loglevel" /\ "reader" \in DOMAIN Certificates /\ HasCert("reader", s)
  BY DEF LevelOf, Certificates, HasCert
<1>8. MoreOf("reader", s) = CertCheck("reader") /\ ExtraOf("reader", s) = {CertVolume("reader")}
  BY <1>7 DEF MoreOf, ExtraOf
<1>9. Range(vs) = Range(CommonVolumes(s, "loglevel")) \cup ExtraOf("reader", s)
  <2>1. Range(vs) = Range(CommonVolumes(s, "loglevel")) \cup {CertVolume("reader")}
    BY <1>1, OneMoreVolume
  <2> QED
    BY <1>8, <2>1
<1>10. MountsOf(mounts, MainMounts("reader", s))
  <2>1. MainMounts("reader", s) =
          {LevelMount("loglevel"), CaMount, ClientMount, CertMount("reader", "certs")}
    BY <1>7 DEF MainMounts
  <2> QED
    BY <1>3, <1>7, <2>1, MountOrders, Zenon
<1>11. /\ main.env[1] = MongoEnv(s) /\ main.mounts = mounts
       /\ main.resources = ResourceRequirements("reader", s)
  <2>1. /\ own.env[1] = MongoEnv(s) /\ own.mounts = mounts
        /\ own.resources = ResourceRequirements("reader", s)
    BY <1>4, MainContainerIs
  <2>2. ContainerTyped(own)
    BY <1>4, ContainerShape
  <2> QED
    BY <1>5, <2>1, <2>2 DEF ContainerTyped
<1>12. Checks(check, s, MoreOf("reader", s))
  BY <1>2, <1>8, CheckIs
<1> QED
  BY <1>6, <1>7, <1>9, <1>10, <1>11, <1>12, Assembly

LEMMA SenderAssembled == ASSUME NEW s PROVE Assembled(Wanted("sender", s), "sender", s)
<1>1. PICK vs : vs = CommonVolumes(s, "loglevel")
  OBVIOUS
<1>2. PICK common : common = SecretCheckContainer("dm", s, NothingMore)
  OBVIOUS
<1>3. PICK check :
        check = [common EXCEPT !.env = [names |-> @.names, dirs |-> @.dirs, hub |-> s.hub]]
  OBVIOUS
<1>4. PICK mounts : mounts = <<LevelMount("loglevel")>> \o CommonMounts
  OBVIOUS
<1>5. PICK own : own = MainContainer("sender", s, <<MongoEnv(s), SenderClusterEnv(s)>>, mounts)
  OBVIOUS
<1>6. PICK main : main = [own EXCEPT !.image = ImageID("dm", s)]
  OBVIOUS
<1>7. Wanted("sender", s) = Template(vs, <<check, InitContainer("dm", s)>>, main)
  BY <1>1, <1>2, <1>3, <1>4, <1>5, <1>6, WantedIs, Zenon DEF SenderTemplate
<1>8. LevelOf("sender") = "loglevel" /\ "sender" \notin DOMAIN Certificates /\ ~HasCert("sender", s)
  BY DEF LevelOf, Certificates, HasCert
<1>9. MoreOf("sender", s) = NothingMore /\ ExtraOf("sender", s) = {}
  BY <1>8 DEF MoreOf, ExtraOf
<1>10. MountsOf(mounts, MainMounts("sender", s))
  <2>1. MainMounts("sender", s) = {LevelMount("loglevel"), CaMount, ClientMount}
    BY <1>8 DEF MainMounts
  <2> QED
    BY <1>4, <2>1, MountOrders, Zenon
<1>11. /\ main.env[1] = MongoEnv(s) /\ main.mounts = mounts
       /\ main.resources = ResourceRequirements("sender", s)
  <2>1. /\ own.env[1] = MongoEnv(s) /\ own.mounts = mounts
        /\ own.resources = ResourceRequirements("sender", s)
    BY <1>5, MainContainerIs
  <2>2. ContainerTyped(own)
    BY <1>5, ContainerShape
  <2> QED
    BY <1>6, <2>1, <2>2 DEF ContainerTyped
<1>12. Checks(check, s, MoreOf("sender", s))
  <2>1. Checks(common, s, NothingMore) /\ ContainerTyped(common)
    BY <1>2, CheckIs, ContainerShape
  <2>2. /\ check.env.names = common.env.names /\ check.env.dirs = common.env.dirs
        /\ check.mounts = common.mounts
    BY <1>3, <2>1 DEF ContainerTyped
  <2> QED
    BY <1>9, <2>1, <2>2, Zenon DEF Checks
<1>13. Range(vs) = Range(CommonVolumes(s, "loglevel")) \cup ExtraOf("sender", s)
  BY <1>1, <1>9
<1> QED
  BY <1>7, <1>8, <1>10, <1>11, <1>12, <1>13, Assembly

LEMMA UIAssembled == ASSUME NEW s PROVE Assembled(Wanted("ui", s), "ui", s)
<1>1. PICK vs : vs = OneMore(s, "loglevel", CertVolume("ui"))
  OBVIOUS
<1>2. PICK check : check = SecretCheckContainer("dm", s, CertCheck("ui"))
  OBVIOUS
<1>3. PICK mounts : mounts = <<LevelMount("loglevel")>> \o CommonMounts \o <<CertMount("ui", "certs")>>
  OBVIOUS
<1>4. PICK main : main = MainContainer("ui", s, <<MongoEnv(s), UIClusterEnv(s, FALSE)>>, mounts)
  OBVIOUS
<1>5. Wanted("ui", s) = Template(vs, <<check, InitContainer("dm", s)>>, main)
  BY <1>1, <1>2, <1>3, <1>4, WantedIs, Zenon DEF UITemplate, OneMore
<1>6. LevelOf("ui") = "loglevel" /\ "ui" \in DOMAIN Certificates /\ HasCert("ui", s)
  BY DEF LevelOf, Certificates, HasCert
<1>7. MoreOf("ui", s) = CertCheck("ui") /\ ExtraOf("ui", s) = {CertVolume("ui")}
  BY <1>6 DEF MoreOf, ExtraOf
<1>8. Range(vs) = Range(CommonVolumes(s, "loglevel")) \cup ExtraOf("ui", s)
  <2>1. Range(vs) = Range(CommonVolumes(s, "loglevel")) \cup {CertVolume("ui")}
    BY <1>1, OneMoreVolume
  <2> QED
    BY <1>7, <2>1
<1>9. MountsOf(mounts, MainMounts("ui", s))
  <2>1. MainMounts("ui", s) =
          {LevelMount("loglevel"), CaMount, ClientMount, CertMount("ui", "certs")}
    BY <1>6 DEF MainMounts
  <2> QED
    BY <1>3, <1>6, <2>1, MountOrders, Zenon
<1>10. /\ main.env[1] = MongoEnv(s) /\ main.mounts = mounts
       /\ main.resources = ResourceRequirements("ui", s)
  BY <1>4, MainContainerIs
<1>11. Checks(check, s, MoreOf("ui", s))
  BY <1>2, <1>7, CheckIs
<1> QED
  BY <1>5, <1>6, <1>8, <1>9, <1>10, <1>11, Assembly

LEMMA McmUIAssembled == ASSUME NEW s PROVE Assembled(Wanted("mcmui", s), "mcmui", s)
<1>1. PICK vs : vs = OneMore(s, "log4js", CertVolume("mcmui")) \o SecretVolumes
  OBVIOUS
<1>2. PICK check : check = SecretCheckContainer("dm", s, McmMore)
  OBVIOUS
<1>3. PICK mounts : mounts = <<LevelMount("log4js")>> \o CommonMounts \o <<CertMount("mcmui", "certs")>>
  OBVIOUS
<1>0. PICK env : env = <<MongoEnv(s), UIClusterEnv(s, TRUE)>>
  OBVIOUS
<1>4. PICK main : main = MainContainer("mcmui", s, env, mounts)
  OBVIOUS
<1>5. Wanted("mcmui", s) = Template(vs, <<check, InitContainer("dm", s)>>, main)
  BY <1>0, <1>1, <1>2, <1>3, <1>4, WantedIs, Zenon
  DEF McmUITemplate, McmMore, OneMore, SecretVolumes, SecretDirs, SecretMounts
<1>6. LevelOf("mcmui") = "log4js" /\ "mcmui" \in DOMAIN Certificates /\ HasCert("mcmui", s)
  BY DEF LevelOf, Certificates, HasCert
<1>7. /\ MoreOf("mcmui", s) = McmMore
      /\ ExtraOf("mcmui", s) = {CertVolume("mcmui")} \cup Range(SecretVolumes)
  BY <1>6 DEF MoreOf, ExtraOf
<1>8. Range(vs) = Range(CommonVolumes(s, "log4js")) \cup ExtraOf("mcmui", s)
  <2>1. IsSeq(SecretVolumes)
    BY SecretVolumesShape DEF VolumesTyped
  <2>2. PICK us : us = OneMore(s, "log4js", CertVolume("mcmui"))
    OBVIOUS
  <2>3. IsSeq(us) /\ Range(us) = Range(CommonVolumes(s, "log4js")) \cup {CertVolume("mcmui")}
    BY <2>2, OneMoreVolume
  <2>4. JoinOf(vs, us, SecretVolumes)
    BY <1>1, <2>1, <2>2, <2>3, JoinedAs, Zenon
  <2> QED
    BY <1>7, <2>3, <2>4 DEF JoinOf
<1>9. MountsOf(mounts, MainMounts("mcmui", s))
  <2>1. MainMounts("mcmui", s) =
          {LevelMount("log4js"), CaMount, ClientMount, CertMount("mcmui", "certs")}
    BY <1>6 DEF MainMounts
  <2> QED
    BY <1>3, <1>6, <2>1, MountOrders, Zenon
<1>10. /\ main.env[1] = MongoEnv(s) /\ main.mounts = mounts
       /\ main.env[2].secrets = UISecrets
       /\ main.resources = ResourceRequirements("mcmui", s)
  <2>1. UIClusterEnv(s, TRUE).secrets = UISecrets
    BY DEF UIClusterEnv
  <2>2. env[1] = MongoEnv(s) /\ env[2] = UIClusterEnv(s, TRUE)
    BY <1>0
  <2>3. main.env = env /\ main.mounts = mounts /\ main.resources = ResourceRequirements("mcmui", s)
    BY <1>4, MainContainerIs
  <2> QED
    BY <2>1, <2>2, <2>3
<1>11. Checks(check, s, MoreOf("mcmui", s))
  BY <1>2, <1>7, CheckIs
<1> QED
  BY <1>5, <1>6, <1>8, <1>9, <1>10, <1>11, Assembly

LEMMA WantedAssembled ==
  ASSUME NEW o \in {"dm", "reader", "sender", "ui", "mcmui"}, NEW s
  PROVE  Assembled(Wanted(o, s), o, s)
BY DmAssembled, ReaderAssembled, SenderAssembled, UIAssembled, McmUIAssembled

\* A template has a volume of this name with this secret.
Shows(t, name, secret) == \E v \in Range(t.volumes) : v.name = name /\ v.secret = secret

\* The volumes of an operand's template.
LEMMA VolumesAre ==
  ASSUME NEW t, NEW o, NEW s, Assembled(t, o, s)
  PROVE  /\ Shows(t, Plain("mongodb-ca-cert"), s.ca) /\ Shows(t, Plain("mongodb-client-cert"), s.client)
         /\ Shows(t, <<"muser", "icp-mongodb-admin">>, s.user)
         /\ Shows(t, <<"mpass", "icp-mongodb-admin">>, s.password)
         /\ Shows(t, Plain(LevelOf(o)), NoSecret)
         /\ ExtraOf(o, s) \subseteq Range(t.volumes)
         /\ \A v \in Range(t.volumes) :
              \/ /\ \E x : v.name = Plain(x)
                 /\ v.secret \in {s.ca, s.client, NoSecret} \/ v \in ExtraOf(o, s)
              \/ v.name = <<"muser", "icp-mongodb-admin">> /\ v.secret = s.user
              \/ v.name = <<"mpass", "icp-mongodb-admin">> /\ v.secret = s.password
<1>1. PICK a, b, c, d, e :
        /\ a = Volume(Plain("mongodb-ca-cert"), s.ca)
        /\ b = Volume(Plain("mongodb-client-cert"), s.client)
        /\ c = Volume(<<"muser", "icp-mongodb-admin">>, s.user)
        /\ d = Volume(<<"mpass", "icp-mongodb-admin">>, s.password)
        /\ e = Volume(Plain(LevelOf(o)), NoSecret)
  OBVIOUS
<1>2. Range(t.volumes) = {a, b, c, d, e} \cup ExtraOf(o, s)
  BY <1>1, CommonVolumesShape DEF Assembled
<1>3. /\ a.name = Plain("mongodb-ca-cert") /\ a.secret = s.ca
      /\ b.name = Plain("mongodb-client-cert") /\ b.secret = s.client
      /\ c.name = <<"muser", "icp-mongodb-admin">> /\ c.secret = s.user
      /\ d.name = <<"mpass", "icp-mongodb-admin">> /\ d.secret = s.password
      /\ e.name = Plain(LevelOf(o)) /\ e.secret = NoSecret
  BY <1>1, VolumeShape
<1>4. \A v \in ExtraOf(o, s) : \E x : v.name = Plain(x)
  BY MoreFits DEF Fits
<1> QED
  BY <1>2, <1>3, <1>4 DEF Shows

\* The first entries of the lists of a secret check, and the others.
LEMMA CheckLists ==
  ASSUME NEW t, NEW o, NEW s, Assembled(t, o, s), NEW check, check = t.init[1],
         NEW more, more = MoreOf(o, s)
  PROVE  /\ JoinOf(check.env.names, BaseNames(s), more.names)
         /\ JoinOf(check.env.dirs, BaseDirs(s), more.dirs)
         /\ JoinOf(check.mounts, BaseMounts(s), more.mounts)
         /\ Fits(more, ExtraOf(o, s), OwnDirs(o))
<1>1. Checks(check, s, more)
  BY DEF Assembled
<1>2. Fits(more, ExtraOf(o, s), OwnDirs(o))
  BY MoreFits
<1>3. IsSeq(more.names) /\ IsSeq(more.dirs) /\ IsSeq(more.mounts)
  BY <1>2 DEF Fits, Clean
<1>4. IsSeq(BaseNames(s)) /\ IsSeq(BaseDirs(s)) /\ IsSeq(BaseMounts(s))
  BY BaseShape
<1> QED
  BY <1>1, <1>2, <1>3, <1>4, JoinedAs, Zenon DEF Checks

\* What a secret check finds in each directory, if the template was accepted.
LEMMA AssembledChecks ==
  ASSUME NEW t, NEW o, NEW s, Assembled(t, o, s), Consistent(t), NEW check, check = t.init[1]
  PROVE  /\ Len(check.env.names) = Len(check.env.dirs)
         /\ \A i \in DOMAIN check.env.dirs :
              Shown(check.mounts, Range(t.volumes), check.env.dirs[i], check.env.names[i])
<1>1. PICK more : more = MoreOf(o, s)
  OBVIOUS
<1>2. PICK names, dirs, mounts : /\ names = check.env.names /\ dirs = check.env.dirs
                                 /\ mounts = check.mounts
  OBVIOUS
<1>3. /\ JoinOf(names, BaseNames(s), more.names) /\ JoinOf(dirs, BaseDirs(s), more.dirs)
      /\ JoinOf(mounts, BaseMounts(s), more.mounts) /\ Fits(more, ExtraOf(o, s), OwnDirs(o))
  BY <1>1, <1>2, CheckLists
<1>4. PICK n : n = Len(more.dirs) /\ n \in Nat /\ n = Len(more.names)
  BY <1>3, SeqShape DEF Fits
<1>5. /\ Len(names) = 4 + n /\ Len(dirs) = 4 + n /\ IsSeq(names) /\ IsSeq(dirs)
      /\ \A i \in 1..4 : names[i] = BaseNames(s)[i] /\ dirs[i] = BaseDirs(s)[i]
      /\ \A i \in 1..n : names[4 + i] = more.names[i] /\ dirs[4 + i] = more.dirs[i]
      /\ Range(mounts) = Range(BaseMounts(s)) \cup Range(more.mounts)
  <2>1. PICK bn, bd, bm : bn = BaseNames(s) /\ bd = BaseDirs(s) /\ bm = BaseMounts(s)
    OBVIOUS
  <2>2. Len(bn) = 4 /\ Len(bd) = 4
    BY <2>1, BaseShape
  <2>3. JoinOf(names, bn, more.names) /\ JoinOf(dirs, bd, more.dirs) /\ JoinOf(mounts, bm, more.mounts)
    BY <1>3, <2>1
  <2>4. /\ Len(names) = 4 + n /\ IsSeq(names)
        /\ \A i \in 1..4 : names[i] = bn[i]
        /\ \A i \in 1..n : names[4 + i] = more.names[i]
    BY <1>4, <2>2, <2>3 DEF JoinOf
  <2>5. /\ Len(dirs) = 4 + n /\ IsSeq(dirs)
        /\ \A i \in 1..4 : dirs[i] = bd[i]
        /\ \A i \in 1..n : dirs[4 + i] = more.dirs[i]
    BY <1>4, <2>2, <2>3 DEF JoinOf
  <2> QED
    BY <2>1, <2>3, <2>4, <2>5 DEF JoinOf
<1>6. DOMAIN dirs = 1..(4 + n)
  BY <1>5, SeqShape
<1>7. PICK a, b, c, d :
        /\ a = Mount(Plain("mongodb-ca-cert"), "sec", Plain(s.ca))
        /\ b = Mount(Plain("mongodb-client-cert"), "sec", Plain(s.client))
        /\ c = Mount(<<"muser", s.user>>, "sec", <<"muser", s.user>>)
        /\ d = Mount(<<"mpass", s.password>>, "sec", <<"mpass", s.password>>)
  OBVIOUS
<1>8. /\ {a, b, c, d} \subseteq Range(mounts)
      /\ a.volume = Plain("mongodb-ca-cert") /\ a.path = <<"sec", Plain(s.ca)>>
      /\ b.volume = Plain("mongodb-client-cert") /\ b.path = <<"sec", Plain(s.client)>>
      /\ c.volume = <<"muser", s.user>> /\ c.path = <<"sec", <<"muser", s.user>>>>
      /\ d.volume = <<"mpass", s.password>> /\ d.path = <<"sec", <<"mpass", s.password>>>>
  <2>1. Range(BaseMounts(s)) = {a, b, c, d}
    BY <1>7, BaseShape
  <2> QED
    BY <1>5, <1>7, <2>1, MountShape
<1>9. /\ Shown(mounts, Range(t.volumes), Plain(s.ca), s.ca)
      /\ Shown(mounts, Range(t.volumes), Plain(s.client), s.client)
  BY <1>8, VolumesAre DEF Shown, Shows
<1>10. /\ Shown(mounts, Range(t.volumes), <<"muser", s.user>>, s.user)
       /\ Shown(mounts, Range(t.volumes), <<"mpass", s.password>>, s.password)
  <2>1. check \in Range(t.init)
    BY Literal2 DEF Assembled
  <2>2. \A m \in Range(mounts) : \E v \in Range(t.volumes) : v.name = m.volume
    BY <1>2, <2>1 DEF Consistent
  <2>3. PICK v \in Range(t.volumes) : v.name = <<"muser", s.user>>
    BY <1>8, <2>2
  <2>4. v.secret = s.user
    BY <2>3, VolumesAre, Names
  <2>5. PICK w \in Range(t.volumes) : w.name = <<"mpass", s.password>>
    BY <1>8, <2>2
  <2>6. w.secret = s.password
    BY <2>5, VolumesAre, Names
  <2> QED
    BY <1>8, <2>3, <2>4, <2>5, <2>6 DEF Shown
<1>11. ASSUME NEW i \in 1..4 PROVE Shown(mounts, Range(t.volumes), dirs[i], names[i])
  <2>1. /\ dirs[1] = <<"muser", s.user>> /\ dirs[2] = <<"mpass", s.password>>
        /\ dirs[3] = Plain(s.ca) /\ dirs[4] = Plain(s.client)
        /\ names[1] = s.user /\ names[2] = s.password /\ names[3] = s.ca /\ names[4] = s.client
    BY <1>5 DEF BaseDirs, BaseNames
  <2>2. i = 1 \/ i = 2 \/ i = 3 \/ i = 4
    OBVIOUS
  <2> QED
    BY <1>9, <1>10, <2>1, <2>2
<1>12. ASSUME NEW i \in 1..n PROVE Shown(mounts, Range(t.volumes), dirs[4 + i], names[4 + i])
  <2>1. Shown(more.mounts, ExtraOf(o, s), more.dirs[i], more.names[i])
    BY <1>3, <1>4 DEF Fits
  <2>2. Shown(mounts, Range(t.volumes), more.dirs[i], more.names[i])
    BY <1>5, <2>1, VolumesAre DEF Shown
  <2> QED
    BY <1>5, <2>2
<1>13. ASSUME NEW i \in DOMAIN dirs PROVE Shown(mounts, Range(t.volumes), dirs[i], names[i])
  <2>1. i \in 1..4 \/ \E h \in 1..n : i = 4 + h
    BY <1>4, <1>6, Halves
  <2> QED
    BY <1>11, <1>12, <2>1
<1> QED
  BY <1>2, <1>5, <1>13

-----------------------------------------------------------------------------
(* What the pods wait for.                                                 *)

\* When all is settled, the template is the accepted one that is asked for.
LEMMA SettledTemplate ==
  ASSUME Inv, Settled, operand # "report"
  PROVE  Assembled(pods, operand, spec) /\ Consistent(pods)
<1>1. pods = Wanted(operand, spec)
  BY DEF Inv, AsAsked
<1>2. Assembled(pods, operand, spec)
  BY <1>1, WantedAssembled DEF Inv, TypeInv
<1>3. pods # << >>
  <2>1. TemplateTyped(pods) \/ pods = << >>
    BY DEF Inv, TypeInv
  <2>2. TemplateTyped(Wanted(operand, spec))
    BY WantedTyped DEF Inv, TypeInv
  <2>3. "volumes" \in DOMAIN pods
    BY <1>1, <2>2 DEF TemplateTyped
  <2> QED
    BY <2>3
<1> QED
  BY <1>2, <1>3 DEF Inv, AcceptedInv, Accepted

\* Each directory in which the secret check looks is a mount of the secret that
\* the same place in its list of names says, whatever the secrets are called.
THEOREM ChecksTheNamedCorrect == Spec => []ChecksTheNamed
<1>1. Inv => ChecksTheNamed
  <2> SUFFICES ASSUME Inv, Settled, operand # "report" PROVE ChecksTheNamed
    BY DEF ChecksTheNamed
  <2>1. PICK check, t, o, s : check = pods.init[1] /\ t = pods /\ o = operand /\ s = spec
    OBVIOUS
  <2>2. Assembled(t, o, s) /\ Consistent(t) /\ check = t.init[1]
    BY <2>1, SettledTemplate
  <2>3. /\ Len(check.env.names) = Len(check.env.dirs)
        /\ \A i \in DOMAIN check.env.dirs :
             Shown(check.mounts, Range(t.volumes), check.env.dirs[i], check.env.names[i])
    BY <2>2, AssembledChecks
  <2> QED
    BY <2>1, <2>3, Zenon DEF ChecksTheNamed, Shown
<1> QED
  BY <1>1, InvCorrect, PTL

\* The list of names has the secrets of all volumes.
LEMMA AssembledWaits ==
  ASSUME NEW t, NEW o, NEW s, Assembled(t, o, s), NEW names, names = t.init[1].env.names
  PROVE  /\ \A v \in Range(t.volumes) : v.secret = NoSecret \/ v.secret \in Range(names)
         /\ s.user \in Range(names) /\ s.password \in Range(names)
         /\ o = "mcmui" => Range(UISecrets) \subseteq Range(names)
<1>1. PICK more, base : more = MoreOf(o, s) /\ base = BaseNames(s)
  OBVIOUS
<1>2. JoinOf(names, base, more.names) /\ Fits(more, ExtraOf(o, s), OwnDirs(o))
  BY <1>1, CheckLists
<1>3. Range(names) = {s.user, s.password, s.ca, s.client} \cup Range(more.names)
  BY <1>1, <1>2, BaseShape DEF JoinOf
<1>4. \A v \in ExtraOf(o, s) : v.secret \in Range(more.names)
  BY <1>2 DEF Fits
<1>5. ASSUME o = "mcmui", NEW x \in Range(UISecrets) PROVE x \in Range(more.names)
  <2>1. PICK v \in Range(SecretVolumes) : v.secret = x
    <3>1. PICK k \in DOMAIN UISecrets : UISecrets[k] = x
      BY DEF Range
    <3>2. SecretVolumes[k] = Volume(Plain(x), x) /\ SecretVolumes[k] \in Range(SecretVolumes)
      BY <3>1 DEF SecretVolumes, Range
    <3> QED
      BY <3>2, VolumeShape
  <2> QED
    BY <1>4, <1>5, <2>1 DEF ExtraOf
<1> QED
  BY <1>3, <1>4, <1>5, VolumesAre

\* The secret check waits for every secret that the main container mounts or
\* takes variables from, the certificates of the operand among them.
THEOREM WaitsForWhatItUsesCorrect == Spec => []WaitsForWhatItUses
<1>1. Inv => WaitsForWhatItUses
  <2> SUFFICES ASSUME Inv, Settled, operand # "report"
               PROVE  UsedSecrets \subseteq Range(pods.init[1].env.names)
    BY DEF WaitsForWhatItUses
  <2>1. PICK names, main, t, o, s : /\ names = pods.init[1].env.names /\ main = pods.containers[1]
                                    /\ t = pods /\ o = operand /\ s = spec
    OBVIOUS
  <2>2. Assembled(t, o, s) /\ names = t.init[1].env.names /\ main = t.containers[1]
    BY <2>1, SettledTemplate
  <2>3. /\ \A v \in Range(t.volumes) : v.secret = NoSecret \/ v.secret \in Range(names)
        /\ s.user \in Range(names) /\ s.password \in Range(names)
        /\ o = "mcmui" => Range(UISecrets) \subseteq Range(names)
    BY <2>2, AssembledWaits
  <2>4. /\ main.env[1].user = s.user /\ main.env[1].password = s.password
        /\ o = "mcmui" => main.env[2].secrets = UISecrets
    <3>1. main.env[1] = MongoEnv(s) /\ (o = "mcmui" => main.env[2].secrets = UISecrets)
      BY <2>2 DEF Assembled
    <3> QED
      BY <3>1 DEF MongoEnv
  <2>5. ASSUME NEW x \in UsedSecrets PROVE x \in Range(names)
    <3>1. \/ x # NoSecret /\ \E v \in Range(t.volumes) : x = v.secret
          \/ x = main.env[1].user \/ x = main.env[1].password
          \/ o = "mcmui" /\ x \in Range(main.env[2].secrets)
      BY <2>1 DEF UsedSecrets
    <3> QED
      BY <2>3, <2>4, <3>1
  <2> QED
    BY <2>1, <2>5
<1> QED
  BY <1>1, InvCorrect, PTL

-----------------------------------------------------------------------------
(* What the API server refuses.                                            *)

\* All mounts of a container are of volumes of the template, at different places.
ContainerFits(c, t) ==
  Clean(c.mounts) /\ \A m \in Range(c.mounts) : \E v \in Range(t.volumes) : v.name = m.volume

LEMMA FitsConsistent ==
  ASSUME NEW t, \A c \in Range(t.init) \cup Range(t.containers) : ContainerFits(c, t)
  PROVE  Consistent(t)
BY DEF Consistent, ContainerFits, Clean

\* The mounts of MongoDB's secrets, if none has the name of another.
LEMMA BaseClean ==
  ASSUME NEW s, s.ca # s.client
  PROVE  Clean(BaseMounts(s))
<1>1. PICK a, b, c, d :
        /\ a = Mount(Plain("mongodb-ca-cert"), "sec", Plain(s.ca))
        /\ b = Mount(Plain("mongodb-client-cert"), "sec", Plain(s.client))
        /\ c = Mount(<<"muser", s.user>>, "sec", <<"muser", s.user>>)
        /\ d = Mount(<<"mpass", s.password>>, "sec", <<"mpass", s.password>>)
  OBVIOUS
<1>2. /\ a.path = <<"sec", Plain(s.ca)>> /\ b.path = <<"sec", Plain(s.client)>>
      /\ c.path = <<"sec", <<"muser", s.user>>>> /\ d.path = <<"sec", <<"mpass", s.password>>>>
  BY <1>1, MountShape
<1>3. /\ a.path # b.path /\ a.path # c.path /\ a.path # d.path
      /\ b.path # c.path /\ b.path # d.path /\ c.path # d.path
  BY <1>2, Names, Places
<1>4. Clean(<<a, b, c, d>>)
  BY <1>3, CleanFour
<1> QED
  BY <1>1, <1>4, Zenon DEF BaseMounts

LEMMA CheckContainerFits ==
  ASSUME NEW t, NEW o, NEW s, Assembled(t, o, s), s.ca # s.client,
         {s.ca, s.client} \cap OwnDirs(o) = {},
         s.user = "icp-mongodb-admin", s.password = "icp-mongodb-admin"
  PROVE  ContainerFits(t.init[1], t)
<1>1. PICK more, base, check : more = MoreOf(o, s) /\ base = BaseMounts(s) /\ check = t.init[1]
  OBVIOUS
<1>2. JoinOf(check.mounts, base, more.mounts) /\ Fits(more, ExtraOf(o, s), OwnDirs(o))
  BY <1>1, CheckLists
<1>3. PICK a, b, c, d :
        /\ a = Mount(Plain("mongodb-ca-cert"), "sec", Plain(s.ca))
        /\ b = Mount(Plain("mongodb-client-cert"), "sec", Plain(s.client))
        /\ c = Mount(<<"muser", s.user>>, "sec", <<"muser", s.user>>)
        /\ d = Mount(<<"mpass", s.password>>, "sec", <<"mpass", s.password>>)
  OBVIOUS
<1>4. Range(base) = {a, b, c, d}
  BY <1>1, <1>3, BaseShape
<1>5. /\ a.volume = Plain("mongodb-ca-cert") /\ a.path = <<"sec", Plain(s.ca)>>
      /\ b.volume = Plain("mongodb-client-cert") /\ b.path = <<"sec", Plain(s.client)>>
      /\ c.volume = <<"muser", s.user>> /\ c.path = <<"sec", <<"muser", s.user>>>>
      /\ d.volume = <<"mpass", s.password>> /\ d.path = <<"sec", <<"mpass", s.password>>>>
  BY <1>3, MountShape
<1>6. \A m \in Range(base) : \E v \in Range(t.volumes) : v.name = m.volume
  BY <1>4, <1>5, VolumesAre, SMTT(30) DEF Shows
<1>7. \A m \in Range(more.mounts) : \E v \in Range(t.volumes) : v.name = m.volume
  BY <1>2, VolumesAre DEF Fits
<1>8. ASSUME NEW m \in Range(base), NEW n \in Range(more.mounts) PROVE m.path # n.path
  <2>1. PICK x \in OwnDirs(o) : n.path = <<"sec", Plain(x)>>
    BY <1>2 DEF Fits
  <2>2. x # s.ca /\ x # s.client
    BY <2>1
  <2> QED
    BY <1>4, <1>5, <2>1, <2>2, Names, Places
<1>9. Clean(check.mounts)
  <2>1. Clean(base) /\ Clean(more.mounts)
    BY <1>1, <1>2, BaseClean DEF Fits
  <2>2. check.mounts = base \o more.mounts
    BY <1>1, Zenon DEF Assembled, Checks
  <2> QED
    BY <1>8, <2>1, <2>2, CleanJoined, Zenon
<1> QED
  BY <1>1, <1>2, <1>6, <1>7, <1>9 DEF ContainerFits, JoinOf

LEMMA MainContainerFits ==
  ASSUME NEW t, NEW o, NEW s, Assembled(t, o, s), NEW c,
         c = t.containers[1] \/ c = InitContainer("dm", s)
  PROVE  ContainerFits(c, t)
<1>1. MountsOf(c.mounts, MainMounts(o, s)) \/ MountsOf(c.mounts, {CaMount, ClientMount})
  BY CommonMountsAre DEF Assembled, InitContainer
<1>2. /\ CaMount.volume = Plain("mongodb-ca-cert")
      /\ ClientMount.volume = Plain("mongodb-client-cert")
      /\ LevelMount(LevelOf(o)).volume = Plain(LevelOf(o))
      /\ CertMount(o, "certs").volume = CertVolume(o).name
  BY MountShape, CertVolumeIs DEF CaMount, ClientMount, LevelMount
<1>3. HasCert(o, s) => CertVolume(o) \in Range(t.volumes)
  BY VolumesAre DEF ExtraOf
<1>4. \A m \in MainMounts(o, s) \cup {CaMount, ClientMount} :
        \E v \in Range(t.volumes) : v.name = m.volume
  BY <1>2, <1>3, VolumesAre DEF MainMounts, Shows
<1> QED
  BY <1>1, <1>4 DEF ContainerFits, MountsOf

\* Amounts that agree, given or by default, are merged into such.
LEMMA ResourcesFit ==
  ASSUME NEW o \in DOMAIN DefaultResources, NEW s, s.limit \in Nat, s.request \in Nat,
         ~AmountsDisagree(o, s)
  PROVE  ResourceRequirements(o, s).request <= ResourceRequirements(o, s).limit
<1>1. PICK d : d = DefaultResources[o]
  OBVIOUS
<1>2. d = [limit |-> d.limit, request |-> d.request] /\ d.limit \in Nat /\ d.request \in Nat
      /\ d.request <= d.limit
  BY <1>1 DEF DefaultResources
<1>3. PICK r : r = [d EXCEPT !.limit = IF s.limit = 0 THEN @ ELSE s.limit]
  OBVIOUS
<1>4. PICK q : q = [r EXCEPT !.request = IF s.request = 0 THEN @ ELSE s.request]
  OBVIOUS
<1>5. ResourceRequirements(o, s) = q
  BY <1>1, <1>3, <1>4 DEF ResourceRequirements
<1>6. /\ r.limit = (IF s.limit = 0 THEN d.limit ELSE s.limit) /\ r.request = d.request
      /\ r = [limit |-> r.limit, request |-> r.request]
  BY <1>2, <1>3
<1>7. q.limit = r.limit /\ q.request = IF s.request = 0 THEN r.request ELSE s.request
  BY <1>4, <1>6
<1>8. /\ s.limit # 0 => s.request <= s.limit
      /\ s.limit = 0 => s.request <= d.limit
      /\ s.limit # 0 /\ s.request = 0 => d.request <= s.limit
  BY <1>1, <1>2 DEF AmountsDisagree
<1> QED
  BY <1>2, <1>5, <1>6, <1>7, <1>8

LEMMA AssembledAccepted ==
  ASSUME NEW t, NEW o \in DOMAIN DefaultResources, NEW s, Assembled(t, o, s), s.ca # s.client,
         {s.ca, s.client} \cap OwnDirs(o) = {},
         s.user = "icp-mongodb-admin", s.password = "icp-mongodb-admin",
         s.limit \in Nat, s.request \in Nat, ~AmountsDisagree(o, s)
  PROVE  Accepted(t)
<1>1. PICK check, init, main :
        check = t.init[1] /\ init = InitContainer("dm", s) /\ main = t.containers[1]
  OBVIOUS
<1>2. Range(t.init) = {check, init} /\ Range(t.containers) = {main}
  <2>1. t.init = <<check, init>> /\ t.containers = <<main>>
    BY <1>1, Zenon DEF Assembled
  <2> QED
    BY <2>1, Literal1, Literal2
<1>3. ContainerFits(check, t) /\ ContainerFits(init, t) /\ ContainerFits(main, t)
  BY <1>1, CheckContainerFits, MainContainerFits
<1>4. Consistent(t)
  BY <1>2, <1>3, FitsConsistent
<1>5. main.resources.request <= main.resources.limit
  <2>1. main.resources = ResourceRequirements(o, s)
    BY <1>1 DEF Assembled
  <2> QED
    BY <2>1, ResourcesFit
<1> QED
  BY <1>2, <1>4, <1>5 DEF Accepted

\* The report server takes nothing from MongoDB.
LEMMA ReportAccepted ==
  ASSUME NEW s, s.limit \in Nat, s.request \in Nat, ~AmountsDisagree("report", s)
  PROVE  Accepted(Wanted("report", s))
<1>1. PICK a, b : a = Mount(Plain("tmp-dir"), "tmp", Plain("")) /\ b = CertMount("reader", "certs")
  OBVIOUS
<1>2. PICK v, w : v = Volume(Plain("tmp-dir"), NoSecret) /\ w = CertVolume("reader")
  OBVIOUS
<1>3. PICK mounts : mounts = <<a, b>>
  OBVIOUS
<1>4. PICK main : main = MainContainer("report", s, << >>, mounts)
  OBVIOUS
<1>5. PICK t : t = Template(<<v, w>>, << >>, main)
  OBVIOUS
<1>6. Wanted("report", s) = t
  BY <1>1, <1>2, <1>3, <1>4, <1>5, WantedIs, Zenon DEF ReportTemplate
<1>7. /\ a.volume = v.name /\ b.volume = w.name
      /\ a.path = <<"tmp", Plain("")>> /\ b.path = <<"certs", Plain(Certificates["reader"].dir)>>
  <2>1. a.volume = v.name /\ a.path = <<"tmp", Plain("")>>
    <3>1. PICK name, root : name = Plain("tmp-dir") /\ root = Plain("")
      OBVIOUS
    <3>2. a = Mount(name, "tmp", root) /\ v = Volume(name, NoSecret)
      BY <1>1, <1>2, <3>1, Zenon
    <3>3. a.volume = name /\ v.name = name /\ a.path = <<"tmp", root>>
      BY <3>2, MountShape, VolumeShape
    <3> QED
      BY <3>1, <3>3, Zenon
  <2>2. PICK cert : cert = Certificates["reader"]
    OBVIOUS
  <2>3. b = Mount(Plain(cert.volume), "certs", Plain(cert.dir)) /\ w = Volume(Plain(cert.volume), cert.secret)
    BY <1>1, <1>2, <2>2, Zenon DEF CertMount, CertVolume
  <2>4. b.volume = w.name /\ b.path = <<"certs", Plain(cert.dir)>>
    BY <2>3, MountShape, VolumeShape
  <2> QED
    BY <2>1, <2>2, <2>4
<1>8. Clean(mounts) /\ Range(mounts) = {a, b}
  <2>1. a.path # b.path
    BY <1>7, Places
  <2>2. Clean(mounts)
    BY <1>3, <2>1, CleanLiterals, Zenon
  <2> QED
    BY <1>3, <2>2, Pair
<1>9. /\ Range(t.volumes) = {v, w} /\ Range(t.init) = {} /\ Range(t.containers) = {main}
  <2>1. t.volumes = <<v, w>> /\ t.init = << >> /\ t.containers = <<main>>
    BY <1>5 DEF Template
  <2> QED
    BY <2>1, Literal0, Literal1, Literal2
<1>10. main.mounts = mounts /\ main.resources = ResourceRequirements("report", s)
  BY <1>4, MainContainerIs
<1>11. Consistent(t)
  <2>1. ContainerFits(main, t)
    BY <1>7, <1>8, <1>9, <1>10 DEF ContainerFits
  <2> QED
    BY <1>9, <2>1, FitsConsistent
<1>12. main.resources.request <= main.resources.limit
  <2>1. "report" \in DOMAIN DefaultResources
    BY DEF DefaultResources
  <2> QED
    BY <1>10, <2>1, ResourcesFit
<1> QED
  BY <1>6, <1>9, <1>11, <1>12 DEF Accepted

\* A resource whose amounts agree, which leaves the secrets of the MongoDB
\* user their names and gives no two secrets that are looked for one name, gets
\* its pods: volumes and mounts from different builders fit, for every operand.
THEOREM RefusedForCauseCorrect == Spec => []RefusedForCause
<1>1. Inv => RefusedForCause
  <2> SUFFICES ASSUME Inv, refused, changes = 0, ~RefusedForCause
               PROVE  FALSE
    BY DEF RefusedForCause
  <2>1. PICK o, s : o = operand /\ s = spec
    OBVIOUS
  <2>2. ~Accepted(Wanted(o, s))
    BY <2>1 DEF Inv, RefusedInv
  <2>3. /\ o \in {"dm", "reader", "sender", "ui", "mcmui", "report"}
        /\ s.limit \in Nat /\ s.request \in Nat
    BY <2>1, PodsAssumption DEF Inv, TypeInv
  <2>4. /\ ~AmountsDisagree(o, s)
        /\ o # "report" => /\ s.user = "icp-mongodb-admin" /\ s.password = "icp-mongodb-admin"
                           /\ s.ca # s.client /\ {s.ca, s.client} \cap OwnDirs(o) = {}
    <3>1. ~( \/ AmountsDisagree(o, s)
             \/ /\ o # "report"
                /\ \/ {s.user, s.password} # {"icp-mongodb-admin"}
                   \/ s.ca = s.client \/ {s.ca, s.client} \cap OwnDirs(o) # {} )
      BY <2>1 DEF RefusedForCause
    <3>2. o # "report" => /\ {s.user, s.password} = {"icp-mongodb-admin"}
                          /\ s.ca # s.client /\ {s.ca, s.client} \cap OwnDirs(o) = {}
      BY <3>1, Zenon
    <3> QED
      BY <3>1, <3>2, Zenon
  <2>5. CASE o = "report"
    BY <2>2, <2>3, <2>4, <2>5, ReportAccepted
  <2>6. CASE o # "report"
    <3>1. o \in DOMAIN DefaultResources
      BY <2>3 DEF DefaultResources
    <3>2. PICK t : t = Wanted(o, s)
      OBVIOUS
    <3>3. Assembled(t, o, s)
      BY <2>3, <2>6, <3>2, WantedAssembled
    <3>4. Accepted(t)
      BY <2>3, <2>4, <2>6, <3>1, <3>3, AssembledAccepted
    <3> QED
      BY <2>2, <3>2, <3>4
  <2> QED
    BY <2>5, <2>6
<1> QED
  BY <1>1, InvCorrect, PTL

=============================================================================
