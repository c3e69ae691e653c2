---------------------------- MODULE PreflightProofs ----------------------------
(***************************************************************************)
(* Theorems about Preflight, for every set of services, every host and     *)
(* every number of hung commands and of steps of others.                   *)
(*                                                                         *)
(* The plan is a sequence put together from parts.  Of its order the       *)
(* proofs need two facts, which are shown part by part: that a service's   *)
(* certificate is the last that is looked at of the service, so that an    *)
(* early return passes nothing else over, and that the address comes right *)
(* after the name.  The rest is what has been looked at so far.            *)
(***************************************************************************)
EXTENDS Preflight, SequenceTheorems, WellFoundedInduction, TLAPS

-----------------------------------------------------------------------------
(* A set of natural numbers that is not empty has a least element.         *)

Below == OpToRel(<, Nat)

\* The order of the natural numbers, by name, is well-founded.
LEMMA BelowWF == IsWellFoundedOn(Below, Nat)
BY NatLessThanWellFounded, Zenon DEF Below

\* What the name stands for.
LEMMA BelowMeans == Below = {p \in Nat \X Nat : p[1] < p[2]}
BY Zenon DEF Below, OpToRel

\* A set of natural numbers that is not empty has a least one.
LEMMA Least ==
  ASSUME NEW T, T \subseteq Nat, T # {}
  PROVE  \E x \in T : \A y \in T : x <= y
<1>1. PICK x \in T : \A y \in T : <<y, x>> \notin Below
  BY BelowWF, WFMin
<1>2. ASSUME NEW y \in T
      PROVE  x <= y
  <2>1. x \in Nat /\ y \in Nat
    OBVIOUS
  <2>2. <<y, x>> \in Nat \X Nat /\ <<y, x>>[1] = y /\ <<y, x>>[2] = x
    BY <2>1
  <2>3. y < x => <<y, x>> \in Below
    BY <2>2, BelowMeans
  <2> QED
    BY <1>1, <2>1, <2>3
<1> QED
  BY <1>2

-----------------------------------------------------------------------------
(* The plan.                                                               *)

Resolves == <<"network", "resolves">>
Address == <<"network", "ipv4">>

\* Once a service's certificate is looked at, only that is left of the service.
Late(s) ==
  \A i, j \in DOMAIN s : i < j /\ IsPki(s[i]) /\ s[j][1] = s[i][1] => IsPki(s[j])

\* The address comes right after the name.
Followed(s) ==
  \A i \in DOMAIN s : s[i] = Resolves => i + 1 \in DOMAIN s /\ s[i + 1] = Address

Part(s, S) == s \in Seq(S) /\ Late(s) /\ Followed(s)

Join(s, t) == s \o t

\* What comes in T after S says nothing new of a service whose certificate is in S.
Before(S, T) == \A c \in S, d \in T : IsPki(c) /\ c[1] = d[1] => IsPki(d)

\* Two parts of which the second may follow the first make one part.
LEMMA Joined ==
  ASSUME NEW S, NEW T, NEW U, S \cup T \subseteq U, NEW s, NEW t,
         Part(s, S), Part(t, T), Before(S, T)
  PROVE  Part(Join(s, t), U) /\ Range(Join(s, t)) = Range(s) \cup Range(t)
<1> DEFINE u == s \o t
<1>1. s \in Seq(U) /\ t \in Seq(U) /\ s \in Seq(S) /\ t \in Seq(T)
  BY DEF Part
<1>2. /\ Len(s) \in Nat /\ DOMAIN s = 1..Len(s) /\ Len(t) \in Nat /\ DOMAIN t = 1..Len(t)
      /\ \A i \in DOMAIN s : s[i] \in S
      /\ \A i \in DOMAIN t : t[i] \in T
  BY <1>1, LenProperties, ElementOfSeq
<1>3. /\ u \in Seq(U) /\ Len(u) = Len(s) + Len(t) /\ DOMAIN u = 1..(Len(s) + Len(t))
      /\ \A i \in 1..(Len(s) + Len(t)) : u[i] = IF i <= Len(s) THEN s[i] ELSE t[i - Len(s)]
  BY <1>1, ConcatProperties, LenProperties
<1> HIDE DEF u
<1>4. ASSUME NEW i \in DOMAIN u
      PROVE  \/ i \in DOMAIN s /\ u[i] = s[i]
             \/ i - Len(s) \in DOMAIN t /\ u[i] = t[i - Len(s)] /\ i \in Nat /\ i > Len(s)
  BY <1>2, <1>3
<1>5. \A i \in DOMAIN s : i \in DOMAIN u /\ u[i] = s[i]
  BY <1>2, <1>3
<1>6. ASSUME NEW i \in DOMAIN t
      PROVE  i + Len(s) \in DOMAIN u /\ u[i + Len(s)] = t[i]
  <2>1. i + Len(s) \in 1..(Len(s) + Len(t)) /\ ~(i + Len(s) <= Len(s)) /\ i + Len(s) - Len(s) = i
    BY <1>2
  <2> QED
    BY <1>3, <2>1
<1>7. Late(u)
  <2> SUFFICES ASSUME NEW i \in DOMAIN u, NEW j \in DOMAIN u, i < j, IsPki(u[i]),
                      u[j][1] = u[i][1]
               PROVE  IsPki(u[j])
    BY DEF Late
  <2>1. CASE j \in DOMAIN s /\ u[j] = s[j]
    <3>1. i \in DOMAIN s /\ u[i] = s[i]
      BY <1>2, <1>3, <2>1
    <3> QED
      BY <2>1, <3>1 DEF Part, Late
  <2>2. CASE j - Len(s) \in DOMAIN t /\ u[j] = t[j - Len(s)] /\ j \in Nat /\ j > Len(s)
    <3>1. CASE i \in DOMAIN s /\ u[i] = s[i]
      BY <1>2, <2>2, <3>1 DEF Before
    <3>2. CASE i - Len(s) \in DOMAIN t /\ u[i] = t[i - Len(s)] /\ i \in Nat /\ i > Len(s)
      <4>1. i - Len(s) < j - Len(s)
        BY <1>2, <2>2, <3>2
      <4> QED
        BY <2>2, <3>2, <4>1 DEF Part, Late
    <3> QED
      BY <1>4, <3>1, <3>2
  <2> QED
    BY <1>4, <2>1, <2>2
<1>8. Followed(u)
  <2> SUFFICES ASSUME NEW i \in DOMAIN u, u[i] = Resolves
               PROVE  i + 1 \in DOMAIN u /\ u[i + 1] = Address
    BY DEF Followed
  <2>1. CASE i \in DOMAIN s /\ u[i] = s[i]
    <3>1. i + 1 \in DOMAIN s /\ s[i + 1] = Address
      BY <2>1 DEF Part, Followed
    <3> QED
      BY <1>5, <3>1
  <2>2. CASE i - Len(s) \in DOMAIN t /\ u[i] = t[i - Len(s)] /\ i \in Nat /\ i > Len(s)
    <3>1. i - Len(s) + 1 \in DOMAIN t /\ t[i - Len(s) + 1] = Address
      BY <2>2 DEF Part, Followed
    <3>2. i - Len(s) + 1 + Len(s) = i + 1
      BY <1>2, <2>2
    <3> QED
      BY <1>6, <3>1, <3>2
  <2> QED
    BY <1>4, <2>1, <2>2
<1>9. Range(u) = Range(s) \cup Range(t)
  <2>1. Range(u) \subseteq Range(s) \cup Range(t)
    BY <1>4 DEF Range
  <2>2. Range(s) \subseteq Range(u)
    BY <1>5 DEF Range
  <2>3. Range(t) \subseteq Range(u)
    BY <1>6 DEF Range
  <2> QED
    BY <2>1, <2>2, <2>3
<1> QED
  BY <1>3, <1>7, <1>8, <1>9 DEF Part, Join, u

\* Parts without, or with nothing but, the checks of a certificate.
LEMMA PlainPart ==
  ASSUME NEW S, NEW s \in Seq(S), Resolves \notin S,
         (\A c \in S : ~IsPki(c)) \/ (\A c \in S : IsPki(c))
  PROVE  Part(s, S)
<1>1. \A i \in DOMAIN s : s[i] \in S
  BY ElementOfSeq, LenProperties
<1> QED
  BY <1>1 DEF Part, Late, Followed

\* A subject's checks, one by one.
LEMMA OfFacts ==
  ASSUME NEW x, NEW T, NEW c \in Seq(T), NEW S, \A t \in T : <<x, t>> \in S
  PROVE  Of(x, c) \in Seq(S) /\ Len(Of(x, c)) = Len(c)
         /\ \A i \in 1..Len(c) : Of(x, c)[i] = <<x, c[i]>>
<1>1. Len(c) \in Nat /\ DOMAIN c = 1..Len(c)
  BY LenProperties
<1>2. DOMAIN Of(x, c) = 1..Len(c) /\ \A i \in 1..Len(c) : Of(x, c)[i] = <<x, c[i]>>
  BY <1>1 DEF Of
<1>3. \A i \in 1..Len(c) : c[i] \in T
  BY <1>1, ElementOfSeq
<1>4. Of(x, c) = [i \in 1..Len(c) |-> Of(x, c)[i]]
  BY <1>1 DEF Of
<1>5. \A i \in 1..Len(c) : Of(x, c)[i] \in S
  BY <1>2, <1>3
<1>6. Of(x, c) \in [1..Len(c) -> S]
  BY <1>4, <1>5
<1>7. Of(x, c) \in Seq(S)
  BY <1>1, <1>6, SeqDef
<1> QED
  BY <1>1, <1>2, <1>7, LenProperties

\* A subject with one check.
LEMMA OfOne ==
  ASSUME NEW x, NEW c, NEW S, <<x, c>> \in S
  PROVE  Of(x, <<c>>) \in Seq(S)
<1>1. <<c>> \in Seq({c}) /\ \A t \in {c} : <<x, t>> \in S
  OBVIOUS
<1> DEFINE T == {c}
<1> HIDE DEF T
<1>2. <<c>> \in Seq(T) /\ \A t \in T : <<x, t>> \in S
  BY <1>1 DEF T
<1> QED
  BY <1>2, OfFacts

-----------------------------------------------------------------------------
Three == {"elasticsearch", "kibana", "fleet"}
Loose == {"lock", "root", "commands", "release", "podman", "machine", "systemd", "cgroup",
          "selinux", "cpu", "memory", "disk", "swap", "mmap", "resolves", "ipv4", "port",
          "firewalld"}

Front == ({"run", "host", "network"} \X (Loose \ {"port"})) \cup (Service \X {"port"})
Certificate(s) == {s} \X (Pki \cup {"mode"})
Rear == {"supply"} \X {"proxy_ca", "images", "registry", "artifacts"}
All ==
  Front \cup Certificate("elasticsearch") \cup Certificate("kibana") \cup Certificate("fleet")
    \cup Rear

\* The names of subjects and checks that have to be told apart.
LEMMA Names ==
  /\ Loose \cap Pki = {} /\ {"mode", "proxy_ca", "images", "registry", "artifacts"} \cap Pki = {}
  /\ Service \subseteq Three
  /\ {"run", "host", "network", "supply"} \cap Three = {}
BY PreflightAssumption DEF Loose, Pki, Three

\* In front of the certificates no check is of one, and anything may follow.
LEMMA FrontFacts ==
  /\ \A c \in Front : ~IsPki(c) /\ (IsPort(c) => c[1] \in Service)
  /\ \A S : Before(Front, S)
<1>1. \A c \in Front : ~IsPki(c) /\ (IsPort(c) => c[1] \in Service)
  BY Names DEF Front, IsPki, IsPort, Loose
<1> QED
  BY <1>1 DEF Before

\* A part of the front that does not look the name up.
LEMMA FrontPart ==
  ASSUME NEW s \in Seq(Front \ {Resolves})
  PROVE  Part(s, Front)
<1>1. Part(s, Front \ {Resolves})
  BY FrontFacts, PlainPart
<1>2. s \in Seq(Front)
  OBVIOUS
<1> QED
  BY <1>1, <1>2 DEF Part

\* Parts of the front make a part of the front.
LEMMA FrontJoined ==
  ASSUME NEW s, NEW t, Part(s, Front), Part(t, Front)
  PROVE  Part(Join(s, t), Front)
BY Joined, FrontFacts

\* The gates.
LEMMA RunPart == Part(Of("run", <<"lock", "root", "commands">>), Front)
<1>1. <<"lock", "root", "commands">> \in Seq(Loose \ {"port", "resolves"})
  BY DEF Loose
<1>2. \A t \in Loose \ {"port", "resolves"} : <<"run", t>> \in Front \ {Resolves}
  BY DEF Front, Resolves
<1> QED
  BY <1>1, <1>2, OfFacts, FrontPart

\* _check_host.
LEMMA HostPart == Part(Host, Front)
<1> DEFINE c == <<"release", "podman", "machine", "systemd", "cgroup", "selinux",
                  "cpu", "memory", "disk", "swap", "mmap">>
<1>1. c \in Seq(Loose \ {"port", "resolves"})
  BY DEF Loose
<1>2. \A t \in Loose \ {"port", "resolves"} : <<"host", t>> \in Front \ {Resolves}
  BY DEF Front, Resolves
<1> HIDE DEF c
<1>3. Part(Of("host", c), Front)
  BY <1>1, <1>2, OfFacts, FrontPart
<1> QED
  BY <1>3 DEF Host, c

\* _check_network: the name's address is looked at right after the name resolved.
LEMMA NamePart == Part(Of("network", <<"resolves", "ipv4">>), Front)
<1> DEFINE c == <<"resolves", "ipv4">>
           s == Of("network", c)
<1>1. c \in Seq(Loose \ {"port"}) /\ Len(c) = 2 /\ c[1] = "resolves" /\ c[2] = "ipv4"
  BY DEF Loose
<1>2. \A t \in Loose \ {"port"} : <<"network", t>> \in Front
  BY DEF Front
<1> HIDE DEF c
<1>3. /\ s \in Seq(Front) /\ Len(s) = 2
      /\ \A i \in 1..2 : s[i] = <<"network", c[i]>>
  BY <1>1, <1>2, OfFacts
<1> HIDE DEF s
<1>4. DOMAIN s = 1..2 /\ s[1] = Resolves /\ s[2] = Address /\ Resolves # Address
  BY <1>1, <1>3, LenProperties DEF Resolves, Address
<1>5. Followed(s)
  BY <1>4 DEF Followed
<1>6. \A i \in DOMAIN s : ~IsPki(s[i])
  BY <1>3, FrontFacts, ElementOfSeq, LenProperties
<1>7. Late(s)
  BY <1>6 DEF Late
<1> QED
  BY <1>3, <1>5, <1>7 DEF Part, s, c

\* _check_network: the port of a service, when it has one.
LEMMA PortPart ==
  ASSUME NEW s
  PROVE  Part(PortOf(s), Front)
<1>1. CASE s \notin Service
  <2>1. <<>> \in Seq(Front \ {Resolves})
    OBVIOUS
  <2> QED
    BY <1>1, <2>1, FrontPart DEF PortOf
<1>2. CASE s \in Service
  <2>1. <<s, "port">> \in Front \ {Resolves}
    BY <1>2 DEF Front, Resolves
  <2>2. Part(Of(s, <<"port">>), Front)
    BY <2>1, OfOne, FrontPart
  <2> QED
    BY <1>2, <2>2 DEF PortOf
<1> QED
  BY <1>1, <1>2

\* _check_network: the firewall, last.
LEMMA FirewallPart == Part(Of("network", <<"firewalld">>), Front)
<1>1. <<"network", "firewalld">> \in Front \ {Resolves}
  BY DEF Front, Resolves, Loose
<1> QED
  BY <1>1, OfOne, FrontPart

\* _check_network as a whole.
LEMMA NetworkPart == Part(Network, Front)
<1> DEFINE A == Of("network", <<"resolves", "ipv4">>)
           B == Join(A, PortOf("elasticsearch"))
           C == Join(B, PortOf("kibana"))
           D == Join(C, PortOf("fleet"))
           E == Join(D, Of("network", <<"firewalld">>))
<1>1. Part(A, Front)
  BY NamePart
<1>2. Part(B, Front)
  <2> HIDE DEF A
  <2> QED
    BY <1>1, PortPart, FrontJoined
<1>3. Part(C, Front)
  <2> HIDE DEF B
  <2> QED
    BY <1>2, PortPart, FrontJoined
<1>4. Part(D, Front)
  <2> HIDE DEF C
  <2> QED
    BY <1>3, PortPart, FrontJoined
<1>5. Part(E, Front)
  <2> HIDE DEF D
  <2> QED
    BY <1>4, FirewallPart, FrontJoined
<1>6. Network = E
  BY DEF Network, Join
<1> QED
  BY <1>5, <1>6

\* _validate_certificate: its checks of one service in their order, and nothing in
\* between that an early return would leave out.
LEMMA CertificatePart ==
  ASSUME NEW s \in Three
  PROVE  Part(CertificateOf(s), Certificate(s))
<1>0. s \notin {"run", "host", "network", "supply"} /\ "mode" \notin Pki
  BY Names
<1>1. CASE s \notin Service
  <2>1. CertificateOf(s) = <<>>
    BY <1>1 DEF CertificateOf
  <2>2. <<>> \in Seq(Certificate(s)) /\ DOMAIN <<>> = {}
    OBVIOUS
  <2> QED
    BY <2>1, <2>2 DEF Part, Late, Followed
<1>2. CASE s \in Service
  <2> DEFINE S == {s} \X Pki
             F == Of(s, <<"files", "certificate", "key", "chain", "name", "expiry", "server">>)
             C == IF s = "elasticsearch" THEN Of(s, <<"client">>) ELSE <<>>
             P == Of(s, <<"pair">>)
             A == Join(F, C)
             B == Join(A, P)
             M == Of(s, <<"mode">>)
             D == Join(M, B)
  <2>1. \A t \in Pki : <<s, t>> \in S
    OBVIOUS
  <2>2. (\A c \in S : IsPki(c)) /\ Resolves \notin S /\ Before(S, S)
    BY <1>0 DEF IsPki, Resolves, Before
  <2>3. F \in Seq(S)
    <3>1. <<"files", "certificate", "key", "chain", "name", "expiry", "server">> \in Seq(Pki)
      BY DEF Pki
    <3> HIDE DEF S
    <3> QED
      BY <2>1, <3>1, OfFacts
  <2>4. C \in Seq(S) /\ P \in Seq(S)
    <3>1. <<s, "client">> \in S /\ <<s, "pair">> \in S /\ <<>> \in Seq(S)
      BY DEF Pki
    <3> HIDE DEF S
    <3> QED
      BY <3>1, OfOne
  <2>5. M \in Seq({<<s, "mode">>})
    BY OfOne
  <2>6. Part(F, S) /\ Part(C, S) /\ Part(P, S)
    <3> HIDE DEF S, F, C, P
    <3> QED
      BY <2>2, <2>3, <2>4, PlainPart
  <2>7. Part(A, S)
    <3> HIDE DEF S, F, C
    <3> QED
      BY <2>2, <2>6, Joined
  <2>8. Part(B, S)
    <3> HIDE DEF S, A, P
    <3> QED
      BY <2>2, <2>6, <2>7, Joined
  <2>9. Part(M, {<<s, "mode">>})
    <3>1. \A c \in {<<s, "mode">>} : ~IsPki(c) /\ c # Resolves
      BY <1>0 DEF IsPki, Resolves
    <3> HIDE DEF M
    <3> QED
      BY <2>5, <3>1, PlainPart
  <2>10. Part(D, Certificate(s))
    <3>1. {<<s, "mode">>} \cup S \subseteq Certificate(s)
      BY DEF Certificate
    <3>2. Before({<<s, "mode">>}, S)
      BY <1>0 DEF Before, IsPki
    <3> HIDE DEF S, M, B
    <3> QED
      BY <2>8, <2>9, <3>1, <3>2, Joined
  <2>11. CertificateOf(s) = D
    BY <1>2 DEF CertificateOf, PkiOf, Join
  <2> QED
    BY <1>2, <2>10, <2>11
<1> QED
  BY <1>1, <1>2

\* _check_supply_chain, with and without a proxy.
LEMMA SupplyPart ==
  ASSUME NEW b \in BOOLEAN
  PROVE  Part(Supply(b), Rear) /\ Range(Supply(b)) \subseteq Range(Supply(TRUE))
<1> DEFINE T == {"proxy_ca", "images", "registry", "artifacts"}
           A == Of("supply", <<"proxy_ca">>)
           B == Of("supply", <<"images", "registry", "artifacts">>)
<1>1. (\A t \in T : <<"supply", t>> \in Rear) /\ Resolves \notin Rear
  BY DEF Rear, Resolves
<1>2. \A c \in Rear : ~IsPki(c)
  BY Names DEF Rear, IsPki
<1>3. Before(Rear, Rear)
  BY <1>2 DEF Before
<1>4. A \in Seq(Rear) /\ B \in Seq(Rear) /\ <<>> \in Seq(Rear)
  <2>1. <<"images", "registry", "artifacts">> \in Seq(T)
    OBVIOUS
  <2>2. B \in Seq(Rear)
    <3> HIDE DEF T
    <3> QED
      BY <1>1, <2>1, OfFacts
  <2>3. A \in Seq(Rear)
    BY <1>1, OfOne
  <2> QED
    BY <2>2, <2>3
<1> HIDE DEF A, B
<1>5. Part(A, Rear) /\ Part(B, Rear) /\ Part(<<>>, Rear)
  BY <1>1, <1>2, <1>4, PlainPart
<1>6. ASSUME NEW s, Part(s, Rear)
      PROVE  Part(Join(s, B), Rear) /\ Range(Join(s, B)) = Range(s) \cup Range(B)
  <2>1. Rear \cup Rear \subseteq Rear
    OBVIOUS
  <2>2. Part(B, Rear) /\ Before(Rear, Rear)
    BY <1>3, <1>5
  <2> HIDE DEF B
  <2> QED
    BY <2>1, <2>2, <1>6, Joined
<1>7. Range(<<>>) = {}
  BY DEF Range
<1>8. Supply(TRUE) = Join(A, B) /\ Supply(FALSE) = Join(<<>>, B)
  BY DEF Supply, Join, A, B
<1> QED
  BY <1>5, <1>6, <1>7, <1>8

\* What the proofs need to know of the plan.
LEMMA PlanFacts ==
  ASSUME NEW b \in BOOLEAN
  PROVE  /\ Part(Plan[b], All)
         /\ Range(Plan[b]) \subseteq Check
<1> DEFINE Run == Of("run", <<"lock", "root", "commands">>)
           A == Join(Join(Run, Host), Network)
           B == Join(A, CertificateOf("elasticsearch"))
           C == Join(B, CertificateOf("kibana"))
           D == Join(C, CertificateOf("fleet"))
           S1 == Front \cup Certificate("elasticsearch")
           S2 == S1 \cup Certificate("kibana")
           S3 == S2 \cup Certificate("fleet")
           E(p) == Join(D, Supply(p))
<1>1. Part(A, Front)
  <2>1. Part(Join(Run, Host), Front)
    BY RunPart, HostPart, FrontJoined
  <2> QED
    BY <2>1, NetworkPart, FrontJoined
<1>2. ASSUME NEW s \in Three, NEW t \in Three, s # t
      PROVE  Before(Certificate(s), Certificate(t)) /\ Before(Certificate(s), Rear)
  BY <1>2, Names DEF Before, Certificate, Rear
<1>3. Part(B, S1)
  <2> HIDE DEF A
  <2> QED
    BY <1>1, CertificatePart, FrontFacts, Joined DEF Three
<1>4. Part(C, S2)
  <2>1. Before(S1, Certificate("kibana"))
    BY <1>2, FrontFacts DEF Before, Three
  <2> HIDE DEF B, S1
  <2> QED
    BY <1>3, <2>1, CertificatePart, Joined DEF Three
<1>5. Part(D, S3)
  <2>1. Before(S2, Certificate("fleet"))
    BY <1>2, FrontFacts DEF Before, Three
  <2> HIDE DEF C, S2
  <2> QED
    BY <1>4, <2>1, CertificatePart, Joined DEF Three
<1>6. ASSUME NEW p \in BOOLEAN
      PROVE  Part(E(p), All) /\ Range(E(p)) = Range(D) \cup Range(Supply(p))
  <2>1. Before(S3, Rear)
    BY <1>2, FrontFacts DEF Before, Three
  <2>2. S3 \cup Rear \subseteq All
    BY DEF All
  <2>3. Part(Supply(p), Rear)
    BY SupplyPart
  <2> HIDE DEF D, S3
  <2> QED
    BY <1>5, <2>1, <2>2, <2>3, Joined
<1>7. ASSUME NEW p \in BOOLEAN
      PROVE  Plan[p] = E(p)
  BY DEF Plan, Join
<1> HIDE DEF E, D
<1>8. Range(E(b)) \subseteq Range(E(TRUE))
  BY <1>6, SupplyPart
<1> QED
  BY <1>6, <1>7, <1>8 DEF Check


-----------------------------------------------------------------------------
(* Where preflight is in the plan.                                         *)

\* The plan of a state is ordered as every plan is.
LEMMA PlanNow ==
  /\ Len(plan) \in Nat /\ DOMAIN plan = 1..Len(plan)
  /\ Late(plan) /\ Followed(plan)
  /\ \A i \in DOMAIN plan : plan[i] \in Check /\ plan[i] \in All
<1>1. Part(plan, All) /\ Range(plan) \subseteq Check
  BY PlanFacts DEF plan, ProxyEnabled
<1>2. plan \in Seq(All)
  BY <1>1 DEF Part
<1>3. Len(plan) \in Nat /\ DOMAIN plan = 1..Len(plan) /\ \A i \in DOMAIN plan : plan[i] \in All
  BY <1>2, LenProperties, ElementOfSeq
<1>4. \A i \in DOMAIN plan : plan[i] \in Check
  BY <1>1 DEF Range
<1> QED
  BY <1>1, <1>3, <1>4 DEF Part

\* The kinds of checks do not overlap.
LEMMA AllFacts ==
  /\ \A c \in All : IsPort(c) => c[1] \in Service
  /\ \A c \in All : IsPki(c) => ~IsPort(c) /\ c \notin Advisory \cup Gate /\ c # Resolves /\ c # Address
  /\ Gate \cap Advisory = {} /\ Resolves \notin Gate \cup Advisory /\ Address # Resolves
<1>1. \A c \in Front : IsPort(c) => c[1] \in Service
  BY FrontFacts
<1>2. ASSUME NEW s
      PROVE  \A c \in Certificate(s) \cup Rear : ~IsPort(c)
  BY DEF Certificate, Rear, IsPort, Pki
<1>3. \A c \in All : IsPki(c) => ~IsPort(c)
  BY DEF IsPki, IsPort, Pki
<1>4. \A c \in Advisory \cup Gate \cup {Resolves, Address} : ~IsPki(c)
  BY DEF Advisory, Gate, Resolves, Address, IsPki, Pki
<1>5. Gate \cap Advisory = {} /\ Resolves \notin Gate \cup Advisory /\ Address # Resolves
  BY DEF Gate, Advisory, Resolves, Address
<1> QED
  BY <1>1, <1>2, <1>3, <1>4, <1>5 DEF All

\* After an early return the next check is of something else, and nothing but
\* the rest of this service's certificate is passed over.
LEMMA AfterPkiFacts ==
  ASSUME at \in DOMAIN plan
  PROVE  /\ AfterPki \in (at + 1)..(Len(plan) + 1)
         /\ \A k \in at..(AfterPki - 1) : plan[k][1] = Here[1]
<1> DEFINE P(n) == /\ n \in DOMAIN plan => plan[n][1] # Here[1]
                   /\ \A k \in at..(n - 1) : plan[k][1] = Here[1]
           T == {n \in (at + 1)..(Len(plan) + 1) : n \in DOMAIN plan => plan[n][1] # Here[1]}
<1>1. Len(plan) \in Nat /\ at \in Nat /\ at \in 1..Len(plan) /\ DOMAIN plan = 1..Len(plan)
  BY PlanNow
<1>2. PICK m \in T : \A n \in T : m <= n
  <2>1. Len(plan) + 1 \in T
    BY <1>1
  <2>2. T \subseteq Nat
    BY <1>1
  <2> HIDE DEF T
  <2> QED
    BY <2>1, <2>2, Least
<1>3. m \in (at + 1)..(Len(plan) + 1)
  BY <1>2
<1>4. ASSUME NEW k \in at..(m - 1)
      PROVE  plan[k][1] = Here[1]
  <2>1. CASE k = at
    BY <2>1 DEF Here
  <2>2. CASE k # at
    <3>1. k \in (at + 1)..(Len(plan) + 1) /\ ~(m <= k)
      BY <1>1, <1>3, <2>2
    <3>2. k \notin T
      BY <1>2, <3>1
    <3> QED
      BY <3>1, <3>2
  <2> QED
    BY <2>1, <2>2
<1>5. P(m)
  BY <1>2, <1>4
<1> HIDE DEF P
<1>6. AfterPki = CHOOSE n \in (at + 1)..(Len(plan) + 1) : P(n)
  BY DEF AfterPki, P
<1>7. AfterPki \in (at + 1)..(Len(plan) + 1) /\ P(AfterPki)
  BY <1>3, <1>5, <1>6
<1> QED
  BY <1>7 DEF P

\* What is passed over belongs to the certificate.
LEMMA PassedOver ==
  ASSUME at \in DOMAIN plan, IsPki(Here), NEW k \in DOMAIN plan, at <= k, k < AfterPki
  PROVE  IsPki(plan[k]) /\ plan[k][1] = Here[1]
<1>1. Len(plan) \in Nat /\ at \in Nat /\ k \in Nat /\ AfterPki \in Nat
  BY PlanNow, AfterPkiFacts
<1>2. k \in at..(AfterPki - 1)
  BY <1>1
<1>3. plan[k][1] = Here[1]
  BY <1>2, AfterPkiFacts
<1>4. k = at \/ at < k
  BY <1>1
<1> QED
  BY <1>3, <1>4, PlanNow DEF Late, Here

\* What CheckReport.add does to the failures.
LEMMA Added ==
  ASSUME NEW status, Add(status)
  PROVE  /\ Failed' = Failed \cup (IF status = "FAIL" THEN {Here} ELSE {})
         /\ report \subseteq report'
<1>1. report' = report \cup {<<Here, status>>}
  BY DEF Add
<1>2. <<Here, status>>[1] = Here /\ <<Here, status>>[2] = status
  OBVIOUS
<1>3. \A e \in report' : e \in report \/ e = <<Here, status>>
  BY <1>1
<1>4. Failed' \subseteq Failed \cup (IF status = "FAIL" THEN {Here} ELSE {})
  BY <1>2, <1>3 DEF Failed
<1>5. Failed \subseteq Failed'
  BY <1>1 DEF Failed
<1>6. status = "FAIL" => Here \in Failed'
  <2>1. <<Here, status>> \in report'
    BY <1>1
  <2> QED
    BY <1>2, <2>1 DEF Failed
<1> QED
  BY <1>1, <1>4, <1>5, <1>6

-----------------------------------------------------------------------------
(* Types.                                                                  *)

Ready ==
  /\ TypeOK
  /\ unit \in [Service -> {"inactive", "activating", "active"}]
  /\ \A c \in defects : ~IsPort(c)
  /\ timeouts \in Nat /\ moves \in Nat
  /\ at > 0 => Accepted(doc)

\* Types and position are in order at the start.
LEMMA ReadyInit == Init => Ready
<1> SUFFICES ASSUME Init PROVE Ready
  OBVIOUS
<1>1. defects \subseteq Check /\ \A c \in defects : ~IsPort(c)
  BY DefectsAssumption DEF Init
<1>2. at = 0 /\ seen = FALSE /\ report = {} /\ outcome = "running" /\ timeouts = 0 /\ moves = 0
  BY DEF Init
<1>3. at \in 0..(Len(plan) + 1) /\ ~(at > 0)
  BY <1>2, PlanNow
<1>4. \A s \in Service : unit[s] # "inactive" => port[s] = "ours"
  BY DEF Init
<1> QED
  BY <1>1, <1>2, <1>3, <1>4 DEF Init, Ready, TypeOK

\* The checks only move on in the plan.
LEMMA ReadyStep ==
  ASSUME Ready, [Next]_vars
  PROVE  Ready'
<1>0. /\ Len(plan) \in Nat /\ DOMAIN plan = 1..Len(plan) /\ at \in 0..(Len(plan) + 1)
      /\ \A i \in DOMAIN plan : plan[i] \in Check /\ plan[i] \in All
  BY PlanNow DEF Ready, TypeOK
<1>1. CASE UNCHANGED vars
  BY <1>1 DEF vars, host, Ready, TypeOK, plan, Here
<1>2. ASSUME NEW s \in Service, UnitMoves(s) \/ ForeignMoves(s)
      PROVE  Ready'
  <2>1. UNCHANGED <<doc, defects, at, seen, report, outcome, timeouts>> /\ moves' = moves + 1
    BY <1>2 DEF UnitMoves, ForeignMoves, Move
  <2>2. PICK p, u : /\ port' = [port EXCEPT ![s] = p] /\ unit' = [unit EXCEPT ![s] = u]
                    /\ p \in {"free", "ours", "foreign"} /\ u \in {"inactive", "activating", "active"}
                    /\ u # "inactive" => p = "ours"
    BY <1>2 DEF UnitMoves, ForeignMoves, Move, Ready, TypeOK
  <2>3. /\ port' \in [Service -> {"free", "ours", "foreign"}]
        /\ unit' \in [Service -> {"inactive", "activating", "active"}]
        /\ \A t \in Service : unit'[t] # "inactive" => port'[t] = "ours"
    BY <2>2 DEF Ready, TypeOK
  <2> QED
    BY <2>1, <2>3 DEF Ready, TypeOK, plan, Here
<1>3. ASSUME Proceed
      PROVE  Ready'
  <2>1. UNCHANGED <<doc, defects, port, unit, moves>>
    BY <1>3 DEF Proceed, Load, Judge, JudgeCertificate, SeeListener, AskUnit, TimesOut, PrintReport,
               host
  <2>2. plan' = plan
    BY <2>1 DEF plan
  <2>3. timeouts' \in Nat
    BY <1>3 DEF Ready, Proceed, Load, Judge, JudgeCertificate, SeeListener, AskUnit, TimesOut,
               PrintReport
  <2>4. report' = report \/ (Going /\ \E status \in {"PASS", "WARN", "FAIL"} : Add(status))
    BY <1>3 DEF Proceed, Load, Judge, JudgeCertificate, SeeListener, AskUnit, TimesOut,
               PrintReport, Exit
  <2>5. report' \subseteq Check \X {"PASS", "WARN", "FAIL"}
    BY <1>0, <2>4 DEF Add, Going, Here, Ready, TypeOK
  <2>6. outcome' \in {"running", "passed", "failed", "error"}
    BY <1>3 DEF Ready, TypeOK, Proceed, Load, Judge, JudgeCertificate, SeeListener, AskUnit,
               TimesOut, PrintReport, Exit
  <2>7. /\ at' \in 0..(Len(plan) + 1)
        /\ seen' => at' \in DOMAIN plan /\ IsPort(plan[at'])
        /\ at' > 0 => Accepted(doc)
    <3>1. CASE Load
      BY <1>0, <3>1 DEF Load, Exit, Ready, TypeOK, Here
    <3>2. CASE PrintReport
      BY <1>0, <3>2 DEF PrintReport, Exit, Ready, TypeOK, Here
    <3>3. CASE Judge
      <4>1. at \in DOMAIN plan /\ ~IsPort(Here) /\ seen' = seen /\ at > 0
        BY <1>0, <3>3 DEF Judge, Going
      <4>2. ~seen' /\ Accepted(doc)
        BY <4>1 DEF Ready, TypeOK
      <4>3. at' \in {Len(plan) + 1, at + 1} \/ (Here = Resolves /\ at' = at + 2)
        BY <3>3 DEF Judge, Resolves
      <4>4. Here = Resolves => at + 1 \in DOMAIN plan
        BY <4>1, PlanNow DEF Followed, Here
      <4>5. at' \in 0..(Len(plan) + 1)
        BY <1>0, <4>1, <4>3, <4>4
      <4> QED
        BY <4>2, <4>5
    <3>4. CASE (JudgeCertificate \/ TimesOut) /\ IsPki(Here)
      <4>1. at \in DOMAIN plan /\ seen' = seen /\ at > 0
        BY <1>0, <3>4 DEF JudgeCertificate, TimesOut, Going, Exit
      <4>2. ~seen' /\ Accepted(doc)
        BY <1>0, <3>4, <4>1, AllFacts DEF Ready, TypeOK, Here
      <4>3. at' \in {AfterPki, at + 1}
        BY <3>4 DEF JudgeCertificate, TimesOut, Finds
      <4>4. at' \in 0..(Len(plan) + 1)
        BY <1>0, <4>1, <4>3, AfterPkiFacts
      <4> QED
        BY <4>2, <4>4
    <3>5. CASE TimesOut /\ ~IsPki(Here)
      BY <1>0, <3>5 DEF TimesOut, Exit, Ready, TypeOK, Here
    <3>6. CASE SeeListener
      BY <1>0, <3>6 DEF SeeListener, Going, Ready, TypeOK, Here
    <3>7. CASE AskUnit
      BY <1>0, <3>7 DEF AskUnit, Going, Ready, TypeOK, Here
    <3> QED
      BY <1>3, <3>1, <3>2, <3>3, <3>4, <3>5, <3>6, <3>7 DEF Proceed, JudgeCertificate
  <2> QED
    BY <2>1, <2>2, <2>3, <2>5, <2>6, <2>7 DEF Ready, TypeOK, Here
<1> QED
  BY <1>1, <1>2, <1>3 DEF Next

\* They are in every reachable state.
LEMMA ReadyAlways == Spec => []Ready
<1>1. Ready /\ [Next]_vars => Ready'
  BY ReadyStep
<1> QED
  BY <1>1, ReadyInit, PTL DEF Spec

\* Every variable holds what preflight or its surroundings can put there, and a
\* unit that is up is the one that listens: no early return leaves the plan, and
\* a look at a listener ends with the port it was for.
THEOREM TypeCorrect == Spec => []TypeOK
<1>1. Ready => TypeOK
  BY DEF Ready
<1> QED
  BY <1>1, ReadyAlways, PTL

\* What the code accepts the schema accepts, but for the cases named.
THEOREM AcceptedMeetsSchema == Spec => []AcceptedIsValid
<1>1. ASSUME NEW d \in Document, Accepted(d)
      PROVE  \/ SchemaValid(d)
             \/ d.proxy.is = "object" /\ d.proxy.url = "absent"
             \/ d.schema # "text"
  <2>1. ~Rejected(d) /\ ~Escapes(d)
    BY <1>1 DEF Accepted
  <2>2. d.file = "object"
    BY <2>1 DEF Document, File, Rejected, Escapes
  <2>3. /\ ~d.services /\ ~d.stray /\ d.proxy.is # "absent" /\ d.host = "name"
        /\ ~ProxyRejected(d.proxy)
    BY <2>1, <2>2 DEF Rejected
  <2>4. d.proxy \in Proxy
    BY DEF Document
  <2>5. d.proxy.is # "other" /\ ~d.proxy.stray /\ d.proxy.noProxy \in {"absent", "names"}
        /\ d.proxy.url \in {"absent", "null", "bracket", "origin"}
    BY <2>3 DEF ProxyRejected
  <2>6. d.proxy.is \in {"null", "object"}
    BY <2>3, <2>4, <2>5 DEF Proxy
  <2> QED
    BY <2>2, <2>3, <2>5, <2>6 DEF SchemaValid
<1>2. Ready => AcceptedIsValid
  BY <1>1 DEF Ready, TypeOK, AcceptedIsValid
<1> QED
  BY <1>2, ReadyAlways, PTL


-----------------------------------------------------------------------------
(* What has been looked at.                                                *)

\* What a report with the failures F has on d.
Accounted(F, d) ==
  \/ d \in F
  \/ IsPki(d) /\ \E f \in F : IsPki(f) /\ f[1] = d[1]
  \/ d = Address /\ Resolves \in F

\* What is behind and not met is in the report, itself or through the failure
\* that hid it; and a report that is printed is about the whole plan.
Progress ==
  /\ Failed \cap Gate = {} =>
       \A j \in DOMAIN plan : j < at /\ plan[j] \in Unmet => Accounted(Failed, plan[j])
  /\ outcome \in {"passed", "failed"} => at = Len(plan) + 1
  /\ outcome = "passed" => Failed = {}
  /\ outcome = "failed" => Failed # {}

\* A check that moves on, if what it passes over is accounted for.
LEMMA ProgressMoves ==
  ASSUME Ready, Progress, Going, UNCHANGED <<doc, defects, outcome>>, Failed \subseteq Failed',
         Failed' \cap Gate = {} =>
           \A j \in DOMAIN plan : at <= j /\ j < at' /\ plan[j] \in Unmet => Accounted(Failed', plan[j])
  PROVE  Progress'
<1>1. plan' = plan /\ Unmet' = Unmet
  BY DEF plan, Unmet
<1>2. outcome' = "running"
  BY DEF Going
<1>3. ASSUME Failed' \cap Gate = {}, NEW j \in DOMAIN plan, j < at', plan[j] \in Unmet
      PROVE  Accounted(Failed', plan[j])
  <2>1. CASE at <= j
    BY <1>3, <2>1
  <2>2. CASE j < at
    <3>1. Accounted(Failed, plan[j])
      BY <1>3, <2>2 DEF Progress
    <3> QED
      BY <3>1 DEF Accounted
  <2>3. at \in Nat /\ j \in Nat
    BY PlanNow DEF Ready, TypeOK
  <2> QED
    BY <2>1, <2>2, <2>3
<1>4. Failed' \cap Gate = {} =>
        \A j \in DOMAIN plan' : j < at' /\ plan'[j] \in Unmet' => Accounted(Failed', plan'[j])
  BY <1>1, <1>3
<1> QED
  BY <1>1, <1>2, <1>4 DEF Progress

\* A check that is behind has been judged, or an early return has left it out after
\* a failure that says so.
LEMMA ProgressStep ==
  ASSUME Ready, Ready', Progress, [Next]_vars
  PROVE  Progress'
<1>0. /\ Len(plan) \in Nat /\ DOMAIN plan = 1..Len(plan) /\ at \in Nat
      /\ \A i \in DOMAIN plan : plan[i] \in Check /\ plan[i] \in All
  BY PlanNow DEF Ready, TypeOK
<1>00. \A j \in DOMAIN plan : at <= j /\ j < at + 1 => plan[j] = Here
  BY <1>0 DEF Here
<1>1. CASE UNCHANGED vars
  BY <1>1 DEF vars, host, Progress, Accounted, Failed, Unmet, plan
<1>2. ASSUME NEW s \in Service, UnitMoves(s) \/ ForeignMoves(s)
      PROVE  Progress'
  BY <1>2 DEF UnitMoves, ForeignMoves, Move, Progress, Accounted, Failed, Unmet, plan
<1>3. CASE Load
  <2>1. UNCHANGED <<doc, defects, report>> /\ at = 0 /\ outcome = "running"
        /\ (at' = 1 \/ outcome' = "error") /\ at' \in {0, 1} /\ outcome' \in {"running", "error"}
    BY <1>3 DEF Load, Exit
  <2>2. \A j \in DOMAIN plan : ~(j < at')
    BY <1>0, <2>1
  <2> QED
    BY <2>1, <2>2 DEF Progress, plan
<1>4. CASE Judge
  <2>1. Going /\ UNCHANGED <<doc, defects, outcome>> /\ ~IsPort(Here) /\ ~IsPki(Here)
    BY <1>4 DEF Judge
  <2>2. PICK status : Add(status) /\ (Here \in defects \ Advisory => status = "FAIL")
    BY <1>4 DEF Judge
  <2>3. Failed \subseteq Failed' /\ (Here \in defects \ Advisory => Here \in Failed')
    BY <2>2, Added
  <2>4. ASSUME Failed' \cap Gate = {}, NEW j \in DOMAIN plan, at <= j, j < at', plan[j] \in Unmet
        PROVE  Accounted(Failed', plan[j])
    <3>1. Here \notin Gate \cap defects
      BY <2>3, <2>4, AllFacts
    <3>2. at' = IF Here = Resolves /\ Here \in defects THEN at + 2 ELSE at + 1
      BY <1>4, <3>1 DEF Judge, Resolves
    <3>3. CASE plan[j] = Here
      BY <2>3, <2>4, <3>3 DEF Unmet, Accounted
    <3>4. CASE plan[j] # Here
      <4>1. at' = at + 2 /\ j = at + 1 /\ Here = Resolves /\ Here \in defects
        BY <1>0, <1>00, <2>4, <3>2, <3>4
      <4>2. plan[j] = Address
        BY <2>1, <4>1, PlanNow DEF Followed, Going, Here
      <4>3. Resolves \in Failed'
        BY <2>3, <4>1, AllFacts
      <4> QED
        BY <4>2, <4>3 DEF Accounted
    <3> QED
      BY <3>3, <3>4
  <2> QED
    BY <2>1, <2>3, <2>4, ProgressMoves
<1>5. CASE (JudgeCertificate \/ TimesOut) /\ IsPki(Here) /\ Add("FAIL") /\ at' = AfterPki
  <2>1. Going /\ UNCHANGED <<doc, defects, outcome>>
    BY <1>5 DEF JudgeCertificate, TimesOut
  <2>2. Failed \subseteq Failed' /\ Here \in Failed'
    BY <1>5, Added
  <2>3. ASSUME NEW j \in DOMAIN plan, at <= j, j < at'
        PROVE  Accounted(Failed', plan[j])
    <3>1. IsPki(plan[j]) /\ plan[j][1] = Here[1]
      BY <1>5, <2>1, <2>3, PassedOver DEF Going
    <3> QED
      BY <1>5, <2>2, <3>1 DEF Accounted
  <2> QED
    BY <2>1, <2>2, <2>3, ProgressMoves
<1>6. CASE JudgeCertificate /\ ~(Add("FAIL") /\ at' = AfterPki)
  <2>1. Going /\ UNCHANGED <<doc, defects, outcome>> /\ at' = at + 1
    BY <1>6 DEF JudgeCertificate
  <2>2. Here \notin defects \/ Here[2] = "name"
    BY <1>6 DEF JudgeCertificate, Finds
  <2>3. Failed \subseteq Failed'
    <3>1. Add("PASS") \/ UNCHANGED report
      BY <1>6 DEF JudgeCertificate
    <3> QED
      BY <3>1, Added DEF Failed
  <2>4. Here \notin Unmet
    BY <2>2 DEF Unmet
  <2> QED
    BY <1>00, <2>1, <2>3, <2>4, ProgressMoves
<1>7. CASE SeeListener \/ AskUnit
  <2>1. Going /\ UNCHANGED <<doc, defects, outcome>> /\ at' \in {at, at + 1} /\ IsPort(Here)
    BY <1>7 DEF SeeListener, AskUnit
  <2>2. Failed \subseteq Failed'
    <3>1. UNCHANGED report \/ \E status : Add(status)
      BY <1>7 DEF SeeListener, AskUnit
    <3> QED
      BY <3>1, Added DEF Failed
  <2>3. Here \notin Unmet
    BY <2>1 DEF Unmet, Ready
  <2>4. \A j \in DOMAIN plan : at <= j /\ j < at' => plan[j] = Here
    BY <1>0, <1>00, <2>1
  <2> QED
    BY <2>1, <2>2, <2>3, <2>4, ProgressMoves
<1>8. CASE TimesOut /\ ~(IsPki(Here) /\ Add("FAIL") /\ at' = AfterPki)
  <2>1. UNCHANGED <<doc, defects, report, at>> /\ outcome' = "error"
    BY <1>8 DEF TimesOut, Exit
  <2> QED
    BY <2>1 DEF Progress, Accounted, Failed, Unmet, plan
<1>9. CASE PrintReport
  <2>1. UNCHANGED <<doc, defects, report, at>> /\ at = Len(plan) + 1
        /\ outcome' = IF Failed = {} THEN "passed" ELSE "failed"
    BY <1>9 DEF PrintReport, Exit
  <2> QED
    BY <2>1 DEF Progress, Accounted, Failed, Unmet, plan
<1>10. JudgeCertificate => IsPki(Here)
  BY DEF JudgeCertificate
<1> QED
  BY <1>1, <1>2, <1>3, <1>4, <1>5, <1>6, <1>7, <1>8, <1>9, <1>10 DEF Next, Proceed

\* That holds in every reachable state.
LEMMA ProgressAlways == Spec => []Progress
<1>1. Init => Progress
  <2> SUFFICES ASSUME Init PROVE Progress
    OBVIOUS
  <2>1. at = 0 /\ outcome = "running"
    BY DEF Init
  <2>2. \A j \in DOMAIN plan : ~(j < at)
    BY <2>1, PlanNow
  <2> QED
    BY <2>1, <2>2 DEF Progress
<1>2. Ready /\ Ready' /\ Progress /\ [Next]_vars => Progress'
  BY ProgressStep
<1> QED
  BY <1>1, <1>2, ReadyAlways, PTL DEF Spec

\* When the report is printed everything the host does not meet is accounted for.
LEMMA AllAccounted ==
  ASSUME Progress, outcome \in {"passed", "failed"}, Failed \cap Gate = {}, NEW d \in Unmet
  PROVE  Accounted(Failed, d)
<1>1. PICK j \in DOMAIN plan : plan[j] = d
  BY DEF Unmet, Range
<1>2. j < at
  BY <1>1, PlanNow DEF Progress
<1> QED
  BY <1>1, <1>2 DEF Progress

\* preflight, and the gate in front of deploy, let no host through that lacks
\* something the code looks for.
THEOREM PassedHostsAreFit == Spec => []PassMeansFit
<1>1. Progress => PassMeansFit
  <2> SUFFICES ASSUME Progress, outcome = "passed", NEW d \in Unmet
               PROVE  FALSE
    BY DEF PassMeansFit
  <2>1. Failed = {}
    BY DEF Progress
  <2>2. Accounted(Failed, d)
    BY <2>1, AllAccounted
  <2> QED
    BY <2>1, <2>2 DEF Accounted
<1> QED
  BY <1>1, ProgressAlways, PTL

\* A report that went past the gates names everything that is wrong at once.
THEOREM ReportNamesEverything == Spec => []NamesEverything
<1>1. Progress => NamesEverything
  <2> SUFFICES ASSUME Progress, outcome \in {"passed", "failed"}, Failed \cap Gate = {},
                      NEW d \in Unmet
               PROVE  \/ d \in Failed
                      \/ IsPki(d) /\ \E f \in Failed : IsPki(f) /\ f[1] = d[1]
                      \/ d = <<"network", "ipv4">> /\ <<"network", "resolves">> \in Failed
    BY DEF NamesEverything
  <2>1. Accounted(Failed, d)
    BY AllAccounted
  <2> QED
    BY <2>1 DEF Accounted, Address, Resolves
<1> QED
  BY <1>1, ProgressAlways, PTL

-----------------------------------------------------------------------------
(* A fit host that nothing disturbs.                                       *)

Undisturbed ==
  /\ defects \subseteq Advisory /\ Accepted(doc)
  /\ timeouts = 0 /\ moves = 0
  /\ \A s \in Service : port[s] # "foreign" /\ unit[s] # "activating"

FitInv ==
  /\ moves = 0 => \A s \in Service : port[s] = "ours" <=> unit[s] # "inactive"
  /\ Undisturbed =>
       /\ Failed = {} /\ outcome # "error"
       /\ seen => port[Here[1]] # "free"

\* Nothing is reported against a host that meets everything and is not disturbed.
LEMMA FitInvStep ==
  ASSUME Ready, Progress, FitInv, [Next]_vars
  PROVE  FitInv'
<1>0. /\ \A i \in DOMAIN plan : plan[i] \in All
      /\ moves \in Nat /\ timeouts \in Nat
  BY PlanNow DEF Ready
<1>1. CASE UNCHANGED vars
  BY <1>1 DEF vars, host, FitInv, Undisturbed, Failed, Here, plan
<1>2. ASSUME NEW s \in Service, UnitMoves(s) \/ ForeignMoves(s)
      PROVE  FitInv'
  <2>1. moves' = moves + 1
    BY <1>2 DEF UnitMoves, ForeignMoves, Move
  <2>2. moves' # 0
    BY <1>0, <2>1
  <2> QED
    BY <2>2 DEF FitInv, Undisturbed
<1>3. ASSUME Proceed
      PROVE  FitInv'
  <2>1. UNCHANGED <<doc, defects, port, unit, moves>>
    BY <1>3 DEF Proceed, Load, Judge, JudgeCertificate, SeeListener, AskUnit, TimesOut, PrintReport,
               host
  <2>2. plan' = plan
    BY <2>1 DEF plan
  <2>3. SUFFICES ASSUME Undisturbed'
                 PROVE  /\ Failed' = {} /\ outcome' # "error"
                        /\ seen' => port[plan[at'][1]] # "free"
    BY <2>1, <2>2 DEF FitInv, Here
  <2>4. ~TimesOut
    BY <1>0, <2>3 DEF TimesOut, Undisturbed
  <2>5. Undisturbed
    <3>1. timeouts' = timeouts
      BY <1>3, <2>4 DEF Proceed, Load, Judge, JudgeCertificate, SeeListener, AskUnit, PrintReport
    <3> QED
      BY <2>1, <2>3, <3>1 DEF Undisturbed
  <2>6. Failed = {} /\ outcome # "error" /\ (seen => port[Here[1]] # "free")
        /\ (seen => IsPort(Here) /\ at \in DOMAIN plan)
    BY <2>5 DEF FitInv, Ready, TypeOK
  <2>7. CASE Load
    BY <2>5, <2>6, <2>7 DEF Load, Exit, Undisturbed, Failed, Ready, TypeOK, Here
  <2>8. CASE Judge
    <3>1. PICK status : Add(status) /\ (status = "FAIL" => Here \in defects \ Advisory)
      BY <2>8 DEF Judge
    <3>2. status # "FAIL"
      BY <2>5, <3>1 DEF Undisturbed
    <3> QED
      BY <2>6, <2>8, <3>1, <3>2, Added DEF Judge, Going
  <2>9. CASE JudgeCertificate
    <3>1. Here \notin defects
      BY <1>0, <2>5, <2>9, AllFacts DEF JudgeCertificate, Going, Here, Undisturbed
    <3>2. Add("PASS") \/ UNCHANGED report
      BY <2>9, <3>1 DEF JudgeCertificate, Finds
    <3>3. ~IsPort(Here) /\ UNCHANGED <<seen, outcome>>
      BY <1>0, <2>9, AllFacts DEF JudgeCertificate, Going, Here
    <3>4. Failed' = Failed
      BY <3>2, Added DEF Failed
    <3> QED
      BY <2>6, <3>3, <3>4
  <2>10. CASE SeeListener
    <3>1. CASE port[Here[1]] = "free"
      <4>1. Add("PASS") /\ seen' = seen /\ ~seen /\ outcome' = outcome
        BY <2>10, <3>1 DEF SeeListener
      <4> QED
        BY <2>6, <4>1, Added
    <3>2. CASE port[Here[1]] # "free"
      <4>1. UNCHANGED <<report, at, outcome>>
        BY <2>10, <3>2 DEF SeeListener
      <4> QED
        BY <2>6, <3>2, <4>1 DEF Failed, Here
    <3> QED
      BY <3>1, <3>2
  <2>11. CASE AskUnit
    <3>1. Here[1] \in Service
      BY <1>0, <2>11, AllFacts DEF AskUnit, Going, Here
    <3>2. port[Here[1]] = "ours"
      BY <2>5, <2>6, <2>11, <3>1 DEF AskUnit, Undisturbed, Ready, TypeOK
    <3>3. unit[Here[1]] = "active"
      BY <2>5, <3>1, <3>2 DEF FitInv, Undisturbed, Ready
    <3>4. Add("PASS") /\ seen' = FALSE /\ outcome' = outcome
      BY <2>11, <3>3 DEF AskUnit
    <3> QED
      BY <2>6, <3>4, Added
  <2>12. CASE PrintReport
    BY <2>6, <2>12 DEF PrintReport, Exit, Failed, Here
  <2> QED
    BY <1>3, <2>4, <2>7, <2>8, <2>9, <2>10, <2>11, <2>12 DEF Proceed
<1> QED
  BY <1>1, <1>2, <1>3 DEF Next

\* A host that meets everything and that nothing disturbs passes, also while the
\* services of an earlier deploy hold the ports.
THEOREM FitHostsPass == Spec => []FitHostPasses
<1>1. Init => FitInv
  BY DEF Init, FitInv, Failed
<1>2. Ready /\ Progress /\ FitInv /\ [Next]_vars => FitInv'
  BY FitInvStep
<1>3. Ready /\ Progress /\ FitInv => FitHostPasses
  <2> SUFFICES ASSUME Ready, Progress, FitInv, outcome \in {"failed", "error"},
                      defects \ Advisory = {}, Accepted(doc), ~(timeouts > 0), ~(moves > 0),
                      \A s \in Service : ~(port[s] = "foreign" \/ unit[s] = "activating")
               PROVE  FALSE
    BY DEF FitHostPasses
  <2>1. timeouts = 0 /\ moves = 0
    BY DEF Ready
  <2>2. Undisturbed
    BY <2>1 DEF Undisturbed
  <2> QED
    BY <2>2 DEF FitInv, Progress
<1> QED
  BY <1>1, <1>2, <1>3, ReadyAlways, ProgressAlways, PTL DEF Spec

\* A port is passed only when no other process holds it at that moment.
THEOREM PortsPassRightly == Spec => PortPassIsJustified
<1>1. ASSUME Ready, [Next]_vars, NEW s \in Service,
             <<<<s, "port">>, "PASS">> \in report' \ report
      PROVE  port[s] # "foreign"
  <2>1. PICK status : Add(status) /\ Proceed
    BY <1>1 DEF Next, Proceed, Load, Judge, JudgeCertificate, SeeListener, AskUnit, TimesOut,
               PrintReport, Exit, vars, UnitMoves, ForeignMoves, Move
  <2>2. Here = <<s, "port">> /\ status = "PASS"
    BY <1>1, <2>1 DEF Add
  <2>3. Here[1] = s /\ IsPort(Here) /\ ~IsPki(Here)
    BY <2>2 DEF IsPort, IsPki, Pki
  <2>4. SeeListener \/ AskUnit
    BY <1>1, <2>1, <2>3 DEF Proceed, Load, Judge, JudgeCertificate, TimesOut, PrintReport, Exit
  <2>5. CASE SeeListener
    BY <1>1, <2>3, <2>5 DEF SeeListener
  <2>6. CASE AskUnit
    <3>1. unit[s] = "active"
      <4>1. Add(IF unit[s] = "active" THEN "PASS" ELSE "FAIL")
        BY <2>3, <2>6 DEF AskUnit
      <4> QED
        BY <1>1, <2>2, <4>1 DEF Add
    <3> QED
      BY <1>1, <3>1 DEF Ready, TypeOK
  <2> QED
    BY <2>4, <2>5, <2>6
<1>2. Ready /\ [Next]_vars =>
        [\A s \in Service :
           LET pass == <<<<s, "port">>, "PASS">>
           IN  pass \in report' \ report => port[s] # "foreign"]_vars
  BY <1>1
<1> QED
  BY <1>2, ReadyAlways, PTL DEF Spec, PortPassIsJustified
================================================================================
