----------------------------- MODULE Sdam_proofs -----------------------------
(***************************************************************************)
(* The safety invariants of Sdam, for any set of addresses, any replies    *)
(* and any number of servers.  First what each operation on a description  *)
(* does to its servers, then one entry of the transition table after the   *)
(* other, then the order of the elections.                                 *)
(***************************************************************************)
EXTENDS Sdam, FiniteSetTheorems, FunctionTheorems, TLAPS

(* The fields of a server description and of a topology description.       *)
SdShape(sd) ==
  sd = [id |-> sd.id, type |-> sd.type, setName |-> sd.setName,
        hosts |-> sd.hosts, electionId |-> sd.electionId,
        setVersion |-> sd.setVersion, wire |-> sd.wire,
        timeout |-> sd.timeout, tv |-> sd.tv, generation |-> sd.generation]

Shape(d) ==
  /\ d = [type |-> d.type, setName |-> d.setName,
          maxElectionId |-> d.maxElectionId,
          maxSetVersion |-> d.maxSetVersion, maxServerId |-> d.maxServerId,
          sessionTimeout |-> d.sessionTimeout, compatible |-> d.compatible,
          servers |-> d.servers]
  /\ d.servers = [a \in Addresses |-> d.servers[a]]

(* Their types.                                                            *)
SdTyped(sd, n) ==
  /\ SdShape(sd)
  /\ sd.id \in 0 .. n /\ sd.type \in ServerTypes /\ sd.hosts \subseteq Addresses
  /\ sd.electionId \in Nat /\ sd.setVersion \in Nat \cup {NoSetVersion}
  /\ sd.id = 0 => sd = Absent

Typed(d) ==
  /\ Shape(d)
  /\ d.type \in TopologyTypes /\ d.compatible \in BOOLEAN
  /\ d.maxServerId \in Nat
  /\ d.maxElectionId \in Nat /\ d.maxSetVersion \in Nat \cup {NoSetVersion}
  /\ \A a \in Addresses : SdTyped(d.servers[a], d.maxServerId)

(* Two descriptions that agree on all but their servers and their type.    *)
SameHistory(d, u) ==
  /\ u.maxElectionId = d.maxElectionId /\ u.maxSetVersion = d.maxSetVersion

IsPrimary(d, a) == d.servers[a].type = "RSPrimary"

(* The primary of each type of topology; a direct connection has only one  *)
(* server.                                                                 *)
PrimaryInv(d) ==
  /\ \A a, b \in Addresses : IsPrimary(d, a) /\ IsPrimary(d, b) => a = b
  /\ d.type \in {"Unknown", "Sharded", "RSNoPrimary"} =>
       \A a \in Addresses : ~IsPrimary(d, a)
  /\ d.type = "Single" => \A a, b \in Members(d) : a = b
  /\ d.type \in RsTypes => \A a \in Addresses : IsPrimary(d, a) =>
       Members(d) \subseteq d.servers[a].hosts

Sound(d) == Typed(d) /\ PrimaryInv(d)

(* The order of elections (electionId, setVersion) that a deployment uses. *)
Leq(e, f) ==
  IF ElectionFirst(deployment)
    THEN e[1] < f[1] \/ (e[1] = f[1] /\ e[2] <= f[2])
    ELSE e[2] < f[2] \/ (e[2] = f[2] /\ e[1] <= f[1])

(* The elections the history knows never exceed the ones the description   *)
(* remembers, and every one that was replaced came before the latest.      *)
Pairs == Nat \X (Nat \cup {NoSetVersion})
ElectionInv ==
  /\ latest \in Pairs /\ passed \subseteq Pairs
  /\ Elections(td) \subseteq {latest}
  /\ Leq(latest, <<td.maxElectionId, td.maxSetVersion>>)
  /\ \A e \in passed : Leq(e, latest) /\ e # latest

IInv == /\ Sound(td) /\ td.maxServerId <= MaxServerId
        /\ ElectionInv /\ deployment \in Deployments

----------------------------------------------------------------------------
(***************************************************************************)
(* The operations on descriptions.                                         *)
(***************************************************************************)
(* A reset server description is Unknown and keeps its id.                 *)
LEMMA ResetTyped ==
  ASSUME NEW n \in Nat, NEW sd, SdTyped(sd, n)
  PROVE  /\ SdTyped(ResetSd(sd), n)
         /\ ResetSd(sd).id = sd.id /\ ResetSd(sd).type = "Unknown"
<1>1. ResetSd(Absent) = Absent
  BY DEF ResetSd, Absent, NewSd
<1> QED
  BY <1>1 DEF SdTyped, SdShape, ResetSd, ServerTypes, NoSetVersion

(* A new one as well, with the id it is given.                             *)
LEMMA NewTyped ==
  ASSUME NEW n \in Nat, NEW id \in 0 .. n
  PROVE  /\ SdTyped(NewSd(id), n)
         /\ NewSd(id).id = id /\ NewSd(id).type = "Unknown"
BY DEF SdTyped, SdShape, NewSd, ResetSd, Absent, ServerTypes, NoSetVersion

(* One server description is replaced.                                     *)
LEMMA SetServerTyped ==
  ASSUME NEW d, Typed(d), NEW a \in Addresses, NEW sd,
         SdTyped(sd, d.maxServerId)
  PROVE  LET u == SetServer(d, a, sd)
         IN  /\ Typed(u) /\ SameHistory(d, u)
             /\ u.type = d.type /\ u.setName = d.setName
             /\ u.maxServerId = d.maxServerId
             /\ u.servers[a] = sd
             /\ \A b \in Addresses : b # a => u.servers[b] = d.servers[b]
<1> DEFINE u == SetServer(d, a, sd)
<1>1. /\ u.type = d.type /\ u.setName = d.setName
      /\ u.maxElectionId = d.maxElectionId
      /\ u.maxSetVersion = d.maxSetVersion /\ u.maxServerId = d.maxServerId
      /\ u.compatible = d.compatible
      /\ u.servers = [d.servers EXCEPT ![a] = sd]
  BY DEF SetServer, Typed, Shape
<1>2. Shape(u) /\ u.servers[a] = sd
      /\ \A b \in Addresses : b # a => u.servers[b] = d.servers[b]
  BY DEF SetServer, Typed, Shape
<1> HIDE DEF u
<1>3. Typed(u) /\ SameHistory(d, u)
  BY <1>1, <1>2 DEF Typed, SameHistory
<1> QED
  BY <1>1, <1>2, <1>3 DEF u

(* A server is removed.                                                    *)
LEMMA RemoveTyped ==
  ASSUME NEW d, Typed(d), NEW a \in Addresses
  PROVE  LET u == RemoveServer(d, a)
         IN  /\ Typed(u) /\ SameHistory(d, u)
             /\ u.type = d.type /\ u.setName = d.setName
             /\ u.maxServerId = d.maxServerId
             /\ u.servers[a] = Absent
             /\ \A b \in Addresses : b # a => u.servers[b] = d.servers[b]
<1>1. SdTyped(Absent, d.maxServerId)
  BY NewTyped DEF Absent, Typed
<1> QED
  BY <1>1, SetServerTyped DEF RemoveServer

(* The type of the topology changes.                                       *)
LEMMA SetStateTyped ==
  ASSUME NEW d, Typed(d), NEW type \in TopologyTypes
  PROVE  LET u == SetState(d, type)
         IN  /\ Typed(u) /\ SameHistory(d, u)
             /\ u.type = type /\ u.setName = d.setName
             /\ u.maxServerId = d.maxServerId /\ u.servers = d.servers
BY DEF SetState, Typed, Shape, SameHistory

(* ... by whether it has a primary.                                        *)
LEMMA UpdateRsTypeTyped ==
  ASSUME NEW d, Typed(d)
  PROVE  LET u == UpdateRsType(d)
         IN  /\ Typed(u) /\ SameHistory(d, u)
             /\ u.type \in RsTypes /\ u.setName = d.setName
             /\ u.maxServerId = d.maxServerId /\ u.servers = d.servers
             /\ u.type = "RSNoPrimary" =>
                  \A a \in Addresses : ~IsPrimary(d, a)
<1>1. \A a \in Addresses : IsPrimary(d, a) => HasPrimary(d)
  <2> SUFFICES ASSUME NEW a \in Addresses, IsPrimary(d, a)
               PROVE  d.servers[a].id # 0
    BY DEF HasPrimary, Members, IsPrimary
  <2>1. Absent.type # "RSPrimary"
    BY DEF Absent, NewSd, ResetSd
  <2> QED
    BY <2>1 DEF IsPrimary, Typed, SdTyped
<1> QED
  BY <1>1, SetStateTyped DEF UpdateRsType, TopologyTypes, RsTypes

(* Servers are added, all of them Unknown; the others stay.                *)
Grown(d, hosts, u) ==
  /\ Typed(u) /\ SameHistory(d, u)
  /\ u.type = d.type /\ u.setName = d.setName
  /\ u.maxServerId = d.maxServerId + Cardinality(hosts \ Members(d))
  /\ \A a \in Addresses :
       \/ u.servers[a] = d.servers[a]
       \/ a \in hosts \ Members(d) /\ u.servers[a].type = "Unknown"

(* mongoc_topology_description_add_server for all hosts of a reply.        *)
LEMMA AddServersTyped ==
  ASSUME NEW d, Typed(d), NEW hosts \in SUBSET Addresses
  PROVE  Grown(d, hosts, AddServers(d, hosts))
<1> DEFINE added == hosts \ Members(d)
           n == Cardinality(added)
           Ranks == {f \in [added -> 1 .. n] : \A a, b \in added : f[a] = f[b] => a = b}
           rank == CHOOSE f \in [added -> 1 .. n] :
                     \A a, b \in added : f[a] = f[b] => a = b
           u == AddServers(d, hosts)
<1>1. n \in Nat /\ IsFiniteSet(added)
  BY AddressesAssumption, FS_Subset, FS_CardinalityType
<1>2. \E f \in [added -> 1 .. n] : \A a, b \in added : f[a] = f[b] => a = b
  <2>1. ExistsBijection(1 .. n, added)
    BY <1>1, FS_CardinalityType
  <2>2. ExistsBijection(added, 1 .. n)
    BY <2>1, Fun_ExistsBijSymmetric
  <2> QED
    BY <2>2 DEF ExistsBijection, Bijection, Injection, IsInjective
<1>3. rank \in [added -> 1 .. n]
  BY <1>2
<1>4. /\ u.type = d.type /\ u.setName = d.setName
      /\ u.maxElectionId = d.maxElectionId
      /\ u.maxSetVersion = d.maxSetVersion /\ u.compatible = d.compatible
      /\ u.maxServerId = d.maxServerId + n
      /\ u.servers = [a \in Addresses |->
                        IF a \in added THEN NewSd(d.maxServerId + rank[a])
                                       ELSE d.servers[a]]
  BY DEF AddServers, Typed, Shape
<1>5. Shape(u)
  <2> DEFINE m == d.maxServerId + n
             s == [a \in Addresses |->
                     IF a \in added THEN NewSd(d.maxServerId + rank[a])
                                    ELSE d.servers[a]]
  <2>1. u = [d EXCEPT !.maxServerId = m, !.servers = s]
    BY DEF AddServers
  <2>2. s = [a \in Addresses |-> s[a]]
    OBVIOUS
  <2> HIDE DEF m, s, u
  <2>3. u = [type |-> d.type, setName |-> d.setName,
             maxElectionId |-> d.maxElectionId,
             maxSetVersion |-> d.maxSetVersion, maxServerId |-> m,
             sessionTimeout |-> d.sessionTimeout, compatible |-> d.compatible,
             servers |-> s]
    BY <2>1 DEF Typed, Shape
  <2> QED
    BY <2>2, <2>3 DEF Shape
<1> HIDE DEF u, rank, n, added
<1>6. u.maxServerId \in Nat /\ d.maxServerId \in Nat
  BY <1>1, <1>4 DEF Typed
<1>7. ASSUME NEW a \in Addresses
      PROVE  /\ SdTyped(u.servers[a], u.maxServerId)
             /\ \/ u.servers[a] = d.servers[a]
                \/ a \in added /\ u.servers[a].type = "Unknown"
  <2>1. CASE a \in added
    <3> DEFINE id == d.maxServerId + rank[a]
    <3>1. id \in 0 .. u.maxServerId
      BY <1>1, <1>3, <1>4, <1>6, <2>1
    <3>2. u.servers[a] = NewSd(id)
      BY <1>4, <2>1
    <3> HIDE DEF id
    <3> QED
      BY <1>6, <2>1, <3>1, <3>2, NewTyped
  <2>2. CASE a \notin added
    <3>1. u.servers[a] = d.servers[a]
      BY <1>4, <2>2
    <3>2. SdTyped(d.servers[a], d.maxServerId)
      BY DEF Typed
    <3>3. SdTyped(d.servers[a], u.maxServerId)
      BY <1>1, <1>4, <1>6, <3>2 DEF SdTyped
    <3> QED
      BY <3>1, <3>3
  <2> QED
    BY <2>1, <2>2
<1>8. Typed(u) /\ SameHistory(d, u)
  BY <1>4, <1>5, <1>6, <1>7 DEF Typed, SameHistory
<1> QED
  BY <1>4, <1>7, <1>8 DEF u, n, added, Grown

(* A member is labelled.                                                   *)
LEMMA LabelTyped ==
  ASSUME NEW d, Typed(d), NEW address
  PROVE  LET u == LabelUnknownMember(d, address, "PossiblePrimary")
         IN  /\ Typed(u) /\ SameHistory(d, u)
             /\ u.type = d.type /\ u.setName = d.setName
             /\ u.maxServerId = d.maxServerId
             /\ \A a \in Addresses :
                  \/ u.servers[a] = d.servers[a]
                  \/ a \in Members(d) /\ u.servers[a].type = "PossiblePrimary"
<1> DEFINE u == LabelUnknownMember(d, address, "PossiblePrimary")
<1>1. CASE address \in Members(d) /\ d.servers[address].type = "Unknown"
  <2> DEFINE r == d.servers[address]
             q == [r EXCEPT !.type = "PossiblePrimary"]
  <2>1. address \in Addresses /\ r.id # 0
    BY <1>1 DEF Members
  <2>2. SdTyped(r, d.maxServerId)
    BY <2>1 DEF Typed
  <2>3. u = SetServer(d, address, q)
    BY <1>1 DEF LabelUnknownMember
  <2> HIDE DEF r
  <2>4. SdTyped(q, d.maxServerId) /\ q.type = "PossiblePrimary"
    BY <2>1, <2>2 DEF SdTyped, SdShape, ServerTypes
  <2> HIDE DEF q, u
  <2> QED
    BY <1>1, <2>1, <2>3, <2>4, SetServerTyped DEF u
<1>2. CASE ~(address \in Members(d) /\ d.servers[address].type = "Unknown")
  BY <1>2 DEF LabelUnknownMember, SameHistory
<1> QED
  BY <1>1, <1>2

(* Two operations that leave the servers alone.                            *)
SameServers(d, u) ==
  /\ Typed(u) /\ SameHistory(d, u)
  /\ u.type = d.type /\ u.setName = d.setName
  /\ u.maxServerId = d.maxServerId /\ u.servers = d.servers

(* They compute the session timeout and the compatibility.                 *)
LEMMA SummariesTyped ==
  ASSUME NEW d, Typed(d)
  PROVE  SameServers(d, UpdateSessionTimeout(d)) /\ SameServers(d, CheckCompatible(d))
<1>1. \A x : SameServers(d, [d EXCEPT !.sessionTimeout = x])
  BY DEF Typed, Shape, SameHistory, SameServers
<1>2. \A x \in BOOLEAN : SameServers(d, [d EXCEPT !.compatible = x])
  BY DEF Typed, Shape, SameHistory, SameServers
<1>3. SameServers(d, UpdateSessionTimeout(d))
  BY <1>1 DEF UpdateSessionTimeout
<1>4. SameServers(d, CheckCompatible(d))
  BY <1>2 DEF CheckCompatible
<1> QED
  BY <1>3, <1>4

(* The latest election is remembered.                                      *)
Remembered(d, u, h) ==
  LET new == h.wire \in {"post6", "tooNew"}
  IN  /\ u.maxElectionId =
           IF new \/ (h.setVersion # NoSetVersion /\ h.electionId # 0)
             THEN h.electionId ELSE d.maxElectionId
      /\ u.maxSetVersion =
           IF new \/ h.setVersion > d.maxSetVersion
             THEN h.setVersion ELSE d.maxSetVersion

(* ... and nothing else changes.                                           *)
LEMMA RememberTyped ==
  ASSUME NEW d, Typed(d), NEW h, h.electionId \in Nat,
         h.setVersion \in Nat \cup {NoSetVersion}
  PROVE  LET u == RememberElection(d, h)
         IN  /\ Typed(u) /\ u.type = d.type /\ u.setName = d.setName
             /\ u.maxServerId = d.maxServerId /\ u.servers = d.servers
             /\ Remembered(d, u, h)
<1> DEFINE full == h.setVersion # NoSetVersion /\ h.electionId # 0
           new == h.wire \in {"post6", "tooNew"}
           e == IF new \/ full THEN h.electionId ELSE d.maxElectionId
           v == IF new \/ h.setVersion > d.maxSetVersion THEN h.setVersion
                                                       ELSE d.maxSetVersion
           u == RememberElection(d, h)
<1>1. u = [d EXCEPT !.maxElectionId = e, !.maxSetVersion = v]
  <2>1. CASE new
    BY <2>1 DEF RememberElection
  <2>2. CASE ~new
    <3>1. /\ e = (IF full THEN h.electionId ELSE d.maxElectionId)
          /\ v = (IF h.setVersion > d.maxSetVersion THEN h.setVersion
                                                   ELSE d.maxSetVersion)
      BY <2>2
    <3>2. u = [d EXCEPT
                 !.maxElectionId = IF full THEN h.electionId ELSE d.maxElectionId,
                 !.maxSetVersion = IF h.setVersion > d.maxSetVersion
                                     THEN h.setVersion ELSE d.maxSetVersion]
      BY <2>2 DEF RememberElection, Typed, Shape
    <3> HIDE DEF e, v, u
    <3> QED
      BY <3>1, <3>2
  <2> QED
    BY <2>1, <2>2
<1>2. e \in Nat /\ v \in Nat \cup {NoSetVersion}
  BY DEF Typed
<1> HIDE DEF e, v, u
<1>3. u = [type |-> d.type, setName |-> d.setName,
           maxElectionId |-> e, maxSetVersion |-> v,
           maxServerId |-> d.maxServerId,
           sessionTimeout |-> d.sessionTimeout, compatible |-> d.compatible,
           servers |-> d.servers]
  BY <1>1 DEF Typed, Shape
<1>4. Typed(u)
  BY <1>2, <1>3 DEF Typed, Shape
<1>5. Remembered(d, u, h)
  BY <1>3 DEF Remembered, e, v
<1> QED
  BY <1>3, <1>4, <1>5 DEF u

(* The other primaries become Unknown.                                     *)
LEMMA InvalidatePrimariesTyped ==
  ASSUME NEW d, Typed(d), NEW a \in Addresses
  PROVE  LET u == InvalidatePrimaries(d, a)
         IN  /\ Typed(u) /\ SameHistory(d, u)
             /\ u.type = d.type /\ u.setName = d.setName
             /\ u.maxServerId = d.maxServerId
             /\ u.servers[a] = d.servers[a]
             /\ \A b \in Addresses : /\ b # a => ~IsPrimary(u, b)
                                     /\ u.servers[b].id = d.servers[b].id
<1> DEFINE s == [b \in Addresses |-> IF b # a /\ d.servers[b].type = "RSPrimary"
                                     THEN ResetSd(d.servers[b]) ELSE d.servers[b]]
           u == InvalidatePrimaries(d, a)
<1>1. u = [d EXCEPT !.servers = s]
  BY DEF InvalidatePrimaries
<1>2. s = [b \in Addresses |-> s[b]] /\ s[a] = d.servers[a]
  OBVIOUS
<1>3. ASSUME NEW b \in Addresses
      PROVE  /\ SdTyped(s[b], d.maxServerId) /\ s[b].id = d.servers[b].id
             /\ b # a => s[b].type # "RSPrimary"
  <2>1. SdTyped(d.servers[b], d.maxServerId) /\ d.maxServerId \in Nat
    BY DEF Typed
  <2>2. s[b] = IF b # a /\ d.servers[b].type = "RSPrimary"
               THEN ResetSd(d.servers[b]) ELSE d.servers[b]
    OBVIOUS
  <2> HIDE DEF s
  <2> QED
    BY <2>1, <2>2, ResetTyped
<1> HIDE DEF s, u
<1>4. u = [type |-> d.type, setName |-> d.setName,
           maxElectionId |-> d.maxElectionId,
           maxSetVersion |-> d.maxSetVersion, maxServerId |-> d.maxServerId,
           sessionTimeout |-> d.sessionTimeout, compatible |-> d.compatible,
           servers |-> s]
  BY <1>1 DEF Typed, Shape
<1>5. Typed(u) /\ SameHistory(d, u)
  BY <1>2, <1>3, <1>4 DEF Typed, Shape, SameHistory
<1> QED
  BY <1>2, <1>3, <1>4, <1>5 DEF u, IsPrimary

(* Only reported servers stay.                                             *)
LEMMA RemoveUnreportedTyped ==
  ASSUME NEW d, Typed(d), NEW hosts
  PROVE  LET u == RemoveUnreportedServers(d, hosts)
         IN  /\ Typed(u) /\ SameHistory(d, u)
             /\ u.type = d.type /\ u.setName = d.setName
             /\ u.maxServerId = d.maxServerId
             /\ Members(u) \subseteq hosts
             /\ \A b \in Addresses : \/ u.servers[b] = d.servers[b]
                                     \/ u.servers[b] = Absent
<1> DEFINE s == [b \in Addresses |-> IF b \in hosts THEN d.servers[b] ELSE Absent]
           u == RemoveUnreportedServers(d, hosts)
<1>1. u = [d EXCEPT !.servers = s]
  BY DEF RemoveUnreportedServers
<1>2. /\ s = [b \in Addresses |-> s[b]]
      /\ \A b \in Addresses : s[b] = d.servers[b] \/ s[b] = Absent
      /\ \A b \in Addresses : b \notin hosts => s[b] = Absent
  OBVIOUS
<1>3. SdTyped(Absent, d.maxServerId) /\ Absent.id = 0
  BY NewTyped DEF Absent, Typed
<1> HIDE DEF s, u
<1>4. u = [type |-> d.type, setName |-> d.setName,
           maxElectionId |-> d.maxElectionId,
           maxSetVersion |-> d.maxSetVersion, maxServerId |-> d.maxServerId,
           sessionTimeout |-> d.sessionTimeout, compatible |-> d.compatible,
           servers |-> s]
  BY <1>1 DEF Typed, Shape
<1>5. Typed(u) /\ SameHistory(d, u)
  BY <1>2, <1>3, <1>4 DEF Typed, Shape, SameHistory
<1>6. Members(u) \subseteq hosts
  BY <1>2, <1>3, <1>4 DEF Members
<1> QED
  BY <1>2, <1>4, <1>5, <1>6 DEF u

(* The set of the topology is known.                                       *)
LEMMA NamedTyped ==
  ASSUME NEW d, Typed(d), NEW name
  PROVE  LET u == [d EXCEPT !.setName = name]
         IN  /\ Typed(u) /\ SameHistory(d, u)
             /\ u.type = d.type /\ u.setName = name
             /\ u.maxServerId = d.maxServerId /\ u.servers = d.servers
BY DEF Typed, Shape, SameHistory

----------------------------------------------------------------------------
(***************************************************************************)
(* Updates after which every primary is one that was there before.         *)
(***************************************************************************)
Fewer(d, u) ==
  /\ Typed(u) /\ SameHistory(d, u)
  /\ \A b \in Addresses : IsPrimary(u, b) => u.servers[b] = d.servers[b]

(* How the type of the topology may change with it.                        *)
Retyped(d, u) ==
  \/ u.type = d.type /\ Members(u) \subseteq Members(d)
  \/ /\ d.type \in RsTypes \cup {"Unknown"} /\ Members(u) \subseteq Members(d)
     /\ u.type \in RsTypes
     /\ u.type = "RSNoPrimary" => \A b \in Addresses : ~IsPrimary(u, b)
  \/ u.type = "RSNoPrimary" /\ \A b \in Addresses : ~IsPrimary(u, b)
  \/ d.type = "Unknown" /\ u.type = "Sharded"
  \/ d.type = "Unknown" /\ u.type = "Single" /\ \A a, b \in Members(u) : a = b

(* Such updates keep the invariant and add no election.                    *)
LEMMA FewerSound ==
  ASSUME NEW d, NEW u, Sound(d), Fewer(d, u), Retyped(d, u)
  PROVE  Sound(u) /\ Elections(u) \subseteq Elections(d)
<1>1. ASSUME NEW b \in Addresses, IsPrimary(u, b)
      PROVE  IsPrimary(d, b) /\ u.servers[b] = d.servers[b]
  BY <1>1 DEF Fewer, IsPrimary
<1>2. d.type = "Unknown" => \A b \in Addresses : ~IsPrimary(u, b)
  BY <1>1 DEF Sound, PrimaryInv
<1>3. PrimaryInv(u)
  <2>1. \A a, b \in Addresses : IsPrimary(u, a) /\ IsPrimary(u, b) => a = b
    BY <1>1 DEF Sound, PrimaryInv
  <2>2. u.type \in {"Unknown", "Sharded", "RSNoPrimary"} =>
          \A a \in Addresses : ~IsPrimary(u, a)
    BY <1>1, <1>2 DEF Sound, PrimaryInv, Retyped, RsTypes
  <2>3. u.type = "Single" => \A a, b \in Members(u) : a = b
    BY DEF Sound, PrimaryInv, Retyped, RsTypes
  <2>4. u.type \in RsTypes => \A a \in Addresses : IsPrimary(u, a) =>
          Members(u) \subseteq u.servers[a].hosts
    BY <1>1, <1>2, <2>2 DEF Sound, PrimaryInv, Retyped, RsTypes
  <2> QED
    BY <2>1, <2>2, <2>3, <2>4 DEF PrimaryInv
<1>4. Elections(u) \subseteq Elections(d)
  <2> SUFFICES ASSUME NEW a \in Addresses, u.type \in RsTypes, IsPrimary(u, a),
                      u.servers[a].id # 0,
                      u.servers[a].electionId # 0,
                      u.servers[a].setVersion # NoSetVersion
               PROVE  /\ d.type \in RsTypes /\ IsPrimary(d, a)
                      /\ u.servers[a] = d.servers[a]
    BY DEF Elections, Members, IsPrimary
  <2> QED
    BY <1>1, <1>2 DEF Retyped, RsTypes
<1> QED
  BY <1>3, <1>4 DEF Sound, Fewer

(* A server becomes something else than a primary, or leaves.              *)
Demoted(d, u, a) ==
  /\ Typed(u) /\ SameHistory(d, u) /\ ~IsPrimary(u, a)
  /\ d.servers[a].id # 0
  /\ \A b \in Addresses : b # a => u.servers[b] = d.servers[b]

(* No primary is gained by it.                                             *)
LEMMA DemotedFewer ==
  ASSUME NEW d, NEW u, NEW a \in Addresses, Demoted(d, u, a)
  PROVE  Fewer(d, u) /\ Members(u) \subseteq Members(d)
BY DEF Demoted, Fewer, Members

(* A failed check.                                                         *)
LEMMA NullReplySound ==
  ASSUME NEW d, Typed(d), NEW a \in Addresses, d.servers[a].id # 0
  PROVE  LET u == HandleNullReply(d, a)
         IN  /\ Demoted(d, u, a) /\ u.maxServerId = d.maxServerId
             /\ \/ u.type = d.type
                \/ /\ d.type \in RsTypes /\ u.type \in RsTypes
                   /\ u.type = "RSNoPrimary" => \A b \in Addresses : ~IsPrimary(u, b)
<1> DEFINE sd == ResetSd(d.servers[a])
           v == SetServer(d, a, sd)
           w == IF d.type = "RSWithPrimary" THEN UpdateRsType(v) ELSE v
           u == UpdateSessionTimeout(w)
<1>1. SdTyped(sd, d.maxServerId) /\ sd.type = "Unknown"
  BY ResetTyped DEF Typed
<1>2. HandleNullReply(d, a) = u
  BY DEF HandleNullReply
<1> HIDE DEF sd
<1>3. /\ Typed(v) /\ SameHistory(d, v) /\ v.type = d.type
      /\ v.maxServerId = d.maxServerId /\ v.servers[a] = sd
      /\ \A b \in Addresses : b # a => v.servers[b] = d.servers[b]
  BY <1>1, SetServerTyped
<1> HIDE DEF v
<1>4. /\ Typed(w) /\ SameHistory(d, w)
      /\ w.maxServerId = d.maxServerId /\ w.servers = v.servers
      /\ \/ w.type = d.type
         \/ /\ d.type \in RsTypes /\ w.type \in RsTypes
            /\ w.type = "RSNoPrimary" => \A b \in Addresses : ~IsPrimary(v, b)
  BY <1>3, UpdateRsTypeTyped DEF SameHistory, RsTypes
<1> HIDE DEF w
<1>5. SameServers(w, u)
  BY <1>4, SummariesTyped
<1> HIDE DEF u
<1> QED
  BY <1>1, <1>2, <1>3, <1>4, <1>5 DEF SameServers, SameHistory, Demoted, IsPrimary

----------------------------------------------------------------------------
(***************************************************************************)
(* The transition table: s is the description d in which the server at a   *)
(* has been replaced by what its reply h says.                             *)
(***************************************************************************)
HelloTyped(h) ==
  /\ h.hosts \subseteq Addresses /\ h.electionId \in Nat
  /\ h.setVersion \in Nat \cup {NoSetVersion}

Replied(d, s, a, h) ==
  /\ Typed(s) /\ SameHistory(d, s) /\ s.type = d.type /\ s.setName = d.setName
  /\ s.maxServerId = d.maxServerId
  /\ d.servers[a].id # 0 /\ s.servers[a].id = d.servers[a].id
  /\ \A b \in Addresses : b # a => s.servers[b] = d.servers[b]
  /\ IsPrimary(s, a) => /\ HelloType(h) = "RSPrimary"
                        /\ s.servers[a].hosts = h.hosts
                        /\ s.servers[a].electionId = h.electionId
                        /\ s.servers[a].setVersion = h.setVersion

(* The primary at a was accepted: it is the only one, it reports all       *)
(* servers, and its election is not older than the one remembered.         *)
Accepted(d, u, a, h) ==
  /\ Typed(u) /\ HelloType(h) = "RSPrimary" /\ u.type \in RsTypes
  /\ u.type = "RSNoPrimary" => \A b \in Addresses : ~IsPrimary(u, b)
  /\ \A b \in Addresses : IsPrimary(u, b) =>
       /\ b = a /\ u.servers[b].hosts = h.hosts
       /\ u.servers[b].electionId = h.electionId
       /\ u.servers[b].setVersion = h.setVersion
  /\ Members(u) \subseteq h.hosts
  /\ ~StalePrimary(d, h) /\ Remembered(d, u, h)

Result(d, u, a, h) ==
  /\ Sound(u)
  /\ \/ SameHistory(d, u) /\ Elections(u) \subseteq Elections(d)
     \/ Accepted(d, u, a, h)

(* A reply of a server that is not primary and changes nothing else.       *)
LEMMA ReplyDemotes ==
  ASSUME NEW d, NEW s, NEW a \in Addresses, NEW h, Replied(d, s, a, h)
  PROVE  /\ ~IsPrimary(s, a) => Demoted(d, s, a)
         /\ Demoted(d, RemoveServer(s, a), a) /\ RemoveServer(s, a).type = d.type
         /\ Typed(RemoveServer(s, a))
<1>1. ~IsPrimary(s, a) => Demoted(d, s, a)
  BY DEF Replied, Demoted
<1> DEFINE u == RemoveServer(s, a)
<1>2. /\ Typed(u) /\ SameHistory(s, u) /\ u.type = s.type
      /\ u.servers[a] = Absent
      /\ \A b \in Addresses : b # a => u.servers[b] = s.servers[b]
  BY RemoveTyped DEF Replied
<1> HIDE DEF u
<1>3. Absent.type = "Unknown"
  BY DEF Absent, NewSd, ResetSd
<1>4. Demoted(d, u, a) /\ u.type = d.type
  BY <1>2, <1>3 DEF Replied, Demoted, SameHistory, IsPrimary
<1> QED
  BY <1>1, <1>2, <1>4 DEF u

(* The type of the topology follows from whether it still has a primary.   *)
LEMMA DemotedRsType ==
  ASSUME NEW d, Sound(d), d.type \in RsTypes \cup {"Unknown"},
         NEW v, NEW a \in Addresses, Demoted(d, v, a), NEW h
  PROVE  Result(d, UpdateRsType(v), a, h)
<1> DEFINE u == UpdateRsType(v)
<1>1. /\ Typed(u) /\ SameHistory(v, u) /\ u.type \in RsTypes
      /\ u.servers = v.servers
      /\ u.type = "RSNoPrimary" => \A b \in Addresses : ~IsPrimary(v, b)
  BY UpdateRsTypeTyped DEF Demoted
<1> HIDE DEF u
<1>2. Demoted(d, u, a) /\ (u.type = "RSNoPrimary" => \A b \in Addresses : ~IsPrimary(u, b))
  BY <1>1 DEF Demoted, SameHistory, IsPrimary
<1>3. Fewer(d, u) /\ Retyped(d, u)
  BY <1>1, <1>2, DemotedFewer DEF Retyped
<1>4. Sound(u) /\ Elections(u) \subseteq Elections(d)
  BY <1>3, FewerSound
<1> QED
  BY <1>2, <1>4 DEF Result, Demoted, u

(* The type stays.                                                         *)
LEMMA DemotedSame ==
  ASSUME NEW d, Sound(d), NEW u, NEW a \in Addresses, Demoted(d, u, a),
         u.type = d.type, NEW h
  PROVE  Result(d, u, a, h)
<1>1. Fewer(d, u) /\ Retyped(d, u)
  BY DemotedFewer DEF Retyped
<1>2. Sound(u) /\ Elections(u) \subseteq Elections(d)
  BY <1>1, FewerSound
<1> QED
  BY <1>2 DEF Result, Demoted

(* An accepted primary.                                                    *)
LEMMA AcceptedSound ==
  ASSUME NEW d, NEW u, NEW a \in Addresses, NEW h, Accepted(d, u, a, h)
  PROVE  Result(d, u, a, h)
<1>1. PrimaryInv(u)
  BY DEF Accepted, PrimaryInv, RsTypes
<1> QED
  BY <1>1 DEF Result, Sound, Accepted

(* _mongoc_topology_description_update_rs_from_primary                     *)
LEMMA FromPrimarySound ==
  ASSUME NEW d, Sound(d), d.type \in RsTypes \cup {"Unknown"},
         NEW s, NEW a \in Addresses, NEW h, HelloTyped(h),
         Replied(d, s, a, h), IsPrimary(s, a)
  PROVE  Result(d, UpdateRsFromPrimary(s, a, h), a, h)
<1> DEFINE named == [s EXCEPT !.setName = h.setName]
           stale == InvalidateServer(named, a)
           remembered == RememberElection(named, h)
           rest == InvalidatePrimaries(remembered, a)
           added == AddServers(rest, h.hosts)
           left == RemoveUnreportedServers(added, h.hosts)
           u == UpdateRsType(left)
<1>0. Typed(s)
  BY DEF Replied
<1>1. CASE s.setName \notin {NoName, h.setName}
  <2>1. UpdateRsFromPrimary(s, a, h) = UpdateRsType(RemoveServer(s, a))
    BY <1>1 DEF UpdateRsFromPrimary
  <2> QED
    BY <2>1, ReplyDemotes, DemotedRsType
<1>2. /\ Typed(named) /\ SameHistory(s, named)
      /\ named.type = d.type /\ named.servers = s.servers
  BY <1>0, NamedTyped DEF Replied
<1> HIDE DEF named
<1>3. CASE s.setName \in {NoName, h.setName} /\ StalePrimary(named, h)
  <2>1. UpdateRsFromPrimary(s, a, h) = UpdateRsType(stale)
    BY <1>3 DEF UpdateRsFromPrimary, named
  <2>2. named.type # "LoadBalanced" /\ named.servers[a].id # 0
    BY <1>2 DEF Typed, TopologyTypes, RsTypes, Replied
  <2>3. Demoted(named, stale, a)
    BY <1>2, <2>2, NullReplySound DEF InvalidateServer
  <2> HIDE DEF stale
  <2>4. Demoted(d, stale, a)
    BY <1>2, <2>3 DEF Demoted, SameHistory, Replied
  <2> QED
    BY <2>1, <2>4, DemotedRsType
<1>4. CASE s.setName \in {NoName, h.setName} /\ ~StalePrimary(named, h)
  <2>0. UpdateRsFromPrimary(s, a, h) = u
    BY <1>4 DEF UpdateRsFromPrimary, named
  <2>1. /\ Typed(remembered) /\ Remembered(named, remembered, h)
        /\ remembered.servers = named.servers
    BY <1>2, RememberTyped DEF HelloTyped
  <2> HIDE DEF remembered
  <2>2. /\ Typed(rest) /\ SameHistory(remembered, rest)
        /\ rest.servers[a] = remembered.servers[a]
        /\ \A b \in Addresses : b # a => ~IsPrimary(rest, b)
    BY <2>1, InvalidatePrimariesTyped
  <2> HIDE DEF rest
  <2>3. /\ Typed(added) /\ SameHistory(rest, added)
        /\ \A b \in Addresses :
             \/ added.servers[b] = rest.servers[b]
             \/ b \in h.hosts \ Members(rest) /\ added.servers[b].type = "Unknown"
    <3>1. h.hosts \in SUBSET Addresses
      BY DEF HelloTyped
    <3>2. Grown(rest, h.hosts, added)
      BY <2>2, <3>1, AddServersTyped
    <3> QED
      BY <3>2 DEF Grown
  <2> HIDE DEF added
  <2>4. /\ Typed(left) /\ SameHistory(added, left)
        /\ Members(left) \subseteq h.hosts
        /\ \A b \in Addresses : \/ left.servers[b] = added.servers[b]
                                \/ left.servers[b] = Absent
    BY <2>3, RemoveUnreportedTyped
  <2> HIDE DEF left
  <2>5. /\ Typed(u) /\ SameHistory(left, u) /\ u.type \in RsTypes
        /\ u.servers = left.servers
        /\ u.type = "RSNoPrimary" => \A b \in Addresses : ~IsPrimary(left, b)
    BY <2>4, UpdateRsTypeTyped
  <2> HIDE DEF u
  <2>6. Absent.type = "Unknown"
    BY DEF Absent, NewSd, ResetSd
  <2>7. ASSUME NEW b \in Addresses, IsPrimary(u, b)
        PROVE  b = a /\ u.servers[b] = s.servers[a]
    <3>1. left.servers[b] = added.servers[b]
      BY <2>4, <2>5, <2>6, <2>7 DEF IsPrimary
    <3>2. added.servers[b] = rest.servers[b]
      BY <2>3, <2>5, <2>7, <3>1 DEF IsPrimary
    <3>3. b = a
      BY <2>2, <2>5, <2>7, <3>1, <3>2 DEF IsPrimary
    <3> QED
      BY <1>2, <2>1, <2>2, <2>5, <3>1, <3>2, <3>3
  <2>8. Members(u) \subseteq h.hosts
    BY <2>4, <2>5 DEF Members
  <2>9. /\ named.maxElectionId = d.maxElectionId
        /\ named.maxSetVersion = d.maxSetVersion
    BY <1>2 DEF SameHistory, Replied
  <2>10. /\ u.maxElectionId = remembered.maxElectionId
         /\ u.maxSetVersion = remembered.maxSetVersion
    BY <2>2, <2>3, <2>4, <2>5 DEF SameHistory
  <2>11. Remembered(d, u, h)
    BY <2>1, <2>9, <2>10 DEF Remembered
  <2>12. ~StalePrimary(d, h)
    BY <1>4, <2>9 DEF StalePrimary
  <2>13. u.type = "RSNoPrimary" => \A b \in Addresses : ~IsPrimary(u, b)
    BY <2>5 DEF IsPrimary
  <2>14. Accepted(d, u, a, h)
    BY <2>5, <2>7, <2>8, <2>11, <2>12, <2>13 DEF Accepted, Replied
  <2> QED
    BY <2>0, <2>14, AcceptedSound
<1> QED
  BY <1>1, <1>3, <1>4

(* _mongoc_topology_description_update_rs_without_primary, on a            *)
(* description t of a replica set without a primary.                       *)
LEMMA WithoutPrimarySound ==
  ASSUME NEW d, Sound(d), d.type \in {"Unknown", "RSNoPrimary"},
         NEW t, NEW a \in Addresses, NEW h, HelloTyped(h),
         Typed(t), SameHistory(d, t), t.type = "RSNoPrimary",
         \A b \in Addresses : ~IsPrimary(t, b)
  PROVE  Result(d, UpdateRsWithoutPrimary(t, a, h), a, h)
<1> DEFINE named == [t EXCEPT !.setName = h.setName]
           added == AddServers(named, h.hosts)
           labelled == LabelUnknownMember(added, h.primary, "PossiblePrimary")
           Bare(u) == /\ Typed(u) /\ SameHistory(d, u) /\ u.type = "RSNoPrimary"
                      /\ \A b \in Addresses : ~IsPrimary(u, b)
<1>a. Absent.type = "Unknown"
  BY DEF Absent, NewSd, ResetSd
<1>1. ASSUME NEW u, Bare(u) PROVE Result(d, u, a, h)
  <2>1. Fewer(d, u) /\ Retyped(d, u)
    BY <1>1 DEF Fewer, Retyped
  <2> QED
    BY <1>1, <2>1, FewerSound DEF Result
<1>2. ASSUME NEW v, Bare(v) PROVE Bare(RemoveServer(v, a))
  <2> DEFINE u == RemoveServer(v, a)
  <2>1. /\ Typed(u) /\ SameHistory(v, u) /\ u.type = v.type
        /\ u.servers[a] = Absent
        /\ \A b \in Addresses : b # a => u.servers[b] = v.servers[b]
    BY <1>2, RemoveTyped
  <2> HIDE DEF u
  <2> QED
    BY <1>2, <1>a, <2>1 DEF SameHistory, IsPrimary, u
<1>3. Bare(t)
  OBVIOUS
<1>4. /\ Typed(named) /\ SameHistory(t, named)
      /\ named.type = t.type /\ named.servers = t.servers
  BY NamedTyped
<1>5. Bare(named)
  BY <1>3, <1>4 DEF SameHistory, IsPrimary
<1>e. h.hosts \in SUBSET Addresses
  BY DEF HelloTyped
<1>6. /\ Typed(added) /\ SameHistory(named, added) /\ added.type = named.type
      /\ \A b \in Addresses : \/ added.servers[b] = named.servers[b]
                              \/ added.servers[b].type = "Unknown"
  <2>1. Grown(named, h.hosts, added)
    BY <1>4, <1>e, AddServersTyped
  <2> QED
    BY <2>1 DEF Grown
<1>7. Bare(added)
  BY <1>5, <1>6 DEF SameHistory, IsPrimary
<1>8. /\ Typed(labelled) /\ SameHistory(added, labelled)
      /\ labelled.type = added.type
      /\ \A b \in Addresses : \/ labelled.servers[b] = added.servers[b]
                              \/ labelled.servers[b].type = "PossiblePrimary"
  BY <1>6, LabelTyped
<1>9. Bare(labelled)
  BY <1>7, <1>8 DEF SameHistory, IsPrimary
<1>10. UpdateRsWithoutPrimary(t, a, h) \in
         {RemoveServer(t, a), labelled, RemoveServer(labelled, a)}
  BY DEF UpdateRsWithoutPrimary
<1> HIDE DEF named, added, labelled, Bare
<1> QED
  BY <1>1, <1>2, <1>3, <1>9, <1>10

(* _mongoc_topology_description_update_rs_with_primary_from_member         *)
LEMMA FromMemberSound ==
  ASSUME NEW d, Sound(d), d.type = "RSWithPrimary",
         NEW s, NEW a \in Addresses, NEW h,
         Replied(d, s, a, h), ~IsPrimary(s, a)
  PROVE  Result(d, UpdateRsWithPrimaryFromMember(s, a, h), a, h)
<1> DEFINE none == SetState(s, "RSNoPrimary")
           u == LabelUnknownMember(none, h.primary, "PossiblePrimary")
<1>0. Typed(s) /\ Demoted(d, s, a) /\ s.type = d.type
  BY ReplyDemotes DEF Replied
<1>1. CASE UpdateRsWithPrimaryFromMember(s, a, h) = UpdateRsType(RemoveServer(s, a))
  BY <1>1, ReplyDemotes, DemotedRsType DEF RsTypes
<1>2. CASE UpdateRsWithPrimaryFromMember(s, a, h) = RemoveServer(s, a)
  BY <1>2, ReplyDemotes, DemotedSame
<1>3. CASE UpdateRsWithPrimaryFromMember(s, a, h) = s
  BY <1>0, <1>3, DemotedSame
<1>4. CASE ~HasPrimary(s) /\ UpdateRsWithPrimaryFromMember(s, a, h) = u
  <2>1. /\ Typed(none) /\ SameHistory(s, none) /\ none.type = "RSNoPrimary"
        /\ none.servers = s.servers
    BY <1>0, SetStateTyped DEF TopologyTypes, RsTypes
  <2> HIDE DEF none
  <2>2. /\ Typed(u) /\ SameHistory(none, u) /\ u.type = none.type
        /\ \A b \in Addresses : \/ u.servers[b] = none.servers[b]
                                \/ u.servers[b].type = "PossiblePrimary"
    BY <2>1, LabelTyped
  <2> HIDE DEF u
  <2>3. \A b \in Addresses : ~IsPrimary(s, b)
    <3>1. Absent.type = "Unknown"
      BY DEF Absent, NewSd, ResetSd
    <3>2. \A b \in Addresses : IsPrimary(s, b) => b \in Members(s)
      BY <1>0, <3>1 DEF IsPrimary, Members, Typed, SdTyped
    <3> QED
      BY <1>4, <3>2 DEF HasPrimary, IsPrimary
  <2>4. \A b \in Addresses : ~IsPrimary(u, b)
    BY <2>1, <2>2, <2>3 DEF IsPrimary
  <2>5. SameHistory(d, u)
    BY <2>1, <2>2 DEF SameHistory, Replied
  <2>6. Fewer(d, u) /\ Retyped(d, u)
    BY <2>1, <2>2, <2>4, <2>5 DEF Fewer, Retyped
  <2> QED
    BY <1>4, <2>5, <2>6, FewerSound DEF Result
<1> QED
  BY <1>1, <1>2, <1>3, <1>4 DEF UpdateRsWithPrimaryFromMember

(* _mongoc_topology_description_update_unknown_with_standalone             *)
LEMMA StandaloneSound ==
  ASSUME NEW d, Sound(d), d.type = "Unknown",
         NEW s, NEW a \in Addresses, NEW h,
         Replied(d, s, a, h), ~IsPrimary(s, a)
  PROVE  Result(d, UpdateUnknownWithStandalone(s, a), a, h)
<1>1. CASE Cardinality(Members(s)) > 1
  <2>1. UpdateUnknownWithStandalone(s, a) = RemoveServer(s, a)
    BY <1>1 DEF UpdateUnknownWithStandalone
  <2> QED
    BY <2>1, ReplyDemotes, DemotedSame
<1>2. CASE ~(Cardinality(Members(s)) > 1)
  <2> DEFINE u == SetState(s, "Single")
  <2>1. UpdateUnknownWithStandalone(s, a) = u
    BY <1>2 DEF UpdateUnknownWithStandalone
  <2>2. /\ Typed(u) /\ SameHistory(s, u) /\ u.type = "Single"
        /\ u.servers = s.servers
    BY SetStateTyped DEF Replied, TopologyTypes
  <2> HIDE DEF u
  <2>3. IsFiniteSet(Members(s)) /\ Cardinality(Members(s)) \in Nat
    BY AddressesAssumption, FS_Subset, FS_CardinalityType DEF Members
  <2>4. \A b, c \in Members(s) : b = c
    <3> SUFFICES ASSUME NEW b \in Members(s), NEW c \in Members(s), b # c
                 PROVE  FALSE
      OBVIOUS
    <3>1. IsFiniteSet({b}) /\ Cardinality({b}) = 1
      BY FS_Singleton
    <3>2. Cardinality({b} \cup {c}) = Cardinality({b}) + 1
      BY <3>1, FS_AddElement
    <3>3. Cardinality({b} \cup {c}) <= Cardinality(Members(s))
      BY <2>3, FS_Subset
    <3> QED
      BY <1>2, <2>3, <3>1, <3>2, <3>3
  <2>5. \A b, c \in Members(u) : b = c
    BY <2>2, <2>4 DEF Members
  <2>6. Fewer(d, u) /\ SameHistory(d, u)
    BY <2>2 DEF Fewer, Replied, SameHistory, IsPrimary
  <2>7. Retyped(d, u)
    BY <2>2, <2>5 DEF Retyped
  <2> QED
    BY <2>1, <2>6, <2>7, FewerSound DEF Result
<1> QED
  BY <1>1, <1>2

(* gSDAMTransitionTable                                                    *)
LEMMA TransitionSound ==
  ASSUME NEW d, Sound(d), NEW s, NEW a \in Addresses, NEW h, HelloTyped(h),
         Replied(d, s, a, h)
  PROVE  Result(d, Transition(s, a, h), a, h)
<1> DEFINE type == s.servers[a].type
           Removed == RemoveServer(s, a)
<1>0. /\ Typed(s) /\ SameHistory(d, s) /\ s.type = d.type /\ d.type \in TopologyTypes
      /\ IsPrimary(s, a) <=> type = "RSPrimary"
  BY DEF Replied, Sound, Typed, IsPrimary
<1>1. Result(d, Removed, a, h)
  BY ReplyDemotes, DemotedSame
<1>2. ~IsPrimary(s, a) => Result(d, s, a, h)
  BY <1>0, ReplyDemotes, DemotedSame
<1>3. CASE d.type = "Single"
  <2>1. Transition(s, a, h) = s
    BY <1>0, <1>3 DEF Transition
  <2>2. Members(s) = Members(d)
    BY DEF Replied, Members
  <2>3. \A b, c \in Members(s) : b = c
    BY <1>3, <2>2 DEF Sound, PrimaryInv
  <2>4. \A b \in Addresses : IsPrimary(s, b) => b \in Members(s)
    <3>1. Absent.type = "Unknown"
      BY DEF Absent, NewSd, ResetSd
    <3> QED
      BY <1>0, <3>1 DEF IsPrimary, Members, Typed, SdTyped
  <2>5. PrimaryInv(s)
    BY <1>0, <1>3, <2>3, <2>4 DEF PrimaryInv, RsTypes
  <2>6. Elections(s) = {}
    BY <1>0, <1>3 DEF Elections, RsTypes
  <2> QED
    BY <1>0, <2>1, <2>5, <2>6 DEF Result, Sound
<1>4. CASE d.type = "Sharded"
  <2>1. \/ Transition(s, a, h) = Removed
        \/ type \in {"Unknown", "Mongos"} /\ Transition(s, a, h) = s
    BY <1>0, <1>4 DEF Transition
  <2> QED
    BY <1>0, <1>1, <1>2, <2>1
<1>5. CASE d.type = "Unknown"
  <2>1. CASE type = "RSPrimary"
    <3>1. Transition(s, a, h) = UpdateRsFromPrimary(s, a, h)
      BY <1>0, <1>5, <2>1 DEF Transition
    <3> QED
      BY <1>0, <1>5, <2>1, <3>1, FromPrimarySound
  <2>2. CASE type \in {"RSSecondary", "RSArbiter", "RSOther"}
    <3> DEFINE t == SetState(s, "RSNoPrimary")
    <3>1. Transition(s, a, h) = UpdateRsWithoutPrimary(t, a, h)
      BY <1>0, <1>5, <2>2 DEF Transition
    <3>2. /\ Typed(t) /\ SameHistory(s, t) /\ t.type = "RSNoPrimary"
          /\ t.servers = s.servers
      BY <1>0, SetStateTyped DEF TopologyTypes, RsTypes
    <3> HIDE DEF t
    <3>3. SameHistory(d, t)
      BY <1>0, <3>2 DEF SameHistory
    <3>4. \A b \in Addresses : ~IsPrimary(t, b)
      BY <1>5, <2>2, <3>2 DEF Sound, PrimaryInv, Replied, IsPrimary
    <3> QED
      BY <1>5, <3>1, <3>2, <3>3, <3>4, WithoutPrimarySound
  <2>3. CASE type = "Standalone"
    <3>1. Transition(s, a, h) = UpdateUnknownWithStandalone(s, a)
      BY <1>0, <1>5, <2>3 DEF Transition
    <3> QED
      BY <1>0, <1>5, <2>3, <3>1, StandaloneSound
  <2>4. CASE type = "Mongos"
    <3> DEFINE u == SetState(s, "Sharded")
    <3>1. Transition(s, a, h) = u
      BY <1>0, <1>5, <2>4 DEF Transition
    <3>2. /\ Typed(u) /\ SameHistory(s, u) /\ u.type = "Sharded"
          /\ u.servers = s.servers
      BY <1>0, SetStateTyped DEF TopologyTypes
    <3> HIDE DEF u
    <3>3. Fewer(d, u) /\ SameHistory(d, u)
      BY <1>0, <2>4, <3>2 DEF Fewer, Replied, SameHistory, IsPrimary
    <3>4. Retyped(d, u)
      BY <1>5, <3>2 DEF Retyped
    <3> QED
      BY <3>1, <3>3, <3>4, FewerSound DEF Result
  <2>5. CASE type \notin {"RSPrimary", "RSSecondary", "RSArbiter", "RSOther",
                          "Standalone", "Mongos"}
    <3>1. Transition(s, a, h) = s
      BY <1>0, <1>5, <2>5 DEF Transition
    <3> QED
      BY <1>0, <1>2, <2>5, <3>1
  <2> QED
    BY <2>1, <2>2, <2>3, <2>4, <2>5
<1>6. CASE d.type = "RSNoPrimary"
  <2>1. CASE type = "RSPrimary"
    <3>1. Transition(s, a, h) = UpdateRsFromPrimary(s, a, h)
      BY <1>0, <1>6, <2>1 DEF Transition
    <3> QED
      BY <1>0, <1>6, <2>1, <3>1, FromPrimarySound DEF RsTypes
  <2>2. CASE type \in {"RSSecondary", "RSArbiter", "RSOther"}
    <3>1. Transition(s, a, h) = UpdateRsWithoutPrimary(s, a, h)
      BY <1>0, <1>6, <2>2 DEF Transition
    <3>2. \A b \in Addresses : ~IsPrimary(s, b)
      BY <1>6, <2>2 DEF Sound, PrimaryInv, Replied, IsPrimary
    <3> QED
      BY <1>0, <1>6, <3>1, <3>2, WithoutPrimarySound
  <2>3. CASE type \in {"Standalone", "Mongos"}
    <3>1. Transition(s, a, h) = Removed
      BY <1>0, <1>6, <2>3 DEF Transition
    <3> QED
      BY <1>1, <3>1
  <2>4. CASE type \notin {"RSPrimary", "RSSecondary", "RSArbiter", "RSOther",
                          "Standalone", "Mongos"}
    <3>1. Transition(s, a, h) = s
      BY <1>0, <1>6, <2>4 DEF Transition
    <3> QED
      BY <1>0, <1>2, <2>4, <3>1
  <2> QED
    BY <2>1, <2>2, <2>3, <2>4
<1>7. CASE d.type = "RSWithPrimary"
  <2>1. CASE type = "RSPrimary"
    <3>1. Transition(s, a, h) = UpdateRsFromPrimary(s, a, h)
      BY <1>0, <1>7, <2>1 DEF Transition
    <3> QED
      BY <1>0, <1>7, <2>1, <3>1, FromPrimarySound DEF RsTypes
  <2>2. CASE type \in {"RSSecondary", "RSArbiter", "RSOther"}
    <3>1. Transition(s, a, h) = UpdateRsWithPrimaryFromMember(s, a, h)
      BY <1>0, <1>7, <2>2 DEF Transition
    <3> QED
      BY <1>0, <1>7, <2>2, <3>1, FromMemberSound
  <2>3. CASE type \in {"Standalone", "Mongos"}
    <3>1. Transition(s, a, h) = UpdateRsType(Removed)
      BY <1>0, <1>7, <2>3 DEF Transition
    <3> QED
      BY <1>7, <3>1, ReplyDemotes, DemotedRsType DEF RsTypes
  <2>4. CASE type \notin {"RSPrimary", "RSSecondary", "RSArbiter", "RSOther",
                          "Standalone", "Mongos"}
    <3>1. Transition(s, a, h) = UpdateRsType(s)
      BY <1>0, <1>7, <2>4 DEF Transition
    <3> QED
      BY <1>0, <1>7, <2>4, <3>1, ReplyDemotes, DemotedRsType DEF RsTypes
  <2> QED
    BY <2>1, <2>2, <2>3, <2>4
<1> QED
  BY <1>0, <1>3, <1>4, <1>5, <1>6, <1>7 DEF TopologyTypes, RsTypes

----------------------------------------------------------------------------
(***************************************************************************)
(* The handlers.                                                           *)
(***************************************************************************)
(* Operations that leave the servers alone keep what was shown.            *)
LEMMA SameResult ==
  ASSUME NEW d, NEW u, NEW v, NEW a \in Addresses, NEW h,
         Result(d, u, a, h), SameServers(u, v)
  PROVE  Result(d, v, a, h)
<1>1. Typed(v) /\ v.type = u.type /\ v.servers = u.servers /\ SameHistory(u, v)
  BY DEF SameServers
<1>2. Members(v) = Members(u) /\ Elections(v) = Elections(u)
  BY <1>1 DEF Members, Elections
<1>3. PrimaryInv(v)
  BY <1>1, <1>2 DEF Result, Sound, PrimaryInv, IsPrimary
<1>4. Accepted(d, u, a, h) => Accepted(d, v, a, h)
  BY <1>1, <1>2 DEF Accepted, Remembered, SameHistory, IsPrimary
<1>5. SameHistory(d, u) => SameHistory(d, v)
  BY <1>1 DEF SameHistory
<1> QED
  BY <1>1, <1>2, <1>3, <1>4, <1>5 DEF Result, Sound

(* The reply of a server of the topology.                                  *)
LEMMA ReplySound ==
  ASSUME NEW d, Sound(d), NEW a \in Addresses, d.servers[a].id # 0,
         NEW h, HelloTyped(h)
  PROVE  Result(d, HandleReply(d, a, h), a, h)
<1> DEFINE new == SdHandleHello(d.servers[a], h)
           wrongSet == d.type = "Single" /\ d.setName \notin {NoName, h.setName}
           sd == IF wrongSet THEN ResetSd(new) ELSE new
           s == SetServer(d, a, sd)
           t == Transition(s, a, h)
           u == UpdateSessionTimeout(t)
           v == CheckCompatible(u)
<1>1. HandleReply(d, a, h) = v
  BY DEF HandleReply
<1>2. Typed(d) /\ SdTyped(d.servers[a], d.maxServerId) /\ d.maxServerId \in Nat
  BY DEF Sound, Typed
<1>3. HelloType(h) \in ServerTypes
  BY DEF HelloType, ServerTypes, MemberTypes
<1>4. /\ SdTyped(new, d.maxServerId) /\ new.id = d.servers[a].id
      /\ new.type = HelloType(h) /\ new.hosts = h.hosts
      /\ new.electionId = h.electionId /\ new.setVersion = h.setVersion
  <2> DEFINE type == HelloType(h)
  <2>1. new = [id |-> d.servers[a].id, type |-> type, setName |-> h.setName,
               hosts |-> h.hosts, electionId |-> h.electionId,
               setVersion |-> h.setVersion, wire |-> h.wire,
               timeout |-> h.timeout, tv |-> h.tv,
               generation |-> d.servers[a].generation]
    BY DEF SdHandleHello
  <2>2. type \in ServerTypes
    BY <1>3
  <2> HIDE DEF new, type
  <2>3. new.type = type
    BY <2>1
  <2>4. SdTyped(new, d.maxServerId)
    BY <1>2, <2>1, <2>2 DEF SdTyped, SdShape, HelloTyped
  <2> QED
    BY <2>1, <2>3, <2>4 DEF type
<1> HIDE DEF new
<1>5. /\ SdTyped(sd, d.maxServerId) /\ sd.id = d.servers[a].id
      /\ \/ sd = new
         \/ sd.type = "Unknown"
  BY <1>2, <1>4, ResetTyped
<1> HIDE DEF sd
<1>6. /\ Typed(s) /\ SameHistory(d, s)
      /\ s.type = d.type /\ s.setName = d.setName
      /\ s.maxServerId = d.maxServerId
      /\ s.servers[a] = sd
      /\ \A b \in Addresses : b # a => s.servers[b] = d.servers[b]
  BY <1>2, <1>5, SetServerTyped
<1> HIDE DEF s
<1>7. Replied(d, s, a, h)
  BY <1>4, <1>5, <1>6 DEF Replied, IsPrimary
<1>8. Result(d, t, a, h)
  BY <1>7, TransitionSound
<1> HIDE DEF t
<1>9. SameServers(t, u)
  BY <1>8, SummariesTyped DEF Result, Sound
<1>10. Result(d, u, a, h)
  BY <1>8, <1>9, SameResult
<1> HIDE DEF u
<1>11. SameServers(u, v)
  BY <1>10, SummariesTyped DEF Result, Sound
<1>12. Result(d, v, a, h)
  BY <1>10, <1>11, SameResult
<1> QED
  BY <1>1, <1>12

(* A reply, to whichever server it belongs, and also to none.              *)
LEMMA HelloSound ==
  ASSUME NEW d, Sound(d), NEW id \in Nat \ {0}, NEW h, HelloTyped(h)
  PROVE  LET u == HandleHello(d, id, h)
         IN  \/ u = d
             \/ \E a \in Addresses :
                  d.servers[a].id = id /\ a = AddressOf(d, id) /\ Result(d, u, a, h)
<1>1. CASE HandleHello(d, id, h) = d
  BY <1>1
<1>2. CASE HandleHello(d, id, h) # d
  <2> DEFINE a == AddressOf(d, id)
  <2>1. HasId(d, id) /\ HandleHello(d, id, h) = HandleReply(d, a, h)
    BY <1>2 DEF HandleHello
  <2>2. a \in Addresses /\ d.servers[a].id = id
    BY <2>1 DEF HasId, AddressOf
  <2> HIDE DEF a
  <2> QED
    BY <2>1, <2>2, ReplySound DEF a
<1> QED
  BY <1>1, <1>2

(* A failed check.                                                         *)
LEMMA ErrorSound ==
  ASSUME NEW d, Sound(d), NEW id \in Nat \ {0}
  PROVE  LET u == HandleError(d, id)
         IN  /\ Sound(u) /\ SameHistory(d, u) /\ Elections(u) \subseteq Elections(d)
             /\ u.maxServerId = d.maxServerId
<1>1. CASE ~HasId(d, id)
  BY <1>1 DEF HandleError, SameHistory
<1>2. CASE HasId(d, id)
  <2> DEFINE a == AddressOf(d, id)
             u == HandleNullReply(d, a)
  <2>1. a \in Addresses /\ d.servers[a].id = id
    BY <1>2 DEF HasId, AddressOf
  <2>2. HandleError(d, id) = u
    BY <1>2 DEF HandleError
  <2> HIDE DEF a
  <2>3. /\ Demoted(d, u, a) /\ u.maxServerId = d.maxServerId
        /\ \/ u.type = d.type
           \/ /\ d.type \in RsTypes /\ u.type \in RsTypes
              /\ u.type = "RSNoPrimary" => \A b \in Addresses : ~IsPrimary(u, b)
    BY <2>1, NullReplySound DEF Sound
  <2> HIDE DEF u
  <2>4. Fewer(d, u) /\ Members(u) \subseteq Members(d)
    BY <2>1, <2>3, DemotedFewer
  <2>5. Retyped(d, u)
    BY <2>3, <2>4 DEF Retyped
  <2>6. Sound(u) /\ Elections(u) \subseteq Elections(d)
    BY <2>4, <2>5, FewerSound
  <2> QED
    BY <2>2, <2>3, <2>6 DEF Demoted
<1> QED
  BY <1>1, <1>2

----------------------------------------------------------------------------
(***************************************************************************)
(* The order of the elections.                                             *)
(***************************************************************************)
LEMMA LeqOrder ==
  ASSUME NEW e \in Pairs, NEW f \in Pairs, NEW g \in Pairs
  PROVE  /\ Leq(e, e)
         /\ Leq(e, f) /\ Leq(f, g) => Leq(e, g)
         /\ Leq(e, f) /\ Leq(f, e) => e = f
<1>1. /\ e = <<e[1], e[2]>> /\ f = <<f[1], f[2]>>
      /\ e[1] \in Int /\ e[2] \in Int /\ f[1] \in Int /\ f[2] \in Int
      /\ g[1] \in Int /\ g[2] \in Int
  BY DEF Pairs, NoSetVersion
<1>2. Leq(e, e) /\ (Leq(e, f) /\ Leq(f, g) => Leq(e, g))
  BY <1>1 DEF Leq
<1>3. Leq(e, f) /\ Leq(f, e) => e[1] = f[1] /\ e[2] = f[2]
  BY <1>1 DEF Leq
<1> QED
  BY <1>1, <1>2, <1>3

Latest(d) == <<d.maxElectionId, d.maxSetVersion>>

(* What is remembered never goes back, and the election of an accepted     *)
(* primary that reports all of it is the one that is remembered.           *)
LEMMA RememberedGrows ==
  ASSUME NEW d, Typed(d), NEW u, Typed(u), NEW h, HelloTyped(h),
         h.wire \in {"post6", "tooNew"} <=> ElectionFirst(deployment),
         ~StalePrimary(d, h), Remembered(d, u, h)
  PROVE  /\ Leq(Latest(d), Latest(u))
         /\ h.electionId # 0 /\ h.setVersion # NoSetVersion =>
              Latest(u) = <<h.electionId, h.setVersion>>
<1>1. /\ d.maxElectionId \in Nat /\ d.maxSetVersion \in Int
      /\ h.electionId \in Nat /\ h.setVersion \in Int
      /\ u.maxElectionId \in Nat /\ u.maxSetVersion \in Int
  BY DEF Typed, HelloTyped, NoSetVersion
<1>2. CASE ElectionFirst(deployment)
  <2>1. /\ u.maxElectionId = h.electionId /\ u.maxSetVersion = h.setVersion
    BY <1>2 DEF Remembered
  <2>2. /\ ~(h.electionId < d.maxElectionId)
        /\ ~(h.electionId = d.maxElectionId /\ h.setVersion < d.maxSetVersion)
    BY <1>2 DEF StalePrimary
  <2>3. \/ d.maxElectionId < u.maxElectionId
        \/ d.maxElectionId = u.maxElectionId /\ d.maxSetVersion <= u.maxSetVersion
    BY <1>1, <2>1, <2>2
  <2>4. Leq(Latest(d), Latest(u))
    BY <1>1, <1>2, <2>3 DEF Leq, Latest
  <2> QED
    BY <2>1, <2>4 DEF Latest
<1>3. CASE ~ElectionFirst(deployment)
  <2> DEFINE full == h.setVersion # NoSetVersion /\ h.electionId # 0
  <2>1. /\ u.maxElectionId = (IF full THEN h.electionId ELSE d.maxElectionId)
        /\ u.maxSetVersion = (IF h.setVersion > d.maxSetVersion
                                THEN h.setVersion ELSE d.maxSetVersion)
    BY <1>3 DEF Remembered
  <2>2. full => /\ ~(d.maxSetVersion > h.setVersion)
                /\ ~(d.maxSetVersion = h.setVersion
                       /\ d.maxElectionId > h.electionId)
    BY <1>3 DEF StalePrimary
  <2>3. full => u.maxElectionId = h.electionId /\ u.maxSetVersion = h.setVersion
    BY <1>1, <2>1, <2>2
  <2> HIDE DEF full
  <2>4. CASE full
    <3>1. \/ d.maxSetVersion < u.maxSetVersion
          \/ d.maxSetVersion = u.maxSetVersion /\ d.maxElectionId <= u.maxElectionId
      BY <1>1, <2>2, <2>3, <2>4
    <3>2. Leq(Latest(d), Latest(u))
      BY <1>1, <1>3, <3>1 DEF Leq, Latest
    <3> QED
      BY <2>3, <2>4, <3>2 DEF Latest
  <2>5. CASE ~full
    BY <1>1, <1>3, <2>1, <2>5 DEF Leq, Latest, full
  <2> QED
    BY <2>4, <2>5
<1> QED
  BY <1>2, <1>3

(* The elections of an accepted primary.                                   *)
LEMMA AcceptedElections ==
  ASSUME NEW d, NEW u, NEW a \in Addresses, NEW h, Accepted(d, u, a, h)
  PROVE  \A e \in Elections(u) :
           /\ e = <<h.electionId, h.setVersion>>
           /\ h.electionId # 0 /\ h.setVersion # NoSetVersion
<1> SUFFICES ASSUME NEW b \in Addresses, IsPrimary(u, b),
                    u.servers[b].electionId # 0,
                    u.servers[b].setVersion # NoSetVersion
             PROVE  /\ u.servers[b].electionId = h.electionId
                    /\ u.servers[b].setVersion = h.setVersion
  BY DEF Elections, Members, IsPrimary
<1> QED
  BY DEF Accepted

(* The history follows an update that adds no election.                    *)
LEMMA HistoryKept ==
  ASSUME IInv, TrackElections, UNCHANGED deployment,
         SameHistory(td, td'), Elections(td') \subseteq Elections(td)
  PROVE  ElectionInv'
<1>1. \A e \in Elections(td') : e = latest
  BY DEF IInv, ElectionInv
<1>2. UNCHANGED <<latest, passed>>
  BY <1>1 DEF TrackElections
<1>3. \A e, f : Leq(e, f)' <=> Leq(e, f)
  BY DEF Leq
<1> QED
  BY <1>1, <1>2 DEF IInv, ElectionInv, Leq, SameHistory

(* ... and one that accepts a primary.                                     *)
LEMMA HistoryMoves ==
  ASSUME IInv, TrackElections, UNCHANGED deployment,
         NEW a \in Addresses, NEW h \in Hellos[deployment][a], HelloTyped(h),
         NEW b \in Addresses, Accepted(td, td', b, h)
  PROVE  ElectionInv'
<1> DEFINE e == <<h.electionId, h.setVersion>>
           old == Latest(td)
           new == Latest(td')
<1>1. h.wire \in {"post6", "tooNew"} <=> ElectionFirst(deployment)
  BY DeploymentAssumption DEF IInv, Accepted
<1>2. Leq(old, new) /\ (h.electionId # 0 /\ h.setVersion # NoSetVersion => new = e)
  BY <1>1, RememberedGrows DEF IInv, Sound, Accepted
<1>3. \A f \in Elections(td') : f = e /\ h.electionId # 0 /\ h.setVersion # NoSetVersion
  BY AcceptedElections
<1>4. old \in Pairs /\ new \in Pairs /\ e \in Pairs
  BY DEF IInv, Sound, Accepted, Typed, HelloTyped, Latest, Pairs
<1>5. /\ latest \in Pairs /\ passed \in SUBSET Pairs
      /\ Leq(latest, old) /\ \A f \in passed : Leq(f, latest) /\ f # latest
  BY DEF IInv, ElectionInv, Latest
<1> HIDE DEF e, old, new
<1>6. Leq(latest, new)
  BY <1>2, <1>4, <1>5, LeqOrder
<1>7. CASE \E f \in Elections(td') : f # latest
  <2>1. /\ latest' = (CHOOSE f \in Elections(td') : f # latest)
        /\ passed' = passed \cup ({latest} \ {NoElection})
    BY <1>7 DEF TrackElections
  <2>2. latest' \in Elections(td') /\ latest' # latest
    BY <1>7, <2>1
  <2>3. latest' = e /\ new = e
    BY <1>2, <1>3, <2>2
  <2>4. Elections(td') \subseteq {latest'}
    BY <1>3, <2>3
  <2>5. \A f \in passed : Leq(f, latest) /\ Leq(f, e) /\ f # e
    <3> SUFFICES ASSUME NEW f \in passed PROVE Leq(f, e) /\ f # e
      BY <1>5
    <3>1. f \in Pairs /\ Leq(f, latest) /\ f # latest
      BY <1>5
    <3>2. Leq(f, e)
      BY <1>4, <1>5, <1>6, <2>3, <3>1, LeqOrder
    <3>3. f # e
      BY <1>4, <1>5, <1>6, <2>2, <2>3, <3>1, LeqOrder
    <3> QED
      BY <3>2, <3>3
  <2>6. \A f \in passed' : Leq(f, e) /\ f # e
    BY <1>6, <2>1, <2>2, <2>3, <2>5
  <2>7. passed' \subseteq Pairs
    BY <1>5, <2>1
  <2>8. Leq(e, e)
    BY <1>4, LeqOrder
  <2>9. \A f, g : Leq(f, g)' <=> Leq(f, g)
    BY DEF Leq
  <2>10. e = <<td'.maxElectionId, td'.maxSetVersion>>
    BY <2>3 DEF new, Latest
  <2>11. Leq(latest', <<td'.maxElectionId, td'.maxSetVersion>>)
    BY <2>3, <2>8, <2>10
  <2>12. \A f \in passed' : Leq(f, latest') /\ f # latest'
    BY <2>3, <2>6
  <2> QED
    BY <1>4, <2>3, <2>4, <2>7, <2>11, <2>12 DEF ElectionInv, Leq
<1>8. CASE ~\E f \in Elections(td') : f # latest
  <2>1. UNCHANGED <<latest, passed>>
    BY <1>8 DEF TrackElections
  <2>2. Elections(td') \subseteq {latest}
    BY <1>8
  <2>3. Leq(latest, <<td'.maxElectionId, td'.maxSetVersion>>)
    BY <1>6 DEF new, Latest
  <2> QED
    BY <1>5, <2>1, <2>2, <2>3 DEF ElectionInv, Leq
<1> QED
  BY <1>7, <1>8

----------------------------------------------------------------------------
(***************************************************************************)
(* The specification.                                                      *)
(***************************************************************************)
(* mongoc_topology_new: the seeds, all Unknown.                            *)
LEMMA NewSound ==
  ASSUME NEW type \in {"Unknown", "Single", "RSNoPrimary"}, NEW setName,
         NEW seeds \in SUBSET Addresses,
         type = "Single" => \E a \in Addresses : seeds = {a}
  PROVE  LET u == NewTopology(type, setName, seeds)
         IN  /\ Sound(u) /\ u.maxServerId = Cardinality(seeds)
             /\ Elections(u) = {}
             /\ u.maxElectionId = 0 /\ u.maxSetVersion = NoSetVersion
<1> DEFINE e == [type |-> type, setName |-> setName, maxElectionId |-> 0,
                 maxSetVersion |-> NoSetVersion, maxServerId |-> 0,
                 sessionTimeout |-> NoSessions, compatible |-> TRUE,
                 servers |-> [a \in Addresses |-> Absent]]
           u == AddServers(e, seeds)
<1>1. u = NewTopology(type, setName, seeds)
  BY DEF NewTopology
<1>2. SdTyped(Absent, 0) /\ Absent.id = 0 /\ Absent.type = "Unknown"
  BY NewTyped DEF Absent
<1>3. /\ e.type = type /\ e.maxServerId = 0 /\ e.maxElectionId = 0
      /\ e.maxSetVersion = NoSetVersion /\ e.compatible = TRUE
      /\ \A a \in Addresses : e.servers[a] = Absent
      /\ Shape(e)
  BY DEF Shape
<1> HIDE DEF e
<1>4. Typed(e)
  <2>1. e.type \in TopologyTypes
    BY <1>3 DEF TopologyTypes, RsTypes
  <2>2. \A a \in Addresses : SdTyped(e.servers[a], e.maxServerId)
    BY <1>2, <1>3
  <2>3. e.compatible \in BOOLEAN
    BY <1>3
  <2>4. /\ e.maxServerId \in Nat /\ e.maxElectionId \in Nat
        /\ e.maxSetVersion \in Nat \cup {NoSetVersion}
    BY <1>3
  <2> QED
    BY <1>3, <2>1, <2>2, <2>3, <2>4 DEF Typed
<1>5. Grown(e, seeds, u)
  BY <1>4, AddServersTyped
<1>6. Members(e) = {}
  BY <1>2, <1>3 DEF Members
<1> HIDE DEF u
<1>7. /\ Typed(u) /\ u.type = type /\ u.maxElectionId = 0
      /\ u.maxSetVersion = NoSetVersion
      /\ \A a \in Addresses : \/ u.servers[a] = e.servers[a]
                              \/ a \in seeds /\ u.servers[a].type = "Unknown"
  BY <1>3, <1>5 DEF Grown, SameHistory
<1>8. u.maxServerId = 0 + Cardinality(seeds)
  <2>1. seeds \ Members(e) = seeds
    BY <1>6
  <2> QED
    BY <1>3, <1>5, <2>1 DEF Grown
<1>9. Cardinality(seeds) \in Nat
  BY AddressesAssumption, FS_Subset, FS_CardinalityType
<1>10. \A a \in Addresses : ~IsPrimary(u, a)
  BY <1>2, <1>3, <1>7 DEF IsPrimary
<1>11. Members(u) \subseteq seeds
  BY <1>2, <1>3, <1>7 DEF Members
<1>12. PrimaryInv(u)
  BY <1>7, <1>10, <1>11 DEF PrimaryInv
<1>13. Elections(u) = {}
  BY <1>10 DEF Elections, Members, IsPrimary
<1> QED
  BY <1>1, <1>7, <1>8, <1>9, <1>12, <1>13 DEF Sound

(* The initial states satisfy the inductive invariant.                     *)
LEMMA InitInv == Init => IInv
<1> SUFFICES ASSUME Init PROVE IInv
  OBVIOUS
<1>1. PICK i \in InitialTopologies : td = NewTopology(i.type, i.setName, i.seeds)
  BY DEF Init
<1>2. /\ i.type \in {"Unknown", "Single", "RSNoPrimary"}
      /\ i.seeds \in SUBSET Addresses /\ Cardinality(i.seeds) <= MaxServerId
      /\ i.type = "Single" => \E a \in Addresses : i.seeds = {a}
  BY InitialAssumption
<1>3. /\ Sound(td) /\ td.maxServerId = Cardinality(i.seeds) /\ Elections(td) = {}
      /\ td.maxElectionId = 0 /\ td.maxSetVersion = NoSetVersion
  BY <1>1, <1>2, NewSound
<1>4. latest = <<0, NoSetVersion>> /\ passed = {} /\ deployment \in Deployments
  BY DEF Init, NoElection
<1>5. latest \in Pairs
  BY <1>4 DEF Pairs
<1>6. Leq(latest, <<td.maxElectionId, td.maxSetVersion>>)
  BY <1>3, <1>4, <1>5, LeqOrder
<1> QED
  BY <1>2, <1>3, <1>4, <1>5, <1>6 DEF IInv, ElectionInv

(* Every step keeps it.                                                    *)
LEMMA NextInv == IInv /\ [Next]_vars => IInv'
<1> SUFFICES ASSUME IInv, [Next]_vars PROVE IInv'
  OBVIOUS
<1>1. /\ Sound(td) /\ td.maxServerId \in Nat /\ td.maxServerId <= MaxServerId
      /\ MaxServerId \in Nat /\ deployment \in Deployments /\ ElectionInv
  BY InitialAssumption DEF IInv, Sound, Typed
<1>2. ASSUME NEW id \in 1 .. td.maxServerId, NEW a \in Addresses,
             NEW h \in Hellos[deployment][a], Hello(id, a, h)
      PROVE  IInv'
  <2>1. HelloTyped(h)
    BY <1>1, HellosAssumption DEF HelloTyped
  <2>2. /\ td' = HandleHello(td, id, h) /\ td'.maxServerId <= MaxServerId
        /\ TrackElections /\ deployment' = deployment
    BY <1>2 DEF Hello
  <2>3. id \in Nat \ {0}
    BY <1>1
  <2>4. \/ td' = td
        \/ \E b \in Addresses : Result(td, td', b, h)
    BY <1>1, <2>1, <2>2, <2>3, HelloSound
  <2>5. CASE td' = td
    <3>1. SameHistory(td, td') /\ Elections(td') \subseteq Elections(td)
      BY <2>5 DEF SameHistory
    <3> QED
      BY <1>1, <2>2, <2>5, <3>1, HistoryKept DEF IInv, Sound
  <2>6. ASSUME NEW b \in Addresses, Result(td, td', b, h)
        PROVE  IInv'
    <3>1. Sound(td')
      BY <2>6 DEF Result
    <3>2. ElectionInv'
      <4>1. CASE SameHistory(td, td') /\ Elections(td') \subseteq Elections(td)
        BY <2>2, <4>1, HistoryKept
      <4>2. CASE Accepted(td, td', b, h)
        BY <2>1, <2>2, <4>2, HistoryMoves
      <4> QED
        BY <2>6, <4>1, <4>2 DEF Result
    <3> QED
      BY <1>1, <2>2, <3>1, <3>2 DEF IInv
  <2> QED
    BY <2>4, <2>5, <2>6
<1>3. ASSUME NEW id \in 1 .. td.maxServerId, CheckFailed(id)
      PROVE  IInv'
  <2>1. td' = HandleError(td, id) /\ TrackElections /\ deployment' = deployment
    BY <1>3 DEF CheckFailed
  <2>2. id \in Nat \ {0}
    BY <1>1
  <2>3. /\ Sound(td') /\ SameHistory(td, td')
        /\ Elections(td') \subseteq Elections(td)
        /\ td'.maxServerId = td.maxServerId
    BY <1>1, <2>1, <2>2, ErrorSound
  <2>4. ElectionInv'
    BY <2>1, <2>3, HistoryKept
  <2> QED
    BY <1>1, <2>1, <2>3, <2>4 DEF IInv
<1>4. CASE UNCHANGED vars
  BY <1>1, <1>4 DEF vars, IInv, ElectionInv, Leq, Elections, Members
<1> QED
  BY <1>2, <1>3, <1>4 DEF Next

(* The inductive invariant holds in every state.                           *)
THEOREM Inductive == Spec => []IInv
BY InitInv, NextInv, PTL DEF Spec

(* The description and its servers keep their types, and a server that is  *)
(* not in the topology has no state.                                       *)
THEOREM TypeCorrect == Spec => []TypeOK
<1>1. IInv => TypeOK
  <2> SUFFICES ASSUME IInv PROVE TypeOK
    OBVIOUS
  <2>1. /\ td.type \in TopologyTypes /\ td.compatible \in BOOLEAN
        /\ td.maxServerId \in Nat /\ td.maxServerId <= MaxServerId
        /\ \A a \in Addresses : SdTyped(td.servers[a], td.maxServerId)
    BY DEF IInv, Sound, Typed
  <2> QED
    BY <2>1, InitialAssumption DEF TypeOK, SdTyped
<1> QED
  BY <1>1, Inductive, PTL

(* Two servers are never both trusted as primary, and a replica set        *)
(* without a primary trusts none, whatever is replied and in what order.   *)
THEOREM OnePrimary == Spec => []AtMostOnePrimary
<1>1. IInv => AtMostOnePrimary
  <2> SUFFICES ASSUME IInv PROVE AtMostOnePrimary
    OBVIOUS
  <2>1. PrimaryInv(td)
    BY DEF IInv, Sound
  <2>2. \A p, q \in Primaries : p = q
    BY <2>1 DEF PrimaryInv, Primaries, Members, IsPrimary
  <2>3. td.type = "RSNoPrimary" => Primaries = {}
    BY <2>1 DEF PrimaryInv, Primaries, Members, IsPrimary
  <2>4. CASE Primaries = {}
    BY <2>3, <2>4, FS_EmptySet DEF AtMostOnePrimary
  <2>5. CASE Primaries # {}
    <3>1. PICK p \in Primaries : TRUE
      BY <2>5
    <3>2. Primaries = {p}
      BY <2>2
    <3> QED
      BY <2>3, <3>2, FS_Singleton DEF AtMostOnePrimary
  <2> QED
    BY <2>4, <2>5
<1> QED
  BY <1>1, Inductive, PTL

(* The members of a replica set are among those its primary reported.      *)
THEOREM MembersReported == Spec => []ReportedByPrimary
<1>1. IInv => ReportedByPrimary
  BY DEF IInv, Sound, PrimaryInv, ReportedByPrimary, Primaries, Members, IsPrimary
<1> QED
  BY <1>1, Inductive, PTL

(* A primary of an election that was replaced is never trusted again, in   *)
(* whatever order the replies of the two primaries are applied             *)
(* (_mongoc_topology_description_update_rs_from_primary).                  *)
THEOREM NoReturn == Spec => []NoOscillation
<1>1. IInv => NoOscillation
  BY DEF IInv, ElectionInv, NoOscillation
<1> QED
  BY <1>1, Inductive, PTL
============================================================================
