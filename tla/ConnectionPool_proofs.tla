------------------------ MODULE ConnectionPool_proofs ------------------------
(***************************************************************************)
(* The safety properties of ConnectionPool, for any number of servers,     *)
(* clients and generations.  First how each update of the description may  *)
(* change the id, the topologyVersion and the pool generation of a server, *)
(* then what a client may rely on while the description moves on.          *)
(***************************************************************************)
EXTENDS ConnectionPool, FiniteSetTheorems, FunctionTheorems, TLAPS

(* The fields of a server description and of a topology description.       *)
SdShape(sd) ==
  sd = [id |-> sd.id, type |-> sd.type, setName |-> sd.setName,
        hosts |-> sd.hosts, electionId |-> sd.electionId,
        setVersion |-> sd.setVersion, wire |-> sd.wire,
        timeout |-> sd.timeout, tv |-> sd.tv, generation |-> sd.generation]

Shape(d) ==
  /\ d = [type |-> d.type, setName |-> d.setName,
          maxElectionId |-> d.maxElectionId,
          maxSetVersion |-> d.maxSetVersion, maxServerId |-> d.maxServerId,
          sessionTimeout |-> d.sessionTimeout, compatible |-> d.compatible,
          servers |-> d.servers]
  /\ d.servers = [a \in Addresses |-> d.servers[a]]

Tvs == Versions \cup {NoTv}

(* A server description of a topology that has used n ids.                 *)
SdTyped(sd, n) ==
  /\ SdShape(sd) /\ sd.id \in 0 .. n
  /\ sd.tv \in Tvs /\ sd.generation \in Nat

(* No two servers of a description have the same id.                       *)
Typed(d) ==
  /\ Shape(d) /\ d.maxServerId \in Nat
  /\ \A a \in Addresses : SdTyped(d.servers[a], d.maxServerId)
  /\ \A a, b \in Addresses :
       d.servers[a].id = d.servers[b].id /\ d.servers[a].id # 0 => a = b

(* The three fields of a server that survive a reset.                      *)
Kept(sd, new) ==
  new.id = sd.id /\ new.tv = sd.tv /\ new.generation = sd.generation

(* An update may remove servers and add others under new ids.              *)
Evolves(d, u) ==
  /\ Typed(u) /\ d.maxServerId <= u.maxServerId
  /\ \A a \in Addresses :
       \/ u.servers[a].id = 0
       \/ Kept(d.servers[a], u.servers[a])
       \/ u.servers[a].id > d.maxServerId /\ u.servers[a].generation = 0

----------------------------------------------------------------------------
(***************************************************************************)
(* The operations on descriptions.                                         *)
(***************************************************************************)
(* Updates in sequence.                                                    *)
LEMMA EvolvesTwice ==
  ASSUME NEW d, NEW u, NEW v, Typed(d), Evolves(d, u), Evolves(u, v)
  PROVE  Evolves(d, v)
<1>1. /\ d.maxServerId \in Nat /\ u.maxServerId \in Nat /\ v.maxServerId \in Nat
      /\ d.maxServerId <= u.maxServerId /\ u.maxServerId <= v.maxServerId
  BY DEF Evolves, Typed
<1>2. Typed(v)
  BY DEF Evolves
<1>3. ASSUME NEW a \in Addresses
      PROVE  \/ v.servers[a].id = 0
             \/ Kept(d.servers[a], v.servers[a])
             \/ v.servers[a].id > d.maxServerId /\ v.servers[a].generation = 0
  <2>1. v.servers[a].id \in Nat
    BY <1>1, <1>2 DEF Typed, SdTyped
  <2> QED
    BY <1>1, <2>1 DEF Evolves, Kept
<1> QED
  BY <1>1, <1>2, <1>3 DEF Evolves

(* An update keeps the types and keeps the ids apart.                      *)
LEMMA EvolvesTyped ==
  ASSUME NEW d, NEW u, Evolves(d, u)
  PROVE  Typed(u)
BY DEF Evolves

(* An update that adds no server keeps the ids apart.                      *)
LEMMA NoneAdded ==
  ASSUME NEW d, Typed(d), NEW u, Shape(u), u.maxServerId = d.maxServerId,
         \A a \in Addresses :
           /\ SdShape(u.servers[a])
           /\ \/ Kept(d.servers[a], u.servers[a])
              \/ u.servers[a] = Absent
  PROVE  Evolves(d, u)
<1>1. Absent.id = 0 /\ Absent.tv = NoTv /\ Absent.generation = 0
  BY DEF Absent, NewSd, ResetSd
<1>2. d.maxServerId \in Nat
  BY DEF Typed
<1>3. ASSUME NEW a \in Addresses
      PROVE  SdTyped(u.servers[a], u.maxServerId)
  BY <1>1, <1>2 DEF Typed, SdTyped, Kept, Tvs
<1>4. \A a, b \in Addresses :
        u.servers[a].id = u.servers[b].id /\ u.servers[a].id # 0 => a = b
  BY <1>1 DEF Typed, Kept
<1>5. Typed(u)
  BY <1>2, <1>3, <1>4 DEF Typed
<1> QED
  BY <1>1, <1>2, <1>5 DEF Evolves

(* Absent and reset server descriptions.                                   *)
LEMMA SdShapes ==
  /\ SdShape(Absent)
  /\ \A sd : SdShape(ResetSd(sd)) /\ Kept(sd, ResetSd(sd))
<1>1. \A sd : SdShape(ResetSd(sd)) /\ Kept(sd, ResetSd(sd))
  BY DEF SdShape, ResetSd, Kept
<1> QED
  BY <1>1 DEF Absent, NewSd

(* One server description is replaced.                                     *)
LEMMA SetServerShape ==
  ASSUME NEW d, Typed(d), NEW a \in Addresses, NEW sd
  PROVE  LET u == SetServer(d, a, sd)
         IN  /\ Shape(u) /\ u.maxServerId = d.maxServerId /\ u.type = d.type
             /\ u.servers[a] = sd
             /\ \A b \in Addresses : b # a => u.servers[b] = d.servers[b]
BY DEF SetServer, Typed, Shape

(* ... by one that keeps its id, its pool and its topologyVersion.         *)
LEMMA SetServerEvolves ==
  ASSUME NEW d, Typed(d), NEW a \in Addresses, NEW sd, SdShape(sd),
         Kept(d.servers[a], sd) \/ sd = Absent
  PROVE  Evolves(d, SetServer(d, a, sd))
<1> DEFINE u == SetServer(d, a, sd)
<1>1. /\ Shape(u) /\ u.maxServerId = d.maxServerId
      /\ u.servers[a] = sd
      /\ \A b \in Addresses : b # a => u.servers[b] = d.servers[b]
  BY SetServerShape
<1> HIDE DEF u
<1>2. \A b \in Addresses : SdShape(d.servers[b]) /\ Kept(d.servers[b], d.servers[b])
  BY DEF Typed, SdTyped, Kept
<1>3. \A b \in Addresses : /\ SdShape(u.servers[b])
                           /\ \/ Kept(d.servers[b], u.servers[b])
                              \/ u.servers[b] = Absent
  BY <1>1, <1>2
<1>4. Evolves(d, u)
  BY <1>1, <1>3, NoneAdded
<1> QED
  BY <1>4 DEF u

(* The servers stay as they are.                                           *)
LEMMA SameEvolves ==
  ASSUME NEW d, Typed(d), NEW u, Shape(u), u.maxServerId = d.maxServerId,
         u.servers = d.servers
  PROVE  Evolves(d, u)
<1>1. \A b \in Addresses : SdShape(d.servers[b]) /\ Kept(d.servers[b], d.servers[b])
  BY DEF Typed, SdTyped, Kept
<1> QED
  BY <1>1, NoneAdded

(* A field of the description that says nothing of the servers changes.    *)
LEMMA FieldEvolves ==
  ASSUME NEW d, Typed(d), NEW x
  PROVE  /\ Evolves(d, [d EXCEPT !.type = x])
         /\ Evolves(d, [d EXCEPT !.setName = x])
         /\ Evolves(d, [d EXCEPT !.sessionTimeout = x])
         /\ Evolves(d, [d EXCEPT !.compatible = x])
<1>1. Evolves(d, [d EXCEPT !.type = x])
  <2> DEFINE u == [d EXCEPT !.type = x]
  <2>1. Shape(u) /\ u.maxServerId = d.maxServerId /\ u.servers = d.servers
    BY DEF Typed, Shape
  <2> HIDE DEF u
  <2>2. Evolves(d, u)
    BY <2>1, SameEvolves
  <2> QED
    BY <2>2 DEF u
<1>2. Evolves(d, [d EXCEPT !.setName = x])
  <2> DEFINE u == [d EXCEPT !.setName = x]
  <2>1. Shape(u) /\ u.maxServerId = d.maxServerId /\ u.servers = d.servers
    BY DEF Typed, Shape
  <2> HIDE DEF u
  <2>2. Evolves(d, u)
    BY <2>1, SameEvolves
  <2> QED
    BY <2>2 DEF u
<1>3. Evolves(d, [d EXCEPT !.sessionTimeout = x])
  <2> DEFINE u == [d EXCEPT !.sessionTimeout = x]
  <2>1. Shape(u) /\ u.maxServerId = d.maxServerId /\ u.servers = d.servers
    BY DEF Typed, Shape
  <2> HIDE DEF u
  <2>2. Evolves(d, u)
    BY <2>1, SameEvolves
  <2> QED
    BY <2>2 DEF u
<1>4. Evolves(d, [d EXCEPT !.compatible = x])
  <2> DEFINE u == [d EXCEPT !.compatible = x]
  <2>1. Shape(u) /\ u.maxServerId = d.maxServerId /\ u.servers = d.servers
    BY DEF Typed, Shape
  <2> HIDE DEF u
  <2>2. Evolves(d, u)
    BY <2>1, SameEvolves
  <2> QED
    BY <2>2 DEF u
<1> QED
  BY <1>1, <1>2, <1>3, <1>4

(* The type of the topology changes.                                       *)
LEMMA UpdateRsTypeEvolves ==
  ASSUME NEW d, Typed(d)
  PROVE  /\ Evolves(d, UpdateRsType(d))
         /\ \A type : Evolves(d, SetState(d, type))
<1>1. \A type : Evolves(d, SetState(d, type))
  BY FieldEvolves DEF SetState
<1> QED
  BY <1>1 DEF UpdateRsType

(* The session timeout and the compatibility are computed anew.            *)
LEMMA SummariesEvolve ==
  ASSUME NEW d, Typed(d)
  PROVE  Evolves(d, UpdateSessionTimeout(d)) /\ Evolves(d, CheckCompatible(d))
<1>1. Evolves(d, UpdateSessionTimeout(d))
  BY FieldEvolves DEF UpdateSessionTimeout
<1>2. Evolves(d, CheckCompatible(d))
  BY FieldEvolves DEF CheckCompatible
<1> QED
  BY <1>1, <1>2

(* A server leaves.                                                        *)
LEMMA RemoveEvolves ==
  ASSUME NEW d, Typed(d), NEW a \in Addresses
  PROVE  Evolves(d, RemoveServer(d, a))
BY SdShapes, SetServerEvolves DEF RemoveServer

(* A member is labelled.                                                   *)
LEMMA LabelEvolves ==
  ASSUME NEW d, Typed(d), NEW address, NEW type
  PROVE  Evolves(d, LabelUnknownMember(d, address, type))
<1>1. CASE address \in Members(d) /\ d.servers[address].type = "Unknown"
  <2> DEFINE r == d.servers[address]
             q == [r EXCEPT !.type = type]
  <2>1. address \in Addresses
    BY <1>1 DEF Members
  <2>2. SdShape(r)
    BY <2>1 DEF Typed, SdTyped
  <2>3. LabelUnknownMember(d, address, type) = SetServer(d, address, q)
    BY <1>1 DEF LabelUnknownMember
  <2> HIDE DEF r
  <2>4. SdShape(q) /\ Kept(r, q)
    BY <2>2 DEF SdShape, Kept
  <2> HIDE DEF q
  <2> QED
    BY <2>1, <2>3, <2>4, SetServerEvolves DEF r
<1>2. CASE ~(address \in Members(d) /\ d.servers[address].type = "Unknown")
  <2>1. LabelUnknownMember(d, address, type) = d
    BY <1>2 DEF LabelUnknownMember
  <2>2. Shape(d)
    BY DEF Typed
  <2> QED
    BY <2>1, <2>2, SameEvolves
<1> QED
  BY <1>1, <1>2

(* The latest election is remembered.                                      *)
LEMMA RememberEvolves ==
  ASSUME NEW d, Typed(d), NEW h
  PROVE  Evolves(d, RememberElection(d, h))
<1>1. ASSUME NEW e, NEW v
      PROVE  Evolves(d, [d EXCEPT !.maxElectionId = e, !.maxSetVersion = v])
  <2> DEFINE u == [d EXCEPT !.maxElectionId = e, !.maxSetVersion = v]
  <2>0. u = [d EXCEPT !.maxElectionId = e, !.maxSetVersion = v]
    OBVIOUS
  <2> HIDE DEF u
  <2>1. u = [type |-> d.type, setName |-> d.setName,
             maxElectionId |-> e, maxSetVersion |-> v,
             maxServerId |-> d.maxServerId,
             sessionTimeout |-> d.sessionTimeout, compatible |-> d.compatible,
             servers |-> d.servers]
    BY <2>0 DEF Typed, Shape
  <2>2. Shape(u) /\ u.maxServerId = d.maxServerId /\ u.servers = d.servers
    BY <2>1 DEF Typed, Shape
  <2>3. Evolves(d, u)
    BY <2>2, SameEvolves
  <2> QED
    BY <2>3 DEF u
<1>2. PICK e, v : RememberElection(d, h) =
                    [d EXCEPT !.maxElectionId = e, !.maxSetVersion = v]
  BY DEF RememberElection
<1>3. Evolves(d, [d EXCEPT !.maxElectionId = e, !.maxSetVersion = v])
  BY <1>1
<1> QED
  BY <1>2, <1>3

(* All servers are replaced at once.                                       *)
LEMMA ServersEvolve ==
  ASSUME NEW d, Typed(d), NEW s, s = [b \in Addresses |-> s[b]],
         \A b \in Addresses : /\ SdShape(s[b])
                              /\ Kept(d.servers[b], s[b]) \/ s[b] = Absent
  PROVE  Evolves(d, [d EXCEPT !.servers = s])
<1> DEFINE u == [d EXCEPT !.servers = s]
<1>1. u = [type |-> d.type, setName |-> d.setName,
           maxElectionId |-> d.maxElectionId,
           maxSetVersion |-> d.maxSetVersion, maxServerId |-> d.maxServerId,
           sessionTimeout |-> d.sessionTimeout, compatible |-> d.compatible,
           servers |-> s]
  BY DEF Typed, Shape
<1> HIDE DEF u
<1>2. Shape(u) /\ u.maxServerId = d.maxServerId /\ u.servers = s
  BY <1>1 DEF Shape
<1>3. Evolves(d, u)
  BY <1>2, NoneAdded
<1> QED
  BY <1>3 DEF u

(* The other primaries become Unknown.                                     *)
LEMMA InvalidatePrimariesEvolves ==
  ASSUME NEW d, Typed(d), NEW a \in Addresses
  PROVE  Evolves(d, InvalidatePrimaries(d, a))
<1> DEFINE s == [b \in Addresses |-> IF b # a /\ d.servers[b].type = "RSPrimary"
                                     THEN ResetSd(d.servers[b]) ELSE d.servers[b]]
<1>1. InvalidatePrimaries(d, a) = [d EXCEPT !.servers = s]
  BY DEF InvalidatePrimaries
<1>2. s = [b \in Addresses |-> s[b]]
  OBVIOUS
<1>3. \A b \in Addresses : s[b] = ResetSd(d.servers[b]) \/ s[b] = d.servers[b]
  OBVIOUS
<1> HIDE DEF s
<1>4. \A b \in Addresses : SdShape(s[b]) /\ Kept(d.servers[b], s[b])
  BY <1>3, SdShapes DEF Typed, SdTyped, Kept
<1> QED
  BY <1>1, <1>2, <1>4, ServersEvolve

(* Only reported servers stay.                                             *)
LEMMA RemoveUnreportedEvolves ==
  ASSUME NEW d, Typed(d), NEW hosts
  PROVE  Evolves(d, RemoveUnreportedServers(d, hosts))
<1> DEFINE s == [b \in Addresses |-> IF b \in hosts THEN d.servers[b] ELSE Absent]
<1>1. RemoveUnreportedServers(d, hosts) = [d EXCEPT !.servers = s]
  BY DEF RemoveUnreportedServers
<1>2. s = [b \in Addresses |-> s[b]]
  OBVIOUS
<1>3. \A b \in Addresses : s[b] = Absent \/ s[b] = d.servers[b]
  OBVIOUS
<1> HIDE DEF s
<1>4. \A b \in Addresses : /\ SdShape(s[b])
                           /\ Kept(d.servers[b], s[b]) \/ s[b] = Absent
  BY <1>3, SdShapes DEF Typed, SdTyped, Kept
<1> QED
  BY <1>1, <1>2, <1>4, ServersEvolve

(* Servers are added, each under an id of its own.                         *)
LEMMA AddServersEvolves ==
  ASSUME NEW d, Typed(d), NEW hosts \in SUBSET Addresses
  PROVE  Evolves(d, AddServers(d, hosts))
<1> DEFINE added == hosts \ Members(d)
           n == Cardinality(added)
           rank == CHOOSE f \in [added -> 1 .. n] :
                     \A a, b \in added : f[a] = f[b] => a = b
           m == d.maxServerId
           s == [a \in Addresses |-> IF a \in added THEN NewSd(m + rank[a])
                                                    ELSE d.servers[a]]
           u == AddServers(d, hosts)
<1>1. n \in Nat /\ m \in Nat
  BY AddressesAssumption, FS_Subset, FS_CardinalityType DEF Typed
<1>2. \E f \in [added -> 1 .. n] : \A a, b \in added : f[a] = f[b] => a = b
  <2>1. ExistsBijection(1 .. n, added)
    BY AddressesAssumption, FS_Subset, FS_CardinalityType
  <2>2. ExistsBijection(added, 1 .. n)
    BY <2>1, Fun_ExistsBijSymmetric
  <2> QED
    BY <2>2 DEF ExistsBijection, Bijection, Injection, IsInjective
<1>3. /\ rank \in [added -> 1 .. n]
      /\ \A a, b \in added : rank[a] = rank[b] => a = b
  BY <1>2
<1>4. u = [d EXCEPT !.maxServerId = m + n, !.servers = s]
  BY DEF AddServers, Typed, Shape
<1> HIDE DEF rank
<1>5. /\ s = [a \in Addresses |-> s[a]]
      /\ \A a \in Addresses : s[a] = IF a \in added THEN NewSd(m + rank[a])
                                                    ELSE d.servers[a]
  OBVIOUS
<1> HIDE DEF n, s, u
<1>6. u = [type |-> d.type, setName |-> d.setName,
           maxElectionId |-> d.maxElectionId,
           maxSetVersion |-> d.maxSetVersion, maxServerId |-> m + n,
           sessionTimeout |-> d.sessionTimeout, compatible |-> d.compatible,
           servers |-> s]
  BY <1>4 DEF Typed, Shape
<1>7. Shape(u) /\ u.maxServerId = m + n /\ u.servers = s
  BY <1>5, <1>6 DEF Shape
<1>8. ASSUME NEW a \in Addresses
      PROVE  /\ SdTyped(s[a], m + n)
             /\ a \in added => s[a].id = m + rank[a] /\ s[a].generation = 0
             /\ a \notin added => s[a] = d.servers[a] /\ s[a].id \in 0 .. m
  <2>1. CASE a \in added
    <3> DEFINE id == m + rank[a]
    <3>1. id \in 0 .. m + n
      BY <1>1, <1>3, <2>1
    <3>2. s[a] = NewSd(id)
      BY <1>5, <2>1
    <3> HIDE DEF id
    <3>3. /\ SdShape(NewSd(id)) /\ NewSd(id).id = id /\ NewSd(id).tv = NoTv
          /\ NewSd(id).generation = 0
      BY DEF SdShape, NewSd, ResetSd
    <3> QED
      BY <2>1, <3>1, <3>2, <3>3 DEF SdTyped, Tvs, id
  <2>2. CASE a \notin added
    <3>1. s[a] = d.servers[a] /\ SdTyped(s[a], m)
      BY <1>5, <2>2 DEF Typed
    <3> QED
      BY <1>1, <2>2, <3>1 DEF SdTyped
  <2> QED
    BY <2>1, <2>2
<1> HIDE DEF m, added
<1>9. ASSUME NEW a \in Addresses, NEW b \in Addresses, s[a].id = s[b].id, s[a].id # 0
      PROVE  a = b
  <2>1. CASE a \in added /\ b \in added
    BY <1>1, <1>3, <1>8, <1>9, <2>1
  <2>2. CASE a \notin added /\ b \notin added
    BY <1>8, <1>9, <2>2 DEF Typed
  <2>3. ~(a \in added /\ b \notin added) /\ ~(a \notin added /\ b \in added)
    BY <1>1, <1>3, <1>8, <1>9
  <2> QED
    BY <2>1, <2>2, <2>3
<1>10. Typed(u)
  BY <1>1, <1>7, <1>8, <1>9 DEF Typed
<1>11. ASSUME NEW a \in Addresses
       PROVE  \/ Kept(d.servers[a], s[a])
              \/ s[a].id > m /\ s[a].generation = 0
  BY <1>1, <1>3, <1>8 DEF Kept
<1> QED
  BY <1>1, <1>7, <1>10, <1>11 DEF Evolves, u, m

----------------------------------------------------------------------------
(***************************************************************************)
(* The handlers, up to the fields of the server that replied.              *)
(***************************************************************************)
(* A server becomes Unknown.                                               *)
LEMMA InvalidateEvolves ==
  ASSUME NEW d, Typed(d), NEW a \in Addresses
  PROVE  Evolves(d, HandleNullReply(d, a)) /\ Evolves(d, InvalidateServer(d, a))
<1> DEFINE unknown == SetServer(d, a, ResetSd(d.servers[a]))
           v == IF d.type = "RSWithPrimary" THEN UpdateRsType(unknown) ELSE unknown
           u == UpdateSessionTimeout(v)
<1>1. u = HandleNullReply(d, a)
  BY DEF HandleNullReply
<1>2. Evolves(d, unknown)
  BY SdShapes, SetServerEvolves
<1> HIDE DEF unknown
<1>3. Typed(unknown)
  BY <1>2 DEF Evolves
<1>4. Evolves(d, v)
  BY <1>2, <1>3, UpdateRsTypeEvolves, EvolvesTwice
<1> HIDE DEF v
<1>5. Evolves(v, u)
  BY <1>4, SummariesEvolve DEF Evolves
<1>6. Evolves(d, u)
  BY <1>4, <1>5, EvolvesTwice
<1>7. Evolves(d, d)
  BY SameEvolves DEF Typed
<1> QED
  BY <1>1, <1>6, <1>7 DEF InvalidateServer

(* _mongoc_topology_description_update_rs_from_primary                     *)
LEMMA FromPrimaryEvolves ==
  ASSUME NEW d, Typed(d), NEW a \in Addresses, NEW h, h.hosts \in SUBSET Addresses
  PROVE  Evolves(d, UpdateRsFromPrimary(d, a, h))
<1> DEFINE named == [d EXCEPT !.setName = h.setName]
           stale == InvalidateServer(named, a)
           remembered == RememberElection(named, h)
           rest == InvalidatePrimaries(remembered, a)
           added == AddServers(rest, h.hosts)
           left == RemoveUnreportedServers(added, h.hosts)
           gone == RemoveServer(d, a)
<1>1. \/ UpdateRsFromPrimary(d, a, h) = UpdateRsType(gone)
      \/ UpdateRsFromPrimary(d, a, h) = UpdateRsType(stale)
      \/ UpdateRsFromPrimary(d, a, h) = UpdateRsType(left)
  BY DEF UpdateRsFromPrimary
<1>2. ASSUME NEW u, Evolves(d, u) PROVE Evolves(d, UpdateRsType(u))
  <2>1. Evolves(u, UpdateRsType(u))
    BY <1>2, UpdateRsTypeEvolves DEF Evolves
  <2> QED
    BY <1>2, <2>1, EvolvesTwice
<1>3. Evolves(d, gone)
  BY RemoveEvolves
<1>4. Evolves(d, named)
  BY FieldEvolves
<1> HIDE DEF named, gone
<1>5. Evolves(d, stale)
  BY <1>4, InvalidateEvolves, EvolvesTyped, EvolvesTwice
<1> HIDE DEF stale
<1>6. Evolves(d, remembered)
  BY <1>4, RememberEvolves, EvolvesTyped, EvolvesTwice
<1> HIDE DEF remembered
<1>7. Evolves(d, rest)
  BY <1>6, InvalidatePrimariesEvolves, EvolvesTyped, EvolvesTwice
<1> HIDE DEF rest
<1>8. Evolves(d, added)
  BY <1>7, AddServersEvolves, EvolvesTyped, EvolvesTwice
<1> HIDE DEF added
<1>9. Evolves(d, left)
  BY <1>8, RemoveUnreportedEvolves, EvolvesTyped, EvolvesTwice
<1> HIDE DEF left
<1> QED
  BY <1>1, <1>2, <1>3, <1>5, <1>9

(* _mongoc_topology_description_update_rs_without_primary                  *)
LEMMA WithoutPrimaryEvolves ==
  ASSUME NEW d, Typed(d), NEW a \in Addresses, NEW h, h.hosts \in SUBSET Addresses
  PROVE  Evolves(d, UpdateRsWithoutPrimary(d, a, h))
<1> DEFINE named == [d EXCEPT !.setName = h.setName]
           added == AddServers(named, h.hosts)
           labelled == LabelUnknownMember(added, h.primary, "PossiblePrimary")
           gone == RemoveServer(d, a)
           left == RemoveServer(labelled, a)
<1>1. \/ UpdateRsWithoutPrimary(d, a, h) = gone
      \/ UpdateRsWithoutPrimary(d, a, h) = labelled
      \/ UpdateRsWithoutPrimary(d, a, h) = left
  BY DEF UpdateRsWithoutPrimary
<1>2. Evolves(d, gone)
  BY RemoveEvolves
<1>3. Evolves(d, named)
  BY FieldEvolves
<1> HIDE DEF named, gone
<1>4. Evolves(d, added)
  BY <1>3, AddServersEvolves, EvolvesTyped, EvolvesTwice
<1> HIDE DEF added
<1>5. Evolves(d, labelled)
  BY <1>4, LabelEvolves, EvolvesTyped, EvolvesTwice
<1> HIDE DEF labelled
<1>6. Evolves(d, left)
  BY <1>5, RemoveEvolves, EvolvesTyped, EvolvesTwice
<1> HIDE DEF left
<1> QED
  BY <1>1, <1>2, <1>5, <1>6

(* _mongoc_topology_description_update_rs_with_primary_from_member         *)
LEMMA FromMemberEvolves ==
  ASSUME NEW d, Typed(d), NEW a \in Addresses, NEW h
  PROVE  Evolves(d, UpdateRsWithPrimaryFromMember(d, a, h))
<1> DEFINE gone == RemoveServer(d, a)
           none == SetState(d, "RSNoPrimary")
           labelled == LabelUnknownMember(none, h.primary, "PossiblePrimary")
<1>1. \/ UpdateRsWithPrimaryFromMember(d, a, h) = UpdateRsType(gone)
      \/ UpdateRsWithPrimaryFromMember(d, a, h) = gone
      \/ UpdateRsWithPrimaryFromMember(d, a, h) = labelled
      \/ UpdateRsWithPrimaryFromMember(d, a, h) = d
  BY DEF UpdateRsWithPrimaryFromMember
<1>2. Evolves(d, gone)
  BY RemoveEvolves
<1> HIDE DEF gone
<1>3. Evolves(d, UpdateRsType(gone))
  BY <1>2, UpdateRsTypeEvolves, EvolvesTyped, EvolvesTwice
<1>4. Evolves(d, none)
  BY UpdateRsTypeEvolves
<1> HIDE DEF none
<1>5. Evolves(d, labelled)
  BY <1>4, LabelEvolves, EvolvesTyped, EvolvesTwice
<1>6. Evolves(d, d)
  BY SameEvolves DEF Typed
<1> HIDE DEF labelled
<1> QED
  BY <1>1, <1>2, <1>3, <1>5, <1>6

(* gSDAMTransitionTable                                                    *)
LEMMA TransitionEvolves ==
  ASSUME NEW d, Typed(d), NEW a \in Addresses, NEW h, h.hosts \in SUBSET Addresses
  PROVE  Evolves(d, Transition(d, a, h))
<1> DEFINE gone == RemoveServer(d, a)
           none == SetState(d, "RSNoPrimary")
           u == Transition(d, a, h)
<1>1. \/ u = d \/ u = gone \/ u = UpdateRsType(gone) \/ u = UpdateRsType(d)
      \/ \E type : u = SetState(d, type)
      \/ u = UpdateRsFromPrimary(d, a, h)
      \/ u = UpdateRsWithoutPrimary(none, a, h)
      \/ u = UpdateRsWithoutPrimary(d, a, h)
      \/ u = UpdateRsWithPrimaryFromMember(d, a, h)
  BY DEF Transition, UpdateUnknownWithStandalone
<1> HIDE DEF u
<1>2. Evolves(d, d) /\ Evolves(d, UpdateRsType(d)) /\ Evolves(d, gone)
  BY SameEvolves, UpdateRsTypeEvolves, RemoveEvolves DEF Typed
<1>3. \A type : Evolves(d, SetState(d, type))
  BY UpdateRsTypeEvolves
<1>4. Evolves(d, none)
  BY <1>3
<1> HIDE DEF gone, none
<1>5. Evolves(d, UpdateRsType(gone))
  BY <1>2, UpdateRsTypeEvolves, EvolvesTyped, EvolvesTwice
<1>6. Evolves(d, UpdateRsWithoutPrimary(none, a, h))
  BY <1>4, WithoutPrimaryEvolves, EvolvesTyped, EvolvesTwice
<1>7. /\ Evolves(d, UpdateRsFromPrimary(d, a, h))
      /\ Evolves(d, UpdateRsWithoutPrimary(d, a, h))
      /\ Evolves(d, UpdateRsWithPrimaryFromMember(d, a, h))
  BY FromPrimaryEvolves, WithoutPrimaryEvolves, FromMemberEvolves
<1> QED
  BY <1>1, <1>2, <1>3, <1>5, <1>6, <1>7 DEF u

----------------------------------------------------------------------------
(***************************************************************************)
(* What an update does to the server of an id.                             *)
(***************************************************************************)
(* The pool of the server with id k, and of no other, is cleared (k = 0:   *)
(* of none), and no topologyVersion becomes an older one.                  *)
Advances(sd, new, k) ==
  /\ new.id = sd.id
  /\ new.generation = sd.generation + (IF sd.id = k THEN 1 ELSE 0)
  /\ TopologyVersionCmp(sd.tv, new.tv) <= 0

Follows(d, u, k) ==
  /\ Typed(u) /\ d.maxServerId <= u.maxServerId
  /\ \A a \in Addresses :
       \/ u.servers[a].id = 0
       \/ Advances(d.servers[a], u.servers[a], k)
       \/ u.servers[a].id > d.maxServerId /\ u.servers[a].generation = 0

(* mongoc_server_description_topology_version_cmp                          *)
LEMMA CmpValues ==
  /\ \A v, w : TopologyVersionCmp(v, w) \in {-1, 0, 1}
  /\ \A v \in Tvs : TopologyVersionCmp(v, v) <= 0
<1>1. \A v, w : TopologyVersionCmp(v, w) \in {-1, 0, 1}
  BY DEF TopologyVersionCmp
<1>2. \A v \in Tvs : v = NoTv \/ v.counter \in Int
  BY BoundsAssumption DEF Tvs, Versions
<1>3. ASSUME NEW v \in Tvs PROVE TopologyVersionCmp(v, v) <= 0
  <2>1. v = NoTv \/ ~(v.counter > v.counter)
    BY <1>2
  <2>2. TopologyVersionCmp(v, v) \in {-1, 0}
    BY <2>1 DEF TopologyVersionCmp
  <2> QED
    BY <2>2
<1> QED
  BY <1>1, <1>3

(* A server that is kept.                                                  *)
LEMMA KeptAdvances ==
  ASSUME NEW sd, NEW new, NEW n, SdTyped(sd, n), sd.id # 0, Kept(sd, new)
  PROVE  Advances(sd, new, 0)
<1>1. sd.tv \in Tvs /\ sd.generation \in Nat
  BY DEF SdTyped
<1> QED
  BY <1>1, CmpValues DEF Kept, Advances

(* An update without a reply clears no pool and keeps every version.       *)
LEMMA EvolvesFollows ==
  ASSUME NEW d, NEW u, Typed(d), Evolves(d, u)
  PROVE  Follows(d, u, 0)
<1>1. ASSUME NEW a \in Addresses
      PROVE  \/ u.servers[a].id = 0
             \/ Advances(d.servers[a], u.servers[a], 0)
             \/ u.servers[a].id > d.maxServerId /\ u.servers[a].generation = 0
  <2>1. SdTyped(d.servers[a], d.maxServerId)
    BY DEF Typed
  <2>2. CASE Kept(d.servers[a], u.servers[a]) /\ u.servers[a].id # 0
    BY <2>1, <2>2, KeptAdvances DEF Kept
  <2> QED
    BY <2>2 DEF Evolves
<1> QED
  BY <1>1 DEF Evolves, Follows

(* Updates in sequence.                                                    *)
LEMMA FollowsEvolves ==
  ASSUME NEW d, NEW s, NEW u, NEW k, Typed(d), Follows(d, s, k), Evolves(s, u)
  PROVE  Follows(d, u, k)
<1>1. /\ d.maxServerId \in Nat /\ s.maxServerId \in Nat /\ u.maxServerId \in Nat
      /\ d.maxServerId <= s.maxServerId /\ s.maxServerId <= u.maxServerId
  BY DEF Evolves, Follows, Typed
<1>2. ASSUME NEW a \in Addresses
      PROVE  \/ u.servers[a].id = 0
             \/ Advances(d.servers[a], u.servers[a], k)
             \/ u.servers[a].id > d.maxServerId /\ u.servers[a].generation = 0
  <2>1. u.servers[a].id \in Nat
    BY <1>1 DEF Evolves, Typed, SdTyped
  <2>2. CASE Kept(s.servers[a], u.servers[a])
    BY <2>2 DEF Kept, Follows, Advances
  <2> QED
    BY <1>1, <2>1, <2>2 DEF Evolves
<1> QED
  BY <1>1, <1>2 DEF Evolves, Follows

(* ... with the server whose pool is cleared known before.                 *)
LEMMA EvolvesThenFollows ==
  ASSUME NEW d, NEW s, NEW u, Typed(d), NEW k \in 0 .. d.maxServerId,
         Evolves(d, s), Follows(s, u, k)
  PROVE  Follows(d, u, k)
<1>1. /\ d.maxServerId \in Nat /\ s.maxServerId \in Nat /\ u.maxServerId \in Nat
      /\ d.maxServerId <= s.maxServerId /\ s.maxServerId <= u.maxServerId
  BY DEF Evolves, Follows, Typed
<1>2. ASSUME NEW a \in Addresses
      PROVE  \/ u.servers[a].id = 0
             \/ Advances(d.servers[a], u.servers[a], k)
             \/ u.servers[a].id > d.maxServerId /\ u.servers[a].generation = 0
  <2>1. u.servers[a].id \in Nat
    BY <1>1 DEF Follows, Typed, SdTyped
  <2>2. CASE Advances(s.servers[a], u.servers[a], k) /\ u.servers[a].id # 0
    <3>1. CASE Kept(d.servers[a], s.servers[a])
      BY <2>2, <3>1 DEF Kept, Advances
    <3>2. CASE s.servers[a].id > d.maxServerId /\ s.servers[a].generation = 0
      BY <1>1, <2>1, <2>2, <3>2 DEF Advances
    <3> QED
      BY <2>2, <3>1, <3>2 DEF Evolves, Advances
  <2> QED
    BY <1>1, <2>1, <2>2 DEF Follows
<1> QED
  BY <1>1, <1>2 DEF Follows

(* The server of an id.                                                    *)
LEMMA AddressOfId ==
  ASSUME NEW d, Typed(d), NEW id, id # 0
  PROVE  /\ HasId(d, id) => /\ AddressOf(d, id) \in Addresses
                            /\ d.servers[AddressOf(d, id)].id = id
                            /\ id \in 1 .. d.maxServerId
         /\ \A a \in Addresses : d.servers[a].id = id =>
              HasId(d, id) /\ AddressOf(d, id) = a /\ ServerById(d, id) = d.servers[a]
<1>1. HasId(d, id) => /\ AddressOf(d, id) \in Addresses
                      /\ d.servers[AddressOf(d, id)].id = id
  BY DEF HasId, AddressOf
<1>2. \A a \in Addresses : d.servers[a].id = id => HasId(d, id)
  BY DEF HasId
<1>3. \A a \in Addresses : d.servers[a].id = id => AddressOf(d, id) = a
  BY <1>1, <1>2 DEF Typed
<1>4. \A a \in Addresses : d.servers[a].id = id => id \in 1 .. d.maxServerId
  BY DEF Typed, SdTyped
<1> QED
  BY <1>1, <1>2, <1>3, <1>4 DEF ServerById

(* One server of the topology is replaced and keeps its id.                *)
Touched(d, u, a, sd) ==
  /\ Typed(u) /\ u.maxServerId = d.maxServerId /\ u.servers[a] = sd
  /\ \A b \in Addresses : b # a => u.servers[b] = d.servers[b]

(* It keeps the ids apart.                                                 *)
LEMMA SetServerTouches ==
  ASSUME NEW d, Typed(d), NEW a \in Addresses, NEW sd,
         SdTyped(sd, d.maxServerId), sd.id = d.servers[a].id
  PROVE  Touched(d, SetServer(d, a, sd), a, sd)
<1> DEFINE u == SetServer(d, a, sd)
<1>1. /\ Shape(u) /\ u.maxServerId = d.maxServerId
      /\ u.servers[a] = sd
      /\ \A b \in Addresses : b # a => u.servers[b] = d.servers[b]
  BY SetServerShape
<1> HIDE DEF u
<1>2. \A b \in Addresses : u.servers[b].id = d.servers[b].id
  BY <1>1
<1>3. \A b, c \in Addresses :
        u.servers[b].id = u.servers[c].id /\ u.servers[b].id # 0 => b = c
  BY <1>2 DEF Typed
<1>4. Typed(u)
  BY <1>1, <1>3 DEF Typed
<1> QED
  BY <1>1, <1>4 DEF Touched, u

(* It advances when the server at its address does.                        *)
LEMMA TouchedFollows ==
  ASSUME NEW d, Typed(d), NEW u, NEW a \in Addresses, NEW sd, Touched(d, u, a, sd),
         NEW k, k = 0 \/ k = d.servers[a].id, Advances(d.servers[a], sd, k)
  PROVE  Follows(d, u, k)
<1>1. ASSUME NEW b \in Addresses, b # a
      PROVE  u.servers[b].id = 0 \/ Advances(d.servers[b], u.servers[b], k)
  <2>1. u.servers[b] = d.servers[b] /\ SdTyped(d.servers[b], d.maxServerId)
    BY <1>1 DEF Touched, Typed
  <2>2. d.servers[b].id # 0 => d.servers[b].id # k
    BY <1>1 DEF Typed
  <2>3. d.servers[b].id # 0 => Advances(d.servers[b], u.servers[b], 0)
    BY <2>1, KeptAdvances DEF Kept
  <2> QED
    BY <2>1, <2>2, <2>3 DEF Advances
<1>2. d.maxServerId <= u.maxServerId
  BY DEF Touched, Typed
<1> QED
  BY <1>1, <1>2 DEF Touched, Follows

(* A reply that is not older than what is known is applied.                *)
LEMMA ReplyFollows ==
  ASSUME NEW d, Typed(d), NEW a \in Addresses, d.servers[a].id # 0,
         NEW h, h.hosts \in SUBSET Addresses, h.tv \in Tvs,
         TopologyVersionCmp(d.servers[a].tv, h.tv) # 1
  PROVE  Follows(d, HandleReply(d, a, h), 0)
<1> DEFINE new == SdHandleHello(d.servers[a], h)
           wrongSet == d.type = "Single" /\ d.setName \notin {NoName, h.setName}
           sd == IF wrongSet THEN ResetSd(new) ELSE new
           s == SetServer(d, a, sd)
           t == Transition(s, a, h)
           u == UpdateSessionTimeout(t)
           v == CheckCompatible(u)
<1>1. HandleReply(d, a, h) = v
  BY DEF HandleReply
<1>2. SdTyped(d.servers[a], d.maxServerId) /\ d.maxServerId \in Nat
  BY DEF Typed
<1>3. /\ SdShape(new) /\ new.id = d.servers[a].id /\ new.tv = h.tv
      /\ new.generation = d.servers[a].generation
  BY DEF SdHandleHello, SdShape
<1> HIDE DEF new
<1>4. /\ SdShape(sd) /\ sd.id = d.servers[a].id /\ sd.tv = h.tv
      /\ sd.generation = d.servers[a].generation
  BY <1>3, SdShapes DEF Kept
<1> HIDE DEF sd
<1>5. SdTyped(sd, d.maxServerId)
  BY <1>2, <1>4 DEF SdTyped
<1>6. Touched(d, s, a, sd)
  BY <1>4, <1>5, SetServerTouches
<1>7. Advances(d.servers[a], sd, 0)
  <2>1. TopologyVersionCmp(d.servers[a].tv, h.tv) <= 0
    BY CmpValues
  <2> QED
    BY <1>2, <1>4, <2>1 DEF Advances, SdTyped
<1>8. Follows(d, s, 0) /\ Typed(s)
  BY <1>6, <1>7, TouchedFollows DEF Touched
<1> HIDE DEF s
<1>9. Evolves(s, t)
  BY <1>8, TransitionEvolves
<1> HIDE DEF t
<1>10. Evolves(t, u)
  BY <1>9, EvolvesTyped, SummariesEvolve
<1> HIDE DEF u
<1>11. Evolves(u, v)
  BY <1>10, EvolvesTyped, SummariesEvolve
<1> HIDE DEF v
<1>12. Evolves(s, v)
  BY <1>8, <1>9, <1>10, <1>11, EvolvesTyped, EvolvesTwice
<1> QED
  BY <1>1, <1>8, <1>12, FollowsEvolves

(* A reply, to whichever server it belongs, and also to none.              *)
LEMMA HelloFollows ==
  ASSUME NEW d, Typed(d), NEW id, id # 0,
         NEW h, h.hosts \in SUBSET Addresses, h.tv \in Tvs
  PROVE  Follows(d, HandleHello(d, id, h), 0)
<1>1. CASE HandleHello(d, id, h) = d
  <2>1. Evolves(d, d)
    BY SameEvolves DEF Typed
  <2> QED
    BY <1>1, <2>1, EvolvesFollows
<1>2. CASE HandleHello(d, id, h) # d
  <2> DEFINE a == AddressOf(d, id)
  <2>1. /\ HasId(d, id) /\ TopologyVersionCmp(ServerById(d, id).tv, h.tv) # 1
        /\ HandleHello(d, id, h) = HandleReply(d, a, h)
    BY <1>2 DEF HandleHello
  <2>2. a \in Addresses /\ d.servers[a].id = id
    BY <2>1, AddressOfId
  <2>3. TopologyVersionCmp(d.servers[a].tv, h.tv) # 1
    BY <2>1 DEF ServerById
  <2> HIDE DEF a
  <2> QED
    BY <2>1, <2>2, <2>3, ReplyFollows
<1> QED
  BY <1>1, <1>2

(* A failed check, and an invalidation.                                    *)
LEMMA ErrorFollows ==
  ASSUME NEW d, Typed(d), NEW id, id # 0
  PROVE  Follows(d, HandleError(d, id), 0)
<1>1. Evolves(d, d)
  BY SameEvolves DEF Typed
<1>2. HasId(d, id) => Evolves(d, HandleNullReply(d, AddressOf(d, id)))
  BY AddressOfId, InvalidateEvolves
<1> QED
  BY <1>1, <1>2, EvolvesFollows DEF HandleError

(* The pool of a server is cleared.                                        *)
LEMMA ClearTouches ==
  ASSUME NEW d, Typed(d), NEW a \in Addresses, d.servers[a].id # 0
  PROVE  \E sd : /\ Touched(d, ClearConnectionPool(d, d.servers[a].id), a, sd)
                 /\ sd.id = d.servers[a].id /\ sd.tv = d.servers[a].tv
                 /\ sd.generation = d.servers[a].generation + 1
<1> DEFINE r == d.servers[a]
           id == r.id
           g == r.generation + 1
           sd == [r EXCEPT !.generation = g]
<1>1. HasId(d, id) /\ AddressOf(d, id) = a
  BY AddressOfId
<1>2. ClearConnectionPool(d, id) = SetServer(d, a, [d.servers[a] EXCEPT !.generation = @ + 1])
  BY <1>1 DEF ClearConnectionPool
<1>3. SdTyped(r, d.maxServerId)
  BY DEF Typed
<1> HIDE DEF r
<1>4. [r EXCEPT !.generation = @ + 1] = sd
  BY <1>3 DEF SdTyped, SdShape
<1>5. ClearConnectionPool(d, id) = SetServer(d, a, sd)
  BY <1>2, <1>4 DEF r
<1>6. g \in Nat
  BY <1>3 DEF SdTyped
<1> HIDE DEF g
<1>7. SdTyped(sd, d.maxServerId) /\ sd.id = id /\ sd.tv = r.tv /\ sd.generation = g
  BY <1>3, <1>6 DEF SdTyped, SdShape
<1> HIDE DEF sd
<1>8. Touched(d, ClearConnectionPool(d, id), a, sd)
  BY <1>5, <1>7, SetServerTouches DEF r
<1> QED
  BY <1>7, <1>8 DEF r, g

(* It raises the generation of that server alone.                          *)
LEMMA ClearFollows ==
  ASSUME NEW d, Typed(d), NEW id, id # 0, HasId(d, id)
  PROVE  Follows(d, ClearConnectionPool(d, id), id)
<1> DEFINE a == AddressOf(d, id)
<1>1. a \in Addresses /\ d.servers[a].id = id
  BY AddressOfId
<1> HIDE DEF a
<1>2. PICK sd : /\ Touched(d, ClearConnectionPool(d, id), a, sd)
                /\ sd.id = d.servers[a].id /\ sd.tv = d.servers[a].tv
                /\ sd.generation = d.servers[a].generation + 1
  BY <1>1, ClearTouches
<1>3. d.servers[a].tv \in Tvs
  BY <1>1 DEF Typed, SdTyped
<1>4. Advances(d.servers[a], sd, id)
  BY <1>1, <1>2, <1>3, CmpValues DEF Advances
<1> QED
  BY <1>1, <1>2, <1>4, TouchedFollows

(* A DNS error: the server is Unknown and its pool is cleared.             *)
LEMMA DnsErrorFollows ==
  ASSUME NEW d, Typed(d), NEW id, id # 0, HasId(d, id)
  PROVE  Follows(d, ClearConnectionPool(InvalidateServer(d, AddressOf(d, id)), id), id)
<1> DEFINE a == AddressOf(d, id)
           s == InvalidateServer(d, a)
           u == ClearConnectionPool(s, id)
<1>1. a \in Addresses /\ d.servers[a].id = id /\ id \in 0 .. d.maxServerId
  BY AddressOfId
<1>2. Evolves(d, s)
  BY <1>1, InvalidateEvolves
<1> HIDE DEF s
<1>3. Typed(s)
  BY <1>2, EvolvesTyped
<1>4. Follows(s, u, id)
  <2>1. CASE HasId(s, id)
    BY <1>3, <2>1, ClearFollows
  <2>2. CASE ~HasId(s, id)
    <3>1. u = s
      BY <2>2 DEF ClearConnectionPool
    <3>2. Follows(s, s, 0)
      BY <1>3, SameEvolves, EvolvesFollows DEF Typed
    <3>3. \A b \in Addresses : s.servers[b].id # id
      BY <2>2 DEF HasId
    <3> QED
      BY <3>1, <3>2, <3>3 DEF Follows, Advances
  <2> QED
    BY <2>1, <2>2
<1> QED
  BY <1>1, <1>2, <1>4, EvolvesThenFollows DEF s

(* A state change error stores the newer topologyVersion it carries.       *)
LEMMA StoredTouches ==
  ASSUME NEW d, Typed(d), NEW a \in Addresses, d.servers[a].id # 0, NEW tv \in Tvs,
         TopologyVersionCmp(d.servers[a].tv, tv) <= 0
  PROVE  \E sd : /\ Touched(d, SetServer(d, a, [d.servers[a] EXCEPT !.tv = tv]), a, sd)
                 /\ sd.id = d.servers[a].id
                 /\ sd.generation = d.servers[a].generation
                 /\ TopologyVersionCmp(d.servers[a].tv, sd.tv) <= 0
<1> DEFINE r == d.servers[a]
           sd == [r EXCEPT !.tv = tv]
<1>1. SdTyped(r, d.maxServerId)
  BY DEF Typed
<1> HIDE DEF r
<1>2. /\ SdTyped(sd, d.maxServerId) /\ sd.id = r.id /\ sd.tv = tv
      /\ sd.generation = r.generation
  BY <1>1 DEF SdTyped, SdShape
<1> HIDE DEF sd
<1>3. Touched(d, SetServer(d, a, sd), a, sd)
  BY <1>2, SetServerTouches DEF r
<1> QED
  BY <1>2, <1>3 DEF r, sd

(* _mongoc_topology_handle_app_error under the lock.                       *)
AppError(d, id, a, store, tv, clear) ==
  LET stored == IF store THEN SetServer(d, a, [ServerById(d, id) EXCEPT !.tv = tv])
                         ELSE d
  IN  InvalidateServer(IF clear THEN ClearConnectionPool(stored, id) ELSE stored, a)

(* It clears at most the pool of its server, and keeps the order.          *)
LEMMA AppErrorFollows ==
  ASSUME NEW d, Typed(d), NEW id, id # 0, HasId(d, id), NEW tv \in Tvs,
         NEW store \in BOOLEAN, NEW clear \in BOOLEAN,
         store => TopologyVersionCmp(ServerById(d, id).tv, tv) <= 0
  PROVE  Follows(d, AppError(d, id, AddressOf(d, id), store, tv, clear),
                 IF clear THEN id ELSE 0)
<1> DEFINE a == AddressOf(d, id)
           s == IF store THEN SetServer(d, a, [ServerById(d, id) EXCEPT !.tv = tv])
                         ELSE d
           c == IF clear THEN ClearConnectionPool(s, id) ELSE s
           k == IF clear THEN id ELSE 0
<1>1. a \in Addresses /\ d.servers[a].id = id /\ ServerById(d, id) = d.servers[a]
  BY AddressOfId
<1>2. AppError(d, id, a, store, tv, clear) = InvalidateServer(c, a)
  BY DEF AppError
<1> HIDE DEF a
<1>3. d.servers[a].tv \in Tvs /\ d.servers[a].generation \in Nat
  BY <1>1 DEF Typed, SdTyped
<1>4. \E sd : /\ Touched(d, s, a, sd)
              /\ sd.id = id /\ sd.generation = d.servers[a].generation
              /\ TopologyVersionCmp(d.servers[a].tv, sd.tv) <= 0
  <2>1. CASE store
    <3>1. s = SetServer(d, a, [d.servers[a] EXCEPT !.tv = tv])
      BY <1>1, <2>1
    <3>2. TopologyVersionCmp(d.servers[a].tv, tv) <= 0
      BY <1>1, <2>1
    <3> HIDE DEF s
    <3> QED
      BY <1>1, <3>1, <3>2, StoredTouches
  <2>2. CASE ~store
    <3>1. s = d
      BY <2>2
    <3>2. Touched(d, d, a, d.servers[a])
      BY DEF Touched
    <3> QED
      BY <1>1, <1>3, <3>1, <3>2, CmpValues
  <2> QED
    BY <2>1, <2>2
<1> HIDE DEF s
<1>5. PICK sd : /\ Touched(d, s, a, sd)
                /\ sd.id = id /\ sd.generation = d.servers[a].generation
                /\ TopologyVersionCmp(d.servers[a].tv, sd.tv) <= 0
  BY <1>4
<1>6. Follows(d, c, k)
  <2>1. CASE clear
    <3>1. Typed(s) /\ s.servers[a].id = id /\ s.servers[a] = sd
      BY <1>5 DEF Touched
    <3>2. PICK new : /\ Touched(s, c, a, new)
                     /\ new.id = id /\ new.tv = sd.tv
                     /\ new.generation = sd.generation + 1
      BY <1>1, <2>1, <3>1, ClearTouches
    <3> HIDE DEF c
    <3>3. Touched(d, c, a, new)
      BY <1>5, <3>2 DEF Touched
    <3>4. Advances(d.servers[a], new, id)
      BY <1>1, <1>3, <1>5, <3>2 DEF Advances
    <3> QED
      BY <1>1, <2>1, <3>3, <3>4, TouchedFollows
  <2>2. CASE ~clear
    <3>1. c = s /\ k = 0
      BY <2>2
    <3>2. Advances(d.servers[a], sd, 0)
      BY <1>1, <1>3, <1>5 DEF Advances
    <3>3. Follows(d, s, 0)
      BY <1>1, <1>5, <3>2, TouchedFollows
    <3> QED
      BY <3>1, <3>3
  <2> QED
    BY <2>1, <2>2
<1> HIDE DEF c, k
<1>7. Evolves(c, InvalidateServer(c, a))
  BY <1>1, <1>6, InvalidateEvolves DEF Follows
<1>8. Follows(d, InvalidateServer(c, a), k)
  BY <1>6, <1>7, FollowsEvolves
<1> QED
  BY <1>2, <1>8 DEF a, k

----------------------------------------------------------------------------
(***************************************************************************)
(* The inductive invariant.  What a client took from a description is      *)
(* stated of the one that is published now: while the server is in it the  *)
(* generation can only have grown, and once it is gone its id never comes  *)
(* back.                                                                   *)
(***************************************************************************)
Gen(d, id) == IF HasId(d, id) THEN ServerById(d, id).generation ELSE 0

PoolOk(d) == /\ Typed(d)
             /\ \A a \in Addresses : d.servers[a].id # 0 =>
                  d.servers[a].generation <= MaxGeneration

HelloOk(h) == IsHello(h) /\ h.hosts \in SUBSET Addresses /\ h.tv \in Tvs

(* A client: its label p, the generation s of the description it holds,    *)
(* its connection q, the reply h and the error e it has to handle.         *)
ClientOk(d, p, s, q, h, e) ==
  /\ p \in Labels /\ s \in 0 .. MaxGeneration
  /\ p = "idle" => q = None
  /\ p # "idle" =>
       /\ q \in Connections /\ q.id <= d.maxServerId
       /\ s < MaxGeneration /\ q.generation < MaxGeneration
       /\ HasId(d, q.id) => s <= Gen(d, q.id) /\ q.generation <= Gen(d, q.id)
  /\ p \in {"handshake", "update"} => (HasId(d, q.id) => s <= q.opened)
  /\ p \in {"auth", "use"} => s <= q.opened
  /\ IF p \in {"check", "apply"} THEN e \in Errors ELSE e = None
  /\ IF p = "update" THEN HelloOk(h) ELSE h = None

(* A connection it keeps.                                                  *)
NodeOk(d, id, n) ==
  n # None =>
    /\ n \in Connections /\ n.id = id /\ id <= d.maxServerId
    /\ n.generation < MaxGeneration /\ n.generation <= n.opened
    /\ HasId(d, id) => n.generation <= Gen(d, id)

NodesOk(d, n) == /\ n = [id \in Ids |-> n[id]]
                 /\ \A id \in Ids : NodeOk(d, id, n[id])

(* No pool was cleared in the generation it is in, or in a later one.      *)
ClearsOk(d, f) ==
  /\ f \in [Ids -> [0 .. MaxGeneration -> 0 .. 1]]
  /\ \A id \in Ids, g \in 0 .. MaxGeneration :
       (id > d.maxServerId \/ HasId(d, id)) /\ g >= Gen(d, id) => f[id][g] = 0

IsFun(f) == f = [c \in Clients |-> f[c]]

ClientsOk ==
  /\ IsFun(pc) /\ IsFun(snap) /\ IsFun(conn) /\ IsFun(hello) /\ IsFun(error)
  /\ IsFun(nodes)
  /\ \A c \in Clients :
       /\ ClientOk(td, pc[c], snap[c], conn[c], hello[c], error[c])
       /\ NodesOk(td, nodes[c])

MonitorsOk ==
  /\ monitor = [id \in Ids |-> monitor[id]]
  /\ \A id \in Ids : monitor[id] \in {None, Failed} \/ HelloOk(monitor[id])

IInv == /\ PoolOk(td) /\ server \in [Addresses -> Versions]
        /\ MonitorsOk /\ ClientsOk /\ ClearsOk(td, clears)

(* The server of an id after an update.                                    *)
LEMMA FollowsId ==
  ASSUME NEW d, Typed(d), NEW u, NEW k, Follows(d, u, k), NEW id \in Nat \ {0},
         HasId(u, id)
  PROVE  \/ /\ HasId(d, id)
            /\ Gen(u, id) = Gen(d, id) + (IF id = k THEN 1 ELSE 0)
            /\ TopologyVersionCmp(ServerById(d, id).tv, ServerById(u, id).tv) <= 0
         \/ id > d.maxServerId /\ ~HasId(d, id) /\ Gen(u, id) = 0
<1> DEFINE a == AddressOf(u, id)
<1>1. Typed(u)
  BY DEF Follows
<1>2. a \in Addresses /\ u.servers[a].id = id /\ ServerById(u, id) = u.servers[a]
  BY <1>1, AddressOfId
<1>3. Gen(u, id) = u.servers[a].generation
  BY <1>2 DEF Gen
<1> HIDE DEF a
<1>4. CASE Advances(d.servers[a], u.servers[a], k)
  <2>1. d.servers[a].id = id
    BY <1>2, <1>4 DEF Advances
  <2>2. HasId(d, id) /\ ServerById(d, id) = d.servers[a]
    BY <1>2, <2>1, AddressOfId
  <2> QED
    BY <1>2, <1>3, <1>4, <2>1, <2>2 DEF Advances, Gen
<1>5. CASE u.servers[a].id > d.maxServerId /\ u.servers[a].generation = 0
  <2>1. id > d.maxServerId /\ d.maxServerId \in Nat
    BY <1>2, <1>5 DEF Typed
  <2>2. ~HasId(d, id)
    BY <2>1, AddressOfId
  <2> QED
    BY <1>3, <1>5, <2>1, <2>2
<1> QED
  BY <1>2, <1>4, <1>5 DEF Follows

(* A generation is within its bound.                                       *)
LEMMA GenTyped ==
  ASSUME NEW d, PoolOk(d), NEW id \in Nat \ {0}
  PROVE  Gen(d, id) \in 0 .. MaxGeneration /\ MaxGeneration \in Nat
<1>1. MaxGeneration \in Nat
  BY BoundsAssumption
<1>2. CASE HasId(d, id)
  <2>1. PICK a \in Addresses : ServerById(d, id) = d.servers[a] /\ d.servers[a].id = id
    BY <1>2, AddressOfId DEF PoolOk, ServerById
  <2>2. d.servers[a].generation \in Nat /\ d.servers[a].generation <= MaxGeneration
    BY <2>1 DEF PoolOk, Typed, SdTyped
  <2> QED
    BY <1>1, <1>2, <2>1, <2>2 DEF Gen
<1> QED
  BY <1>1, <1>2 DEF Gen

(* What may be cleared.                                                    *)
MayClear(d, k) == k = 0 \/ (k \in Ids /\ HasId(d, k) /\ Gen(d, k) < MaxGeneration)

(* Every part of the invariant survives an update of the description.      *)
LEMMA PoolKept ==
  ASSUME NEW d, PoolOk(d), NEW u, NEW k, Follows(d, u, k), MayClear(d, k)
  PROVE  PoolOk(u)
<1>1. Typed(u) /\ Typed(d) /\ MaxGeneration \in Nat
  BY BoundsAssumption DEF Follows, PoolOk
<1>2. ASSUME NEW a \in Addresses, u.servers[a].id # 0
      PROVE  u.servers[a].generation <= MaxGeneration
  <2> DEFINE id == u.servers[a].id
  <2>1. id \in Nat \ {0} /\ d.maxServerId \in Nat
    BY <1>1, <1>2 DEF Typed, SdTyped
  <2>2. HasId(u, id) /\ ServerById(u, id) = u.servers[a]
    BY <1>1, <2>1, AddressOfId
  <2>3. Gen(u, id) = u.servers[a].generation
    BY <2>2 DEF Gen
  <2> HIDE DEF id
  <2>4. \/ HasId(d, id) /\ Gen(u, id) = Gen(d, id) + (IF id = k THEN 1 ELSE 0)
        \/ Gen(u, id) = 0
    BY <1>1, <2>1, <2>2, FollowsId
  <2>5. Gen(d, id) \in 0 .. MaxGeneration
    BY <2>1, GenTyped
  <2>6. id = k => Gen(d, id) < MaxGeneration
    BY <2>1 DEF MayClear
  <2> QED
    BY <1>1, <2>3, <2>4, <2>5, <2>6
<1> QED
  BY <1>1, <1>2 DEF PoolOk

(* ... what a client holds,                                                *)
LEMMA ClientKept ==
  ASSUME NEW d, PoolOk(d), NEW u, NEW k, Follows(d, u, k), MayClear(d, k),
         NEW p, NEW s, NEW q, NEW h, NEW e, ClientOk(d, p, s, q, h, e)
  PROVE  ClientOk(u, p, s, q, h, e)
<1>1. CASE p = "idle"
  BY <1>1 DEF ClientOk
<1>2. CASE p # "idle"
  <2>1. /\ q \in Connections /\ q.id \in Nat \ {0} /\ q.id <= d.maxServerId
        /\ q.generation \in Nat /\ s \in Nat
    BY <1>2, BoundsAssumption DEF ClientOk, Connections, Ids
  <2>2. d.maxServerId \in Nat /\ u.maxServerId \in Nat /\ d.maxServerId <= u.maxServerId
    BY DEF Follows, PoolOk, Typed
  <2>3. Gen(d, q.id) \in Nat
    BY <2>1, GenTyped
  <2>4. HasId(u, q.id) => HasId(d, q.id) /\ Gen(u, q.id) >= Gen(d, q.id)
    <3>1. HasId(u, q.id) =>
            \/ HasId(d, q.id) /\ Gen(u, q.id) = Gen(d, q.id) + (IF q.id = k THEN 1 ELSE 0)
            \/ q.id > d.maxServerId
      BY <2>1, FollowsId DEF PoolOk
    <3> QED
      BY <2>1, <2>2, <2>3, <3>1
  <2>5. HasId(u, q.id) => s <= Gen(u, q.id) /\ q.generation <= Gen(u, q.id)
    <3>1. HasId(d, q.id) => s <= Gen(d, q.id) /\ q.generation <= Gen(d, q.id)
      BY <1>2 DEF ClientOk
    <3>2. HasId(u, q.id) => Gen(u, q.id) \in Nat
      BY <2>1, PoolKept, GenTyped
    <3> QED
      BY <2>1, <2>3, <2>4, <3>1, <3>2
  <2>6. q.id <= u.maxServerId
    BY <2>1, <2>2
  <2> QED
    BY <1>2, <2>4, <2>5, <2>6 DEF ClientOk
<1> QED
  BY <1>1, <1>2

(* ... the connections it keeps,                                           *)
LEMMA NodesKept ==
  ASSUME NEW d, PoolOk(d), NEW u, NEW k, Follows(d, u, k), MayClear(d, k),
         NEW n, NodesOk(d, n)
  PROVE  NodesOk(u, n)
<1> SUFFICES ASSUME NEW id \in Ids, n[id] # None
             PROVE  NodeOk(u, id, n[id])
  BY DEF NodesOk, NodeOk
<1> DEFINE m == n[id]
<1>1. /\ m \in Connections /\ m.id = id /\ id <= d.maxServerId
      /\ m.generation < MaxGeneration /\ m.generation <= m.opened
      /\ HasId(d, id) => m.generation <= Gen(d, id)
  BY DEF NodesOk, NodeOk
<1>2. id \in Nat \ {0} /\ m.generation \in Nat
  BY <1>1, BoundsAssumption DEF Ids, Connections
<1> HIDE DEF m
<1>3. d.maxServerId \in Nat /\ u.maxServerId \in Nat /\ d.maxServerId <= u.maxServerId
  BY DEF Follows, PoolOk, Typed
<1>4. HasId(u, id) =>
        \/ HasId(d, id) /\ Gen(u, id) = Gen(d, id) + (IF id = k THEN 1 ELSE 0)
        \/ id > d.maxServerId
  BY <1>2, FollowsId DEF PoolOk
<1>5. Gen(d, id) \in Nat
  BY <1>2, GenTyped
<1>6. HasId(u, id) => m.generation <= Gen(u, id)
  BY <1>1, <1>2, <1>3, <1>4, <1>5
<1>7. id <= u.maxServerId
  BY <1>1, <1>2, <1>3
<1> QED
  BY <1>1, <1>6, <1>7 DEF NodeOk, m

(* ... and the count of the clears.                                        *)
LEMMA ClearsKept ==
  ASSUME NEW d, PoolOk(d), NEW u, NEW k, Follows(d, u, k), MayClear(d, k),
         NEW f, ClearsOk(d, f)
  PROVE  ClearsOk(u, f)
<1>1. d.maxServerId \in Nat /\ u.maxServerId \in Nat /\ d.maxServerId <= u.maxServerId
  BY DEF Follows, PoolOk, Typed
<1>2. PoolOk(u)
  BY PoolKept
<1>3. ASSUME NEW id \in Ids, NEW g \in 0 .. MaxGeneration,
             id > u.maxServerId \/ HasId(u, id), g >= Gen(u, id)
      PROVE  f[id][g] = 0
  <2>1. id \in Nat \ {0} /\ g \in Nat
    BY BoundsAssumption DEF Ids
  <2>2. Gen(d, id) \in Nat /\ Gen(u, id) \in Nat
    BY <1>2, <2>1, GenTyped
  <2>3. CASE HasId(u, id)
    <3>1. \/ HasId(d, id) /\ Gen(u, id) = Gen(d, id) + (IF id = k THEN 1 ELSE 0)
          \/ id > d.maxServerId /\ ~HasId(d, id)
      BY <2>1, <2>3, FollowsId DEF PoolOk
    <3>2. ~HasId(d, id) => Gen(d, id) = 0
      BY DEF Gen
    <3>3. (id > d.maxServerId \/ HasId(d, id)) /\ g >= Gen(d, id)
      BY <1>3, <2>1, <2>2, <3>1, <3>2
    <3> QED
      BY <3>3 DEF ClearsOk
  <2>4. CASE ~HasId(u, id)
    <3>1. id > d.maxServerId
      BY <1>1, <1>3, <2>1, <2>4
    <3>2. ~HasId(d, id)
      BY <1>1, <2>1, <3>1, AddressOfId DEF PoolOk
    <3>3. g >= Gen(d, id)
      BY <2>1, <3>2 DEF Gen
    <3> QED
      BY <3>1, <3>3 DEF ClearsOk
  <2> QED
    BY <2>3, <2>4
<1> QED
  BY <1>3 DEF ClearsOk

----------------------------------------------------------------------------
(***************************************************************************)
(* The steps of a client: each sets the fields of one client.              *)
(***************************************************************************)
Sets(f, g, c, v) == g = [b \in Clients |-> IF b = c THEN v ELSE f[b]]

ClientStep(c, p, s, q, h, e, n) ==
  /\ Sets(pc, pc', c, p) /\ Sets(snap, snap', c, s) /\ Sets(conn, conn', c, q)
  /\ Sets(hello, hello', c, h) /\ Sets(error, error', c, e)
  /\ Sets(nodes, nodes', c, n)
  /\ server' = server /\ monitor' = monitor

(* An assignment to one client, and none.                                  *)
LEMMA SetsExcept ==
  ASSUME NEW f, IsFun(f), NEW c \in Clients
  PROVE  Sets(f, f, c, f[c]) /\ \A v : Sets(f, [f EXCEPT ![c] = v], c, v)
<1>1. Sets(f, f, c, f[c])
  <2> DEFINE g == [b \in Clients |-> IF b = c THEN f[c] ELSE f[b]]
  <2>1. g = [b \in Clients |-> f[b]]
    OBVIOUS
  <2> QED
    BY <2>1 DEF IsFun, Sets
<1>2. ASSUME NEW v PROVE Sets(f, [f EXCEPT ![c] = v], c, v)
  BY DEF IsFun, Sets
<1> QED
  BY <1>1, <1>2

(* The invariant after a step of a client, from what the step sets.        *)
LEMMA ClientInv ==
  ASSUME IInv, NEW c \in Clients, NEW k, Follows(td, td', k), MayClear(td, k),
         NEW p, NEW s, NEW q, NEW h, NEW e, NEW n,
         ClientStep(c, p, s, q, h, e, n),
         ClientOk(td', p, s, q, h, e), NodesOk(td', n), ClearsOk(td', clears')
  PROVE  IInv'
<1>1. PoolOk(td')
  BY PoolKept DEF IInv
<1>2. /\ IsFun(pc') /\ IsFun(snap') /\ IsFun(conn') /\ IsFun(hello') /\ IsFun(error')
      /\ IsFun(nodes')
      /\ pc'[c] = p /\ snap'[c] = s /\ conn'[c] = q /\ hello'[c] = h /\ error'[c] = e
      /\ nodes'[c] = n
      /\ \A b \in Clients : b # c =>
           /\ pc'[b] = pc[b] /\ snap'[b] = snap[b] /\ conn'[b] = conn[b]
           /\ hello'[b] = hello[b] /\ error'[b] = error[b] /\ nodes'[b] = nodes[b]
  <2>1. /\ IsFun(pc') /\ pc'[c] = p
        /\ \A b \in Clients : b # c => pc'[b] = pc[b]
    <3>1. Sets(pc, pc', c, p)
      BY DEF ClientStep
    <3> QED
      BY <3>1 DEF Sets, IsFun
  <2>2. /\ IsFun(snap') /\ snap'[c] = s
        /\ \A b \in Clients : b # c => snap'[b] = snap[b]
    <3>1. Sets(snap, snap', c, s)
      BY DEF ClientStep
    <3> QED
      BY <3>1 DEF Sets, IsFun
  <2>3. /\ IsFun(conn') /\ conn'[c] = q
        /\ \A b \in Clients : b # c => conn'[b] = conn[b]
    <3>1. Sets(conn, conn', c, q)
      BY DEF ClientStep
    <3> QED
      BY <3>1 DEF Sets, IsFun
  <2>4. /\ IsFun(hello') /\ hello'[c] = h
        /\ \A b \in Clients : b # c => hello'[b] = hello[b]
    <3>1. Sets(hello, hello', c, h)
      BY DEF ClientStep
    <3> QED
      BY <3>1 DEF Sets, IsFun
  <2>5. /\ IsFun(error') /\ error'[c] = e
        /\ \A b \in Clients : b # c => error'[b] = error[b]
    <3>1. Sets(error, error', c, e)
      BY DEF ClientStep
    <3> QED
      BY <3>1 DEF Sets, IsFun
  <2>6. /\ IsFun(nodes') /\ nodes'[c] = n
        /\ \A b \in Clients : b # c => nodes'[b] = nodes[b]
    <3>1. Sets(nodes, nodes', c, n)
      BY DEF ClientStep
    <3> QED
      BY <3>1 DEF Sets, IsFun
  <2> QED
    BY <2>1, <2>2, <2>3, <2>4, <2>5, <2>6
<1>3. ASSUME NEW b \in Clients
      PROVE  /\ ClientOk(td', pc'[b], snap'[b], conn'[b], hello'[b], error'[b])
             /\ NodesOk(td', nodes'[b])
  <2>1. CASE b = c
    BY <1>2, <2>1
  <2>2. CASE b # c
    <3>1. /\ ClientOk(td, pc[b], snap[b], conn[b], hello[b], error[b])
          /\ NodesOk(td, nodes[b])
      BY DEF IInv, ClientsOk
    <3>2. /\ ClientOk(td', pc[b], snap[b], conn[b], hello[b], error[b])
          /\ NodesOk(td', nodes[b])
      BY <3>1, ClientKept, NodesKept DEF IInv
    <3> QED
      BY <1>2, <2>2, <3>2
  <2> QED
    BY <2>1, <2>2
<1>4. ClientsOk'
  BY <1>2, <1>3 DEF ClientsOk, ClientOk, NodesOk, NodeOk, IsFun
<1>5. MonitorsOk'
  BY DEF IInv, MonitorsOk, ClientStep, HelloOk, IsHello
<1> QED
  BY <1>1, <1>4, <1>5 DEF IInv, ClientStep, PoolOk, ClearsOk

(* The same for a step that leaves the description alone.                  *)
LEMMA ClientInvSame ==
  ASSUME IInv, NEW c \in Clients, td' = td, clears' = clears,
         NEW p, NEW s, NEW q, NEW h, NEW e, NEW n,
         ClientStep(c, p, s, q, h, e, n),
         ClientOk(td, p, s, q, h, e), NodesOk(td, n)
  PROVE  IInv'
<1>1. Follows(td, td, 0)
  BY SameEvolves, EvolvesFollows DEF IInv, PoolOk, Typed
<1>2. Follows(td, td', 0) /\ MayClear(td, 0)
  BY <1>1 DEF MayClear
<1>3. ClientOk(td', p, s, q, h, e) /\ NodesOk(td', n) /\ ClearsOk(td', clears')
  BY DEF IInv
<1> QED
  BY <1>2, <1>3, ClientInv

(* A connection of a client is replaced, or dropped.                       *)
LEMMA NodeSet ==
  ASSUME NEW d, NEW n, NodesOk(d, n), NEW id \in Ids, NEW m, NodeOk(d, id, m)
  PROVE  NodesOk(d, [n EXCEPT ![id] = m])
BY DEF NodesOk

(* A connection is closed.                                                 *)
LEMMA NodeDropped ==
  ASSUME NEW d, NEW n, NodesOk(d, n), NEW id \in Ids
  PROVE  NodesOk(d, [n EXCEPT ![id] = None])
BY NodeSet DEF NodeOk

(* What the invariant says of a client.                                    *)
LEMMA ClientFacts ==
  ASSUME IInv, NEW c \in Clients
  PROVE  /\ IsFun(pc) /\ IsFun(snap) /\ IsFun(conn) /\ IsFun(hello)
         /\ IsFun(error) /\ IsFun(nodes)
         /\ ClientOk(td, pc[c], snap[c], conn[c], hello[c], error[c])
         /\ NodesOk(td, nodes[c])
BY DEF IInv, ClientsOk

(* _cluster_fetch_stream_pooled                                            *)
LEMMA FetchInv ==
  ASSUME IInv, NEW c \in Clients, NEW id \in Ids, Fetch(c, id)
  PROVE  IInv'
<1> DEFINE old == nodes[c][id]
           g == Gen(td, id)
           valid == old # None /\ HasId(td, id) /\ old.generation >= g
<1>1. /\ pc[c] = "idle" /\ td' = td /\ server' = server /\ monitor' = monitor
      /\ hello' = hello /\ error' = error /\ clears' = clears
  BY DEF Fetch
<1>2. /\ IsFun(pc) /\ IsFun(snap) /\ IsFun(conn) /\ IsFun(hello)
      /\ IsFun(error) /\ IsFun(nodes)
      /\ ClientOk(td, pc[c], snap[c], conn[c], hello[c], error[c])
      /\ NodesOk(td, nodes[c])
  BY ClientFacts
<1>3. hello[c] = None /\ error[c] = None /\ conn[c] = None
  BY <1>1, <1>2 DEF ClientOk
<1>4. /\ id \in Nat \ {0} /\ g \in 0 .. MaxGeneration /\ MaxGeneration \in Nat
      /\ Generation(id) = g
  BY GenTyped, BoundsAssumption DEF IInv, Ids, Generation, Gen
<1>5. HasId(td, id) => id <= td.maxServerId
  BY <1>4, AddressOfId DEF IInv, PoolOk
<1>6. Sets(hello, hello', c, None) /\ Sets(error, error', c, None)
  BY <1>1, <1>2, <1>3, SetsExcept
<1>7. CASE /\ valid /\ snap' = [snap EXCEPT ![c] = g]
           /\ conn' = [conn EXCEPT ![c] = old] /\ Goto(c, "use") /\ nodes' = nodes
  <2>1. NodeOk(td, id, old)
    BY <1>2 DEF NodesOk
  <2>2. /\ old \in Connections /\ old.id = id /\ old.generation < MaxGeneration
        /\ old.generation <= old.opened /\ old.generation <= g /\ HasId(td, id)
        /\ old.generation >= g /\ old.generation \in Nat /\ old.opened \in Nat
    BY <1>7, <2>1 DEF NodeOk, Connections
  <2>3. ClientOk(td, "use", g, old, None, None)
    BY <1>4, <1>5, <2>2 DEF ClientOk, Labels
  <2>4. ClientStep(c, "use", g, old, None, None, nodes[c])
    BY <1>1, <1>2, <1>6, <1>7, SetsExcept DEF ClientStep, Goto
  <2> QED
    BY <1>1, <1>2, <2>3, <2>4, ClientInvSame
<1>8. CASE /\ HasId(td, id) /\ Clearable(id) /\ snap' = [snap EXCEPT ![c] = g]
           /\ conn' = [conn EXCEPT ![c] = [id |-> id, generation |-> 0, opened |-> 0]]
           /\ Goto(c, "connect") /\ Disconnect(c, id)
  <2> DEFINE new == [id |-> id, generation |-> 0, opened |-> 0]
             n == [nodes[c] EXCEPT ![id] = None]
  <2>1. new \in Connections
    BY <1>4 DEF Connections
  <2>2. new.id = id /\ new.generation = 0 /\ g < MaxGeneration
    BY <1>4, <1>8 DEF Clearable
  <2>3. NodesOk(td, n)
    BY <1>2, NodeDropped
  <2>4. nodes' = [nodes EXCEPT ![c] = n]
    BY <1>2, <1>8 DEF Disconnect, IsFun
  <2> HIDE DEF n
  <2>5. ClientStep(c, "connect", g, new, None, None, n)
    BY <1>1, <1>2, <1>6, <1>8, <2>4, SetsExcept DEF ClientStep, Goto
  <2> HIDE DEF new
  <2>6. ClientOk(td, "connect", g, new, None, None)
    BY <1>4, <1>5, <1>8, <2>1, <2>2 DEF ClientOk, Labels
  <2> QED
    BY <1>1, <2>3, <2>5, <2>6, ClientInvSame
<1>9. CASE Disconnect(c, id) /\ UNCHANGED <<snap, conn, pc>>
  <2> DEFINE n == [nodes[c] EXCEPT ![id] = None]
  <2>1. NodesOk(td, n)
    BY <1>2, NodeDropped
  <2>2. nodes' = [nodes EXCEPT ![c] = n]
    BY <1>2, <1>9 DEF Disconnect, IsFun
  <2> HIDE DEF n
  <2>3. ClientStep(c, pc[c], snap[c], conn[c], hello[c], error[c], n)
    BY <1>1, <1>2, <1>9, <2>2, SetsExcept DEF ClientStep
  <2> QED
    BY <1>1, <1>2, <2>1, <2>3, ClientInvSame
<1> QED
  BY <1>4, <1>7, <1>8, <1>9 DEF Fetch

(* _mongoc_client_create_stream                                            *)
LEMMA ConnectInv ==
  ASSUME IInv, NEW c \in Clients, Connect(c)
  PROVE  IInv'
<1> DEFINE g == Gen(td, conn[c].id)
           q == [conn[c] EXCEPT !.opened = g]
<1>1. /\ pc[c] = "connect" /\ td' = td /\ server' = server /\ monitor' = monitor
      /\ snap' = snap /\ hello' = hello /\ error' = error /\ nodes' = nodes
      /\ clears' = clears /\ Goto(c, "handshake")
  BY DEF Connect
<1>2. /\ IsFun(pc) /\ IsFun(snap) /\ IsFun(conn) /\ IsFun(hello)
      /\ IsFun(error) /\ IsFun(nodes)
      /\ ClientOk(td, pc[c], snap[c], conn[c], hello[c], error[c])
      /\ NodesOk(td, nodes[c])
  BY ClientFacts
<1>3. conn[c] \in Connections /\ conn[c].id \in Nat \ {0}
  BY <1>1, <1>2, BoundsAssumption DEF ClientOk, Connections, Ids
<1>4. g \in 0 .. MaxGeneration
  BY <1>3, GenTyped DEF IInv
<1>5. conn' = [conn EXCEPT ![c] = q]
  BY <1>2 DEF Connect, Generation, Gen, IsFun
<1>6. q \in Connections /\ q.id = conn[c].id /\ q.opened = g
      /\ q.generation = conn[c].generation
  BY <1>3, <1>4 DEF Connections
<1> HIDE DEF q
<1>7. ClientOk(td, "handshake", snap[c], q, hello[c], error[c])
  BY <1>1, <1>2, <1>6 DEF ClientOk, Labels
<1>8. ClientStep(c, "handshake", snap[c], q, hello[c], error[c], nodes[c])
  BY <1>1, <1>2, <1>5, SetsExcept DEF ClientStep, Goto
<1> QED
  BY <1>1, <1>2, <1>7, <1>8, ClientInvSame

(* An idle client.                                                         *)
LEMMA ReleasedOk ==
  ASSUME NEW d
  PROVE  ClientOk(d, "idle", 0, None, None, None)
BY BoundsAssumption DEF ClientOk, Labels

(* A client becomes idle.                                                  *)
LEMMA ReleaseInv ==
  ASSUME IInv, NEW c \in Clients, NEW k, Follows(td, td', k), MayClear(td, k),
         Release(c), Sets(hello, hello', c, None), Sets(error, error', c, None),
         NEW n, Sets(nodes, nodes', c, n), NodesOk(td, n),
         server' = server, monitor' = monitor, ClearsOk(td', clears')
  PROVE  IInv'
<1>1. IsFun(pc) /\ IsFun(snap) /\ IsFun(conn)
  BY ClientFacts
<1>2. ClientStep(c, "idle", 0, None, None, None, n)
  BY <1>1, SetsExcept DEF Release, Goto, ClientStep
<1>3. NodesOk(td', n)
  BY NodesKept DEF IInv
<1> QED
  BY <1>2, <1>3, ReleasedOk, ClientInv

(* A step that leaves the description alone.                               *)
LEMMA Unmoved ==
  ASSUME IInv, td' = td
  PROVE  Follows(td, td', 0) /\ MayClear(td, 0)
<1>1. Follows(td, td, 0)
  BY SameEvolves, EvolvesFollows DEF IInv, PoolOk, Typed
<1> QED
  BY <1>1 DEF MayClear

(* What a client that is not idle knows of its server.                     *)
LEMMA BusyFacts ==
  ASSUME IInv, NEW c \in Clients, pc[c] # "idle"
  PROVE  /\ conn[c] \in Connections
         /\ conn[c].id \in Ids /\ conn[c].id \in Nat \ {0}
         /\ Gen(td, conn[c].id) \in Nat
         /\ Generation(conn[c].id) = Gen(td, conn[c].id)
         /\ Typed(td)
<1>1. ClientOk(td, pc[c], snap[c], conn[c], hello[c], error[c])
  BY ClientFacts
<1>2. conn[c] \in Connections
  BY <1>1 DEF ClientOk
<1>3. conn[c].id \in Ids
  BY <1>2 DEF Connections
<1>4. conn[c].id \in Nat \ {0}
  BY <1>3, BoundsAssumption DEF Ids
<1>5. Gen(td, conn[c].id) \in Nat
  BY <1>4, GenTyped DEF IInv
<1> QED
  BY <1>2, <1>3, <1>4, <1>5 DEF Generation, Gen, IInv, PoolOk

(* _handle_network_error_connecting                                        *)
LEMMA ConnectFailsInv ==
  ASSUME IInv, NEW c \in Clients, NEW dns \in BOOLEAN, ConnectFails(c, dns)
  PROVE  IInv' /\ \E k : Follows(td, td', k)
<1> DEFINE id == conn[c].id
           n == [nodes[c] EXCEPT ![id] = None]
<1>1. /\ pc[c] = "connect" /\ server' = server /\ monitor' = monitor
      /\ hello' = hello /\ error' = error /\ clears' = clears
      /\ Release(c) /\ Disconnect(c, id)
  BY DEF ConnectFails
<1>2. /\ IsFun(hello) /\ IsFun(error) /\ IsFun(nodes) /\ NodesOk(td, nodes[c])
      /\ hello[c] = None /\ error[c] = None
  BY <1>1, ClientFacts DEF ClientOk
<1>3. /\ id \in Ids /\ id \in Nat \ {0} /\ Typed(td) /\ Generation(id) = Gen(td, id)
  BY <1>1, BusyFacts
<1>4. \E k : Follows(td, td', k) /\ MayClear(td, k)
  <2>1. CASE dns /\ HasId(td, id)
    <3>1. /\ Clearable(id)
          /\ td' = ClearConnectionPool(InvalidateServer(td, AddressOf(td, id)), id)
      BY <2>1 DEF ConnectFails
    <3>2. Follows(td, td', id)
      BY <1>3, <2>1, <3>1, DnsErrorFollows
    <3>3. MayClear(td, id)
      BY <1>3, <2>1, <3>1 DEF MayClear, Clearable
    <3> QED
      BY <3>2, <3>3
  <2>2. CASE ~(dns /\ HasId(td, id))
    <3>1. td' = td
      BY <2>2 DEF ConnectFails
    <3> QED
      BY <3>1, Unmoved
  <2> QED
    BY <2>1, <2>2
<1>5. PICK k : Follows(td, td', k) /\ MayClear(td, k)
  BY <1>4
<1>6. ClearsOk(td', clears')
  BY <1>1, <1>5, ClearsKept DEF IInv
<1>7. NodesOk(td, n)
  BY <1>2, <1>3, NodeDropped
<1>8. nodes' = [nodes EXCEPT ![c] = n]
  BY <1>1, <1>2 DEF Disconnect, IsFun
<1> HIDE DEF n
<1>9. /\ Sets(nodes, nodes', c, n) /\ Sets(hello, hello', c, None)
      /\ Sets(error, error', c, None)
  BY <1>1, <1>2, <1>8, SetsExcept
<1> QED
  BY <1>1, <1>5, <1>6, <1>7, <1>9, ReleaseInv

(* A reply with the topologyVersion of the server.                         *)
LEMMA WithTvOk ==
  ASSUME IInv, NEW a \in Addresses, NEW h \in Replies[a]
  PROVE  HelloOk(WithTv(a, h))
<1>1. IsHello(h) /\ h.hosts \in SUBSET Addresses
  BY RepliesAssumption
<1>2. server[a] \in Tvs
  BY DEF IInv, Tvs
<1> DEFINE v == server[a]
           g == [h EXCEPT !.tv = v]
<1> HIDE DEF v
<1>3. IsHello(g) /\ g.hosts = h.hosts /\ g.tv = v
  BY <1>1 DEF IsHello
<1> QED
  BY <1>1, <1>2, <1>3 DEF WithTv, HelloOk, v

(* _stream_run_hello: the reply.                                           *)
LEMMA HandshakeReplyInv ==
  ASSUME IInv, NEW c \in Clients, HandshakeReply(c)
  PROVE  IInv'
<1> DEFINE a == AddressOf(td, conn[c].id)
<1>1. /\ pc[c] = "handshake" /\ td' = td /\ server' = server /\ monitor' = monitor
      /\ snap' = snap /\ conn' = conn /\ error' = error /\ nodes' = nodes
      /\ clears' = clears /\ Goto(c, "update") /\ HasId(td, conn[c].id)
  BY DEF HandshakeReply
<1>2. /\ IsFun(pc) /\ IsFun(snap) /\ IsFun(conn) /\ IsFun(hello)
      /\ IsFun(error) /\ IsFun(nodes)
      /\ ClientOk(td, pc[c], snap[c], conn[c], hello[c], error[c])
      /\ NodesOk(td, nodes[c])
  BY ClientFacts
<1>3. a \in Addresses
  BY <1>1, BusyFacts, AddressOfId
<1>4. PICK h \in Replies[a] : hello' = [hello EXCEPT ![c] = WithTv(a, h)]
  BY DEF HandshakeReply
<1> DEFINE g == WithTv(a, h)
<1>5. HelloOk(g)
  BY <1>3, WithTvOk
<1> HIDE DEF a, g
<1>6. ClientOk(td, "update", snap[c], conn[c], g, error[c])
  BY <1>1, <1>2, <1>5 DEF ClientOk, Labels
<1>7. ClientStep(c, "update", snap[c], conn[c], g, error[c], nodes[c])
  BY <1>1, <1>2, <1>4, SetsExcept DEF ClientStep, Goto, g
<1> QED
  BY <1>1, <1>2, <1>6, <1>7, ClientInvSame

(* ... a network error of the handshake, and a command that succeeds.      *)
LEMMA GivenUpInv ==
  ASSUME IInv, NEW c \in Clients, HandshakeFails(c) \/ CommandDone(c)
  PROVE  IInv'
<1>1. /\ pc[c] \in {"handshake", "auth", "use"} /\ Release(c) /\ td' = td
      /\ server' = server /\ monitor' = monitor /\ hello' = hello
      /\ error' = error /\ nodes' = nodes /\ clears' = clears
  BY DEF HandshakeFails, CommandDone
<1>2. /\ IsFun(hello) /\ IsFun(error) /\ IsFun(nodes) /\ NodesOk(td, nodes[c])
      /\ ClientOk(td, pc[c], snap[c], conn[c], hello[c], error[c])
  BY ClientFacts
<1>3. hello[c] = None /\ error[c] = None
  BY <1>1, <1>2 DEF ClientOk
<1>4. /\ Sets(nodes, nodes', c, nodes[c]) /\ Sets(hello, hello', c, None)
      /\ Sets(error, error', c, None)
  BY <1>1, <1>2, <1>3, SetsExcept
<1>5. ClearsOk(td', clears')
  BY <1>1 DEF IInv
<1> QED
  BY <1>1, <1>2, <1>4, <1>5, Unmoved, ReleaseInv

(* ... and the reply is applied.                                           *)
LEMMA HandshakeUpdateInv ==
  ASSUME IInv, NEW c \in Clients, HandshakeUpdate(c)
  PROVE  IInv' /\ \E k : Follows(td, td', k)
<1> DEFINE id == conn[c].id
<1>1. /\ pc[c] = "update" /\ server' = server /\ monitor' = monitor
      /\ error' = error /\ nodes' = nodes /\ clears' = clears
      /\ td' = HandleHello(td, id, hello[c]) /\ hello' = [hello EXCEPT ![c] = None]
  BY DEF HandshakeUpdate
<1>2. /\ IsFun(pc) /\ IsFun(snap) /\ IsFun(conn) /\ IsFun(hello)
      /\ IsFun(error) /\ IsFun(nodes)
      /\ ClientOk(td, pc[c], snap[c], conn[c], hello[c], error[c])
      /\ NodesOk(td, nodes[c])
  BY ClientFacts
<1>3. HelloOk(hello[c]) /\ error[c] = None
  BY <1>1, <1>2 DEF ClientOk
<1>4. Typed(td) /\ id \in Nat \ {0}
  BY <1>1, BusyFacts
<1>5. Follows(td, td', 0) /\ MayClear(td, 0)
  BY <1>1, <1>3, <1>4, HelloFollows DEF HelloOk, MayClear
<1>6. ClearsOk(td', clears') /\ NodesOk(td', nodes[c])
  BY <1>1, <1>2, <1>5, ClearsKept, NodesKept DEF IInv
<1>7. /\ Sets(nodes, nodes', c, nodes[c]) /\ Sets(hello, hello', c, None)
      /\ Sets(error, error', c, None)
  BY <1>1, <1>2, <1>3, SetsExcept
<1>8. CASE HasId(td', id) /\ hello[c].parses
  <2>1. Goto(c, "auth") /\ UNCHANGED <<conn, snap>>
    BY <1>8 DEF HandshakeUpdate
  <2>2. ClientOk(td', "update", snap[c], conn[c], hello[c], error[c])
    BY <1>1, <1>2, <1>5, ClientKept DEF IInv
  <2>3. ClientOk(td', "auth", snap[c], conn[c], None, None)
    BY <1>8, <2>2 DEF ClientOk, Labels
  <2>4. ClientStep(c, "auth", snap[c], conn[c], None, None, nodes[c])
    BY <1>1, <1>2, <1>7, <2>1, SetsExcept DEF ClientStep, Goto
  <2> QED
    BY <1>5, <1>6, <2>3, <2>4, ClientInv
<1>9. CASE ~(HasId(td', id) /\ hello[c].parses)
  <2>1. Release(c)
    BY <1>9 DEF HandshakeUpdate
  <2> QED
    BY <1>1, <1>2, <1>5, <1>6, <1>7, <2>1, ReleaseInv
<1> QED
  BY <1>8, <1>9

(* _cluster_add_node                                                       *)
LEMMA AddNodeInv ==
  ASSUME IInv, NEW c \in Clients, AddNode(c)
  PROVE  IInv'
<1> DEFINE id == conn[c].id
           g == snap[c]
           q == [conn[c] EXCEPT !.generation = g]
           n == [nodes[c] EXCEPT ![id] = q]
<1>1. /\ pc[c] = "auth" /\ td' = td /\ server' = server /\ monitor' = monitor
      /\ snap' = snap /\ hello' = hello /\ error' = error
      /\ clears' = clears /\ Goto(c, "use") /\ conn' = [conn EXCEPT ![c] = q]
      /\ nodes' = [nodes EXCEPT ![c] = [@ EXCEPT ![id] = q]]
  BY DEF AddNode
<1>2. /\ IsFun(pc) /\ IsFun(snap) /\ IsFun(conn) /\ IsFun(hello)
      /\ IsFun(error) /\ IsFun(nodes)
      /\ ClientOk(td, pc[c], snap[c], conn[c], hello[c], error[c])
      /\ NodesOk(td, nodes[c])
  BY ClientFacts
<1>3. /\ conn[c] \in Connections /\ id \in Ids /\ id <= td.maxServerId
      /\ g \in 0 .. MaxGeneration /\ g < MaxGeneration /\ g <= conn[c].opened
      /\ HasId(td, id) => g <= Gen(td, id)
      /\ hello[c] = None /\ error[c] = None
  BY <1>1, <1>2, BusyFacts DEF ClientOk
<1>4. nodes' = [nodes EXCEPT ![c] = n]
  BY <1>1, <1>2 DEF IsFun
<1> HIDE DEF g
<1>5. /\ q \in Connections /\ q.id = id /\ q.generation = g
      /\ q.opened = conn[c].opened
  BY <1>3 DEF Connections
<1> HIDE DEF q
<1>6. NodeOk(td, id, q)
  BY <1>3, <1>5 DEF NodeOk
<1>7. NodesOk(td, n)
  BY <1>2, <1>3, <1>6, NodeSet
<1> HIDE DEF n
<1>8. ClientOk(td, "use", g, q, None, None)
  BY <1>3, <1>5 DEF ClientOk, Labels
<1>9. ClientStep(c, "use", g, q, None, None, n)
  <2>1. Sets(pc, pc', c, "use") /\ Sets(conn, conn', c, q) /\ Sets(nodes, nodes', c, n)
    BY <1>1, <1>2, <1>4, SetsExcept DEF Goto
  <2>2. Sets(snap, snap', c, g)
    BY <1>1, <1>2, SetsExcept DEF g
  <2>3. Sets(hello, hello', c, None) /\ Sets(error, error', c, None)
    BY <1>1, <1>2, <1>3, SetsExcept
  <2> QED
    BY <1>1, <2>1, <2>2, <2>3 DEF ClientStep
<1> QED
  BY <1>1, <1>7, <1>8, <1>9, ClientInvSame

(* A command fails.                                                        *)
LEMMA CommandFailsInv ==
  ASSUME IInv, NEW c \in Clients,
         NEW kind \in {"network", "timeout"} \cup StateChangeErrors,
         CommandFails(c, kind)
  PROVE  IInv'
<1> DEFINE id == conn[c].id
           tv == IF kind \in StateChangeErrors /\ HasId(td, id)
                   THEN server[AddressOf(td, id)] ELSE NoTv
           e == [kind |-> kind, tv |-> tv]
<1>1. /\ pc[c] \in {"auth", "use"} /\ td' = td /\ server' = server
      /\ monitor' = monitor /\ snap' = snap /\ conn' = conn /\ hello' = hello
      /\ nodes' = nodes /\ clears' = clears /\ Goto(c, "check")
      /\ error' = [error EXCEPT ![c] = e]
  BY DEF CommandFails
<1>2. /\ IsFun(pc) /\ IsFun(snap) /\ IsFun(conn) /\ IsFun(hello)
      /\ IsFun(error) /\ IsFun(nodes)
      /\ ClientOk(td, pc[c], snap[c], conn[c], hello[c], error[c])
      /\ NodesOk(td, nodes[c])
  BY ClientFacts
<1>3. HasId(td, id) => AddressOf(td, id) \in Addresses
  BY <1>1, BusyFacts, AddressOfId
<1>4. tv \in Versions \cup {NoTv}
  BY <1>3 DEF IInv
<1> HIDE DEF tv
<1>5. e \in Errors
  BY <1>4 DEF Errors
<1> HIDE DEF e
<1>6. ClientOk(td, "check", snap[c], conn[c], hello[c], e)
  BY <1>1, <1>2, <1>5 DEF ClientOk, Labels
<1>7. ClientStep(c, "check", snap[c], conn[c], hello[c], e, nodes[c])
  BY <1>1, <1>2, SetsExcept DEF ClientStep, Goto
<1> QED
  BY <1>1, <1>2, <1>6, <1>7, ClientInvSame

(* The end of the handling of an error.                                    *)
LEMMA FinishInv ==
  ASSUME IInv, NEW c \in Clients, pc[c] \in {"check", "apply"},
         NEW k, Follows(td, td', k), MayClear(td, k), ClearsOk(td', clears'),
         NEW cleared, FinishError(c, cleared),
         hello' = hello, server' = server, monitor' = monitor
  PROVE  IInv'
<1> DEFINE id == conn[c].id
           m == [nodes[c] EXCEPT ![id] = None]
<1>1. /\ IsFun(hello) /\ IsFun(error) /\ IsFun(nodes) /\ NodesOk(td, nodes[c])
      /\ ClientOk(td, pc[c], snap[c], conn[c], hello[c], error[c])
  BY ClientFacts
<1>2. hello[c] = None
  BY <1>1 DEF ClientOk
<1>3. /\ Release(c) /\ error' = [error EXCEPT ![c] = None]
      /\ Disconnect(c, id) \/ nodes' = nodes
  BY DEF FinishError
<1>4. \E n : Sets(nodes, nodes', c, n) /\ NodesOk(td, n)
  <2>1. CASE nodes' = nodes
    BY <1>1, <2>1, SetsExcept
  <2>2. CASE Disconnect(c, id)
    <3>1. NodesOk(td, m)
      BY <1>1, BusyFacts, NodeDropped
    <3>2. nodes' = [nodes EXCEPT ![c] = m]
      BY <1>1, <2>2 DEF Disconnect, IsFun
    <3> HIDE DEF m
    <3>3. Sets(nodes, nodes', c, m)
      BY <1>1, <3>2, SetsExcept
    <3> QED
      BY <3>1, <3>3
  <2> QED
    BY <1>3, <2>1, <2>2
<1>5. PICK n : Sets(nodes, nodes', c, n) /\ NodesOk(td, n)
  BY <1>4
<1>6. Sets(hello, hello', c, None) /\ Sets(error, error', c, None)
  BY <1>1, <1>2, <1>3, SetsExcept
<1> QED
  BY <1>3, <1>5, <1>6, ReleaseInv

(* _mongoc_topology_handle_app_error, the checks without the lock.         *)
LEMMA AppErrorCheckInv ==
  ASSUME IInv, NEW c \in Clients, AppErrorCheck(c)
  PROVE  IInv'
<1>1. /\ pc[c] = "check" /\ td' = td /\ server' = server /\ monitor' = monitor
      /\ hello' = hello /\ clears' = clears
  BY DEF AppErrorCheck
<1>2. /\ IsFun(pc) /\ IsFun(snap) /\ IsFun(conn) /\ IsFun(hello)
      /\ IsFun(error) /\ IsFun(nodes)
      /\ ClientOk(td, pc[c], snap[c], conn[c], hello[c], error[c])
      /\ NodesOk(td, nodes[c])
  BY ClientFacts
<1>3. CASE FinishError(c, FALSE)
  <2>1. ClearsOk(td', clears')
    BY <1>1 DEF IInv
  <2> QED
    BY <1>1, <1>3, <2>1, Unmoved, FinishInv
<1>4. CASE Goto(c, "apply") /\ UNCHANGED <<conn, snap, error, nodes>>
  <2>1. ClientOk(td, "apply", snap[c], conn[c], hello[c], error[c])
    BY <1>1, <1>2 DEF ClientOk, Labels
  <2>2. ClientStep(c, "apply", snap[c], conn[c], hello[c], error[c], nodes[c])
    BY <1>1, <1>2, <1>4, SetsExcept DEF ClientStep, Goto
  <2> QED
    BY <1>1, <1>2, <2>1, <2>2, ClientInvSame
<1> QED
  BY <1>3, <1>4 DEF AppErrorCheck

(* The pool is cleared for the first time in its generation.               *)
LEMMA ClearCounted ==
  ASSUME NEW d, PoolOk(d), NEW u, NEW id \in Ids, Follows(d, u, id), MayClear(d, id),
         NEW f, ClearsOk(d, f)
  PROVE  ClearsOk(u, [f EXCEPT ![id][Gen(d, id)] = @ + 1])
<1> DEFINE g == Gen(d, id)
           row == [f[id] EXCEPT ![g] = f[id][g] + 1]
           v == [f EXCEPT ![id] = row]
<1>1. id \in Nat \ {0} /\ HasId(d, id) /\ g \in 0 .. MaxGeneration
      /\ MaxGeneration \in Nat
  BY GenTyped, BoundsAssumption DEF MayClear, Ids
<1> HIDE DEF g
<1>2. [f EXCEPT ![id][g] = @ + 1] = v
  OBVIOUS
<1>3. f \in [Ids -> [0 .. MaxGeneration -> 0 .. 1]] /\ f[id][g] = 0
  BY <1>1 DEF ClearsOk, g
<1>4. /\ row \in [0 .. MaxGeneration -> 0 .. 1]
      /\ \A i \in 0 .. MaxGeneration : i # g => row[i] = f[id][i]
  BY <1>1, <1>3
<1> HIDE DEF row
<1>5. /\ v \in [Ids -> [0 .. MaxGeneration -> 0 .. 1]] /\ v[id] = row
      /\ \A i \in Ids : i # id => v[i] = f[i]
  BY <1>3, <1>4
<1> HIDE DEF v
<1>6. ClearsOk(u, f)
  BY ClearsKept
<1>7. ASSUME NEW i \in 0 .. MaxGeneration, id > u.maxServerId \/ HasId(u, id),
             i >= Gen(u, id)
      PROVE  i # g
  <2>1. d.maxServerId \in Nat /\ u.maxServerId \in Nat /\ d.maxServerId <= u.maxServerId
    BY DEF Follows, PoolOk, Typed
  <2>2. id <= d.maxServerId
    BY <1>1, AddressOfId DEF PoolOk
  <2>3. HasId(u, id)
    BY <1>1, <1>7, <2>1, <2>2
  <2>4. Gen(u, id) = g + 1
    BY <1>1, <2>3, FollowsId DEF PoolOk, g
  <2> QED
    BY <1>1, <1>7, <2>4
<1>8. ASSUME NEW j \in Ids, NEW i \in 0 .. MaxGeneration,
             j > u.maxServerId \/ HasId(u, j), i >= Gen(u, j)
      PROVE  v[j][i] = 0
  <2>1. f[j][i] = 0
    BY <1>6, <1>8 DEF ClearsOk
  <2> QED
    BY <1>4, <1>5, <1>7, <1>8, <2>1
<1>9. ClearsOk(u, v)
  BY <1>5, <1>8 DEF ClearsOk
<1> QED
  BY <1>2, <1>9 DEF g

(* An error that counts is applied.                                        *)
LEMMA HandleAppErrorInv ==
  ASSUME IInv, NEW c \in Clients, pc[c] = "apply", ~Ignored(c), HandleAppError(c),
         server' = server, monitor' = monitor, hello' = hello
  PROVE  IInv' /\ \E k : Follows(td, td', k)
<1> DEFINE id == conn[c].id
           a == AddressOf(td, id)
           clear == error[c].kind # "notPrimary"
           store == error[c].kind \in StateChangeErrors
           tv == error[c].tv
           k == IF clear THEN id ELSE 0
           g == conn[c].generation
<1>1. /\ Typed(td) /\ id \in Ids /\ id \in Nat \ {0} /\ g \in Nat
      /\ Gen(td, id) \in Nat /\ Generation(id) = Gen(td, id)
  BY BusyFacts DEF Connections
<1>2. ClientOk(td, pc[c], snap[c], conn[c], hello[c], error[c])
  BY ClientFacts
<1>3. /\ HasId(td, id) /\ ~(g < Gen(td, id))
      /\ store => ~(TopologyVersionCmp(ServerById(td, id).tv, tv) >= 0)
  BY <1>1 DEF Ignored
<1>4. error[c] \in Errors /\ g < MaxGeneration /\ g <= Gen(td, id)
  BY <1>2, <1>3 DEF ClientOk
<1>5. tv \in Tvs
  BY <1>4 DEF Errors, Tvs
<1>6. store => TopologyVersionCmp(ServerById(td, id).tv, tv) <= 0
  <2>1. TopologyVersionCmp(ServerById(td, id).tv, tv) \in {-1, 0, 1}
    BY CmpValues
  <2> QED
    BY <1>3, <2>1
<1>7. g = Gen(td, id)
  BY <1>1, <1>3, <1>4
<1>8. /\ td' = AppError(td, id, a, store, tv, clear)
      /\ clears' = IF clear THEN [clears EXCEPT ![id][g] = @ + 1]
                            ELSE clears
      /\ FinishError(c, clear)
  BY DEF HandleAppError, AppError
<1>9. store \in BOOLEAN /\ clear \in BOOLEAN
  OBVIOUS
<1> HIDE DEF store, clear, tv, g
<1>10. Follows(td, td', k)
  BY <1>1, <1>3, <1>5, <1>6, <1>8, <1>9, AppErrorFollows
<1>11. MayClear(td, k)
  BY <1>1, <1>3, <1>4, <1>7 DEF MayClear
<1>12. ClearsOk(td', clears')
  <2>1. CASE clear
    BY <1>1, <1>7, <1>8, <1>10, <1>11, <2>1, ClearCounted DEF IInv
  <2>2. CASE ~clear
    BY <1>8, <1>10, <1>11, <2>2, ClearsKept DEF IInv
  <2> QED
    BY <2>1, <2>2
<1> HIDE DEF k
<1> QED
  BY <1>8, <1>10, <1>11, <1>12, FinishInv

(* _mongoc_topology_handle_app_error from mc_tpld_modify_begin on.         *)
LEMMA AppErrorApplyInv ==
  ASSUME IInv, NEW c \in Clients, AppErrorApply(c)
  PROVE  IInv' /\ \E k : Follows(td, td', k)
<1>1. /\ pc[c] = "apply" /\ server' = server /\ monitor' = monitor /\ hello' = hello
  BY DEF AppErrorApply
<1>2. CASE Ignored(c)
  <2>1. td' = td /\ clears' = clears /\ FinishError(c, FALSE)
    BY <1>2 DEF AppErrorApply
  <2>2. ClearsOk(td', clears')
    BY <2>1 DEF IInv
  <2> QED
    BY <1>1, <2>1, <2>2, Unmoved, FinishInv
<1>3. CASE ~Ignored(c)
  <2>1. HandleAppError(c)
    BY <1>3 DEF AppErrorApply
  <2> QED
    BY <1>1, <1>3, <2>1, HandleAppErrorInv
<1> QED
  BY <1>2, <1>3

----------------------------------------------------------------------------
(***************************************************************************)
(* The steps of the servers and of the monitors.                           *)
(***************************************************************************)
(* The clients survive whatever happens to the description.                *)
LEMMA OthersInv ==
  ASSUME IInv, NEW k, Follows(td, td', k), MayClear(td, k),
         UNCHANGED <<pc, snap, conn, hello, error, nodes, clears>>,
         server' \in [Addresses -> Versions], MonitorsOk'
  PROVE  IInv'
<1>1. PoolOk(td') /\ ClearsOk(td', clears)
  BY PoolKept, ClearsKept DEF IInv
<1>2. ASSUME NEW c \in Clients
      PROVE  /\ ClientOk(td', pc[c], snap[c], conn[c], hello[c], error[c])
             /\ NodesOk(td', nodes[c])
  <2>1. /\ ClientOk(td, pc[c], snap[c], conn[c], hello[c], error[c])
        /\ NodesOk(td, nodes[c])
    BY DEF IInv, ClientsOk
  <2> QED
    BY <2>1, ClientKept, NodesKept DEF IInv
<1>3. ClientsOk'
  BY <1>2 DEF IInv, ClientsOk, ClientOk, NodesOk, NodeOk, IsFun
<1> QED
  BY <1>1, <1>3 DEF IInv, PoolOk, ClearsOk

(* A server changes its state or restarts.                                 *)
LEMMA ServersInv ==
  ASSUME IInv, NEW a \in Addresses, ServerChange(a) \/ ServerRestart(a)
  PROVE  IInv'
<1>1. /\ td' = td /\ monitor' = monitor
      /\ UNCHANGED <<pc, snap, conn, hello, error, nodes, clears>>
  BY DEF ServerChange, ServerRestart
<1>2. server \in [Addresses -> Versions]
  BY DEF IInv
<1>3. \E v \in Versions : server' = [server EXCEPT ![a] = v]
  <2>1. /\ server[a] \in Versions /\ server[a].processId \in 1 .. MaxProcesses
        /\ server[a].counter \in 0 .. MaxChanges
    BY <1>2 DEF Versions
  <2>2. CASE ServerChange(a)
    <3> DEFINE n == server[a].counter + 1
               v == [server[a] EXCEPT !.counter = n]
    <3>1. n \in 0 .. MaxChanges
      BY <2>1, <2>2, BoundsAssumption DEF ServerChange
    <3>2. server' = [server EXCEPT ![a] = v]
      BY <1>2, <2>2 DEF ServerChange
    <3> HIDE DEF n
    <3>3. v \in Versions
      BY <2>1, <3>1 DEF Versions
    <3> QED
      BY <3>2, <3>3
  <2>3. CASE ServerRestart(a)
    <3> DEFINE n == server[a].processId + 1
               v == [processId |-> n, counter |-> 0]
    <3>1. n \in 1 .. MaxProcesses /\ 0 \in 0 .. MaxChanges
      BY <2>1, <2>3, BoundsAssumption DEF ServerRestart
    <3>2. server' = [server EXCEPT ![a] = v]
      BY <1>2, <2>3 DEF ServerRestart
    <3> HIDE DEF n
    <3>3. v \in Versions
      BY <3>1 DEF Versions
    <3> QED
      BY <3>2, <3>3
  <2> QED
    BY <2>2, <2>3
<1>4. server' \in [Addresses -> Versions]
  BY <1>2, <1>3
<1>5. MonitorsOk'
  BY <1>1 DEF IInv, MonitorsOk, HelloOk, IsHello
<1> QED
  BY <1>1, <1>4, <1>5, Unmoved, OthersInv

(* A monitor gets something to apply, or has applied it.                   *)
LEMMA MonitorSet ==
  ASSUME IInv, NEW id \in Ids, NEW r, r \in {None, Failed} \/ HelloOk(r),
         monitor' = [monitor EXCEPT ![id] = r]
  PROVE  MonitorsOk'
<1>1. monitor = [i \in Ids |-> monitor[i]]
  BY DEF IInv, MonitorsOk
<1>2. /\ monitor' = [i \in Ids |-> monitor'[i]] /\ monitor'[id] = r
      /\ \A i \in Ids : i # id => monitor'[i] = monitor[i]
  BY <1>1
<1>3. \A i \in Ids : monitor'[i] \in {None, Failed} \/ HelloOk(monitor'[i])
  BY <1>2 DEF IInv, MonitorsOk
<1> QED
  BY <1>2, <1>3 DEF MonitorsOk, HelloOk, IsHello

(* A monitor receives a reply.                                             *)
LEMMA MonitorReplyInv ==
  ASSUME IInv, NEW id \in Ids, MonitorReply(id)
  PROVE  IInv'
<1>1. /\ td' = td /\ server' = server /\ HasId(td, id)
      /\ UNCHANGED <<pc, snap, conn, hello, error, nodes, clears>>
  BY DEF MonitorReply
<1> DEFINE a == AddressOf(td, id)
<1>2. id \in Nat \ {0} /\ Typed(td)
  BY BoundsAssumption DEF Ids, IInv, PoolOk
<1>3. a \in Addresses
  BY <1>1, <1>2, AddressOfId
<1>4. PICK h \in Replies[a] : monitor' = [monitor EXCEPT ![id] = WithTv(a, h)]
  BY DEF MonitorReply
<1>5. HelloOk(WithTv(a, h))
  BY <1>3, WithTvOk
<1>6. MonitorsOk'
  BY <1>4, <1>5, MonitorSet
<1>7. server' \in [Addresses -> Versions]
  BY <1>1 DEF IInv
<1> QED
  BY <1>1, <1>6, <1>7, Unmoved, OthersInv

(* A check fails, or its reply does not parse.                             *)
LEMMA MonitorFailsInv ==
  ASSUME IInv, NEW id \in Ids, MonitorFails(id)
  PROVE  IInv' /\ \E k : Follows(td, td', k)
<1>1. /\ td' = ClearConnectionPool(td, id) /\ server' = server /\ HasId(td, id)
      /\ Clearable(id)
      /\ UNCHANGED <<pc, snap, conn, hello, error, nodes, clears>>
  BY DEF MonitorFails
<1> DEFINE a == AddressOf(td, id)
<1>2. id \in Nat \ {0} /\ Typed(td) /\ Generation(id) = Gen(td, id)
  BY BoundsAssumption DEF Ids, IInv, PoolOk, Generation, Gen
<1>3. a \in Addresses
  BY <1>1, <1>2, AddressOfId
<1>4. PICK r \in {Failed} \cup {WithTv(a, h) : h \in {g \in Replies[a] : ~g.parses}} :
        monitor' = [monitor EXCEPT ![id] = r]
  BY DEF MonitorFails
<1>5. r = Failed \/ HelloOk(r)
  <2>1. CASE r # Failed
    <3>1. PICK h \in Replies[a] : r = WithTv(a, h)
      BY <1>4, <2>1
    <3> QED
      BY <1>3, <3>1, WithTvOk
  <2> QED
    BY <2>1
<1>6. MonitorsOk'
  BY <1>4, <1>5, MonitorSet
<1>7. server' \in [Addresses -> Versions]
  BY <1>1 DEF IInv
<1>8. Follows(td, td', id)
  BY <1>1, <1>2, ClearFollows
<1>9. MayClear(td, id)
  BY <1>1, <1>2 DEF MayClear, Clearable
<1> QED
  BY <1>1, <1>6, <1>7, <1>8, <1>9, OthersInv

(* The update of a monitor.                                                *)
LEMMA MonitorFollows ==
  ASSUME IInv, NEW id \in Ids, MonitorUpdate(id)
  PROVE  Follows(td, td', 0)
<1>1. id \in Nat \ {0} /\ Typed(td)
  BY BoundsAssumption DEF Ids, IInv, PoolOk
<1>2. CASE monitor[id] = Failed
  <2>1. td' = HandleError(td, id)
    BY <1>2 DEF MonitorUpdate
  <2> QED
    BY <1>1, <2>1, ErrorFollows
<1>3. CASE monitor[id] # Failed
  <2>1. td' = HandleHello(td, id, monitor[id]) /\ monitor[id] # None
    BY <1>3 DEF MonitorUpdate
  <2>2. HelloOk(monitor[id])
    BY <1>3, <2>1 DEF IInv, MonitorsOk
  <2> QED
    BY <1>1, <2>1, <2>2, HelloFollows DEF HelloOk
<1> QED
  BY <1>2, <1>3

(* ... after which the invariant holds.                                    *)
LEMMA MonitorUpdateInv ==
  ASSUME IInv, NEW id \in Ids, MonitorUpdate(id)
  PROVE  IInv'
<1>1. /\ server' = server /\ monitor' = [monitor EXCEPT ![id] = None]
      /\ UNCHANGED <<pc, snap, conn, hello, error, nodes, clears>>
  BY DEF MonitorUpdate
<1>2. MonitorsOk'
  BY <1>1, MonitorSet
<1>3. server' \in [Addresses -> Versions]
  BY <1>1 DEF IInv
<1>4. MayClear(td, 0)
  BY DEF MayClear
<1> QED
  BY <1>1, <1>2, <1>3, <1>4, MonitorFollows, OthersInv

----------------------------------------------------------------------------
(***************************************************************************)
(* The specification.                                                      *)
(***************************************************************************)
(* The initial states satisfy the inductive invariant.                     *)
LEMMA InitInv == Init => IInv
<1> SUFFICES ASSUME Init PROVE IInv
  OBVIOUS
<1> DEFINE e == [type |-> InitialType, setName |-> SetName, maxElectionId |-> 0,
                 maxSetVersion |-> NoSetVersion, maxServerId |-> 0,
                 sessionTimeout |-> NoSessions, compatible |-> TRUE,
                 servers |-> [a \in Addresses |-> Absent]]
<1>1. /\ td = AddServers(e, Addresses)
      /\ server = [a \in Addresses |-> [processId |-> 1, counter |-> 0]]
      /\ monitor = [id \in Ids |-> None] /\ pc = [c \in Clients |-> "idle"]
      /\ snap = [c \in Clients |-> 0] /\ conn = [c \in Clients |-> None]
      /\ hello = [c \in Clients |-> None] /\ error = [c \in Clients |-> None]
      /\ nodes = [c \in Clients |-> [id \in Ids |-> None]]
      /\ clears = [id \in Ids |-> [g \in 0 .. MaxGeneration |-> 0]]
  BY DEF Init, NewTopology
<1>2. e.maxServerId = 0 /\ Shape(e) /\ \A a \in Addresses : e.servers[a] = Absent
  BY DEF Shape
<1> HIDE DEF e
<1>3. /\ SdShape(Absent) /\ Absent.id = 0 /\ Absent.tv = NoTv
      /\ Absent.generation = 0
  BY SdShapes DEF Absent, NewSd, ResetSd
<1>4. Typed(e)
  BY <1>2, <1>3 DEF Typed, SdTyped, Tvs
<1>5. Evolves(e, td)
  BY <1>1, <1>4, AddServersEvolves
<1>6. PoolOk(td)
  <2>1. Typed(td) /\ MaxGeneration \in Nat
    BY <1>5, EvolvesTyped, BoundsAssumption
  <2>2. ASSUME NEW a \in Addresses, td.servers[a].id # 0
        PROVE  td.servers[a].generation = 0
    BY <1>2, <1>3, <1>5, <2>2 DEF Evolves, Kept
  <2> QED
    BY <2>1, <2>2 DEF PoolOk
<1>7. server \in [Addresses -> Versions]
  <2>1. [processId |-> 1, counter |-> 0] \in Versions
    BY BoundsAssumption DEF Versions
  <2> QED
    BY <1>1, <2>1
<1>8. MonitorsOk
  BY <1>1 DEF MonitorsOk
<1>9. ClientsOk
  <2>1. /\ IsFun(pc) /\ IsFun(snap) /\ IsFun(conn) /\ IsFun(hello)
        /\ IsFun(error) /\ IsFun(nodes)
    BY <1>1 DEF IsFun
  <2>2. ASSUME NEW c \in Clients
        PROVE  /\ ClientOk(td, pc[c], snap[c], conn[c], hello[c], error[c])
               /\ NodesOk(td, nodes[c])
    <3>1. NodesOk(td, nodes[c])
      BY <1>1 DEF NodesOk, NodeOk
    <3>2. /\ pc[c] = "idle" /\ snap[c] = 0 /\ conn[c] = None /\ hello[c] = None
          /\ error[c] = None
      BY <1>1
    <3> QED
      BY <3>1, <3>2, ReleasedOk
  <2> QED
    BY <2>1, <2>2 DEF ClientsOk
<1>10. ClearsOk(td, clears)
  BY <1>1, BoundsAssumption DEF ClearsOk
<1> QED
  BY <1>6, <1>7, <1>8, <1>9, <1>10 DEF IInv

(* Every step keeps it, and moves the description on.                      *)
LEMMA NextInv ==
  ASSUME IInv, [Next]_vars
  PROVE  IInv' /\ \E k : Follows(td, td', k)
<1>1. ASSUME td' = td PROVE \E k : Follows(td, td', k)
  BY <1>1, Unmoved
<1>2. CASE UNCHANGED vars
  <2>1. td' = td
    BY <1>2 DEF vars
  <2>2. IInv'
    BY <1>2 DEF vars, IInv, PoolOk, MonitorsOk, ClientsOk, ClientOk, NodesOk,
                NodeOk, ClearsOk, HelloOk, IsHello, IsFun
  <2> QED
    BY <1>1, <2>1, <2>2
<1>3. CASE Servers
  <2>1. PICK a \in Addresses : ServerChange(a) \/ ServerRestart(a)
    BY <1>3 DEF Servers
  <2>2. td' = td
    BY <2>1 DEF ServerChange, ServerRestart
  <2> QED
    BY <1>1, <2>1, <2>2, ServersInv
<1>4. CASE Monitors
  <2>1. PICK id \in Ids : MonitorReply(id) \/ MonitorUpdate(id) \/ MonitorFails(id)
    BY <1>4 DEF Monitors
  <2>2. CASE MonitorReply(id)
    <3>1. td' = td
      BY <2>2 DEF MonitorReply
    <3> QED
      BY <1>1, <2>2, <3>1, MonitorReplyInv
  <2>3. CASE MonitorUpdate(id)
    BY <2>3, MonitorUpdateInv, MonitorFollows
  <2>4. CASE MonitorFails(id)
    BY <2>4, MonitorFailsInv
  <2> QED
    BY <2>1, <2>2, <2>3, <2>4
<1>5. ASSUME NEW c \in Clients, Client(c)
      PROVE  IInv' /\ \E k : Follows(td, td', k)
  <2>1. ASSUME NEW id \in Ids, Fetch(c, id)
        PROVE  IInv' /\ \E k : Follows(td, td', k)
    <3>1. td' = td
      BY <2>1 DEF Fetch
    <3> QED
      BY <1>1, <2>1, <3>1, FetchInv
  <2>2. CASE Connect(c)
    <3>1. td' = td
      BY <2>2 DEF Connect
    <3> QED
      BY <1>1, <2>2, <3>1, ConnectInv
  <2>3. ASSUME NEW dns \in BOOLEAN, ConnectFails(c, dns)
        PROVE  IInv' /\ \E k : Follows(td, td', k)
    BY <2>3, ConnectFailsInv
  <2>4. CASE HandshakeReply(c)
    <3>1. td' = td
      BY <2>4 DEF HandshakeReply
    <3> QED
      BY <1>1, <2>4, <3>1, HandshakeReplyInv
  <2>5. CASE HandshakeFails(c) \/ CommandDone(c)
    <3>1. td' = td
      BY <2>5 DEF HandshakeFails, CommandDone
    <3> QED
      BY <1>1, <2>5, <3>1, GivenUpInv
  <2>6. CASE HandshakeUpdate(c)
    BY <2>6, HandshakeUpdateInv
  <2>7. CASE AddNode(c)
    <3>1. td' = td
      BY <2>7 DEF AddNode
    <3> QED
      BY <1>1, <2>7, <3>1, AddNodeInv
  <2>8. ASSUME NEW kind \in {"network", "timeout"} \cup StateChangeErrors,
               CommandFails(c, kind)
        PROVE  IInv' /\ \E k : Follows(td, td', k)
    <3>1. td' = td
      BY <2>8 DEF CommandFails
    <3> QED
      BY <1>1, <2>8, <3>1, CommandFailsInv
  <2>9. CASE AppErrorCheck(c)
    <3>1. td' = td
      BY <2>9 DEF AppErrorCheck
    <3> QED
      BY <1>1, <2>9, <3>1, AppErrorCheckInv
  <2>10. CASE AppErrorApply(c)
    BY <2>10, AppErrorApplyInv
  <2> QED
    BY <1>5, <2>1, <2>2, <2>3, <2>4, <2>5, <2>6, <2>7, <2>8, <2>9, <2>10 DEF Client
<1> QED
  BY <1>2, <1>3, <1>4, <1>5 DEF Next

(* The inductive invariant holds in every state.                           *)
THEOREM Inductive == Spec => []IInv
<1>1. IInv /\ [Next]_vars => IInv'
  BY NextInv
<1> QED
  BY <1>1, InitInv, PTL DEF Spec

(* A client that is not idle has a connection, one that met an error has   *)
(* one to handle, and every generation stays within its bound.             *)
THEOREM TypeCorrect == Spec => []TypeOK
<1>1. IInv => TypeOK
  <2> SUFFICES ASSUME IInv PROVE TypeOK
    OBVIOUS
  <2>1. ASSUME NEW id \in Ids PROVE Generation(id) \in 0 .. MaxGeneration
    <3>1. id \in Nat \ {0}
      BY BoundsAssumption DEF Ids
    <3> QED
      BY <3>1, GenTyped DEF IInv, Generation, Gen
  <2>2. ASSUME NEW c \in Clients
        PROVE  /\ ClientOk(td, pc[c], snap[c], conn[c], hello[c], error[c])
               /\ \A id \in Ids : nodes[c][id] \in Connections \cup {None}
    BY DEF IInv, ClientsOk, NodesOk, NodeOk
  <2> QED
    BY <2>1, <2>2 DEF TypeOK, ClientOk, HelloOk
<1> QED
  BY <1>1, Inductive, PTL

(* A command is only sent on a connection that was opened after every      *)
(* clear in the description the client holds, and a kept connection never  *)
(* claims a generation in which it was not open.                           *)
THEOREM FreshConnections == Spec => []ConnectionFresh
<1>1. IInv => ConnectionFresh
  <2> SUFFICES ASSUME IInv, NEW c \in Clients
               PROVE  /\ pc[c] = "use" => conn[c].opened >= snap[c]
                      /\ \A id \in Ids : nodes[c][id] # None =>
                           nodes[c][id].generation <= nodes[c][id].opened
    BY DEF ConnectionFresh
  <2>1. /\ ClientOk(td, pc[c], snap[c], conn[c], hello[c], error[c])
        /\ NodesOk(td, nodes[c])
    BY ClientFacts
  <2> QED
    BY <2>1 DEF ClientOk, NodesOk, NodeOk
<1> QED
  BY <1>1, Inductive, PTL

(* The errors of one generation of connections clear the pool once.        *)
THEOREM ClearedOnce == Spec => []OneClearPerGeneration
<1>1. IInv => OneClearPerGeneration
  <2> SUFFICES ASSUME IInv, NEW id \in Ids, NEW g \in 0 .. MaxGeneration
               PROVE  clears[id][g] <= 1
    BY DEF OneClearPerGeneration
  <2>1. clears \in [Ids -> [0 .. MaxGeneration -> 0 .. 1]]
    BY DEF IInv, ClearsOk
  <2>2. clears[id][g] \in 0 .. 1
    BY <2>1
  <2> QED
    BY <2>2
<1> QED
  BY <1>1, Inductive, PTL

(* What is known of a server never goes back to an older state of the same *)
(* server process.                                                         *)
THEOREM VersionsAdvance == Spec => TopologyVersionAdvances
<1>1. IInv /\ [Next]_vars =>
        [\A id \in Ids :
           HasId(td, id) /\ HasId(td', id) =>
             TopologyVersionCmp(ServerById(td, id).tv, ServerById(td', id).tv) <= 0
        ]_vars
  <2> SUFFICES ASSUME IInv, [Next]_vars, NEW id \in Ids,
                      HasId(td, id), HasId(td', id)
               PROVE  TopologyVersionCmp(ServerById(td, id).tv,
                                         ServerById(td', id).tv) <= 0
    OBVIOUS
  <2>1. PICK k : Follows(td, td', k)
    BY NextInv
  <2>2. id \in Nat \ {0} /\ Typed(td)
    BY BoundsAssumption DEF Ids, IInv, PoolOk
  <2> QED
    BY <2>1, <2>2, FollowsId
<1> QED
  BY <1>1, Inductive, PTL DEF Spec, TopologyVersionAdvances
============================================================================
