------------------------------- MODULE Sdam -------------------------------
(***************************************************************************)
(* Server discovery and monitoring: the published topology description     *)
(* under the replies and the failures of the monitors, and of the          *)
(* handshakes of application connections, which go through the same        *)
(* handler.  Every update runs under tpld_modification_mtx, so it is one   *)
(* step; the replies are applied in any order, also for servers that were  *)
(* removed since the check began.                                          *)
(***************************************************************************)
EXTENDS TopologyDescription

CONSTANTS InitialTopologies,  \* what the connection string may ask for
          Deployments,        \* the deployments behind it, by release
          Hellos,             \* Hellos[d][a]: replies the server at a may
                              \*   send in deployment d
          MaxServerId         \* bound on the servers that are ever added

(* A direct connection has one seed (mongoc_uri_finalize_directconnection). *)
ASSUME InitialAssumption ==
  /\ MaxServerId \in Nat
  /\ \A i \in InitialTopologies :
       /\ i.type \in {"Unknown", "Single", "RSNoPrimary"}
       /\ i.seeds \subseteq Addresses /\ Cardinality(i.seeds) <= MaxServerId
       /\ i.type = "Single" => \E a \in Addresses : i.seeds = {a}

ASSUME HellosAssumption ==
  \A d \in Deployments, a \in Addresses : \A h \in Hellos[d][a] :
    /\ h.hosts \subseteq Addresses
    /\ h.electionId \in Nat /\ h.setVersion \in Nat \cup {NoSetVersion}

(* The primaries of a deployment order their elections in the same way:    *)
(* they run releases all since 6.0 or all before.                          *)
ElectionFirst(d) ==
  \E a \in Addresses : \E h \in Hellos[d][a] :
    HelloType(h) = "RSPrimary" /\ h.wire \in {"post6", "tooNew"}

ASSUME DeploymentAssumption ==
  \A d \in Deployments, a \in Addresses : \A h \in Hellos[d][a] :
    HelloType(h) = "RSPrimary" =>
      (h.wire \in {"post6", "tooNew"} <=> ElectionFirst(d))

VARIABLES td,      \* the published description
          latest,  \* the last election a primary was accepted with (history)
          passed,  \* the elections that were replaced by another (history)
          deployment

vars == <<td, latest, passed, deployment>>

NoElection == <<0, NoSetVersion>>

(* The election of the primary of a replica set, when it reports all of it *)
(* (a direct connection takes its server as it is).                        *)
Elections(d) ==
  {<<d.servers[a].electionId, d.servers[a].setVersion>> :
     a \in {b \in Members(d) : /\ d.type \in RsTypes
                               /\ d.servers[b].type = "RSPrimary"
                               /\ d.servers[b].electionId # 0
                               /\ d.servers[b].setVersion # NoSetVersion}}

(* The history variables follow the primary of the description.            *)
TrackElections ==
  IF \E e \in Elections(td') : e # latest
    THEN /\ latest' = CHOOSE e \in Elections(td') : e # latest
         /\ passed' = passed \cup ({latest} \ {NoElection})
    ELSE UNCHANGED <<latest, passed>>

(* mongoc_topology_new                                                     *)
Init ==
  /\ \E i \in InitialTopologies : td = NewTopology(i.type, i.setName, i.seeds)
  /\ latest = NoElection
  /\ passed = {}
  /\ deployment \in Deployments

(* _update_topology_description with a reply, or                           *)
(* _mongoc_topology_update_from_handshake.                                 *)
Hello(id, a, h) ==
  /\ HasId(td, id) => AddressOf(td, id) = a
  /\ td' = HandleHello(td, id, h)
  /\ td'.maxServerId <= MaxServerId
  /\ TrackElections
  /\ UNCHANGED deployment

(* _update_topology_description after a check that failed.                 *)
CheckFailed(id) ==
  /\ td' = HandleError(td, id)
  /\ TrackElections
  /\ UNCHANGED deployment

Next == \E id \in 1 .. td.maxServerId :
          \/ \E a \in Addresses : \E h \in Hellos[deployment][a] : Hello(id, a, h)
          \/ CheckFailed(id)

Spec == Init /\ [][Next]_vars

----------------------------------------------------------------------------
(* The types of the description and of the server descriptions.            *)
TopologyTypes == {"Unknown", "Single", "Sharded"} \cup RsTypes
MemberTypes == {"RSPrimary", "RSSecondary", "RSArbiter", "RSOther"}
ServerTypes == {"Unknown", "Standalone", "Mongos", "PossiblePrimary",
                "RSGhost"} \cup MemberTypes

(* Type invariant of the description; a server that is not in the topology *)
(* has no state.                                                           *)
TypeOK ==
  /\ td.type \in TopologyTypes
  /\ td.maxServerId \in 0 .. MaxServerId
  /\ td.compatible \in BOOLEAN
  /\ \A a \in Addresses : /\ td.servers[a].id \in 0 .. td.maxServerId
                          /\ td.servers[a].type \in ServerTypes
                          /\ td.servers[a].hosts \subseteq Addresses
                          /\ td.servers[a].id = 0 => td.servers[a] = Absent

Primaries == {a \in Members(td) : td.servers[a].type = "RSPrimary"}

(* Two servers are never both trusted as primary, whatever the order their *)
(* replies, failures and elections arrive in, and a replica set without a  *)
(* primary has no server writes could be sent to.                          *)
AtMostOnePrimary ==
  /\ Cardinality(Primaries) <= 1
  /\ td.type = "RSNoPrimary" => Primaries = {}

(* The members of a replica set are among those its primary reported, so   *)
(* a host that was removed from the set does not come back through the     *)
(* reply of another member.                                                *)
ReportedByPrimary ==
  td.type \in RsTypes =>
    \A p \in Primaries : Members(td) \subseteq td.servers[p].hosts

(* During a split brain the driver does not oscillate between the old and  *)
(* the new primary: a primary of an election that was replaced by another  *)
(* is never trusted again (update_rs_from_primary).                        *)
NoOscillation == Elections(td) \cap passed = {}
=============================================================================
