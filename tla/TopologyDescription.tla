------------------------ MODULE TopologyDescription ------------------------
(***************************************************************************)
(* The topology description as a value, and the operations of              *)
(* mongoc-topology-description.c and mongoc-server-description.c that      *)
(* compute a new one: what a server's hello reply, a failed check, an      *)
(* invalidation and a cleared connection pool do to it.                    *)
(*                                                                         *)
(* A description td is a record                                            *)
(*   type            mongoc_topology_description_type_t                    *)
(*   setName         set_name, or NoName                                   *)
(*   maxElectionId   max_election_id, 0 when zeroed                        *)
(*   maxSetVersion   max_set_version, NoSetVersion when unset              *)
(*   maxServerId     max_server_id                                         *)
(*   sessionTimeout  session_timeout_minutes, NoSessions when unset        *)
(*   compatible      whether compatibility_error is clear                  *)
(*   servers         servers[a] is the server description at address a;    *)
(*                   its id is 0 when the topology has no such server      *)
(* Addresses compare without case in the code, so one address is one value *)
(* here.                                                                   *)
(***************************************************************************)
EXTENDS Integers, FiniteSets

CONSTANTS Addresses,  \* addresses servers may have
          NoAddress,  \* a hello without "me" or "primary"
          NoName,     \* no set name
          NoTv        \* no topologyVersion

ASSUME AddressesAssumption == IsFiniteSet(Addresses)

NoSetVersion == -1
NoSessions == -1

RsTypes == {"RSNoPrimary", "RSWithPrimary"}
DataTypes == {"Mongos", "Standalone", "RSSecondary", "RSPrimary"}

----------------------------------------------------------------------------
(* mongoc_server_description_reset: what survives is the id, the pool      *)
(* generation and the topologyVersion.                                     *)
ResetSd(sd) ==
  [id |-> sd.id, type |-> "Unknown", setName |-> NoName, hosts |-> {},
   electionId |-> 0, setVersion |-> NoSetVersion, wire |-> "tooOld",
   timeout |-> NoSessions, tv |-> sd.tv, generation |-> sd.generation]

(* mongoc_server_description_init; id 0 stands for a server that is not in *)
(* the set.                                                                *)
NewSd(id) == ResetSd([id |-> id, tv |-> NoTv, generation |-> 0])
Absent == NewSd(0)

(* mongoc_server_description_handle_hello, the type of a parsed reply.     *)
HelloType(h) ==
  CASE ~h.parses              -> "Unknown"
    [] h.isdbgrid             -> "Mongos"
    [] h.setName # NoName     ->
         CASE h.role = "hidden"    -> "RSOther"
           [] h.role = "primary"   -> "RSPrimary"
           [] h.role = "secondary" -> "RSSecondary"
           [] h.role = "arbiter"   -> "RSArbiter"
           [] OTHER                -> "RSOther"
    [] h.role = "isreplicaset" -> "RSGhost"
    [] OTHER                   -> "Standalone"

SdHandleHello(sd, h) ==
  [id |-> sd.id, type |-> HelloType(h), setName |-> h.setName,
   hosts |-> h.hosts, electionId |-> h.electionId,
   setVersion |-> h.setVersion, wire |-> h.wire, timeout |-> h.timeout,
   tv |-> h.tv, generation |-> sd.generation]

(* mongoc_server_description_topology_version_cmp.                         *)
TopologyVersionCmp(tv1, tv2) ==
  IF tv1 = NoTv \/ tv2 = NoTv THEN -1
  ELSE IF tv1.processId # tv2.processId \/ tv1.counter < tv2.counter THEN -1
  ELSE IF tv1.counter > tv2.counter THEN 1
  ELSE 0

----------------------------------------------------------------------------
Members(td) == {a \in Addresses : td.servers[a].id # 0}

(* mongoc_topology_description_server_by_id.                               *)
HasId(td, id) == \E a \in Addresses : td.servers[a].id = id
AddressOf(td, id) == CHOOSE a \in Addresses : td.servers[a].id = id
ServerById(td, id) == td.servers[AddressOf(td, id)]

SetServer(td, a, sd) == [td EXCEPT !.servers = [@ EXCEPT ![a] = sd]]
SetState(td, type) == [td EXCEPT !.type = type]
RemoveServer(td, a) == SetServer(td, a, Absent)

HasPrimary(td) ==
  \E a \in Members(td) : td.servers[a].type \in {"RSPrimary", "Standalone"}

UpdateRsType(td) ==
  SetState(td, IF HasPrimary(td) THEN "RSWithPrimary" ELSE "RSNoPrimary")

(* mongoc_topology_description_add_server for every address of hosts the   *)
(* topology lacks; the ids are consecutive, in the order of the list.      *)
AddServers(td, hosts) ==
  LET added == hosts \ Members(td)
      rank == CHOOSE f \in [added -> 1 .. Cardinality(added)] :
                \A a, b \in added : f[a] = f[b] => a = b
  IN  [td EXCEPT
         !.maxServerId = @ + Cardinality(added),
         !.servers = [a \in Addresses |->
            IF a \in added THEN NewSd(td.maxServerId + rank[a]) ELSE @[a]]]

(* _mongoc_topology_description_label_unknown_member                       *)
LabelUnknownMember(td, address, type) ==
  IF address \in Members(td) /\ td.servers[address].type = "Unknown"
    THEN SetServer(td, address, [td.servers[address] EXCEPT !.type = type])
    ELSE td

(* _mongoc_topology_description_update_session_timeout                     *)
UpdateSessionTimeout(td) ==
  LET timeouts == {td.servers[a].timeout :
                     a \in {b \in Members(td) : td.servers[b].type \in DataTypes}}
  IN  [td EXCEPT !.sessionTimeout =
         IF timeouts = {} \/ NoSessions \in timeouts THEN NoSessions
         ELSE CHOOSE m \in timeouts : \A n \in timeouts : m <= n]

(* mongoc_topology_description_handle_hello with a NULL reply: the server  *)
(* becomes Unknown, and a replica set may have lost its primary.           *)
HandleNullReply(td, a) ==
  LET unknown == SetServer(td, a, ResetSd(td.servers[a]))
  IN  UpdateSessionTimeout(
        IF td.type = "RSWithPrimary" THEN UpdateRsType(unknown) ELSE unknown)

(* mongoc_topology_description_invalidate_server                           *)
InvalidateServer(td, a) ==
  IF td.type = "LoadBalanced" THEN td ELSE HandleNullReply(td, a)

----------------------------------------------------------------------------
(* Mutant: no primary is distrusted.                                       *)
StalePrimaryNever(td, h) == FALSE

(* Whether the election (electionId, setVersion) a primary reports is      *)
(* older than the latest the topology has seen: electionId first since     *)
(* MongoDB 6.0, setVersion first before, and only if both are reported.    *)
StalePrimary(td, h) ==
  IF h.wire \in {"post6", "tooNew"}
    THEN \/ h.electionId < td.maxElectionId
         \/ h.electionId = td.maxElectionId /\ h.setVersion < td.maxSetVersion
    ELSE /\ h.setVersion # NoSetVersion /\ h.electionId # 0
         /\ \/ td.maxSetVersion > h.setVersion
            \/ td.maxSetVersion = h.setVersion
                 /\ td.maxElectionId > h.electionId

RememberElection(td, h) ==
  IF h.wire \in {"post6", "tooNew"}
    THEN [td EXCEPT !.maxElectionId = h.electionId,
                    !.maxSetVersion = h.setVersion]
    ELSE [td EXCEPT
            !.maxElectionId =
               IF h.setVersion # NoSetVersion /\ h.electionId # 0
                 THEN h.electionId ELSE @,
            !.maxSetVersion =
               IF h.setVersion > @ THEN h.setVersion ELSE @]

(* Mutant: the other primaries stay.                                       *)
InvalidatePrimariesNone(td, a) == td

(* _mongoc_topology_description_invalidate_primaries_cb on every server.   *)
InvalidatePrimaries(td, a) ==
  [td EXCEPT !.servers =
     [b \in Addresses |-> IF b # a /\ @[b].type = "RSPrimary"
                            THEN ResetSd(@[b]) ELSE @[b]]]

(* Mutant: the servers the primary does not report stay.                   *)
RemoveUnreportedServersNone(td, hosts) == td

RemoveUnreportedServers(td, hosts) ==
  [td EXCEPT !.servers =
     [b \in Addresses |-> IF b \in hosts THEN @[b] ELSE Absent]]

(* _mongoc_topology_description_update_rs_from_primary                     *)
UpdateRsFromPrimary(td, a, h) ==
  IF td.setName \notin {NoName, h.setName}
    THEN UpdateRsType(RemoveServer(td, a))
    ELSE LET named == [td EXCEPT !.setName = h.setName]
         IN  IF StalePrimary(named, h)
               THEN UpdateRsType(InvalidateServer(named, a))
               ELSE LET rest == InvalidatePrimaries(RememberElection(named, h), a)
                    IN  UpdateRsType(RemoveUnreportedServers(
                                       AddServers(rest, h.hosts), h.hosts))

(* _mongoc_topology_description_matches_me                                 *)
MatchesMe(a, h) == h.me \in {NoAddress, a}

(* _mongoc_topology_description_update_rs_without_primary                  *)
UpdateRsWithoutPrimary(td, a, h) ==
  IF td.setName \notin {NoName, h.setName}
    THEN RemoveServer(td, a)
    ELSE LET added == AddServers([td EXCEPT !.setName = h.setName], h.hosts)
             labelled == LabelUnknownMember(added, h.primary, "PossiblePrimary")
         IN  IF MatchesMe(a, h) THEN labelled ELSE RemoveServer(labelled, a)

(* _mongoc_topology_description_update_rs_with_primary_from_member         *)
UpdateRsWithPrimaryFromMember(td, a, h) ==
  IF td.setName # h.setName THEN UpdateRsType(RemoveServer(td, a))
  ELSE IF ~MatchesMe(a, h) THEN RemoveServer(td, a)
  ELSE IF ~HasPrimary(td) /\ h.primary # NoAddress
    THEN LabelUnknownMember(SetState(td, "RSNoPrimary"), h.primary,
                            "PossiblePrimary")
    ELSE td

(* _mongoc_topology_description_update_unknown_with_standalone             *)
UpdateUnknownWithStandalone(td, a) ==
  IF Cardinality(Members(td)) > 1 THEN RemoveServer(td, a)
                                  ELSE SetState(td, "Single")

(* gSDAMTransitionTable[sd->type][topology->type]; the table has no        *)
(* function for Single and LoadBalanced topologies.                        *)
Transition(td, a, h) ==
  LET type == td.servers[a].type
  IN  CASE td.type = "Unknown" ->
             CASE type = "Standalone" -> UpdateUnknownWithStandalone(td, a)
               [] type = "Mongos" -> SetState(td, "Sharded")
               [] type = "RSPrimary" -> UpdateRsFromPrimary(td, a, h)
               [] type \in {"RSSecondary", "RSArbiter", "RSOther"} ->
                    UpdateRsWithoutPrimary(SetState(td, "RSNoPrimary"), a, h)
               [] OTHER -> td
        [] td.type = "Sharded" ->
             IF type \in {"Unknown", "Mongos"} THEN td ELSE RemoveServer(td, a)
        [] td.type = "RSNoPrimary" ->
             CASE type \in {"Standalone", "Mongos"} -> RemoveServer(td, a)
               [] type = "RSPrimary" -> UpdateRsFromPrimary(td, a, h)
               [] type \in {"RSSecondary", "RSArbiter", "RSOther"} ->
                    UpdateRsWithoutPrimary(td, a, h)
               [] OTHER -> td
        [] td.type = "RSWithPrimary" ->
             CASE type \in {"Standalone", "Mongos"} ->
                    UpdateRsType(RemoveServer(td, a))
               [] type = "RSPrimary" -> UpdateRsFromPrimary(td, a, h)
               [] type \in {"RSSecondary", "RSArbiter", "RSOther"} ->
                    UpdateRsWithPrimaryFromMember(td, a, h)
               [] OTHER -> UpdateRsType(td)
        [] OTHER -> td

----------------------------------------------------------------------------
(* _mongoc_topology_description_check_compatible                           *)
CheckCompatible(td) ==
  [td EXCEPT !.compatible =
     \A a \in Members(td) :
       \/ td.servers[a].type \in {"Unknown", "PossiblePrimary"}
       \/ td.servers[a].wire \in {"pre6", "post6"}]

(* mongoc_topology_description_handle_hello, the reply h of the server at  *)
(* address a. A Single topology with a set name distrusts a server of      *)
(* another set.                                                            *)
HandleReply(td, a, h) ==
  LET wrongSet == td.type = "Single" /\ td.setName \notin {NoName, h.setName}
      sd == IF wrongSet THEN ResetSd(SdHandleHello(td.servers[a], h))
                        ELSE SdHandleHello(td.servers[a], h)
  IN  CheckCompatible(UpdateSessionTimeout(
                        Transition(SetServer(td, a, sd), a, h)))

(* Mutant: replies are applied in the order they come.                     *)
HandleHelloUnordered(td, id, h) ==
  IF HasId(td, id) THEN HandleReply(td, AddressOf(td, id), h) ELSE td

(* ... found by its id, unless the reply is older than what is known.      *)
HandleHello(td, id, h) ==
  IF ~HasId(td, id) THEN td
  ELSE IF TopologyVersionCmp(ServerById(td, id).tv, h.tv) = 1 THEN td
  ELSE HandleReply(td, AddressOf(td, id), h)

(* ... and the failed check of a monitor.                                  *)
HandleError(td, id) ==
  IF ~HasId(td, id) THEN td
  ELSE HandleNullReply(td, AddressOf(td, id))

(* _mongoc_topology_description_clear_connection_pool                      *)
ClearConnectionPool(td, id) ==
  IF ~HasId(td, id) THEN td
  ELSE LET a == AddressOf(td, id)
       IN  SetServer(td, a, [td.servers[a] EXCEPT !.generation = @ + 1])

(* mongoc_topology_new: the seeds of the connection string, all Unknown.   *)
NewTopology(type, setName, seeds) ==
  AddServers([type |-> type, setName |-> setName, maxElectionId |-> 0,
              maxSetVersion |-> NoSetVersion, maxServerId |-> 0,
              sessionTimeout |-> NoSessions, compatible |-> TRUE,
              servers |-> [a \in Addresses |-> Absent]], seeds)
=============================================================================
