-------------------------- MODULE ServerSelection ---------------------------
(***************************************************************************)
(* Server selection in a client of a pool: mongoc_topology_select_server_id*)
(* with a background thread, mongoc_topology_description_select and the    *)
(* filters under it, from read mode, maxStalenessSeconds, tag sets, round  *)
(* trip times and the servers a retry has deprioritized.  The arrays with  *)
(* NULL holes of the code are the sets of the servers that are left.       *)
(*                                                                         *)
(* The description is read through a reference that is renewed before each *)
(* attempt: other threads may have published any other description by then.*)
(***************************************************************************)
EXTENDS Integers, Sequences, FiniteSets

CONSTANTS Servers,         \* server ids
          Descriptions,    \* the topology descriptions SDAM can publish
          Operations,      \* the operations to select a server for
          Heartbeat,       \* heartbeatFrequencyMS
          IdlePeriod,      \* MONGOC_IDLE_WRITE_PERIOD_MS
          MinStaleness,    \* MONGOC_SMALLEST_MAX_STALENESS_SECONDS
          LocalThreshold,  \* localThresholdMS
          WireVersion50,   \* WIRE_VERSION_5_0
          Tags,            \* the pairs of a key and a value of a tag set
          None

NoMaxStaleness == -1       \* MONGOC_NO_MAX_STALENESS
Unset == -1                \* MONGOC_RTT_UNSET

(* A mongoc_deprioritized_servers_t pointer: NULL, or to a set of ids.     *)
NoList == {}
List(ids) == {ids}
Ids(ds) == UNION ds

ReplicaSetTypes == {"RSNoPrimary", "RSWithPrimary"}
TopologyTypes == ReplicaSetTypes \cup {"Unknown", "Single", "Sharded", "LoadBalanced"}
ServerTypes == {"Unknown", "PossiblePrimary", "Standalone", "Mongos", "RSPrimary",
                "RSSecondary", "RSOther", "LoadBalancer"}
Modes == {"primary", "primaryPreferred", "secondary", "secondaryPreferred", "nearest"}

(* What selection reads of a mongoc_server_description_t.                  *)
ServerDescription ==
  [type : ServerTypes, rtt : Nat \cup {Unset}, lastWrite : Int, lastUpdate : Int,
   tags : SUBSET Tags, wire : Nat, hello : BOOLEAN]

Operation ==
  [optype : {"read", "write", "aggregate"}, mode : Modes, staleness : Int,
   tagSets : Seq(SUBSET Tags), ds : {NoList} \cup {List(ids) : ids \in SUBSET Servers}]

(* A description names a primary in its type whenever it has one, and has  *)
(* one server if its type is Single or LoadBalanced.                       *)
WellFormed(d) ==
  /\ d.type \in TopologyTypes /\ d.compatible \in BOOLEAN
  /\ DOMAIN d.server \subseteq Servers
  /\ \A s \in DOMAIN d.server : d.server[s] \in ServerDescription
  /\ \A s, t \in DOMAIN d.server :
        d.server[s].type = "RSPrimary" =>
          /\ d.type \in {"RSWithPrimary", "Single"}
          /\ d.server[t].type = "RSPrimary" => s = t
  /\ d.type \in {"Single", "LoadBalanced"} => \E s \in Servers : DOMAIN d.server = {s}

ASSUME SelectionAssumption ==
  /\ Heartbeat \in Nat /\ IdlePeriod \in Nat /\ MinStaleness \in Nat
  /\ LocalThreshold \in Nat /\ WireVersion50 \in Nat
  /\ IsFiniteSet(Servers)
  /\ None \notin Servers
  /\ \A d \in Descriptions : WellFormed(d)
  /\ Operations \subseteq Operation

VARIABLES
  phase,      \* where mongoc_topology_select_server_id is
  op,         \* the operation it selects for
  td,        \* the description it has a reference to
  chosen,     \* the id it returns
  mustUse     \* must_use_primary, for the caller

selectVars == <<phase, op, td, chosen, mustUse>>

Typed(d, C, type) == {s \in C : d.server[s].type = type}
Primaries(d) == Typed(d, DOMAIN d.server, "RSPrimary")

----------------------------------------------------------------------------
(* mongoc_topology_compatible                                              *)

AllHaveWriteDate(d) ==
  \A s \in DOMAIN d.server :
    d.server[s].type \in {"RSPrimary", "RSSecondary"} => d.server[s].lastWrite > 0

(* Mutant: the heartbeat interval is not considered.                      *)
ValidMaxStalenessNoHeartbeat(d, o) ==
  d.type \in ReplicaSetTypes => o.staleness >= MinStaleness

ValidMaxStaleness(d, o) ==
  d.type \in ReplicaSetTypes =>
    /\ o.staleness >= Heartbeat + IdlePeriod
    /\ o.staleness >= MinStaleness

Compatible(d, o) ==
  /\ d.compatible
  /\ o.staleness # NoMaxStaleness => AllHaveWriteDate(d) /\ ValidMaxStaleness(d, o)

----------------------------------------------------------------------------
(* The filters                                                             *)

AnyTooOld(d) ==
  \E s \in DOMAIN d.server :
    d.server[s].type # "Unknown" /\ d.server[s].wire < WireVersion50

MustUsePrimary(d, o) ==
  \/ o.mode = "primary"
  \/ o.optype = "aggregate" /\ AnyTooOld(d)

ReadMode(d, o) == IF MustUsePrimary(d, o) THEN "primary" ELSE o.mode

(* The types of the servers of a replica set that suit a read mode.        *)
CandidateTypes(mode) ==
  CASE mode = "primary" -> {"RSPrimary"}
    [] mode = "secondary" -> {"RSSecondary"}
    [] OTHER -> {"RSPrimary", "RSSecondary"}

Candidates(d, mode) == {s \in DOMAIN d.server : d.server[s].type \in CandidateTypes(mode)}

Without(C, ds) == C \ Ids(ds)

MaxOf(S) == CHOOSE m \in S : \A n \in S : n <= m
MinOf(S) == CHOOSE m \in S : \A n \in S : m <= n

(* staleness_usec of a secondary, from the primary of the description or,  *)
(* without one, from the latest write any secondary of C has.              *)
Staleness(d, C, s) ==
  LET sd == d.server[s]
  IN IF Primaries(d) # {}
       THEN LET p == d.server[CHOOSE q \in Primaries(d) : TRUE]
            IN p.lastWrite + (sd.lastUpdate - p.lastUpdate) - sd.lastWrite + Heartbeat
       ELSE MaxOf({0} \cup {d.server[t].lastWrite : t \in Typed(d, C, "RSSecondary")})
              - sd.lastWrite + Heartbeat

FilterStale(d, o, C) ==
  IF o.staleness = NoMaxStaleness
    THEN C
    ELSE {s \in C : d.server[s].type = "RSSecondary" => Staleness(d, C, s) <= o.staleness}

(* The servers that match the first tag set any server matches.            *)
Matching(d, C, tagSet) == {s \in C : tagSet \subseteq d.server[s].tags}
FilterTags(d, o, C) ==
  LET found == {i \in DOMAIN o.tagSets : Matching(d, C, o.tagSets[i]) # {}}
  IN IF o.tagSets = <<>> THEN C
     ELSE IF found = {} THEN {}
     ELSE Matching(d, C, o.tagSets[MinOf(found)])

FilterByRtt(d, C) ==
  LET nearest == MinOf({d.server[s].rtt : s \in C})
  IN IF C = {} THEN {} ELSE {s \in C : d.server[s].rtt <= nearest + LocalThreshold}

----------------------------------------------------------------------------
(* One pass over the servers: what it appends to the set, and whether it   *)
(* is to be repeated without deprioritization.                             *)

FilterIsDone(S) == [set |-> S, done |-> TRUE]
RetryWithoutDeprioritization == [set |-> {}, done |-> FALSE]

FilterCandidates(d, o, ds, C) ==
  LET kept == FilterTags(d, o, FilterStale(d, o, Without(C, ds)))
  IN IF ds # NoList /\ kept = {}
       THEN RetryWithoutDeprioritization
       ELSE FilterIsDone(FilterByRtt(d, kept))

FilterPrimaryPreferred(d, o, ds) ==
  IF Without(Primaries(d), ds) # {}
    THEN FilterIsDone(Primaries(d))
    ELSE FilterCandidates(d, o, ds, Candidates(d, "primaryPreferred"))

(* Mutant: the fallback takes a deprioritized primary at once.            *)
FilterSecondaryPreferredAnyPrimary(d, o, ds) ==
  LET secondaries == FilterCandidates(d, o, ds, Candidates(d, "secondary")).set
  IN FilterIsDone(IF secondaries # {} THEN secondaries ELSE Primaries(d))

FilterSecondaryPreferred(d, o, ds) ==
  LET secondaries == FilterCandidates(d, o, ds, Candidates(d, "secondary")).set
  IN IF secondaries # {} THEN FilterIsDone(secondaries)
     ELSE IF Without(Primaries(d), ds) # {} THEN FilterIsDone(Primaries(d))
     ELSE IF ds # NoList THEN RetryWithoutDeprioritization
     ELSE FilterIsDone({})

FilterForReplicaSet(d, o, ds) ==
  LET mode == ReadMode(d, o)
  IN CASE o.optype = "write" ->
            FilterIsDone(IF d.type = "RSWithPrimary" THEN Primaries(d) ELSE {})
       [] o.optype # "write" /\ mode = "primary" -> FilterIsDone(Primaries(d))
       [] o.optype # "write" /\ mode = "primaryPreferred" -> FilterPrimaryPreferred(d, o, ds)
       [] o.optype # "write" /\ mode = "secondaryPreferred" -> FilterSecondaryPreferred(d, o, ds)
       [] o.optype # "write" /\ mode \in {"secondary", "nearest"} ->
            FilterCandidates(d, o, ds, Candidates(d, mode))

FilterForShardedCluster(d, ds) ==
  LET mongoses == Without(Typed(d, DOMAIN d.server, "Mongos"), ds)
  IN IF ds # NoList /\ mongoses = {}
       THEN RetryWithoutDeprioritization
       ELSE FilterIsDone(FilterByRtt(d, mongoses))

FilterByTopology(d, o, ds) ==
  CASE d.type \in ReplicaSetTypes -> FilterForReplicaSet(d, o, ds)
    [] d.type = "Sharded" -> FilterForShardedCluster(d, ds)
    [] d.type = "LoadBalanced" -> FilterIsDone(DOMAIN d.server)
    [] OTHER -> FilterIsDone({})

(* mongoc_topology_description_suitable_servers: a second pass appends to  *)
(* the same array.                                                         *)
SuitableServers(d, o) ==
  LET first == FilterByTopology(d, o, o.ds)
  IN first.set \cup (IF first.done THEN {} ELSE FilterByTopology(d, o, NoList).set)

(* mongoc_topology_description_select: the servers it may return.          *)
Selectable(d, o) ==
  IF d.type = "Single"
    THEN {s \in DOMAIN d.server : d.server[s].hello}
    ELSE SuitableServers(d, o)

(* *must_use_primary after it                                              *)
SelectMustUse(d, o) ==
  CASE d.type = "Single" -> mustUse \/ (o.optype = "aggregate" /\ AnyTooOld(d))
    [] d.type # "Single" /\ DOMAIN d.server = {} -> mustUse
    [] d.type # "Single" /\ DOMAIN d.server # {} -> MustUsePrimary(d, o)

----------------------------------------------------------------------------
(* mongoc_topology_select_server_id with a background thread               *)

NoDescription == [type |-> "Unknown", compatible |-> TRUE, server |-> <<>>]

SelectInit ==
  /\ phase = "idle"
  /\ op = None
  /\ td = NoDescription
  /\ chosen = None
  /\ mustUse = FALSE

Begin ==
  /\ phase = "idle"
  /\ phase' = "check"
  /\ op' \in Operations
  /\ UNCHANGED <<td, chosen, mustUse>>

(* Selects from d, else goes on at missed.                                 *)
Select(d, missed) ==
  /\ td' = d
  /\ mustUse' = SelectMustUse(d, op)
  /\ \/ \E s \in Selectable(d, op) : phase' = "selected" /\ chosen' = s
     \/ Selectable(d, op) = {} /\ phase' = missed /\ chosen' = None
  /\ UNCHANGED op

(* The descriptions mc_tpld_renew_ref may find.                            *)
Balanced == {d \in Descriptions : d.type = "LoadBalanced"}
Renewed == Descriptions \ Balanced

(* The loop starts with a new reference.                                   *)
Check ==
  /\ phase = "check"
  /\ \E d \in Renewed : Compatible(d, op) /\ Select(d, "missed")

CheckFails ==
  /\ phase = "check"
  /\ \E d \in Renewed : ~Compatible(d, op) /\ td' = d
  /\ phase' = "incompatible"
  /\ UNCHANGED <<op, chosen, mustUse>>

(* tpld_modification_mtx is taken; the reference is renewed under it.      *)
Lock ==
  /\ phase = "missed"
  /\ phase' = "locked"
  /\ td' = NoDescription
  /\ UNCHANGED <<op, chosen, mustUse>>

Recheck ==
  /\ phase = "locked"
  /\ \E d \in Renewed : Select(d, "asleep")

(* Woken before the timeout, the loop starts again.                        *)
Awake ==
  /\ phase = "asleep"
  /\ phase' = "check"
  /\ td' = NoDescription
  /\ UNCHANGED <<op, chosen, mustUse>>

(* _mongoc_topology_select_server_id_loadbalanced: a write, no preference, *)
(* no list, and mustUse is left as it is.                                  *)
BypassOp == [optype |-> "write", mode |-> "primary", staleness |-> NoMaxStaleness,
             tagSets |-> <<>>, ds |-> NoList]
Bypass ==
  /\ phase = "check"
  /\ \E d \in Balanced :
        /\ td' = d
        /\ \E s \in Selectable(d, BypassOp) : phase' = "selected" /\ chosen' = s
  /\ UNCHANGED <<op, mustUse>>

(* With a server, with an error, or with the timeout.                      *)
Return ==
  /\ phase \in {"selected", "incompatible", "asleep"}
  /\ phase' = "idle"
  /\ op' = None
  /\ td' = NoDescription
  /\ chosen' = None
  /\ mustUse' = FALSE

SelectNext ==
  \/ Begin \/ Check \/ CheckFails \/ Lock \/ Recheck \/ Awake \/ Bypass \/ Return

SelectSpec == SelectInit /\ [][SelectNext]_selectVars

----------------------------------------------------------------------------
(* What the comments of the code ask of a selection, by the definition of  *)
(* each read preference rather than by filters applied in turn.            *)

(* The secondary s is not too stale, judged by the primary or, without     *)
(* one, by every secondary of T.                                           *)
FreshEnough(d, o, T, s) ==
  LET behind(t) == d.server[t].lastWrite - d.server[s].lastWrite + Heartbeat
      later(t) == d.server[s].lastUpdate - d.server[t].lastUpdate
  IN IF Primaries(d) # {}
       THEN \A p \in Primaries(d) : behind(p) + later(p) <= o.staleness
       ELSE \A t \in Typed(d, T, "RSSecondary") : behind(t) <= o.staleness

(* The members of T of the given types that the preference allows: fresh,  *)
(* of the first tag set that some fresh one has, near the nearest of them. *)
Allowed(d, o, T, types) ==
  LET fresh == {s \in T : /\ d.server[s].type \in types
                          /\ \/ o.staleness = NoMaxStaleness
                             \/ d.server[s].type = "RSPrimary"
                             \/ FreshEnough(d, o, T, s)}
      has(s, i) == o.tagSets[i] \subseteq d.server[s].tags
      tagged == {s \in fresh : o.tagSets # <<>> =>
                   \E i \in DOMAIN o.tagSets :
                     has(s, i) /\ \A t \in fresh : \A j \in 1 .. i - 1 : ~has(t, j)}
  IN {s \in tagged : \A t \in tagged : d.server[s].rtt <= d.server[t].rtt + LocalThreshold}

OrElse(S, T) == IF S # {} THEN S ELSE T

(* The servers of T that suit o.                                           *)
SuitableAmong(d, o, T) ==
  LET primary == Primaries(d) \cap T
      secondaries == Allowed(d, o, T, {"RSSecondary"})
      onlyPrimary == \/ o.optype = "write" \/ o.mode = "primary"
                     \/ o.optype = "aggregate" /\ AnyTooOld(d)
  IN CASE d.type = "Single" -> {s \in T : d.server[s].hello}
       [] d.type = "Sharded" ->
            LET mongoses == Typed(d, T, "Mongos")
            IN {s \in mongoses : \A t \in mongoses :
                  d.server[s].rtt <= d.server[t].rtt + LocalThreshold}
       [] d.type \in ReplicaSetTypes ->
            IF onlyPrimary THEN primary
            ELSE (CASE o.mode = "primaryPreferred" -> OrElse(primary, secondaries)
                    [] o.mode = "secondaryPreferred" -> OrElse(secondaries, primary)
                    [] o.mode = "secondary" -> secondaries
                    [] o.mode = "nearest" -> Allowed(d, o, T, {"RSPrimary", "RSSecondary"}))
       [] OTHER -> {}

(* "If there are no suitable servers, perform the previous step again      *)
(* without filtering out deprioritized servers."                           *)
Specified(d, o) ==
  OrElse(SuitableAmong(d, o, Without(DOMAIN d.server, o.ds)),
         SuitableAmong(d, o, DOMAIN d.server))

Judged == /\ phase \in {"selected", "missed", "asleep"}
          /\ td.type # "LoadBalanced"
          /\ Compatible(td, op)

(* The filters of mongoc_topology_description_suitable_servers, in their   *)
(* two passes, leave exactly the servers the read preference allows: those *)
(* outside the deprioritized list if any of them suits, else any; and the  *)
(* selection fails only if there is none.                                  *)
SelectedAsSpecified ==
  Judged =>
    /\ Selectable(td, op) = Specified(td, op)
    /\ IF phase = "selected" THEN chosen \in Specified(td, op) ELSE Specified(td, op) = {}

(* A maxStalenessSeconds that mongoc_topology_compatible has accepted can  *)
(* never exclude the secondary with the latest write: in a replica set     *)
(* without a primary a read from secondaries that names no tags succeeds   *)
(* as soon as one secondary is known, deprioritized or not.                *)
FreshestSuits ==
  Judged /\ phase # "selected" =>
    ~ /\ td.type \in ReplicaSetTypes /\ Primaries(td) = {}
      /\ op.optype = "read" /\ op.mode # "primary" /\ op.tagSets = <<>>
      /\ Typed(td, DOMAIN td.server, "RSSecondary") # {}

(* While a server before 5.0 is known, the caller of a selection for an    *)
(* aggregate that writes is told to ask for the primary, and no secondary  *)
(* is selected for it (_must_use_primary).                                 *)
OldServersLimitAggregates ==
  phase = "selected" /\ op.optype = "aggregate" /\ AnyTooOld(td) =>
    /\ td.type # "LoadBalanced" => mustUse
    /\ td.type \in ReplicaSetTypes => td.server[chosen].type = "RSPrimary"
=============================================================================
