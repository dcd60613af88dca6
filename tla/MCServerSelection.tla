------------------------- MODULE MCServerSelection -------------------------
EXTENDS ServerSelection, TLC

CONSTANTS s1, s2, s3, x

(* A server as it is before its first reply, changed by f.                 *)
SD(f) == f @@ [type |-> "Unknown", rtt |-> Unset, lastWrite |-> -1, lastUpdate |-> 1,
               tags |-> {}, wire |-> 0, hello |-> FALSE]
Known(f) == SD(f @@ [wire |-> 1, hello |-> TRUE, rtt |-> 0])

Unknown == SD([type |-> "Unknown"])
Possible == SD([type |-> "PossiblePrimary"])
RSPrimaries == {Known([type |-> "RSPrimary", lastWrite |-> 4, rtt |-> 2, tags |-> {x}]),
                Known([type |-> "RSPrimary", lastWrite |-> 4, lastUpdate |-> 2])}
RSSecondaries ==
  {Known([type |-> "RSSecondary", lastWrite |-> 4, rtt |-> r, tags |-> g]) :
     r \in {0, 2}, g \in {{}, {x}}}
  \cup {Known([type |-> "RSSecondary", lastWrite |-> 2, tags |-> g]) : g \in {{}, {x}}}
  \cup {Known([type |-> "RSSecondary", lastWrite |-> 3, rtt |-> 1]),
        Known([type |-> "RSSecondary", lastWrite |-> 4, rtt |-> Unset, tags |-> {x}]),
        Known([type |-> "RSSecondary", lastWrite |-> 4, rtt |-> 1, wire |-> 0]),
        Known([type |-> "RSSecondary"])}
Mongoses == {Known([type |-> "Mongos", rtt |-> r]) : r \in {Unset, 0, 1, 2}}
            \cup {Known([type |-> "Mongos", wire |-> 0])}

Over(S, records) == UNION {[D -> records] : D \in SUBSET S}
Type(f) == IF \E s \in DOMAIN f : f[s].type = "RSPrimary" THEN "RSWithPrimary" ELSE "RSNoPrimary"
D(type, f) == [type |-> type, compatible |-> TRUE, server |-> f]

ReplicaSets ==
  {D(Type(f), f) : f \in {g \in Over(Servers, RSPrimaries \cup RSSecondaries \cup {Unknown, Possible}) :
                           \A s, t \in DOMAIN g : g[s].type = "RSPrimary" =>
                             g[t].type # "PossiblePrimary" /\ (g[t].type = "RSPrimary" => s = t)}}
Others ==
  {D("RSWithPrimary", f) :
     f \in Over(Servers, {Unknown, Known([type |-> "RSSecondary", lastWrite |-> 4])})}
  \cup
  {D("Sharded", f) : f \in Over(Servers, Mongoses \cup {Unknown})}
  \cup {D("Unknown", f) : f \in Over(Servers, {Unknown})}
  \cup {D("Single", [s \in {n} |-> r]) : n \in Servers, r \in RSPrimaries \cup Mongoses \cup {Unknown}}
  \cup {D("LoadBalanced", [s \in {n} |-> Known([type |-> "LoadBalancer"])]) : n \in Servers}
  \cup {[D("Sharded", [s \in {n} |-> m]) EXCEPT !.compatible = FALSE] : n \in Servers, m \in Mongoses}

MCDescriptions == ReplicaSets \cup Others

Op(type, mode, staleness, tagSets, ds) ==
  [optype |-> type, mode |-> mode, staleness |-> staleness, tagSets |-> tagSets, ds |-> ds]
Lists == {NoList} \cup {List(ids) : ids \in SUBSET Servers}
MCOperations ==
  {Op("read", m, y, g, l) : m \in Modes \ {"primary"}, y \in {NoMaxStaleness, 1, 3},
                            g \in {<<>>, <<{x}>>, <<{x}, {}>>}, l \in Lists}
  \cup {Op("aggregate", m, NoMaxStaleness, <<>>, l) : m \in {"secondary", "secondaryPreferred"}, l \in Lists}
  \cup {Op(t, "primary", NoMaxStaleness, <<>>, l) : t \in {"read", "write"}, l \in Lists}

Symmetry == Permutations(Servers)
=============================================================================
