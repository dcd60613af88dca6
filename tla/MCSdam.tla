------------------------------- MODULE MCSdam -------------------------------
(* Instance of Sdam for TLC: a replica set of three hosts, of which one    *)
(* may be reconfigured away, and strangers that answer at their addresses. *)
EXTENDS Sdam, TLC

CONSTANTS a1, a2, a3  \* the addresses

MCAddresses == {a1, a2, a3}

Reply == [parses |-> TRUE, isdbgrid |-> FALSE, setName |-> NoName,
          role |-> "none", hosts |-> {}, me |-> NoAddress,
          primary |-> NoAddress, electionId |-> 0,
          setVersion |-> NoSetVersion, wire |-> "post6", timeout |-> 30,
          tv |-> NoTv]

Member(role, hosts) ==
  [Reply EXCEPT !.setName = "rs", !.role = role, !.hosts = hosts]

(* A server claims to be primary in its own election, or in none; its term *)
(* and its configuration are not ordered the same way.                     *)
Claims == (a1 :> <<1, 2>>) @@ (a2 :> <<2, 1>>) @@ (a3 :> <<2, 2>>)

PrimaryReplies(a, wires) ==
  {[Member("primary", hosts) EXCEPT !.electionId = Claims[a][1],
      !.setVersion = Claims[a][2], !.wire = wire] :
     hosts \in {MCAddresses, {a1, a2}}, wire \in wires}
    \cup {[Member("primary", MCAddresses) EXCEPT !.wire = wire] :
            wire \in wires \cap {"pre6"}}

OtherReplies(a) ==
  {Member("secondary", MCAddresses),
   [Member("secondary", MCAddresses) EXCEPT !.primary = a2],
   [Member("secondary", {a1, a2}) EXCEPT !.me = a1],
   Reply}

StrangerReplies(wire) ==
  {[Member("primary", {a3}) EXCEPT !.setName = "other", !.wire = wire],
   [Reply EXCEPT !.role = "isreplicaset"],
   [Reply EXCEPT !.isdbgrid = TRUE, !.wire = "tooNew"],
   [Reply EXCEPT !.parses = FALSE]}

(* The servers run releases all since 6.0 ("post6") or all before ("pre6"). *)
MCHellos == [d \in Deployments |-> [a \in MCAddresses |->
  PrimaryReplies(a, {d}) \cup OtherReplies(a)
    \cup IF a = a3 THEN StrangerReplies(d) ELSE {}]]

MCInitialTopologies ==
  {[type |-> "Unknown", setName |-> NoName, seeds |-> {a1, a3}],
   [type |-> "Single", setName |-> "rs", seeds |-> {a3}],
   [type |-> "RSNoPrimary", setName |-> "rs", seeds |-> {a1, a3}]}
=============================================================================
