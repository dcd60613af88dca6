--------------------------- MODULE ConnectionPool ---------------------------
(***************************************************************************)
(* The connections of pooled clients and the errors they meet: how a       *)
(* client finds or opens a connection to a server, what a failed command   *)
(* does to the topology description, and how that races with the monitors. *)
(*                                                                         *)
(* A connection carries the generation of the server's pool that it was    *)
(* opened in; clearing the pool raises the generation.  An update of the   *)
(* description is one step (it holds tpld_modification_mtx); between the   *)
(* steps of a client the description moves on, so its checks are repeated  *)
(* on the copy it modifies.                                                *)
(***************************************************************************)
EXTENDS TopologyDescription

CONSTANTS Clients,        \* clients popped from the pool, one per thread
          InitialType,    \* the type of the topology
          SetName,        \* the replica set of the connection string
          Replies,        \* Replies[a]: hello replies, without topologyVersion
          None,           \* no connection, no reply, no error
          Failed,         \* what a failed check of a monitor returns
          MaxGeneration,  \* bound on how often a pool is cleared
          MaxChanges,     \* bound on the state changes of a server process
          MaxProcesses,   \* bound on the processes of a server
          MaxServerId     \* bound on the servers that are monitored and used

ASSUME BoundsAssumption ==
  /\ MaxGeneration \in Nat /\ MaxChanges \in Nat
  /\ MaxProcesses \in Nat \ {0} /\ MaxServerId \in Nat

(* What a hello reply says.                                                *)
IsHello(h) ==
  h = [parses |-> h.parses, isdbgrid |-> h.isdbgrid, setName |-> h.setName,
       role |-> h.role, hosts |-> h.hosts, me |-> h.me, primary |-> h.primary,
       electionId |-> h.electionId, setVersion |-> h.setVersion,
       wire |-> h.wire, timeout |-> h.timeout, tv |-> h.tv]

ASSUME RepliesAssumption ==
  \A a \in Addresses : \A h \in Replies[a] :
    IsHello(h) /\ h.hosts \subseteq Addresses

Ids == 1 .. MaxServerId
Versions == [processId : 1 .. MaxProcesses, counter : 0 .. MaxChanges]
StateChangeErrors == {"notPrimary", "shutdown"}

VARIABLES
  td,       \* the published topology description
  server,   \* server[a]: the topologyVersion of the server process
  monitor,  \* monitor[id]: the monitor of a server: what it has to apply
  pc,       \* pc[c]: the next step of client c
  snap,     \* snap[c]: the pool generation in the description c has a
            \*   reference to
  conn,     \* conn[c]: the connection c is opening or using
  hello,    \* hello[c]: the handshake reply c has to apply
  error,    \* error[c]: the error c has to handle
  nodes,    \* nodes[c][id]: the connections c keeps, cluster->nodes
  clears    \* clears[id][g]: how often errors of connections of generation g
            \*   cleared the pool (history)

vars == <<td, server, monitor, pc, snap, conn, hello, error, nodes, clears>>

(* _mongoc_topology_get_connection_pool_generation                         *)
Generation(id) == IF HasId(td, id) THEN ServerById(td, id).generation ELSE 0

Init ==
  /\ td = NewTopology(InitialType, SetName, Addresses)
  /\ server = [a \in Addresses |-> [processId |-> 1, counter |-> 0]]
  /\ monitor = [id \in Ids |-> None]
  /\ pc = [c \in Clients |-> "idle"]
  /\ snap = [c \in Clients |-> 0]
  /\ conn = [c \in Clients |-> None]
  /\ hello = [c \in Clients |-> None]
  /\ error = [c \in Clients |-> None]
  /\ nodes = [c \in Clients |-> [id \in Ids |-> None]]
  /\ clears = [id \in Ids |-> [g \in 0 .. MaxGeneration |-> 0]]

Goto(c, label) == pc' = [pc EXCEPT ![c] = label]
Disconnect(c, id) == nodes' = [nodes EXCEPT ![c] = [@ EXCEPT ![id] = None]]

(* The client is done with the connection and with the description.        *)
Release(c) ==
  /\ conn' = [conn EXCEPT ![c] = None]
  /\ snap' = [snap EXCEPT ![c] = 0]
  /\ Goto(c, "idle")

(* The bound: no connection is opened, and no check fails, in the last     *)
(* generation, so whoever clears the pool does so below it.                *)
Clearable(id) == Generation(id) < MaxGeneration

----------------------------------------------------------------------------
(* The servers: a state change raises the counter of topologyVersion, a    *)
(* restart has a new processId.                                            *)
ServerChange(a) ==
  /\ server[a].counter < MaxChanges
  /\ server' = [server EXCEPT ![a].counter = @ + 1]
  /\ UNCHANGED <<td, monitor, pc, snap, conn, hello, error, nodes, clears>>

ServerRestart(a) ==
  /\ server[a].processId < MaxProcesses
  /\ server' = [server EXCEPT ![a] =
       [processId |-> @.processId + 1, counter |-> 0]]
  /\ UNCHANGED <<td, monitor, pc, snap, conn, hello, error, nodes, clears>>

WithTv(a, h) == [h EXCEPT !.tv = server[a]]

(* The monitor of a server: a reply is received, then applied.  A failed   *)
(* check and a reply that does not parse clear the pool first.             *)
MonitorReply(id) ==
  /\ monitor[id] = None
  /\ HasId(td, id)
  /\ \E h \in Replies[AddressOf(td, id)] :
       /\ h.parses
       /\ monitor' = [monitor EXCEPT ![id] = WithTv(AddressOf(td, id), h)]
  /\ UNCHANGED <<td, server, pc, snap, conn, hello, error, nodes, clears>>

MonitorFails(id) ==
  /\ monitor[id] = None
  /\ HasId(td, id) /\ Clearable(id)
  /\ LET a == AddressOf(td, id)
     IN  \E r \in {Failed} \cup
                 {WithTv(a, h) : h \in {g \in Replies[a] : ~g.parses}} :
           monitor' = [monitor EXCEPT ![id] = r]
  /\ td' = ClearConnectionPool(td, id)
  /\ UNCHANGED <<server, pc, snap, conn, hello, error, nodes, clears>>

MonitorUpdate(id) ==
  /\ monitor[id] # None
  /\ td' = IF monitor[id] = Failed THEN HandleError(td, id)
                                     ELSE HandleHello(td, id, monitor[id])
  /\ monitor' = [monitor EXCEPT ![id] = None]
  /\ UNCHANGED <<server, pc, snap, conn, hello, error, nodes, clears>>

----------------------------------------------------------------------------
(* _cluster_fetch_stream_pooled: takes a reference on the description and  *)
(* reuses the connection the client has unless the pool was cleared; else  *)
(* drops it and opens another, if the server is still known.               *)
Fetch(c, id) ==
  LET old == nodes[c][id]
      valid == old # None /\ HasId(td, id) /\ old.generation >= Generation(id)
  IN  /\ pc[c] = "idle"
      /\ \/ /\ valid
            /\ snap' = [snap EXCEPT ![c] = Generation(id)]
            /\ conn' = [conn EXCEPT ![c] = old]
            /\ Goto(c, "use")
            /\ UNCHANGED nodes
         \/ /\ ~valid /\ HasId(td, id) /\ Clearable(id)
            /\ snap' = [snap EXCEPT ![c] = Generation(id)]
            /\ conn' = [conn EXCEPT ![c] =
                 [id |-> id, generation |-> 0, opened |-> 0]]
            /\ Goto(c, "connect")
            /\ Disconnect(c, id)
         \/ /\ ~HasId(td, id)
            /\ Disconnect(c, id)
            /\ UNCHANGED <<snap, conn, pc>>
      /\ UNCHANGED <<td, server, monitor, hello, error, clears>>

(* _mongoc_client_create_stream; opened is the pool generation at this     *)
(* moment (history).                                                       *)
Connect(c) ==
  /\ pc[c] = "connect"
  /\ conn' = [conn EXCEPT ![c] = [@ EXCEPT !.opened = Generation(conn[c].id)]]
  /\ Goto(c, "handshake")
  /\ UNCHANGED <<td, server, monitor, snap, hello, error, nodes, clears>>

(* _handle_network_error_connecting: a DNS error marks the server Unknown  *)
(* and clears the pool, any other error is left to the monitor.            *)
ConnectFails(c, dns) ==
  LET id == conn[c].id
  IN  /\ pc[c] = "connect"
      /\ IF dns /\ HasId(td, id)
           THEN /\ Clearable(id)
                /\ td' = ClearConnectionPool(
                           InvalidateServer(td, AddressOf(td, id)), id)
           ELSE UNCHANGED td
      /\ Disconnect(c, id)
      /\ Release(c)
      /\ UNCHANGED <<server, monitor, hello, error, clears>>

(* _stream_run_hello: the reply is received, then applied.  The connection *)
(* is given up if the server was removed or the reply does not parse.  A   *)
(* network error of the handshake has the label SystemOverloadedError and  *)
(* changes nothing.                                                        *)
HandshakeReply(c) ==
  /\ pc[c] = "handshake"
  /\ HasId(td, conn[c].id)
  /\ LET a == AddressOf(td, conn[c].id)
     IN  \E h \in Replies[a] : hello' = [hello EXCEPT ![c] = WithTv(a, h)]
  /\ Goto(c, "update")
  /\ UNCHANGED <<td, server, monitor, snap, conn, error, nodes, clears>>

HandshakeFails(c) ==
  /\ pc[c] \in {"handshake", "auth"}
  /\ Release(c)
  /\ UNCHANGED <<td, server, monitor, hello, error, nodes, clears>>

HandshakeUpdate(c) ==
  /\ pc[c] = "update"
  /\ td' = HandleHello(td, conn[c].id, hello[c])
  /\ hello' = [hello EXCEPT ![c] = None]
  /\ IF HasId(td', conn[c].id) /\ hello[c].parses
       THEN Goto(c, "auth") /\ UNCHANGED <<conn, snap>>
       ELSE Release(c)
  /\ UNCHANGED <<server, monitor, error, nodes, clears>>

(* Mutant: the connection is labelled with the generation of the latest    *)
(* description.                                                            *)
AddNodeLatest(c) ==
  LET node == [conn[c] EXCEPT !.generation = Generation(conn[c].id)]
  IN  /\ pc[c] = "auth"
      /\ nodes' = [nodes EXCEPT ![c] = [@ EXCEPT ![conn[c].id] = node]]
      /\ conn' = [conn EXCEPT ![c] = node]
      /\ Goto(c, "use")
      /\ UNCHANGED <<td, server, monitor, snap, hello, error, clears>>

(* _cluster_add_node after the authentication: only now is the connection  *)
(* given the pool generation of the description the client holds, and      *)
(* kept.                                                                   *)
AddNode(c) ==
  LET id == conn[c].id
      node == [conn[c] EXCEPT !.generation = snap[c]]
  IN  /\ pc[c] = "auth"
      /\ nodes' = [nodes EXCEPT ![c] = [@ EXCEPT ![id] = node]]
      /\ conn' = [conn EXCEPT ![c] = node]
      /\ Goto(c, "use")
      /\ UNCHANGED <<td, server, monitor, snap, hello, error, clears>>

----------------------------------------------------------------------------
(* A command on the connection succeeds, or fails with a network error, a  *)
(* timeout or a state change error that carries the topologyVersion.  A    *)
(* command of the authentication fails the same way.                       *)
CommandDone(c) ==
  /\ pc[c] = "use"
  /\ Release(c)
  /\ UNCHANGED <<td, server, monitor, hello, error, nodes, clears>>

CommandFails(c, kind) ==
  LET id == conn[c].id
      tv == IF kind \in StateChangeErrors /\ HasId(td, id)
              THEN server[AddressOf(td, id)] ELSE NoTv
  IN  /\ pc[c] \in {"auth", "use"}
      /\ error' = [error EXCEPT ![c] = [kind |-> kind, tv |-> tv]]
      /\ Goto(c, "check")
      /\ UNCHANGED <<td, server, monitor, snap, conn, hello, nodes, clears>>

(* The conditions under which an error is ignored, in the description the  *)
(* client reads and again in the copy it modifies.                         *)
Ignored(c) ==
  \/ ~HasId(td, conn[c].id)
  \/ conn[c].generation < Generation(conn[c].id)
  \/ error[c].kind = "timeout"
  \/ /\ error[c].kind \in StateChangeErrors
     /\ TopologyVersionCmp(ServerById(td, conn[c].id).tv, error[c].tv) >= 0

(* The end of the handling: the connection is closed after a network error *)
(* and when the pool was cleared.                                          *)
FinishError(c, cleared) ==
  /\ IF cleared \/ error[c].kind \notin StateChangeErrors
       THEN Disconnect(c, conn[c].id) ELSE UNCHANGED nodes
  /\ Release(c)
  /\ error' = [error EXCEPT ![c] = None]

(* _mongoc_topology_handle_app_error, the checks without the lock.         *)
AppErrorCheck(c) ==
  /\ pc[c] = "check"
  /\ IF Ignored(c) THEN FinishError(c, FALSE)
     ELSE Goto(c, "apply") /\ UNCHANGED <<conn, snap, error, nodes>>
  /\ UNCHANGED <<td, server, monitor, hello, clears>>

(* What an error that counts does: the topologyVersion of the reply is     *)
(* stored, the pool is cleared unless the server only stepped down, and    *)
(* the server is Unknown.                                                  *)
HandleAppError(c) ==
  LET id == conn[c].id
      a == AddressOf(td, id)
      clear == error[c].kind # "notPrimary"
      stored == IF error[c].kind \in StateChangeErrors
                  THEN SetServer(td, a,
                         [ServerById(td, id) EXCEPT !.tv = error[c].tv])
                  ELSE td
  IN  /\ td' = InvalidateServer(
                 IF clear THEN ClearConnectionPool(stored, id) ELSE stored, a)
      /\ clears' = IF clear
           THEN [clears EXCEPT ![id][conn[c].generation] = @ + 1]
           ELSE clears
      /\ FinishError(c, clear)

(* Mutant: the conditions are not checked again under the lock.            *)
AppErrorApplyUnchecked(c) ==
  /\ pc[c] = "apply"
  /\ IF ~HasId(td, conn[c].id)
       THEN UNCHANGED <<td, clears>> /\ FinishError(c, FALSE)
       ELSE HandleAppError(c)
  /\ UNCHANGED <<server, monitor, hello>>

(* _mongoc_topology_handle_app_error and _handle_sdam_app_error_command,   *)
(* from mc_tpld_modify_begin on.                                           *)
AppErrorApply(c) ==
  /\ pc[c] = "apply"
  /\ IF Ignored(c)
       THEN UNCHANGED <<td, clears>> /\ FinishError(c, FALSE)
       ELSE HandleAppError(c)
  /\ UNCHANGED <<server, monitor, hello>>

----------------------------------------------------------------------------
Servers == \E a \in Addresses : ServerChange(a) \/ ServerRestart(a)

Monitors == \E id \in Ids : \/ MonitorReply(id) \/ MonitorUpdate(id)
                            \/ MonitorFails(id)

Client(c) ==
  \/ \E id \in Ids : Fetch(c, id)
  \/ Connect(c)
  \/ \E dns \in BOOLEAN : ConnectFails(c, dns)
  \/ HandshakeReply(c) \/ HandshakeFails(c) \/ HandshakeUpdate(c)
  \/ AddNode(c) \/ CommandDone(c)
  \/ \E kind \in {"network", "timeout"} \cup StateChangeErrors :
       CommandFails(c, kind)
  \/ AppErrorCheck(c) \/ AppErrorApply(c)

Next == Servers \/ Monitors \/ \E c \in Clients : Client(c)

Spec == Init /\ [][Next]_vars

----------------------------------------------------------------------------
Labels == {"idle", "connect", "handshake", "update", "auth", "use", "check",
           "apply"}
Connections == [id : Ids, generation : 0 .. MaxGeneration,
                opened : 0 .. MaxGeneration]
Errors == [kind : {"network", "timeout"} \cup StateChangeErrors,
           tv : Versions \cup {NoTv}]

(* Type invariant; a client that is not idle has a connection, and only    *)
(* one that met an error has one to handle.                                *)
TypeOK ==
  /\ \A c \in Clients :
       /\ pc[c] \in Labels
       /\ snap[c] \in 0 .. MaxGeneration
       /\ IF pc[c] = "idle" THEN conn[c] = None ELSE conn[c] \in Connections
       /\ IF pc[c] \in {"check", "apply"} THEN error[c] \in Errors
                                         ELSE error[c] = None
       /\ IF pc[c] = "update" THEN IsHello(hello[c]) ELSE hello[c] = None
       /\ \A id \in Ids : nodes[c][id] \in Connections \cup {None}
  /\ \A id \in Ids : Generation(id) \in 0 .. MaxGeneration

(* A command is never sent on a connection that was opened before the pool *)
(* was cleared, as far as the client can know: every clear in the          *)
(* description the client holds came before the connection was opened, and *)
(* the generation a kept connection claims is one in which it was open, so *)
(* a later clear does discard it.                                          *)
ConnectionFresh ==
  \A c \in Clients :
    /\ pc[c] = "use" => conn[c].opened >= snap[c]
    /\ \A id \in Ids : nodes[c][id] # None =>
         nodes[c][id].generation <= nodes[c][id].opened

(* However many connections of a generation fail at once, their errors     *)
(* clear the pool and mark the server Unknown only once: the check is      *)
(* repeated on the copy that is modified.                                  *)
OneClearPerGeneration ==
  \A id \in Ids, g \in 0 .. MaxGeneration : clears[id][g] <= 1

(* What is known of a server never goes back to an older state of the same *)
(* server process, whichever of monitor, handshake and command reports it  *)
(* late.                                                                   *)
TopologyVersionAdvances ==
  [][\A id \in Ids :
       HasId(td, id) /\ HasId(td', id) =>
         TopologyVersionCmp(ServerById(td, id).tv, ServerById(td', id).tv) <= 0
    ]_vars
=============================================================================
