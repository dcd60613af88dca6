--------------------------- MODULE PooledClients ----------------------------
(***************************************************************************)
(* Threads that share a client pool and its server sessions: a thread uses *)
(* sessions only while it holds a client, and mongoc_client_pool_destroy   *)
(* runs once every client is back.                                         *)
(***************************************************************************)
EXTENDS ClientPool, ServerSessionPool

VARIABLE destroy  \* mongoc_client_pool_destroy: its step, and its thread

vars == <<poolVars, sessionVars, destroy>>

Init ==
  /\ PoolInit
  /\ SessionInit
  /\ destroy = [pc |-> "no", by |-> None]

Running == destroy.pc = "no"
DestroyAt(label) == destroy' = [destroy EXCEPT !.pc = label]

UsePool ==
  /\ Running
  /\ \/ \E t \in Threads : ThreadStep(t) \/ (pc[t] = "idle" /\ Push(t))
     \/ \E m \in PoolSizes : MaxSize(m)
  /\ UNCHANGED <<sessionVars, destroy>>

UseSessions ==
  /\ Running
  /\ \E t \in Threads : at[t] = "holding" /\ SessionStep(t)
  /\ UNCHANGED <<poolVars, destroy>>

(* The monitors and the clock go on until the topology is destroyed.       *)
Background ==
  /\ destroy.pc # "done"
  /\ \/ ChangeServers /\ UNCHANGED sessionVars
     \/ (Tick \/ ChangeTimeout) /\ UNCHANGED poolVars
  /\ UNCHANGED destroy

(* The first thing destroy asks is whether there are sessions to end.      *)
DestroyBegin(t) ==
  /\ Running
  /\ \A u \in Threads : at[u] = "outside"
  /\ destroy' = [pc |-> IF size # 0 THEN "pop" ELSE "clients", by |-> t]
  /\ UNCHANGED <<poolVars, sessionVars>>

DestroyPop ==
  /\ destroy.pc = "pop"
  /\ Pop(destroy.by)
  /\ IF at'[destroy.by] = "holding"
     THEN EndBegin(destroy.by) /\ DestroyAt("sessions")
     ELSE UNCHANGED <<sessionVars, destroy>>

(* _mongoc_client_end_sessions; a network error closes the connection.     *)
DestroySessions ==
  /\ destroy.pc = "sessions"
  /\ EndStep(destroy.by)
  /\ \/ UNCHANGED poolVars
     \/ pc[destroy.by] = "end_send" /\ Disconnect(destroy.by)
  /\ UNCHANGED destroy

DestroyPush ==
  /\ destroy.pc = "sessions" /\ pc[destroy.by] = "idle"
  /\ Push(destroy.by)
  /\ DestroyAt("clients")
  /\ UNCHANGED sessionVars

(* The clients of the queue go, and with the topology the sessions left.   *)
DestroyClients ==
  /\ destroy.pc = "clients"
  /\ queue' = <<>>
  /\ pool_size' = pool_size - Len(queue)
  /\ nodes' = [c \in Clients |-> IF c \in Idle THEN {} ELSE nodes[c]]
  /\ head' = <<>> /\ size' = 0
  /\ session' = [s \in Sessions |-> IF s \in Listed THEN Freed
                                                    ELSE session[s]]
  /\ DestroyAt("done")
  /\ UNCHANGED <<max_pool_size, last_known_serverids, at, client, selected,
                 servers, last_id, pc, node, ended, now, timeout>>

Terminated == destroy.pc = "done" /\ UNCHANGED vars

Next ==
  \/ UsePool \/ UseSessions \/ Background
  \/ \E t \in Threads : DestroyBegin(t)
  \/ DestroyPop \/ DestroySessions \/ DestroyPush \/ DestroyClients
  \/ Terminated

Spec == Init /\ [][Next]_vars

(* Once it is called, destroy goes on.                                     *)
FairSpec ==
  /\ Spec
  /\ WF_vars(DestroyPop) /\ WF_vars(DestroySessions)
  /\ WF_vars(DestroyPush) /\ WF_vars(DestroyClients)

----------------------------------------------------------------------------
(* The type invariant of the composition.                                  *)
TypeOK ==
  /\ PoolTypeOK
  /\ SessionTypeOK
  /\ destroy \in [pc : {"no", "pop", "sessions", "clients", "done"},
                  by : Threads \cup {None}]

(* The pop in mongoc_client_pool_destroy never waits, which would be for   *)
(* ever, nor returns NULL, which end_sessions does not expect: a session   *)
(* is in the pool only if some client came back.                           *)
DestroyFindsClient == destroy.pc = "pop" => queue # <<>>

(* After destroy no client holds a connection, every client is destroyed   *)
(* and every server session freed.                                         *)
NothingLeft ==
  destroy.pc = "done" =>
    /\ \A c \in Clients : nodes[c] = {}
    /\ pool_size = 0
    /\ \A s \in Sessions : session[s].life # "live"

(* mongoc_client_pool_destroy returns: the loops of end_sessions, which go *)
(* by the counter, come to an end.                                         *)
DestroyReturns == (destroy.pc # "no") ~> (destroy.pc = "done")
============================================================================
