----------------------------- MODULE ClientPool -----------------------------
(***************************************************************************)
(* mongoc_client_pool_t: threads pop a client, wait for one when the pool  *)
(* is at its limit, and push it back.  A client keeps a connection per     *)
(* server id it talked to; a push closes those of servers that left the    *)
(* topology description.                                                   *)
(*                                                                         *)
(* pop, try_pop, push and max_size run under pool->mutex, which only the   *)
(* wait for pool->cond releases: each is one step up to its wait.          *)
(***************************************************************************)
EXTENDS Naturals, Sequences, ApplicationThreads

CONSTANTS Clients,          \* the clients that can be created: a bound
          MaxServerId,      \* bound on the ids given to servers
          PoolSizes,        \* maxPoolSize, and arguments of max_size
          WaitQueueTimeout, \* waitQueueTimeoutMS is positive
          None

ASSUME PoolAssumption ==
  /\ IsFiniteSet(Clients)
  /\ None \notin Clients
  /\ MaxServerId \in Nat \ {0}
  /\ PoolSizes \subseteq 0 .. Cardinality(Clients)
  /\ \E m \in PoolSizes : m > 0
  /\ WaitQueueTimeout \in BOOLEAN

ServerIds == 1 .. MaxServerId

VARIABLES
  queue,                  \* idle clients, the head first
  pool_size,              \* pool->size: clients created
  max_pool_size,
  last_known_serverids,
  at,        \* at[t]: "outside", "asleep" or "woken" in pop, or "holding"
  client,    \* client[t]: the client t holds, or None
  selected,  \* selected[t]: the server t is about to connect to, or 0
  nodes,     \* nodes[c]: the server ids c's cluster has connections to
  servers,   \* the server ids of the published topology description
  last_id    \* the greatest id given to a server

poolVars == <<queue, pool_size, max_pool_size, last_known_serverids,
              at, client, selected, nodes, servers, last_id>>

PoolInit ==
  /\ queue = <<>>
  /\ pool_size = 0
  /\ max_pool_size \in PoolSizes \ {0}
  /\ last_known_serverids = {}
  /\ at = [t \in Threads |-> "outside"]
  /\ client = [t \in Threads |-> None]
  /\ selected = [t \in Threads |-> 0]
  /\ nodes = [c \in Clients |-> {}]
  /\ servers = {1}
  /\ last_id = 1

Idle == {queue[i] : i \in 1 .. Len(queue)}
InUse == {client[t] : t \in Threads} \ {None}
Holders == {t \in Threads : at[t] = "holding"}
Sleepers == {t \in Threads : at[t] = "asleep"}
Woken == {t \in Threads : at[t] = "woken"}

----------------------------------------------------------------------------
(* Mutant: a new client is not counted.                                    *)
TakeNewUncounted(t) ==
  /\ queue = <<>> /\ pool_size < max_pool_size
  /\ \E c \in Clients \ (Idle \cup InUse) :
       client' = [client EXCEPT ![t] = c]
  /\ at' = [at EXCEPT ![t] = "holding"]
  /\ UNCHANGED <<queue, pool_size>>

(* A client from the queue, or a new one below the limit.                  *)
TakeIdle(t) ==
  /\ queue # <<>>
  /\ client' = [client EXCEPT ![t] = Head(queue)]
  /\ queue' = Tail(queue)
  /\ at' = [at EXCEPT ![t] = "holding"]
  /\ UNCHANGED pool_size

TakeNew(t) ==
  /\ queue = <<>> /\ pool_size < max_pool_size
  /\ \E c \in Clients \ (Idle \cup InUse) :
       client' = [client EXCEPT ![t] = c]
  /\ pool_size' = pool_size + 1
  /\ at' = [at EXCEPT ![t] = "holding"]
  /\ UNCHANGED queue

Take(t) == TakeIdle(t) \/ TakeNew(t)
NoneAvailable == queue = <<>> /\ pool_size >= max_pool_size

(* mongoc_client_pool_pop, from its start or after a wait: without a       *)
(* client it waits, or gives up when its time is over.                     *)
Pop(t) ==
  /\ at[t] \in {"outside", "woken"}
  /\ \/ Take(t)
     \/ /\ NoneAvailable
        /\ \/ at' = [at EXCEPT ![t] = "asleep"]
           \/ WaitQueueTimeout /\ at' = [at EXCEPT ![t] = "outside"]
        /\ UNCHANGED <<queue, pool_size, client>>
  /\ UNCHANGED <<max_pool_size, last_known_serverids, selected, nodes,
                 servers, last_id>>

(* mongoc_cond_timedwait times out, or the wait ends without a signal.     *)
PopTimeout(t) ==
  /\ at[t] = "asleep"
  /\ WaitQueueTimeout
  /\ at' = [at EXCEPT ![t] = "outside"]
  /\ UNCHANGED <<queue, pool_size, max_pool_size, last_known_serverids,
                 client, selected, nodes, servers, last_id>>

SpuriousWakeup(t) ==
  /\ at[t] = "asleep"
  /\ at' = [at EXCEPT ![t] = "woken"]
  /\ UNCHANGED <<queue, pool_size, max_pool_size, last_known_serverids,
                 client, selected, nodes, servers, last_id>>

(* mongoc_client_pool_try_pop; without a client it returns NULL.           *)
TryPop(t) ==
  /\ at[t] = "outside"
  /\ Take(t)
  /\ UNCHANGED <<max_pool_size, last_known_serverids, selected, nodes,
                 servers, last_id>>

----------------------------------------------------------------------------
(* mongoc_cond_signal wakes one of the threads that wait.                  *)
Signal(others) ==
  IF Sleepers = {} THEN at' = others
  ELSE \E u \in Sleepers : at' = [others EXCEPT ![u] = "woken"]

(* prune_client, on the clients of a set.                                  *)
Prune(cs, ids) ==
  nodes' = [c \in Clients |-> IF c \in cs THEN nodes[c] \cap ids
                                          ELSE nodes[c]]

(* Mutant: only the client that comes back is pruned.                      *)
PushPruneIncoming(t) ==
  /\ at[t] = "holding" /\ selected[t] = 0
  /\ last_known_serverids' = servers
  /\ Prune({client[t]}, servers)
  /\ queue' = <<client[t]>> \o queue
  /\ client' = [client EXCEPT ![t] = None]
  /\ Signal([at EXCEPT ![t] = "outside"])
  /\ UNCHANGED <<pool_size, max_pool_size, selected, servers, last_id>>

(* mongoc_client_pool_push: the ids of the published description replace   *)
(* the last known ones; a change of them prunes the idle clients too.      *)
Push(t) ==
  /\ at[t] = "holding" /\ selected[t] = 0
  /\ last_known_serverids' = servers
  /\ Prune({client[t]} \cup
             (IF servers # last_known_serverids THEN Idle ELSE {}), servers)
  /\ queue' = <<client[t]>> \o queue
  /\ client' = [client EXCEPT ![t] = None]
  /\ Signal([at EXCEPT ![t] = "outside"])
  /\ UNCHANGED <<pool_size, max_pool_size, selected, servers, last_id>>

(* Mutant: a greater limit is left for the waiting threads to find.        *)
MaxSizeSilent(m) ==
  /\ max_pool_size' = m
  /\ UNCHANGED <<queue, pool_size, last_known_serverids, at, client,
                 selected, nodes, servers, last_id>>

(* mongoc_client_pool_max_size                                             *)
MaxSize(m) ==
  /\ max_pool_size' = m
  /\ at' = IF m > max_pool_size
             THEN [t \in Threads |-> IF at[t] = "asleep" THEN "woken"
                                                         ELSE at[t]]
             ELSE at
  /\ UNCHANGED <<queue, pool_size, last_known_serverids, client, selected,
                 nodes, servers, last_id>>

----------------------------------------------------------------------------
(* A thread uses its client: it selects a server in some description and   *)
(* connects later, or closes a connection after an error.                  *)
SelectServer(t) ==
  /\ at[t] = "holding" /\ selected[t] = 0
  /\ \E id \in servers \ nodes[client[t]] :
       selected' = [selected EXCEPT ![t] = id]
  /\ UNCHANGED <<queue, pool_size, max_pool_size, last_known_serverids,
                 at, client, nodes, servers, last_id>>

Connect(t) ==
  /\ selected[t] # 0
  /\ \E connected \in BOOLEAN :
       nodes' = IF connected
                  THEN [nodes EXCEPT ![client[t]] = @ \cup {selected[t]}]
                  ELSE nodes
  /\ selected' = [selected EXCEPT ![t] = 0]
  /\ UNCHANGED <<queue, pool_size, max_pool_size, last_known_serverids,
                 at, client, servers, last_id>>

Disconnect(t) ==
  /\ at[t] = "holding" /\ selected[t] = 0
  /\ \E id \in nodes[client[t]] :
       nodes' = [nodes EXCEPT ![client[t]] = @ \ {id}]
  /\ UNCHANGED <<queue, pool_size, max_pool_size, last_known_serverids,
                 at, client, selected, servers, last_id>>

(* The monitors publish a description with other servers.                  *)
ChangeServers ==
  /\ \E keep \in SUBSET servers, n \in 0 .. MaxServerId - last_id :
       /\ servers' = keep \cup (last_id + 1 .. last_id + n)
       /\ last_id' = last_id + n
  /\ UNCHANGED <<queue, pool_size, max_pool_size, last_known_serverids,
                 at, client, selected, nodes>>

----------------------------------------------------------------------------
ThreadStep(t) ==
  \/ Pop(t) \/ PopTimeout(t) \/ SpuriousWakeup(t) \/ TryPop(t)
  \/ SelectServer(t) \/ Connect(t) \/ Disconnect(t)

PoolNext ==
  \/ \E t \in Threads : ThreadStep(t) \/ Push(t)
  \/ \E m \in PoolSizes : MaxSize(m)
  \/ ChangeServers

PoolSpec == PoolInit /\ [][PoolNext]_poolVars

----------------------------------------------------------------------------
(* The type invariant of the pool and of the clients' connections.         *)
PoolTypeOK ==
  /\ queue \in Seq(Clients)
  /\ pool_size \in Nat /\ max_pool_size \in PoolSizes
  /\ last_known_serverids \subseteq ServerIds
  /\ at \in [Threads -> {"outside", "asleep", "woken", "holding"}]
  /\ client \in [Threads -> Clients \cup {None}]
  /\ selected \in [Threads -> 0 .. MaxServerId]
  /\ nodes \in [Clients -> SUBSET ServerIds]
  /\ servers \subseteq ServerIds /\ last_id \in ServerIds

(* A client is in the queue once or with one thread, never both, and the   *)
(* pool counts every client it created: pop never hands a client out twice *)
(* and push never loses one (mongoc_client_t is not thread-safe).          *)
OneOwner ==
  /\ \A i, j \in 1 .. Len(queue) : queue[i] = queue[j] => i = j
  /\ Idle \cap InUse = {}
  /\ \A t \in Threads : (client[t] # None) <=> (at[t] = "holding")
  /\ \A t, u \in Threads : client[t] = client[u] /\ client[t] # None => t = u
  /\ pool_size = Len(queue) + Cardinality(Holders)

(* No thread sleeps in pop while a client, or room for a new one, is there *)
(* that no woken thread is on its way to take: "increasing the maximum     *)
(* wakes threads waiting in mongoc_client_pool_pop".                       *)
Room == IF pool_size < max_pool_size THEN max_pool_size - pool_size ELSE 0
NoLostWakeup ==
  Sleepers # {} => Len(queue) + Room <= Cardinality(Woken)

(* An idle client has connections only to servers that the pool knows of   *)
(* since the last push: no push leaves a connection of a removed server in *)
(* any idle client.                                                        *)
IdleConnectionsKnown ==
  \A c \in Idle : nodes[c] \subseteq last_known_serverids
============================================================================
