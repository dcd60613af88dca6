------------------------ MODULE PooledClients_proofs ------------------------
(***************************************************************************)
(* The invariants of the two pools of a pooled client, each pool by itself *)
(* and for the threads that share them, also while                         *)
(* mongoc_client_pool_destroy runs, which finds a client and leaves        *)
(* nothing.  First what both pools need, then ClientPool, then             *)
(* ServerSessionPool, then the two together.                               *)
(***************************************************************************)
EXTENDS PooledClients, Integers, Sequences,
        FiniteSetTheorems, SequenceTheorems, TLAPS

----------------------------------------------------------------------------
(***************************************************************************)
(* Facts the proofs about the two pools share: how many threads are at a   *)
(* place when one of them moves, and what a push or a pop at the head does *)
(* to a list.                                                              *)
(***************************************************************************)
(* The threads whose place, in f, is one of places.                        *)
Among(f, places) == {t \in Threads : f[t] \in places}
Only(f, g, t) == \A u \in Threads : u # t => g[u] = f[u]

(* The threads at some places are finitely many.                           *)
LEMMA AmongFinite ==
  ASSUME NEW f, NEW places
  PROVE  /\ IsFiniteSet(Among(f, places))
         /\ Cardinality(Among(f, places)) \in Nat
BY FS_Subset, FiniteThreads, FS_CardinalityType DEF Among

(* A thread that comes there is one more.                                  *)
LEMMA AmongGain ==
  ASSUME NEW f, NEW g, NEW t \in Threads, NEW places, Only(f, g, t),
         f[t] \notin places, g[t] \in places
  PROVE  Cardinality(Among(g, places)) = Cardinality(Among(f, places)) + 1
<1>1. Among(g, places) = Among(f, places) \cup {t} /\ t \notin Among(f, places)
  BY DEF Among, Only
<1> QED
  BY <1>1, AmongFinite, FS_AddElement

(* A thread that leaves is one less.                                       *)
LEMMA AmongLose ==
  ASSUME NEW f, NEW g, NEW t \in Threads, NEW places, Only(f, g, t),
         f[t] \in places, g[t] \notin places
  PROVE  Cardinality(Among(g, places)) = Cardinality(Among(f, places)) - 1
<1>1. Among(g, places) = Among(f, places) \ {t} /\ t \in Among(f, places)
  BY DEF Among, Only
<1> QED
  BY <1>1, AmongFinite, FS_RemoveElement

(* Other moves do not count.                                               *)
LEMMA AmongSame ==
  ASSUME NEW f, NEW g, NEW t \in Threads, NEW places, Only(f, g, t),
         f[t] \in places <=> g[t] \in places
  PROVE  Among(g, places) = Among(f, places)
BY DEF Among, Only

----------------------------------------------------------------------------
(* A pop removes the first element of a list.                              *)
LEMMA PopHead ==
  ASSUME NEW S, NEW q \in Seq(S), q # <<>>
  PROVE  /\ Len(q) \in Nat /\ Len(q) > 0
         /\ Head(q) \in S /\ Head(q) = q[1]
         /\ Tail(q) \in Seq(S)
         /\ Len(Tail(q)) = Len(q) - 1
         /\ \A i \in 1 .. Len(q) - 1 : Tail(q)[i] = q[i + 1]
BY EmptySeq, HeadTailProperties

(* A push puts an element before the others.                               *)
LEMMA PushHead ==
  ASSUME NEW S, NEW q \in Seq(S), NEW c \in S
  PROVE  /\ Len(q) \in Nat
         /\ <<c>> \o q \in Seq(S)
         /\ Len(<<c>> \o q) = Len(q) + 1
         /\ (<<c>> \o q)[1] = c
         /\ \A i \in 1 .. Len(q) : (<<c>> \o q)[i + 1] = q[i]
<1>1. <<c>> \in Seq(S) /\ Len(<<c>>) = 1 /\ <<c>>[1] = c
  OBVIOUS
<1>2. <<c>> \o q \in Seq(S) /\ Len(<<c>> \o q) = 1 + Len(q)
  BY <1>1, ConcatProperties
<1>3. \A i \in 1 .. 1 + Len(q) :
        (<<c>> \o q)[i] = IF i <= 1 THEN <<c>>[i] ELSE q[i - 1]
  BY <1>1, ConcatProperties
<1> QED
  BY <1>1, <1>2, <1>3

----------------------------------------------------------------------------
(* The elements of a list, and a list without duplicates.                  *)
Elements(q) == {q[i] : i \in 1 .. Len(q)}
Distinct(q) == \A i, j \in 1 .. Len(q) : q[i] = q[j] => i = j

(* A pop from a list without duplicates takes its head out of it.          *)
LEMMA PopElements ==
  ASSUME NEW S, NEW q \in Seq(S), q # <<>>, Distinct(q)
  PROVE  /\ Distinct(Tail(q))
         /\ Head(q) \in Elements(q)
         /\ Elements(Tail(q)) = Elements(q) \ {Head(q)}
<1>1. /\ Len(q) \in Nat /\ Len(q) > 0
      /\ Head(q) = q[1]
      /\ Len(Tail(q)) = Len(q) - 1
      /\ \A i \in 1 .. Len(q) - 1 : Tail(q)[i] = q[i + 1]
  BY PopHead
<1>2. Distinct(Tail(q))
  BY <1>1 DEF Distinct
<1>3. Head(q) \in Elements(q)
  BY <1>1 DEF Elements
<1>4. ASSUME NEW x \in Elements(Tail(q))
      PROVE  x \in Elements(q) \ {Head(q)}
  <2>1. PICK i \in 1 .. Len(q) - 1 : x = q[i + 1]
    BY <1>1, <1>4 DEF Elements
  <2>2. i + 1 \in 1 .. Len(q) /\ 1 \in 1 .. Len(q) /\ i + 1 # 1
    BY <1>1, <2>1
  <2> QED
    BY <1>1, <2>1, <2>2 DEF Elements, Distinct
<1>5. ASSUME NEW x \in Elements(q) \ {Head(q)}
      PROVE  x \in Elements(Tail(q))
  <2>1. PICK i \in 1 .. Len(q) : x = q[i] /\ i # 1
    BY <1>1, <1>5 DEF Elements
  <2>2. i - 1 \in 1 .. Len(q) - 1 /\ (i - 1) + 1 = i
    BY <1>1, <2>1
  <2>3. Tail(q)[i - 1] = x
    BY <1>1, <2>1, <2>2
  <2> QED
    BY <1>1, <2>2, <2>3 DEF Elements
<1> QED
  BY <1>2, <1>3, <1>4, <1>5

(* A push of an element that is not there keeps a list without duplicates. *)
LEMMA PushElements ==
  ASSUME NEW S, NEW q \in Seq(S), NEW c \in S
  PROVE  /\ Elements(<<c>> \o q) = Elements(q) \cup {c}
         /\ Distinct(q) /\ c \notin Elements(q) => Distinct(<<c>> \o q)
<1> DEFINE p == <<c>> \o q
<1>1. /\ Len(q) \in Nat /\ Len(p) = Len(q) + 1
      /\ p[1] = c
      /\ \A i \in 1 .. Len(q) : p[i + 1] = q[i]
  BY PushHead
<1> HIDE DEF p
<1>2. ASSUME NEW i \in 1 .. Len(p), i # 1
      PROVE  i - 1 \in 1 .. Len(q) /\ p[i] = q[i - 1]
  <2>1. i - 1 \in 1 .. Len(q) /\ (i - 1) + 1 = i
    BY <1>1, <1>2
  <2> QED
    BY <1>1, <2>1
<1>3. ASSUME NEW i \in 1 .. Len(p)
      PROVE  p[i] \in Elements(q) \cup {c}
  <2>1. CASE i = 1
    BY <1>1, <2>1
  <2>2. CASE i # 1
    BY <1>2, <2>2 DEF Elements
  <2> QED
    BY <2>1, <2>2
<1>4. ASSUME NEW x \in Elements(q) \cup {c}
      PROVE  x \in Elements(p)
  <2>1. CASE x = c
    <3>1. 1 \in 1 .. Len(p)
      BY <1>1
    <3> QED
      BY <1>1, <2>1, <3>1 DEF Elements
  <2>2. CASE x \in Elements(q)
    <3>1. PICK i \in 1 .. Len(q) : x = q[i]
      BY <2>2 DEF Elements
    <3>2. i + 1 \in 1 .. Len(p) /\ p[i + 1] = x
      BY <1>1, <3>1
    <3> QED
      BY <3>2 DEF Elements
  <2> QED
    BY <2>1, <2>2
<1>5. Elements(p) = Elements(q) \cup {c}
  BY <1>3, <1>4 DEF Elements
<1>6. ASSUME Distinct(q), c \notin Elements(q),
             NEW i \in 1 .. Len(p), NEW j \in 1 .. Len(p), p[i] = p[j]
      PROVE  i = j
  <2>1. CASE i # 1 /\ j # 1
    <3>1. /\ i - 1 \in 1 .. Len(q) /\ j - 1 \in 1 .. Len(q)
          /\ q[i - 1] = q[j - 1]
      BY <1>2, <1>6, <2>1
    <3>2. i - 1 = j - 1
      BY <1>6, <3>1 DEF Distinct
    <3> QED
      BY <1>1, <3>2
  <2>2. \A k \in 1 .. Len(p) : k # 1 => p[k] # c
    BY <1>2, <1>6 DEF Elements
  <2> QED
    BY <1>1, <1>6, <2>1, <2>2
<1> QED
  BY <1>5, <1>6 DEF p, Distinct

----------------------------------------------------------------------------
(***************************************************************************)
(* The invariants of ClientPool, for any number of threads, clients and    *)
(* servers.  The parts of the inductive invariant are proved one on top of *)
(* the other: control, one owner, wake-ups, connections.                   *)
(***************************************************************************)
(***************************************************************************)
(* Types, and the places of the threads.                                   *)
(***************************************************************************)
(* A thread connects only with a client in its hands.                      *)
SelectedInv == \A t \in Threads : selected[t] # 0 => at[t] = "holding"

(* The places of the threads agree with what they hold.                    *)
ControlInv ==
  /\ PoolTypeOK
  /\ SelectedInv
  /\ \A t \in Threads : (client[t] # None) <=> (at[t] = "holding")

(* Every state the pool starts in has the control invariant.               *)
LEMMA ControlInit == PoolInit => ControlInv
BY PoolAssumption DEF PoolInit, ControlInv, PoolTypeOK, SelectedInv, ServerIds

(* Every step keeps it.                                                    *)
LEMMA ControlStep == ControlInv /\ [PoolNext]_poolVars => ControlInv'
<1> SUFFICES ASSUME ControlInv, [PoolNext]_poolVars PROVE ControlInv'
  OBVIOUS
<1> USE PoolAssumption DEF ControlInv, PoolTypeOK, SelectedInv, ServerIds
<1>1. ASSUME NEW t \in Threads, TakeIdle(t), at[t] # "holding",
             UNCHANGED <<max_pool_size, last_known_serverids, selected, nodes,
                         servers, last_id>>
      PROVE  ControlInv'
  <2>1. Head(queue) \in Clients /\ queue' \in Seq(Clients)
    BY <1>1, PopHead DEF TakeIdle
  <2> QED
    BY <1>1, <2>1 DEF TakeIdle
<1>2. ASSUME NEW t \in Threads, TakeNew(t), at[t] # "holding",
             UNCHANGED <<max_pool_size, last_known_serverids, selected, nodes,
                         servers, last_id>>
      PROVE  ControlInv'
  BY <1>2 DEF TakeNew
<1>3. ASSUME NEW t \in Threads, Pop(t) PROVE ControlInv'
  BY <1>1, <1>2, <1>3 DEF Pop, Take
<1>4. ASSUME NEW t \in Threads, PopTimeout(t) PROVE ControlInv'
  BY <1>4 DEF PopTimeout
<1>5. ASSUME NEW t \in Threads, SpuriousWakeup(t) PROVE ControlInv'
  BY <1>5 DEF SpuriousWakeup
<1>6. ASSUME NEW t \in Threads, TryPop(t) PROVE ControlInv'
  BY <1>1, <1>2, <1>6 DEF TryPop, Take
<1>7. ASSUME NEW t \in Threads, Push(t) PROVE ControlInv'
  <2>1. client[t] \in Clients /\ queue' \in Seq(Clients)
    BY <1>7, PushHead DEF Push
  <2>2. nodes' \in [Clients -> SUBSET (1 .. MaxServerId)]
    BY <1>7 DEF Push, Prune
  <2>3. PICK u \in Threads :
          /\ at[u] = "asleep" \/ u = t
          /\ at' = [at EXCEPT ![t] = "outside",
                             ![u] = IF u = t THEN "outside" ELSE "woken"]
    BY <1>7 DEF Push, Signal, Sleepers
  <2> QED
    BY <1>7, <2>1, <2>2, <2>3 DEF Push
<1>8. ASSUME NEW m \in PoolSizes, MaxSize(m) PROVE ControlInv'
  BY <1>8 DEF MaxSize
<1>9. ASSUME NEW t \in Threads, SelectServer(t) PROVE ControlInv'
  BY <1>9 DEF SelectServer
<1>10. ASSUME NEW t \in Threads, Connect(t) PROVE ControlInv'
  BY <1>10 DEF Connect
<1>11. ASSUME NEW t \in Threads, Disconnect(t) PROVE ControlInv'
  BY <1>11 DEF Disconnect
<1>12. ASSUME ChangeServers PROVE ControlInv'
  BY <1>12 DEF ChangeServers
<1>13. ASSUME UNCHANGED poolVars PROVE ControlInv'
  BY <1>13 DEF poolVars
<1> QED
  BY <1>3, <1>4, <1>5, <1>6, <1>7, <1>8, <1>9, <1>10, <1>11, <1>12, <1>13
  DEF PoolNext, ThreadStep

----------------------------------------------------------------------------
(***************************************************************************)
(* No wake-up is lost: every step that adds a client or room wakes a       *)
(* thread for it, and a thread goes to sleep only when there is neither.   *)
(***************************************************************************)
(* Sleeping and woken threads are threads at a place.                      *)
LEMMA Places ==
  /\ Sleepers = Among(at, {"asleep"}) /\ Woken = Among(at, {"woken"})
  /\ Holders = Among(at, {"holding"})
BY DEF Sleepers, Woken, Holders, Among

(* A client taken is one less to wake a thread for.                        *)
LEMMA WakeupTake ==
  ASSUME ControlInv, NoLostWakeup, NEW t \in Threads,
         at[t] \in {"outside", "woken"}, Take(t), UNCHANGED max_pool_size
  PROVE  NoLostWakeup'
<1> USE DEF ControlInv, PoolTypeOK
<1>1. at' = [at EXCEPT ![t] = "holding"]
  BY DEF Take, TakeIdle, TakeNew
<1>2. Sleepers' = Sleepers
  BY <1>1 DEF Sleepers
<1>3. Cardinality(Among(at', {"woken"}))
        >= Cardinality(Among(at, {"woken"})) - 1
  <2>1. Only(at, at', t) /\ at'[t] \notin {"woken"}
    BY <1>1 DEF Only
  <2>2. CASE at[t] \in {"woken"}
    <3>1. Cardinality(Among(at', {"woken"}))
            = Cardinality(Among(at, {"woken"})) - 1
      BY <2>1, <2>2, AmongLose, Zenon
    <3> QED
      BY <3>1, AmongFinite
  <2>3. CASE at[t] \notin {"woken"}
    <3>1. Among(at', {"woken"}) = Among(at, {"woken"})
      BY <2>1, <2>3 DEF Among, Only
    <3> QED
      BY <3>1, AmongFinite
  <2> QED
    BY <2>2, <2>3
<1>4. /\ max_pool_size \in Nat /\ Len(queue) \in Nat
      /\ Cardinality(Among(at, {"woken"})) \in Nat
      /\ Cardinality(Among(at', {"woken"})) \in Nat
  BY PoolAssumption, FS_CardinalityType, AmongFinite, LenProperties
<1>5. Woken = Among(at, {"woken"}) /\ Woken' = Among(at', {"woken"})
  BY DEF Woken, Among
<1>6. CASE TakeIdle(t)
  <2>1. Len(queue') = Len(queue) - 1 /\ Room' = Room
    BY <1>6, PopHead DEF TakeIdle, Room
  <2> QED
    BY <1>2, <1>3, <1>4, <1>5, <2>1 DEF NoLostWakeup, Room
<1>7. CASE TakeNew(t)
  <2>1. queue' = queue /\ Room' = Room - 1
    BY <1>4, <1>7 DEF TakeNew, Room
  <2> QED
    BY <1>2, <1>3, <1>4, <1>5, <2>1 DEF NoLostWakeup, Room
<1> QED
  BY <1>6, <1>7 DEF Take

(* Every step keeps the wake-ups.                                          *)
LEMMA WakeupStep ==
  ControlInv /\ NoLostWakeup /\ [PoolNext]_poolVars => NoLostWakeup'
<1> SUFFICES ASSUME ControlInv, NoLostWakeup, [PoolNext]_poolVars
             PROVE  NoLostWakeup'
  OBVIOUS
<1> USE DEF ControlInv, PoolTypeOK
<1>1. /\ max_pool_size \in Nat /\ Len(queue) \in Nat
      /\ Cardinality(Among(at, {"woken"})) \in Nat
      /\ Cardinality(Among(at', {"woken"})) \in Nat
  BY PoolAssumption, FS_CardinalityType, AmongFinite, LenProperties
<1>2. /\ Woken = Among(at, {"woken"}) /\ Woken' = Among(at', {"woken"})
      /\ Sleepers = Among(at, {"asleep"}) /\ Sleepers' = Among(at', {"asleep"})
  BY DEF Woken, Sleepers, Among
<1>3. ASSUME NEW t \in Threads, Pop(t) PROVE NoLostWakeup'
  <2>1. CASE Take(t)
    BY <1>3, <2>1, WakeupTake DEF Pop
  <2>2. CASE NoneAvailable /\ UNCHANGED <<queue, pool_size, max_pool_size>>
    <3>1. Len(queue') = 0 /\ Room' = 0
      BY <1>1, <2>2, EmptySeq DEF NoneAvailable, Room
    <3> QED
      BY <1>1, <1>2, <3>1 DEF NoLostWakeup
  <2> QED
    BY <1>3, <2>1, <2>2 DEF Pop
<1>4. ASSUME NEW t \in Threads, PopTimeout(t) PROVE NoLostWakeup'
  <2>1. Woken' = Woken /\ (Sleepers' # {} => Sleepers # {})
    BY <1>4 DEF PopTimeout, Woken, Sleepers
  <2> QED
    BY <1>4, <2>1 DEF PopTimeout, NoLostWakeup, Room
<1>5. ASSUME NEW t \in Threads, SpuriousWakeup(t) PROVE NoLostWakeup'
  <2>1. Cardinality(Woken') = Cardinality(Woken) + 1
    <3>1. /\ Only(at, at', t)
          /\ at[t] \notin {"woken"} /\ at'[t] \in {"woken"}
      BY <1>5 DEF SpuriousWakeup, Only
    <3> QED
      BY <1>2, <3>1, AmongGain, Zenon
  <2>2. Sleepers' # {} => Sleepers # {}
    BY <1>5 DEF SpuriousWakeup, Sleepers
  <2>3. Room' = Room /\ queue' = queue /\ Room \in Nat
    BY <1>1, <1>5 DEF SpuriousWakeup, Room
  <2> QED
    BY <1>1, <1>2, <2>1, <2>2, <2>3 DEF NoLostWakeup
<1>6. ASSUME NEW t \in Threads, TryPop(t) PROVE NoLostWakeup'
  BY <1>6, WakeupTake DEF TryPop
<1>7. ASSUME NEW t \in Threads, Push(t) PROVE NoLostWakeup'
  <2>1. Len(queue') = Len(queue) + 1 /\ Room' = Room /\ Room \in Nat
    <3>1. client[t] \in Clients
      BY <1>7 DEF Push
    <3> QED
      BY <1>1, <1>7, <3>1, PushHead DEF Push, Room
  <2>2. CASE Sleepers = {}
    <3>1. Sleepers' = {}
      BY <1>7, <2>2 DEF Push, Signal, Sleepers
    <3> QED
      BY <3>1 DEF NoLostWakeup
  <2>3. CASE Sleepers # {}
    <3>1. PICK u \in Threads :
            at[u] = "asleep" /\ at' = [at EXCEPT ![t] = "outside",
                                                 ![u] = "woken"]
      BY <1>7, <2>3 DEF Push, Signal, Sleepers
    <3>2. Woken' = Woken \cup {u} /\ u \notin Woken
      BY <1>7, <3>1 DEF Push, Woken
    <3>3. Cardinality(Woken') = Cardinality(Woken) + 1
      BY <1>2, <3>2, AmongFinite, FS_AddElement
    <3> QED
      BY <1>1, <1>2, <2>1, <2>3, <3>3 DEF NoLostWakeup
  <2> QED
    BY <2>2, <2>3
<1>8. ASSUME NEW m \in PoolSizes, MaxSize(m) PROVE NoLostWakeup'
  <2>1. CASE m > max_pool_size
    <3>1. Sleepers' = {}
      BY <1>8, <2>1 DEF MaxSize, Sleepers
    <3> QED
      BY <3>1 DEF NoLostWakeup
  <2>2. CASE ~(m > max_pool_size)
    <3>1. m \in Nat
      BY PoolAssumption, FS_CardinalityType
    <3>2. Room' <= Room /\ Room \in Nat /\ Room' \in Nat /\ queue' = queue
      BY <1>1, <1>8, <2>2, <3>1 DEF MaxSize, Room
    <3>3. Sleepers' = Sleepers /\ Woken' = Woken
      BY <1>8, <2>2 DEF MaxSize, Sleepers, Woken
    <3> QED
      BY <1>1, <1>2, <3>2, <3>3 DEF NoLostWakeup
  <2> QED
    BY <2>1, <2>2
<1>9. ASSUME UNCHANGED <<queue, pool_size, max_pool_size, at>>
      PROVE  NoLostWakeup'
  BY <1>9 DEF NoLostWakeup, Room, Sleepers, Woken
<1>10. ASSUME NEW t \in Threads,
              SelectServer(t) \/ Connect(t) \/ Disconnect(t)
       PROVE  NoLostWakeup'
  BY <1>9, <1>10 DEF SelectServer, Connect, Disconnect
<1>11. ASSUME ChangeServers \/ UNCHANGED poolVars PROVE NoLostWakeup'
  BY <1>9, <1>11 DEF ChangeServers, poolVars
<1> QED
  BY <1>3, <1>4, <1>5, <1>6, <1>7, <1>8, <1>10, <1>11
  DEF PoolNext, ThreadStep

----------------------------------------------------------------------------
(***************************************************************************)
(* One owner per client.                                                   *)
(***************************************************************************)
(* An idle client goes from the queue to one hand.                         *)
LEMMA OwnerTakeIdle ==
  ASSUME ControlInv, OneOwner, NEW t \in Threads,
         at[t] # "holding", TakeIdle(t)
  PROVE  OneOwner'
<1> USE DEF ControlInv, PoolTypeOK, TakeIdle
<1>1. /\ Distinct(queue) /\ Idle = Elements(queue)
      /\ Distinct(queue') = Distinct(Tail(queue))
      /\ Idle' = Elements(Tail(queue))
  BY DEF OneOwner, Idle, Elements, Distinct
<1>2. /\ Distinct(queue')
      /\ Head(queue) \in Idle
      /\ Idle' = Idle \ {Head(queue)}
  BY <1>1, PopElements
<1>3. /\ Head(queue) \in Clients
      /\ Len(queue) \in Nat /\ Len(queue') = Len(queue) - 1
  BY PopHead
<1>4. client' = [client EXCEPT ![t] = Head(queue)] /\ client[t] = None
  OBVIOUS
<1>5. \A u \in Threads : client[u] # None => client[u] \notin Idle
  BY DEF OneOwner, InUse
<1>6. Idle' \cap InUse' = {}
  BY <1>2, <1>4, <1>5 DEF InUse
<1>7. \A u, v \in Threads :
        client'[u] = client'[v] /\ client'[u] # None => u = v
  BY <1>2, <1>4, <1>5 DEF OneOwner
<1>8. Cardinality(Holders') = Cardinality(Holders) + 1
  <2>1. Holders' = Holders \cup {t} /\ t \notin Holders
    BY DEF Holders
  <2> QED
    BY <2>1, Places, AmongFinite, FS_AddElement
<1>9. Cardinality(Holders) \in Nat
  BY Places, AmongFinite
<1>10. \A u \in Threads : (client'[u] # None) <=> (at'[u] = "holding")
  BY <1>3, <1>4, PoolAssumption
<1>11. pool_size' = Len(queue') + Cardinality(Holders')
  BY <1>3, <1>8, <1>9 DEF OneOwner
<1> QED
  BY <1>2, <1>6, <1>7, <1>10, <1>11 DEF OneOwner, Distinct

(* A new client is in nobody's hands yet.                                  *)
LEMMA OwnerTakeNew ==
  ASSUME ControlInv, OneOwner, NEW t \in Threads,
         at[t] # "holding", TakeNew(t)
  PROVE  OneOwner'
<1> USE DEF ControlInv, PoolTypeOK, TakeNew
<1>1. PICK c \in Clients \ (Idle \cup InUse) :
        client' = [client EXCEPT ![t] = c]
  OBVIOUS
<1>2. Idle' = Idle /\ InUse' = InUse \cup {c}
  BY <1>1, PoolAssumption DEF Idle, InUse
<1>3. Cardinality(Holders') = Cardinality(Holders) + 1
  <2>1. Holders' = Holders \cup {t} /\ t \notin Holders
    BY DEF Holders
  <2> QED
    BY <2>1, Places, AmongFinite, FS_AddElement
<1>4. Cardinality(Holders) \in Nat /\ Len(queue) \in Nat
  BY Places, AmongFinite, LenProperties
<1>5. \A u \in Threads : (client'[u] # None) <=> (at'[u] = "holding")
  BY <1>1, PoolAssumption
<1>6. \A u, v \in Threads :
        client'[u] = client'[v] /\ client'[u] # None => u = v
  BY <1>1 DEF OneOwner, InUse
<1>7. pool_size' = Len(queue') + Cardinality(Holders')
  BY <1>3, <1>4 DEF OneOwner
<1> QED
  BY <1>1, <1>2, <1>5, <1>6, <1>7 DEF OneOwner

(* A client that comes back was in one hand and not in the queue.          *)
LEMMA OwnerPush ==
  ASSUME ControlInv, ControlInv', OneOwner, NEW t \in Threads, Push(t)
  PROVE  OneOwner'
<1> USE DEF ControlInv, PoolTypeOK, Push
<1>1. client[t] \in Clients /\ client[t] # None /\ client[t] \notin Idle
  BY DEF OneOwner, InUse
<1>2. Len(queue) \in Nat /\ Len(queue') = Len(queue) + 1
  BY <1>1, PushHead
<1>3. /\ Distinct(queue) /\ Idle = Elements(queue)
      /\ Distinct(queue') = Distinct(<<client[t]>> \o queue)
      /\ Idle' = Elements(<<client[t]>> \o queue)
  BY DEF OneOwner, Idle, Elements, Distinct
<1>4. Distinct(queue') /\ Idle' = Idle \cup {client[t]}
  BY <1>1, <1>3, PushElements
<1>6. InUse' = InUse \ {client[t]}
  BY DEF InUse, OneOwner
<1>7. Holders' = Holders \ {t} /\ t \in Holders
  BY DEF Holders
<1>8. Cardinality(Holders') = Cardinality(Holders) - 1
  <2>1. IsFiniteSet(Holders)
    BY Places, AmongFinite
  <2>2. Cardinality(Holders \ {t}) = Cardinality(Holders) - 1
    BY <1>7, <2>1, FS_RemoveElement
  <2> QED
    BY <1>7, <2>2
<1>9. Cardinality(Holders) \in Nat
  BY Places, AmongFinite
<1>10. pool_size' = Len(queue') + Cardinality(Holders')
  BY <1>2, <1>8, <1>9 DEF OneOwner
<1>11. \A u, v \in Threads :
        client'[u] = client'[v] /\ client'[u] # None => u = v
  BY DEF OneOwner
<1>12. Idle' \cap InUse' = {}
  BY <1>4, <1>6 DEF OneOwner
<1> QED
  BY <1>4, <1>10, <1>11, <1>12 DEF OneOwner, Distinct

(* Every step keeps one owner per client.                                  *)
LEMMA OwnerStep ==
  ControlInv /\ OneOwner /\ [PoolNext]_poolVars => OneOwner'
<1> SUFFICES ASSUME ControlInv, OneOwner, [PoolNext]_poolVars
             PROVE  OneOwner'
  OBVIOUS
<1>c. ControlInv'
  BY ControlStep
<1> USE DEF ControlInv, PoolTypeOK
<1>1. ASSUME NEW t \in Threads, at[t] # "holding", Take(t)
      PROVE  OneOwner'
  BY <1>1, OwnerTakeIdle, OwnerTakeNew DEF Take
<1>2. ASSUME UNCHANGED <<queue, pool_size, client>>, Holders' = Holders,
             \A t \in Threads : at'[t] = "holding" <=> at[t] = "holding"
      PROVE  OneOwner'
  <2>1. Idle' = Idle /\ InUse' = InUse
    BY <1>2 DEF Idle, InUse
  <2> QED
    BY <1>2, <2>1 DEF OneOwner
<1>3. ASSUME NEW t \in Threads, Pop(t) PROVE OneOwner'
  <2>1. CASE Take(t)
    BY <1>1, <1>3, <2>1 DEF Pop
  <2>2. CASE ~Take(t)
    BY <1>2, <1>3, <2>2 DEF Pop, Holders
  <2> QED
    BY <2>1, <2>2
<1>4. ASSUME NEW t \in Threads, PopTimeout(t) PROVE OneOwner'
  BY <1>2, <1>4 DEF PopTimeout, Holders
<1>5. ASSUME NEW t \in Threads, SpuriousWakeup(t) PROVE OneOwner'
  BY <1>2, <1>5 DEF SpuriousWakeup, Holders
<1>6. ASSUME NEW t \in Threads, TryPop(t) PROVE OneOwner'
  BY <1>1, <1>6 DEF TryPop
<1>7. ASSUME NEW t \in Threads, Push(t) PROVE OneOwner'
  BY <1>c, <1>7, OwnerPush
<1>8. ASSUME NEW m \in PoolSizes, MaxSize(m) PROVE OneOwner'
  BY <1>2, <1>8 DEF MaxSize, Holders
<1>9. ASSUME NEW t \in Threads,
             SelectServer(t) \/ Connect(t) \/ Disconnect(t)
      PROVE  OneOwner'
  BY <1>2, <1>9 DEF SelectServer, Connect, Disconnect, Holders
<1>10. ASSUME ChangeServers \/ UNCHANGED poolVars PROVE OneOwner'
  BY <1>2, <1>10 DEF ChangeServers, poolVars, Holders
<1> QED
  BY <1>3, <1>4, <1>5, <1>6, <1>7, <1>8, <1>9, <1>10
  DEF PoolNext, ThreadStep

----------------------------------------------------------------------------
(***************************************************************************)
(* The connections of idle clients.                                        *)
(***************************************************************************)
(* Every step keeps the idle clients' connections among the known ids.     *)
LEMMA KnownStep ==
  ControlInv /\ OneOwner /\ IdleConnectionsKnown /\ [PoolNext]_poolVars
    => IdleConnectionsKnown'
<1> SUFFICES ASSUME ControlInv, OneOwner, IdleConnectionsKnown,
                    [PoolNext]_poolVars
             PROVE  IdleConnectionsKnown'
  OBVIOUS
<1> USE DEF ControlInv, PoolTypeOK
<1>1. ASSUME UNCHANGED <<queue, nodes, last_known_serverids>>
      PROVE  IdleConnectionsKnown'
  BY <1>1 DEF IdleConnectionsKnown, Idle
<1>2. ASSUME NEW t \in Threads, Take(t),
             UNCHANGED <<nodes, last_known_serverids>>
      PROVE  IdleConnectionsKnown'
  <2>1. CASE TakeIdle(t)
    <3>1. /\ Distinct(queue) /\ Idle = Elements(queue)
          /\ Idle' = Elements(Tail(queue))
      BY <2>1 DEF TakeIdle, OneOwner, Idle, Elements, Distinct
    <3>2. Idle' \subseteq Idle
      BY <2>1, <3>1, PopElements DEF TakeIdle
    <3> QED
      BY <1>2, <3>2 DEF IdleConnectionsKnown
  <2>2. CASE TakeNew(t)
    BY <1>1, <1>2, <2>2 DEF TakeNew
  <2> QED
    BY <1>2, <2>1, <2>2 DEF Take
<1>3. ASSUME NEW t \in Threads, Pop(t) PROVE IdleConnectionsKnown'
  BY <1>1, <1>2, <1>3 DEF Pop
<1>4. ASSUME NEW t \in Threads, TryPop(t) PROVE IdleConnectionsKnown'
  BY <1>2, <1>4 DEF TryPop
<1>5. ASSUME NEW t \in Threads, PopTimeout(t) \/ SpuriousWakeup(t)
      PROVE  IdleConnectionsKnown'
  BY <1>1, <1>5 DEF PopTimeout, SpuriousWakeup
<1>6. ASSUME NEW t \in Threads, Push(t) PROVE IdleConnectionsKnown'
  <2>1. client[t] \in Clients
    BY <1>6 DEF Push
  <2>2. /\ Idle = Elements(queue)
        /\ Idle' = Elements(<<client[t]>> \o queue)
    BY <1>6 DEF Push, Idle, Elements
  <2>3. Idle' = Idle \cup {client[t]}
    BY <2>1, <2>2, PushElements
  <2>4. Idle \subseteq Clients
    BY ElementOfSeq DEF Idle
  <2>5. ASSUME NEW c \in Idle \cup {client[t]}
        PROVE  nodes'[c] \subseteq last_known_serverids'
    <3>1. c \in Clients
      BY <2>1, <2>4
    <3>2. CASE c = client[t] \/ servers # last_known_serverids
      BY <1>6, <2>5, <3>1, <3>2 DEF Push, Prune
    <3>3. CASE c # client[t] /\ servers = last_known_serverids
      <4>1. nodes'[c] \subseteq nodes[c]
        BY <1>6, <3>1 DEF Push, Prune
      <4>2. last_known_serverids' = last_known_serverids
        BY <1>6, <3>3 DEF Push
      <4> QED
        BY <2>5, <3>3, <4>1, <4>2 DEF IdleConnectionsKnown
    <3> QED
      BY <3>2, <3>3
  <2> QED
    BY <2>3, <2>5 DEF IdleConnectionsKnown
<1>7. ASSUME NEW m \in PoolSizes, MaxSize(m) PROVE IdleConnectionsKnown'
  BY <1>1, <1>7 DEF MaxSize
<1>8. ASSUME NEW t \in Threads, SelectServer(t) PROVE IdleConnectionsKnown'
  BY <1>1, <1>8 DEF SelectServer
<1>9. ASSUME NEW t \in Threads, at[t] = "holding",
             UNCHANGED <<queue, last_known_serverids>>,
             \A c \in Clients : c # client[t] => nodes'[c] = nodes[c]
      PROVE  IdleConnectionsKnown'
  <2>1. client[t] \notin Idle
    BY <1>9 DEF OneOwner, InUse
  <2>2. Idle' = Idle /\ Idle \subseteq Clients
    BY <1>9 DEF Idle
  <2> QED
    BY <1>9, <2>1, <2>2 DEF IdleConnectionsKnown
<1>10. ASSUME NEW t \in Threads, Connect(t) PROVE IdleConnectionsKnown'
  BY <1>9, <1>10 DEF Connect, SelectedInv
<1>11. ASSUME NEW t \in Threads, Disconnect(t) PROVE IdleConnectionsKnown'
  BY <1>9, <1>11 DEF Disconnect
<1>12. ASSUME ChangeServers \/ UNCHANGED poolVars
       PROVE  IdleConnectionsKnown'
  BY <1>1, <1>12 DEF ChangeServers, poolVars
<1> QED
  BY <1>3, <1>4, <1>5, <1>6, <1>7, <1>8, <1>10, <1>11, <1>12
  DEF PoolNext, ThreadStep

----------------------------------------------------------------------------
(***************************************************************************)
(* The theorems.                                                           *)
(***************************************************************************)
(* The inductive invariant: each part rests on the ones before it.         *)
PoolInv ==
  /\ ControlInv
  /\ OneOwner
  /\ NoLostWakeup
  /\ IdleConnectionsKnown

(* A new pool is empty, and nobody waits for it.                           *)
LEMMA PoolInvInit == PoolInit => PoolInv
<1> SUFFICES ASSUME PoolInit PROVE PoolInv
  OBVIOUS
<1>1. ControlInv
  BY ControlInit
<1>2. Idle = {} /\ InUse = {} /\ Holders = {} /\ Sleepers = {}
  BY DEF PoolInit, Idle, InUse, Holders, Sleepers
<1>3. Len(queue) = 0 /\ Cardinality(Holders) = 0
  BY <1>2, FS_EmptySet DEF PoolInit
<1>4. OneOwner
  BY <1>1, <1>2, <1>3 DEF PoolInit, OneOwner, ControlInv
<1> QED
  BY <1>1, <1>2, <1>4 DEF PoolInv, NoLostWakeup, IdleConnectionsKnown

(* No step of the pool breaks it.                                          *)
LEMMA PoolInvStep == PoolInv /\ [PoolNext]_poolVars => PoolInv'
BY ControlStep, OwnerStep, WakeupStep, KnownStep DEF PoolInv

(* The pool alone, whatever the threads do with their clients: pop hands a *)
(* client to one thread at a time, no wake-up is lost, and push prunes.    *)
THEOREM PoolCorrect ==
  PoolSpec => [](/\ PoolTypeOK /\ OneOwner
                 /\ NoLostWakeup /\ IdleConnectionsKnown)
<1>1. PoolInv => /\ PoolTypeOK /\ OneOwner
                 /\ NoLostWakeup /\ IdleConnectionsKnown
  BY DEF PoolInv, ControlInv
<1> QED
  BY <1>1, PoolInvInit, PoolInvStep, PTL DEF PoolSpec

----------------------------------------------------------------------------
(***************************************************************************)
(* The invariants of ServerSessionPool, for any number of threads and      *)
(* sessions.  Each of the operations on the list is one of a few moves of  *)
(* a session and of a thread, and there is a lemma for each move.          *)
(***************************************************************************)
(* A thread has a session in hand exactly at these places.                 *)
HandPcs == {"count", "check", "using", "put",
            "end_count", "end_check", "end_return", "end_put"}
HandInv == \A t \in Threads : node[t] # NoSession <=> pc[t] \in HandPcs

SessionControl ==
  /\ SessionTypeOK
  /\ HandInv

(* An empty pool has the control invariant.                                *)
LEMMA SessionControlInit == SessionInit => SessionControl
BY SessionAssumption
DEF SessionInit, SessionControl, SessionTypeOK, HandInv, HandPcs, EndPcs,
    Unborn, NoSessions, NeverUsed

(* The records of the sessions.                                            *)
SessionRecords == [life : {"none", "live", "freed"}, dirty : BOOLEAN,
                   last_used : Int]

(* Every change of one session leaves a record there.                      *)
LEMMA RecordOps ==
  ASSUME NEW s \in Sessions, session \in [Sessions -> SessionRecords]
  PROVE  /\ [session EXCEPT ![s] = Freed] \in [Sessions -> SessionRecords]
         /\ [session EXCEPT ![s].life = "live"]
              \in [Sessions -> SessionRecords]
         /\ \A n \in Int : [session EXCEPT ![s].last_used = n]
                             \in [Sessions -> SessionRecords]
         /\ [session EXCEPT ![s].dirty = TRUE]
              \in [Sessions -> SessionRecords]
<1>1. Freed \in SessionRecords
  <2>1. Unborn \in SessionRecords
    BY DEF SessionRecords, Unborn, NeverUsed
  <2> QED
    BY <2>1 DEF SessionRecords, Freed
<1>2. session[s] \in SessionRecords
  OBVIOUS
<1>3. [session[s] EXCEPT !.life = "live"] \in SessionRecords
  BY <1>2 DEF SessionRecords
<1>4. \A n \in Int : [session[s] EXCEPT !.last_used = n] \in SessionRecords
  BY <1>2 DEF SessionRecords
<1>5. [session[s] EXCEPT !.dirty = TRUE] \in SessionRecords
  BY <1>2 DEF SessionRecords
<1> QED
  BY <1>1, <1>3, <1>4, <1>5

(* Every step keeps it.                                                    *)
LEMMA SessionControlStep ==
  SessionControl /\ [SessionNext]_sessionVars => SessionControl'
<1> SUFFICES ASSUME SessionControl, [SessionNext]_sessionVars
             PROVE  SessionControl'
  OBVIOUS
<1> USE SessionAssumption
    DEF SessionControl, SessionTypeOK, HandInv, HandPcs, EndPcs, Goto, Hand
<1>r. session \in [Sessions -> SessionRecords]
  BY DEF SessionRecords
<1>s. ASSUME session' \in [Sessions -> SessionRecords],
             UNCHANGED <<head, size, now, timeout>>,
             node' \in [Threads -> Sessions \cup {NoSession}],
             pc' \in [Threads -> {"idle", "get", "count", "check", "new",
                                  "using", "put", "put_count"} \cup EndPcs],
             ended' \in 0 .. EndLimit, HandInv'
      PROVE  SessionControl'
  BY <1>s DEF SessionRecords
<1>1. ASSUME NEW t \in Threads, NEW from, NEW got, NEW none,
             TryGetStep(t, from, got, none),
             \/ from = "get" /\ got = "count" /\ none = "new"
             \/ from = "end_get" /\ got = "end_count" /\ none = "end_send"
      PROVE  SessionControl'
  <2>1. CASE head = <<>>
    BY <1>1, <2>1 DEF TryGetStep
  <2>2. CASE head # <<>>
    <3>1. Head(head) \in Sessions /\ head' \in Seq(Sessions)
      <4>1. head \in Seq(Sessions) /\ head' = Tail(head)
        BY <1>1, <2>2 DEF TryGetStep
      <4> QED
        BY <2>2, <4>1, PopHead
    <3>2. node' = [node EXCEPT ![t] = Head(head)]
          /\ pc' = [pc EXCEPT ![t] = got]
      BY <1>1, <2>2 DEF TryGetStep
    <3>3. node' \in [Threads -> Sessions \cup {NoSession}]
      BY <3>1, <3>2
    <3>5. got \in HandPcs /\ Head(head) # NoSession
      BY <1>1, <3>1
    <3>6. ASSUME NEW u \in Threads
          PROVE  node'[u] # NoSession <=> pc'[u] \in HandPcs
      <4>1. CASE u = t
        BY <3>2, <3>5, <4>1
      <4>2. CASE u # t
        <5>1. node'[u] = node[u] /\ pc'[u] = pc[u]
          BY <3>2, <4>2
        <5> QED
          BY <5>1
      <4> QED
        BY <4>1, <4>2
    <3>4. pc' \in [Threads -> {"idle", "get", "count", "check", "new",
                               "using", "put", "put_count"} \cup EndPcs]
      BY <1>1, <3>2
    <3> QED
      BY <1>1, <3>1, <3>3, <3>4, <3>6 DEF TryGetStep
  <2> QED
    BY <2>1, <2>2
<1>2. ASSUME NEW t \in Threads, NEW from, NEW to, NEW n \in {-1, 1},
             CountStep(t, from, to, n), UNCHANGED node,
             \/ from = "count" /\ to = "check"
             \/ from = "end_count" /\ to = "end_check"
             \/ from = "put_count" /\ to = "idle"
             \/ from = "end_put_count" /\ to = "end_send"
      PROVE  SessionControl'
  BY <1>2 DEF CountStep
<1>3. ASSUME NEW t \in Threads, NEW from, NEW put, NEW done,
             ReturnCheck(t, from, put, done),
             \/ from = "using" /\ put = "put" /\ done = "idle"
             \/ from = "end_return" /\ put = "end_put" /\ done = "end_send"
      PROVE  SessionControl'
  <2>1. node[t] \in Sessions
    BY <1>3 DEF ReturnCheck
  <2>2. session' \in [Sessions -> SessionRecords]
    BY <1>r, <1>3, <2>1, RecordOps DEF ReturnCheck, Drop
  <2> QED
    BY <1>s, <1>3, <2>1, <2>2 DEF ReturnCheck
<1>4. ASSUME NEW t \in Threads, NEW from, NEW count,
             ReturnItem(t, from, count),
             \/ from = "put" /\ count = "put_count"
             \/ from = "end_put" /\ count = "end_put_count"
      PROVE  SessionControl'
  <2>1. node[t] \in Sessions /\ head' \in Seq(Sessions)
    BY <1>4, PushHead DEF ReturnItem
  <2> QED
    BY <1>4, <2>1 DEF ReturnItem
<1>5. ASSUME NEW t \in Threads, PopServerSession(t) PROVE SessionControl'
  BY <1>5 DEF PopServerSession
<1>6. ASSUME NEW t \in Threads, TryGet(t) PROVE SessionControl'
  BY <1>1, <1>6 DEF TryGet
<1>7. ASSUME NEW t \in Threads, TryGetCount(t) PROVE SessionControl'
  BY <1>2, <1>7 DEF TryGetCount
<1>8. ASSUME NEW t \in Threads, GetCheck(t) PROVE SessionControl'
  <2>1. node[t] \in Sessions
    BY <1>8 DEF GetCheck
  <2>2. session' \in [Sessions -> SessionRecords]
    BY <1>r, <1>8, <2>1, RecordOps DEF GetCheck, Drop
  <2> QED
    BY <1>s, <1>8, <2>1, <2>2 DEF GetCheck
<1>9. ASSUME NEW t \in Threads, NewItem(t) PROVE SessionControl'
  <2>1. CASE UNCHANGED <<session, node>>
    BY <1>r, <1>s, <1>9, <2>1 DEF NewItem
  <2>2. ASSUME NEW s \in Sessions, Goto(t, "using"), Hand(t, s),
               session' = [session EXCEPT ![s].life = "live"]
        PROVE  SessionControl'
    <3>1. session' \in [Sessions -> SessionRecords]
      BY <1>r, <2>2, RecordOps
    <3> QED
      BY <1>s, <1>9, <2>2, <3>1 DEF NewItem
  <2> QED
    BY <1>9, <2>1, <2>2 DEF NewItem
<1>10. ASSUME NEW t \in Threads, UseSession(t) \/ NetworkError(t)
       PROVE  SessionControl'
  <2>1. node[t] \in Sessions
    BY <1>10 DEF UseSession, NetworkError
  <2>2. session' \in [Sessions -> SessionRecords]
    <3>1. CASE UseSession(t)
      <4>1. now \in Int
        OBVIOUS
      <4> QED
        BY <1>r, <2>1, <3>1, <4>1, RecordOps DEF UseSession
    <3>2. CASE NetworkError(t)
      BY <1>r, <2>1, <3>2, RecordOps DEF NetworkError
    <3> QED
      BY <1>10, <3>1, <3>2
  <2> QED
    BY <1>s, <1>10, <2>2 DEF UseSession, NetworkError
<1>11. ASSUME NEW t \in Threads, Return(t) PROVE SessionControl'
  BY <1>2, <1>3, <1>4, <1>11 DEF Return
<1>12. ASSUME NEW t \in Threads, EndBegin(t) PROVE SessionControl'
  BY <1>12 DEF EndBegin
<1>13. ASSUME NEW t \in Threads, EndLoop(t) PROVE SessionControl'
  <2>1. 0 \in 0 .. EndLimit
    OBVIOUS
  <2> QED
    BY <1>r, <1>s, <1>13, <2>1 DEF EndLoop
<1>14. ASSUME NEW t \in Threads, EndGet(t) PROVE SessionControl'
  BY <1>1, <1>2, <1>14 DEF EndGet
<1>15. ASSUME NEW t \in Threads, EndCheck(t) PROVE SessionControl'
  <2>1. node[t] \in Sessions
    BY <1>15 DEF EndCheck
  <2>2. ended' \in 0 .. EndLimit
    BY <1>15 DEF EndCheck
  <2>3. session' \in [Sessions -> SessionRecords]
    BY <1>r, <1>15, <2>1, RecordOps DEF EndCheck, Drop
  <2> QED
    BY <1>s, <1>15, <2>1, <2>2, <2>3 DEF EndCheck
<1>16. ASSUME NEW t \in Threads, EndReturn(t) PROVE SessionControl'
  BY <1>2, <1>3, <1>4, <1>16 DEF EndReturn
<1>17. ASSUME NEW t \in Threads, EndSend(t) PROVE SessionControl'
  BY <1>17 DEF EndSend
<1>18. ASSUME Tick \/ ChangeTimeout PROVE SessionControl'
  BY <1>18 DEF Tick, ChangeTimeout
<1>19. ASSUME UNCHANGED sessionVars PROVE SessionControl'
  BY <1>19 DEF sessionVars
<1> QED
  BY <1>5, <1>6, <1>7, <1>8, <1>9, <1>10, <1>11, <1>12, <1>13, <1>14,
     <1>15, <1>16, <1>17, <1>18, <1>19
  DEF SessionNext, SessionStep, EndStep

----------------------------------------------------------------------------
(***************************************************************************)
(* One holder per session: the moves of a session.                         *)
(***************************************************************************)
(* Nothing moves.                                                          *)
LEMMA HolderKeep ==
  ASSUME OneHolder, UNCHANGED <<head, node>>,
         \A s \in Sessions : session'[s].life = session[s].life
  PROVE  OneHolder'
<1>1. Listed' = Listed /\ InHand' = InHand
  BY DEF Listed, InHand
<1> QED
  BY <1>1 DEF OneHolder

(* _try_get: from the head of the list to a free hand.                     *)
LEMMA HolderTake ==
  ASSUME SessionControl, OneHolder, NEW t \in Threads, head # <<>>,
         node[t] = NoSession, Hand(t, Head(head)), head' = Tail(head),
         UNCHANGED session
  PROVE  OneHolder'
<1> USE DEF SessionControl, SessionTypeOK
<1>1. /\ Distinct(head) /\ Listed = Elements(head)
      /\ Distinct(head') = Distinct(Tail(head))
      /\ Listed' = Elements(Tail(head))
  BY DEF OneHolder, Listed, Elements, Distinct
<1>2. /\ Distinct(head') /\ Head(head) \in Listed
      /\ Listed' = Listed \ {Head(head)}
  BY <1>1, PopElements
<1>3. Head(head) \in Sessions
  BY PopHead
<1>4. node' = [node EXCEPT ![t] = Head(head)] /\ Head(head) # NoSession
  BY <1>3, SessionAssumption DEF Hand
<1>5. InHand' = InHand \cup {Head(head)}
  BY <1>4 DEF InHand
<1>6. \A u \in Threads : node[u] # Head(head)
  BY <1>2, <1>4 DEF OneHolder, InHand
<1>7. \A u, v \in Threads : node'[u] = node'[v] /\ node'[u] # NoSession
                              => u = v
  BY <1>4, <1>6 DEF OneHolder
<1>8. Listed' \cap InHand' = {} /\ Listed' \cup InHand' = Listed \cup InHand
  BY <1>2, <1>5 DEF OneHolder
<1> QED
  BY <1>2, <1>7, <1>8 DEF OneHolder, Distinct

(* _return: from a hand to the head of the list.                           *)
LEMMA HolderPut ==
  ASSUME SessionControl, OneHolder, NEW t \in Threads,
         node[t] # NoSession, Hand(t, NoSession),
         head' = <<node[t]>> \o head, UNCHANGED session
  PROVE  OneHolder'
<1> USE DEF SessionControl, SessionTypeOK
<1>1. node[t] \in Sessions /\ node[t] \in InHand /\ node[t] \notin Listed
  BY DEF OneHolder, InHand
<1>2. /\ Distinct(head) /\ Listed = Elements(head)
      /\ Distinct(head') = Distinct(<<node[t]>> \o head)
      /\ Listed' = Elements(<<node[t]>> \o head)
  BY DEF OneHolder, Listed, Elements, Distinct
<1>3. Distinct(head') /\ Listed' = Listed \cup {node[t]}
  BY <1>1, <1>2, PushElements
<1>4. node' = [node EXCEPT ![t] = NoSession]
  BY DEF Hand
<1>5. InHand' = InHand \ {node[t]}
  BY <1>4 DEF InHand, OneHolder
<1>6. \A u, v \in Threads : node'[u] = node'[v] /\ node'[u] # NoSession
                              => u = v
  BY <1>4 DEF OneHolder
<1>7. Listed' \cap InHand' = {} /\ Listed' \cup InHand' = Listed \cup InHand
  BY <1>1, <1>3, <1>5 DEF OneHolder
<1> QED
  BY <1>3, <1>6, <1>7 DEF OneHolder, Distinct

(* mongoc_ts_pool_drop: out of a hand.                                     *)
LEMMA HolderDrop ==
  ASSUME SessionControl, OneHolder, NEW t \in Threads,
         node[t] # NoSession, Hand(t, NoSession), Drop(node[t]),
         UNCHANGED head
  PROVE  OneHolder'
<1> USE DEF SessionControl, SessionTypeOK
<1>1. node[t] \in Sessions /\ node[t] \in InHand /\ node[t] \notin Listed
  BY DEF OneHolder, InHand
<1>2. node' = [node EXCEPT ![t] = NoSession]
  BY DEF Hand
<1>3. InHand' = InHand \ {node[t]} /\ Listed' = Listed
  BY <1>2 DEF InHand, OneHolder, Listed
<1>4. Freed.life # "live"
  BY DEF Freed, Unborn
<1>5. \A s \in Sessions :
        session'[s].life = "live" <=> session[s].life = "live" /\ s # node[t]
  BY <1>1, <1>4 DEF Drop
<1>6. \A u, v \in Threads : node'[u] = node'[v] /\ node'[u] # NoSession
                              => u = v
  BY <1>2 DEF OneHolder
<1>7. \A s \in Sessions : session'[s].life = "live"
                             <=> s \in Listed' \cup InHand'
  BY <1>1, <1>3, <1>5 DEF OneHolder
<1> QED
  BY <1>3, <1>6, <1>7 DEF OneHolder

(* _new_item: a session that was nowhere comes to a free hand.             *)
LEMMA HolderNew ==
  ASSUME SessionControl, OneHolder, NEW t \in Threads, NEW s \in Sessions,
         node[t] = NoSession, session[s].life = "none", Hand(t, s),
         session' = [session EXCEPT ![s].life = "live"], UNCHANGED head
  PROVE  OneHolder'
<1> USE DEF SessionControl, SessionTypeOK
<1>1. s # NoSession /\ s \notin Listed /\ s \notin InHand
  BY SessionAssumption DEF OneHolder
<1>2. node' = [node EXCEPT ![t] = s]
  BY DEF Hand
<1>3. InHand' = InHand \cup {s} /\ Listed' = Listed
  BY <1>1, <1>2 DEF InHand, Listed
<1>4. \A x \in Sessions :
        session'[x].life = "live" <=> session[x].life = "live" \/ x = s
  OBVIOUS
<1>5. \A u, v \in Threads : node'[u] = node'[v] /\ node'[u] # NoSession
                              => u = v
  BY <1>1, <1>2 DEF OneHolder, InHand
<1>6. \A x \in Sessions : session'[x].life = "live"
                             <=> x \in Listed' \cup InHand'
  BY <1>3, <1>4 DEF OneHolder
<1> QED
  BY <1>1, <1>3, <1>5, <1>6 DEF OneHolder

(* Every step is one of these moves.                                       *)
LEMMA HolderStep ==
  SessionControl /\ OneHolder /\ [SessionNext]_sessionVars => OneHolder'
<1> SUFFICES ASSUME SessionControl, OneHolder, [SessionNext]_sessionVars
             PROVE  OneHolder'
  OBVIOUS
<1> USE DEF SessionControl, HandInv, HandPcs
<1>1. ASSUME UNCHANGED <<head, node, session>> PROVE OneHolder'
  BY <1>1, HolderKeep
<1>2. ASSUME NEW t \in Threads, NEW from, NEW got, NEW none,
             TryGetStep(t, from, got, none), from \in {"get", "end_get"}
      PROVE  OneHolder'
  <2>1. CASE head = <<>>
    BY <1>1, <1>2, <2>1 DEF TryGetStep
  <2>2. CASE head # <<>>
    BY <1>2, <2>2, HolderTake DEF TryGetStep
  <2> QED
    BY <2>1, <2>2
<1>3. ASSUME NEW t \in Threads, NEW from, NEW to, NEW n,
             CountStep(t, from, to, n), UNCHANGED node
      PROVE  OneHolder'
  BY <1>1, <1>3 DEF CountStep
<1>4. ASSUME NEW t \in Threads, NEW from, NEW put, NEW done,
             ReturnCheck(t, from, put, done), from \in {"using", "end_return"}
      PROVE  OneHolder'
  <2>1. CASE ShouldPrune(node[t])
    BY <1>4, <2>1, HolderDrop DEF ReturnCheck
  <2>2. CASE ~ShouldPrune(node[t])
    BY <1>1, <1>4, <2>2 DEF ReturnCheck
  <2> QED
    BY <2>1, <2>2
<1>5. ASSUME NEW t \in Threads, NEW from, NEW count,
             ReturnItem(t, from, count), from \in {"put", "end_put"}
      PROVE  OneHolder'
  BY <1>5, HolderPut DEF ReturnItem
<1>6. ASSUME NEW t \in Threads,
             \/ PopServerSession(t) \/ EndBegin(t) \/ EndLoop(t) \/ EndSend(t)
      PROVE  OneHolder'
  BY <1>1, <1>6 DEF PopServerSession, EndBegin, EndLoop, EndSend
<1>7. ASSUME NEW t \in Threads, TryGet(t) \/ TryGetCount(t) \/ EndGet(t)
      PROVE  OneHolder'
  BY <1>2, <1>3, <1>7 DEF TryGet, TryGetCount, EndGet
<1>8. ASSUME NEW t \in Threads, GetCheck(t) PROVE OneHolder'
  <2>1. CASE ShouldPrune(node[t])
    BY <1>8, <2>1, HolderDrop DEF GetCheck
  <2>2. CASE ~ShouldPrune(node[t])
    BY <1>1, <1>8, <2>2 DEF GetCheck
  <2> QED
    BY <2>1, <2>2
<1>9. ASSUME NEW t \in Threads, NewItem(t) PROVE OneHolder'
  <2>1. CASE UNCHANGED <<session, node>>
    BY <1>1, <1>9, <2>1 DEF NewItem
  <2>2. CASE ~UNCHANGED <<session, node>>
    BY <1>9, <2>2, HolderNew DEF NewItem
  <2> QED
    BY <2>1, <2>2
<1>10. ASSUME NEW t \in Threads, UseSession(t) \/ NetworkError(t)
       PROVE  OneHolder'
  <2>1. ASSUME NEW s \in Sessions
        PROVE  session'[s].life = session[s].life
    <3>1. session'[s] = session[s]
          \/ session'[s] = [session[s] EXCEPT !.last_used = now]
          \/ session'[s] = [session[s] EXCEPT !.dirty = TRUE]
      BY <1>10 DEF UseSession, NetworkError, SessionTypeOK
    <3>2. session[s] \in SessionRecords
      BY DEF SessionTypeOK, SessionRecords
    <3> QED
      BY <3>1, <3>2 DEF SessionRecords
  <2> QED
    BY <1>10, <2>1, HolderKeep DEF UseSession, NetworkError
<1>11. ASSUME NEW t \in Threads, Return(t) \/ EndReturn(t)
       PROVE  OneHolder'
  BY <1>3, <1>4, <1>5, <1>11 DEF Return, EndReturn
<1>12. ASSUME NEW t \in Threads, EndCheck(t) PROVE OneHolder'
  <2>1. CASE ShouldPrune(node[t]) \/ ended < EndLimit
    BY <1>12, <2>1, HolderDrop DEF EndCheck
  <2>2. CASE ~(ShouldPrune(node[t]) \/ ended < EndLimit)
    BY <1>1, <1>12, <2>2 DEF EndCheck
  <2> QED
    BY <2>1, <2>2
<1>13. ASSUME Tick \/ ChangeTimeout \/ UNCHANGED sessionVars
       PROVE  OneHolder'
  BY <1>1, <1>13 DEF Tick, ChangeTimeout, sessionVars
<1> QED
  BY <1>6, <1>7, <1>8, <1>9, <1>10, <1>11, <1>12, <1>13
  DEF SessionNext, SessionStep, EndStep

----------------------------------------------------------------------------
(***************************************************************************)
(* The counter: the moves of a thread between the mutex and the counter.   *)
(***************************************************************************)
TakenPcs == {"count", "end_count"}
PutPcs == {"put_count", "end_put_count"}
OtherPcs == {"idle", "get", "check", "new", "using", "put", "end", "end_get",
             "end_check", "end_return", "end_put", "end_send"}

(* The counter in terms of the threads at these places.                    *)
Balance(p, h) == Len(h) + Cardinality(Among(p, TakenPcs))
                        - Cardinality(Among(p, PutPcs))

(* SizeExact says that the counter is that balance.                        *)
LEMMA SizeIsBalance ==
  /\ SizeExact <=> size = Balance(pc, head)
  /\ SizeExact' <=> size' = Balance(pc', head')
BY DEF SizeExact, Balance, Uncounted, Among, TakenPcs, PutPcs

(* Other moves, that leave the list as long as it is, do not change it.    *)
LEMMA BalanceOther ==
  ASSUME NEW p, NEW q, NEW g, NEW h, NEW t \in Threads, Only(p, q, t),
         p[t] \in OtherPcs, q[t] \in OtherPcs, Len(g) = Len(h)
  PROVE  Balance(q, g) = Balance(p, h)
<1>1. Among(q, TakenPcs) = Among(p, TakenPcs)
      /\ Among(q, PutPcs) = Among(p, PutPcs)
  BY DEF Among, Only, OtherPcs, TakenPcs, PutPcs
<1> QED
  BY <1>1 DEF Balance

(* _try_get takes a session from the list that is still counted.           *)
LEMMA BalanceTaken ==
  ASSUME NEW p, NEW q, NEW g, NEW h, NEW t \in Threads, Only(p, q, t),
         p[t] \in OtherPcs, q[t] \in TakenPcs,
         Len(h) \in Nat, Len(g) = Len(h) - 1
  PROVE  Balance(q, g) = Balance(p, h)
<1>1. Among(q, PutPcs) = Among(p, PutPcs)
  BY DEF Among, Only, OtherPcs, TakenPcs, PutPcs
<1>2. p[t] \notin TakenPcs
  BY DEF OtherPcs, TakenPcs
<1>3. Cardinality(Among(q, TakenPcs)) = Cardinality(Among(p, TakenPcs)) + 1
  BY <1>2, AmongGain, Zenon
<1>4. /\ Cardinality(Among(p, TakenPcs)) \in Nat
      /\ Cardinality(Among(p, PutPcs)) \in Nat
  BY AmongFinite
<1> QED
  BY <1>1, <1>3, <1>4 DEF Balance

(* Its atomic decrement makes up for it.                                   *)
LEMMA BalanceTakenCounted ==
  ASSUME NEW p, NEW q, NEW h, NEW t \in Threads, Only(p, q, t),
         p[t] \in TakenPcs, q[t] \in OtherPcs, Len(h) \in Nat
  PROVE  Balance(q, h) = Balance(p, h) - 1
<1>1. Among(q, PutPcs) = Among(p, PutPcs)
  BY DEF Among, Only, OtherPcs, TakenPcs, PutPcs
<1>2. q[t] \notin TakenPcs
  BY DEF OtherPcs, TakenPcs
<1>3. Cardinality(Among(q, TakenPcs)) = Cardinality(Among(p, TakenPcs)) - 1
  BY <1>2, AmongLose, Zenon
<1>4. /\ Cardinality(Among(p, TakenPcs)) \in Nat
      /\ Cardinality(Among(p, PutPcs)) \in Nat
  BY AmongFinite
<1> QED
  BY <1>1, <1>3, <1>4 DEF Balance

(* A session is put on the list and not counted yet.                       *)
LEMMA BalancePut ==
  ASSUME NEW p, NEW q, NEW g, NEW h, NEW t \in Threads, Only(p, q, t),
         p[t] \in OtherPcs, q[t] \in PutPcs,
         Len(h) \in Nat, Len(g) = Len(h) + 1
  PROVE  Balance(q, g) = Balance(p, h)
<1>1. Among(q, TakenPcs) = Among(p, TakenPcs)
  BY DEF Among, Only, OtherPcs, TakenPcs, PutPcs
<1>2. p[t] \notin PutPcs
  BY DEF OtherPcs, PutPcs
<1>3. Cardinality(Among(q, PutPcs)) = Cardinality(Among(p, PutPcs)) + 1
  BY <1>2, AmongGain, Zenon
<1>4. /\ Cardinality(Among(p, TakenPcs)) \in Nat
      /\ Cardinality(Among(p, PutPcs)) \in Nat
  BY AmongFinite
<1> QED
  BY <1>1, <1>3, <1>4 DEF Balance

(* The atomic increment makes up for it.                                   *)
LEMMA BalancePutCounted ==
  ASSUME NEW p, NEW q, NEW h, NEW t \in Threads, Only(p, q, t),
         p[t] \in PutPcs, q[t] \in OtherPcs, Len(h) \in Nat
  PROVE  Balance(q, h) = Balance(p, h) + 1
<1>1. Among(q, TakenPcs) = Among(p, TakenPcs)
  BY DEF Among, Only, OtherPcs, TakenPcs, PutPcs
<1>2. q[t] \notin PutPcs
  BY DEF OtherPcs, PutPcs
<1>3. Cardinality(Among(q, PutPcs)) = Cardinality(Among(p, PutPcs)) - 1
  BY <1>2, AmongLose, Zenon
<1>4. /\ Cardinality(Among(p, TakenPcs)) \in Nat
      /\ Cardinality(Among(p, PutPcs)) \in Nat
  BY AmongFinite
<1> QED
  BY <1>1, <1>3, <1>4 DEF Balance

(* Every step keeps the counter exact up to these threads.                 *)
LEMMA SizeStep ==
  SessionControl /\ SizeExact /\ [SessionNext]_sessionVars => SizeExact'
<1> SUFFICES ASSUME SessionControl, SizeExact, [SessionNext]_sessionVars
             PROVE  SizeExact'
  OBVIOUS
<1>0. /\ size \in Int /\ Len(head) \in Nat /\ size = Balance(pc, head)
      /\ pc \in [Threads -> OtherPcs \cup TakenPcs \cup PutPcs]
  BY SizeIsBalance, LenProperties
  DEF SessionControl, SessionTypeOK, OtherPcs, TakenPcs, PutPcs, EndPcs
<1>1. ASSUME NEW t \in Threads, NEW l, Goto(t, l)
      PROVE  Only(pc, pc', t) /\ pc'[t] = l
  BY <1>0, <1>1 DEF Goto, Only
<1>2. ASSUME NEW t \in Threads, NEW l, Goto(t, l), pc[t] \in OtherPcs,
             l \in OtherPcs, UNCHANGED <<head, size>>
      PROVE  SizeExact'
  <2>1. Balance(pc', head') = Balance(pc, head)
    BY <1>1, <1>2, BalanceOther
  <2> QED
    BY <1>0, <1>2, <2>1, SizeIsBalance
<1>3. ASSUME NEW t \in Threads, NEW from, NEW got, NEW none,
             TryGetStep(t, from, got, none),
             from \in OtherPcs, got \in TakenPcs, none \in OtherPcs
      PROVE  SizeExact'
  <2>1. CASE head = <<>>
    BY <1>2, <1>3, <2>1 DEF TryGetStep
  <2>2. CASE head # <<>>
    <3>1. Len(head') = Len(head) - 1
      BY <1>3, <2>2, PopHead
      DEF TryGetStep, SessionControl, SessionTypeOK
    <3>2. Only(pc, pc', t) /\ pc[t] \in OtherPcs /\ pc'[t] \in TakenPcs
      BY <1>1, <1>3, <2>2 DEF TryGetStep
    <3>3. Balance(pc', head') = Balance(pc, head)
      BY <1>0, <3>1, <3>2, BalanceTaken
    <3> QED
      BY <1>0, <1>3, <3>3, SizeIsBalance DEF TryGetStep
  <2> QED
    BY <2>1, <2>2
<1>4. ASSUME NEW t \in Threads, NEW from, NEW to,
             CountStep(t, from, to, -1), from \in TakenPcs, to \in OtherPcs
      PROVE  SizeExact'
  <2>1. /\ Only(pc, pc', t) /\ pc[t] \in TakenPcs /\ pc'[t] \in OtherPcs
        /\ head' = head
    BY <1>1, <1>4 DEF CountStep
  <2>2. Balance(pc', head') = Balance(pc, head) - 1
    BY <1>0, <2>1, BalanceTakenCounted
  <2> QED
    BY <1>0, <1>4, <2>2, SizeIsBalance DEF CountStep
<1>5. ASSUME NEW t \in Threads, NEW from, NEW to,
             CountStep(t, from, to, 1), from \in PutPcs, to \in OtherPcs
      PROVE  SizeExact'
  <2>1. /\ Only(pc, pc', t) /\ pc[t] \in PutPcs /\ pc'[t] \in OtherPcs
        /\ head' = head
    BY <1>1, <1>5 DEF CountStep
  <2>2. Balance(pc', head') = Balance(pc, head) + 1
    BY <1>0, <2>1, BalancePutCounted
  <2> QED
    BY <1>0, <1>5, <2>2, SizeIsBalance DEF CountStep
<1>6. ASSUME NEW t \in Threads, NEW from, NEW put, NEW done,
             ReturnCheck(t, from, put, done),
             from \in OtherPcs, put \in OtherPcs, done \in OtherPcs
      PROVE  SizeExact'
  BY <1>2, <1>6 DEF ReturnCheck
<1>7. ASSUME NEW t \in Threads, NEW from, NEW count,
             ReturnItem(t, from, count),
             from \in {"put", "end_put"}, count \in PutPcs
      PROVE  SizeExact'
  <2>1. node[t] \in Sessions
    BY <1>7 DEF ReturnItem, SessionControl, SessionTypeOK, HandInv, HandPcs
  <2>2. Len(head') = Len(head) + 1
    BY <1>7, <2>1, PushHead DEF ReturnItem, SessionControl, SessionTypeOK
  <2>3. Only(pc, pc', t) /\ pc[t] \in OtherPcs /\ pc'[t] \in PutPcs
    BY <1>1, <1>7 DEF ReturnItem, OtherPcs
  <2>4. Balance(pc', head') = Balance(pc, head)
    BY <1>0, <2>2, <2>3, BalancePut
  <2> QED
    BY <1>0, <1>7, <2>4, SizeIsBalance DEF ReturnItem
<1> USE DEF OtherPcs, TakenPcs, PutPcs
<1>8. ASSUME NEW t \in Threads,
             \/ PopServerSession(t) \/ EndBegin(t) \/ EndLoop(t) \/ EndSend(t)
      PROVE  SizeExact'
  BY <1>2, <1>8 DEF PopServerSession, EndBegin, EndLoop, EndSend
<1>9. ASSUME NEW t \in Threads, TryGet(t) \/ TryGetCount(t) \/ EndGet(t)
      PROVE  SizeExact'
  BY <1>3, <1>4, <1>9 DEF TryGet, TryGetCount, EndGet
<1>10. ASSUME NEW t \in Threads, GetCheck(t) \/ NewItem(t) \/ EndCheck(t)
       PROVE  SizeExact'
  BY <1>2, <1>10 DEF GetCheck, NewItem, EndCheck
<1>11. ASSUME NEW t \in Threads, Return(t) \/ EndReturn(t)
       PROVE  SizeExact'
  BY <1>5, <1>6, <1>7, <1>11 DEF Return, EndReturn
<1>12. ASSUME UNCHANGED <<head, size, pc>> PROVE SizeExact'
  BY <1>12 DEF SizeExact, Uncounted
<1>13. ASSUME NEW t \in Threads, UseSession(t) \/ NetworkError(t)
       PROVE  SizeExact'
  BY <1>12, <1>13 DEF UseSession, NetworkError
<1>14. ASSUME Tick \/ ChangeTimeout \/ UNCHANGED sessionVars
       PROVE  SizeExact'
  BY <1>12, <1>14 DEF Tick, ChangeTimeout, sessionVars
<1> QED
  BY <1>8, <1>9, <1>10, <1>11, <1>13, <1>14
  DEF SessionNext, SessionStep, EndStep

----------------------------------------------------------------------------
(***************************************************************************)
(* The theorems.                                                           *)
(***************************************************************************)
SessionInv ==
  /\ SessionControl
  /\ OneHolder
  /\ SizeExact

(* A new pool has no session and no thread in it.                          *)
LEMMA SessionInvInit == SessionInit => SessionInv
<1> SUFFICES ASSUME SessionInit PROVE SessionInv
  OBVIOUS
<1>1. Listed = {} /\ InHand = {}
  BY DEF SessionInit, Listed, InHand
<1>2. OneHolder
  BY <1>1 DEF SessionInit, OneHolder, Unborn
<1>3. Among(pc, TakenPcs) = {} /\ Among(pc, PutPcs) = {} /\ Len(head) = 0
  BY DEF SessionInit, Among, TakenPcs, PutPcs
<1>4. Balance(pc, head) = 0
  BY <1>3, FS_EmptySet DEF Balance
<1> QED
  BY <1>2, <1>4, SessionControlInit, SizeIsBalance
  DEF SessionInv, SessionInit

(* No step of the pool breaks the invariant.                               *)
LEMMA SessionInvStep ==
  SessionInv /\ [SessionNext]_sessionVars => SessionInv'
BY SessionControlStep, HolderStep, SizeStep DEF SessionInv

(* The session pool alone, whichever threads use it: two client sessions   *)
(* never share a server session, none leaks, and the counter that is       *)
(* changed outside the mutex is exact whenever nobody is between the two.  *)
THEOREM SessionPoolCorrect ==
  SessionSpec => [](SessionTypeOK /\ OneHolder /\ SizeExact)
<1>1. SessionInv => SessionTypeOK /\ OneHolder /\ SizeExact
  BY DEF SessionInv, SessionControl
<1> QED
  BY <1>1, SessionInvInit, SessionInvStep, PTL DEF SessionSpec

----------------------------------------------------------------------------
(***************************************************************************)
(* The invariants of the two pools hold for the threads that share them,   *)
(* also while mongoc_client_pool_destroy runs, and destroy finds a client  *)
(* and leaves nothing.                                                     *)
(***************************************************************************)
AllOutside == \A t \in Threads : at[t] = "outside"

(* Sessions are used by holders of clients only, so that a session in the  *)
(* pool shows that there is a client.                                      *)
UseInv ==
  /\ \A t \in Threads : pc[t] # "idle" => at[t] = "holding"
  /\ head # <<>> => pool_size > 0

(* Who is where while mongoc_client_pool_destroy runs.                     *)
DestroyInv ==
  /\ destroy \in [pc : {"no", "pop", "sessions", "clients", "done"},
                  by : Threads \cup {None}]
  /\ destroy.pc # "no" => destroy.by \in Threads
  /\ destroy.pc \in {"pop", "clients", "done"} => AllOutside
  /\ destroy.pc = "sessions" =>
       /\ at[destroy.by] = "holding"
       /\ \A t \in Threads : t # destroy.by => at[t] = "outside"
  /\ DestroyFindsClient

(* A client that is neither idle nor in use has no connections.            *)
UnusedInv == \A c \in Clients : c \notin Idle \cup InUse => nodes[c] = {}

Inv ==
  /\ PoolInv /\ SessionInv
  /\ UnusedInv /\ UseInv /\ DestroyInv /\ NothingLeft

(* A thread that holds a client is counted in the size of the pool.        *)
LEMMA HolderCounted ==
  ASSUME PoolInv, NEW t \in Threads, at[t] = "holding"
  PROVE  pool_size > 0
<1>1. t \in Holders /\ IsFiniteSet(Holders) /\ Cardinality(Holders) \in Nat
  BY Places, AmongFinite DEF Holders
<1>2. Cardinality(Holders) # 0
  BY <1>1, FS_EmptySet
<1>3. Len(queue) \in Nat
  BY LenProperties DEF PoolInv, ControlInv, PoolTypeOK
<1> QED
  BY <1>1, <1>2, <1>3 DEF PoolInv, OneOwner

(* When nobody holds a client, every client of the pool is in the queue.   *)
LEMMA NobodyHolds ==
  ASSUME PoolInv, AllOutside
  PROVE  /\ Len(queue) \in Nat /\ pool_size = Len(queue)
         /\ InUse = {} /\ Sleepers = {} /\ Holders = {}
<1>1. InUse = {} /\ Sleepers = {} /\ Holders = {}
  BY DEF PoolInv, ControlInv, AllOutside, InUse, Sleepers, Holders
<1>2. Cardinality(Holders) = 0 /\ Len(queue) \in Nat
  BY <1>1, FS_EmptySet, LenProperties DEF PoolInv, ControlInv, PoolTypeOK
<1> QED
  BY <1>1, <1>2 DEF PoolInv, OneOwner

(* When nobody uses a session, the counter is the length of the list.      *)
LEMMA NobodyUses ==
  ASSUME SessionInv, \A t \in Threads : pc[t] = "idle"
  PROVE  size = Len(head) /\ InHand = {}
<1>1. InHand = {}
  BY DEF SessionInv, SessionControl, HandInv, HandPcs, InHand
<1>2. Among(pc, TakenPcs) = {} /\ Among(pc, PutPcs) = {}
  BY DEF Among, TakenPcs, PutPcs
<1>3. Len(head) \in Nat
  BY LenProperties DEF SessionInv, SessionControl, SessionTypeOK
<1>4. Balance(pc, head) = Len(head)
  BY <1>2, <1>3, FS_EmptySet DEF Balance
<1> QED
  BY <1>1, <1>4, SizeIsBalance DEF SessionInv

----------------------------------------------------------------------------
(* Every step but the last one of destroy is a step of the pool, or none,  *)
(* together with a step of the session pool, or none.                      *)
LEMMA StepOfPools ==
  ASSUME DestroyInv, [Next]_vars
  PROVE  \/ [PoolNext]_poolVars /\ [SessionNext]_sessionVars
         \/ DestroyClients
<1>1. CASE UsePool
  BY <1>1 DEF UsePool, PoolNext
<1>2. CASE UseSessions
  BY <1>2 DEF UseSessions, SessionNext
<1>3. CASE Background
  BY <1>3 DEF Background, PoolNext, SessionNext
<1>4. CASE \E t \in Threads : DestroyBegin(t)
  BY <1>4 DEF DestroyBegin
<1>5. CASE DestroyPop
  <2>1. destroy.by \in Threads
    BY <1>5 DEF DestroyPop, DestroyInv
  <2> QED
    BY <1>5, <2>1 DEF DestroyPop, PoolNext, SessionNext, ThreadStep
<1>6. CASE DestroySessions
  <2>1. destroy.by \in Threads
    BY <1>6 DEF DestroySessions, DestroyInv
  <2> QED
    BY <1>6, <2>1 DEF DestroySessions, PoolNext, SessionNext, ThreadStep
<1>7. CASE DestroyPush
  <2>1. destroy.by \in Threads
    BY <1>7 DEF DestroyPush, DestroyInv
  <2> QED
    BY <1>7, <2>1 DEF DestroyPush, PoolNext
<1>8. CASE Terminated \/ UNCHANGED vars
  BY <1>8 DEF Terminated, vars
<1> QED
  BY <1>1, <1>2, <1>3, <1>4, <1>5, <1>6, <1>7, <1>8 DEF Next

(* The last step of destroy keeps the invariants of the pools and leaves   *)
(* nothing.                                                                *)
LEMMA LastStep ==
  ASSUME Inv, DestroyClients
  PROVE  PoolInv' /\ SessionInv' /\ UnusedInv' /\ NothingLeft'
<1> USE DEF DestroyClients
<1>1. AllOutside
  BY DEF Inv, DestroyInv
<1>2. /\ Len(queue) \in Nat /\ pool_size = Len(queue)
      /\ InUse = {} /\ Sleepers = {} /\ Holders = {}
  BY <1>1, NobodyHolds DEF Inv
<1>3. \A t \in Threads : pc[t] = "idle"
  BY <1>1 DEF Inv, UseInv, AllOutside
<1>4. InHand = {}
  BY <1>3, NobodyUses DEF Inv
<1>5. /\ Idle' = {} /\ InUse' = {} /\ Sleepers' = {} /\ Holders' = {}
      /\ Len(queue') = 0 /\ pool_size' = 0
  BY <1>2 DEF Idle, InUse, Sleepers, Holders
<1>6. \A c \in Clients : nodes'[c] = {}
  BY <1>2 DEF Inv, UnusedInv
<1>7. ControlInv'
  <2>1. nodes' \in [Clients -> SUBSET ServerIds]
    BY DEF Inv, PoolInv, ControlInv, PoolTypeOK
  <2> QED
    BY <1>5, <2>1 DEF Inv, PoolInv, ControlInv, PoolTypeOK, SelectedInv
<1>8. Cardinality(Holders') = 0
  BY <1>5, FS_EmptySet
<1>9. OneOwner'
  BY <1>5, <1>7, <1>8 DEF OneOwner, ControlInv, Inv, PoolInv
<1>10. PoolInv'
  BY <1>5, <1>7, <1>9 DEF PoolInv, NoLostWakeup, IdleConnectionsKnown
<1>11. Listed' = {} /\ InHand' = {} /\ Len(head') = 0
  BY <1>4 DEF Listed, InHand
<1>12. session' \in [Sessions -> SessionRecords]
  <2>1. Freed \in SessionRecords
    <3>1. Unborn \in SessionRecords
      BY DEF SessionRecords, Unborn, NeverUsed
    <3> QED
      BY <3>1 DEF SessionRecords, Freed
  <2>2. session \in [Sessions -> SessionRecords]
    BY DEF Inv, SessionInv, SessionControl, SessionTypeOK, SessionRecords
  <2> QED
    BY <2>1, <2>2
<1>13. SessionControl'
  <2>1. head' \in Seq(Sessions) /\ size' \in Int
    OBVIOUS
  <2> QED
    BY <1>12, <2>1 DEF Inv, SessionInv, SessionControl, SessionTypeOK,
       SessionRecords, HandInv
<1>14. \A s \in Sessions : session'[s].life # "live"
  <2>1. Freed.life # "live"
    BY DEF Freed, Unborn
  <2>2. \A s \in Sessions : s \notin Listed => session[s].life # "live"
    BY <1>4 DEF Inv, SessionInv, OneHolder
  <2> QED
    BY <2>1, <2>2
<1>15. OneHolder'
  BY <1>11, <1>14 DEF OneHolder, Inv, SessionInv
<1>16. SizeExact'
  <2>1. Among(pc', TakenPcs) = {} /\ Among(pc', PutPcs) = {}
    BY <1>3 DEF Among, TakenPcs, PutPcs
  <2>2. Balance(pc', head') = 0
    BY <1>11, <2>1, FS_EmptySet DEF Balance
  <2> QED
    BY <2>2, SizeIsBalance
<1> QED
  BY <1>5, <1>6, <1>10, <1>13, <1>14, <1>15, <1>16
  DEF SessionInv, UnusedInv, NothingLeft

----------------------------------------------------------------------------
(* Connections belong to clients of the pool: a step of the pool keeps it. *)
LEMMA UnusedStep ==
  ASSUME PoolInv, PoolInv', UnusedInv, [PoolNext]_poolVars
  PROVE  UnusedInv'
<1> USE DEF PoolInv, ControlInv, PoolTypeOK
<1>1. ASSUME Idle \cup InUse \subseteq Idle' \cup InUse', UNCHANGED nodes
      PROVE  UnusedInv'
  BY <1>1 DEF UnusedInv
<1>2. ASSUME UNCHANGED <<queue, client, nodes>> PROVE UnusedInv'
  <2>1. Idle' = Idle /\ InUse' = InUse
    BY <1>2 DEF Idle, InUse
  <2> QED
    BY <1>1, <1>2, <2>1
<1>3. ASSUME NEW t \in Threads, at[t] # "holding", Take(t), UNCHANGED nodes
      PROVE  UnusedInv'
  <2>1. CASE TakeIdle(t)
    <3>1. /\ Distinct(queue) /\ Idle = Elements(queue)
          /\ Idle' = Elements(Tail(queue))
      BY <2>1 DEF TakeIdle, OneOwner, Idle, Elements, Distinct
    <3>2. Idle' = Idle \ {Head(queue)}
      BY <2>1, <3>1, PopElements DEF TakeIdle
    <3>3. Head(queue) \in Clients
      BY <2>1, PopHead DEF TakeIdle
    <3>4. client' = [client EXCEPT ![t] = Head(queue)] /\ client[t] = None
      BY <1>3, <2>1 DEF TakeIdle
    <3>5. InUse' = InUse \cup {Head(queue)}
      BY <3>3, <3>4, PoolAssumption DEF InUse
    <3> QED
      BY <1>1, <1>3, <3>2, <3>5
  <2>2. CASE TakeNew(t)
    <3>1. Idle' = Idle /\ client[t] = None
      BY <1>3, <2>2 DEF TakeNew, Idle
    <3>2. PICK c \in Clients : client' = [client EXCEPT ![t] = c]
      BY <2>2 DEF TakeNew
    <3>3. InUse' = InUse \cup {c}
      BY <3>1, <3>2, PoolAssumption DEF InUse
    <3> QED
      BY <1>1, <1>3, <3>1, <3>3
  <2> QED
    BY <1>3, <2>1, <2>2 DEF Take
<1>4. ASSUME NEW t \in Threads, Pop(t) \/ TryPop(t) PROVE UnusedInv'
  BY <1>2, <1>3, <1>4 DEF Pop, TryPop
<1>5. ASSUME NEW t \in Threads, Push(t) PROVE UnusedInv'
  <2>1. client[t] \in Clients
    BY <1>5 DEF Push
  <2>2. /\ Idle = Elements(queue)
        /\ Idle' = Elements(<<client[t]>> \o queue)
    BY <1>5 DEF Push, Idle, Elements
  <2>3. Idle' = Idle \cup {client[t]}
    BY <2>1, <2>2, PushElements
  <2>4. InUse' = InUse \ {client[t]}
    BY <1>5 DEF Push, InUse, OneOwner
  <2>5. \A c \in Clients : nodes'[c] \subseteq nodes[c]
    BY <1>5 DEF Push, Prune
  <2> QED
    BY <2>3, <2>4, <2>5 DEF UnusedInv
<1>6. ASSUME NEW t \in Threads, at[t] = "holding", UNCHANGED <<queue, client>>,
             \A c \in Clients : c # client[t] => nodes'[c] = nodes[c]
      PROVE  UnusedInv'
  <2>1. Idle' = Idle /\ InUse' = InUse /\ client[t] \in InUse
    BY <1>6 DEF Idle, InUse
  <2> QED
    BY <1>6, <2>1 DEF UnusedInv
<1>7. ASSUME NEW t \in Threads, Connect(t) PROVE UnusedInv'
  BY <1>6, <1>7 DEF Connect, SelectedInv
<1>8. ASSUME NEW t \in Threads, Disconnect(t) PROVE UnusedInv'
  BY <1>6, <1>8 DEF Disconnect
<1>9. ASSUME NEW t \in Threads,
             PopTimeout(t) \/ SpuriousWakeup(t) \/ SelectServer(t)
      PROVE  UnusedInv'
  BY <1>2, <1>9 DEF PopTimeout, SpuriousWakeup, SelectServer
<1>10. ASSUME \/ \E m \in PoolSizes : MaxSize(m)
              \/ ChangeServers \/ UNCHANGED poolVars
       PROVE  UnusedInv'
  BY <1>2, <1>10 DEF MaxSize, ChangeServers, poolVars
<1> QED
  BY <1>4, <1>5, <1>7, <1>8, <1>9, <1>10 DEF PoolNext, ThreadStep

----------------------------------------------------------------------------
(* What the steps of one pool leave of the other, in terms of UseInv.      *)
(* A thread that is not with a client does nothing with a session.         *)
LEMMA PoolMoves ==
  ASSUME PoolInv, NEW t \in Threads, ThreadStep(t)
  PROVE  /\ pool_size' >= pool_size
         /\ \A u \in Threads : at[u] = "holding" => at'[u] = "holding"
<1> USE DEF PoolInv, ControlInv, PoolTypeOK
<1>1. ASSUME Take(t) PROVE pool_size' >= pool_size
                           /\ at' = [at EXCEPT ![t] = "holding"]
  BY <1>1 DEF Take, TakeIdle, TakeNew
<1> QED
  BY <1>1 DEF ThreadStep, Pop, PopTimeout, SpuriousWakeup, TryPop,
     SelectServer, Connect, Disconnect

(* A thread that pushes its client, or sleeps, is not with a session.      *)
LEMMA PushMoves ==
  ASSUME PoolInv, NEW t \in Threads, Push(t)
  PROVE  /\ pool_size' = pool_size /\ at'[t] = "outside"
         /\ \A u \in Threads : u # t /\ at[u] # "asleep" => at'[u] = at[u]
BY DEF PoolInv, ControlInv, PoolTypeOK, Push, Signal, Sleepers

(* Only the thread that takes a step of the session pool moves in it.      *)
LEMMA SessionMoves ==
  ASSUME SessionInv, NEW t \in Threads,
         SessionStep(t) \/ EndBegin(t) \/ EndStep(t)
  PROVE  \A u \in Threads : u # t => pc'[u] = pc[u]
<1> USE DEF SessionInv, SessionControl, SessionTypeOK
<1>1. ASSUME NEW l, Goto(t, l)
      PROVE  \A u \in Threads : u # t => pc'[u] = pc[u]
  BY <1>1 DEF Goto
<1>2. CASE SessionStep(t)
  BY <1>1, <1>2
  DEF SessionStep, PopServerSession, TryGet, TryGetStep, TryGetCount,
      CountStep, GetCheck, NewItem, UseSession, NetworkError, Return,
      ReturnCheck, ReturnItem
<1>3. CASE EndBegin(t)
  BY <1>1, <1>3 DEF EndBegin
<1>4. CASE EndStep(t)
  BY <1>1, <1>4
  DEF EndStep, EndLoop, EndGet, TryGetStep, CountStep, EndCheck, EndReturn,
      ReturnCheck, ReturnItem, EndSend
<1> QED
  BY <1>2, <1>3, <1>4

----------------------------------------------------------------------------
(* The steps of the composition, with UseInv, DestroyInv and NothingLeft.  *)
RestInv == UseInv /\ DestroyInv /\ NothingLeft

(* Threads that pop, use and push clients.                                 *)
LEMMA UsePoolStep == ASSUME Inv, UsePool PROVE RestInv'
<1> USE DEF Inv, UsePool, Running, sessionVars
<1>1. destroy.pc' = "no"
  OBVIOUS
<1>2. DestroyInv' /\ NothingLeft'
  BY <1>1 DEF DestroyInv, DestroyFindsClient, NothingLeft
<1>3. ASSUME NEW t \in Threads, ThreadStep(t) PROVE UseInv'
  <2>1. /\ pool_size' >= pool_size
        /\ \A u \in Threads : at[u] = "holding" => at'[u] = "holding"
    BY <1>3, PoolMoves
  <2>2. pool_size \in Nat /\ pool_size' \in Nat
    BY <1>3, ControlStep
    DEF PoolInv, ControlInv, PoolTypeOK, PoolNext
  <2> QED
    BY <2>1, <2>2 DEF UseInv
<1>4. ASSUME NEW t \in Threads, pc[t] = "idle", Push(t) PROVE UseInv'
  <2>1. /\ pool_size' = pool_size
        /\ \A u \in Threads : u # t /\ at[u] # "asleep" => at'[u] = at[u]
    BY <1>4, PushMoves
  <2> QED
    BY <1>4, <2>1 DEF UseInv
<1>5. ASSUME NEW m \in PoolSizes, MaxSize(m) PROVE UseInv'
  BY <1>5 DEF UseInv, MaxSize, PoolInv, ControlInv, PoolTypeOK
<1> QED
  BY <1>2, <1>3, <1>4, <1>5 DEF RestInv

(* Threads that use sessions hold a client, which is counted.              *)
LEMMA UseSessionsStep == ASSUME Inv, UseSessions PROVE RestInv'
<1> USE DEF Inv, UseSessions, Running, poolVars
<1>1. DestroyInv' /\ NothingLeft'
  BY DEF DestroyInv, DestroyFindsClient, NothingLeft
<1>2. PICK t \in Threads : at[t] = "holding" /\ SessionStep(t)
  OBVIOUS
<1>3. pool_size > 0
  BY <1>2, HolderCounted
<1>4. \A u \in Threads : u # t => pc'[u] = pc[u]
  BY <1>2, SessionMoves
<1> QED
  BY <1>1, <1>2, <1>3, <1>4 DEF RestInv, UseInv

(* The monitors and the clock touch neither pool.                          *)
LEMMA BackgroundStep == ASSUME Inv, Background PROVE RestInv'
<1> USE DEF Inv, Background
<1>1. UNCHANGED <<at, queue, pool_size, head, pc, destroy>>
  BY DEF ChangeServers, Tick, ChangeTimeout, poolVars, sessionVars
<1>2. destroy.pc # "done"
  OBVIOUS
<1> QED
  BY <1>1, <1>2
  DEF RestInv, UseInv, DestroyInv, DestroyFindsClient, AllOutside, NothingLeft

(* destroy asks for the size when it is exact: a session in the list shows *)
(* that a client was created, and that client is in the queue.             *)
LEMMA DestroyBeginStep ==
  ASSUME Inv, NEW t \in Threads, DestroyBegin(t) PROVE RestInv'
<1> USE DEF Inv, DestroyBegin, poolVars, sessionVars
<1>1. AllOutside
  BY DEF AllOutside
<1>2. \A u \in Threads : pc[u] = "idle"
  BY <1>1 DEF UseInv, AllOutside
<1>3. size # 0 => head # <<>>
  <2>1. size = Len(head)
    BY <1>2, NobodyUses
  <2> QED
    BY <2>1
<1>4. size # 0 => queue # <<>>
  <2>1. pool_size = Len(queue)
    BY <1>1, NobodyHolds
  <2> QED
    BY <1>3, <2>1 DEF UseInv
<1>5. UseInv'
  BY DEF UseInv
<1>6. /\ destroy'.pc \in {"pop", "clients"} /\ destroy'.by = t
      /\ destroy'.pc = "pop" => size # 0
      /\ destroy' \in [pc : {"no", "pop", "sessions", "clients", "done"},
                       by : Threads \cup {None}]
  OBVIOUS
<1> QED
  BY <1>1, <1>4, <1>5, <1>6
  DEF RestInv, DestroyInv, DestroyFindsClient, AllOutside, NothingLeft

(* The queue is not empty, so that the pop of destroy takes its head.      *)
LEMMA DestroyPopStep == ASSUME Inv, DestroyPop PROVE RestInv'
<1> USE DEF Inv, DestroyPop
<1> DEFINE b == destroy.by
<1>1. b \in Threads /\ AllOutside /\ queue # <<>>
  BY DEF DestroyInv, DestroyFindsClient
<1>2. TakeIdle(b)
  BY <1>1 DEF Pop, Take, TakeNew, NoneAvailable
<1>3. at' = [at EXCEPT ![b] = "holding"] /\ pool_size' = pool_size
  BY <1>2 DEF TakeIdle
<1>4. at'[b] = "holding" /\ \A u \in Threads : u # b => at'[u] = at[u]
  BY <1>1, <1>3 DEF PoolInv, ControlInv, PoolTypeOK
<1>5. EndBegin(b) /\ destroy' = [destroy EXCEPT !.pc = "sessions"]
  BY <1>4 DEF DestroyAt
<1>6. \A u \in Threads : u # b => pc'[u] = pc[u]
  BY <1>1, <1>5, SessionMoves
<1>7. head' = head
  BY <1>5 DEF EndBegin
<1>8. UseInv'
  BY <1>1, <1>3, <1>4, <1>6, <1>7 DEF UseInv
<1>9. /\ destroy'.pc = "sessions" /\ destroy'.by = b
      /\ destroy' \in [pc : {"no", "pop", "sessions", "clients", "done"},
                       by : Threads \cup {None}]
  BY <1>1, <1>5 DEF DestroyInv
<1> HIDE DEF b
<1> QED
  BY <1>1, <1>4, <1>8, <1>9
  DEF RestInv, DestroyInv, DestroyFindsClient, AllOutside, NothingLeft

(* destroy holds a client while it ends the sessions.                      *)
LEMMA DestroySessionsStep == ASSUME Inv, DestroySessions PROVE RestInv'
<1> USE DEF Inv, DestroySessions
<1>1. destroy.by \in Threads /\ at[destroy.by] = "holding"
  BY DEF DestroyInv
<1>2. UNCHANGED <<at, queue, pool_size, destroy>>
  BY DEF Disconnect, poolVars
<1>3. pool_size > 0
  BY <1>1, HolderCounted
<1>4. \A u \in Threads : u # destroy.by => pc'[u] = pc[u]
  BY <1>1, SessionMoves
<1> QED
  BY <1>1, <1>2, <1>3, <1>4
  DEF RestInv, UseInv, DestroyInv, DestroyFindsClient, NothingLeft

(* The client goes back, and nobody holds one.                             *)
LEMMA DestroyPushStep == ASSUME Inv, DestroyPush PROVE RestInv'
<1> USE DEF Inv, DestroyPush, sessionVars
<1>1. /\ destroy.by \in Threads
      /\ \A u \in Threads : u # destroy.by => at[u] = "outside"
  BY DEF DestroyInv
<1>2. /\ pool_size' = pool_size /\ at'[destroy.by] = "outside"
      /\ \A u \in Threads :
           u # destroy.by /\ at[u] # "asleep" => at'[u] = at[u]
  BY <1>1, PushMoves
<1>3. \A u \in Threads : at'[u] = "outside"
  BY <1>1, <1>2
<1>4. UseInv'
  BY <1>1, <1>2 DEF UseInv
<1>5. /\ destroy'.pc = "clients" /\ destroy'.by = destroy.by
      /\ destroy' \in [pc : {"no", "pop", "sessions", "clients", "done"},
                       by : Threads \cup {None}]
  BY DEF DestroyAt, DestroyInv
<1> QED
  BY <1>1, <1>3, <1>4, <1>5
  DEF RestInv, DestroyInv, DestroyFindsClient, AllOutside, NothingLeft

(* The last step, with LastStep for what it leaves.                        *)
LEMMA DestroyClientsStep == ASSUME Inv, DestroyClients PROVE RestInv'
<1> USE DEF Inv, DestroyClients
<1>1. NothingLeft'
  BY LastStep
<1>2. UseInv'
  BY DEF UseInv
<1>3. /\ destroy'.pc = "done" /\ destroy'.by = destroy.by
      /\ destroy' \in [pc : {"no", "pop", "sessions", "clients", "done"},
                       by : Threads \cup {None}]
  BY DEF DestroyAt, DestroyInv
<1> QED
  BY <1>1, <1>2, <1>3
  DEF RestInv, DestroyInv, DestroyFindsClient, AllOutside

(* A pool starts without clients, sessions or waiting threads.             *)
LEMMA InvInit == Init => Inv
<1> SUFFICES ASSUME Init PROVE Inv
  OBVIOUS
<1>1. PoolInv /\ SessionInv
  BY PoolInvInit, SessionInvInit DEF Init
<1>2. UnusedInv /\ UseInv
  BY DEF Init, PoolInit, SessionInit, UnusedInv, UseInv
<1>3. DestroyInv /\ NothingLeft
  BY DEF Init, DestroyInv, DestroyFindsClient, NothingLeft
<1> QED
  BY <1>1, <1>2, <1>3 DEF Inv

(* Every step of the threads, the monitors and destroy keeps Inv.          *)
LEMMA InvStep == Inv /\ [Next]_vars => Inv'
<1> SUFFICES ASSUME Inv, [Next]_vars PROVE Inv'
  OBVIOUS
<1>1. PoolInv' /\ SessionInv' /\ UnusedInv'
  <2>1. CASE DestroyClients
    BY <2>1, LastStep
  <2>2. CASE [PoolNext]_poolVars /\ [SessionNext]_sessionVars
    BY <2>2, PoolInvStep, SessionInvStep, UnusedStep DEF Inv
  <2> QED
    BY <2>1, <2>2, StepOfPools DEF Inv
<1>2. RestInv'
  <2>1. CASE Terminated \/ UNCHANGED vars
    BY <2>1
    DEF Terminated, vars, poolVars, sessionVars, Inv, RestInv, UseInv,
        DestroyInv, DestroyFindsClient, AllOutside, NothingLeft
  <2> QED
    BY <2>1, UsePoolStep, UseSessionsStep, BackgroundStep, DestroyBeginStep,
       DestroyPopStep, DestroySessionsStep, DestroyPushStep,
       DestroyClientsStep
    DEF Next
<1> QED
  BY <1>1, <1>2 DEF Inv, RestInv

(* Inv holds in every behaviour.                                           *)
LEMMA Invariance == Spec => []Inv
BY InvInit, InvStep, PTL DEF Spec

----------------------------------------------------------------------------
(* Threads, monitors and destroy keep the types of the composition.        *)
THEOREM TypeCorrect == Spec => []TypeOK
<1>1. Inv => TypeOK
  BY DEF Inv, PoolInv, ControlInv, SessionInv, SessionControl, DestroyInv,
     TypeOK
<1> QED
  BY <1>1, Invariance, PTL

(* pop, try_pop, push and destroy hand a client to one thread at a time    *)
(* and lose none, for any number of threads and clients.                   *)
THEOREM ClientsHaveOneOwner == Spec => []OneOwner
<1>1. Inv => OneOwner
  BY DEF Inv, PoolInv
<1> QED
  BY <1>1, Invariance, PTL

(* One signal per push, and a broadcast when the limit grows, are enough:  *)
(* no thread waits in pop for a client that is there.                      *)
THEOREM WakeupsAreNotLost == Spec => []NoLostWakeup
<1>1. Inv => NoLostWakeup
  BY DEF Inv, PoolInv
<1> QED
  BY <1>1, Invariance, PTL

(* The prune of push leaves no connection of an unknown server in the      *)
(* queue, whatever the monitors publish meanwhile.                         *)
THEOREM IdleClientsArePruned == Spec => []IdleConnectionsKnown
<1>1. Inv => IdleConnectionsKnown
  BY DEF Inv, PoolInv
<1> QED
  BY <1>1, Invariance, PTL

(* Two client sessions never share a server session, and none leaks, while *)
(* sessions are used or ended.                                             *)
THEOREM SessionsHaveOneHolder == Spec => []OneHolder
<1>1. Inv => OneHolder
  BY DEF Inv, SessionInv
<1> QED
  BY <1>1, Invariance, PTL

(* The counter of the session pool is exact up to the threads between the  *)
(* mutex and the counter.                                                  *)
THEOREM SessionCountExact == Spec => []SizeExact
<1>1. Inv => SizeExact
  BY DEF Inv, SessionInv
<1> QED
  BY <1>1, Invariance, PTL

(* The pop in mongoc_client_pool_destroy always finds a client.            *)
THEOREM DestroyNeverWaits == Spec => []DestroyFindsClient
<1>1. Inv => DestroyFindsClient
  BY DEF Inv, DestroyInv
<1> QED
  BY <1>1, Invariance, PTL

(* mongoc_client_pool_destroy leaves no client, connection or session.     *)
THEOREM DestroyLeavesNothing == Spec => []NothingLeft
<1>1. Inv => NothingLeft
  BY DEF Inv
<1> QED
  BY <1>1, Invariance, PTL
============================================================================
