------------------------ MODULE Descriptions_proofs -------------------------
(***************************************************************************)
(* Proofs about the topology description: how the threads of a process     *)
(* share it, for any number of threads, blocks and commits, and the server *)
(* selection that reads it, for every description and every operation.     *)
(***************************************************************************)
EXTENDS SharedDescription, ServerSelection,
        FiniteSetTheorems, WellFoundedInduction, TLAPS

(***************************************************************************)
(* First layer: what the program counter of a thread says about the locks  *)
(* and about the pointers the thread has.                                  *)
(***************************************************************************)
ReadLabels == {"load_read", "load_add", "load_unlock"}
StoreLabels == {"store_xchg", "store_unlock"}

(* Labels only a thread inside modify_begin ... commit/drop can be at.     *)
ModOnly == {"copy", "decide", "commit_read", "commit_old", "create",
            "store_add", "store_lock", "store_xchg", "store_unlock",
            "drop_prev", "free_prev", "commit_unlock"}

(* Labels a modifying thread shares with readers.                          *)
ModShared == {"load_lock", "load_read", "load_add", "load_unlock",
              "drop_ref", "free_ref"}

LockInv ==
  /\ \A t \in Threads : t \in readers <=> pc[t] \in ReadLabels
  /\ \A t \in Threads : writer = t <=> pc[t] \in StoreLabels
  /\ \A t \in Threads : modMtx = t => pc[t] \in ModOnly \cup ModShared
  /\ \A t \in Threads : pc[t] \in ModOnly => modMtx = t
  /\ writer # Nobody => readers = {}

RefLabels == {"load_unlock", "use", "copy", "drop_ref"}
NewLabels == {"store_add", "store_lock", "store_xchg", "store_unlock",
              "drop_prev", "free_prev", "commit_unlock", "drop_new"}
OldLabels == NewLabels \cup {"create", "free_new", "drop_old"}
FromLabels == {"store_lock", "store_xchg"}
PrevLabels == {"store_unlock", "drop_prev"}
RawLabels == {"load_add", "commit_old"} \cup FreeLabels
CopyLabels == {"decide", "commit_read", "commit_old", "create", "discard"}

SlotInv ==
  \A t \in Threads :
    /\ ref[t] # NoBlock <=> pc[t] \in RefLabels
    /\ oldSptr[t] # NoBlock <=> pc[t] \in OldLabels
    /\ newSptr[t] # NoBlock <=> pc[t] \in NewLabels
    /\ from[t] # NoBlock <=> pc[t] \in FromLabels
    /\ prev[t] # NoBlock <=> pc[t] \in PrevLabels
    /\ raw[t] # NoBlock <=> pc[t] \in RawLabels
    /\ newTd[t] # NoBlock <=>
         \/ pc[t] \in CopyLabels
         \/ modMtx = t /\ pc[t] \in {"drop_ref", "free_ref"}

ControlInv == TypeOK /\ LockInv /\ SlotInv

(* The control invariant holds initially.                                  *)
LEMMA ControlInit == Init => ControlInv
  BY ThreadsAssumption, BlocksAssumption
  DEF Init, ControlInv, TypeOK, LockInv, SlotInv, Labels, ReadLabels, Pointers,
      StoreLabels, ModOnly, ModShared, RefLabels, NewLabels, OldLabels,
      FromLabels, PrevLabels, FreeLabels, RawLabels, CopyLabels

(* Every step keeps the control invariant: the locks are held where the    *)
(* code holds them.                                                        *)
LEMMA ControlStep == ControlInv /\ [Next]_vars => ControlInv'
<1> SUFFICES ASSUME ControlInv, [Next]_vars PROVE ControlInv'
  OBVIOUS
<1> USE ThreadsAssumption, BlocksAssumption
    DEF ControlInv, TypeOK, LockInv, SlotInv, Labels, Pointers,
        ReadLabels, StoreLabels, ModOnly, ModShared, RefLabels, NewLabels,
        OldLabels, FromLabels, PrevLabels, FreeLabels, RawLabels,
        CopyLabels, Goto, locks, sptrs
<1>1. ASSUME NEW t \in Threads, LoadLock(t) PROVE ControlInv'
  BY <1>1 DEF LoadLock
<1>2. ASSUME NEW t \in Threads, LoadRead(t) PROVE ControlInv'
  BY <1>2 DEF LoadRead
<1>3. ASSUME NEW t \in Threads, LoadAdd(t) PROVE ControlInv'
  BY <1>3 DEF LoadAdd, Copy
<1>4. ASSUME NEW t \in Threads, LoadUnlock(t) PROVE ControlInv'
  BY <1>4 DEF LoadUnlock
<1>5. ASSUME NEW t \in Threads, TakeRef(t) PROVE ControlInv'
  BY <1>5 DEF TakeRef
<1>6. ASSUME NEW t \in Threads, UseRef(t) PROVE ControlInv'
  BY <1>6 DEF UseRef
<1>7. ASSUME NEW t \in Threads, DropRef(t) PROVE ControlInv'
  BY <1>7 DEF DropRef, ResetNull, AfterReset
<1>8. ASSUME NEW t \in Threads, ModifyBegin(t) PROVE ControlInv'
  BY <1>8 DEF ModifyBegin
<1>9. ASSUME NEW t \in Threads, NewCopy(t) PROVE ControlInv'
  BY <1>9 DEF NewCopy
<1>10. ASSUME NEW t \in Threads, ModifyDrop(t) PROVE ControlInv'
  BY <1>10 DEF ModifyDrop
<1>11. ASSUME NEW t \in Threads, Discard(t) PROVE ControlInv'
  BY <1>11 DEF Discard
<1>12. ASSUME NEW t \in Threads, ModifyCommit(t) PROVE ControlInv'
  BY <1>12 DEF ModifyCommit
<1>13. ASSUME NEW t \in Threads, CommitRead(t) PROVE ControlInv'
  BY <1>13 DEF CommitRead
<1>14. ASSUME NEW t \in Threads, CommitOld(t) PROVE ControlInv'
  BY <1>14 DEF CommitOld, Copy
<1>15. ASSUME NEW t \in Threads, Create(t) PROVE ControlInv'
  BY <1>15 DEF Create
<1>16. ASSUME NEW t \in Threads, StoreAdd(t) PROVE ControlInv'
  BY <1>16 DEF StoreAdd, Copy
<1>17. ASSUME NEW t \in Threads, StoreLock(t) PROVE ControlInv'
  BY <1>17 DEF StoreLock
<1>18. ASSUME NEW t \in Threads, StoreExchange(t) PROVE ControlInv'
  BY <1>18 DEF StoreExchange
<1>19. ASSUME NEW t \in Threads, StoreUnlock(t) PROVE ControlInv'
  BY <1>19 DEF StoreUnlock
<1>20. ASSUME NEW t \in Threads, DropPrev(t) PROVE ControlInv'
  BY <1>20 DEF DropPrev, ResetNull, AfterReset
<1>21. ASSUME NEW t \in Threads, CommitUnlock(t) PROVE ControlInv'
  BY <1>21 DEF CommitUnlock
<1>22. ASSUME NEW t \in Threads, DropNew(t) PROVE ControlInv'
  BY <1>22 DEF DropNew, ResetNull, AfterReset
<1>23. ASSUME NEW t \in Threads, DropOld(t) PROVE ControlInv'
  BY <1>23 DEF DropOld, ResetNull, AfterReset
<1>24. ASSUME NEW t \in Threads, ReleaseAux(t) PROVE ControlInv'
  BY <1>24 DEF ReleaseAux, AfterReset
<1>25. CASE UNCHANGED vars
  BY <1>25 DEF vars
<1> QED
  BY <1>1, <1>2, <1>3, <1>4, <1>5, <1>6, <1>7, <1>8, <1>9, <1>10, <1>11,
     <1>12, <1>13, <1>14, <1>15, <1>16, <1>17, <1>18, <1>19, <1>20, <1>21,
     <1>22, <1>23, <1>24, <1>25
  DEF Next, Load, Read, Modify, Commit, Store

----------------------------------------------------------------------------
(***************************************************************************)
(* Counting handles.                                                       *)
(***************************************************************************)
LEMMA CountNat ==
  ASSUME NEW p, NEW b PROVE Count(p, b) \in Nat
<1>1. IsFiniteSet({t \in Threads : p[t] = b})
  BY FS_Subset, ThreadsAssumption
<1> QED
  BY <1>1, FS_CardinalityType DEF Count

(* A block with an owner has a positive number of owners.                  *)
LEMMA CountPositive ==
  ASSUME NEW p, NEW b, NEW t \in Threads, p[t] = b PROVE Count(p, b) > 0
<1>1. IsFiniteSet({u \in Threads : p[u] = b})
  BY FS_Subset, ThreadsAssumption
<1>2. {u \in Threads : p[u] = b} # {}
  OBVIOUS
<1> QED
  BY <1>1, <1>2, FS_CardinalityType, FS_EmptySet DEF Count

(* A null handle that is assigned adds at most one count.                  *)
LEMMA CountGain ==
  ASSUME NEW p, NEW q, NEW t \in Threads, NEW b \in Blocks,
         p[t] = NoBlock, \A u \in Threads \ {t} : q[u] = p[u]
  PROVE  Count(q, b) = Count(p, b) + (IF q[t] = b THEN 1 ELSE 0)
<1> DEFINE P == {u \in Threads : p[u] = b}
           Q == {u \in Threads : q[u] = b}
<1>1. IsFiniteSet(P) /\ p[t] # b
  BY FS_Subset, ThreadsAssumption, BlocksAssumption
<1>2. Cardinality(P) \in Nat
  BY <1>1, FS_CardinalityType
<1>3. Count(p, b) = Cardinality(P) /\ Count(q, b) = Cardinality(Q)
  BY DEF Count
<1>4. CASE q[t] # b
  <2>1. P = Q
    BY <1>1, <1>4
  <2>2. Cardinality(P) = Cardinality(Q)
    BY <2>1
  <2> QED
    BY <2>2, <1>2, <1>4, <1>3
<1>5. CASE q[t] = b
  <2>1. Q = P \cup {t} /\ t \notin P
    BY <1>1, <1>5
  <2>2. Cardinality(P \cup {t}) = Cardinality(P) + 1
    <3> HIDE DEF P
    <3> QED
      BY <2>1, <1>1, FS_AddElement
  <2> QED
    BY <2>1, <2>2, <1>5, <1>3
<1> QED
  BY <1>4, <1>5

(* A handle that is set to null removes at most one count.                 *)
LEMMA CountLose ==
  ASSUME NEW p, NEW q, NEW t \in Threads, NEW b \in Blocks,
         q[t] = NoBlock, \A u \in Threads \ {t} : q[u] = p[u]
  PROVE  Count(q, b) = Count(p, b) - (IF p[t] = b THEN 1 ELSE 0)
<1> DEFINE P == {u \in Threads : p[u] = b}
           Q == {u \in Threads : q[u] = b}
<1>1. IsFiniteSet(P) /\ q[t] # b
  BY FS_Subset, ThreadsAssumption, BlocksAssumption
<1>2. Cardinality(P) \in Nat
  BY <1>1, FS_CardinalityType
<1>3. Count(p, b) = Cardinality(P) /\ Count(q, b) = Cardinality(Q)
  BY DEF Count
<1>4. CASE p[t] # b
  <2>1. P = Q
    BY <1>1, <1>4
  <2>2. Cardinality(P) = Cardinality(Q)
    BY <2>1
  <2> QED
    BY <2>2, <1>2, <1>4, <1>3
<1>5. CASE p[t] = b
  <2>1. Q = P \ {t} /\ t \in P
    BY <1>1, <1>5
  <2>2. Cardinality(Q) = Cardinality(P) - 1
    BY <2>1, <1>1, FS_RemoveElement
  <2> QED
    BY <2>2, <1>5, <1>3
<1> QED
  BY <1>4, <1>5

----------------------------------------------------------------------------
(***************************************************************************)
(* Second layer: the counts are exact and every pointer is live.           *)
(*   - a pointer that was read and not yet counted is the shared pointer:  *)
(*     g_shared_ptr_mtx (a load) or tpld_modification_mtx (a commit) keeps *)
(*     the topology's own count on it;                                     *)
(*   - a block whose last count is gone is known to the thread that        *)
(*     releases it and to no other, and a private copy to its writer only. *)
(***************************************************************************)
Private(t) == newTd[t] # NoBlock

RawInv ==
  /\ \A t \in Threads : pc[t] \in {"load_add", "commit_old"} => raw[t] = shared
  /\ \A t \in Threads : pc[t] \in FreeLabels => refcount[raw[t]] = 0
  /\ \A t, u \in Threads :
       t # u /\ pc[t] \in FreeLabels /\ pc[u] \in FreeLabels
         => raw[t] # raw[u]
  /\ \A t \in Threads : Private(t) => refcount[newTd[t]] = 0
  /\ \A t, u \in Threads : t # u /\ Private(t) => newTd[t] # newTd[u]
  /\ \A t, u \in Threads :
       Private(t) /\ pc[u] \in FreeLabels => newTd[t] # raw[u]
  /\ \A b \in Blocks \ heap : refcount[b] = 0

MemoryInv == NoUseAfterFree /\ RefcountExact /\ RawInv

(* Initially the one published block is counted once.                      *)
LEMMA MemoryInit == Init => MemoryInv
<1> SUFFICES ASSUME Init PROVE MemoryInv
  OBVIOUS
<1>1. ASSUME NEW p, p = [t \in Threads |-> NoBlock], NEW b \in Blocks
      PROVE  Count(p, b) = 0
  <2>1. {t \in Threads : p[t] = b} = {}
    BY <1>1, BlocksAssumption
  <2> QED BY <2>1, FS_EmptySet DEF Count
<1>2. RefcountExact
  BY <1>1 DEF Init, RefcountExact
<1>3. NoUseAfterFree /\ RawInv
  BY BlocksAssumption DEF Init, NoUseAfterFree, RawInv, FreeLabels, Private
<1> QED
  BY <1>2, <1>3 DEF MemoryInv

(* An exact count above zero, or a handle on the block, and conversely.    *)
LEMMA CountedBlock ==
  ASSUME ControlInv, RefcountExact, NEW b \in Blocks
  PROVE  /\ refcount[b] \in Nat
         /\ shared = b => refcount[b] > 0
         /\ \A t \in Threads :
              b \in {ref[t], oldSptr[t], newSptr[t], from[t], prev[t]}
                => refcount[b] > 0
         /\ \A t \in Threads :
              b \in {ref[t], oldSptr[t], newSptr[t], from[t], prev[t]}
                /\ shared = b => refcount[b] > 1
<1>1. /\ Count(ref, b) \in Nat /\ Count(oldSptr, b) \in Nat
      /\ Count(newSptr, b) \in Nat /\ Count(from, b) \in Nat
      /\ Count(prev, b) \in Nat
  BY CountNat
<1>2. ASSUME NEW t \in Threads
      PROVE  /\ ref[t] = b => Count(ref, b) > 0
             /\ oldSptr[t] = b => Count(oldSptr, b) > 0
             /\ newSptr[t] = b => Count(newSptr, b) > 0
             /\ from[t] = b => Count(from, b) > 0
             /\ prev[t] = b => Count(prev, b) > 0
  BY CountPositive
<1>3. refcount[b] = Count(ref, b) + Count(oldSptr, b) + Count(newSptr, b)
                    + Count(from, b) + Count(prev, b)
                    + (IF shared = b THEN 1 ELSE 0)
  BY DEF RefcountExact
<1>4. refcount[b] \in Nat /\ (shared = b => refcount[b] > 0)
  BY <1>1, <1>3
<1>5. ASSUME NEW t \in Threads,
             b \in {ref[t], oldSptr[t], newSptr[t], from[t], prev[t]}
      PROVE  refcount[b] > (IF shared = b THEN 1 ELSE 0)
  BY <1>1, <1>2, <1>3, <1>5
<1> QED
  BY <1>4, <1>5

(* The exact count is preserved by every step.                             *)
ExactFor(b) ==
  refcount[b] = Count(ref, b) + Count(oldSptr, b) + Count(newSptr, b)
                  + Count(from, b) + Count(prev, b)
                  + (IF shared = b THEN 1 ELSE 0)

(* Every step moves counts and handles together.                           *)
LEMMA CountStep ==
  ControlInv /\ RefcountExact /\ RawInv /\ [Next]_vars => RefcountExact'
<1> SUFFICES ASSUME ControlInv, RawInv, [Next]_vars, NEW b \in Blocks,
                    ExactFor(b)
             PROVE  ExactFor(b)'
  BY DEF RefcountExact, ExactFor
<1> USE BlocksAssumption DEF Goto, locks, sptrs, ExactFor
<1>1. /\ Count(ref, b) \in Nat /\ Count(oldSptr, b) \in Nat
      /\ Count(newSptr, b) \in Nat /\ Count(from, b) \in Nat
      /\ Count(prev, b) \in Nat /\ refcount[b] \in Int
  BY CountNat DEF ControlInv, TypeOK
<1>2. /\ ref \in [Threads -> Pointers] /\ oldSptr \in [Threads -> Pointers]
      /\ newSptr \in [Threads -> Pointers] /\ from \in [Threads -> Pointers]
      /\ prev \in [Threads -> Pointers] /\ refcount \in [Blocks -> Int]
  BY DEF ControlInv, TypeOK
<1>3. ASSUME NEW t \in Threads, LoadAdd(t) PROVE ExactFor(b)'
  <2>1. ref[t] = NoBlock
    BY <1>3 DEF LoadAdd, ControlInv, SlotInv, RefLabels
  <2>2. Count(ref', b) = Count(ref, b) + (IF raw[t] = b THEN 1 ELSE 0)
    <3>1. /\ ref'[t] = raw[t]
          /\ \A u \in Threads \ {t} : ref'[u] = ref[u]
      BY <1>2, <1>3 DEF LoadAdd
    <3>2. Count(ref', b) = Count(ref, b) + (IF ref'[t] = b THEN 1 ELSE 0)
      BY <2>1, <3>1, CountGain, Zenon
    <3> QED
      BY <3>1, <3>2
  <2>3. refcount'[b] = refcount[b] + (IF raw[t] = b THEN 1 ELSE 0)
    BY <1>1, <1>2, <1>3 DEF LoadAdd, Copy
  <2>4. UNCHANGED <<oldSptr, newSptr, from, prev, shared>>
    BY <1>3 DEF LoadAdd
  <2> QED
    BY <2>2, <2>3, <2>4, <1>1
<1>4. ASSUME NEW t \in Threads, CommitOld(t) PROVE ExactFor(b)'
  <2>1. oldSptr[t] = NoBlock
    BY <1>4 DEF CommitOld, ControlInv, SlotInv, OldLabels, NewLabels
  <2>2. Count(oldSptr', b) = Count(oldSptr, b) + (IF raw[t] = b THEN 1 ELSE 0)
    <3>1. /\ oldSptr'[t] = raw[t]
          /\ \A u \in Threads \ {t} : oldSptr'[u] = oldSptr[u]
      BY <1>2, <1>4 DEF CommitOld
    <3>2. Count(oldSptr', b) = Count(oldSptr, b) + (IF oldSptr'[t] = b THEN
    1 ELSE 0)
      BY <2>1, <3>1, CountGain, Zenon
    <3> QED
      BY <3>1, <3>2
  <2>3. refcount'[b] = refcount[b] + (IF raw[t] = b THEN 1 ELSE 0)
    BY <1>1, <1>2, <1>4 DEF CommitOld, Copy
  <2>4. UNCHANGED <<ref, newSptr, from, prev, shared>>
    BY <1>4 DEF CommitOld
  <2> QED
    BY <2>2, <2>3, <2>4, <1>1
<1>5. ASSUME NEW t \in Threads, StoreAdd(t) PROVE ExactFor(b)'
  <2>1. from[t] = NoBlock
    BY <1>5 DEF StoreAdd, ControlInv, SlotInv, FromLabels
  <2>2. Count(from', b) = Count(from, b) + (IF newSptr[t] = b THEN 1 ELSE 0)
    <3>1. /\ from'[t] = newSptr[t]
          /\ \A u \in Threads \ {t} : from'[u] = from[u]
      BY <1>2, <1>5 DEF StoreAdd
    <3>2. Count(from', b) = Count(from, b) + (IF from'[t] = b THEN 1 ELSE 0)
      BY <2>1, <3>1, CountGain, Zenon
    <3> QED
      BY <3>1, <3>2
  <2>3. refcount'[b] = refcount[b] + (IF newSptr[t] = b THEN 1 ELSE 0)
    BY <1>1, <1>2, <1>5 DEF StoreAdd, Copy
  <2>4. UNCHANGED <<ref, oldSptr, newSptr, prev, shared>>
    BY <1>5 DEF StoreAdd
  <2> QED
    BY <2>2, <2>3, <2>4, <1>1
<1>6. ASSUME NEW t \in Threads, Create(t) PROVE ExactFor(b)'
  <2>1. newSptr[t] = NoBlock /\ Private(t)
    BY <1>6 DEF Create, ControlInv, SlotInv, NewLabels, CopyLabels, Private
  <2>2. refcount[newTd[t]] = 0
    BY <2>1 DEF RawInv
  <2>3. Count(newSptr', b) = Count(newSptr, b) + (IF newTd[t] = b THEN 1
  ELSE 0)
    <3>1. /\ newSptr'[t] = newTd[t]
          /\ \A u \in Threads \ {t} : newSptr'[u] = newSptr[u]
      BY <1>2, <1>6 DEF Create
    <3>2. Count(newSptr', b) = Count(newSptr, b) + (IF newSptr'[t] = b THEN
    1 ELSE 0)
      BY <2>1, <3>1, CountGain, Zenon
    <3> QED
      BY <3>1, <3>2
  <2>4. refcount'[b] = refcount[b] + (IF newTd[t] = b THEN 1 ELSE 0)
    BY <2>2, <1>1, <1>2, <1>6 DEF Create
  <2>5. UNCHANGED <<ref, oldSptr, from, prev, shared>>
    BY <1>6 DEF Create
  <2> QED
    BY <2>3, <2>4, <2>5, <1>1
<1>7. ASSUME NEW t \in Threads, StoreExchange(t) PROVE ExactFor(b)'
  <2>1. prev[t] = NoBlock
    BY <1>7 DEF StoreExchange, ControlInv, SlotInv, PrevLabels
  <2>2. Count(prev', b) = Count(prev, b) + (IF shared = b THEN 1 ELSE 0)
    <3>1. /\ prev'[t] = shared
          /\ \A u \in Threads \ {t} : prev'[u] = prev[u]
      BY <1>2, <1>7 DEF StoreExchange
    <3>2. Count(prev', b) = Count(prev, b) + (IF prev'[t] = b THEN 1 ELSE 0)
      BY <2>1, <3>1, CountGain, Zenon
    <3> QED
      BY <3>1, <3>2
  <2>3. Count(from', b) = Count(from, b) - (IF from[t] = b THEN 1 ELSE 0)
    <3>1. /\ from'[t] = NoBlock
          /\ \A u \in Threads \ {t} : from'[u] = from[u]
      BY <1>2, <1>7 DEF StoreExchange
    <3>2. Count(from', b) = Count(from, b) - (IF from[t] = b THEN 1 ELSE 0)
      BY <3>1, CountLose, Zenon
    <3> QED
      BY <3>1, <3>2
  <2>4. UNCHANGED <<ref, oldSptr, newSptr, refcount>> /\ shared' = from[t]
    BY <1>7 DEF StoreExchange
  <2> QED
    BY <2>2, <2>3, <2>4, <1>1
<1>8. ASSUME NEW t \in Threads, DropRef(t) PROVE ExactFor(b)'
  <2>1. Count(ref', b) = Count(ref, b) - (IF ref[t] = b THEN 1 ELSE 0)
    <3>1. /\ ref'[t] = NoBlock
          /\ \A u \in Threads \ {t} : ref'[u] = ref[u]
      BY <1>2, <1>8 DEF DropRef
    <3>2. Count(ref', b) = Count(ref, b) - (IF ref[t] = b THEN 1 ELSE 0)
      BY <3>1, CountLose, Zenon
    <3> QED
      BY <3>1, <3>2
  <2>2. refcount'[b] = refcount[b] - (IF ref[t] = b THEN 1 ELSE 0)
    BY <1>1, <1>2, <1>8 DEF DropRef, ResetNull
  <2>3. UNCHANGED <<oldSptr, newSptr, from, prev, shared>>
    BY <1>8 DEF DropRef, ResetNull
  <2> QED
    BY <2>1, <2>2, <2>3, <1>1
<1>9. ASSUME NEW t \in Threads, DropPrev(t) PROVE ExactFor(b)'
  <2>1. Count(prev', b) = Count(prev, b) - (IF prev[t] = b THEN 1 ELSE 0)
    <3>1. /\ prev'[t] = NoBlock
          /\ \A u \in Threads \ {t} : prev'[u] = prev[u]
      BY <1>2, <1>9 DEF DropPrev
    <3>2. Count(prev', b) = Count(prev, b) - (IF prev[t] = b THEN 1 ELSE 0)
      BY <3>1, CountLose, Zenon
    <3> QED
      BY <3>1, <3>2
  <2>2. refcount'[b] = refcount[b] - (IF prev[t] = b THEN 1 ELSE 0)
    BY <1>1, <1>2, <1>9 DEF DropPrev, ResetNull
  <2>3. UNCHANGED <<ref, oldSptr, newSptr, from, shared>>
    BY <1>9 DEF DropPrev, ResetNull
  <2> QED
    BY <2>1, <2>2, <2>3, <1>1
<1>10. ASSUME NEW t \in Threads, DropNew(t) PROVE ExactFor(b)'
  <2>1. Count(newSptr', b) = Count(newSptr, b) - (IF newSptr[t] = b THEN 1
  ELSE 0)
    <3>1. /\ newSptr'[t] = NoBlock
          /\ \A u \in Threads \ {t} : newSptr'[u] = newSptr[u]
      BY <1>2, <1>10 DEF DropNew
    <3>2. Count(newSptr', b) = Count(newSptr, b) - (IF newSptr[t] = b THEN 1
    ELSE 0)
      BY <3>1, CountLose, Zenon
    <3> QED
      BY <3>1, <3>2
  <2>2. refcount'[b] = refcount[b] - (IF newSptr[t] = b THEN 1 ELSE 0)
    BY <1>1, <1>2, <1>10 DEF DropNew, ResetNull
  <2>3. UNCHANGED <<ref, oldSptr, from, prev, shared>>
    BY <1>10 DEF DropNew, ResetNull
  <2> QED
    BY <2>1, <2>2, <2>3, <1>1
<1>11. ASSUME NEW t \in Threads, DropOld(t) PROVE ExactFor(b)'
  <2>1. Count(oldSptr', b) = Count(oldSptr, b) - (IF oldSptr[t] = b THEN 1
  ELSE 0)
    <3>1. /\ oldSptr'[t] = NoBlock
          /\ \A u \in Threads \ {t} : oldSptr'[u] = oldSptr[u]
      BY <1>2, <1>11 DEF DropOld
    <3>2. Count(oldSptr', b) = Count(oldSptr, b) - (IF oldSptr[t] = b THEN 1
    ELSE 0)
      BY <3>1, CountLose, Zenon
    <3> QED
      BY <3>1, <3>2
  <2>2. refcount'[b] = refcount[b] - (IF oldSptr[t] = b THEN 1 ELSE 0)
    BY <1>1, <1>2, <1>11 DEF DropOld, ResetNull
  <2>3. UNCHANGED <<ref, newSptr, from, prev, shared>>
    BY <1>11 DEF DropOld, ResetNull
  <2> QED
    BY <2>1, <2>2, <2>3, <1>1
<1>12. CASE UNCHANGED <<refcount, sptrs, shared>>
  BY <1>12
<1>13. ASSUME NEW t \in Threads,
             \/ LoadLock(t) \/ LoadRead(t) \/ LoadUnlock(t) \/ TakeRef(t)
             \/ UseRef(t) \/ ModifyBegin(t) \/ NewCopy(t) \/ ModifyDrop(t)
             \/ Discard(t) \/ ModifyCommit(t) \/ CommitRead(t)
             \/ StoreLock(t) \/ StoreUnlock(t) \/ CommitUnlock(t)
             \/ ReleaseAux(t)
      PROVE  UNCHANGED <<refcount, sptrs, shared>>
  BY <1>13 DEF LoadLock, LoadRead, LoadUnlock, TakeRef, UseRef, ModifyBegin,
      NewCopy, ModifyDrop, Discard, ModifyCommit, CommitRead, StoreLock,
      StoreUnlock, CommitUnlock, ReleaseAux
<1> QED
  BY <1>3, <1>4, <1>5, <1>6, <1>7, <1>8, <1>9, <1>10, <1>11, <1>12,
     <1>13
  DEF Next, Load, Read, Modify, Commit, Store, vars

(* What exact counts give: every counted block has a positive count.       *)
LiveInv ==
  /\ refcount[shared] > 0
  /\ \A t \in Threads :
       /\ ref[t] # NoBlock => refcount[ref[t]] > 0
       /\ oldSptr[t] # NoBlock => refcount[oldSptr[t]] > 0
       /\ newSptr[t] # NoBlock => refcount[newSptr[t]] > 0
       /\ from[t] # NoBlock => refcount[from[t]] > 0
       /\ prev[t] # NoBlock => refcount[prev[t]] > 0

(* A block somebody owns has not been released.                            *)
LEMMA CountedIsLive == ControlInv /\ RefcountExact => LiveInv
<1> SUFFICES ASSUME ControlInv, RefcountExact PROVE LiveInv
  OBVIOUS
<1>1. refcount[shared] > 0
  BY CountedBlock DEF ControlInv, TypeOK
<1>2. ASSUME NEW t \in Threads, NEW b \in Blocks,
             b \in {ref[t], oldSptr[t], newSptr[t], from[t], prev[t]}
      PROVE  refcount[b] > 0
  BY <1>2, CountedBlock
<1> QED
  BY <1>1, <1>2 DEF LiveInv, ControlInv, TypeOK, Pointers

(* A step that leaves counts exact keeps every pointer alive.              *)
LEMMA PointerStep ==
  ControlInv /\ LiveInv /\ NoUseAfterFree /\ RawInv /\ [Next]_vars
    => NoUseAfterFree' /\ RawInv'
<1> SUFFICES ASSUME ControlInv, LiveInv, NoUseAfterFree, RawInv, [Next]_vars
             PROVE  NoUseAfterFree' /\ RawInv'
  OBVIOUS
<1> USE ThreadsAssumption, BlocksAssumption
    DEF ControlInv, TypeOK, LockInv, SlotInv, LiveInv, NoUseAfterFree, RawInv,
        Private, Labels, Pointers, ReadLabels, StoreLabels, ModOnly,
        ModShared, RefLabels, NewLabels, OldLabels, FromLabels, PrevLabels,
        FreeLabels, RawLabels, CopyLabels, Goto, locks, sptrs
<1>1. ASSUME NEW t \in Threads, LoadLock(t)
      PROVE  NoUseAfterFree' /\ RawInv'
  BY <1>1 DEF LoadLock
<1>2. ASSUME NEW t \in Threads, LoadRead(t)
      PROVE  NoUseAfterFree' /\ RawInv'
  BY <1>2 DEF LoadRead
<1>3. ASSUME NEW t \in Threads, LoadAdd(t)
      PROVE  NoUseAfterFree' /\ RawInv'
  BY <1>3 DEF LoadAdd, Copy
<1>4. ASSUME NEW t \in Threads, LoadUnlock(t)
      PROVE  NoUseAfterFree' /\ RawInv'
  BY <1>4 DEF LoadUnlock
<1>5. ASSUME NEW t \in Threads, TakeRef(t)
      PROVE  NoUseAfterFree' /\ RawInv'
  BY <1>5 DEF TakeRef
<1>6. ASSUME NEW t \in Threads, UseRef(t)
      PROVE  NoUseAfterFree' /\ RawInv'
  BY <1>6 DEF UseRef
<1>7. ASSUME NEW t \in Threads, DropRef(t)
      PROVE  NoUseAfterFree' /\ RawInv'
  <2>1. NoUseAfterFree'
    BY <1>7 DEF DropRef, ResetNull
  <2>2. CASE refcount[ref[t]] = 1
    BY <1>7, <2>1, <2>2 DEF DropRef, ResetNull
  <2>3. CASE refcount[ref[t]] # 1
    BY <1>7, <2>1, <2>3 DEF DropRef, ResetNull, AfterReset
  <2> QED
    BY <2>2, <2>3
<1>8. ASSUME NEW t \in Threads, ModifyBegin(t)
      PROVE  NoUseAfterFree' /\ RawInv'
  BY <1>8 DEF ModifyBegin
<1>9. ASSUME NEW t \in Threads, NewCopy(t)
      PROVE  NoUseAfterFree' /\ RawInv'
  BY <1>9 DEF NewCopy
<1>10. ASSUME NEW t \in Threads, ModifyDrop(t)
      PROVE  NoUseAfterFree' /\ RawInv'
  BY <1>10 DEF ModifyDrop
<1>11. ASSUME NEW t \in Threads, Discard(t)
      PROVE  NoUseAfterFree' /\ RawInv'
  BY <1>11 DEF Discard
<1>12. ASSUME NEW t \in Threads, ModifyCommit(t)
      PROVE  NoUseAfterFree' /\ RawInv'
  BY <1>12 DEF ModifyCommit
<1>13. ASSUME NEW t \in Threads, CommitRead(t)
      PROVE  NoUseAfterFree' /\ RawInv'
  BY <1>13 DEF CommitRead
<1>14. ASSUME NEW t \in Threads, CommitOld(t)
      PROVE  NoUseAfterFree' /\ RawInv'
  BY <1>14 DEF CommitOld, Copy
<1>15. ASSUME NEW t \in Threads, Create(t)
      PROVE  NoUseAfterFree' /\ RawInv'
  BY <1>15 DEF Create
<1>16. ASSUME NEW t \in Threads, StoreAdd(t)
      PROVE  NoUseAfterFree' /\ RawInv'
  BY <1>16 DEF StoreAdd, Copy
<1>17. ASSUME NEW t \in Threads, StoreLock(t)
      PROVE  NoUseAfterFree' /\ RawInv'
  BY <1>17 DEF StoreLock
<1>18. ASSUME NEW t \in Threads, StoreExchange(t)
      PROVE  NoUseAfterFree' /\ RawInv'
  BY <1>18 DEF StoreExchange
<1>19. ASSUME NEW t \in Threads, StoreUnlock(t)
      PROVE  NoUseAfterFree' /\ RawInv'
  BY <1>19 DEF StoreUnlock
<1>20. ASSUME NEW t \in Threads, DropPrev(t)
      PROVE  NoUseAfterFree' /\ RawInv'
  <2>1. NoUseAfterFree'
    BY <1>20 DEF DropPrev, ResetNull
  <2>2. CASE refcount[prev[t]] = 1
    BY <1>20, <2>1, <2>2 DEF DropPrev, ResetNull
  <2>3. CASE refcount[prev[t]] # 1
    BY <1>20, <2>1, <2>3 DEF DropPrev, ResetNull, AfterReset
  <2> QED
    BY <2>2, <2>3
<1>21. ASSUME NEW t \in Threads, CommitUnlock(t)
      PROVE  NoUseAfterFree' /\ RawInv'
  BY <1>21 DEF CommitUnlock
<1>22. ASSUME NEW t \in Threads, DropNew(t)
      PROVE  NoUseAfterFree' /\ RawInv'
  <2>1. NoUseAfterFree'
    BY <1>22 DEF DropNew, ResetNull
  <2>2. CASE refcount[newSptr[t]] = 1
    BY <1>22, <2>1, <2>2 DEF DropNew, ResetNull
  <2>3. CASE refcount[newSptr[t]] # 1
    BY <1>22, <2>1, <2>3 DEF DropNew, ResetNull, AfterReset
  <2> QED
    BY <2>2, <2>3
<1>23. ASSUME NEW t \in Threads, DropOld(t)
      PROVE  NoUseAfterFree' /\ RawInv'
  <2>1. NoUseAfterFree'
    BY <1>23 DEF DropOld, ResetNull
  <2>2. CASE refcount[oldSptr[t]] = 1
    BY <1>23, <2>1, <2>2 DEF DropOld, ResetNull
  <2>3. CASE refcount[oldSptr[t]] # 1
    BY <1>23, <2>1, <2>3 DEF DropOld, ResetNull, AfterReset
  <2> QED
    BY <2>2, <2>3
<1>24. ASSUME NEW t \in Threads, ReleaseAux(t)
      PROVE  NoUseAfterFree' /\ RawInv'
  BY <1>24 DEF ReleaseAux, AfterReset
<1>25. CASE UNCHANGED vars
  BY <1>25 DEF vars
<1> QED
  BY <1>1, <1>2, <1>3, <1>4, <1>5, <1>6, <1>7, <1>8, <1>9, <1>10, <1>11,
     <1>12, <1>13, <1>14, <1>15, <1>16, <1>17, <1>18, <1>19, <1>20, <1>21,
     <1>22, <1>23, <1>24, <1>25
  DEF Next, Load, Read, Modify, Commit, Store

(* Together the layers are inductive.                                      *)
LEMMA MemoryStep ==
  ControlInv /\ MemoryInv /\ [Next]_vars => MemoryInv'
  BY CountStep, CountedIsLive, PointerStep DEF MemoryInv

----------------------------------------------------------------------------
(***************************************************************************)
(* Third layer: the holder of tpld_modification_mtx works on a copy of the *)
(* published description until it publishes it.                            *)
(***************************************************************************)
VersionInv ==
  /\ NoLostUpdate
  /\ \A t \in Threads :
       /\ modMtx = t /\ pc[t] \in {"load_unlock", "copy"} => ref[t] = shared
       /\ modMtx = t /\ newTd[t] # NoBlock => mods[newTd[t]] = commits + 1
       /\ pc[t] \in {"store_add", "store_lock", "store_xchg"}
            => mods[newSptr[t]] = commits + 1
       /\ pc[t] \in FromLabels => from[t] = newSptr[t]

(* Initially the published description has every modification: none.       *)
LEMMA VersionInit == Init => VersionInv
  BY ThreadsAssumption DEF Init, VersionInv, NoLostUpdate, FromLabels

(* A modification works on a copy of what is published until its store.    *)
LEMMA VersionStep ==
  ControlInv /\ MemoryInv /\ VersionInv /\ [Next]_vars => VersionInv'
<1> SUFFICES ASSUME ControlInv, MemoryInv, VersionInv, [Next]_vars
             PROVE  VersionInv'
  OBVIOUS
<1>0. NoUseAfterFree /\ RawInv
  BY DEF MemoryInv
<1> USE ThreadsAssumption, BlocksAssumption, <1>0
    DEF ControlInv, TypeOK, LockInv, SlotInv, NoUseAfterFree, RawInv,
        VersionInv, NoLostUpdate, Private, Labels, Pointers, ReadLabels,
        StoreLabels, ModOnly, ModShared, RefLabels, NewLabels, OldLabels,
        FromLabels, PrevLabels, FreeLabels, RawLabels, CopyLabels, Goto,
        locks, sptrs
<1>1. ASSUME NEW t \in Threads, LoadLock(t) PROVE VersionInv'
  BY <1>1 DEF LoadLock
<1>2. ASSUME NEW t \in Threads, LoadRead(t) PROVE VersionInv'
  BY <1>2 DEF LoadRead
<1>3. ASSUME NEW t \in Threads, LoadAdd(t) PROVE VersionInv'
  BY <1>3 DEF LoadAdd, Copy
<1>4. ASSUME NEW t \in Threads, LoadUnlock(t) PROVE VersionInv'
  BY <1>4 DEF LoadUnlock
<1>5. ASSUME NEW t \in Threads, TakeRef(t) PROVE VersionInv'
  BY <1>5 DEF TakeRef
<1>6. ASSUME NEW t \in Threads, UseRef(t) PROVE VersionInv'
  BY <1>6 DEF UseRef
<1>7. ASSUME NEW t \in Threads, DropRef(t) PROVE VersionInv'
  BY <1>7 DEF DropRef, ResetNull, AfterReset
<1>8. ASSUME NEW t \in Threads, ModifyBegin(t) PROVE VersionInv'
  BY <1>8 DEF ModifyBegin
<1>9. ASSUME NEW t \in Threads, NewCopy(t) PROVE VersionInv'
  BY <1>9 DEF NewCopy
<1>10. ASSUME NEW t \in Threads, ModifyDrop(t) PROVE VersionInv'
  BY <1>10 DEF ModifyDrop
<1>11. ASSUME NEW t \in Threads, Discard(t) PROVE VersionInv'
  BY <1>11 DEF Discard
<1>12. ASSUME NEW t \in Threads, ModifyCommit(t) PROVE VersionInv'
  BY <1>12 DEF ModifyCommit
<1>13. ASSUME NEW t \in Threads, CommitRead(t) PROVE VersionInv'
  BY <1>13 DEF CommitRead
<1>14. ASSUME NEW t \in Threads, CommitOld(t) PROVE VersionInv'
  BY <1>14 DEF CommitOld, Copy
<1>15. ASSUME NEW t \in Threads, Create(t) PROVE VersionInv'
  BY <1>15 DEF Create
<1>16. ASSUME NEW t \in Threads, StoreAdd(t) PROVE VersionInv'
  BY <1>16 DEF StoreAdd, Copy
<1>17. ASSUME NEW t \in Threads, StoreLock(t) PROVE VersionInv'
  BY <1>17 DEF StoreLock
<1>18. ASSUME NEW t \in Threads, StoreExchange(t) PROVE VersionInv'
  BY <1>18 DEF StoreExchange
<1>19. ASSUME NEW t \in Threads, StoreUnlock(t) PROVE VersionInv'
  BY <1>19 DEF StoreUnlock
<1>20. ASSUME NEW t \in Threads, DropPrev(t) PROVE VersionInv'
  BY <1>20 DEF DropPrev, ResetNull, AfterReset
<1>21. ASSUME NEW t \in Threads, CommitUnlock(t) PROVE VersionInv'
  BY <1>21 DEF CommitUnlock
<1>22. ASSUME NEW t \in Threads, DropNew(t) PROVE VersionInv'
  BY <1>22 DEF DropNew, ResetNull, AfterReset
<1>23. ASSUME NEW t \in Threads, DropOld(t) PROVE VersionInv'
  BY <1>23 DEF DropOld, ResetNull, AfterReset
<1>24. ASSUME NEW t \in Threads, ReleaseAux(t) PROVE VersionInv'
  BY <1>24 DEF ReleaseAux, AfterReset
<1>25. CASE UNCHANGED vars
  BY <1>25 DEF vars
<1> QED
  BY <1>1, <1>2, <1>3, <1>4, <1>5, <1>6, <1>7, <1>8, <1>9, <1>10, <1>11,
     <1>12, <1>13, <1>14, <1>15, <1>16, <1>17, <1>18, <1>19, <1>20, <1>21,
     <1>22, <1>23, <1>24, <1>25
  DEF Next, Load, Read, Modify, Commit, Store

----------------------------------------------------------------------------
(***************************************************************************)
(* Fourth layer: a block without a count has exactly one thread that will  *)
(* publish or release it.                                                  *)
(***************************************************************************)
Releases(t, b) == pc[t] \in FreeLabels /\ raw[t] = b

OwnedInv ==
  \A b \in heap : \/ refcount[b] > 0
                 \/ \E t \in Threads : newTd[t] = b \/ Releases(t, b)

(* Initially no block waits for its release.                               *)
LEMMA OwnedInit == Init => OwnedInv
  BY DEF Init, OwnedInv

(* Every step leaves each block that is not counted to one thread.         *)
LEMMA OwnedStep ==
  ControlInv /\ MemoryInv /\ OwnedInv /\ [Next]_vars => OwnedInv'
<1> SUFFICES ASSUME ControlInv, MemoryInv, OwnedInv, [Next]_vars
             PROVE  OwnedInv'
  OBVIOUS
<1>0. RawInv /\ NoUseAfterFree /\ LiveInv
  BY CountedIsLive DEF MemoryInv
<1> USE ThreadsAssumption, BlocksAssumption, <1>0
    DEF ControlInv, TypeOK, SlotInv, RawInv, NoUseAfterFree, LiveInv,
        OwnedInv, Releases, Labels,
        Pointers, FreeLabels, RawLabels, RefLabels, NewLabels, OldLabels,
        FromLabels, PrevLabels, CopyLabels, Goto, locks, sptrs
<1>1. ASSUME NEW t \in Threads, LoadLock(t) PROVE OwnedInv'
  BY <1>1 DEF LoadLock
<1>2. ASSUME NEW t \in Threads, LoadRead(t) PROVE OwnedInv'
  BY <1>2 DEF LoadRead
<1>3. ASSUME NEW t \in Threads, LoadAdd(t) PROVE OwnedInv'
  BY <1>3 DEF LoadAdd, Copy
<1>4. ASSUME NEW t \in Threads, LoadUnlock(t) PROVE OwnedInv'
  BY <1>4 DEF LoadUnlock
<1>5. ASSUME NEW t \in Threads, TakeRef(t) PROVE OwnedInv'
  BY <1>5 DEF TakeRef
<1>6. ASSUME NEW t \in Threads, UseRef(t) PROVE OwnedInv'
  BY <1>6 DEF UseRef
<1>7. ASSUME NEW t \in Threads, DropRef(t) PROVE OwnedInv'
  BY <1>7 DEF DropRef, ResetNull, AfterReset
<1>8. ASSUME NEW t \in Threads, ModifyBegin(t) PROVE OwnedInv'
  BY <1>8 DEF ModifyBegin
<1>9. ASSUME NEW t \in Threads, NewCopy(t) PROVE OwnedInv'
  BY <1>9 DEF NewCopy
<1>10. ASSUME NEW t \in Threads, ModifyDrop(t) PROVE OwnedInv'
  BY <1>10 DEF ModifyDrop
<1>11. ASSUME NEW t \in Threads, Discard(t) PROVE OwnedInv'
  BY <1>11 DEF Discard
<1>12. ASSUME NEW t \in Threads, ModifyCommit(t) PROVE OwnedInv'
  BY <1>12 DEF ModifyCommit
<1>13. ASSUME NEW t \in Threads, CommitRead(t) PROVE OwnedInv'
  BY <1>13 DEF CommitRead
<1>14. ASSUME NEW t \in Threads, CommitOld(t) PROVE OwnedInv'
  BY <1>14 DEF CommitOld, Copy
<1>15. ASSUME NEW t \in Threads, Create(t) PROVE OwnedInv'
  BY <1>15 DEF Create
<1>16. ASSUME NEW t \in Threads, StoreAdd(t) PROVE OwnedInv'
  BY <1>16 DEF StoreAdd, Copy
<1>17. ASSUME NEW t \in Threads, StoreLock(t) PROVE OwnedInv'
  BY <1>17 DEF StoreLock
<1>18. ASSUME NEW t \in Threads, StoreExchange(t) PROVE OwnedInv'
  BY <1>18 DEF StoreExchange
<1>19. ASSUME NEW t \in Threads, StoreUnlock(t) PROVE OwnedInv'
  BY <1>19 DEF StoreUnlock
<1>20. ASSUME NEW t \in Threads, DropPrev(t) PROVE OwnedInv'
  BY <1>20 DEF DropPrev, ResetNull, AfterReset
<1>21. ASSUME NEW t \in Threads, CommitUnlock(t) PROVE OwnedInv'
  BY <1>21 DEF CommitUnlock
<1>22. ASSUME NEW t \in Threads, DropNew(t) PROVE OwnedInv'
  BY <1>22 DEF DropNew, ResetNull, AfterReset
<1>23. ASSUME NEW t \in Threads, DropOld(t) PROVE OwnedInv'
  BY <1>23 DEF DropOld, ResetNull, AfterReset
<1>24. ASSUME NEW t \in Threads, ReleaseAux(t) PROVE OwnedInv'
  BY <1>24 DEF ReleaseAux, AfterReset
<1>25. CASE UNCHANGED vars
  BY <1>25 DEF vars
<1> QED
  BY <1>1, <1>2, <1>3, <1>4, <1>5, <1>6, <1>7, <1>8, <1>9, <1>10, <1>11,
     <1>12, <1>13, <1>14, <1>15, <1>16, <1>17, <1>18, <1>19, <1>20, <1>21,
     <1>22, <1>23, <1>24, <1>25
  DEF Next, Load, Read, Modify, Commit, Store

(* No two threads are about to release a block, and no block is lost.      *)
LEMMA OwnedOnce == ControlInv /\ MemoryInv /\ OwnedInv => NoLeak
<1> SUFFICES ASSUME ControlInv, MemoryInv, OwnedInv, NEW b \in heap,
                    ~(refcount[b] > 0), NEW t \in Threads, Releases(t, b)
             PROVE  Count(raw, b) = 1
  BY DEF OwnedInv, NoLeak
<1>1. LiveInv /\ RawInv
  BY CountedIsLive DEF MemoryInv
<1>2. ASSUME NEW u \in Threads, raw[u] = b PROVE pc[u] \in FreeLabels
  BY <1>1, <1>2, BlocksAssumption
  DEF ControlInv, TypeOK, SlotInv, RawLabels, RawInv, LiveInv, Pointers
<1>3. {u \in Threads : raw[u] = b} = {t}
  BY <1>1, <1>2 DEF RawInv, Releases
<1> QED
  BY <1>3, FS_Singleton DEF Count

----------------------------------------------------------------------------
(***************************************************************************)
(* The theorems.                                                           *)
(***************************************************************************)
IInv == ControlInv /\ MemoryInv /\ VersionInv /\ OwnedInv

(* The layers together hold in every reachable state.                      *)
LEMMA Invariance == Spec => []IInv
<1>1. Init => IInv
  BY ControlInit, MemoryInit, VersionInit, OwnedInit DEF IInv
<1>2. IInv /\ [Next]_vars => IInv'
  BY ControlStep, MemoryStep, VersionStep, OwnedStep DEF IInv
<1> QED
  BY <1>1, <1>2, PTL DEF Spec

(* Every reachable state of the shared description is well typed.          *)
THEOREM TypeCorrect == Spec => []TypeOK
  BY Invariance, PTL DEF IInv, ControlInv

(* No thread ever dereferences a released description or count: neither    *)
(* between the read of the shared pointer and its increment                *)
(* (mongoc_atomic_shared_ptr_load, mc_tpld_modify_commit's old_sptr), nor  *)
(* through a reference it took before a commit.                            *)
THEOREM MemorySafe == Spec => []NoUseAfterFree
  BY Invariance, PTL DEF IInv, MemoryInv

(* The reference count of every block is the number of its owners.         *)
THEOREM CountsExact == Spec => []RefcountExact
  BY Invariance, PTL DEF IInv, MemoryInv

(* mc_tpld_modify_begin ... mc_tpld_modify_commit never loses a            *)
(* modification another thread committed.                                  *)
THEOREM UpdatesKept == Spec => []NoLostUpdate
  BY Invariance, PTL DEF IInv, VersionInv
(* Every description is released: a block is counted, private to one       *)
(* modification, or about to be released by exactly one thread.            *)
THEOREM NothingLeaks == Spec => []NoLeak
  BY Invariance, OwnedOnce, PTL DEF IInv
----------------------------------------------------------------------------
(***************************************************************************)
(* The protocol implements AtomicDescription.                              *)
(***************************************************************************)
Version == mods[shared]
Snapshots == [t \in Threads |-> Snapshot(t)]

(* The initial states are initial states of the atomic description.        *)
LEMMA AtomicInit == Init => Atomic!Init
  BY DEF Init, Atomic!Init, Snapshot

(* Every step is a step of the atomic description, or changes nothing of   *)
(* it.                                                                     *)
LEMMA AtomicStep ==
  IInv /\ IInv' /\ [Next]_vars => [Atomic!Next]_(Atomic!vars)
<1> SUFFICES ASSUME IInv, IInv', [Next]_vars
             PROVE  [Atomic!Next]_<<Version, Snapshots>>
  BY DEF Atomic!vars, Version, Snapshots
<1>0. /\ ControlInv /\ NoUseAfterFree /\ RawInv /\ VersionInv
      /\ ControlInv' /\ VersionInv'
  BY DEF IInv, MemoryInv
<1> USE <1>0, BlocksAssumption, NoBlockAssumption
    DEF ControlInv, TypeOK, SlotInv, RefLabels, Pointers, Version, Snapshots,
        Snapshot, locks, sptrs, Goto
<1>1. ASSUME NEW t \in Threads, LoadAdd(t) PROVE Atomic!Take(t)
  BY <1>1 DEF LoadAdd, Copy, RawInv, Atomic!Take
<1>2. ASSUME NEW t \in Threads, DropRef(t) PROVE Atomic!Drop(t)
  <2>1. /\ ref[t] \in Blocks /\ UNCHANGED <<mods, shared>>
        /\ ref' = [ref EXCEPT ![t] = NoBlock]
    BY <1>2 DEF DropRef, ResetNull
  <2>2. Snapshot(t) # NoBlock
    BY <2>1
  <2>3. Snapshots' = [Snapshots EXCEPT ![t] = NoBlock]
    BY <2>1
  <2> QED
    BY <2>1, <2>2, <2>3 DEF Atomic!Drop
<1>3. ASSUME NEW t \in Threads, StoreExchange(t) PROVE Atomic!Modify
  BY <1>3 DEF StoreExchange, VersionInv, NoLostUpdate, Atomic!Modify
<1>4. ASSUME NEW t \in Threads, NewCopy(t)
      PROVE  UNCHANGED <<Version, Snapshots>>
  BY <1>4 DEF NewCopy, NoUseAfterFree
<1>5. CASE UNCHANGED <<mods, shared, ref>>
  BY <1>5
<1>6. ASSUME NEW t \in Threads,
             \/ LoadLock(t) \/ LoadRead(t) \/ LoadUnlock(t) \/ TakeRef(t)
             \/ UseRef(t) \/ ModifyBegin(t) \/ ModifyDrop(t) \/ Discard(t)
             \/ ModifyCommit(t) \/ CommitRead(t) \/ CommitOld(t)
             \/ Create(t) \/ StoreAdd(t) \/ StoreLock(t) \/ StoreUnlock(t)
             \/ DropPrev(t) \/ CommitUnlock(t) \/ DropNew(t) \/ DropOld(t)
             \/ ReleaseAux(t)
      PROVE  UNCHANGED <<mods, shared, ref>>
  BY <1>6
  DEF LoadLock, LoadRead, LoadUnlock, TakeRef, UseRef, ModifyBegin,
      ModifyDrop, Discard, ModifyCommit, CommitRead, CommitOld, Create,
      StoreAdd, StoreLock, StoreUnlock, DropPrev, CommitUnlock, DropNew,
      DropOld, ReleaseAux, Copy, ResetNull
<1> QED
  BY <1>1, <1>2, <1>3, <1>4, <1>5, <1>6
  DEF Next, Load, Read, Modify, Commit, Store, vars, Atomic!Next

(* mc_tpld_take_ref and mc_tpld_modify_begin ... mc_tpld_modify_commit are *)
(* linearizable: a load takes effect at its increment, a commit at its     *)
(* exchange, and every thread sees one atomic, versioned description.      *)
THEOREM ImplementsAtomic == Spec => AtomicSpec
  BY Invariance, AtomicInit, AtomicStep, PTL DEF Spec, AtomicSpec, Atomic!Spec

----------------------------------------------------------------------------
(***************************************************************************)
(* Server selection: its filters compute what the read preference defines. *)
(***************************************************************************)

(* A set of natural numbers has a least one.                               *)
LEMMA LeastNat ==
  ASSUME NEW T \in SUBSET Nat, T # {}
  PROVE  \E m \in T : \A n \in T : m <= n
<1>1. IsWellFoundedOn(OpToRel(<, Nat), Nat)
  BY NatLessThanWellFounded, Zenon
<1>2. \E x \in T : \A y \in T : ~ (<<y, x>> \in OpToRel(<, Nat))
  BY <1>1, WFMin, Zenon
<1>3. PICK x \in T : \A y \in T : ~ (<<y, x>> \in OpToRel(<, Nat))
  BY <1>2
<1>4. \A y \in T : ~ (y < x)
  BY <1>3 DEF OpToRel
<1>5. \A y \in T : x <= y
  BY <1>4
<1> QED
  BY <1>3, <1>5

(* Over a finite set a function to the integers has a greatest value: that *)
(* of the element with the fewest others beyond it.                        *)
LEMMA GreatestValue ==
  ASSUME NEW C, IsFiniteSet(C), C # {}, NEW f \in [C -> Int]
  PROVE  \E x \in C : \A y \in C : f[y] <= f[x]
<1> DEFINE Above(x) == {y \in C : f[x] < f[y]}
           Rank(x) == Cardinality(Above(x))
           Ranks == {Rank(x) : x \in C}
<1>1. \A x \in C : IsFiniteSet(Above(x)) /\ Rank(x) \in Nat
  BY FS_Subset, FS_CardinalityType
<1>2. PICK m \in Ranks : \A n \in Ranks : m <= n
  <2>1. Ranks \in SUBSET Nat /\ Ranks # {}
    BY <1>1
  <2> QED
    BY <2>1, LeastNat, Zenon
<1>3. PICK x \in C : m = Rank(x)
  BY <1>2
<1>4. ASSUME NEW y \in C, ~(f[y] <= f[x]) PROVE FALSE
  <2>1. /\ Above(y) \in SUBSET Above(x)
        /\ y \in Above(x) /\ y \notin Above(y)
    BY <1>4
  <2>2. Rank(y) <= Rank(x) /\ Rank(y) # Rank(x)
    BY <1>1, <2>1, FS_Subset
  <2>3. Rank(x) <= Rank(y)
    BY <1>2, <1>3
  <2>4. Rank(x) \in Nat /\ Rank(y) \in Nat
    BY <1>1
  <2> HIDE DEF Rank
  <2> QED
    BY <2>2, <2>3, <2>4
<1> QED
  BY <1>4

(* And a least one.                                                        *)
LEMMA LeastValue ==
  ASSUME NEW C, IsFiniteSet(C), C # {}, NEW f \in [C -> Int]
  PROVE  \E x \in C : \A y \in C : f[x] <= f[y]
<1> DEFINE g == [x \in C |-> -f[x]]
<1>1. g \in [C -> Int]
  OBVIOUS
<1> HIDE DEF g
<1>2. PICK x \in C : \A y \in C : g[y] <= g[x]
  BY <1>1, GreatestValue, Zenon
<1>3. \A y \in C : f[x] <= f[y]
  BY <1>2 DEF g
<1> QED
  BY <1>3

(* MinOf chooses a least member.                                           *)
LEMMA MinIs ==
  ASSUME NEW S \in SUBSET Int, NEW m \in S, \A n \in S : m <= n
  PROVE  MinOf(S) = m
<1> DEFINE x == MinOf(S)
<1>1. x \in S /\ \A n \in S : x <= n
  BY DEF MinOf
<1> HIDE DEF x
<1>2. x \in Int /\ m \in Int /\ x <= m /\ m <= x
  BY <1>1
<1>3. x = m
  BY <1>2
<1> QED
  BY <1>3 DEF x

(* And MaxOf.                                                              *)
LEMMA MaxIs ==
  ASSUME NEW S \in SUBSET Int, NEW m \in S, \A n \in S : n <= m
  PROVE  MaxOf(S) = m
<1> DEFINE x == MaxOf(S)
<1>1. x \in S /\ \A n \in S : n <= x
  BY DEF MaxOf
<1> HIDE DEF x
<1>2. x \in Int /\ m \in Int /\ x <= m /\ m <= x
  BY <1>1
<1>3. x = m
  BY <1>2
<1> QED
  BY <1>3 DEF x

----------------------------------------------------------------------------
(* The parts of Allowed.                                                   *)
Fresh(d, o, T, types) ==
  {s \in T : /\ d.server[s].type \in types
             /\ \/ o.staleness = NoMaxStaleness
                \/ d.server[s].type = "RSPrimary"
                \/ FreshEnough(d, o, T, s)}
Tagged(d, o, F) ==
  {s \in F : o.tagSets # <<>> =>
     \E i \in DOMAIN o.tagSets :
       /\ o.tagSets[i] \subseteq d.server[s].tags
       /\ \A t \in F : \A j \in 1 .. i - 1 : ~(o.tagSets[j] \subseteq d.server[t].tags)}
Near(d, G) ==
  {s \in G : \A t \in G : d.server[s].rtt <= d.server[t].rtt + LocalThreshold}

(* Allowed applies them in turn.                                           *)
LEMMA AllowedParts ==
  ASSUME NEW d, NEW o, NEW T, NEW types
  PROVE  Allowed(d, o, T, types) = Near(d, Tagged(d, o, Fresh(d, o, T, types)))
  BY DEF Allowed, Near, Tagged, Fresh

(* A description has finitely many servers.                                *)
LEMMA ServersFinite ==
  ASSUME NEW d, WellFormed(d), NEW C \in SUBSET DOMAIN d.server
  PROVE  IsFiniteSet(C)
  BY SelectionAssumption, FS_Subset DEF WellFormed

(* The window of round trip times starts at the nearest server.            *)
LEMMA RttFilter ==
  ASSUME NEW d, WellFormed(d), NEW C \in SUBSET DOMAIN d.server
  PROVE  /\ FilterByRtt(d, C) = Near(d, C)
         /\ C # {} => Near(d, C) # {}
<1>1. CASE C = {}
  BY <1>1 DEF FilterByRtt, Near
<1>2. CASE C # {}
  <2> DEFINE f == [s \in C |-> d.server[s].rtt]
             rtts == {d.server[s].rtt : s \in C}
  <2>1. \A s \in C : d.server[s].rtt \in Int
    BY DEF WellFormed, ServerDescription, Unset
  <2>2. f \in [C -> Int] /\ \A s \in C : f[s] = d.server[s].rtt
    BY <2>1
  <2> HIDE DEF f
  <2>3. PICK x \in C : \A y \in C : f[x] <= f[y]
    BY <1>2, <2>2, ServersFinite, LeastValue, Zenon
  <2>4. \A y \in C : d.server[x].rtt <= d.server[y].rtt
    BY <2>2, <2>3
  <2>5. MinOf(rtts) = d.server[x].rtt
    <3>1. d.server[x].rtt \in rtts /\ \A n \in rtts : d.server[x].rtt <= n
      BY <2>4
    <3>2. rtts \in SUBSET Int
      BY <2>1
    <3> HIDE DEF rtts
    <3> QED
      BY <3>1, <3>2, MinIs, Zenon
  <2> HIDE DEF rtts
  <2>6. LocalThreshold \in Nat
    BY SelectionAssumption
  <2>7. FilterByRtt(d, C) = {s \in C : d.server[s].rtt <= d.server[x].rtt + LocalThreshold}
    BY <1>2, <2>5 DEF FilterByRtt, rtts
  <2>8. ASSUME NEW s \in C
        PROVE  d.server[s].rtt <= d.server[x].rtt + LocalThreshold
                 <=> \A t \in C : d.server[s].rtt <= d.server[t].rtt + LocalThreshold
    BY <2>1, <2>4, <2>6
  <2>9. x \in Near(d, C)
    BY <2>1, <2>4, <2>6 DEF Near
  <2> QED
    BY <2>7, <2>8, <2>9 DEF Near
<1> QED
  BY <1>1, <1>2

(* The tag sets are tried in their order.                                  *)
LEMMA TagFilter ==
  ASSUME NEW d, NEW o \in Operation, NEW F
  PROVE  FilterTags(d, o, F) = Tagged(d, o, F)
<1> DEFINE has(s, i) == o.tagSets[i] \subseteq d.server[s].tags
           found == {i \in DOMAIN o.tagSets : Matching(d, F, o.tagSets[i]) # {}}
<1>1. CASE o.tagSets = <<>>
  BY <1>1 DEF FilterTags, Tagged
<1>2. CASE o.tagSets # <<>> /\ found = {}
  <2>1. \A s \in F, i \in DOMAIN o.tagSets : ~has(s, i)
    BY <1>2 DEF Matching
  <2> QED
    BY <1>2, <2>1 DEF FilterTags, Tagged
<1>3. CASE o.tagSets # <<>> /\ found # {}
  <2>1. DOMAIN o.tagSets \subseteq Nat
        /\ \A i \in DOMAIN o.tagSets : \A j \in 1 .. i - 1 : j \in DOMAIN o.tagSets
    BY DEF Operation
  <2>2. \A i \in DOMAIN o.tagSets : i \in found <=> \E s \in F : has(s, i)
    BY DEF Matching
  <2>3. found \in SUBSET Nat
    BY <2>1
  <2>4. \E m \in found : \A n \in found : m <= n
    BY <1>3, <2>3, LeastNat, Zenon
  <2> DEFINE m == MinOf(found)
  <2>5. m \in found /\ \A n \in found : m <= n
    BY <2>4 DEF MinOf
  <2>6. FilterTags(d, o, F) = {s \in F : has(s, m)}
    BY <1>3 DEF FilterTags, Matching
  <2>7. m \in DOMAIN o.tagSets /\ m \in Nat
    BY <2>1, <2>5
  <2> HIDE DEF m, found
  <2>8. \A t \in F : \A j \in 1 .. m - 1 : ~has(t, j)
    BY <2>1, <2>2, <2>3, <2>5, <2>7
  <2>9. ASSUME NEW s \in F, NEW i \in DOMAIN o.tagSets, has(s, i),
               \A t \in F : \A j \in 1 .. i - 1 : ~has(t, j)
        PROVE  i = m
    <3>1. i \in found /\ i \in Nat /\ m <= i
      BY <2>1, <2>2, <2>5, <2>9
    <3>2. PICK t \in F : has(t, m)
      BY <2>2, <2>5, <2>7
    <3>3. m >= 1
      BY <2>7 DEF Operation
    <3> QED
      BY <2>7, <2>9, <3>1, <3>2, <3>3
  <2>10. ASSUME NEW s \in F
         PROVE  has(s, m) <=> \E i \in DOMAIN o.tagSets :
                  has(s, i) /\ \A t \in F : \A j \in 1 .. i - 1 : ~has(t, j)
    BY <2>7, <2>8, <2>9
  <2> QED
    BY <1>3, <2>6, <2>10 DEF Tagged
<1> QED
  BY <1>1, <1>2, <1>3

(* The one primary of a description.                                       *)
LEMMA OnePrimary ==
  ASSUME NEW d, WellFormed(d), NEW p \in Primaries(d), NEW q \in Primaries(d)
  PROVE  p = q
  BY DEF WellFormed, Primaries, Typed

(* With a date for every write, the staleness of a secondary is judged by  *)
(* the primary, or by every secondary that is left.                        *)
LEMMA StaleFilter ==
  ASSUME NEW d, WellFormed(d), NEW o \in Operation, Compatible(d, o),
         NEW T \in SUBSET DOMAIN d.server,
         NEW types \in SUBSET {"RSPrimary", "RSSecondary"},
         "RSSecondary" \in types
  PROVE  FilterStale(d, o, {s \in T : d.server[s].type \in types}) = Fresh(d, o, T, types)
<1> DEFINE C == {s \in T : d.server[s].type \in types}
           S == Typed(d, C, "RSSecondary")
           write(s) == d.server[s].lastWrite
<1>1. CASE o.staleness = NoMaxStaleness
  BY <1>1 DEF FilterStale, Fresh
<1>2. CASE o.staleness # NoMaxStaleness
  <2>1. S = Typed(d, T, "RSSecondary")
    BY DEF Typed
  <2>2. \A s \in T : /\ write(s) \in Int /\ d.server[s].lastUpdate \in Int
                     /\ s \in S => write(s) > 0
    BY <1>2 DEF WellFormed, ServerDescription, Compatible, AllHaveWriteDate, Typed
  <2>3. o.staleness \in Int /\ Heartbeat \in Int
    BY SelectionAssumption DEF Operation
  <2>4. ASSUME NEW s \in S
        PROVE  Staleness(d, C, s) <= o.staleness <=> FreshEnough(d, o, T, s)
    <3>1. CASE Primaries(d) # {}
      <4> DEFINE p == CHOOSE q \in Primaries(d) : TRUE
      <4>1. p \in Primaries(d) /\ \A q \in Primaries(d) : q = p
        BY <3>1, OnePrimary
      <4>2. p \in DOMAIN d.server
        BY <4>1 DEF Primaries, Typed
      <4>3. write(p) \in Int /\ d.server[p].lastUpdate \in Int
        BY <4>2 DEF WellFormed, ServerDescription
      <4>4. Staleness(d, C, s) = write(p) + (d.server[s].lastUpdate - d.server[p].lastUpdate)
                                   - write(s) + Heartbeat
        BY <3>1 DEF Staleness
      <4> HIDE DEF p
      <4>5. FreshEnough(d, o, T, s) <=>
              write(p) - write(s) + Heartbeat
                + (d.server[s].lastUpdate - d.server[p].lastUpdate) <= o.staleness
        BY <3>1, <4>1 DEF FreshEnough
      <4>6. s \in T
        BY DEF Typed
      <4> QED
        BY <2>2, <2>3, <4>3, <4>4, <4>5, <4>6
    <3>2. CASE Primaries(d) = {}
      <4> DEFINE f == [t \in S |-> write(t)]
                 writes == {0} \cup {write(t) : t \in S}
      <4>1. S \in SUBSET T /\ S \in SUBSET DOMAIN d.server
        BY DEF Typed
      <4>2. f \in [S -> Int] /\ \A t \in S : f[t] = write(t)
        BY <2>2, <4>1
      <4> HIDE DEF f, S
      <4>3. PICK x \in S : \A y \in S : f[y] <= f[x]
        BY <4>1, <4>2, ServersFinite, GreatestValue, Zenon
      <4>4. \A y \in S : write(y) <= write(x)
        BY <4>2, <4>3
      <4>5. MaxOf(writes) = write(x)
        <5>1. writes \in SUBSET Int /\ write(x) \in writes /\ \A n \in writes : n <= write(x)
          BY <2>2, <4>1, <4>4
        <5> HIDE DEF writes
        <5> QED
          BY <5>1, MaxIs, Zenon
      <4>6. Staleness(d, C, s) = write(x) - write(s) + Heartbeat
        BY <3>2, <4>5 DEF Staleness, S
      <4>7. FreshEnough(d, o, T, s) <=>
              \A t \in S : write(t) - write(s) + Heartbeat <= o.staleness
        BY <2>1, <3>2 DEF FreshEnough
      <4> QED
        BY <2>2, <2>3, <4>1, <4>4, <4>6, <4>7
    <3> QED
      BY <3>1, <3>2
  <2>5. \A s \in C : s \in S <=> d.server[s].type = "RSSecondary"
    BY DEF Typed
  <2>6. FilterStale(d, o, C) =
          {s \in C : d.server[s].type = "RSSecondary" => Staleness(d, C, s) <= o.staleness}
    BY <1>2 DEF FilterStale
  <2>7. \A s \in C : d.server[s].type = "RSPrimary" \/ d.server[s].type = "RSSecondary"
    OBVIOUS
  <2>8. \A s \in C : s \in FilterStale(d, o, C) <=>
                       d.server[s].type = "RSPrimary" \/ FreshEnough(d, o, T, s)
    BY <2>4, <2>5, <2>6, <2>7
  <2> QED
    BY <1>2, <2>6, <2>8 DEF Fresh
<1> QED
  BY <1>1, <1>2

----------------------------------------------------------------------------
(* A pass over the servers outside a list of deprioritized ones, given the *)
(* servers that suit among them.                                           *)
Pass(ds, A) == IF ds # NoList /\ A = {} THEN RetryWithoutDeprioritization ELSE FilterIsDone(A)

(* Staleness, tag sets and round trip times together make a pass.          *)
LEMMA CandidateFilter ==
  ASSUME NEW d, WellFormed(d), NEW o \in Operation, Compatible(d, o), NEW ds, NEW C,
         NEW types \in SUBSET {"RSPrimary", "RSSecondary"}, "RSSecondary" \in types,
         Without(C, ds) = {s \in Without(DOMAIN d.server, ds) : d.server[s].type \in types}
  PROVE  FilterCandidates(d, o, ds, C)
           = Pass(ds, Allowed(d, o, Without(DOMAIN d.server, ds), types))
<1> DEFINE T == Without(DOMAIN d.server, ds)
           F == Fresh(d, o, T, types)
           G == Tagged(d, o, F)
<1>1. T \in SUBSET DOMAIN d.server
  BY DEF Without
<1>2. FilterStale(d, o, Without(C, ds)) = F
  BY <1>1, StaleFilter
<1>3. FilterTags(d, o, F) = G
  BY TagFilter
<1>4. G \in SUBSET DOMAIN d.server
  BY <1>1 DEF Tagged, Fresh
<1>5. Allowed(d, o, T, types) = Near(d, G)
  BY AllowedParts
<1> HIDE DEF T, F, G
<1>6. FilterByRtt(d, G) = Near(d, G) /\ (G # {} => Near(d, G) # {})
  BY <1>4, RttFilter
<1>7. G = {} <=> Near(d, G) = {}
  BY <1>6 DEF Near
<1>8. FilterCandidates(d, o, ds, C)
        = IF ds # NoList /\ G = {} THEN RetryWithoutDeprioritization
          ELSE FilterIsDone(FilterByRtt(d, G))
  BY <1>2, <1>3 DEF FilterCandidates
<1>9. FilterCandidates(d, o, ds, C) = Pass(ds, Allowed(d, o, T, types))
  BY <1>5, <1>6, <1>7, <1>8 DEF Pass
<1> QED
  BY <1>9 DEF T

(* The servers of a pass over a replica set that need not be the primary.  *)
LEMMA ReplicaSetPass ==
  ASSUME NEW d, WellFormed(d), d.type \in ReplicaSetTypes,
         NEW o \in Operation, Compatible(d, o), NEW ds,
         o.optype # "write", ~MustUsePrimary(d, o)
  PROVE  FilterByTopology(d, o, ds)
           = Pass(ds, SuitableAmong(d, o, Without(DOMAIN d.server, ds)))
<1> DEFINE T == Without(DOMAIN d.server, ds)
           primary == Primaries(d) \cap T
           secondaries == Allowed(d, o, T, {"RSSecondary"})
<1>1. FilterByTopology(d, o, ds) = FilterForReplicaSet(d, o, ds)
  BY DEF FilterByTopology, ReplicaSetTypes
<1>2. ReadMode(d, o) = o.mode /\ o.mode \in Modes \ {"primary"}
  BY DEF ReadMode, MustUsePrimary, Operation
<1>3. primary = Without(Primaries(d), ds) /\ (primary # {} => primary = Primaries(d))
  BY OnePrimary DEF Primaries, Typed, Without
<1>4. FilterCandidates(d, o, ds, Candidates(d, "secondary")) = Pass(ds, secondaries)
  <2>1. Without(Candidates(d, "secondary"), ds) = {s \in T : d.server[s].type \in {"RSSecondary"}}
    BY DEF Candidates, CandidateTypes, Without
  <2> QED
    BY <2>1, CandidateFilter
<1>5. d.type # "Single" /\ d.type # "Sharded"
  BY DEF ReplicaSetTypes
<1>6. ~(o.optype = "write" \/ o.mode = "primary" \/ (o.optype = "aggregate" /\ AnyTooOld(d)))
  BY DEF MustUsePrimary
<1> DEFINE A == SuitableAmong(d, o, T)
<1>7. CASE o.mode = "secondary"
  <2>1. A = secondaries
    BY <1>5, <1>6, <1>7 DEF SuitableAmong
  <2> QED
    BY <1>1, <1>2, <1>4, <1>7, <2>1 DEF FilterForReplicaSet
<1>8. CASE o.mode = "nearest"
  <2>1. A = Allowed(d, o, T, {"RSPrimary", "RSSecondary"})
    BY <1>5, <1>6, <1>8 DEF SuitableAmong
  <2>2. Without(Candidates(d, "nearest"), ds)
          = {s \in T : d.server[s].type \in {"RSPrimary", "RSSecondary"}}
    BY DEF Candidates, CandidateTypes, Without
  <2>3. FilterCandidates(d, o, ds, Candidates(d, "nearest")) = Pass(ds, A)
    BY <2>1, <2>2, CandidateFilter
  <2> QED
    BY <1>1, <1>2, <1>8, <2>3 DEF FilterForReplicaSet
<1>9. CASE o.mode = "primaryPreferred"
  <2>1. A = OrElse(primary, secondaries)
    BY <1>5, <1>6, <1>9 DEF SuitableAmong
  <2>2. FilterForReplicaSet(d, o, ds) = FilterPrimaryPreferred(d, o, ds)
    BY <1>2, <1>9 DEF FilterForReplicaSet
  <2>3. CASE primary # {}
    BY <1>1, <1>3, <2>1, <2>2, <2>3 DEF FilterPrimaryPreferred, OrElse, Pass
  <2>4. CASE primary = {}
    <3>1. Without(Candidates(d, "primaryPreferred"), ds)
            = {s \in T : d.server[s].type \in {"RSSecondary"}}
      BY <2>4 DEF Candidates, CandidateTypes, Without, Primaries, Typed
    <3>2. FilterCandidates(d, o, ds, Candidates(d, "primaryPreferred")) = Pass(ds, secondaries)
      BY <3>1, CandidateFilter
    <3> QED
      BY <1>1, <1>3, <2>1, <2>2, <2>4, <3>2 DEF FilterPrimaryPreferred, OrElse
  <2> QED
    BY <2>3, <2>4
<1>10. CASE o.mode = "secondaryPreferred"
  <2>1. A = OrElse(secondaries, primary)
    BY <1>5, <1>6, <1>10 DEF SuitableAmong
  <2>2. FilterForReplicaSet(d, o, ds) = FilterSecondaryPreferred(d, o, ds)
    BY <1>2, <1>10 DEF FilterForReplicaSet
  <2>3. FilterCandidates(d, o, ds, Candidates(d, "secondary")).set = secondaries
    BY <1>4 DEF Pass, FilterIsDone, RetryWithoutDeprioritization
  <2> HIDE DEF secondaries, primary, T
  <2> QED
    BY <1>1, <1>3, <2>1, <2>2, <2>3 DEF FilterSecondaryPreferred, OrElse, Pass, T
<1> QED
  BY <1>2, <1>7, <1>8, <1>9, <1>10 DEF Modes

(* And over a sharded cluster.                                             *)
LEMMA ShardedPass ==
  ASSUME NEW d, WellFormed(d), d.type = "Sharded", NEW o, NEW ds
  PROVE  FilterByTopology(d, o, ds)
           = Pass(ds, SuitableAmong(d, o, Without(DOMAIN d.server, ds)))
<1> DEFINE T == Without(DOMAIN d.server, ds)
           M == Typed(d, T, "Mongos")
<1>1. FilterByTopology(d, o, ds) = FilterForShardedCluster(d, ds)
  BY DEF FilterByTopology, ReplicaSetTypes
<1>2. SuitableAmong(d, o, T) = Near(d, M)
  BY DEF SuitableAmong, Near, ReplicaSetTypes
<1>3. M = Without(Typed(d, DOMAIN d.server, "Mongos"), ds) /\ M \in SUBSET DOMAIN d.server
  BY DEF Typed, Without
<1> HIDE DEF M, T
<1>4. FilterByRtt(d, M) = Near(d, M) /\ (M # {} => Near(d, M) # {})
  BY <1>3, RttFilter
<1>5. M = {} <=> Near(d, M) = {}
  BY <1>4 DEF Near
<1>6. FilterForShardedCluster(d, ds) = Pass(ds, Near(d, M))
  BY <1>3, <1>4, <1>5 DEF FilterForShardedCluster, Pass
<1> QED
  BY <1>1, <1>2, <1>6 DEF T

(* The second pass runs if the first one found nothing outside the list.   *)
LEMMA TwoPasses ==
  ASSUME NEW d, NEW o \in Operation,
         \A ds : FilterByTopology(d, o, ds)
                  = Pass(ds, SuitableAmong(d, o, Without(DOMAIN d.server, ds)))
  PROVE  SuitableServers(d, o) = Specified(d, o)
<1> DEFINE A == SuitableAmong(d, o, Without(DOMAIN d.server, o.ds))
           B == SuitableAmong(d, o, DOMAIN d.server)
<1>1. Without(DOMAIN d.server, NoList) = DOMAIN d.server
  BY DEF Without, NoList, Ids
<1>2. FilterByTopology(d, o, NoList) = FilterIsDone(B)
  BY <1>1 DEF Pass
<1>3. FilterByTopology(d, o, o.ds) = Pass(o.ds, A)
  OBVIOUS
<1>4. o.ds = NoList => A = B
  BY <1>1
<1>5. Specified(d, o) = OrElse(A, B)
  BY DEF Specified
<1> HIDE DEF A, B
<1>6. CASE o.ds # NoList /\ A = {}
  BY <1>2, <1>3, <1>5, <1>6
  DEF SuitableServers, Pass, OrElse, FilterIsDone, RetryWithoutDeprioritization
<1>7. CASE ~(o.ds # NoList /\ A = {})
  BY <1>3, <1>4, <1>5, <1>7 DEF SuitableServers, Pass, OrElse, FilterIsDone
<1> QED
  BY <1>6, <1>7

(* Writes, reads from the primary and aggregates beside an old server get  *)
(* the primary, deprioritized or not.                                      *)
LEMMA PrimaryOnly ==
  ASSUME NEW d, WellFormed(d), d.type \in ReplicaSetTypes, NEW o,
         o.optype = "write" \/ MustUsePrimary(d, o)
  PROVE  Selectable(d, o) = Primaries(d)
<1>1. d.type # "Single" /\ d.type # "Sharded"
  BY DEF ReplicaSetTypes
<1>2. \A ds : FilterByTopology(d, o, ds) = FilterForReplicaSet(d, o, ds)
  BY <1>1 DEF FilterByTopology, ReplicaSetTypes
<1>3. o.optype # "write" => ReadMode(d, o) = "primary"
  BY DEF ReadMode
<1>4. d.type # "RSWithPrimary" => Primaries(d) = {}
  BY <1>1 DEF WellFormed, Primaries, Typed
<1>5. \A ds : FilterForReplicaSet(d, o, ds) = FilterIsDone(Primaries(d))
  BY <1>3, <1>4 DEF FilterForReplicaSet
<1> QED
  BY <1>1, <1>2, <1>5 DEF Selectable, SuitableServers, FilterIsDone

(* What is selectable is what is specified.                                *)
LEMMA FiltersAsSpecified ==
  ASSUME NEW d, WellFormed(d), d.type # "LoadBalanced",
         NEW o \in Operation, Compatible(d, o)
  PROVE  Selectable(d, o) = Specified(d, o)
<1> DEFINE T == Without(DOMAIN d.server, o.ds)
           AsPass(ds) == FilterByTopology(d, o, ds)
                           = Pass(ds, SuitableAmong(d, o, Without(DOMAIN d.server, ds)))
<1>1. d.type # "Single" => Selectable(d, o) = SuitableServers(d, o)
  BY DEF Selectable
<1>2. CASE d.type = "Single"
  <2>1. PICK s : DOMAIN d.server = {s}
    BY <1>2 DEF WellFormed
  <2>2. T = {s} \/ T = {}
    BY <2>1 DEF Without
  <2>3. Selectable(d, o) = {r \in DOMAIN d.server : d.server[r].hello}
    BY <1>2 DEF Selectable
  <2>4. \A U : SuitableAmong(d, o, U) = {r \in U : d.server[r].hello}
    BY <1>2 DEF SuitableAmong, ReplicaSetTypes
  <2>5. Specified(d, o) = OrElse({r \in T : d.server[r].hello},
                                 {r \in DOMAIN d.server : d.server[r].hello})
    BY <2>4 DEF Specified
  <2> HIDE DEF T
  <2> QED
    BY <2>1, <2>2, <2>3, <2>5 DEF OrElse
<1>3. CASE d.type = "Sharded"
  <2>1. \A ds : AsPass(ds)
    BY <1>3, ShardedPass
  <2> QED
    BY <1>1, <1>3, <2>1, TwoPasses
<1>4. CASE d.type = "Unknown"
  <2>1. \A U : SuitableAmong(d, o, U) = {}
    BY <1>4 DEF SuitableAmong, ReplicaSetTypes
  <2>2. \A ds : FilterByTopology(d, o, ds) = FilterIsDone({})
    BY <1>4 DEF FilterByTopology, ReplicaSetTypes
  <2> QED
    BY <1>1, <1>4, <2>1, <2>2 DEF Specified, OrElse, SuitableServers, FilterIsDone
<1>5. CASE d.type \in ReplicaSetTypes /\ o.optype # "write" /\ ~MustUsePrimary(d, o)
  <2>1. \A ds : AsPass(ds)
    BY <1>5, ReplicaSetPass
  <2>2. d.type # "Single"
    BY <1>5 DEF ReplicaSetTypes
  <2> QED
    BY <1>1, <2>1, <2>2, TwoPasses
<1>6. CASE d.type \in ReplicaSetTypes /\ (o.optype = "write" \/ MustUsePrimary(d, o))
  <2>1. d.type # "Single" /\ d.type # "Sharded"
    BY <1>6 DEF ReplicaSetTypes
  <2>2. \A U : SuitableAmong(d, o, U) = Primaries(d) \cap U
    BY <1>6, <2>1 DEF SuitableAmong, MustUsePrimary
  <2>3. Selectable(d, o) = Primaries(d)
    BY <1>6, PrimaryOnly
  <2>4. Specified(d, o) = OrElse(Primaries(d) \cap T, Primaries(d) \cap DOMAIN d.server)
    BY <2>2 DEF Specified
  <2>5. Primaries(d) \cap DOMAIN d.server = Primaries(d)
    BY DEF Primaries, Typed
  <2>6. Primaries(d) \cap T = {} \/ Primaries(d) \cap T = Primaries(d)
    BY OnePrimary
  <2> HIDE DEF T
  <2> QED
    BY <2>3, <2>4, <2>5, <2>6 DEF OrElse
<1> QED
  BY <1>2, <1>3, <1>4, <1>5, <1>6 DEF WellFormed, TopologyTypes

(* The secondary with the latest write is fresh enough for every           *)
(* maxStalenessSeconds that is at least a heartbeat.                       *)
LEMMA FreshestIsSpecified ==
  ASSUME NEW d, WellFormed(d), d.type \in ReplicaSetTypes, Primaries(d) = {},
         NEW o \in Operation, Compatible(d, o), o.optype = "read",
         o.mode # "primary", o.tagSets = <<>>,
         Typed(d, DOMAIN d.server, "RSSecondary") # {}
  PROVE  Specified(d, o) # {}
<1> DEFINE D == DOMAIN d.server
           S == Typed(d, D, "RSSecondary")
           f == [t \in S |-> d.server[t].lastWrite]
<1>1. /\ S \in SUBSET D
      /\ \A t \in S : d.server[t].lastWrite \in Int /\ d.server[t].type = "RSSecondary"
  BY DEF Typed, WellFormed, ServerDescription
<1>2. f \in [S -> Int] /\ \A t \in S : f[t] = d.server[t].lastWrite
  BY <1>1
<1>3. S # {}
  OBVIOUS
<1> HIDE DEF f, S
<1>4. PICK x \in S : \A y \in S : f[y] <= f[x]
  BY <1>1, <1>2, <1>3, ServersFinite, GreatestValue, Zenon
<1>5. o.staleness = NoMaxStaleness \/ FreshEnough(d, o, D, x)
  <2>1. SUFFICES ASSUME o.staleness # NoMaxStaleness
                 PROVE  \A t \in S : d.server[t].lastWrite - d.server[x].lastWrite + Heartbeat
                                       <= o.staleness
    BY DEF FreshEnough, S
  <2>2. o.staleness >= Heartbeat + IdlePeriod /\ o.staleness \in Int
        /\ Heartbeat \in Nat /\ IdlePeriod \in Nat
    BY <2>1, SelectionAssumption DEF Compatible, ValidMaxStaleness, Operation
  <2> QED
    BY <1>1, <1>2, <1>4, <2>2
<1>6. ASSUME NEW types, "RSSecondary" \in types PROVE Allowed(d, o, D, types) # {}
  <2> DEFINE F == Fresh(d, o, D, types)
  <2>1. x \in F
    BY <1>1, <1>4, <1>5, <1>6 DEF Fresh
  <2>2. Tagged(d, o, F) = F
    BY DEF Tagged
  <2>3. F \in SUBSET D
    BY DEF Fresh
  <2> HIDE DEF F
  <2>4. Near(d, F) # {}
    BY <2>1, <2>3, RttFilter
  <2> QED
    BY <2>2, <2>4, AllowedParts DEF F
<1>7. SuitableAmong(d, o, D) # {}
  <2>1. d.type # "Single" /\ d.type # "Sharded"
    BY DEF ReplicaSetTypes
  <2>2. o.mode \in {"primaryPreferred", "secondaryPreferred", "secondary", "nearest"}
    BY DEF Operation, Modes
  <2>3. /\ Allowed(d, o, D, {"RSSecondary"}) # {}
        /\ Allowed(d, o, D, {"RSPrimary", "RSSecondary"}) # {}
    BY <1>6
  <2> QED
    BY <2>1, <2>2, <2>3 DEF SuitableAmong, OrElse
<1> QED
  BY <1>7 DEF Specified, OrElse

----------------------------------------------------------------------------
(* What mongoc_topology_select_server_id has established where it is.      *)
SelectionInv ==
  /\ phase # "idle" => op \in Operations
  /\ phase \in {"selected", "missed", "asleep"} => td \in Descriptions
  /\ phase = "selected" /\ td.type # "LoadBalanced" =>
       /\ chosen \in Selectable(td, op)
       /\ op.optype = "aggregate" /\ AnyTooOld(td) => mustUse
  /\ phase \in {"missed", "asleep"} => Selectable(td, op) = {}

(* A selection, of either kind, establishes it.                            *)
LEMMA SelectInv ==
  ASSUME NEW d \in Descriptions, NEW missed \in {"missed", "asleep"},
         Select(d, missed), op \in Operations
  PROVE  SelectionInv'
<1>1. /\ op' = op /\ td' = d /\ mustUse' = SelectMustUse(d, op)
      /\ \/ phase' = "selected" /\ chosen' \in Selectable(d, op)
         \/ phase' \in {"missed", "asleep"} /\ Selectable(d, op) = {}
  BY DEF Select
<1>2. op.optype = "aggregate" /\ AnyTooOld(d) => SelectMustUse(d, op)
  BY DEF SelectMustUse, MustUsePrimary, AnyTooOld
<1>3. Selectable(td', op') = Selectable(d, op) /\ AnyTooOld(td') = AnyTooOld(d)
  BY <1>1
<1> QED
  BY <1>1, <1>2, <1>3 DEF SelectionInv

(* Initially nothing is selected.                                          *)
LEMMA SelectionInvInit == SelectInit => SelectionInv
  BY DEF SelectInit, SelectionInv

(* Every step of the loop keeps it.                                        *)
LEMMA SelectionStep == SelectionInv /\ [SelectNext]_selectVars => SelectionInv'
<1> SUFFICES ASSUME SelectionInv, [SelectNext]_selectVars PROVE SelectionInv'
  OBVIOUS
<1>1. CASE Begin
  BY <1>1 DEF Begin, SelectionInv
<1>2. CASE Check
  <2>1. PICK d \in Renewed : Select(d, "missed")
    BY <1>2 DEF Check
  <2>2. d \in Descriptions /\ op \in Operations
    BY <1>2 DEF Check, Renewed, SelectionInv
  <2> QED
    BY <2>1, <2>2, SelectInv
<1>3. CASE CheckFails
  BY <1>3 DEF CheckFails, SelectionInv
<1>4. CASE Lock
  BY <1>4 DEF Lock, SelectionInv
<1>5. CASE Recheck
  <2>1. PICK d \in Renewed : Select(d, "asleep")
    BY <1>5 DEF Recheck
  <2>2. d \in Descriptions /\ op \in Operations
    BY <1>5 DEF Recheck, Renewed, SelectionInv
  <2> QED
    BY <2>1, <2>2, SelectInv
<1>6. CASE Awake
  BY <1>6 DEF Awake, SelectionInv
<1>7. CASE Bypass
  BY <1>7 DEF Bypass, Balanced, SelectionInv
<1>8. CASE Return
  BY <1>8 DEF Return, SelectionInv
<1>9. CASE UNCHANGED selectVars
  <2>1. UNCHANGED <<phase, op, td, chosen, mustUse>>
    BY <1>9 DEF selectVars
  <2>2. Selectable(td', op') = Selectable(td, op) /\ AnyTooOld(td') = AnyTooOld(td)
    BY <2>1
  <2> QED
    BY <2>1, <2>2 DEF SelectionInv
<1> QED
  BY <1>1, <1>2, <1>3, <1>4, <1>5, <1>6, <1>7, <1>8, <1>9 DEF SelectNext

(* So it always holds.                                                     *)
LEMMA SelectionInvariance == SelectSpec => []SelectionInv
  BY SelectionInvInit, SelectionStep, PTL DEF SelectSpec

(* The filters of mongoc_topology_description_suitable_servers select what *)
(* the read preference defines, whatever the descriptions and operations.  *)
THEOREM SelectionAsSpecified == SelectSpec => []SelectedAsSpecified
<1>1. SelectionInv => SelectedAsSpecified
  <2> SUFFICES ASSUME SelectionInv, Judged PROVE SelectedAsSpecified
    BY DEF SelectedAsSpecified
  <2>1. td \in Descriptions /\ op \in Operation /\ Compatible(td, op)
        /\ td.type # "LoadBalanced"
    BY SelectionAssumption DEF SelectionInv, Judged
  <2>2. Selectable(td, op) = Specified(td, op)
    BY <2>1, SelectionAssumption, FiltersAsSpecified
  <2> QED
    BY <2>1, <2>2 DEF SelectionInv, SelectedAsSpecified, Judged
<1> QED
  BY <1>1, SelectionInvariance, PTL

(* An accepted maxStalenessSeconds never leaves a read from secondaries    *)
(* without a server while a replica set without a primary has a secondary. *)
THEOREM FreshestIsSelected == SelectSpec => []FreshestSuits
<1>1. SelectionInv => FreshestSuits
  <2> SUFFICES ASSUME SelectionInv, Judged, phase # "selected",
                      td.type \in ReplicaSetTypes, Primaries(td) = {},
                      op.optype = "read", op.mode # "primary", op.tagSets = <<>>,
                      Typed(td, DOMAIN td.server, "RSSecondary") # {}
               PROVE  FALSE
    BY DEF FreshestSuits
  <2>1. td \in Descriptions /\ op \in Operation /\ Compatible(td, op)
        /\ td.type # "LoadBalanced" /\ Selectable(td, op) = {}
    BY SelectionAssumption DEF SelectionInv, Judged
  <2>2. Selectable(td, op) = Specified(td, op)
    BY <2>1, SelectionAssumption, FiltersAsSpecified
  <2>3. Specified(td, op) # {}
    BY <2>1, SelectionAssumption, FreshestIsSpecified
  <2> QED
    BY <2>1, <2>2, <2>3
<1> QED
  BY <1>1, SelectionInvariance, PTL

(* _must_use_primary holds for every topology with an old server, also for *)
(* the selection under the mutex, which is not preceded by a check.        *)
THEOREM OldServersGetThePrimary == SelectSpec => []OldServersLimitAggregates
<1>1. SelectionInv => OldServersLimitAggregates
  <2> SUFFICES ASSUME SelectionInv, phase = "selected", op.optype = "aggregate",
                      AnyTooOld(td), td.type # "LoadBalanced"
               PROVE  /\ mustUse
                      /\ td.type \in ReplicaSetTypes => td.server[chosen].type = "RSPrimary"
    BY DEF OldServersLimitAggregates, ReplicaSetTypes
  <2>1. mustUse /\ td \in Descriptions /\ chosen \in Selectable(td, op)
    BY DEF SelectionInv
  <2>2. MustUsePrimary(td, op)
    BY DEF MustUsePrimary
  <2>3. td.type \in ReplicaSetTypes => chosen \in Primaries(td)
    BY <2>1, <2>2, SelectionAssumption, PrimaryOnly
  <2> QED
    BY <2>1, <2>3 DEF Primaries, Typed
<1> QED
  BY <1>1, SelectionInvariance, PTL
=============================================================================
