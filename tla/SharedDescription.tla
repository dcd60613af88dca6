------------------------- MODULE SharedDescription -------------------------
(***************************************************************************)
(* The shared topology description of a pooled client: the reference       *)
(* counted pointer of mongoc-shared.c, and the copy-on-write protocol      *)
(* mc_tpld_take_ref / mc_tpld_modify_begin / commit / drop that every      *)
(* reader and every writer of the description goes through.                *)
(*                                                                         *)
(* One step is one shared memory access: an acquisition or a release of a  *)
(* mutex, one atomic add on a reference count, one read or exchange of the *)
(* shared pointer, one release of a block.  The contents of a description  *)
(* are abstracted to the number of modifications it includes.              *)
(***************************************************************************)
EXTENDS Integers, FiniteSets

CONSTANTS Threads,    \* threads of the application and of the monitors
          Nobody,     \* a mutex that no thread holds
          Blocks,     \* heap blocks descriptions are allocated in
          NoBlock,    \* the NULL pointer
          MaxCommits  \* bound on the modifications that are begun

ASSUME ThreadsAssumption == IsFiniteSet(Threads) /\ Nobody \notin Threads
ASSUME BlocksAssumption == NoBlock \notin Blocks
ASSUME NoBlockAssumption == NoBlock \notin Nat
ASSUME MaxCommitsAssumption == MaxCommits \in Nat

VARIABLES
  pc,        \* pc[t]: the next step of thread t
  shared,    \* topology->_shared_descr_: the block it points to
  ref,       \* ref[t]: the reference mc_tpld_take_ref returned to t
  oldSptr,   \* oldSptr[t], newSptr[t]: the handles of
  newSptr,   \*   mc_tpld_modify_commit
  from,      \* from[t]: what mongoc_atomic_shared_ptr_store publishes
  prev,      \* prev[t]: what the store has replaced
  raw,       \* raw[t]: a pointer t has read and does not own a count on
  newTd,     \* newTd[t]: the private copy, mc_tpld_modification.new_td
  refcount,  \* refcount[b]: _mongoc_shared_ptr_aux.refcount
  heap,      \* the blocks that are allocated
  mods,      \* mods[b]: the number of modifications b's description has
  commits,   \* how many modifications were published (history)
  readers,   \* the threads that hold g_shared_ptr_mtx shared
  writer,    \* the thread that holds g_shared_ptr_mtx exclusively
  modMtx     \* the thread that holds tpld_modification_mtx

sptrs == <<ref, oldSptr, newSptr, from, prev>>
locks == <<readers, writer, modMtx>>
vars == <<pc, shared, sptrs, raw, newTd, refcount, heap, mods, commits, locks>>

(* At a label free_x the thread releases the block its handle x counted    *)
(* last.                                                                   *)
FreeLabels == {"free_ref", "free_prev", "free_new", "free_old"}

Labels == {"idle", "load_lock", "load_read", "load_add", "load_unlock",
           "use", "copy", "drop_ref", "decide", "discard", "commit_read",
           "commit_old", "create", "store_add", "store_lock", "store_xchg",
           "store_unlock", "drop_prev", "commit_unlock", "drop_new",
           "drop_old"} \cup FreeLabels

Pointers == Blocks \cup {NoBlock}

Goto(t, label) == pc' = [pc EXCEPT ![t] = label]

(* mongoc_topology_new: one description with one count, the topology's.    *)
Init ==
  /\ pc = [t \in Threads |-> "idle"]
  /\ shared \in Blocks
  /\ ref = [t \in Threads |-> NoBlock]
  /\ oldSptr = [t \in Threads |-> NoBlock]
  /\ newSptr = [t \in Threads |-> NoBlock]
  /\ from = [t \in Threads |-> NoBlock]
  /\ prev = [t \in Threads |-> NoBlock]
  /\ raw = [t \in Threads |-> NoBlock]
  /\ newTd = [t \in Threads |-> NoBlock]
  /\ refcount = [b \in Blocks |-> IF b = shared THEN 1 ELSE 0]
  /\ heap = {shared}
  /\ mods = [b \in Blocks |-> 0]
  /\ commits = 0
  /\ readers = {}
  /\ writer = Nobody
  /\ modMtx = Nobody

----------------------------------------------------------------------------
(* mongoc_shared_ptr_copy: the atomic increment of the count of b.         *)
Copy(b) == refcount' = [refcount EXCEPT ![b] = @ + 1]

(* Where a thread goes once the handle its label names is null.            *)
AfterReset(t, free) ==
  CASE free = "free_ref"  -> IF modMtx = t THEN "decide" ELSE "idle"
    [] free = "free_prev" -> "commit_unlock"
    [] free = "free_new"  -> "drop_old"
    [] free = "free_old"  -> "idle"

(* Mutant: compares the previous value of the count with zero.             *)
ResetNullOffByOne(t, b, free) ==
  /\ refcount' = [refcount EXCEPT ![b] = @ - 1]
  /\ IF refcount[b] = 0
       THEN raw' = [raw EXCEPT ![t] = b] /\ Goto(t, free)
       ELSE UNCHANGED raw /\ Goto(t, AfterReset(t, free))
  /\ UNCHANGED <<shared, newTd, heap, mods, commits, locks>>

(* mongoc_shared_ptr_reset_null of a handle of t on block b: the atomic    *)
(* decrement; the thread that saw the count at one releases the block.     *)
ResetNull(t, b, free) ==
  /\ refcount' = [refcount EXCEPT ![b] = @ - 1]
  /\ IF refcount[b] = 1
       THEN raw' = [raw EXCEPT ![t] = b] /\ Goto(t, free)
       ELSE UNCHANGED raw /\ Goto(t, AfterReset(t, free))
  /\ UNCHANGED <<shared, newTd, heap, mods, commits, locks>>

(* _release_aux: the deleter destroys the description, the count goes too. *)
ReleaseAux(t) ==
  /\ pc[t] \in FreeLabels
  /\ heap' = heap \ {raw[t]}
  /\ raw' = [raw EXCEPT ![t] = NoBlock]
  /\ Goto(t, AfterReset(t, pc[t]))
  /\ UNCHANGED <<shared, sptrs, newTd, refcount, mods, commits, locks>>

----------------------------------------------------------------------------
(* mongoc_atomic_shared_ptr_load, called by mc_tpld_take_ref: a shared     *)
(* lock, a read of the pointer, the increment, the unlock.                 *)
LoadLock(t) ==
  /\ pc[t] = "load_lock"
  /\ writer = Nobody
  /\ readers' = readers \cup {t}
  /\ Goto(t, "load_read")
  /\ UNCHANGED <<shared, sptrs, raw, newTd, refcount, heap, mods, commits,
                 writer, modMtx>>

LoadRead(t) ==
  /\ pc[t] = "load_read"
  /\ raw' = [raw EXCEPT ![t] = shared]
  /\ Goto(t, "load_add")
  /\ UNCHANGED <<shared, sptrs, newTd, refcount, heap, mods, commits, locks>>

LoadAdd(t) ==
  /\ pc[t] = "load_add"
  /\ Copy(raw[t])
  /\ ref' = [ref EXCEPT ![t] = raw[t]]
  /\ raw' = [raw EXCEPT ![t] = NoBlock]
  /\ Goto(t, "load_unlock")
  /\ UNCHANGED <<shared, oldSptr, newSptr, from, prev, newTd, heap, mods, commits, locks>>

LoadUnlock(t) ==
  /\ pc[t] = "load_unlock"
  /\ readers' = readers \ {t}
  /\ Goto(t, IF modMtx = t THEN "copy" ELSE "use")
  /\ UNCHANGED <<shared, sptrs, raw, newTd, refcount, heap, mods, commits,
                 writer, modMtx>>

(* A reader: mc_tpld_take_ref, a use of the description, mc_tpld_drop_ref. *)
TakeRef(t) ==
  /\ pc[t] = "idle"
  /\ Goto(t, "load_lock")
  /\ UNCHANGED <<shared, sptrs, raw, newTd, refcount, heap, mods, commits,
                 locks>>

UseRef(t) ==
  /\ pc[t] = "use"
  /\ Goto(t, "drop_ref")
  /\ UNCHANGED <<shared, sptrs, raw, newTd, refcount, heap, mods, commits,
                 locks>>

DropRef(t) ==
  /\ pc[t] = "drop_ref"
  /\ ref' = [ref EXCEPT ![t] = NoBlock]
  /\ ResetNull(t, ref[t], "free_ref")
  /\ UNCHANGED <<oldSptr, newSptr, from, prev>>

----------------------------------------------------------------------------
(* mc_tpld_modify_begin: takes tpld_modification_mtx, loads a reference,   *)
(* copies the description into a new block (the caller's modification is   *)
(* counted here, the copy is private) and drops the reference.             *)
ModifyBegin(t) ==
  /\ pc[t] = "idle"
  /\ commits < MaxCommits
  /\ modMtx = Nobody
  /\ modMtx' = t
  /\ Goto(t, "load_lock")
  /\ UNCHANGED <<shared, sptrs, raw, newTd, refcount, heap, mods, commits,
                 readers, writer>>

(* Mutant: the modification also reaches the published description.        *)
NewCopyInPlace(t) ==
  /\ pc[t] = "copy"
  /\ \E b \in Blocks \ heap :
       /\ newTd' = [newTd EXCEPT ![t] = b]
       /\ heap' = heap \cup {b}
       /\ mods' = [mods EXCEPT ![b] = mods[ref[t]] + 1, ![ref[t]] = @ + 1]
  /\ Goto(t, "drop_ref")
  /\ UNCHANGED <<shared, sptrs, raw, refcount, commits, locks>>

NewCopy(t) ==
  /\ pc[t] = "copy"
  /\ \E b \in Blocks \ heap :
       /\ newTd' = [newTd EXCEPT ![t] = b]
       /\ heap' = heap \cup {b}
       /\ mods' = [mods EXCEPT ![b] = mods[ref[t]] + 1]
  /\ Goto(t, "drop_ref")
  /\ UNCHANGED <<shared, sptrs, raw, refcount, commits, locks>>

(* mc_tpld_modify_drop: unlocks, then destroys the private copy.           *)
ModifyDrop(t) ==
  /\ pc[t] = "decide"
  /\ modMtx' = Nobody
  /\ Goto(t, "discard")
  /\ UNCHANGED <<shared, sptrs, raw, newTd, refcount, heap, mods, commits,
                 readers, writer>>

Discard(t) ==
  /\ pc[t] = "discard"
  /\ heap' = heap \ {newTd[t]}
  /\ newTd' = [newTd EXCEPT ![t] = NoBlock]
  /\ Goto(t, "idle")
  /\ UNCHANGED <<shared, sptrs, raw, refcount, mods, commits, locks>>

----------------------------------------------------------------------------
(* mc_tpld_modify_commit: old_sptr copies the shared pointer (read without *)
(* g_shared_ptr_mtx), new_sptr owns the private copy, then the store.      *)
ModifyCommit(t) ==
  /\ pc[t] = "decide"
  /\ Goto(t, "commit_read")
  /\ UNCHANGED <<shared, sptrs, raw, newTd, refcount, heap, mods, commits,
                 locks>>

CommitRead(t) ==
  /\ pc[t] = "commit_read"
  /\ raw' = [raw EXCEPT ![t] = shared]
  /\ Goto(t, "commit_old")
  /\ UNCHANGED <<shared, sptrs, newTd, refcount, heap, mods, commits, locks>>

CommitOld(t) ==
  /\ pc[t] = "commit_old"
  /\ Copy(raw[t])
  /\ oldSptr' = [oldSptr EXCEPT ![t] = raw[t]]
  /\ raw' = [raw EXCEPT ![t] = NoBlock]
  /\ Goto(t, "create")
  /\ UNCHANGED <<shared, ref, newSptr, from, prev, newTd, heap, mods, commits, locks>>

(* mongoc_shared_ptr_create: the managed block starts with one count.      *)
Create(t) ==
  /\ pc[t] = "create"
  /\ newSptr' = [newSptr EXCEPT ![t] = newTd[t]]
  /\ refcount' = [refcount EXCEPT ![newTd[t]] = 1]
  /\ newTd' = [newTd EXCEPT ![t] = NoBlock]
  /\ Goto(t, "store_add")
  /\ UNCHANGED <<shared, ref, oldSptr, from, prev, raw, heap, mods, commits, locks>>

(* Mutants: the store does not count the pointer it publishes, exchanges   *)
(* it while readers are between the read and the increment, publishes its  *)
(* handle after it was moved from.                                         *)
StoreAddUncounted(t) ==
  /\ pc[t] = "store_add"
  /\ from' = [from EXCEPT ![t] = newSptr[t]]
  /\ Goto(t, "store_lock")
  /\ UNCHANGED <<shared, ref, oldSptr, newSptr, prev, raw, newTd, refcount,
                 heap, mods, commits, locks>>

StoreLockShared(t) ==
  /\ pc[t] = "store_lock"
  /\ writer = Nobody
  /\ writer' = t
  /\ Goto(t, "store_xchg")
  /\ UNCHANGED <<shared, sptrs, raw, newTd, refcount, heap, mods, commits,
                 readers, modMtx>>

(* mongoc_atomic_shared_ptr_store: counts the new pointer, exchanges it    *)
(* under the exclusive lock, and drops the pointer it replaced outside.    *)
StoreAdd(t) ==
  /\ pc[t] = "store_add"
  /\ Copy(newSptr[t])
  /\ from' = [from EXCEPT ![t] = newSptr[t]]
  /\ Goto(t, "store_lock")
  /\ UNCHANGED <<shared, ref, oldSptr, newSptr, prev, raw, newTd, heap, mods, commits, locks>>

StoreLock(t) ==
  /\ pc[t] = "store_lock"
  /\ writer = Nobody
  /\ readers = {}
  /\ writer' = t
  /\ Goto(t, "store_xchg")
  /\ UNCHANGED <<shared, sptrs, raw, newTd, refcount, heap, mods, commits,
                 readers, modMtx>>

StoreExchange(t) ==
  /\ pc[t] = "store_xchg"
  /\ shared' = from[t]
  /\ prev' = [prev EXCEPT ![t] = shared]
  /\ from' = [from EXCEPT ![t] = NoBlock]
  /\ commits' = commits + 1
  /\ Goto(t, "store_unlock")
  /\ UNCHANGED <<ref, oldSptr, newSptr, raw, newTd, refcount, heap, mods,
                 locks>>

StoreUnlock(t) ==
  /\ pc[t] = "store_unlock"
  /\ writer' = Nobody
  /\ Goto(t, "drop_prev")
  /\ UNCHANGED <<shared, sptrs, raw, newTd, refcount, heap, mods, commits,
                 readers, modMtx>>

DropPrev(t) ==
  /\ pc[t] = "drop_prev"
  /\ prev' = [prev EXCEPT ![t] = NoBlock]
  /\ ResetNull(t, prev[t], "free_prev")
  /\ UNCHANGED <<ref, oldSptr, newSptr, from>>

CommitUnlock(t) ==
  /\ pc[t] = "commit_unlock"
  /\ modMtx' = Nobody
  /\ Goto(t, "drop_new")
  /\ UNCHANGED <<shared, sptrs, raw, newTd, refcount, heap, mods, commits,
                 readers, writer>>

DropNew(t) ==
  /\ pc[t] = "drop_new"
  /\ newSptr' = [newSptr EXCEPT ![t] = NoBlock]
  /\ ResetNull(t, newSptr[t], "free_new")
  /\ UNCHANGED <<ref, oldSptr, from, prev>>

DropOld(t) ==
  /\ pc[t] = "drop_old"
  /\ oldSptr' = [oldSptr EXCEPT ![t] = NoBlock]
  /\ ResetNull(t, oldSptr[t], "free_old")
  /\ UNCHANGED <<ref, newSptr, from, prev>>

----------------------------------------------------------------------------
Load(t) == LoadLock(t) \/ LoadRead(t) \/ LoadAdd(t) \/ LoadUnlock(t)

Read(t) == TakeRef(t) \/ UseRef(t) \/ DropRef(t)

Modify(t) == ModifyBegin(t) \/ NewCopy(t) \/ ModifyDrop(t) \/ Discard(t)

Commit(t) == \/ ModifyCommit(t) \/ CommitRead(t) \/ CommitOld(t)
             \/ Create(t) \/ CommitUnlock(t) \/ DropNew(t) \/ DropOld(t)

Store(t) == \/ StoreAdd(t) \/ StoreLock(t) \/ StoreExchange(t)
            \/ StoreUnlock(t) \/ DropPrev(t)

Next == \E t \in Threads :
          Load(t) \/ Read(t) \/ Modify(t) \/ Commit(t) \/ Store(t)
          \/ ReleaseAux(t)

Spec == Init /\ [][Next]_vars

----------------------------------------------------------------------------
(* Type invariant of the shared pointer and of the writers' state.         *)
TypeOK ==
  /\ pc \in [Threads -> Labels]
  /\ shared \in Blocks
  /\ ref \in [Threads -> Pointers]
  /\ oldSptr \in [Threads -> Pointers]
  /\ newSptr \in [Threads -> Pointers]
  /\ from \in [Threads -> Pointers]
  /\ prev \in [Threads -> Pointers]
  /\ raw \in [Threads -> Pointers]
  /\ newTd \in [Threads -> Pointers]
  /\ refcount \in [Blocks -> Int]
  /\ heap \subseteq Blocks
  /\ mods \in [Blocks -> Nat]
  /\ commits \in Nat
  /\ readers \subseteq Threads
  /\ writer \in Threads \cup {Nobody}
  /\ modMtx \in Threads \cup {Nobody}

(* The number of threads whose handle p points to block b.                 *)
Count(p, b) == Cardinality({t \in Threads : p[t] = b})

(* Every pointer a thread or the topology can still dereference leads to   *)
(* an allocated block: mongoc_shared_ptr_copy between the read of the      *)
(* pointer and the increment, readers that outlive a commit, and blocks    *)
(* released a second time.                                                 *)
NoUseAfterFree ==
  /\ shared \in heap
  /\ \A t \in Threads :
       {ref[t], oldSptr[t], newSptr[t], from[t], prev[t], raw[t], newTd[t]}
         \subseteq heap \cup {NoBlock}

(* The count of every block is the number of handles that own it, whatever *)
(* the interleaving of copies, resets and stores.                          *)
RefcountExact ==
  \A b \in Blocks :
    refcount[b] = Count(ref, b) + Count(oldSptr, b) + Count(newSptr, b)
                    + Count(from, b) + Count(prev, b)
                    + (IF shared = b THEN 1 ELSE 0)

(* No description is leaked: an allocated block is counted, is the private *)
(* copy of one modification, or is being released by exactly one thread.   *)
NoLeak ==
  \A b \in heap :
    \/ refcount[b] > 0
    \/ \E t \in Threads : newTd[t] = b
    \/ Count(raw, b) = 1

(* No modification is lost: the published description has every committed  *)
(* modification, so tpld_modification_mtx covers the read of the base, the *)
(* copy and the store of mc_tpld_modify_begin and mc_tpld_modify_commit.   *)
NoLostUpdate == mods[shared] = commits

(* What a thread sees of the description it holds; NoBlock when none.      *)
Snapshot(t) == IF ref[t] = NoBlock THEN NoBlock ELSE mods[ref[t]]

(* The protocol implements an atomic register: a reader takes the current  *)
(* description in one step, a commit adds one modification to the current  *)
(* description in one step.                                                *)
Atomic == INSTANCE AtomicDescription
            WITH None <- NoBlock, version <- mods[shared],
                 snapshot <- [t \in Threads |-> Snapshot(t)]
AtomicSpec == Atomic!Spec
=============================================================================
