------------------------- MODULE AtomicDescription -------------------------
(***************************************************************************)
(* What the shared topology description promises to its users: a version   *)
(* that every committed modification raises by one, and readers that hold  *)
(* an immutable snapshot of the version current at one instant.            *)
(***************************************************************************)
EXTENDS Naturals

CONSTANTS Threads,  \* the users of the description
          None      \* a thread that holds no snapshot

VARIABLES version,   \* the current version
          snapshot   \* snapshot[t]: the version t holds, or None

vars == <<version, snapshot>>

Init == version = 0 /\ snapshot = [t \in Threads |-> None]

(* mc_tpld_take_ref: the whole load is one step.                           *)
Take(t) ==
  /\ snapshot[t] = None
  /\ snapshot' = [snapshot EXCEPT ![t] = version]
  /\ UNCHANGED version

(* mc_tpld_drop_ref.                                                       *)
Drop(t) ==
  /\ snapshot[t] # None
  /\ snapshot' = [snapshot EXCEPT ![t] = None]
  /\ UNCHANGED version

(* mc_tpld_modify_begin ... mc_tpld_modify_commit.                         *)
Modify ==
  /\ version' = version + 1
  /\ UNCHANGED snapshot

Next == Modify \/ \E t \in Threads : Take(t) \/ Drop(t)

Spec == Init /\ [][Next]_vars
=============================================================================
