------------------------- MODULE ApplicationThreads -------------------------
(***************************************************************************)
(* The threads of the application that share a client pool, declared once  *)
(* for the modules that are composed in PooledClients.                     *)
(***************************************************************************)
EXTENDS FiniteSets

CONSTANT Threads

ASSUME FiniteThreads == IsFiniteSet(Threads)
============================================================================
