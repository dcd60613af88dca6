-------------------------- MODULE MCPooledClients ---------------------------
(* Two threads, two clients, two server sessions and one session per       *)
(* endSessions command: a thread can wait for the other's client, a        *)
(* session can expire in the pool, and destroy has to send two commands.   *)
EXTENDS PooledClients
============================================================================
