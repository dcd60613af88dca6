-------------------------- MODULE MCConnectionPool --------------------------
(* Instance of ConnectionPool for TLC: two clients and a monitor of one    *)
(* server, a replica set member that may be replaced by a stranger.        *)
EXTENDS ConnectionPool, TLC

CONSTANT a1  \* the address

Reply == [parses |-> TRUE, isdbgrid |-> FALSE, setName |-> "rs",
          role |-> "primary", hosts |-> {a1}, me |-> NoAddress,
          primary |-> NoAddress, electionId |-> 1, setVersion |-> 1,
          wire |-> "post6", timeout |-> 30, tv |-> NoTv]

MCAddresses == {a1}
MCReplies == a1 :> {Reply, [Reply EXCEPT !.parses = FALSE],
                    [Reply EXCEPT !.setName = "other"]}
Symmetry == Permutations(Clients)
=============================================================================
