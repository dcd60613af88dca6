--------------------------- MODULE MCChangeStream ---------------------------
(* The instance of ChangeStream that TLC checks, with two scopes: long     *)
(* histories are read from one server at a time, and the empty one, with a *)
(* stream that is given no start, from either server.  The servers are     *)
(* interchangeable.                                                        *)
EXTENDS ChangeStream, TLC

LongHistories == {<<"match", "other", "match">>,
                  <<"match", "invalidate", "match">>}
AllHistories == LongHistories \cup {<< >>}
Symmetry == Permutations(Servers)

(* Bounds of the second scope: the server cursors out of reach at a time,  *)
(* which nothing but the server closes, and how often the retries of a     *)
(* call part a cursor from the server where it is open.                    *)
MaxLeft == 1
MaxMoves == 2

ServersInUse ==
  UNION {{cursor[c].server : c \in Handles}, {call.server, call.loop.server},
         {open[i].server : i \in DOMAIN open}} \ {0}

Scope ==
  \/ /\ history \in LongHistories
     /\ Cardinality(ServersInUse) <= 1 /\ OutOfReach = {}
  \/ /\ history = << >> /\ stream.option = "none"
     /\ Cardinality(OutOfReach) <= MaxLeft /\ call.moved <= MaxMoves
============================================================================
