---------------------------- MODULE MCBulkWrite ----------------------------
(* The bulks that TLC executes: commands of one and of several batches,    *)
(* errors in the first and in a later batch, multi-document writes, and    *)
(* documents that fill a message or do not fit into one.                   *)
EXTENDS BulkWrite

Lists == {<<"good", "bad", "good", "good">>, <<"good", "good", "bad", "good">>,
          <<"good", "wide", "good", "bad">>, <<"good", "good", "good", "large">>}
BulkOperations ==
  {[api |-> "bulk_operation", ordered |-> o, docs |-> d, starts |-> s,
    multi |-> m \cap s] :
     o \in BOOLEAN, d \in Lists, s \in {{1}, {1, 3}, {1, 2}}, m \in {{}, {1}}}
BulkWrites ==
  {[api |-> "bulkwrite", ordered |-> o, docs |-> d, starts |-> {1},
    multi |-> m] : o \in BOOLEAN, d \in Lists, m \in {{}, {1}}}
AllBulks == BulkOperations \cup BulkWrites
============================================================================
