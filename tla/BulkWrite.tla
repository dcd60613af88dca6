----------------------------- MODULE BulkWrite -----------------------------
(***************************************************************************)
(* Bulk writes: mongoc_bulk_operation_execute (mongoc-bulk-operation.c,    *)
(* mongoc-write-command.c), whose commands are sent in batches, and        *)
(* mongoc_bulkwrite_execute (mongoc-bulkwrite.c), which sends one sequence *)
(* of operations in batches of the bulkWrite command.  Writes are          *)
(* acknowledged and run outside of transactions.                           *)
(*                                                                         *)
(* The operations of a bulk are numbered from 1.  Each is "good", "bad"    *)
(* (the server refuses it), "wide" (good, but it fills a message by        *)
(* itself) or "large" (too large to be sent).  A client belongs to one     *)
(* thread, so what varies is what servers and connections do.              *)
(***************************************************************************)
EXTENDS RetryableCommand, Sequences

CONSTANTS Bulks,       \* the bulks that may be executed
          MaxBatch,    \* maxWriteBatchSize of the servers
          RetryWrites  \* the option retryWrites of the URI

ASSUME BulkAssumption ==
  /\ MaxBatch \in Nat \ {0} /\ RetryWrites \in BOOLEAN
  /\ 0 \notin Servers
  /\ \A b \in Bulks :
       /\ b.api \in {"bulk_operation", "bulkwrite"} /\ b.ordered \in BOOLEAN
       /\ b.docs \in Seq({"good", "bad", "wide", "large"}) /\ b.docs # <<>>
       /\ 1 \in b.starts /\ b.starts \subseteq DOMAIN b.docs
       /\ b.api = "bulkwrite" => b.starts = {1}
       /\ b.multi \subseteq b.starts

VARIABLES
  bulk,        \* the bulk: its operations, the first of each command, and
               \* the first of those commands with a multi-document write
  applied,     \* operation -> how many times a server has applied it
  seen,        \* the greatest txnNumber a server has seen
  ran,         \* the statements of that number that have been applied
  txn_number,  \* session->server_session->txn_number
  call,        \* where the call is
  stream,      \* the server stream of the command, and the one it began with
  result       \* mongoc_write_result_t, or the result and the exception

vars == <<bulk, applied, seen, ran, txn_number, call, stream, result>>

Docs == DOMAIN bulk.docs
Legacy == bulk.api = "bulk_operation"

(* The last operation of the command that i belongs to.                    *)
CommandLast(i) ==
  CHOOSE j \in Docs :
    /\ i <= j /\ (j = Len(bulk.docs) \/ j + 1 \in bulk.starts)
    /\ \A k \in i .. (j - 1) : k + 1 \notin bulk.starts

(* What a batch was answered: n and writeErrors, as places in the batch.   *)
Answer(reply, n, errors) == [reply |-> reply, n |-> n, errors |-> errors]

(* The call.  first is the first operation of the command, next..last the  *)
(* batch, offset what its places are counted from; ret is what the last    *)
(* attempt returned and kept the answer that the loop will return.         *)
NewCall ==
  [at |-> "select", first |-> 1, next |-> 1, last |-> 0, offset |-> 0,
   retryable |-> FALSE, num |-> 0,
   loop |-> NewLoop("none", CHOOSE s \in Servers : TRUE),
   ret |-> FALSE, kept |-> Answer(OkReply, 0, {}), set |-> FALSE]

(* A stream: its server (0: none), and whether its connection is still the *)
(* open one.  begun is the stream that the command was given, used the one *)
(* it was last sent over; fresh and retry are the servers of new_retry_    *)
(* server_stream and retry_server_stream.                                  *)
NoStream == [server |-> 0, ok |-> FALSE]
NewStreams ==
  [begun |-> NoStream, used |-> NoStream, fresh |-> 0, retry |-> 0]

(* errorscount, first_error and parsed are of mongoc_bulkwrite_execute; of *)
(* what it has to report, error stands for an error or error reply.  ok is *)
(* what is returned, reported whether the counts are; cut is for the       *)
(* properties: an error other than of one operation ended a batch.         *)
NewResult ==
  [failed |-> FALSE, must_stop |-> FALSE, n |-> 0, errors |-> {},
   wce |-> FALSE, error |-> FALSE, server_id |-> 0, retry_server_id |-> 0,
   errorscount |-> 0, first_error |-> 0, parsed |-> FALSE,
   cut |-> FALSE, ok |-> FALSE, reported |-> FALSE]

Init ==
  /\ bulk \in Bulks
  /\ applied = [i \in Docs |-> 0]
  /\ seen = 0 /\ ran = {} /\ txn_number = 0
  /\ call = NewCall /\ stream = NewStreams /\ result = NewResult

serverVars == <<applied, seen, ran>>
----------------------------------------------------------------------------
(* The server (external).  A write with a txnNumber runs each statement    *)
(* once; one without runs again whenever it is sent.                       *)
Place(i) == i - call.next + 1
Ran == IF call.num # 0 /\ call.num = seen THEN ran ELSE {}
Passes(i) == Place(i) \in Ran \/ bulk.docs[i] \in {"good", "wide"}

(* Where a server stops in the batch, if nothing happens to it.            *)
StopAt ==
  IF bulk.ordered /\ \E i \in call.next .. call.last : ~Passes(i)
    THEN CHOOSE i \in call.next .. call.last :
           ~Passes(i) /\ \A j \in call.next .. (i - 1) : Passes(j)
    ELSE call.last

(* It runs the batch up to q.                                              *)
Process(q) ==
  LET new == {i \in call.next .. q : Passes(i) /\ Place(i) \notin Ran}
  IN  /\ applied' = [i \in Docs |-> IF i \in new THEN applied[i] + 1
                                                 ELSE applied[i]]
      /\ seen' = IF call.num = 0 THEN seen ELSE call.num
      /\ ran' = IF call.num = 0 THEN ran ELSE Ran \cup {Place(i) : i \in new}

(* Its answer to a batch that it has run.                                  *)
Written(reply) ==
  LET passed == {i \in call.next .. StopAt : Passes(i)}
  IN  Answer(reply, Cardinality(passed),
             {Place(i) : i \in (call.next .. StopAt) \ passed})

WriteReplies ==
  {OkReply, Reply(TRUE, FALSE, "ShutdownInProgress", {"RetryableWrite"}),
   Reply(TRUE, FALSE, "WriteConcernFailed", {})}
Refusals ==
  {Reply(FALSE, FALSE, "other", {"SystemOverloaded", "Retryable", "NoWrites"}),
   Reply(FALSE, FALSE, "NotPrimary", {"RetryableWrite", "NoWrites"}),
   Reply(FALSE, FALSE, "other", {})}
Interruptions ==
  {Reply(FALSE, FALSE, c, {"RetryableWrite"}) :
     c \in {"NotPrimary", "ShutdownInProgress"}}
----------------------------------------------------------------------------
(* mongoc_bulk_operation_execute begins a command, and                     *)
(* mongoc_bulkwrite_execute its only one: a stream is fetched, from the    *)
(* server of the command before if there is one.                           *)
SelectFails ==
  /\ call.at = "select"
  /\ call' = [call EXCEPT !.at = "done"]
  /\ result' = [result EXCEPT !.error = TRUE, !.cut = TRUE]
  /\ UNCHANGED <<bulk, serverVars, txn_number, stream>>

(* _is_retryable_write, with allow_txn_number as set for a bulk.           *)
MayRetry(first) == RetryWrites /\ first \notin bulk.multi

(* second: the connection was made at the second attempt, which makes the  *)
(* command one that is not retryable.                                      *)
Select ==
  /\ call.at = "select"
  /\ \E s \in IF result.server_id # 0 THEN {result.server_id} ELSE Servers,
        second \in BOOLEAN :
       /\ call' = [call EXCEPT !.at = "batch", !.ret = FALSE,
                     !.retryable = MayRetry(call.first) /\ ~second]
       /\ stream' = [NewStreams EXCEPT !.begun = [server |-> s, ok |-> TRUE],
                                       !.used = [server |-> s, ok |-> TRUE]]
  /\ UNCHANGED <<bulk, serverVars, txn_number, result>>
----------------------------------------------------------------------------
(* The next batch: as many operations as fit.                              *)
Alone(i) == bulk.docs[i] \in {"wide", "large"}
Fits(i, j) == i = j \/ \A k \in i .. j : ~Alone(k)
Full(i, j) == j = CommandLast(i) \/ j - i + 1 = MaxBatch
BatchLast(i) ==
  CHOOSE j \in i .. CommandLast(i) :
    /\ Fits(i, j) /\ (Full(i, j) \/ ~Fits(i, j + 1))
    /\ \A k \in i .. (j - 1) : ~Full(i, k)

(* _mongoc_write_opmsg looks at an operation before it asks whether it     *)
(* still fits; mongoc_bulkwrite_execute refuses one that does not fit into *)
(* a message by itself.                                                    *)
Examined(i) ==
  IF ~Legacy THEN {i}
    ELSE i .. (IF Full(i, BatchLast(i)) THEN BatchLast(i)
                                        ELSE BatchLast(i) + 1)
MeetsLarge(i) == \E k \in Examined(i) : bulk.docs[k] = "large"

TooLarge ==
  /\ call.at = "batch" /\ MeetsLarge(call.next)
  /\ call' = [call EXCEPT !.at = IF Legacy THEN "end" ELSE "return"]
  /\ result' = [result EXCEPT !.failed = TRUE, !.error = TRUE, !.cut = TRUE]
  /\ UNCHANGED <<bulk, serverVars, txn_number, stream>>

(* mongoc_cluster_stream_valid: it is not when the connection was closed,  *)
(* nor when another thread has cleared the pool.                           *)
StreamValid(s) == {FALSE, s.ok}

(* Mutant: the number is taken once for all the batches of a command.      *)
NextNumberOnce ==
  IF call.retryable
    THEN IF call.num = 0 THEN txn_number + 1 ELSE txn_number
    ELSE txn_number

(* The start of mongoc_cluster_run_retryable_write: each command that may  *)
(* be retried takes a transaction number.                                  *)
NextNumber == IF call.retryable THEN txn_number + 1 ELSE txn_number

(* Mutant: a command without a transaction number is retried as well.      *)
EligibilityOfAll == IF RetryWrites THEN "retryable_write" ELSE "none"

Eligibility ==
  IF call.retryable THEN "retryable_write"
    ELSE IF RetryWrites THEN "overload_only" ELSE "none"

(* Before each batch mongoc_bulkwrite_execute fetches another stream if    *)
(* the one it has is not valid.                                            *)
ShipOver(s) ==
  /\ stream' = [stream EXCEPT !.used = s, !.fresh = 0]
  /\ txn_number' = NextNumber
  /\ call' = [call EXCEPT !.at = "send", !.last = BatchLast(call.next),
                !.num = IF call.retryable THEN NextNumber ELSE 0,
                !.loop = NewLoop(Eligibility, s.server), !.set = FALSE]
  /\ UNCHANGED result

Ship ==
  /\ call.at = "batch" /\ ~MeetsLarge(call.next)
  /\ \/ Legacy /\ ShipOver(stream.used)
     \/ ~Legacy /\ stream.used.ok /\ ShipOver(stream.used)
     \/ /\ ~Legacy /\ FALSE \in StreamValid(stream.used)
        /\ \/ \E s \in Servers : ShipOver([server |-> s, ok |-> TRUE])
           \/ /\ call' = [call EXCEPT !.at = "return"]
              /\ result' = [result EXCEPT !.error = TRUE, !.cut = TRUE]
              /\ UNCHANGED <<stream, txn_number>>
  /\ UNCHANGED <<bulk, serverVars>>
----------------------------------------------------------------------------
(* _retryable_write_execute keeps the reply of the last attempt that may   *)
(* have written something.                                                 *)
Keeps(r) == ~(call.set /\ "NoWrites" \in r.labels)

(* An attempt ends with answer a.                                          *)
AfterAttempt(a) ==
  LET r == IF call.loop.elig = "retryable_write"
             THEN HandleWriteLabels(a.reply, call.loop.server) ELSE a.reply
  IN  /\ call' = [call EXCEPT
                    !.ret = r.ok, !.set = TRUE,
                    !.kept = IF Keeps(r) THEN [a EXCEPT !.reply = r] ELSE @,
                    !.at = IF Retries(call.loop, r) THEN "retry" ELSE "merge",
                    !.loop = IF Retries(call.loop, r)
                               THEN NextAttempt(@, r) ELSE @]
      /\ UNCHANGED <<bulk, txn_number, result>>

(* A connection is closed: the streams that use it go with it.             *)
Close ==
  stream' = [stream EXCEPT
               !.used.ok = FALSE,
               !.begun.ok = @ /\ stream.begun.server # stream.used.server]

Answered ==
  /\ call.at = "send" /\ stream.used.ok
  /\ call.num # 0 => call.num >= seen
  /\ Process(StopAt)
  /\ \E reply \in WriteReplies :
       /\ AfterAttempt(Written(reply))
       /\ IF reply.code = "ShutdownInProgress" THEN Close
                                               ELSE UNCHANGED stream

Refused ==
  /\ call.at = "send" /\ stream.used.ok
  /\ \E reply \in Refusals : AfterAttempt(Answer(reply, 0, {}))
  /\ UNCHANGED <<serverVars, stream>>

(* The server steps down or is shut down while it runs the batch.          *)
Interrupted ==
  /\ call.at = "send" /\ stream.used.ok
  /\ \E q \in (call.next - 1) .. StopAt : Process(q)
  /\ \E reply \in Interruptions :
       /\ AfterAttempt(Answer(reply, 0, {}))
       /\ IF reply.code = "ShutdownInProgress" THEN Close
                                               ELSE UNCHANGED stream

ConnectionFails ==
  /\ call.at = "send" /\ stream.used.ok
  /\ \E q \in (call.next - 1) .. StopAt : Process(q)
  /\ AfterAttempt(Answer(NetworkError, 0, {}))
  /\ Close

(* A command sent over a stream whose connection is gone: what it does is  *)
(* undefined, and the best of it is an error of the network.               *)
SendOverClosed ==
  /\ call.at = "send" /\ ~stream.used.ok
  /\ AfterAttempt(Answer(NetworkError, 0, {}))
  /\ Close
  /\ UNCHANGED serverVars

(* _retryable_write_select_retry_server.  If it finds none, the stream it  *)
(* selected for the retry before is gone.                                  *)
RetrySelect ==
  /\ call.at = "retry"
  /\ \/ \E s \in Candidates(call.loop.deprioritized) :
          /\ stream' = [stream EXCEPT
                          !.used = [server |-> s, ok |-> TRUE],
                          !.fresh = s]
          /\ call' = [call EXCEPT !.at = "send", !.loop.server = s]
     \/ /\ stream' = [stream EXCEPT
                        !.used.ok = @ /\ call.loop.attempt = 1,
                        !.fresh = 0]
        /\ call' = [call EXCEPT !.at = "merge"]
  /\ UNCHANGED <<bulk, serverVars, txn_number, result>>
----------------------------------------------------------------------------
(* _mongoc_write_result_merge_arrays.                                      *)
MergedErrors == {call.offset + e : e \in call.kept.errors}

HasWce(r) == r.ok /\ r.code # "none"

(* What follows a batch.                                                   *)
Advance(at) ==
  call' = [call EXCEPT !.at = at, !.next = call.last + 1,
                       !.offset = @ + (call.last - call.next + 1)]
MoreBatches == call.last < CommandLast(call.first)

(* _mongoc_write_result_merge.                                             *)
MergeReply(r) ==
  [r EXCEPT !.failed = @ \/ call.kept.errors # {},
            !.n = @ + call.kept.n,
            !.errors = @ \cup MergedErrors,
            !.wce = @ \/ HasWce(call.kept.reply)]

(* _mongoc_write_opmsg after a batch.                                      *)
Merge ==
  /\ call.at = "merge" /\ Legacy
  /\ \E valid \in StreamValid(stream.begun) :
     LET stop == ~call.ret /\ (bulk.ordered \/ ~valid)
     IN  /\ result' = [MergeReply(result) EXCEPT
              !.failed = @ \/ ~call.ret,
              !.must_stop = @ \/ stop,
              !.error = ~call.kept.reply.ok,
              !.cut = @ \/ ~call.kept.reply.ok]
         /\ Advance(IF MoreBatches /\ ~(result.must_stop \/ stop)
                      THEN "batch" ELSE "end")
  /\ stream' = [stream EXCEPT !.retry = IF stream.fresh # 0
                                          THEN stream.fresh ELSE @]
  /\ UNCHANGED <<bulk, serverVars, txn_number>>

(* Mutant: an ordered bulk goes on with its next command.                  *)
StopsWhenToldTo == result.failed /\ result.must_stop

(* mongoc_bulk_operation_execute stops after a command.                    *)
Stops == result.failed /\ (bulk.ordered \/ result.must_stop)

(* The end of _mongoc_write_opmsg, and of the round of the loop of         *)
(* mongoc_bulk_operation_execute.                                          *)
EndCommand ==
  /\ call.at = "end"
  /\ LET retried == IF stream.retry # 0 /\ call.ret THEN stream.retry
                                                  ELSE result.retry_server_id
         over == Stops \/ CommandLast(call.first) = Len(bulk.docs)
     IN  /\ result' = [result EXCEPT
              !.error = @ /\ ~call.ret,
              !.retry_server_id = retried,
              !.server_id = IF retried # 0 THEN retried
                                           ELSE stream.begun.server]
         /\ call' = IF over THEN [call EXCEPT !.at = "return"]
                    ELSE [call EXCEPT !.at = "select",
                            !.first = CommandLast(call.first) + 1,
                            !.next = CommandLast(call.first) + 1,
                            !.offset = CommandLast(call.first)]
  /\ UNCHANGED <<bulk, serverVars, txn_number, stream>>

(* mongoc_bulkwrite_execute after a batch that failed.                     *)
ApplyFailed ==
  /\ call.at = "merge" /\ ~Legacy /\ ~call.ret
  /\ result' = [result EXCEPT !.error = TRUE, !.cut = TRUE]
  /\ call' = [call EXCEPT !.at = "return"]
  /\ UNCHANGED <<bulk, serverVars, txn_number, stream>>

(* _bulkwritereturn_apply_reply.                                           *)
ApplyReply(r) ==
  [r EXCEPT !.n = @ + call.kept.n,
            !.errorscount = @ + Cardinality(call.kept.errors),
            !.parsed = TRUE,
            !.wce = @ \/ HasWce(call.kept.reply)]

(* _bulkwritereturn_apply_result for the errors at places of the batch.    *)
ApplyResults(r, places) ==
  [r EXCEPT !.errors = @ \cup {call.offset + e : e \in places},
            !.first_error =
              IF @ = 0 /\ places # {}
                THEN CHOOSE e \in places : \A f \in places : e <= f
                ELSE @]

(* mongoc_bulkwrite_execute after another batch.  The cursor that returns  *)
(* the results may fail before it has returned them all.                   *)
Apply ==
  /\ call.at = "merge" /\ ~Legacy /\ call.ret
  /\ \E read \in 0 .. (call.last - call.next + 1), whole \in BOOLEAN :
     LET got == call.kept.errors \cap (1 .. read)
     IN  /\ whole => got = call.kept.errors
         /\ result' = [ApplyResults(ApplyReply(result), got) EXCEPT
                         !.error = @ \/ ~whole, !.cut = @ \/ ~whole]
         /\ IF ~whole THEN call' = [call EXCEPT !.at = "return"]
              ELSE Advance(IF MoreBatches
                              /\ ~(bulk.ordered /\ result'.errors # {})
                             THEN "batch" ELSE "return")
  /\ UNCHANGED <<bulk, serverVars, txn_number, stream>>

(* _mongoc_write_result_complete, or the end of mongoc_bulkwrite_execute:  *)
(* whether success is returned, and whether the counts are.                *)
HasSuccessfulResults ==
  /\ result.parsed
  /\ IF bulk.ordered THEN result.errorscount = 0 \/ result.first_error > 1
                     ELSE result.errorscount < Len(bulk.docs)

Return ==
  /\ call.at = "return"
  /\ LET error == result.error \/ result.errors # {} \/ result.wce
     IN  result' = [result EXCEPT
                      !.error = error,
                      !.ok = ~error /\ (Legacy => ~result.failed),
                      !.reported = Legacy \/ HasSuccessfulResults]
  /\ call' = [call EXCEPT !.at = "done"]
  /\ UNCHANGED <<bulk, serverVars, txn_number, stream>>

Done == call.at = "done" /\ UNCHANGED vars

Next ==
  \/ SelectFails \/ Select \/ TooLarge \/ Ship
  \/ Answered \/ Refused \/ Interrupted \/ ConnectionFails
  \/ SendOverClosed \/ RetrySelect
  \/ Merge \/ EndCommand \/ ApplyFailed \/ Apply \/ Return \/ Done

Spec == Init /\ [][Next]_vars
----------------------------------------------------------------------------
Places == {"select", "batch", "send", "retry", "merge", "end", "return", "done"}
ReplyRecords ==
  [ok : BOOLEAN, network : BOOLEAN, code : Codes, labels : SUBSET Labels]
Answers == [reply : ReplyRecords, n : Nat, errors : SUBSET Docs]
Calls ==
  [at : Places, first : Docs, next : 1 .. (Len(bulk.docs) + 1),
   last : 0 .. Len(bulk.docs), offset : Nat, retryable : BOOLEAN, num : Nat,
   loop : Loops, ret : BOOLEAN, kept : Answers, set : BOOLEAN]
StreamRecords ==
  [begun : [server : Servers \cup {0}, ok : BOOLEAN],
   used : [server : Servers \cup {0}, ok : BOOLEAN],
   fresh : Servers \cup {0}, retry : Servers \cup {0}]
Results ==
  [failed : BOOLEAN, must_stop : BOOLEAN, n : Nat, errors : SUBSET Docs,
   wce : BOOLEAN, error : BOOLEAN, server_id : Servers \cup {0},
   retry_server_id : Servers \cup {0}, errorscount : Nat,
   first_error : Nat, parsed : BOOLEAN, cut : BOOLEAN, ok : BOOLEAN,
   reported : BOOLEAN]

(* The type invariant.                                                     *)
TypeOK ==
  /\ bulk \in Bulks
  /\ applied \in [Docs -> Nat]
  /\ seen \in Nat /\ ran \subseteq Docs /\ txn_number \in Nat
  /\ call \in Calls /\ stream \in StreamRecords /\ result \in Results

(* No operation of a bulk is applied twice, whatever is retried: neither   *)
(* one without a transaction number, nor one of a batch whose reply was    *)
(* lost after a part of it had run.                                        *)
AppliedOnce == \A i \in Docs : applied[i] <= 1

Applied == {i \in Docs : applied[i] > 0}
Bad == {i \in Docs : bulk.docs[i] = "bad"}

(* What a bulk write returns is what happened.  Success means that every   *)
(* operation was applied; a write error names an operation that the server *)
(* refused, by its place in the whole bulk; the counts are those of the    *)
(* operations applied, or less if an error has cut the bulk short; and if  *)
(* none has, every operation was applied, is named, or comes after one     *)
(* that is named in an ordered bulk.                                       *)
ResultExact ==
  call.at = "done" =>
    /\ result.ok => Applied = Docs
    /\ result.errors \subseteq Bad
    /\ result.n <= Cardinality(Applied)
    /\ result.reported /\ ~result.cut => result.n = Cardinality(Applied)
    /\ ~result.cut /\ ~result.wce =>
         \A i \in Docs \ (Applied \cup result.errors) :
           bulk.ordered /\ \E j \in result.errors : j < i

Prefix(S) == \A i \in S : 1 .. i \subseteq S

(* An ordered bulk stops at the first error, so that what was applied is   *)
(* the beginning of it: mongoc_bulkwrite_execute between batches, and      *)
(* mongoc_bulk_operation_execute between commands of one batch each.       *)
OneBatchEach == \A i \in bulk.starts : BatchLast(i) = CommandLast(i)
OrderedPrefix == bulk.ordered /\ (~Legacy \/ OneBatchEach) => Prefix(Applied)

(* mongoc_bulk_operation_execute.rst: "Unless ``ordered: false`` was       *)
(* specified [...] then forward progress will be stopped upon the first    *)
(* error."                                                                 *)
OrderedStops == bulk.ordered => Prefix(Applied)
============================================================================
