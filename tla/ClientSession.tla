--------------------------- MODULE ClientSession ---------------------------
(***************************************************************************)
(* mongoc_client_session_t: writes, transactions and with_transaction on   *)
(* one session, through the retry loop, over connections that fail at any  *)
(* point.  The thread of the session is sequential; what runs beside it is *)
(* the deployment, which may process a command long after the driver gave  *)
(* up on its connection.                                                   *)
(*                                                                         *)
(* A command is selected for, assembled and sent in one step; its answer   *)
(* or the failure of the connection is the next one.                       *)
(***************************************************************************)
EXTENDS SessionServer

CONSTANTS Sharded,     \* the topology is a sharded cluster
          RetryWrites, \* the option retryWrites of the URI
          MaxCalls,    \* bound on the calls of the application
          MaxLate      \* bound on the commands that arrive late

ASSUME SessionAssumption ==
  /\ Sharded \in BOOLEAN /\ RetryWrites \in BOOLEAN
  /\ MaxCalls \in 0 .. MaxWrites /\ MaxLate \in Nat

VARIABLES
  txn_state,      \* session->txn.state
  txn_number,     \* session->server_session->txn_number
  dirty,          \* session->server_session->dirty
  server_id,      \* session->server_id: the pinned mongos, or 0
  recovery_token, \* the number of the transaction it is for, or 0
  call,     \* the function of the application's call, or "none"
  pc,       \* "idle", "select" or "wait"
  cmd,      \* the command that runs, with its loop and the kept reply
  late,     \* commands given up on, which may still be processed
  result,   \* what the last call returned
  with,     \* with_transaction: where it is, and what it needs to know
  calls,    \* calls made so far, but for the ones that start something
  transient \* a command of the transaction got TransientTransactionError

txnVars == <<txn_state, txn_number, dirty, server_id, recovery_token>>
callVars == <<call, pc, cmd, result, calls>>
vars == <<serverVars, txnVars, callVars, late, with, transient>>

TxnStates == {"none", "starting", "in_progress", "ending", "committed",
              "committed_empty", "aborted"}

InTxn == txn_state \in {"starting", "in_progress"}
InTxnOrEnding == InTxn \/ txn_state = "ending"
InShardedTxn == Sharded /\ InTxnOrEnding

(* What a call returns: its value, the kind of its error and the reply.    *)
(* The rest is for the properties: its command, and whether the commit it  *)
(* reports had been applied by an earlier message.                         *)
Returned(fn, ok, error, reply, c) ==
  [fn |-> fn, ok |-> ok, error |-> error, code |-> reply.code,
   labels |-> reply.labels, num |-> c.msg.num, write |-> c.msg.write,
   kind |-> c.msg.kind, repeat |-> c.msg.num \in committed]

AServer == CHOOSE s \in Servers : TRUE
NoMessage == [kind |-> "abort", write |-> 0, num |-> 0, start |-> FALSE,
              majority |-> FALSE, token |-> 0, server |-> AServer]
(* The command of a call.  again: txn_commit or txn_abort runs it for the  *)
(* second time; tried: it is in its loop; ok: what the last attempt        *)
(* returned; kept: the reply to return, once one is set.                   *)
NewCommand(msg) ==
  [msg |-> msg, again |-> FALSE, tried |-> FALSE,
   loop |-> NewLoop("none", AServer), ok |-> FALSE, kept |-> OkReply,
   set |-> FALSE]
NoCommand == NewCommand(NoMessage)
Nothing == Returned("none", TRUE, "none", OkReply, NoCommand)

NotWith == [at |-> "off", nums |-> {}, labels |-> {}, expired |-> FALSE,
            ok |-> TRUE]

Init ==
  /\ ServerInit
  /\ txn_state = "none" /\ txn_number = 0 /\ dirty = FALSE
  /\ server_id = 0 /\ recovery_token = 0
  /\ call = "none" /\ pc = "idle" /\ cmd = NoCommand
  /\ late = {} /\ result = Nothing /\ with = NotWith /\ calls = 0
  /\ transient = FALSE

----------------------------------------------------------------------------
(* The application, or the callback of with_transaction, makes a call.     *)
MayCall ==
  call = "none" /\ with.at \in {"off", "callback"}

CountCall == calls < MaxCalls /\ calls' = calls + 1

Run(fn, msg) ==
  /\ call' = fn /\ pc' = "select"
  /\ cmd' = NewCommand(msg)
  /\ result' = Nothing

(* Mutant: the recovery token of the transaction before is left.           *)
StartTransactionKeepsToken ==
  /\ ~InTxn
  /\ txn_number < MaxTxnNumber
  /\ txn_number' = txn_number + 1
  /\ txn_state' = "starting"
  /\ server_id' = 0
  /\ transient' = FALSE
  /\ UNCHANGED <<recovery_token, dirty>>

(* mongoc_client_session_start_transaction, with an acknowledged write     *)
(* concern: the number grows, the session is unpinned, the token dropped.  *)
StartTransaction ==
  /\ ~InTxn
  /\ txn_number < MaxTxnNumber
  /\ txn_number' = txn_number + 1
  /\ txn_state' = "starting"
  /\ server_id' = 0
  /\ recovery_token' = 0
  /\ transient' = FALSE
  /\ UNCHANGED dirty

CallStart ==
  /\ MayCall /\ with.at = "off"
  /\ StartTransaction
  /\ result' = Nothing
  /\ UNCHANGED <<serverVars, call, pc, cmd, calls, late, with>>

(* A write command with the session, in a transaction or not.              *)
CallWrite ==
  /\ MayCall /\ CountCall
  /\ \/ /\ InTxn
        /\ Run("write", [NoMessage EXCEPT !.kind = "statement"])
     \/ /\ ~InTxn /\ txn_number < MaxTxnNumber
        /\ Run("write", [NoMessage EXCEPT !.kind = "write",
                                          !.write = calls + 1])
  /\ UNCHANGED <<serverVars, txnVars, late, with, transient>>

TxnFinish(kind) ==
  [NoMessage EXCEPT !.kind = kind, !.num = txn_number,
                    !.token = recovery_token]

(* mongoc_client_session_commit_transaction and txn_commit up to its       *)
(* command: w:majority when the transaction was committed before.          *)
Commit ==
  /\ \/ /\ txn_state \in {"in_progress", "committed"}
        /\ txn_state' = "ending"
        /\ Run("commit", [TxnFinish("commit") EXCEPT
                            !.majority = (txn_state = "committed")])
     \/ /\ txn_state \in {"starting", "committed_empty"}
        /\ txn_state' = "committed_empty"
        /\ result' = Returned("commit", TRUE, "none", OkReply, NoCommand)
        /\ UNCHANGED <<call, pc, cmd>>
     \/ /\ txn_state \in {"none", "aborted"}
        /\ result' = Returned("commit", FALSE, "state", OkReply, NoCommand)
        /\ UNCHANGED <<txn_state, call, pc, cmd>>
  /\ UNCHANGED <<txn_number, dirty, server_id, recovery_token>>

CallCommit ==
  /\ MayCall /\ CountCall
  /\ Commit
  /\ UNCHANGED <<serverVars, late, with, transient>>

(* mongoc_client_session_abort_transaction                                 *)
Abort ==
  /\ \/ /\ txn_state = "in_progress"
        /\ txn_state' = "ending"
        /\ Run("abort", TxnFinish("abort"))
        /\ UNCHANGED server_id
     \/ /\ txn_state = "starting"
        /\ txn_state' = "aborted" /\ server_id' = 0
        /\ result' = Returned("abort", TRUE, "none", OkReply, NoCommand)
        /\ UNCHANGED <<call, pc, cmd>>
     \/ /\ txn_state \in {"none", "committed", "committed_empty", "aborted"}
        /\ result' = Returned("abort", FALSE, "state", OkReply, NoCommand)
        /\ UNCHANGED <<txn_state, server_id, call, pc, cmd>>
  /\ UNCHANGED <<txn_number, dirty, recovery_token>>

CallAbort ==
  /\ MayCall /\ CountCall
  /\ Abort
  /\ UNCHANGED <<serverVars, late, with, transient>>

----------------------------------------------------------------------------
(* The end of a call whose command ended with r and left the session       *)
(* pinned to p.  A call of txn_commit or txn_abort runs its command again  *)
(* after a retryable error, unpinned and, for a commit, with w:majority.   *)
Return(ok, error, reply) ==
  /\ result' = Returned(call, ok, error, reply, cmd)
  /\ call' = "none" /\ pc' = "idle"
  /\ cmd' = NoCommand

EndWrite(ok, error, r, p) ==
  /\ call = "write"
  /\ Return(ok, error, r)
  /\ server_id' = p
  /\ UNCHANGED txn_state

RunAgain(msg) ==
  /\ cmd' = [NewCommand(msg) EXCEPT !.again = TRUE]
  /\ pc' = "select"
  /\ server_id' = 0
  /\ UNCHANGED <<call, result, txn_state>>

UnknownResult(ok, error, r) ==
  /\ ~ok
  /\ \/ error = "selection"
     \/ WriteErrorType(r) \in {"retry", "write_concern"}
     \/ r.code = "MaxTimeMSExpired"

EndCommit(ok, error, r, p) ==
  /\ call = "commit"
  /\ IF ~cmd.again /\ WriteErrorType(r) = "retry"
       THEN RunAgain([cmd.msg EXCEPT !.majority = TRUE])
       ELSE /\ Return(ok, error,
                      IF UnknownResult(ok, error, r)
                        THEN [r EXCEPT !.labels = @ \cup {"UnknownCommit"}]
                        ELSE r)
            /\ server_id' = IF UnknownResult(ok, error, r) THEN 0 ELSE p
            /\ txn_state' = "committed"

EndAbort(ok, error, r, p) ==
  /\ call = "abort"
  /\ IF ~cmd.again /\ "RetryableWrite" \in r.labels
       THEN RunAgain(cmd.msg)
       ELSE /\ Return(TRUE, "none", OkReply)
            /\ server_id' = 0
            /\ txn_state' = "aborted"

End(ok, error, r, p) ==
  \/ EndWrite(ok, error, r, p)
  \/ EndCommit(ok, error, r, p)
  \/ EndAbort(ok, error, r, p)
----------------------------------------------------------------------------
(* _mongoc_cluster_select_server_id: in a transaction on a sharded cluster *)
(* the pinned mongos, or one that becomes the pinned mongos.               *)
Selections(deprioritized) ==
  IF InShardedTxn /\ server_id # 0 THEN {server_id}
                                   ELSE Candidates(deprioritized)

(* Mutant: the mongos selected is not pinned.                              *)
PinAfterNever(s) ==
  IF InTxnOrEnding THEN server_id ELSE 0

PinAfter(s) ==
  IF InShardedTxn THEN s ELSE IF InTxnOrEnding THEN server_id ELSE 0
PinUnselected == IF InTxnOrEnding THEN server_id ELSE 0

(* _mongoc_cluster_stream_for_optype finds no server, or cannot connect to *)
(* it, not even at the second attempt that retryWrites allows.             *)
Transient == IF InTxn THEN {"Transient"} ELSE {}

SelectFails ==
  /\ pc = "select" /\ ~cmd.tried
  /\ ~(InShardedTxn /\ server_id # 0)
  /\ End(FALSE, "selection", Reply(FALSE, FALSE, "other", Transient),
         PinUnselected)
  /\ transient' = (transient \/ InTxn)
  /\ UNCHANGED <<serverVars, txn_number, dirty, recovery_token, late, with,
                 calls>>

Overloaded == {"SystemOverloaded", "Retryable"}
ConnectFails ==
  /\ pc = "select" /\ ~cmd.tried
  /\ \E s \in Selections({}) :
       End(FALSE, "network",
           Reply(FALSE, TRUE, "none",
                 Overloaded \cup (IF RetryWrites THEN {"RetryableWrite"}
                                                 ELSE {})), PinAfter(s))
  /\ UNCHANGED <<serverVars, txn_number, dirty, recovery_token, late, with,
                 calls, transient>>

(* mongoc_cmd_parts_assemble with _mongoc_client_session_append_txn, and   *)
(* the start of mongoc_cluster_run_retryable_write.  second: the           *)
(* connection was made at the second attempt, so the write is not          *)
(* retryable.                                                              *)
Send(loop, msg) ==
  /\ cmd' = [cmd EXCEPT !.tried = TRUE, !.loop = loop, !.msg = msg]
  /\ pc' = "wait"
  /\ UNCHANGED <<call, result>>

NotRetryable == IF RetryWrites THEN "overload_only" ELSE "none"

SendWrite(s, second) ==
  /\ cmd.msg.kind = "write"
  /\ \E retryable \in {RetryWrites /\ ~second} :
       /\ txn_number' = IF retryable THEN txn_number + 1 ELSE txn_number
       /\ Send(NewLoop(IF retryable THEN "retryable_write"
                                    ELSE NotRetryable, s),
               [cmd.msg EXCEPT !.server = s,
                  !.num = IF retryable THEN txn_number + 1 ELSE 0])
  /\ txn_state' = "none"
  /\ recovery_token' = IF txn_state = "none" THEN recovery_token ELSE 0

SendStatement(s) ==
  /\ cmd.msg.kind = "statement"
  /\ Send(NewLoop(NotRetryable, s),
          [cmd.msg EXCEPT !.server = s, !.num = txn_number,
                          !.start = (txn_state = "starting")])
  /\ txn_state' = "in_progress"
  /\ UNCHANGED <<txn_number, recovery_token>>

SendFinish(s) ==
  /\ cmd.msg.kind \in {"commit", "abort"}
  /\ Send(NewLoop(NotRetryable, s), [cmd.msg EXCEPT !.server = s])
  /\ UNCHANGED <<txn_number, txn_state, recovery_token>>

FirstSend ==
  /\ pc = "select" /\ ~cmd.tried
  /\ \E s \in Selections({}) :
       /\ server_id' = PinAfter(s)
       /\ \/ \E second \in {FALSE, RetryWrites} : SendWrite(s, second)
          \/ SendStatement(s)
          \/ SendFinish(s)
  /\ UNCHANGED <<serverVars, dirty, late, with, calls, transient>>

(* Mutant: each attempt of a retryable write takes a transaction number.   *)
RetrySendRenumbered ==
  /\ pc = "select" /\ cmd.tried
  /\ txn_number' = IF cmd.msg.kind = "write" /\ txn_number < MaxTxnNumber
                     THEN txn_number + 1 ELSE txn_number
  /\ \E s \in Selections(cmd.loop.deprioritized) :
       /\ server_id' = PinAfter(s)
       /\ Send([cmd.loop EXCEPT !.server = s],
               [cmd.msg EXCEPT !.server = s,
                  !.num = IF cmd.msg.kind = "write" THEN txn_number' ELSE @])
  /\ UNCHANGED <<serverVars, txn_state, recovery_token, dirty,
                 late, with, calls, transient>>

(* The loop selects a server for the next attempt, which sends the same    *)
(* command, or ends without one.                                           *)
RetrySend ==
  /\ pc = "select" /\ cmd.tried
  /\ \E s \in Selections(cmd.loop.deprioritized) :
       /\ server_id' = PinAfter(s)
       /\ Send([cmd.loop EXCEPT !.server = s], [cmd.msg EXCEPT !.server = s])
  /\ UNCHANGED <<serverVars, txn_number, txn_state, recovery_token, dirty,
                 late, with, calls, transient>>

(* _mongoc_client_command_with_opts: a writeConcernError is a failure.     *)
EndRun(ok, kept, p) ==
  End(ok /\ CheckOk(kept),
      CASE kept.network -> "network"
        [] ~kept.network /\ ~kept.ok -> "server"
        [] ~kept.network /\ kept.ok ->
             IF ok /\ kept.code # "none" THEN "server" ELSE "none", kept, p)

RetryFails ==
  /\ pc = "select" /\ cmd.tried
  /\ \/ /\ ~(InShardedTxn /\ server_id # 0)
        /\ EndRun(cmd.ok, cmd.kept, PinUnselected)
     \/ \E s \in Selections(cmd.loop.deprioritized) :
          EndRun(cmd.ok, cmd.kept, PinAfter(s))
  /\ UNCHANGED <<serverVars, txn_number, dirty, recovery_token, late, with,
                 calls, transient>>

----------------------------------------------------------------------------
(* _retryable_write_execute after the attempt: labels, the reply to keep,  *)
(* and the loop's decision.  p is the pin run_command_monitored left.      *)
Labelled(r) ==
  IF \/ cmd.msg.kind \in {"commit", "abort"}
     \/ cmd.loop.elig = "retryable_write"
    THEN HandleWriteLabels(r, cmd.msg.server) ELSE r

(* Mutant: the last error is returned.                                     *)
KeepLast(r) == r

Keep(r) ==
  IF cmd.set /\ "NoWrites" \in r.labels THEN cmd.kept ELSE r

AfterAttempt(r, p) ==
  IF Retries(cmd.loop, r)
    THEN /\ cmd' = [cmd EXCEPT !.loop = NextAttempt(cmd.loop, r),
                               !.ok = r.ok, !.kept = Keep(r), !.set = TRUE]
         /\ pc' = "select"
         /\ server_id' = p
         /\ UNCHANGED <<call, result, txn_state>>
    ELSE EndRun(r.ok, Keep(r), p)

(* The server processes the command and its reply arrives.  A reply with   *)
(* TransientTransactionError unpins the session; a mongos sends a recovery *)
(* token with each statement that succeeds.                                *)
Answered ==
  /\ pc = "wait"
  /\ \E r \in Replies :
       /\ Process(cmd.msg, r)
       /\ AfterAttempt(Labelled(r), IF "Transient" \in r.labels THEN 0
                                                              ELSE server_id)
       /\ recovery_token' =
            IF r.ok /\ InShardedTxn /\ cmd.msg.kind = "statement"
              THEN cmd.msg.num ELSE recovery_token
       /\ transient' = (transient \/ "Transient" \in r.labels)
  /\ UNCHANGED <<txn_number, dirty, late, with, calls>>

(* _handle_network_error: the command may have been processed, or be       *)
(* processed later, or never.                                              *)
ConnectionFails ==
  /\ pc = "wait"
  /\ late' = IF Cardinality(late) < MaxLate THEN late \cup {cmd.msg}
                                            ELSE late
  /\ dirty' = TRUE
  /\ AfterAttempt(Labelled([NetworkError EXCEPT !.labels = Transient]),
                  IF InTxn THEN 0 ELSE server_id)
  /\ transient' = (transient \/ InTxn)
  /\ UNCHANGED <<serverVars, txn_number, recovery_token, with, calls>>

ProcessLate ==
  /\ \E m \in late :
       /\ late' = late \ {m}
       /\ \E r \in Replies : Process(m, r)
  /\ UNCHANGED <<txnVars, callVars, with, transient>>
----------------------------------------------------------------------------
(* mongoc_client_session_with_transaction.  The callback makes calls of    *)
(* its own and returns, with the reply of the last one.                    *)
With(at) == with' = [with EXCEPT !.at = at]
WithReturns(ok) == with' = [with EXCEPT !.at = "off", !.ok = ok]

WithBegin ==
  /\ MayCall /\ with.at = "off" /\ txn_number < MaxTxnNumber
  /\ with' = [NotWith EXCEPT !.at = "start"]
  /\ result' = Nothing
  /\ UNCHANGED <<serverVars, txnVars, call, pc, cmd, calls, late, transient>>

WithStart ==
  /\ with.at = "start"
  /\ \/ /\ InTxn
        /\ WithReturns(FALSE)
        /\ UNCHANGED <<txnVars, transient>>
     \/ /\ StartTransaction
        /\ with' = [with EXCEPT !.at = "callback",
                                !.nums = @ \cup {txn_number + 1}]
  /\ UNCHANGED <<serverVars, callVars, late>>

(* The callback fails: the transaction is aborted before the labels of the *)
(* callback's reply are looked at.                                         *)
CallbackFails ==
  /\ with.at = "callback" /\ call = "none"
  /\ with' = [with EXCEPT !.at = "aborted", !.labels = result.labels]
  /\ \/ InTxn /\ Abort
     \/ ~InTxn /\ UNCHANGED <<call, pc, cmd, result, txnVars>>
  /\ UNCHANGED <<serverVars, late, calls, transient>>

WithAborted ==
  /\ with.at = "aborted" /\ call = "none"
  /\ IF "Transient" \in with.labels /\ ~with.expired
       THEN With("restart") ELSE WithReturns(FALSE)
  /\ UNCHANGED <<serverVars, txnVars, callVars, late, transient>>

CallbackSucceeds ==
  /\ with.at = "callback" /\ call = "none"
  /\ IF InTxn THEN With("commit") ELSE WithReturns(TRUE)
  /\ UNCHANGED <<serverVars, txnVars, callVars, late, transient>>

WithCommit ==
  /\ with.at = "commit" /\ call = "none"
  /\ Commit
  /\ With("committed")
  /\ UNCHANGED <<serverVars, late, calls, transient>>

(* Mutant: the retry of the commit does not look at the timer.             *)
WithCommittedUntimed ==
  /\ with.at = "committed" /\ call = "none"
  /\ CASE result.ok -> WithReturns(TRUE)
       [] ~result.ok ->
            IF result.code = "MaxTimeMSExpired" THEN WithReturns(FALSE)
              ELSE IF "UnknownCommit" \in result.labels THEN With("commit")
              ELSE IF "Transient" \in result.labels /\ ~with.expired
                THEN With("restart")
              ELSE WithReturns(FALSE)
  /\ UNCHANGED <<serverVars, txnVars, callVars, late, transient>>

(* Mutant: a commit of unknown result starts the transaction again.        *)
WithCommittedRestarts ==
  /\ with.at = "committed" /\ call = "none"
  /\ CASE result.ok -> WithReturns(TRUE)
       [] ~result.ok ->
            IF result.code = "MaxTimeMSExpired" \/ with.expired
              THEN WithReturns(FALSE)
              ELSE IF result.labels \cap {"UnknownCommit", "Transient"} # {}
                THEN With("restart")
              ELSE WithReturns(FALSE)
  /\ UNCHANGED <<serverVars, txnVars, callVars, late, transient>>

WithCommitted ==
  /\ with.at = "committed" /\ call = "none"
  /\ CASE result.ok -> WithReturns(TRUE)
       [] ~result.ok ->
            IF result.code = "MaxTimeMSExpired" \/ with.expired
              THEN WithReturns(FALSE)
              ELSE IF "UnknownCommit" \in result.labels THEN With("commit")
              ELSE IF "Transient" \in result.labels THEN With("restart")
              ELSE WithReturns(FALSE)
  /\ UNCHANGED <<serverVars, txnVars, callVars, late, transient>>

(* The next backoff would end after the timeout, or is slept.  The bound   *)
(* on the numbers stands for a timeout.                                    *)
WithRestart ==
  /\ with.at = "restart"
  /\ \/ WithReturns(FALSE)
     \/ /\ ~with.expired /\ txn_number < MaxTxnNumber
        /\ With("start")
  /\ UNCHANGED <<serverVars, txnVars, callVars, late, transient>>

Expire ==
  /\ with.at # "off" /\ ~with.expired
  /\ with' = [with EXCEPT !.expired = TRUE]
  /\ UNCHANGED <<serverVars, txnVars, callVars, late, transient>>

(* mongoc_client_session_destroy, after the abort it makes in a            *)
(* transaction, and a new session: the server session goes through the     *)
(* pool, with its txn_number, unless it is dirty.                          *)
NewSession ==
  /\ MayCall /\ CountCall /\ with.at = "off" /\ ~InTxn /\ ~dirty
  /\ txn_state' = "none" /\ server_id' = 0 /\ recovery_token' = 0
  /\ result' = Nothing
  /\ UNCHANGED <<serverVars, txn_number, dirty, call, pc, cmd, late, with,
                 transient>>

----------------------------------------------------------------------------
Application ==
  CallStart \/ CallWrite \/ CallCommit \/ CallAbort \/ WithBegin \/ NewSession
Driver ==
  \/ SelectFails \/ ConnectFails \/ FirstSend \/ RetrySend \/ RetryFails
  \/ WithStart \/ WithAborted \/ WithCommit \/ WithCommitted \/ WithRestart
CallbackReturns == CallbackFails \/ CallbackSucceeds
Network == Answered \/ ConnectionFails

Idle == call = "none" /\ with.at = "off" /\ UNCHANGED vars

Next == Application \/ Driver \/ CallbackReturns \/ Network \/ ProcessLate
        \/ Expire \/ Idle

Spec == Init /\ [][Next]_vars
FairSpec ==
  Spec /\ WF_vars(Driver) /\ SF_vars(CallbackReturns) /\ WF_vars(Network)
       /\ WF_vars(Expire)

----------------------------------------------------------------------------
(* Types                                                                   *)
CallNames == {"none", "write", "commit", "abort"}
ReplyRecords == [ok : BOOLEAN, network : BOOLEAN, code : Codes,
                 labels : SUBSET Labels]
Commands == [msg : Messages, again : BOOLEAN, tried : BOOLEAN, loop : Loops,
             ok : BOOLEAN, kept : ReplyRecords, set : BOOLEAN]
Results ==
  [fn : CallNames, ok : BOOLEAN,
   error : {"none", "selection", "network", "server", "state"},
   code : Codes, labels : SUBSET Labels, num : 0 .. MaxTxnNumber,
   write : 0 .. MaxWrites, kind : {"write", "statement", "commit", "abort"},
   repeat : BOOLEAN]
Withs ==
  [at : {"off", "start", "callback", "aborted", "commit", "committed",
         "restart"},
   nums : SUBSET Numbers, labels : SUBSET Labels, expired : BOOLEAN,
   ok : BOOLEAN]

TypeOK ==
  /\ ServerTypeOK
  /\ txn_state \in TxnStates /\ txn_number \in 0 .. MaxTxnNumber
  /\ dirty \in BOOLEAN /\ transient \in BOOLEAN
  /\ server_id \in Servers \cup {0} /\ recovery_token \in 0 .. MaxTxnNumber
  /\ call \in CallNames /\ pc \in {"idle", "select", "wait"}
  /\ cmd \in Commands /\ late \subseteq Messages
  /\ result \in Results /\ with \in Withs /\ calls \in 0 .. MaxCalls

(* A write outside of transactions is applied at most once, however often  *)
(* it is sent and however late an attempt arrives, and once if the driver  *)
(* says so: one txnNumber per write (mongoc_cluster_run_retryable_write),  *)
(* never used again by a later write, transaction or session.              *)
WritesExactlyOnce ==
  /\ \A w \in Writes : applied[w] <= 1
  /\ result.kind = "write" /\ result.ok => applied[result.write] = 1

(* An error that says NoWritesPerformed is true of the whole write: no     *)
(* attempt of it was applied or can still be (_retryable_write_execute     *)
(* keeps the error of an attempt that may have written).                   *)
NoWritesTruthful ==
  (result.kind = "write" /\ "NoWrites" \in result.labels) =>
    /\ applied[result.write] = 0
    /\ \A m \in late : m.write # result.write

(* A commit that is reported as done is done, whichever mongos answered it *)
(* and whichever recovery token it had; and if the commit had been applied *)
(* by an attempt the driver gave up on, a majority has it (txn_commit and  *)
(* create_commit_retry_wc).                                                *)
CommitTruthful ==
  (result.fn = "commit" /\ result.ok /\ result.num # 0) =>
    /\ result.num \in committed
    /\ result.repeat => result.num \in durable

(* One with_transaction commits at most one of the transactions it starts: *)
(* it runs the callback again only when the one before cannot be committed *)
(* any more, not even by a commit that is still under way.                 *)
WithTransactionOnce == Cardinality(with.nums \cap committed) <= 1

(* On a sharded cluster, a command of a transaction that the deployment    *)
(* has open goes to the mongos it was started through, unless an earlier   *)
(* command failed with TransientTransactionError, or it ends the           *)
(* transaction and carries the recovery token of it                        *)
(* (_mongoc_cluster_select_server_id).                                     *)
RoutedToItsMongos ==
  (Sharded /\ pc = "wait" /\ cmd.msg.kind # "write" /\ ~cmd.msg.start
     /\ cmd.msg.num = number /\ open /\ ~transient) =>
    \/ cmd.msg.server = home
    \/ cmd.msg.kind # "statement" /\ cmd.msg.token = cmd.msg.num

(* with_transaction returns, whatever the deployment answers: its timeout  *)
(* ends the retries of the callback and of the commit.                     *)
WithTransactionReturns == with.at # "off" ~> with.at = "off"
============================================================================
