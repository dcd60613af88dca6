-------------------------- MODULE RetryableCommand --------------------------
(***************************************************************************)
(* The loop every command runs in (_mongoc_retryable_cmd_run): what makes  *)
(* an attempt retryable, how many attempts there are, and which servers    *)
(* the next selection avoids.  The loops of writes, reads and cursors      *)
(* differ in their eligibility and in the two callbacks, which the modules *)
(* of their callers model.                                                 *)
(*                                                                         *)
(* A reply is a record: ok (the command itself), network (no reply: the    *)
(* connection failed), code (of an error, or of a writeConcernError beside *)
(* ok) and labels.  The time slept between attempts is left out.           *)
(***************************************************************************)
EXTENDS Naturals, FiniteSets

CONSTANTS MaxAdaptiveRetries,  \* client->max_adaptive_retries
          OverloadRetargeting, \* client->enable_overload_retargeting
          LabelsFromServer,    \* the servers are 4.4 or later
          Servers,             \* the servers that suit the operation
          Mongoses             \* those of them that are mongoses

ASSUME RetryAssumption ==
  /\ MaxAdaptiveRetries \in Nat
  /\ OverloadRetargeting \in BOOLEAN /\ LabelsFromServer \in BOOLEAN
  /\ IsFiniteSet(Servers) /\ Servers # {}
  /\ Mongoses \subseteq Servers

Labels == {"RetryableWrite", "SystemOverloaded", "Retryable", "NoWrites",
           "Transient", "UnknownCommit"}
Eligibilities == {"none", "overload_only", "retryable_read",
                  "retryable_write"}

(* Codes the driver tells apart; the ones in RetryableCodes are retryable  *)
(* for reads, and for writes to servers too old to send the label.         *)
RetryableCodes == {"NotPrimary", "ShutdownInProgress"}
Codes == RetryableCodes \cup
         {"none", "WriteConcernFailed", "MaxTimeMSExpired",
          "NoSuchTransaction", "CursorNotFound", "other"}

Reply(ok, network, code, labels) ==
  [ok |-> ok, network |-> network, code |-> code, labels |-> labels]
OkReply == Reply(TRUE, FALSE, "none", {})
NetworkError == Reply(FALSE, TRUE, "none", {})

(* _mongoc_cmd_check_ok_no_wce: a writeConcernError is an error here.      *)
CheckOk(r) == r.ok /\ r.code = "none"

(* _mongoc_write_error_handle_labels: servers before 4.4 send no labels,   *)
(* and the writeConcernError of a mongos that old does not count.          *)
HandleWriteLabels(r, server) ==
  IF \/ ~r.ok /\ r.network
     \/ /\ ~LabelsFromServer /\ ~CheckOk(r)
        /\ ~(server \in Mongoses /\ r.ok)
        /\ r.code \in RetryableCodes
    THEN [r EXCEPT !.labels = @ \cup {"RetryableWrite"}]
    ELSE r

(* _mongoc_write_error_get_type                                            *)
WriteErrorType(r) ==
  CASE "RetryableWrite" \in r.labels -> "retry"
    [] "RetryableWrite" \notin r.labels /\ CheckOk(r) -> "none"
    [] "RetryableWrite" \notin r.labels /\ ~CheckOk(r) ->
         IF r.code = "WriteConcernFailed" THEN "write_concern" ELSE "other"

(* _mongoc_read_error_get_type, up to telling its errors apart             *)
ReadErrorIsRetryable(r) ==
  \/ ~r.ok /\ r.network
  \/ ~CheckOk(r) /\ r.code \in RetryableCodes

----------------------------------------------------------------------------
(* The state of one loop.  server is the one of the last attempt.          *)
Loops == [elig : Eligibilities, attempt : Nat, allowed : Nat,
          server : Servers, deprioritized : SUBSET Servers]

NewLoop(elig, server) ==
  [elig |-> elig, attempt |-> 0,
   allowed |-> IF elig = "overload_only" THEN 0 ELSE 1,
   server |-> server, deprioritized |-> {}]

IsOverload(r) == "SystemOverloaded" \in r.labels

IsRetryable(elig, r) ==
  \/ elig = "retryable_read" /\ ReadErrorIsRetryable(r)
  \/ elig = "retryable_write" /\ WriteErrorType(r) = "retry"
  \/ elig # "none" /\ IsOverload(r) /\ "Retryable" \in r.labels

(* The loop after an attempt that can be retried.                          *)
NextAttempt(loop, r) ==
  [loop EXCEPT !.attempt = @ + 1,
               !.allowed = IF IsOverload(r) THEN MaxAdaptiveRetries ELSE @,
               !.deprioritized =
                 IF \/ loop.server \in Mongoses
                    \/ IsOverload(r) /\ OverloadRetargeting
                   THEN @ \cup {loop.server} ELSE @]

Retries(loop, r) ==
  /\ IsRetryable(loop.elig, r)
  /\ NextAttempt(loop, r).attempt <= NextAttempt(loop, r).allowed

(* The servers a selection chooses from: deprioritized ones only when      *)
(* there are no others.                                                    *)
Candidates(deprioritized) ==
  IF Servers \subseteq deprioritized THEN Servers
                                     ELSE Servers \ deprioritized
============================================================================
