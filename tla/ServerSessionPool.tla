------------------------- MODULE ServerSessionPool --------------------------
(***************************************************************************)
(* The pool of server sessions of a topology: a mongoc_ts_pool whose list  *)
(* is changed under its mutex and whose size is an atomic counter that is  *)
(* changed after the mutex is released.  Client sessions take a server     *)
(* session and return it; a session that is dirty, was never used or is    *)
(* about to expire is dropped on both ways.  At the end the sessions that  *)
(* are left are ended in batches (_mongoc_client_end_sessions).            *)
(***************************************************************************)
EXTENDS Integers, Sequences, ApplicationThreads

CONSTANTS Sessions,   \* the server sessions that can be created: a bound
          MaxTime,    \* bound on the clock, in minutes
          Timeouts,   \* the values of session_timeout_minutes servers report
          EndLimit,   \* ENDED_SESSION_PRUNING_LIMIT
          NoSession

ASSUME SessionAssumption ==
  /\ MaxTime \in Nat /\ EndLimit \in Nat \ {0}
  /\ Timeouts \subseteq Nat
  /\ NoSession \notin Sessions

NoSessions == -1    \* MONGOC_NO_SESSIONS
NeverUsed == -1     \* SESSION_NEVER_USED

VARIABLES
  head,      \* the list of the pool
  size,      \* its atomic counter
  session,   \* session[s]: a mongoc_server_session_t
  pc,        \* pc[t]: where t is in the operations on the pool
  node,      \* node[t]: the session t has in hand, or NoSession
  ended,     \* the number of sessions of the endSessions command being built
  now,       \* bson_get_monotonic_time, in minutes
  timeout    \* session_timeout_minutes of the published description

sessionVars == <<head, size, session, pc, node, ended, now, timeout>>

Unborn == [life |-> "none", dirty |-> FALSE, last_used |-> NeverUsed]
Freed == [Unborn EXCEPT !.life = "freed"]

SessionInit ==
  /\ head = <<>>
  /\ size = 0
  /\ session = [s \in Sessions |-> Unborn]
  /\ pc = [t \in Threads |-> "idle"]
  /\ node = [t \in Threads |-> NoSession]
  /\ ended = 0
  /\ now = 0
  /\ timeout = NoSessions

Goto(t, label) == pc' = [pc EXCEPT ![t] = label]
Hand(t, s) == node' = [node EXCEPT ![t] = s]
Listed == {head[i] : i \in 1 .. Len(head)}

(* One thread at most ends sessions, when no other one uses the pool.      *)
EndPcs == {"end", "end_get", "end_count", "end_check", "end_return",
           "end_put", "end_put_count", "end_send"}
Ending(t) == pc[t] \in EndPcs

(* _server_session_should_prune                                            *)
TimedOut(s) ==
  /\ timeout # NoSessions
  /\ session[s].last_used + timeout - now < 1
ShouldPrune(s) ==
  session[s].dirty \/ session[s].last_used = NeverUsed \/ TimedOut(s)

(* mongoc_ts_pool_drop                                                     *)
Drop(s) == session' = [session EXCEPT ![s] = Freed]

----------------------------------------------------------------------------
(* _mongoc_topology_pop_server_session: an error until some server has     *)
(* reported that it supports sessions.                                     *)
PopServerSession(t) ==
  /\ pc[t] = "idle"
  /\ \A u \in Threads : ~Ending(u)
  /\ timeout # NoSessions
  /\ Goto(t, "get")
  /\ UNCHANGED <<head, size, session, node, ended, now, timeout>>

(* _try_get: the head of the list under the mutex, then the counter.       *)
TryGetStep(t, from, got, none) ==
  /\ pc[t] = from
  /\ IF head = <<>>
     THEN Goto(t, none) /\ UNCHANGED <<head, node>>
     ELSE Goto(t, got) /\ Hand(t, Head(head)) /\ head' = Tail(head)
  /\ UNCHANGED <<size, session, ended, now, timeout>>

CountStep(t, from, to, n) ==
  /\ pc[t] = from
  /\ size' = size + n
  /\ Goto(t, to)
  /\ UNCHANGED <<head, session, ended, now, timeout>>

TryGet(t) == TryGetStep(t, "get", "count", "new")

(* Mutant: a session that is about to be pruned is still counted.          *)
TryGetCountLate(t) ==
  CountStep(t, "count", "check", IF ShouldPrune(node[t]) THEN 0 ELSE -1)
  /\ UNCHANGED node

TryGetCount(t) == CountStep(t, "count", "check", -1) /\ UNCHANGED node

(* mongoc_ts_pool_get drops what should be pruned and tries again.         *)
GetCheck(t) ==
  /\ pc[t] = "check"
  /\ IF ShouldPrune(node[t])
     THEN Drop(node[t]) /\ Hand(t, NoSession) /\ Goto(t, "get")
     ELSE Goto(t, "using") /\ UNCHANGED <<session, node>>
  /\ UNCHANGED <<head, size, ended, now, timeout>>

(* _new_item: the constructor fails without a random number.               *)
NewItem(t) ==
  /\ pc[t] = "new"
  /\ \/ /\ \E s \in Sessions :
             /\ session[s].life = "none"
             /\ session' = [session EXCEPT ![s].life = "live"]
             /\ Hand(t, s)
        /\ Goto(t, "using")
     \/ Goto(t, "idle") /\ UNCHANGED <<session, node>>
  /\ UNCHANGED <<head, size, ended, now, timeout>>

(* A command with the session sets last_used; its network error, dirty.    *)
UseSession(t) ==
  /\ pc[t] = "using"
  /\ session' = [session EXCEPT ![node[t]].last_used = now]
  /\ UNCHANGED <<head, size, pc, node, ended, now, timeout>>

NetworkError(t) ==
  /\ pc[t] = "using" /\ session[node[t]].last_used # NeverUsed
  /\ session' = [session EXCEPT ![node[t]].dirty = TRUE]
  /\ UNCHANGED <<head, size, pc, node, ended, now, timeout>>

(* mongoc_ts_pool_return: the check, the list and the counter.             *)
ReturnCheck(t, from, put, done) ==
  /\ pc[t] = from
  /\ IF ShouldPrune(node[t])
     THEN Drop(node[t]) /\ Hand(t, NoSession) /\ Goto(t, done)
     ELSE Goto(t, put) /\ UNCHANGED <<session, node>>
  /\ UNCHANGED <<head, size, ended, now, timeout>>

ReturnItem(t, from, count) ==
  /\ pc[t] = from
  /\ head' = <<node[t]>> \o head
  /\ Hand(t, NoSession)
  /\ Goto(t, count)
  /\ UNCHANGED <<size, session, ended, now, timeout>>

Return(t) ==
  \/ ReturnCheck(t, "using", "put", "idle")
  \/ ReturnItem(t, "put", "put_count")
  \/ CountStep(t, "put_count", "idle", 1) /\ UNCHANGED node

----------------------------------------------------------------------------
(* _mongoc_client_end_sessions, called with a size that is not zero, when  *)
(* no thread uses a session.                                               *)
EndBegin(t) ==
  /\ \A u \in Threads : pc[u] = "idle"
  /\ size # 0
  /\ Goto(t, "end")
  /\ UNCHANGED <<head, size, session, node, ended, now, timeout>>

(* The outer loop: as long as the pool is not empty, a server is selected  *)
(* and connected to; an error ends it.                                     *)
EndLoop(t) ==
  /\ pc[t] = "end"
  /\ \/ size # 0 /\ Goto(t, "end_get")
     \/ Goto(t, "idle")
  /\ ended' = 0
  /\ UNCHANGED <<head, size, session, node, now, timeout>>

(* Mutant: sessions that are ended are still counted.                      *)
EndGetUncounted(t) ==
  \/ TryGetStep(t, "end_get", "end_count", "end_send")
  \/ CountStep(t, "end_count", "end_check", 0) /\ UNCHANGED node

(* _mongoc_topology_end_sessions_cmd takes sessions up to the limit, and   *)
(* returns the one it took beyond it.                                      *)
EndGet(t) ==
  \/ TryGetStep(t, "end_get", "end_count", "end_send")
  \/ CountStep(t, "end_count", "end_check", -1) /\ UNCHANGED node

(* Mutant: the session beyond the limit is forgotten.                      *)
EndCheckForgets(t) ==
  /\ pc[t] = "end_check"
  /\ IF ShouldPrune(node[t]) \/ ended < EndLimit
     THEN /\ Drop(node[t]) /\ Hand(t, NoSession) /\ Goto(t, "end_get")
          /\ ended' = IF ShouldPrune(node[t]) THEN ended ELSE ended + 1
     ELSE /\ Goto(t, "end_send") /\ Hand(t, NoSession)
          /\ UNCHANGED <<session, ended>>
  /\ UNCHANGED <<head, size, now, timeout>>

EndCheck(t) ==
  /\ pc[t] = "end_check"
  /\ IF ShouldPrune(node[t]) \/ ended < EndLimit
     THEN /\ Drop(node[t]) /\ Hand(t, NoSession) /\ Goto(t, "end_get")
          /\ ended' = IF ShouldPrune(node[t]) THEN ended ELSE ended + 1
     ELSE Goto(t, "end_return") /\ UNCHANGED <<session, node, ended>>
  /\ UNCHANGED <<head, size, now, timeout>>

EndReturn(t) ==
  \/ ReturnCheck(t, "end_return", "end_put", "end_send")
  \/ ReturnItem(t, "end_put", "end_put_count")
  \/ CountStep(t, "end_put_count", "end_send", 1) /\ UNCHANGED node

(* The command is sent unless it is empty, and another one is built; an    *)
(* empty command or an invalid stream ends the inner loop.                 *)
EndSend(t) ==
  /\ pc[t] = "end_send"
  /\ \/ ended > 0 /\ Goto(t, "end_get")
     \/ Goto(t, "end")
  /\ ended' = 0
  /\ UNCHANGED <<head, size, session, node, now, timeout>>

----------------------------------------------------------------------------
(* Time passes, and the monitors publish another timeout.                  *)
Tick ==
  /\ now < MaxTime
  /\ now' = now + 1
  /\ UNCHANGED <<head, size, session, pc, node, ended, timeout>>

ChangeTimeout ==
  /\ timeout' \in Timeouts \cup {NoSessions}
  /\ UNCHANGED <<head, size, session, pc, node, ended, now>>

SessionStep(t) ==
  \/ PopServerSession(t) \/ TryGet(t) \/ TryGetCount(t) \/ GetCheck(t)
  \/ NewItem(t) \/ UseSession(t) \/ NetworkError(t) \/ Return(t)

EndStep(t) ==
  EndLoop(t) \/ EndGet(t) \/ EndCheck(t) \/ EndReturn(t) \/ EndSend(t)

SessionNext ==
  \/ \E t \in Threads : SessionStep(t) \/ EndBegin(t) \/ EndStep(t)
  \/ Tick \/ ChangeTimeout

SessionSpec == SessionInit /\ [][SessionNext]_sessionVars

----------------------------------------------------------------------------
(* The type invariant of the pool of server sessions.                      *)
SessionTypeOK ==
  /\ head \in Seq(Sessions)
  /\ size \in Int
  /\ session \in [Sessions -> [life : {"none", "live", "freed"},
                               dirty : BOOLEAN, last_used : Int]]
  /\ pc \in [Threads -> {"idle", "get", "count", "check", "new", "using",
                         "put", "put_count"} \cup EndPcs]
  /\ node \in [Threads -> Sessions \cup {NoSession}]
  /\ ended \in 0 .. EndLimit
  /\ now \in 0 .. MaxTime
  /\ timeout \in Timeouts \cup {NoSessions}

(* A server session is in the list once or in one thread's hand, never in  *)
(* two places, and a dropped one in none: two client sessions never share  *)
(* an lsid, and no session is lost without its destructor.                 *)
InHand == {node[t] : t \in Threads} \ {NoSession}
OneHolder ==
  /\ \A i, j \in 1 .. Len(head) : head[i] = head[j] => i = j
  /\ \A t, u \in Threads : node[t] = node[u] /\ node[t] # NoSession => t = u
  /\ Listed \cap InHand = {}
  /\ \A s \in Sessions :
       session[s].life = "live" <=> s \in Listed \cup InHand

(* The counter differs from the length of the list only by the threads     *)
(* between the mutex and the counter; in particular it is exact when       *)
(* mongoc_client_pool_destroy and _mongoc_client_end_sessions ask whether  *)
(* the pool is empty.                                                      *)
Uncounted(labels) == Cardinality({t \in Threads : pc[t] \in labels})
SizeExact ==
  size = Len(head) + Uncounted({"count", "end_count"})
                   - Uncounted({"put_count", "end_put_count"})
============================================================================
