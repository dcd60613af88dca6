------------------------------- MODULE Cursor -------------------------------
(***************************************************************************)
(* The cursors of one client (mongoc-cursor.c, mongoc-cursor-find.c): the  *)
(* state machine mongoc_cursor_next drives, the commands it runs in the    *)
(* retry loop, the session and the server each cursor holds on to, and the *)
(* exhaust mode, in which a server streams replies over the client's       *)
(* connection unasked and no other command may use it.                     *)
(*                                                                         *)
(* A client belongs to one thread, so one call is in progress at a time;   *)
(* what interleaves with it is the deployment.  A call proceeds in steps,  *)
(* one for each exchange with a server.                                    *)
(***************************************************************************)
EXTENDS CursorServer

CONSTANTS Finds,    \* handles of cursors made by find
          Streams,  \* handles of the cursors that change streams own
          RetryReads

Handles == Finds \cup Streams
ASSUME CursorAssumption ==
  /\ IsFiniteSet(Handles) /\ Handles \subseteq Nat \ {0}
  /\ Finds \cap Streams = {}
  /\ RetryReads \in BOOLEAN
  /\ 0 \notin Servers  \* a server_id of 0 is none

VARIABLES in_exhaust,  \* client->in_exhaust
          cursor,      \* handle -> mongoc_cursor_t
          held,        \* the sessions checked out of the pool
          call,        \* the call in progress
          delivered,   \* handle -> the documents a find has returned
          crossed      \* a reply was read for a command it does not answer

cursorVars == <<in_exhaust, cursor, held, call, delivered, crossed>>

(* mongoc_cursor_t.  error is the reply kept as error_doc, with ok for no  *)
(* error; a failure on the client's side is like one of the network.       *)
Local == NetworkError
NewCursor(exhaust) ==
  [live |-> TRUE, state |-> "Unprimed", id |-> 0, server |-> 0,
   batch |-> << >>, pbrt |-> 0, error |-> OkReply, sess |-> 0,
   explicit |-> FALSE, opt |-> exhaust, in_exhaust |-> FALSE,
   timed_out |-> FALSE]
NoCursor == [NewCursor(FALSE) EXCEPT !.live = FALSE]
Failed(k) == ~k.error.ok

(* The call: the point it has reached, its cursor, and, of a command, its  *)
(* name and loop; refreshed is attempted_refresh, doc what next returns.   *)
(* The rest is for change streams: server, the one first selected; resume, *)
(* in the resume loop; timeouts, iteration_timeout_count.  Two counters    *)
(* are for the properties: resumes, how often the call has opened its      *)
(* cursor again, and moved, how often a retry has parted a cursor from the *)
(* server where it is open.                                                *)
NoLoop == [elig |-> "none", attempt |-> 0, allowed |-> 0,
           server |-> 0, deprioritized |-> {}]
Idle == [at |-> "idle", c |-> 0, cmd |-> "none", refreshed |-> FALSE,
         loop |-> NoLoop, doc |-> 0, server |-> 0, resume |-> FALSE,
         timeouts |-> 0, resumes |-> 0, moved |-> 0]

(* A server gives out identifiers that are not in use, here by the handle  *)
(* of the cursor so that the order of cursors makes no difference; the     *)
(* session a cursor takes from the pool has the number of its handle.      *)
NewId(c) ==
  LET used == DOMAIN open \cup {cursor[d].id : d \in Handles}
      mine == {c + 10 * i : i \in 0..Cardinality(used)}
  IN  CHOOSE i \in mine \ used : \A j \in mine \ used : i <= j

CursorInit ==
  /\ ServerInit
  /\ in_exhaust = FALSE
  /\ cursor = [c \in Handles |-> NoCursor]
  /\ held = {}
  /\ call = Idle
  /\ delivered = [c \in Finds |-> << >>]
  /\ crossed = FALSE
----------------------------------------------------------------------------
(* mongoc_cursor_next returns, with a document or with none.               *)
Returns(c, k, doc) ==
  /\ cursor' = [cursor EXCEPT ![c] = k]
  /\ IF c \in Finds
       THEN /\ call' = Idle
            /\ delivered' = IF doc = 0 THEN delivered
                            ELSE [delivered EXCEPT ![c] = Append(@, doc)]
       ELSE /\ call' = [call EXCEPT !.at = "advanced", !.c = c, !.doc = doc]
            /\ UNCHANGED delivered

(* What the error is, and that it was a timeout, only change streams tell  *)
(* apart.                                                                  *)
Fails(c, k, r) ==
  Returns(c, IF c \in Finds
               THEN [k EXCEPT !.state = "Done", !.error = Local,
                              !.timed_out = FALSE]
               ELSE [k EXCEPT !.state = "Done", !.error = r], 0)

(* The loop of mongoc_cursor_next: pop from the batch, then get one more   *)
(* batch, or the first.                                                    *)
Popped(k) ==
  IF k.state = "InBatch" /\ k.batch = << >>
    THEN [k EXCEPT !.state = IF k.id # 0 THEN "EndOfBatch" ELSE "Done"]
    ELSE k

Proceed(c, k, refreshed) ==
  CASE Popped(k).state = "InBatch" ->
         Returns(c, [k EXCEPT !.batch = Tail(@)], Head(k.batch))
    [] \/ Popped(k).state = "Done"
       \/ Popped(k).state = "EndOfBatch" /\ refreshed ->
         Returns(c, Popped(k), 0)
    [] \/ Popped(k).state = "Unprimed"
       \/ Popped(k).state = "EndOfBatch" /\ ~refreshed ->
         /\ cursor' = [cursor EXCEPT ![c] = Popped(k)]
         /\ call' = [call EXCEPT !.at = "fetch", !.c = c,
                       !.cmd = IF k.state = "Unprimed" THEN "find"
                                                       ELSE "getMore",
                       !.refreshed = (k.state # "Unprimed")]
         /\ UNCHANGED delivered

(* mongoc_cursor_next up to its loop.                                      *)
EnterNext(c) ==
  LET k == cursor[c]
  IN  /\ IF Failed(k) THEN Returns(c, k, 0)
         ELSE IF k.state = "Done" \/ (in_exhaust /\ ~k.in_exhaust)
           THEN Returns(c, [k EXCEPT !.error = Local], 0)
           ELSE Proceed(c, k, FALSE)
      /\ UNCHANGED <<serverVars, in_exhaust, held, crossed>>

(* mongoc_collection_find_with_opts makes a cursor; nothing is sent.       *)
Find ==
  /\ call.at = "idle"
  /\ \E c \in Finds, exhaust \in BOOLEAN :
       /\ ~cursor[c].live
       /\ cursor' = [cursor EXCEPT ![c] = NewCursor(exhaust)]
       /\ delivered' = [delivered EXCEPT ![c] = << >>]
  /\ UNCHANGED <<serverVars, in_exhaust, held, call, crossed>>

FindNext ==
  /\ call.at = "idle"
  /\ \E c \in Finds : cursor[c].live /\ EnterNext(c)
----------------------------------------------------------------------------
(* _mongoc_cursor_run_command.  The server is selected for the first       *)
(* command of a cursor and kept; an implicit session is taken unless there *)
(* is one.  While the cursor is in exhaust, a stream that cannot be had,   *)
(* or a connection made again over which nothing streams, leaves what      *)
(* Fetch and ConnectionFails leave.                                        *)
FetchFails ==
  /\ call.at = "fetch"
  /\ ~cursor[call.c].in_exhaust
  /\ Fault
  /\ Fails(call.c, cursor[call.c], Local)
  /\ UNCHANGED <<open, streaming, history, now, in_exhaust, held, crossed>>

(* Mutant: a getMore is retried like the command that opens a cursor.      *)
EligibilityOfAll(cmd) == IF RetryReads THEN "retryable_read" ELSE "none"

Eligibility(cmd) ==
  IF ~RetryReads THEN "none"
    ELSE IF cmd = "getMore" THEN "overload_only" ELSE "retryable_read"

Fetch ==
  /\ call.at = "fetch"
  /\ \E s \in IF cursor[call.c].server # 0 THEN {cursor[call.c].server}
                                           ELSE Servers :
       /\ cursor' = [cursor EXCEPT ![call.c].server = s,
                       ![call.c].sess = call.c,
                       ![call.c].timed_out = FALSE]
       /\ held' = held \cup {call.c}
       /\ call' = [call EXCEPT !.at = "send",
                     !.loop = NewLoop(Eligibility(call.cmd), s)]
  /\ UNCHANGED <<serverVars, in_exhaust, delivered, crossed>>

(* Mutant: the implicit session is returned after the first reply.         *)
ReadingReturnsSession(k, a) ==
  [k EXCEPT !.state = "InBatch", !.id = a.id, !.batch = a.batch,
            !.pbrt = a.pbrt, !.in_exhaust = a.more,
            !.sess = IF ~k.explicit THEN 0 ELSE @]

(* _mongoc_cursor_start_reading_response and the end of                    *)
(* _mongoc_cursor_response_refresh: a cursor the server has closed gives   *)
(* its implicit session back.                                              *)
Reading(k, a) ==
  [k EXCEPT !.state = "InBatch", !.id = a.id, !.batch = a.batch,
            !.pbrt = a.pbrt, !.in_exhaust = a.more,
            !.sess = IF a.id = 0 /\ ~k.explicit THEN 0 ELSE @]

(* Another command used the connection while a server streamed over it.    *)
Crosses(s, id) == streaming[s] # 0 /\ ~(in_exhaust /\ streaming[s] = id)

(* The reply of an attempt: the next attempt, or the end of the command.   *)
AfterAttempt(k, a) ==
  IF Retries(call.loop, a.reply)
    THEN /\ cursor' = [cursor EXCEPT ![call.c] = k]
         /\ call' = [call EXCEPT !.at = "select",
                                 !.loop = NextAttempt(call.loop, a.reply)]
         /\ UNCHANGED <<held, delivered>>
    ELSE IF a.reply.ok
      THEN /\ Proceed(call.c, Reading(k, a), call.refreshed)
           /\ held' = IF Reading(k, a).sess = 0 THEN held \ {k.sess}
                                                ELSE held
      ELSE Fails(call.c, k, a.reply) /\ UNCHANGED held

(* The command, run by the server or refused by it.                        *)
Run(s, k) ==
  Refuse(s, k.id) \cup
  IF call.cmd = "find" THEN RunOpen(s, "find", 0, NewId(call.c), k.sess, k.opt)
                       ELSE RunGetMore(s, k.id, k.opt)

(* client->in_exhaust after a reply                                        *)
ExhaustAfter(a) == a.more

Answered ==
  /\ call.at = "send"
  /\ LET k == cursor[call.c]
         s == call.loop.server
     IN  /\ crossed' = (crossed \/ Crosses(s, k.id))
         /\ \E o \in Run(s, k) :
              /\ Takes(o)
              /\ in_exhaust' = ExhaustAfter(o.answer)
              /\ AfterAttempt([k EXCEPT !.timed_out = FALSE], o.answer)
  /\ UNCHANGED <<history, now>>

(* No reply arrives: the command may have been run.  A timeout is not      *)
(* counted as a fault, since it may happen each time.                      *)
Lost(s, id) ==
  /\ streaming' = [streaming EXCEPT ![s] = 0]
  /\ \/ open' = Remove({streaming[s]})
     \/ /\ id \in DOMAIN open /\ open[id].server = s /\ streaming[s] = 0
        /\ \E q \in Ends(open[id].kind, open[id].pos) :
             \E closed \in Closes(open[id].kind, open[id].pos, q) :
               open' = IF closed THEN Remove({id})
                                 ELSE [open EXCEPT ![id].pos = q]

ConnectionFails ==
  /\ call.at = "send"
  /\ LET k == cursor[call.c]
     IN  \E timed_out \in BOOLEAN :
           /\ IF timed_out THEN UNCHANGED faults ELSE Fault
           /\ Lost(call.loop.server, k.id)
           /\ AfterAttempt([k EXCEPT !.timed_out = timed_out],
                           ErrorAnswer(NetworkError))
  /\ UNCHANGED <<history, now, in_exhaust, crossed>>

(* _retryable_cursor_commmand_select_retry_server, which also moves the    *)
(* cursor to the server it selects, even one that is open elsewhere.       *)
RetrySelect ==
  /\ call.at = "select"
  /\ \E s \in Candidates(call.loop.deprioritized) :
       /\ cursor' = [cursor EXCEPT ![call.c].server = s]
       /\ call' = [call EXCEPT !.at = "send", !.loop.server = s,
                     !.moved = IF cursor[call.c].id = 0
                                  \/ cursor[call.c].server = s
                                 THEN @ ELSE @ + 1]
  /\ UNCHANGED <<serverVars, in_exhaust, held, delivered, crossed>>

RetrySelectFails ==
  /\ call.at = "select"
  /\ Fault
  /\ Fails(call.c, cursor[call.c], Local)
  /\ UNCHANGED <<open, streaming, history, now, in_exhaust, held, crossed>>
----------------------------------------------------------------------------
(* mongoc_cursor_destroy.  Gone is its end, after any killCursors.         *)
Gone(c) ==
  /\ cursor' = [cursor EXCEPT ![c] = NoCursor]
  /\ held' = IF cursor[c].explicit THEN held ELSE held \ {cursor[c].sess}
  /\ delivered' = IF c \in Finds THEN [delivered EXCEPT ![c] = << >>]
                                 ELSE delivered
  /\ call' = IF c \in Finds THEN Idle ELSE [call EXCEPT !.at = "destroyed"]

(* Mutant: a cursor that failed is not killed.                             *)
DestroyKillsFailed(c) ==
  LET k == cursor[c]
  IN  IF k.in_exhaust
        THEN /\ in_exhaust' = FALSE
             /\ IF k.state # "Done" THEN Disconnected(k.server)
                                    ELSE UNCHANGED <<open, streaming>>
             /\ Gone(c)
             /\ UNCHANGED <<history, now, faults, crossed>>
        ELSE /\ IF k.id # 0 /\ k.state # "Done"
                  THEN /\ call' = [call EXCEPT !.at = "kill", !.c = c]
                       /\ UNCHANGED <<cursor, held, delivered>>
                  ELSE Gone(c)
             /\ UNCHANGED <<serverVars, in_exhaust, crossed>>

Destroy(c) ==
  LET k == cursor[c]
  IN  IF k.in_exhaust
        THEN /\ in_exhaust' = FALSE
             /\ IF k.state # "Done" THEN Disconnected(k.server)
                                    ELSE UNCHANGED <<open, streaming>>
             /\ Gone(c)
             /\ UNCHANGED <<history, now, faults, crossed>>
        ELSE /\ IF k.id # 0
                  THEN /\ call' = [call EXCEPT !.at = "kill", !.c = c]
                       /\ UNCHANGED <<cursor, held, delivered>>
                  ELSE Gone(c)
             /\ UNCHANGED <<serverVars, in_exhaust, crossed>>

FindDestroy ==
  /\ call.at = "idle"
  /\ \E c \in Finds : cursor[c].live /\ Destroy(c)

(* _mongoc_client_kill_cursor, whose failures are ignored.  The command    *)
(* goes to the cursor's server, and closes what is open there.             *)
KilledBy(k) == {i \in DOMAIN open : i = k.id /\ open[i].server = k.server}

Kill ==
  /\ call.at = "kill" /\ ~in_exhaust
  /\ LET k == cursor[call.c]
     IN  /\ crossed' = (crossed \/ Crosses(k.server, k.id))
         /\ open' = Remove(KilledBy(k))
         /\ Gone(call.c)
  /\ UNCHANGED <<streaming, history, now, faults, in_exhaust>>

(* It is not sent because the client is in exhaust; or the server is out   *)
(* of reach, refuses it or does not answer, and may have run it.           *)
KillFails ==
  /\ call.at = "kill"
  /\ LET k == cursor[call.c]
     IN  \/ in_exhaust /\ UNCHANGED <<open, streaming, faults>>
         \/ /\ ~in_exhaust /\ Fault
            /\ \E ids \in {{}, KilledBy(k)} :
                 open' = Remove(ids \cup {streaming[k.server]})
            /\ streaming' = [streaming EXCEPT ![k.server] = 0]
  /\ Gone(call.c)
  /\ UNCHANGED <<history, now, in_exhaust, crossed>>

Application == Find \/ FindNext \/ FindDestroy
Driver ==
  \/ FetchFails \/ Fetch \/ Answered \/ ConnectionFails
  \/ RetrySelect \/ RetrySelectFails \/ Kill \/ KillFails

(* The deployment changes between calls and while a command is on its way; *)
(* a change at another point of a call has the same effect as one then.    *)
Deployment ==
  /\ call.at \in {"idle", "send", "aggregate"}
  /\ Write \/ Reap
  /\ UNCHANGED cursorVars

(* The cursors by themselves, without a change stream.                     *)
CursorSpec ==
  CursorInit /\ [][Application \/ Driver \/ Deployment]_<<serverVars,
                                                          cursorVars>>
----------------------------------------------------------------------------
(* A find returns its documents in order, each once, and ends without an   *)
(* error only after the last: a reply that was lost or a server that       *)
(* refused never makes it skip, repeat or silently drop documents.         *)
FindExact ==
  \A c \in Finds :
    /\ \A i \in DOMAIN delivered[c] : delivered[c][i] = i
    /\ cursor[c].state = "Done" /\ ~Failed(cursor[c]) =>
         Len(delivered[c]) = NumDocs

(* The server cursors that no live cursor asks for more, or kills, at the  *)
(* server where they are open.                                             *)
OutOfReach ==
  {id \in DOMAIN open : \A c \in Handles :
     ~(/\ cursor[c].live /\ cursor[c].id = id
       /\ cursor[c].server = open[id].server)}

(* What puts a server cursor out of reach is one of these: the getMore of  *)
(* its cursor is retried at another server; the aggregate that opened it   *)
(* was; its killCursors is not sent because the client is in exhaust, or   *)
(* fails.                                                                  *)
LeavesOnly ==
  \A id \in OutOfReach' \ OutOfReach :
    \/ call.at = "select" /\ cursor[call.c].id = id
    \/ call.at = "aggregate" /\ call.loop.server # call.server
    \/ /\ call.at = "kill" /\ cursor[call.c].id = id
       /\ in_exhaust \/ faults' = faults + 1

(* Nothing else does: whatever errors, timeouts and retries a cursor went  *)
(* through, mongoc_cursor_destroy still knows what it has open, and where, *)
(* and closes it.                                                          *)
NoCursorLeft == [][LeavesOnly]_<<serverVars, cursorVars>>

(* mongoc_cursor_destroy.rst: "If a server-side cursor has been allocated, *)
(* it will be released as well."  Between two calls each open server       *)
(* cursor belongs to a cursor that is not destroyed.                       *)
CursorReleased ==
  call.at = "idle" =>
    \A id \in DOMAIN open : \E c \in Handles :
      cursor[c].live /\ cursor[c].id = id

(* The session of an open server cursor is not in the pool, from where     *)
(* another operation could take it, while a live cursor refers to it.      *)
SessionOfOpenCursor ==
  \A id \in DOMAIN open : \A c \in Handles :
    cursor[c].live /\ cursor[c].id = id => open[id].sess \in held

(* mongoc-cursor.c: "We cannot proceed if another cursor is receiving      *)
(* results in exhaust mode."  Every reply read from a connection answers   *)
(* the command it is read for.                                             *)
RepliesNotCrossed == ~crossed
============================================================================
