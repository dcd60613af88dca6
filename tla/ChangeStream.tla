---------------------------- MODULE ChangeStream ----------------------------
(***************************************************************************)
(* A change stream (mongoc-change-stream.c) over its cursor                *)
(* (mongoc-cursor-change-stream.c), beside the other cursors of the same   *)
(* client: the aggregate command that opens the cursor, the resume token   *)
(* and operation time it keeps, and the loop that opens the cursor again   *)
(* after an error.                                                         *)
(***************************************************************************)
EXTENDS Cursor

(* No token, and no operation time.                                        *)
None == -1

CONSTANT Starts  \* positions the application gives to start from

(* The options that say where a stream starts.                             *)
StartOptions == {"none", "resumeAfter", "startAfter", "atTime"}

(* The handle of the stream's cursor.                                      *)
W == CHOOSE c \in Streams : TRUE
ASSUME StreamAssumption == Cardinality(Streams) = 1 /\ Starts \subseteq Nat

VARIABLES stream  \* mongoc_change_stream_t

(* option and from are what the application gave; start, the position the  *)
(* first aggregate began at, and seen, the events returned, are kept for   *)
(* the properties.                                                         *)
NoStream ==
  [live |-> FALSE, option |-> "none", from |-> 0, err |-> FALSE,
   resumed |-> FALSE, returned |-> FALSE, token |-> None, optime |-> None,
   sess |-> 0, start |-> None, seen |-> << >>]

vars == <<serverVars, cursorVars, stream>>

Init == CursorInit /\ stream = NoStream
----------------------------------------------------------------------------
(* _change_stream_init; _make_cursor follows.                              *)
Watch ==
  /\ call.at = "idle" /\ ~stream.live
  /\ \E option \in StartOptions :
     \E from \in IF option = "none" THEN {0} ELSE Starts \cap 0..now :
       stream' = [NoStream EXCEPT !.live = TRUE, !.option = option,
                    !.from = from,
                    !.optime = IF option = "atTime" THEN from ELSE None]
  /\ call' = [call EXCEPT !.at = "make"]
  /\ UNCHANGED <<serverVars, in_exhaust, cursor, held, delivered, crossed>>

(* Mutant: the token of the batch is taken before its events are returned. *)
EndNextEarly(st) ==
  LET k == cursor[W]
      over == ~k.live \/ k.id = 0
  IN  /\ stream' = [st EXCEPT
                      !.token = IF k.live /\ ~Failed(k) THEN k.pbrt ELSE @,
                      !.sess = IF over THEN 0 ELSE @]
      /\ held' = IF over THEN held \ {st.sess} ELSE held
      /\ call' = Idle
      /\ UNCHANGED <<serverVars, in_exhaust, cursor, delivered, crossed>>

(* Where mongoc_change_stream_next ends: the token of an empty or consumed *)
(* batch, and the session of a stream whose cursor is gone or closed.      *)
EndNext(st) ==
  LET k == cursor[W]
      over == ~k.live \/ k.id = 0
  IN  /\ stream' = [st EXCEPT
                      !.token = IF k.live /\ ~Failed(k) /\ k.batch = << >>
                                  THEN k.pbrt ELSE @,
                      !.sess = IF over THEN 0 ELSE @]
      /\ held' = IF over THEN held \ {st.sess} ELSE held
      /\ call' = Idle
      /\ UNCHANGED <<serverVars, in_exhaust, cursor, delivered, crossed>>

(* _make_cursor fails: stream->err is set.                                 *)
MakeError(st) ==
  IF call.resume
    THEN /\ stream' = [st EXCEPT !.err = TRUE, !.sess = 0]
         /\ held' = held \ {st.sess}
         /\ call' = Idle
    ELSE /\ stream' = [st EXCEPT !.err = TRUE]
         /\ held' = held \cup {st.sess}
         /\ call' = Idle

(* _make_cursor takes an implicit session, or uses the one it has, and     *)
(* selects a server, which is the one the getMores go to; the token of the *)
(* options is cached.                                                      *)
Pick ==
  /\ call.at = "make"
  /\ \E s \in Servers :
       call' = [call EXCEPT !.at = "aggregate", !.server = s,
                 !.loop = NewLoop(IF RetryReads THEN "retryable_read"
                                                ELSE "none", s)]
  /\ stream' =
       [stream EXCEPT !.sess = W,
          !.token = IF ~stream.resumed
                       /\ stream.option \in {"resumeAfter", "startAfter"}
                      THEN stream.from ELSE @]
  /\ held' = held \cup {W}
  /\ UNCHANGED <<serverVars, in_exhaust, cursor, delivered, crossed>>

PickFails ==
  /\ call.at = "make"
  /\ Fault
  /\ MakeError([stream EXCEPT !.sess = W])
  /\ UNCHANGED <<open, streaming, history, now, in_exhaust, cursor,
                 delivered, crossed>>

(* Mutant: a resumed stream starts again from its options.                 *)
MakeCommandForgets(st) == [option |-> st.option, pos |-> st.from]

(* _make_command: the option the aggregate carries, and its position.      *)
MakeCommand(st) ==
  IF ~st.resumed THEN [option |-> st.option, pos |-> st.from]
  ELSE IF st.token # None
    THEN [option |-> IF st.option = "startAfter" /\ ~st.returned
                       THEN "startAfter" ELSE "resumeAfter",
          pos |-> st.token]
    ELSE IF st.optime # None THEN [option |-> "atTime", pos |-> st.optime]
                             ELSE [option |-> "none", pos |-> 0]

(* Where a server begins: without an option, at the time it starts to run  *)
(* the command, which an entry may follow before it answers.               *)
Begins(command) ==
  IF command.option = "none" THEN {p \in {now - 1, now} : p >= 0}
                             ELSE {command.pos}

(* The rest of _make_cursor, with the reply: the cursor is made, and reads *)
(* from the server picked first, though the aggregate may have been        *)
(* retried at another.  p is where the server began.                       *)
Made(a, p) ==
  LET k == [NewCursor(FALSE) EXCEPT !.state = "InBatch", !.id = a.id,
              !.batch = a.batch, !.pbrt = a.pbrt, !.server = call.server,
              !.sess = stream.sess, !.explicit = TRUE]
      token == IF a.batch = << >> THEN a.pbrt ELSE stream.token
  IN  /\ cursor' = [cursor EXCEPT ![W] = k]
      /\ stream' = [stream EXCEPT
            !.token = token,
            !.optime = IF stream.option = "none" /\ stream.optime = None
                          /\ token = None
                         THEN now ELSE @,
            !.start = IF @ = None THEN p ELSE @]
      /\ call' = IF call.resume
                   THEN [call EXCEPT !.at = "next",
                           !.moved = IF call.loop.server = call.server
                                       THEN @ ELSE @ + 1]
                   ELSE Idle
      /\ UNCHANGED held

AfterAggregate(a, p) ==
  IF Retries(call.loop, a.reply)
    THEN /\ call' = [call EXCEPT !.at = "reselect",
                                 !.loop = NextAttempt(call.loop, a.reply)]
         /\ UNCHANGED <<stream, cursor, held>>
    ELSE IF a.reply.ok THEN Made(a, p)
                       ELSE MakeError(stream) /\ UNCHANGED cursor

(* The aggregate command is answered.                                      *)
Aggregated ==
  /\ call.at = "aggregate" /\ ~in_exhaust
  /\ LET s == call.loop.server
     IN  /\ crossed' = (crossed \/ Crosses(s, 0))
         /\ \/ \E p \in Begins(MakeCommand(stream)) :
               \E o \in RunOpen(s, "watch", p, NewId(W), stream.sess, FALSE) :
                 Takes(o) /\ AfterAggregate(o.answer, p)
            \/ \E o \in Refuse(s, 0) :
                 Takes(o) /\ AfterAggregate(o.answer, 0)
  /\ UNCHANGED <<history, now, in_exhaust, delivered>>

(* It is not sent because the client is in exhaust, or not answered.       *)
AggregateFails ==
  /\ call.at = "aggregate"
  /\ IF in_exhaust
       THEN MakeError(stream) /\ UNCHANGED <<cursor, open, streaming>>
       ELSE /\ Lost(call.loop.server, 0)
            /\ AfterAggregate(ErrorAnswer(NetworkError), 0)
  /\ UNCHANGED <<history, now, faults, in_exhaust, delivered, crossed>>

AggregateReselect ==
  /\ call.at = "reselect"
  /\ \/ /\ \E s \in Candidates(call.loop.deprioritized) :
             call' = [call EXCEPT !.at = "aggregate", !.loop.server = s]
        /\ UNCHANGED <<stream, held, faults>>
     \/ Fault /\ MakeError(stream)
  /\ UNCHANGED <<open, streaming, history, now, in_exhaust, cursor,
                 delivered, crossed>>
----------------------------------------------------------------------------
(* mongoc_change_stream_next: mongoc_cursor_next, and what follows it.     *)
StreamNext ==
  /\ call.at = "idle" /\ stream.live
  /\ IF stream.err THEN EndNext(stream)
                   ELSE EnterNext(W) /\ UNCHANGED stream

(* mongoc_cursor_next on the cursor that was opened again.                 *)
ResumedNext ==
  /\ call.at = "next"
  /\ EnterNext(W)
  /\ UNCHANGED stream

(* _is_resumable_error: an error that no server sent, an unknown cursor,   *)
(* or one that the server labels so.                                       *)
IsResumableError(r) ==
  \/ r.network
  \/ r.code = "CursorNotFound"
  \/ IF LabelsFromServer THEN "Resumable" \in r.labels
                         ELSE r.code \in RetryableCodes

(* Mutant: a cursor that times out is opened again each time.              *)
ResumesAlways(k, timeouts) == IsResumableError(k.error)

(* The loop goes on unless two cursors opened by it have timed out.        *)
Resumes(k, timeouts) == timeouts < 2 /\ IsResumableError(k.error)

(* iteration_timeout_count, which is not counted beyond two.               *)
Timeouts(k) ==
  IF call.resume /\ k.timed_out /\ call.timeouts < 2 THEN call.timeouts + 1
                                                    ELSE call.timeouts

Deliver ==
  /\ call.at = "advanced" /\ call.doc # 0
  /\ EndNext([stream EXCEPT !.returned = TRUE, !.token = call.doc,
                !.optime = None, !.seen = Append(@, call.doc)])

NothingNew ==
  /\ call.at = "advanced" /\ call.doc = 0 /\ ~Failed(cursor[W])
  /\ EndNext(stream)

(* The cursor failed and is not opened again: it was closed before, or the *)
(* error is not one to resume after.                                       *)
Stop(k) ==
  \/ ~call.resume /\ k.id = 0
  \/ ~Resumes(k, Timeouts(k))

StreamFails ==
  /\ call.at = "advanced" /\ call.doc = 0 /\ Failed(cursor[W])
  /\ Stop(cursor[W])
  /\ EndNext([stream EXCEPT !.err = TRUE])

Resume ==
  /\ call.at = "advanced" /\ call.doc = 0 /\ Failed(cursor[W])
  /\ ~Stop(cursor[W])
  /\ call' = [Idle EXCEPT !.at = "discard", !.resume = TRUE,
                          !.timeouts = Timeouts(cursor[W]),
                          !.resumes = call.resumes + 1,
                          !.moved = call.moved]
  /\ stream' = [stream EXCEPT !.resumed = TRUE]
  /\ UNCHANGED <<serverVars, in_exhaust, cursor, held, delivered, crossed>>

(* mongoc_change_stream_destroy                                            *)
StreamDestroy ==
  /\ call.at = "idle" /\ stream.live
  /\ call' = [call EXCEPT !.at = IF cursor[W].live THEN "discard"
                                                   ELSE "destroyed"]
  /\ UNCHANGED <<serverVars, in_exhaust, cursor, held, delivered, crossed,
                 stream>>

Discard ==
  /\ call.at = "discard"
  /\ Destroy(W)
  /\ UNCHANGED stream

Discarded ==
  /\ call.at = "destroyed"
  /\ IF call.resume
       THEN /\ call' = [call EXCEPT !.at = "make"]
            /\ UNCHANGED <<stream, held>>
       ELSE /\ call' = Idle
            /\ stream' = NoStream
            /\ held' = held \ {stream.sess}
  /\ UNCHANGED <<serverVars, in_exhaust, cursor, delivered, crossed>>

----------------------------------------------------------------------------
StreamDriver ==
  \/ PickFails \/ Pick \/ Aggregated \/ AggregateFails
  \/ AggregateReselect \/ ResumedNext \/ Deliver \/ NothingNew
  \/ StreamFails \/ Resume \/ Discard \/ Discarded

DriverSteps == (Driver /\ UNCHANGED stream) \/ StreamDriver

Next ==
  \/ (Application \/ Deployment) /\ UNCHANGED stream
  \/ Watch \/ StreamNext \/ StreamDestroy
  \/ DriverSteps

Spec == Init /\ [][Next]_vars
----------------------------------------------------------------------------
Replies == [ok : BOOLEAN, network : BOOLEAN, code : Codes,
            labels : SUBSET (Labels \cup {"Resumable"})]
ServerCursors == [server : Servers, kind : {"find", "watch"}, pos : Nat,
                  sess : Handles]
Cursors ==
  [live : BOOLEAN, state : {"Unprimed", "InBatch", "EndOfBatch", "Done"},
   id : Nat, server : Servers \cup {0}, batch : Seq(Nat \ {0}), pbrt : Nat,
   error : Replies, sess : Handles \cup {0}, explicit : BOOLEAN,
   opt : BOOLEAN, in_exhaust : BOOLEAN, timed_out : BOOLEAN]
Calls ==
  [at : {"idle", "fetch", "send", "select", "kill", "make", "aggregate",
         "reselect", "next", "advanced", "discard", "destroyed"},
   c : Handles \cup {0}, cmd : {"none", "find", "getMore"},
   refreshed : BOOLEAN,
   loop : [elig : Eligibilities, attempt : Nat, allowed : Nat,
           server : Servers \cup {0}, deprioritized : SUBSET Servers],
   doc : Nat, server : Servers \cup {0}, resume : BOOLEAN, timeouts : Nat,
   resumes : Nat, moved : Nat]
StreamRecords ==
  [live : BOOLEAN, option : StartOptions, from : Nat, err : BOOLEAN,
   resumed : BOOLEAN, returned : BOOLEAN, token : Nat \cup {None},
   optime : Nat \cup {None}, sess : {0, W}, start : Nat \cup {None},
   seen : Seq(Nat \ {0})]

TypeOK ==
  /\ IsFiniteSet(DOMAIN open) /\ DOMAIN open \subseteq Nat \ {0}
  /\ open \in [DOMAIN open -> ServerCursors]
  /\ streaming \in [Servers -> Nat]
  /\ history \in Histories /\ now \in 0..Len(history)
  /\ faults \in 0..MaxFaults
  /\ in_exhaust \in BOOLEAN /\ crossed \in BOOLEAN
  /\ cursor \in [Handles -> Cursors]
  /\ held \subseteq Handles
  /\ call \in Calls
  /\ delivered \in [Finds -> Seq(Nat \ {0})]
  /\ stream \in StreamRecords

(* The events of the history a stream is to return, up to position p.      *)
Events(p) ==
  InOrder({i \in (stream.start + 1)..p : history[i] # "other"})

(* The events a stream has returned are those of the history, in order,    *)
(* each once and without a gap, however often its cursor was lost and      *)
(* opened again.                                                           *)
NoEventLost ==
  stream.seen # << >> => stream.seen = Events(stream.seen[Len(stream.seen)])

(* Between two calls the resume token stands exactly for the events that   *)
(* have been returned: a stream that starts from it, this one after an     *)
(* error or another one of the application, repeats none and skips none.   *)
TokenExact ==
  call.at = "idle" /\ stream.start # None /\ stream.token # None =>
    stream.seen = Events(stream.token)

(* A call of mongoc_change_stream_next opens its cursor again only so      *)
(* often: as errors of servers and connections make it, twice if each      *)
(* cursor times out, and once for each time that a retry parts its cursor  *)
(* from the server where it is open.  It does not go on for ever while     *)
(* servers do not answer in time.                                          *)
ResumesBounded == call.resumes <= 2 + faults + call.moved

(* mongoc_change_stream_t.rst: "libmongoc only attempts to resume once".   *)
ResumesOnce == call.resumes <= 1
============================================================================
