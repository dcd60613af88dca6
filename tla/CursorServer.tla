---------------------------- MODULE CursorServer ----------------------------
(***************************************************************************)
(* The deployment as cursors and change streams see it (external): cursors *)
(* open on servers, the one that streams its replies over the connection   *)
(* of this client (exhaust), and the history of changes.                   *)
(*                                                                         *)
(* A find returns the documents 1..NumDocs in order.  A change stream      *)
(* reads a history, of which the entries up to now have been written; it   *)
(* returns those that match its pipeline, and an invalidating entry closes *)
(* it.  A position in the history stands for a resume token and for an     *)
(* operation time: the entries after it are still to be read.              *)
(*                                                                         *)
(* A server cursor whose identifier never reached the client is left out.  *)
(***************************************************************************)
EXTENDS RetryableCommand, Integers, Sequences

CONSTANTS NumDocs,    \* documents a find returns
          Histories,  \* the histories a change stream may read
          MaxFaults   \* bound: failures other than timeouts and overload

ASSUME CursorServerAssumption ==
  /\ NumDocs \in Nat /\ MaxFaults \in Nat
  /\ Histories # {}
  /\ \A h \in Histories : h \in Seq({"match", "other", "invalidate"})

VARIABLES open,       \* cursor id -> the server cursor
          streaming,  \* server -> id of the cursor that streams, or 0
          history,    \* the history of changes
          now,        \* how much of it has been written
          faults      \* failures so far

serverVars == <<open, streaming, history, now, faults>>

ServerInit ==
  /\ open = << >>
  /\ streaming = [s \in Servers |-> 0]
  /\ history \in Histories
  /\ now = 0
  /\ faults = 0

Fault == faults < MaxFaults /\ faults' = faults + 1

(* An entry of the history is written.                                     *)
Write ==
  /\ now < Len(history)
  /\ now' = now + 1
  /\ UNCHANGED <<open, streaming, history, faults>>

Remove(ids) == [i \in DOMAIN open \ ids |-> open[i]]
Put(id, c) == [i \in DOMAIN open \cup {id} |-> IF i = id THEN c ELSE open[i]]

(* The connection to a server is closed: a cursor that streams over it     *)
(* ends.                                                                   *)
Disconnected(s) ==
  /\ open' = Remove({streaming[s]})
  /\ streaming' = [streaming EXCEPT ![s] = 0]

(* A server drops an idle cursor.                                          *)
Reap ==
  /\ Fault
  /\ \E id \in DOMAIN open :
       /\ \A s \in Servers : streaming[s] # id
       /\ open' = Remove({id})
  /\ UNCHANGED <<streaming, history, now>>
----------------------------------------------------------------------------
(* The members of a finite set of numbers as a sequence, in their order.   *)
Ascending(s) == \A i, j \in DOMAIN s : i < j => s[i] < s[j]
InOrder(S) ==
  CHOOSE s \in [1..Cardinality(S) -> S] :
    Ascending(s) /\ \A x \in S : \E i \in DOMAIN s : s[i] = x

(* Reading on from p: where a batch may end, what it holds, and whether    *)
(* the cursor is closed by it.                                             *)
Ends(kind, p) ==
  IF kind = "find" THEN p..NumDocs
    ELSE {q \in p..now : \A i \in (p + 1)..(q - 1) :
                           history[i] # "invalidate"}
Documents(kind, p, q) ==
  {i \in (p + 1)..q : kind = "find" \/ history[i] # "other"}
Batch(kind, p, q) == InOrder(Documents(kind, p, q))
Closes(kind, p, q) ==
  IF kind = "find" THEN IF q = NumDocs THEN BOOLEAN ELSE {FALSE}
    ELSE {q > p /\ history[q] = "invalidate"}

(* The post-batch resume token, which only a change stream has.            *)
Token(kind, q) == IF kind = "find" THEN 0 ELSE q

(* What a server answers: the reply, and the cursor document of a          *)
(* successful one with its post-batch resume token; more is the moreToCome *)
(* flag of an exhaust stream.                                              *)
Answer(id, batch, pbrt, more) ==
  [reply |-> OkReply, id |-> id, batch |-> batch, pbrt |-> pbrt,
   more |-> more]
ErrorAnswer(r) ==
  [reply |-> r, id |-> 0, batch |-> << >>, pbrt |-> 0, more |-> FALSE]

ServerError(code, labels) == Reply(FALSE, FALSE, code, labels)
OverloadError == ServerError("other", {"SystemOverloaded", "Retryable"})
CursorNotFound == ServerError("CursorNotFound", {"Resumable"})
NotPrimary == ServerError("NotPrimary", {"Resumable"})
OtherError == ServerError("other", {})

(* The batches a server may answer with when it reads on from p: where     *)
(* each ends, whether the cursor is closed by it, and whether the server   *)
(* goes on streaming.                                                      *)
Batches(kind, p, exhaust) ==
  {b \in [end : Ends(kind, p), closed : BOOLEAN, more : BOOLEAN] :
     /\ b.closed \in Closes(kind, p, b.end)
     /\ b.more => exhaust /\ ~b.closed}

(* The outcome of a command: the open cursors, what streams, whether it    *)
(* counts as a fault, and the answer.                                      *)
Outcome(cursors, streams, fault, answer) ==
  [open |-> cursors, streaming |-> streams, fault |-> fault,
   answer |-> answer]
Takes(o) ==
  /\ open' = o.open /\ streaming' = o.streaming
  /\ IF o.fault THEN Fault ELSE UNCHANGED faults

(* A server runs find, or aggregate with $changeStream, from position p.   *)
RunOpen(s, kind, p, id, sess, exhaust) ==
  {Outcome(IF b.closed THEN open
             ELSE Put(id, [server |-> s, kind |-> kind, pos |-> b.end,
                           sess |-> sess]),
           IF b.more THEN [streaming EXCEPT ![s] = id] ELSE streaming,
           FALSE,
           Answer(IF b.closed THEN 0 ELSE id, Batch(kind, p, b.end),
                  Token(kind, b.end), b.more)) :
     b \in Batches(kind, p, exhaust)}

(* A server runs getMore, or streams the next reply of an exhaust cursor.  *)
RunGetMore(s, id, exhaust) ==
  IF id \in DOMAIN open /\ open[id].server = s
    THEN LET c == open[id]
         IN  {Outcome(IF b.closed THEN Remove({id})
                                  ELSE [open EXCEPT ![id].pos = b.end],
                      [streaming EXCEPT ![s] = IF b.more THEN id ELSE 0],
                      FALSE,
                      Answer(IF b.closed THEN 0 ELSE id,
                             Batch(c.kind, c.pos, b.end),
                             Token(c.kind, b.end), b.more)) :
                b \in Batches(c.kind, c.pos, exhaust)}
    ELSE {Outcome(open, streaming, FALSE, ErrorAnswer(CursorNotFound))}

(* A server refuses a command about cursor id (0: none yet): overloaded,   *)
(* it keeps the cursor; after another error it may have closed it.  An     *)
(* exhaust stream that ends in an error is closed.                         *)
Refuse(s, id) ==
  LET drops(r) == IF streaming[s] # 0 THEN {TRUE}
                    ELSE IF r = OverloadError THEN {FALSE} ELSE BOOLEAN
      refusals == {x \in [reply : {OverloadError, NotPrimary, OtherError},
                          drop : BOOLEAN] : x.drop \in drops(x.reply)}
  IN  {Outcome(IF x.drop THEN Remove({id}) ELSE open,
               [streaming EXCEPT ![s] = 0], x.reply = NotPrimary,
               ErrorAnswer(x.reply)) : x \in refusals}
============================================================================
