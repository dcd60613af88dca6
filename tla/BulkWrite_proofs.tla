-------------------------- MODULE BulkWrite_proofs --------------------------
(***************************************************************************)
(* Proofs about BulkWrite.  The parts of the invariant take the state as   *)
(* arguments: b is the bulk, ap the operations applied, s and r what the   *)
(* server has seen, t the transaction number, c the call, w the streams    *)
(* and q the result.                                                       *)
(***************************************************************************)
EXTENDS BulkWrite, FiniteSetTheorems, WellFoundedInduction, TLAPS

Good(b, i) == b.docs[i] \in {"good", "wide"}

(* CommandLast and BatchLast for any bulk.                                 *)
EndsCommand(b, i, j) ==
  /\ i <= j /\ (j = Len(b.docs) \/ j + 1 \in b.starts)
  /\ \A k \in i .. (j - 1) : k + 1 \notin b.starts
LastOf(b, i) == CHOOSE j \in DOMAIN b.docs : EndsCommand(b, i, j)
Joins(b, i, j) == i = j \/ \A k \in i .. j : b.docs[k] \notin {"wide", "large"}
IsFull(b, i, j) == j = LastOf(b, i) \/ j - i + 1 = MaxBatch
EndsBatch(b, i, j) ==
  /\ Joins(b, i, j) /\ (IsFull(b, i, j) \/ ~Joins(b, i, j + 1))
  /\ \A k \in i .. (j - 1) : ~IsFull(b, i, k)
BatchOf(b, i) == CHOOSE j \in i .. LastOf(b, i) : EndsBatch(b, i, j)
OneBatch(b) == \A i \in b.starts : BatchOf(b, i) = LastOf(b, i)

InBatch == {"send", "retry", "merge"}
Going == {"select", "batch"} \cup InBatch

(* Where the call is: next is where the batch begins, last its end or that *)
(* of the batch before.  A command that can be sent again has a number if  *)
(* it may have run.                                                        *)
CallOk(b, c) ==
  /\ c.first \in b.starts /\ c.first <= c.next /\ c.offset = c.next - 1
  /\ c.last <= LastOf(b, c.first)
  /\ c.at = "select" => c.next = c.first
  /\ c.at \in {"select", "batch"} => c.last < c.next /\ c.next <= LastOf(b, c.first)
  /\ c.at \in InBatch => c.next <= c.last
  /\ c.at \in InBatch => \A i \in c.next .. c.last : b.docs[i] # "large"
  /\ c.at \in {"send", "retry"} =>
       IF c.retryable THEN c.num # 0 /\ c.loop.elig = "retryable_write"
                      ELSE c.num = 0 /\ c.loop.elig \in {"overload_only", "none"}
  /\ c.at \in {"retry", "merge"} => c.set = TRUE
  /\ c.at = "end" => b.api = "bulk_operation"

(* In an ordered bulk of commands of one batch, a batch is a command.      *)
OneBatchOk(b, c) ==
  b.api = "bulk_operation" /\ OneBatch(b) =>
    /\ c.at = "batch" => c.next = c.first
    /\ c.at \in InBatch => c.last = LastOf(b, c.first)

NumbersOk(s, t, c) == s <= t /\ c.num <= t

(* What was applied was applied once, and what of a batch that will be     *)
(* sent again was applied is known to the server under its number.         *)
AppliedOk(b, ap, s, r, c) ==
  /\ \A i \in DOMAIN b.docs :
       /\ ap[i] \in {0, 1}
       /\ ap[i] = 1 => i <= c.last /\ Good(b, i)
  /\ c.at \in {"send", "retry"} => \A i \in c.next .. c.last :
       ap[i] = 1 <=> c.num # 0 /\ c.num = s /\ i - c.next + 1 \in r

(* An ordered batch is applied from its beginning.                         *)
PartOk(b, ap, c) ==
  b.ordered /\ c.at \in InBatch => \A i \in c.next .. c.last :
    ap[i] = 1 => \A j \in c.next .. i : ap[j] = 1

(* The answer that is kept is true of the batch, as later attempts that do *)
(* not replace it have written nothing.                                    *)
BatchApplied(ap, c) == {i \in c.next .. c.last : ap[i] = 1}
Complete(b, ap, c) ==
  /\ c.kept.n = Cardinality(BatchApplied(ap, c))
  /\ \A i \in c.next .. c.last :
       \/ ap[i] = 1 \/ i - c.next + 1 \in c.kept.errors
       \/ b.ordered /\ \E e \in c.kept.errors : c.next - 1 + e < i
KeptOk(b, ap, c) ==
  /\ c.at \in InBatch /\ c.set =>
       /\ \A e \in c.kept.errors : /\ c.next - 1 + e \in c.next .. c.last
                                   /\ b.docs[c.next - 1 + e] = "bad"
       /\ c.kept.reply.ok => Complete(b, ap, c)
       /\ ~c.kept.reply.ok => c.kept.n = 0
       /\ c.at # "merge" /\ c.kept.reply.ok => c.kept.reply.code # "none"
  /\ c.at = "merge" /\ c.kept.reply.ok /\ c.kept.reply.code = "none" => c.ret
  /\ c.at \in {"retry", "merge"} /\ c.ret => c.kept.reply.ok

(* The operations that the result is about: all up to this one.            *)
Covered(b, c) ==
  IF c.at \in Going THEN c.next - 1
    ELSE IF c.at = "end" THEN LastOf(b, c.first) ELSE Len(b.docs)
Counted(b, ap, c) ==
  {i \in DOMAIN b.docs : ap[i] = 1 /\ (c.at \in InBatch => i < c.next)}
Clean(b, q) ==
  IF b.api = "bulk_operation" THEN ~q.failed ELSE ~q.error /\ q.errors = {}
AllApplied(ap, k) == \A i \in 1 .. k : ap[i] = 1
Named(b, ap, q, i) ==
  ap[i] = 1 \/ i \in q.errors \/ (b.ordered /\ \E j \in q.errors : j < i)

CountOk(b, ap, c, q) ==
  /\ q.n <= Cardinality(Counted(b, ap, c))
  /\ ~q.cut => q.n = Cardinality(Counted(b, ap, c))
ErrorsOk(b, c, q) == \A j \in q.errors : j <= c.last /\ b.docs[j] = "bad"
StopOk(q) ==
  /\ q.must_stop => q.failed /\ (q.cut \/ q.wce)
  /\ q.failed /\ ~q.cut /\ ~q.wce => q.errors # {}
CleanOk(b, ap, c, q) ==
  /\ c.at # "done" /\ Clean(b, q) => AllApplied(ap, Covered(b, c))
  /\ c.at # "done" => ~q.ok
  /\ q.ok => AllApplied(ap, Len(b.docs))
NamedOk(b, ap, c, q) ==
  ~q.cut /\ ~q.wce => \A i \in 1 .. Covered(b, c) : Named(b, ap, q, i)

(* An ordered bulk goes on only if all went well.                          *)
OrderedOk(b, ap, c, q) ==
  b.ordered /\ (b.api # "bulk_operation" \/ OneBatch(b)) =>
    /\ c.at \in Going => Clean(b, q)
    /\ \A i \in DOMAIN b.docs : ap[i] = 1 => AllApplied(ap, i)

ResultOk(b, ap, c, q) ==
  /\ CountOk(b, ap, c, q) /\ ErrorsOk(b, c, q) /\ StopOk(q)
  /\ CleanOk(b, ap, c, q) /\ NamedOk(b, ap, c, q)

StreamOk(c, w) ==
  c.at \in {"batch", "end"} \cup InBatch => w.used.server # 0 /\ w.begun.server # 0

IInv ==
  /\ TypeOK /\ CallOk(bulk, call) /\ OneBatchOk(bulk, call)
  /\ NumbersOk(seen, txn_number, call)
  /\ AppliedOk(bulk, applied, seen, ran, call) /\ PartOk(bulk, applied, call)
  /\ KeptOk(bulk, applied, call) /\ StreamOk(call, stream)
  /\ ResultOk(bulk, applied, call, result)
  /\ OrderedOk(bulk, applied, call, result)

----------------------------------------------------------------------------
(***************************************************************************)
(* Commands and batches.                                                   *)
(***************************************************************************)
(* A set of natural numbers that has an element has a least one.           *)
LEMMA LeastPlace ==
  ASSUME NEW T \in SUBSET Nat, T # {}
  PROVE  \E i \in T : \A j \in T : i <= j
<1>1. IsWellFoundedOn(OpToRel(<, Nat), Nat)
  BY NatLessThanWellFounded, Zenon
<1>2. PICK i \in T : \A j \in T : ~ (<<j, i>> \in OpToRel(<, Nat))
  BY <1>1, WFMin, Zenon
<1>3. \A j \in T : ~ (j < i)
  BY <1>2 DEF OpToRel
<1>4. \A j \in T : i <= j
  BY <1>3
<1> QED
  BY <1>4

(* The operations of a bulk are numbered from 1.                           *)
LEMMA BulkFacts ==
  ASSUME NEW b \in Bulks
  PROVE  /\ DOMAIN b.docs = 1 .. Len(b.docs)
         /\ Len(b.docs) \in Nat /\ Len(b.docs) >= 1
         /\ 1 \in b.starts /\ b.starts \subseteq DOMAIN b.docs
         /\ b.ordered \in BOOLEAN
         /\ b.api \in {"bulk_operation", "bulkwrite"}
         /\ b.api = "bulkwrite" => b.starts = {1}
         /\ b.multi \subseteq b.starts
         /\ \A i \in DOMAIN b.docs : b.docs[i] \in {"good", "bad", "wide", "large"}
BY BulkAssumption

(* Every operation belongs to a command, which has a last one.             *)
LEMMA LastOfFacts ==
  ASSUME NEW b \in Bulks, NEW i \in DOMAIN b.docs
  PROVE  LastOf(b, i) \in DOMAIN b.docs /\ EndsCommand(b, i, LastOf(b, i))
<1> DEFINE N == Len(b.docs)
           T == {j \in DOMAIN b.docs : i <= j /\ (j = N \/ j + 1 \in b.starts)}
<1>1. DOMAIN b.docs = 1 .. N /\ N \in Nat /\ N >= 1
  BY BulkFacts
<1>2. N \in T /\ T \in SUBSET Nat
  BY <1>1
<1>3. PICK j \in T : \A k \in T : j <= k
  BY <1>2, LeastPlace
<1>4. ASSUME NEW k \in i .. (j - 1) PROVE k + 1 \notin b.starts
  <2>1. k \in DOMAIN b.docs /\ i <= k /\ ~(j <= k)
    BY <1>1, <1>3
  <2> QED
    BY <1>3, <2>1
<1>5. j \in DOMAIN b.docs /\ EndsCommand(b, i, j)
  BY <1>3, <1>4 DEF EndsCommand
<1> QED
  BY <1>5 DEF LastOf

(* The operations of one command have the same last one.                   *)
LEMMA LastOfSame ==
  ASSUME NEW b \in Bulks, NEW i \in DOMAIN b.docs, NEW k \in DOMAIN b.docs,
         i <= k, k <= LastOf(b, i)
  PROVE  LastOf(b, k) = LastOf(b, i)
<1> DEFINE m == LastOf(b, i)
           n == LastOf(b, k)
<1>1. m \in DOMAIN b.docs /\ EndsCommand(b, i, m)
  BY LastOfFacts
<1>2. n \in DOMAIN b.docs /\ EndsCommand(b, k, n)
  BY LastOfFacts
<1>3. DOMAIN b.docs = 1 .. Len(b.docs) /\ Len(b.docs) \in Nat
  BY BulkFacts
<1>4. k <= m
  OBVIOUS
<1> HIDE DEF m, n
<1>5. ~(m < n)
  BY <1>1, <1>2, <1>3, <1>4 DEF EndsCommand
<1>6. ~(n < m)
  BY <1>1, <1>2, <1>3, <1>4 DEF EndsCommand
<1> QED
  BY <1>1, <1>2, <1>3, <1>5, <1>6 DEF m, n

(* After a command comes the first operation of the next one.              *)
LEMMA NextCommand ==
  ASSUME NEW b \in Bulks, NEW i \in DOMAIN b.docs, LastOf(b, i) # Len(b.docs)
  PROVE  LastOf(b, i) + 1 \in b.starts /\ LastOf(b, i) + 1 \in DOMAIN b.docs
BY LastOfFacts, BulkFacts DEF EndsCommand

(* A batch can be cut off, and ends with its command at the latest.        *)
LEMMA BatchOfFacts ==
  ASSUME NEW b \in Bulks, NEW i \in DOMAIN b.docs
  PROVE  BatchOf(b, i) \in i .. LastOf(b, i) /\ EndsBatch(b, i, BatchOf(b, i))
<1> DEFINE m == LastOf(b, i)
           T == {j \in i .. m : IsFull(b, i, j) \/ ~Joins(b, i, j + 1)}
<1>1. m \in DOMAIN b.docs /\ i <= m /\ DOMAIN b.docs \subseteq Nat
  BY LastOfFacts, BulkFacts DEF EndsCommand
<1>2. m \in T /\ T \in SUBSET Nat
  BY <1>1 DEF IsFull
<1>3. PICK j \in T : \A k \in T : j <= k
  BY <1>2, LeastPlace
<1>4. \A k \in i .. (j - 1) : ~IsFull(b, i, k) /\ Joins(b, i, k + 1)
  BY <1>1, <1>3
<1>5. Joins(b, i, j)
  <2>1. CASE j = i
    BY <2>1 DEF Joins
  <2>2. CASE j # i
    <3>1. j - 1 \in i .. (j - 1) /\ (j - 1) + 1 = j
      BY <1>1, <1>3, <2>2
    <3> QED
      BY <1>4, <3>1
  <2> QED
    BY <2>1, <2>2
<1>6. j \in i .. LastOf(b, i) /\ EndsBatch(b, i, j)
  BY <1>3, <1>4, <1>5 DEF EndsBatch
<1> QED
  BY <1>6 DEF BatchOf

(* These are the operators of the specification.                           *)
LEMMA SameLast ==
  /\ \A i : CommandLast(i) = LastOf(bulk, i)
  /\ \A i : BatchLast(i) = BatchOf(bulk, i)
<1>1. \A i : CommandLast(i) = LastOf(bulk, i)
  BY DEF CommandLast, LastOf, EndsCommand, Docs
<1>2. \A i, j : Fits(i, j) <=> Joins(bulk, i, j)
  BY DEF Fits, Joins, Alone
<1>3. \A i, j : Full(i, j) <=> IsFull(bulk, i, j)
  BY <1>1 DEF Full, IsFull
<1>4. ASSUME NEW i PROVE BatchLast(i) = BatchOf(bulk, i)
  BY <1>1, <1>2, <1>3 DEF BatchLast, BatchOf, EndsBatch
<1> QED
  BY <1>1, <1>4

----------------------------------------------------------------------------
(***************************************************************************)
(* The server.                                                             *)
(***************************************************************************)
(* The parts of the type invariant.                                        *)
AnswersOf(b) == [reply : ReplyRecords, n : Nat, errors : SUBSET DOMAIN b.docs]
CallsOf(b) ==
  [at : Places, first : DOMAIN b.docs, next : 1 .. (Len(b.docs) + 1),
   last : 0 .. Len(b.docs), offset : Nat, retryable : BOOLEAN, num : Nat,
   loop : Loops, ret : BOOLEAN, kept : AnswersOf(b), set : BOOLEAN]
ResultsOf(b) ==
  [failed : BOOLEAN, must_stop : BOOLEAN, n : Nat, errors : SUBSET DOMAIN b.docs,
   wce : BOOLEAN, error : BOOLEAN, server_id : Servers \cup {0},
   retry_server_id : Servers \cup {0}, errorscount : Nat,
   first_error : Nat, parsed : BOOLEAN, cut : BOOLEAN, ok : BOOLEAN,
   reported : BOOLEAN]
ServerTyped(b, ap, s, r, t) ==
  /\ ap \in [DOMAIN b.docs -> Nat]
  /\ s \in Nat /\ r \subseteq DOMAIN b.docs /\ t \in Nat

(* The type invariant says this of its parts.                              *)
LEMMA TypeParts ==
  TypeOK <=> /\ bulk \in Bulks
             /\ ServerTyped(bulk, applied, seen, ran, txn_number)
             /\ call \in CallsOf(bulk) /\ stream \in StreamRecords
             /\ result \in ResultsOf(bulk)
BY DEF TypeOK, ServerTyped, Calls, CallsOf, Results, ResultsOf, Answers,
       AnswersOf, Docs

(* ... and of the next state.                                              *)
LEMMA TypePartsNext ==
  TypeOK' <=> /\ bulk' \in Bulks
              /\ ServerTyped(bulk', applied', seen', ran', txn_number')
              /\ call' \in CallsOf(bulk') /\ stream' \in StreamRecords
              /\ result' \in ResultsOf(bulk')
BY DEF TypeOK, ServerTyped, Calls, CallsOf, Results, ResultsOf, Answers,
       AnswersOf, Docs

(* The numbers in a call.                                                  *)
LEMMA CallNumbers ==
  ASSUME NEW b \in Bulks, NEW c \in CallsOf(b)
  PROVE  /\ c.next \in Nat /\ c.next >= 1 /\ c.next <= Len(b.docs) + 1
         /\ c.last \in Nat /\ c.last <= Len(b.docs)
         /\ c.first \in DOMAIN b.docs /\ c.first \in Nat
         /\ DOMAIN b.docs = 1 .. Len(b.docs) /\ Len(b.docs) \in Nat
         /\ c.next .. c.last \subseteq DOMAIN b.docs
BY BulkFacts DEF CallsOf

(* A statement that has run under its number is one that passes anyway.    *)
LEMMA PassesGood ==
  ASSUME TypeOK, call.at = "send", AppliedOk(bulk, applied, seen, ran, call)
  PROVE  \A i \in call.next .. call.last : Passes(i) <=> Good(bulk, i)
<1>1. bulk \in Bulks /\ call \in CallsOf(bulk)
  BY TypeParts
<1>2. call.next .. call.last \subseteq DOMAIN bulk.docs
  BY <1>1, CallNumbers
<1>3. ASSUME NEW i \in call.next .. call.last, Place(i) \in Ran
      PROVE  Good(bulk, i)
  <2>1. call.num # 0 /\ call.num = seen /\ i - call.next + 1 \in ran
    BY <1>3 DEF Place, Ran
  <2> QED
    BY <1>2, <2>1 DEF AppliedOk
<1> QED
  BY <1>3 DEF Passes, Good

(* Where a server stops: at the first operation of an ordered batch that   *)
(* it refuses.                                                             *)
StopsThere(b, c, q) ==
  /\ q \in c.next .. c.last
  /\ b.ordered => \A i \in c.next .. (q - 1) : Good(b, i)
  /\ q # c.last => b.ordered /\ ~Good(b, q)

(* StopAt is such a place.                                                 *)
LEMMA StopAtFacts ==
  ASSUME TypeOK, call.at = "send", CallOk(bulk, call),
         AppliedOk(bulk, applied, seen, ran, call)
  PROVE  StopsThere(bulk, call, StopAt)
<1> DEFINE I == call.next .. call.last
           T == {i \in I : ~Passes(i)}
<1>1. bulk \in Bulks /\ call \in CallsOf(bulk)
  BY TypeParts
<1>2. call.next \in Nat /\ call.last \in Nat /\ call.next <= call.last
  BY <1>1, CallNumbers DEF CallOk, InBatch
<1>3. CASE bulk.ordered /\ \E i \in I : ~Passes(i)
  <2>1. T # {} /\ T \in SUBSET Nat
    BY <1>2, <1>3
  <2>2. PICK i \in T : \A j \in T : i <= j
    BY <2>1, LeastPlace
  <2>3. \A j \in call.next .. (i - 1) : Passes(j)
    BY <1>2, <2>2
  <2>4. i \in I /\ ~Passes(i) /\ \A j \in call.next .. (i - 1) : Passes(j)
    BY <2>2, <2>3
  <2>5. StopAt = CHOOSE k \in I :
          ~Passes(k) /\ \A j \in call.next .. (k - 1) : Passes(j)
    BY <1>3 DEF StopAt
  <2> HIDE DEF I
  <2>6. /\ StopAt \in I /\ ~Passes(StopAt)
        /\ \A j \in call.next .. (StopAt - 1) : Passes(j)
    BY <2>4, <2>5, Zenon
  <2> QED
    BY <1>2, <1>3, <2>6, PassesGood DEF StopsThere, I
<1>4. CASE ~(bulk.ordered /\ \E i \in I : ~Passes(i))
  <2>1. StopAt = call.last
    BY <1>4 DEF StopAt
  <2> QED
    BY <1>2, <1>4, <2>1, PassesGood DEF StopsThere
<1> QED
  BY <1>3, <1>4

(* What a server that runs a batch up to q does to the operations.         *)
Served(b, c, ap, u, q) ==
  /\ u \in [DOMAIN b.docs -> Nat]
  /\ \A i \in DOMAIN b.docs :
       u[i] = IF i \in c.next .. q /\ Good(b, i) THEN 1 ELSE ap[i]

(* It runs no statement again, and keeps which ones have run.              *)
LEMMA ProcessFacts ==
  ASSUME TypeOK, call.at = "send", CallOk(bulk, call),
         AppliedOk(bulk, applied, seen, ran, call),
         NEW q \in (call.next - 1) .. StopAt, Process(q)
  PROVE  /\ Served(bulk, call, applied, applied', q)
         /\ seen' \in Nat /\ ran' \subseteq DOMAIN bulk.docs
         /\ seen' = IF call.num = 0 THEN seen ELSE call.num
         /\ call.num # 0 => \A i \in call.next .. call.last :
              applied'[i] = 1 <=> i - call.next + 1 \in ran'
<1> DEFINE new == {i \in call.next .. q : Passes(i) /\ Place(i) \notin Ran}
<1>1. bulk \in Bulks /\ call \in CallsOf(bulk) /\ call.num \in Nat
      /\ ServerTyped(bulk, applied, seen, ran, txn_number)
  BY TypeParts DEF CallsOf
<1>2. /\ call.next \in Nat /\ call.last \in Nat /\ call.next >= 1
      /\ DOMAIN bulk.docs = 1 .. Len(bulk.docs) /\ Len(bulk.docs) \in Nat
      /\ call.last <= Len(bulk.docs)
  BY <1>1, CallNumbers
<1>3. StopAt \in call.next .. call.last
  BY StopAtFacts DEF StopsThere
<1>4. call.next .. q \subseteq call.next .. call.last
      /\ call.next .. call.last \subseteq DOMAIN bulk.docs
  BY <1>2, <1>3
<1>5. ASSUME NEW i \in call.next .. call.last
      PROVE  Place(i) \in Ran <=> applied[i] = 1
  BY <1>5 DEF AppliedOk, Place, Ran
<1>6. \A i \in call.next .. q : Passes(i) <=> Good(bulk, i)
  BY <1>4, PassesGood
<1>7. \A i \in call.next .. q : i \in new <=> Good(bulk, i) /\ applied[i] # 1
  BY <1>4, <1>5, <1>6
<1>8. applied' = [i \in DOMAIN bulk.docs |->
                    IF i \in new THEN applied[i] + 1 ELSE applied[i]]
  BY DEF Process, Docs
<1>9. \A i \in DOMAIN bulk.docs : applied[i] \in {0, 1} /\ applied[i] \in Nat
  BY DEF AppliedOk
<1>10. \A i \in new : i \in call.next .. q
  OBVIOUS
<1>11. ran' = IF call.num = 0 THEN ran ELSE Ran \cup {Place(i) : i \in new}
  BY DEF Process
<1>12. seen' = IF call.num = 0 THEN seen ELSE call.num
  BY DEF Process
<1> HIDE DEF new
<1>13. Served(bulk, call, applied, applied', q)
  <2>1. applied' \in [DOMAIN bulk.docs -> Nat]
    BY <1>8, <1>9
  <2>2. ASSUME NEW i \in DOMAIN bulk.docs
        PROVE  applied'[i] = IF i \in call.next .. q /\ Good(bulk, i)
                               THEN 1 ELSE applied[i]
    BY <1>7, <1>8, <1>9, <1>10
  <2> QED
    BY <2>1, <2>2 DEF Served
<1>14. ran' \subseteq DOMAIN bulk.docs
  <2>1. \A i \in new : Place(i) \in DOMAIN bulk.docs
    BY <1>2, <1>4, <1>10 DEF Place
  <2>2. Ran \subseteq DOMAIN bulk.docs /\ ran \subseteq DOMAIN bulk.docs
    BY <1>1 DEF Ran, ServerTyped
  <2> QED
    BY <1>11, <2>1, <2>2
<1>15. ASSUME call.num # 0, NEW i \in call.next .. call.last
       PROVE  applied'[i] = 1 <=> i - call.next + 1 \in ran'
  <2>1. i \in DOMAIN bulk.docs
    BY <1>4
  <2>2. \A j \in new : Place(j) = Place(i) => j = i
    BY <1>2, <1>10 DEF Place
  <2>3. Place(i) \in ran' <=> applied[i] = 1 \/ i \in new
    BY <1>5, <1>11, <1>15, <2>2
  <2>4. applied'[i] = 1 <=> applied[i] = 1 \/ i \in new
    BY <1>7, <1>8, <1>9, <1>10, <2>1
  <2> QED
    BY <2>3, <2>4 DEF Place
<1>16. seen' \in Nat
  BY <1>1, <1>12 DEF ServerTyped
<1> QED
  BY <1>12, <1>13, <1>14, <1>15, <1>16

----------------------------------------------------------------------------
(***************************************************************************)
(* Attempts.                                                               *)
(***************************************************************************)
(* The driver adds labels to a reply and changes nothing else.             *)
Labelled(x, r) ==
  /\ r \in ReplyRecords /\ r.ok = x.ok /\ r.code = x.code
  /\ \A l \in Labels \ {"RetryableWrite"} : l \in r.labels <=> l \in x.labels
  /\ x.ok /\ x.code = "none" => r.labels = x.labels

(* What the driver makes of a reply.                                       *)
Handled(c, x) == IF c.loop.elig = "retryable_write"
                   THEN HandleWriteLabels(x, c.loop.server) ELSE x

(* Handling only adds labels.                                              *)
LEMMA HandledLabelled ==
  ASSUME NEW c, NEW x \in ReplyRecords
  PROVE  Labelled(x, Handled(c, x))
<1>1. Labelled(x, x)
  BY DEF Labelled
<1>2. CASE Handled(c, x) # x
  <2>1. /\ ~CheckOk(x)
        /\ Handled(c, x) = [x EXCEPT !.labels = @ \cup {"RetryableWrite"}]
    BY <1>2 DEF Handled, HandleWriteLabels, CheckOk
  <2>2. Handled(c, x) = [ok |-> x.ok, network |-> x.network, code |-> x.code,
                         labels |-> x.labels \cup {"RetryableWrite"}]
    BY <2>1 DEF ReplyRecords
  <2>3. "RetryableWrite" \in Labels
    BY DEF Labels
  <2>4. Handled(c, x) \in ReplyRecords
    BY <2>2, <2>3 DEF ReplyRecords
  <2> QED
    BY <2>1, <2>2, <2>4 DEF Labelled, CheckOk
<1> QED
  BY <1>1, <1>2

(* The call d after an attempt of c was answered a, with the reply r as    *)
(* the driver has labelled it.                                             *)
Attempted(c, d, a, r) ==
  /\ d.at \in {"retry", "merge"}
  /\ d.first = c.first /\ d.next = c.next /\ d.last = c.last
  /\ d.offset = c.offset /\ d.retryable = c.retryable /\ d.num = c.num
  /\ d.loop.elig = c.loop.elig /\ d.ret = r.ok /\ d.set = TRUE
  /\ IF c.set /\ "NoWrites" \in r.labels THEN d.kept = c.kept
       ELSE d.kept.reply = r /\ d.kept.n = a.n /\ d.kept.errors = a.errors
  /\ d.at = "retry" => IsRetryable(c.loop.elig, r)

(* The loop of a command stays one.                                        *)
LEMMA NextAttemptTyped ==
  ASSUME NEW loop \in Loops, NEW r
  PROVE  NextAttempt(loop, r) \in Loops /\ NextAttempt(loop, r).elig = loop.elig
<1> DEFINE a == IF IsOverload(r) THEN MaxAdaptiveRetries ELSE loop.allowed
           p == IF \/ loop.server \in Mongoses
                   \/ IsOverload(r) /\ OverloadRetargeting
                  THEN loop.deprioritized \cup {loop.server}
                  ELSE loop.deprioritized
<1>1. NextAttempt(loop, r) = [loop EXCEPT !.attempt = loop.attempt + 1,
                                !.allowed = a, !.deprioritized = p]
  BY DEF NextAttempt
<1>2. a \in Nat /\ p \in SUBSET Servers
  BY RetryAssumption DEF Loops
<1> HIDE DEF a, p
<1>3. NextAttempt(loop, r) =
        [elig |-> loop.elig, attempt |-> loop.attempt + 1, allowed |-> a,
         server |-> loop.server, deprioritized |-> p]
  BY <1>1 DEF Loops
<1> QED
  BY <1>2, <1>3 DEF Loops

(* AfterAttempt makes such a call.                                         *)
LEMMA AfterAttemptFacts ==
  ASSUME TypeOK, call.at = "send", NEW a \in AnswersOf(bulk), AfterAttempt(a)
  PROVE  /\ call' \in CallsOf(bulk)
         /\ Attempted(call, call', a, Handled(call, a.reply))
         /\ UNCHANGED <<bulk, txn_number, result>>
<1> DEFINE r == Handled(call, a.reply)
           k == IF Keeps(r) THEN [a EXCEPT !.reply = r] ELSE call.kept
           again == Retries(call.loop, r)
           l == IF again THEN NextAttempt(call.loop, r) ELSE call.loop
<1>1. call \in CallsOf(bulk) /\ call.loop \in Loops
  BY TypeParts DEF CallsOf
<1>2. /\ call' = [call EXCEPT !.ret = r.ok, !.set = TRUE, !.kept = k,
                    !.at = IF again THEN "retry" ELSE "merge", !.loop = l]
      /\ UNCHANGED <<bulk, txn_number, result>>
  BY DEF AfterAttempt, Handled
<1>3. r \in ReplyRecords
  BY HandledLabelled DEF AnswersOf, Labelled
<1>4. l \in Loops /\ l.elig = call.loop.elig
  BY <1>1, NextAttemptTyped
<1>5. [a EXCEPT !.reply = r] = [reply |-> r, n |-> a.n, errors |-> a.errors]
  BY DEF AnswersOf
<1>6. k \in AnswersOf(bulk)
  BY <1>1, <1>3, <1>5 DEF CallsOf, AnswersOf
<1>7. again => IsRetryable(call.loop.elig, r)
  BY DEF Retries
<1>8. IF call.set /\ "NoWrites" \in r.labels THEN k = call.kept
        ELSE k.reply = r /\ k.n = a.n /\ k.errors = a.errors
  BY <1>5 DEF Keeps
<1> HIDE DEF r, k, again, l
<1>9. call' = [at |-> IF again THEN "retry" ELSE "merge", first |-> call.first,
               next |-> call.next, last |-> call.last, offset |-> call.offset,
               retryable |-> call.retryable, num |-> call.num, loop |-> l,
               ret |-> r.ok, kept |-> k, set |-> TRUE]
  BY <1>1, <1>2 DEF CallsOf
<1>10. call' \in CallsOf(bulk)
  <2>1. (IF again THEN "retry" ELSE "merge") \in Places
    BY DEF Places
  <2>2. r.ok \in BOOLEAN
    BY <1>3 DEF ReplyRecords
  <2> QED
    BY <1>1, <1>4, <1>6, <1>9, <2>1, <2>2 DEF CallsOf
<1>11. Attempted(call, call', a, r)
  BY <1>4, <1>7, <1>8, <1>9 DEF Attempted
<1> QED
  BY <1>2, <1>10, <1>11 DEF r

(* An attempt leaves the call in order.                                    *)
LEMMA AttemptControl ==
  ASSUME NEW b \in Bulks, NEW c, NEW d, NEW a, NEW r, Attempted(c, d, a, r),
         c.at = "send", CallOk(b, c), OneBatchOk(b, c)
  PROVE  CallOk(b, d) /\ OneBatchOk(b, d)
<1>1. CallOk(b, d)
  BY DEF Attempted, CallOk, InBatch
<1>2. OneBatchOk(b, d)
  BY DEF Attempted, OneBatchOk, InBatch
<1> QED
  BY <1>1, <1>2

(* Operations outside of the batch are not touched.                        *)
Elsewhere(b, c, ap, u) ==
  \A i \in DOMAIN b.docs : i \notin c.next .. c.last => u[i] = ap[i]

(* Running a part of a batch keeps AppliedOk, unless a command without a   *)
(* number is sent again after it has run.                                  *)
LEMMA ServedApplied ==
  ASSUME NEW b \in Bulks, NEW c \in CallsOf(b), NEW d, NEW a, NEW r,
         Attempted(c, d, a, r), c.at = "send", CallOk(b, c),
         NEW ap, NEW s, NEW rn, AppliedOk(b, ap, s, rn, c), PartOk(b, ap, c),
         NEW m, StopsThere(b, c, m), NEW q \in (c.next - 1) .. m,
         NEW u, Served(b, c, ap, u, q), NEW ss, NEW rr,
         ss = IF c.num = 0 THEN s ELSE c.num,
         c.num # 0 => \A i \in c.next .. c.last : u[i] = 1 <=> i - c.next + 1 \in rr,
         c.num = 0 => d.at = "merge"
  PROVE  /\ AppliedOk(b, u, ss, rr, d) /\ PartOk(b, u, d)
         /\ Elsewhere(b, c, ap, u)
<1>1. /\ c.next \in Nat /\ c.last \in Nat /\ c.next >= 1 /\ c.num \in Nat
      /\ c.next .. c.last \subseteq DOMAIN b.docs /\ c.next <= c.last
      /\ m \in Nat /\ q \in Int /\ m <= c.last /\ q <= m
      /\ DOMAIN b.docs \subseteq Nat
  <2>1. c.next \in Nat /\ c.last \in Nat /\ c.next >= 1
        /\ c.next .. c.last \subseteq DOMAIN b.docs /\ DOMAIN b.docs \subseteq Nat
    BY CallNumbers
  <2>2. c.next <= c.last
    BY DEF CallOk, InBatch
  <2>3. m \in c.next .. c.last
    BY DEF StopsThere
  <2>4. c.num \in Nat
    BY DEF CallsOf
  <2> QED
    BY <2>1, <2>2, <2>3, <2>4
<1>2. \A i \in DOMAIN b.docs :
        u[i] = IF i \in c.next .. q /\ Good(b, i) THEN 1 ELSE ap[i]
  BY DEF Served
<1>3. Elsewhere(b, c, ap, u)
  BY <1>1, <1>2 DEF Elsewhere
<1>4. /\ d.next = c.next /\ d.last = c.last /\ d.num = c.num
      /\ d.at \in {"retry", "merge"}
  BY DEF Attempted
<1>5. ASSUME NEW i \in DOMAIN b.docs
      PROVE  u[i] \in {0, 1} /\ (u[i] = 1 => i <= d.last /\ Good(b, i))
  BY <1>1, <1>2, <1>4 DEF AppliedOk
<1>6. d.at = "retry" => \A i \in d.next .. d.last :
        u[i] = 1 <=> d.num # 0 /\ d.num = ss /\ i - d.next + 1 \in rr
  BY <1>4
<1>7. AppliedOk(b, u, ss, rr, d)
  BY <1>4, <1>5, <1>6 DEF AppliedOk
<1>8. ASSUME b.ordered, NEW i \in c.next .. c.last, u[i] = 1,
             NEW j \in c.next .. i
      PROVE  u[j] = 1
  <2>1. CASE ap[i] = 1
    <3>1. ap[j] = 1
      BY <1>8, <2>1 DEF PartOk, InBatch
    <3> QED
      BY <1>1, <1>2, <3>1
  <2>2. CASE ap[i] # 1
    <3>1. i \in c.next .. q /\ Good(b, i)
      BY <1>1, <1>2, <1>8, <2>2
    <3>2. j \in c.next .. q /\ Good(b, j)
      BY <1>1, <1>8, <3>1 DEF StopsThere
    <3> QED
      BY <1>1, <1>2, <3>2
  <2> QED
    BY <2>1, <2>2
<1>9. PartOk(b, u, d)
  BY <1>4, <1>8 DEF PartOk
<1> QED
  BY <1>3, <1>7, <1>9

(* A command that was not run is still to be run as before.                *)
LEMMA RefusedApplied ==
  ASSUME NEW b \in Bulks, NEW c, NEW d, NEW a, NEW r,
         Attempted(c, d, a, r), c.at = "send",
         NEW ap, NEW s, NEW rn, AppliedOk(b, ap, s, rn, c), PartOk(b, ap, c)
  PROVE  /\ AppliedOk(b, ap, s, rn, d) /\ PartOk(b, ap, d)
         /\ Elsewhere(b, c, ap, ap)
<1>1. AppliedOk(b, ap, s, rn, d)
  BY DEF Attempted, AppliedOk
<1>2. PartOk(b, ap, d)
  BY DEF Attempted, PartOk, InBatch
<1> QED
  BY <1>1, <1>2 DEF Elsewhere

(* Results are about other operations than those of the batch.             *)
LEMMA AttemptResult ==
  ASSUME NEW b \in Bulks, NEW c \in CallsOf(b), NEW d, NEW a, NEW r,
         Attempted(c, d, a, r), c.at = "send", CallOk(b, c),
         NEW ap, NEW u, Elsewhere(b, c, ap, u),
         NEW q, ResultOk(b, ap, c, q), OrderedOk(b, ap, c, q),
         NEW ss, NEW rr, AppliedOk(b, u, ss, rr, d), PartOk(b, u, d)
  PROVE  ResultOk(b, u, d, q) /\ OrderedOk(b, u, d, q)
<1>1. /\ c.next \in Nat /\ c.last \in Nat /\ c.next >= 1
      /\ c.next <= c.last /\ c.last <= Len(b.docs)
      /\ DOMAIN b.docs = 1 .. Len(b.docs) /\ Len(b.docs) \in Nat
  BY CallNumbers DEF CallOk, InBatch
<1>2. /\ d.next = c.next /\ d.last = c.last /\ d.at \in InBatch
      /\ c.at \in InBatch /\ d.at \in Going /\ c.at \in Going /\ d.at # "done"
      /\ c.at # "done"
  BY DEF Attempted, InBatch, Going
<1>3. \A i \in 1 .. (c.next - 1) : i \in DOMAIN b.docs /\ u[i] = ap[i]
  BY <1>1 DEF Elsewhere
<1>4. Counted(b, u, d) = Counted(b, ap, c)
  BY <1>1, <1>2, <1>3 DEF Counted
<1>5. Covered(b, c) = c.next - 1 /\ Covered(b, d) = c.next - 1
  BY <1>2 DEF Covered
<1>6. CountOk(b, u, d, q)
  BY <1>4 DEF ResultOk, CountOk
<1>7. ErrorsOk(b, d, q) /\ StopOk(q)
  BY <1>2 DEF ResultOk, ErrorsOk
<1>8. ~q.ok
  BY <1>2 DEF ResultOk, CleanOk
<1>9. Clean(b, q) => AllApplied(u, c.next - 1)
  BY <1>2, <1>3, <1>5 DEF ResultOk, CleanOk, AllApplied
<1>10. CleanOk(b, u, d, q)
  BY <1>2, <1>5, <1>8, <1>9 DEF CleanOk
<1>11. NamedOk(b, u, d, q)
  BY <1>3, <1>5 DEF ResultOk, NamedOk, Named
<1>12. ASSUME b.ordered, b.api # "bulk_operation" \/ OneBatch(b),
              NEW i \in DOMAIN b.docs, u[i] = 1, NEW j \in 1 .. i
       PROVE  u[j] = 1
  <2>1. Clean(b, q)
    BY <1>2, <1>12 DEF OrderedOk
  <2>2. CASE j < c.next
    BY <1>1, <1>9, <2>1, <2>2 DEF AllApplied
  <2>3. CASE ~(j < c.next)
    <3>1. i \in d.next .. d.last /\ j \in d.next .. i
      BY <1>1, <1>2, <1>12, <2>3 DEF AppliedOk
    <3> QED
      BY <1>2, <1>12, <3>1 DEF PartOk
  <2> QED
    BY <2>2, <2>3
<1>13. OrderedOk(b, u, d, q)
  BY <1>2, <1>12 DEF OrderedOk, AllApplied
<1> QED
  BY <1>6, <1>7, <1>10, <1>11, <1>13 DEF ResultOk

(* The answer to a batch that was run says what was applied of it.         *)
LEMMA WrittenKept ==
  ASSUME NEW b \in Bulks, NEW c \in CallsOf(b), NEW d, NEW a, NEW r,
         Attempted(c, d, a, r), Labelled(a.reply, r), a.reply \in WriteReplies,
         c.at = "send", CallOk(b, c),
         NEW ap, NEW s, NEW rn, AppliedOk(b, ap, s, rn, c), PartOk(b, ap, c),
         NEW m, StopsThere(b, c, m), NEW u, Served(b, c, ap, u, m),
         a.n = Cardinality({i \in c.next .. m : Good(b, i)}),
         a.errors = {i - c.next + 1 : i \in {i \in c.next .. m : ~Good(b, i)}}
  PROVE  KeptOk(b, u, d)
<1>1. /\ c.next \in Nat /\ c.last \in Nat /\ c.next >= 1 /\ c.next <= c.last
      /\ c.next .. c.last \subseteq DOMAIN b.docs
      /\ m \in c.next .. c.last /\ DOMAIN b.docs \subseteq Nat
  BY CallNumbers DEF StopsThere, CallOk, InBatch
<1>2. /\ d.next = c.next /\ d.last = c.last /\ d.at \in {"retry", "merge"}
      /\ d.ret = r.ok /\ d.set = TRUE
      /\ d.at = "retry" => IsRetryable(c.loop.elig, r)
  BY DEF Attempted
<1>3. \A i \in c.next .. c.last :
        u[i] = IF i \in c.next .. m /\ Good(b, i) THEN 1 ELSE ap[i]
  BY <1>1 DEF Served
<1>4. ASSUME NEW i \in c.next .. c.last
      PROVE  u[i] = 1 <=> i \in c.next .. m /\ Good(b, i)
  <2>1. CASE i \in c.next .. m
    <3>1. ap[i] = 1 => Good(b, i)
      BY <1>1 DEF AppliedOk
    <3> QED
      BY <1>3, <2>1, <3>1
  <2>2. CASE i \notin c.next .. m
    <3>1. b.ordered /\ ~Good(b, m) /\ m \in c.next .. i
      BY <1>1, <2>2 DEF StopsThere
    <3>2. ap[m] # 1
      BY <1>1, <3>1 DEF AppliedOk
    <3>3. ap[i] # 1
      BY <3>1, <3>2 DEF PartOk, InBatch
    <3> QED
      BY <1>3, <2>2, <3>3
  <2> QED
    BY <2>1, <2>2
<1>5. BatchApplied(u, d) = {i \in c.next .. m : Good(b, i)}
  BY <1>1, <1>2, <1>4 DEF BatchApplied
<1>6. a.reply.ok = TRUE /\ "NoWrites" \notin a.reply.labels
      /\ (a.reply.code = "none" => a.reply.labels = {})
  BY DEF WriteReplies, OkReply, Reply
<1>7. "NoWrites" \notin r.labels /\ r.ok = TRUE
      /\ (r.code = "none" => r.labels = {})
  BY <1>6 DEF Labelled, Labels
<1>8. d.kept.reply = r /\ d.kept.n = a.n /\ d.kept.errors = a.errors
  BY <1>7 DEF Attempted
<1>9. ASSUME NEW e \in d.kept.errors
      PROVE  /\ d.next - 1 + e \in d.next .. d.last
             /\ b.docs[d.next - 1 + e] = "bad"
  <2>1. PICK i \in c.next .. m : ~Good(b, i) /\ e = i - c.next + 1
    BY <1>8
  <2>2. d.next - 1 + e = i /\ i \in c.next .. c.last
    BY <1>1, <1>2, <2>1
  <2>3. b.docs[i] \in {"good", "bad", "wide", "large"} /\ b.docs[i] # "large"
    BY <1>1, <2>2, BulkFacts DEF CallOk, InBatch
  <2> QED
    BY <1>2, <2>1, <2>2, <2>3 DEF Good
<1>10. ASSUME NEW i \in d.next .. d.last
       PROVE  \/ u[i] = 1 \/ i - d.next + 1 \in d.kept.errors
              \/ b.ordered /\ \E e \in d.kept.errors : d.next - 1 + e < i
  <2>1. CASE i \in c.next .. m
    BY <1>2, <1>4, <1>8, <2>1
  <2>2. CASE i \notin c.next .. m
    <3>1. b.ordered /\ ~Good(b, m) /\ m < i
      BY <1>1, <1>2, <2>2 DEF StopsThere
    <3>2. m - c.next + 1 \in d.kept.errors
      BY <1>1, <1>8, <3>1
    <3>3. d.next - 1 + (m - c.next + 1) = m
      BY <1>1, <1>2
    <3> QED
      BY <3>1, <3>2, <3>3
  <2> QED
    BY <2>1, <2>2
<1>11. Complete(b, u, d)
  BY <1>5, <1>8, <1>10 DEF Complete
<1>12. d.at = "retry" => r.code # "none"
  BY <1>2, <1>7 DEF IsRetryable, WriteErrorType, ReadErrorIsRetryable,
                    IsOverload, CheckOk
<1> QED
  BY <1>2, <1>7, <1>8, <1>9, <1>11, <1>12 DEF KeptOk

(* Another answer is kept if something may have been written.              *)
LEMMA FailedKept ==
  ASSUME NEW b \in Bulks, NEW c, NEW d, NEW a, NEW r,
         Attempted(c, d, a, r), Labelled(a.reply, r), a.reply.ok = FALSE,
         a.n = 0, a.errors = {}, c.at = "send",
         NEW ap, KeptOk(b, ap, c), NEW u,
         u = ap \/ "NoWrites" \notin a.reply.labels
  PROVE  KeptOk(b, u, d)
<1>1. /\ d.next = c.next /\ d.last = c.last /\ d.at \in {"retry", "merge"}
      /\ d.ret = FALSE /\ d.set = TRUE
  BY DEF Attempted, Labelled
<1>2. CASE c.set /\ "NoWrites" \in r.labels
  <2>1. d.kept = c.kept /\ u = ap
    BY <1>2 DEF Attempted, Labelled, Labels
  <2>2. BatchApplied(u, d) = BatchApplied(ap, c)
    BY <1>1, <2>1 DEF BatchApplied
  <2>3. c.kept.reply.ok => Complete(b, ap, c)
    BY <1>2 DEF KeptOk, InBatch
  <2>4. c.kept.reply.ok => Complete(b, u, d)
    BY <1>1, <2>1, <2>2, <2>3 DEF Complete
  <2> QED
    BY <1>1, <1>2, <2>1, <2>4 DEF KeptOk, InBatch
<1>3. CASE ~(c.set /\ "NoWrites" \in r.labels)
  <2>1. d.kept.reply.ok = FALSE /\ d.kept.n = 0 /\ d.kept.errors = {}
    BY <1>3 DEF Attempted, Labelled
  <2> QED
    BY <1>1, <2>1 DEF KeptOk
<1> QED
  BY <1>2, <1>3

(* The streams after an attempt are to the same servers.                   *)
SameStreams(w, v) ==
  /\ v \in StreamRecords
  /\ v.used.server = w.used.server /\ v.begun.server = w.begun.server

(* An attempt that keeps each part of the invariant keeps the invariant.   *)
LEMMA AttemptStep ==
  ASSUME IInv, call.at = "send", NEW a \in AnswersOf(bulk), AfterAttempt(a),
         ServerTyped(bulk, applied', seen', ran', txn_number),
         seen' \in {seen, call.num},
         AppliedOk(bulk, applied', seen', ran', call'),
         PartOk(bulk, applied', call'), KeptOk(bulk, applied', call'),
         Elsewhere(bulk, call, applied, applied'), SameStreams(stream, stream')
  PROVE  IInv'
<1>1. /\ TypeOK /\ CallOk(bulk, call) /\ OneBatchOk(bulk, call)
      /\ NumbersOk(seen, txn_number, call) /\ StreamOk(call, stream)
      /\ ResultOk(bulk, applied, call, result)
      /\ OrderedOk(bulk, applied, call, result)
  BY DEF IInv
<1>2. bulk \in Bulks /\ call \in CallsOf(bulk) /\ result \in ResultsOf(bulk)
  BY <1>1, TypeParts
<1>3. /\ call' \in CallsOf(bulk)
      /\ Attempted(call, call', a, Handled(call, a.reply))
      /\ bulk' = bulk /\ txn_number' = txn_number /\ result' = result
  BY <1>1, AfterAttemptFacts
<1>4. CallOk(bulk, call') /\ OneBatchOk(bulk, call')
  BY <1>1, <1>2, <1>3, AttemptControl
<1>5. NumbersOk(seen', txn_number, call')
  BY <1>1, <1>3 DEF NumbersOk, Attempted
<1>6. ResultOk(bulk, applied', call', result) /\ OrderedOk(bulk, applied', call', result)
  BY <1>1, <1>2, <1>3, AttemptResult
<1>7. StreamOk(call', stream')
  BY <1>1, <1>3 DEF StreamOk, Attempted, SameStreams, InBatch
<1>8. TypeOK'
  BY <1>2, <1>3, TypePartsNext DEF SameStreams
<1> QED
  BY <1>3, <1>4, <1>5, <1>6, <1>7, <1>8 DEF IInv

(* Closing a connection.                                                   *)
LEMMA CloseFacts ==
  ASSUME stream \in StreamRecords, Close \/ UNCHANGED stream
  PROVE  SameStreams(stream, stream')
<1>1. CASE Close
  <2> DEFINE o == stream.begun.ok /\ stream.begun.server # stream.used.server
  <2>1. o \in BOOLEAN
    BY DEF StreamRecords
  <2>2. stream' = [stream EXCEPT !.used.ok = FALSE, !.begun.ok = o]
    BY <1>1 DEF Close
  <2> HIDE DEF o
  <2>3. stream' = [begun |-> [server |-> stream.begun.server, ok |-> o],
                   used |-> [server |-> stream.used.server, ok |-> FALSE],
                   fresh |-> stream.fresh, retry |-> stream.retry]
    BY <2>2 DEF StreamRecords
  <2> QED
    BY <2>1, <2>3 DEF SameStreams, StreamRecords
<1>2. CASE UNCHANGED stream
  BY <1>2 DEF SameStreams
<1> QED
  BY <1>1, <1>2

(* The answers of a server are answers.                                    *)
LEMMA AnswerTyped ==
  ASSUME NEW b \in Bulks,
         NEW x \in WriteReplies \cup Refusals \cup Interruptions \cup {NetworkError}
  PROVE  x \in ReplyRecords /\ Answer(x, 0, {}) \in AnswersOf(b)
<1>1. \A o, m \in BOOLEAN, c \in Codes, l \in SUBSET Labels :
        Reply(o, m, c, l) \in ReplyRecords
  BY DEF Reply, ReplyRecords
<1>2. /\ {"none", "ShutdownInProgress", "WriteConcernFailed", "NotPrimary",
         "other"} \subseteq Codes
      /\ {"RetryableWrite"} \in SUBSET Labels /\ {} \in SUBSET Labels
      /\ {"SystemOverloaded", "Retryable", "NoWrites"} \in SUBSET Labels
      /\ {"RetryableWrite", "NoWrites"} \in SUBSET Labels
  BY DEF Codes, RetryableCodes, Labels
<1>3. ASSUME x \in WriteReplies \cup {NetworkError} PROVE x \in ReplyRecords
  <2>1. /\ Reply(TRUE, FALSE, "none", {}) \in ReplyRecords
        /\ Reply(FALSE, TRUE, "none", {}) \in ReplyRecords
        /\ Reply(TRUE, FALSE, "ShutdownInProgress", {"RetryableWrite"}) \in ReplyRecords
        /\ Reply(TRUE, FALSE, "WriteConcernFailed", {}) \in ReplyRecords
    BY <1>1, <1>2, Zenon
  <2> QED
    BY <1>3, <2>1 DEF WriteReplies, NetworkError, OkReply
<1>4. ASSUME x \in Refusals PROVE x \in ReplyRecords
  <2>1. /\ Reply(FALSE, FALSE, "other", {"SystemOverloaded", "Retryable", "NoWrites"})
             \in ReplyRecords
        /\ Reply(FALSE, FALSE, "NotPrimary", {"RetryableWrite", "NoWrites"})
             \in ReplyRecords
        /\ Reply(FALSE, FALSE, "other", {}) \in ReplyRecords
    BY <1>1, <1>2, Zenon
  <2> QED
    BY <1>4, <2>1 DEF Refusals
<1>5. ASSUME x \in Interruptions PROVE x \in ReplyRecords
  <2>1. /\ Reply(FALSE, FALSE, "NotPrimary", {"RetryableWrite"}) \in ReplyRecords
        /\ Reply(FALSE, FALSE, "ShutdownInProgress", {"RetryableWrite"})
             \in ReplyRecords
    BY <1>1, <1>2, Zenon
  <2> QED
    BY <1>5, <2>1 DEF Interruptions
<1>6. x \in ReplyRecords
  BY <1>3, <1>4, <1>5
<1> QED
  BY <1>6 DEF Answer, AnswersOf

(* A command that is not run.                                              *)
LEMMA NotRun ==
  ASSUME IInv, call.at = "send", NEW x \in Refusals \cup {NetworkError},
         AfterAttempt(Answer(x, 0, {})), UNCHANGED serverVars,
         Close \/ UNCHANGED stream
  PROVE  IInv'
<1> DEFINE a == Answer(x, 0, {})
<1>1. /\ TypeOK /\ AppliedOk(bulk, applied, seen, ran, call)
      /\ PartOk(bulk, applied, call) /\ KeptOk(bulk, applied, call)
  BY DEF IInv
<1>2. /\ bulk \in Bulks /\ stream \in StreamRecords
      /\ ServerTyped(bulk, applied, seen, ran, txn_number)
  BY <1>1, TypeParts
<1>3. a \in AnswersOf(bulk) /\ x \in ReplyRecords
  BY <1>2, AnswerTyped
<1>4. a.reply = x /\ a.n = 0 /\ a.errors = {}
  BY DEF Answer
<1>5. Attempted(call, call', a, Handled(call, a.reply))
  BY <1>1, <1>3, AfterAttemptFacts
<1>6. applied' = applied /\ seen' = seen /\ ran' = ran
  BY DEF serverVars
<1>7. AppliedOk(bulk, applied, seen, ran, call') /\ PartOk(bulk, applied, call')
      /\ Elsewhere(bulk, call, applied, applied)
  BY <1>1, <1>2, <1>5, RefusedApplied
<1>8. x.ok = FALSE
  BY DEF Refusals, NetworkError, Reply
<1>9. Labelled(a.reply, Handled(call, a.reply))
  BY <1>3, <1>4, HandledLabelled
<1>10. SameStreams(stream, stream')
  BY <1>2, CloseFacts
<1> HIDE DEF a
<1>11. KeptOk(bulk, applied, call')
  BY <1>1, <1>2, <1>4, <1>5, <1>8, <1>9, FailedKept
<1>12. AfterAttempt(a)
  BY DEF a
<1> QED
  BY <1>2, <1>3, <1>6, <1>7, <1>10, <1>11, <1>12, AttemptStep

(* A batch that runs up to q keeps what is known of the operations.        *)
LEMMA RunBatch ==
  ASSUME IInv, call.at = "send", NEW q \in (call.next - 1) .. StopAt,
         Process(q), NEW a \in AnswersOf(bulk), AfterAttempt(a),
         "SystemOverloaded" \notin a.reply.labels
  PROVE  /\ ServerTyped(bulk, applied', seen', ran', txn_number)
         /\ seen' \in {seen, call.num}
         /\ AppliedOk(bulk, applied', seen', ran', call')
         /\ PartOk(bulk, applied', call')
         /\ Elsewhere(bulk, call, applied, applied')
<1> DEFINE r == Handled(call, a.reply)
<1>1. /\ TypeOK /\ AppliedOk(bulk, applied, seen, ran, call)
      /\ PartOk(bulk, applied, call) /\ CallOk(bulk, call)
  BY DEF IInv
<1>2. /\ bulk \in Bulks /\ call \in CallsOf(bulk)
      /\ ServerTyped(bulk, applied, seen, ran, txn_number)
  BY <1>1, TypeParts
<1>3. Attempted(call, call', a, r)
  BY <1>1, AfterAttemptFacts
<1>4. Labelled(a.reply, r)
  BY HandledLabelled DEF AnswersOf
<1>5. /\ Served(bulk, call, applied, applied', q)
      /\ seen' \in Nat /\ ran' \subseteq DOMAIN bulk.docs
      /\ seen' = IF call.num = 0 THEN seen ELSE call.num
      /\ call.num # 0 => \A i \in call.next .. call.last :
           applied'[i] = 1 <=> i - call.next + 1 \in ran'
  BY <1>1, ProcessFacts
<1>6. StopsThere(bulk, call, StopAt)
  BY <1>1, StopAtFacts
<1> HIDE DEF r
<1>7. call.num = 0 => call'.at = "merge"
  <2>1. SUFFICES ASSUME call.num = 0 PROVE ~IsRetryable(call.loop.elig, r)
    BY <1>3 DEF Attempted
  <2>2. call.loop.elig \in {"overload_only", "none"}
    BY <1>1, <2>1 DEF CallOk
  <2>3. "SystemOverloaded" \notin r.labels
    BY <1>4 DEF Labelled, Labels
  <2> QED
    BY <2>2, <2>3 DEF IsRetryable, IsOverload
<1>8. /\ AppliedOk(bulk, applied', seen', ran', call')
      /\ PartOk(bulk, applied', call') /\ Elsewhere(bulk, call, applied, applied')
  BY <1>1, <1>2, <1>3, <1>5, <1>6, <1>7, ServedApplied
<1> QED
  BY <1>2, <1>5, <1>8 DEF ServerTyped, Served

(* A batch of which a part was run, without an answer.                     *)
LEMMA PartlyRun ==
  ASSUME IInv, call.at = "send", NEW x \in Interruptions \cup {NetworkError},
         NEW q \in (call.next - 1) .. StopAt, Process(q),
         AfterAttempt(Answer(x, 0, {})), Close \/ UNCHANGED stream
  PROVE  IInv'
<1> DEFINE a == Answer(x, 0, {})
<1>1. TypeOK /\ KeptOk(bulk, applied, call)
  BY DEF IInv
<1>2. bulk \in Bulks /\ stream \in StreamRecords
  BY <1>1, TypeParts
<1>3. a \in AnswersOf(bulk) /\ x \in ReplyRecords
  BY <1>2, AnswerTyped
<1>4. a.reply = x /\ a.n = 0 /\ a.errors = {}
  BY DEF Answer
<1>5. Attempted(call, call', a, Handled(call, a.reply))
  BY <1>1, <1>3, AfterAttemptFacts
<1>6. /\ x.ok = FALSE
      /\ "NoWrites" \notin x.labels /\ "SystemOverloaded" \notin x.labels
  BY DEF Interruptions, NetworkError, Reply
<1>7. Labelled(a.reply, Handled(call, a.reply))
  BY <1>3, <1>4, HandledLabelled
<1>8. SameStreams(stream, stream')
  BY <1>2, CloseFacts
<1> HIDE DEF a
<1>9. AfterAttempt(a)
  BY DEF a
<1>10. KeptOk(bulk, applied', call')
  BY <1>1, <1>2, <1>4, <1>5, <1>6, <1>7, FailedKept
<1> QED
  BY <1>3, <1>4, <1>6, <1>8, <1>9, <1>10, RunBatch, AttemptStep

(* A batch that was run and answered.                                      *)
LEMMA Run ==
  ASSUME IInv, call.at = "send", NEW x \in WriteReplies, Process(StopAt),
         AfterAttempt(Written(x)), Close \/ UNCHANGED stream
  PROVE  IInv'
<1> DEFINE a == Written(x)
           P == {i \in call.next .. StopAt : Good(bulk, i)}
           F == {i \in call.next .. StopAt : ~Good(bulk, i)}
<1>1. /\ TypeOK /\ CallOk(bulk, call) /\ PartOk(bulk, applied, call)
      /\ AppliedOk(bulk, applied, seen, ran, call)
  BY DEF IInv
<1>2. bulk \in Bulks /\ stream \in StreamRecords /\ call \in CallsOf(bulk)
  BY <1>1, TypeParts
<1>3. StopsThere(bulk, call, StopAt)
  BY <1>1, StopAtFacts
<1>4. /\ call.next \in Nat /\ call.last \in Nat /\ call.next >= 1
      /\ DOMAIN bulk.docs = 1 .. Len(bulk.docs) /\ Len(bulk.docs) \in Nat
      /\ call.last <= Len(bulk.docs) /\ StopAt \in call.next .. call.last
  BY <1>2, <1>3, CallNumbers DEF StopsThere
<1>5. \A i \in call.next .. StopAt : Passes(i) <=> Good(bulk, i)
  BY <1>1, <1>4, PassesGood
<1>6. {i \in call.next .. StopAt : Passes(i)} = P
  BY <1>5
<1>7. a = Answer(x, Cardinality(P), {Place(i) : i \in (call.next .. StopAt) \ P})
  BY <1>6 DEF Written
<1>8. (call.next .. StopAt) \ P = F
  OBVIOUS
<1>9. /\ a.reply = x /\ a.n = Cardinality(P)
      /\ a.errors = {i - call.next + 1 : i \in F}
  BY <1>7, <1>8 DEF Answer, Place
<1>10. IsFiniteSet(P) /\ Cardinality(P) \in Nat
  <2>1. call.next \in Int /\ StopAt \in Int
    BY <1>4
  <2>2. IsFiniteSet(call.next .. StopAt)
    BY <2>1, FS_Interval
  <2> QED
    BY <2>2, FS_Subset, FS_CardinalityType
<1>11. \A i \in F : i - call.next + 1 \in DOMAIN bulk.docs
  BY <1>4
<1>12. x \in ReplyRecords
  BY <1>2, AnswerTyped
<1>13. a = [reply |-> x, n |-> Cardinality(P), errors |-> a.errors]
  BY <1>7 DEF Answer
<1>14. a.errors \in SUBSET DOMAIN bulk.docs
  BY <1>9, <1>11
<1> HIDE DEF a, P, F
<1>15. a \in AnswersOf(bulk)
  BY <1>10, <1>12, <1>13, <1>14 DEF AnswersOf
<1>16. AfterAttempt(a)
  BY DEF a
<1>17. Attempted(call, call', a, Handled(call, a.reply))
  BY <1>1, <1>15, <1>16, AfterAttemptFacts
<1>18. Labelled(a.reply, Handled(call, a.reply))
  BY <1>9, <1>12, HandledLabelled
<1>19. StopAt \in (call.next - 1) .. StopAt
  BY <1>4
<1>20. "SystemOverloaded" \notin a.reply.labels
  BY <1>9 DEF WriteReplies, OkReply, Reply
<1>21. Served(bulk, call, applied, applied', StopAt)
  BY <1>1, <1>19, ProcessFacts
<1>22. KeptOk(bulk, applied', call')
  <2>1. /\ a.n = Cardinality({i \in call.next .. StopAt : Good(bulk, i)})
        /\ a.errors = {i - call.next + 1 :
                         i \in {i \in call.next .. StopAt : ~Good(bulk, i)}}
        /\ a.reply \in WriteReplies
    BY <1>9 DEF P, F
  <2> QED
    BY <1>1, <1>2, <1>3, <1>17, <1>18, <1>21, <2>1, WrittenKept
<1>23. SameStreams(stream, stream')
  BY <1>2, CloseFacts
<1> QED
  BY <1>15, <1>16, <1>19, <1>20, <1>22, <1>23, RunBatch, AttemptStep

(* The attempts of a batch.                                                *)
LEMMA Attempts ==
  ASSUME IInv,
         Answered \/ Refused \/ Interrupted \/ ConnectionFails \/ SendOverClosed
  PROVE  IInv'
<1>1. CASE Answered
  <2>1. call.at = "send" /\ Process(StopAt)
    BY <1>1 DEF Answered
  <2>2. PICK x \in WriteReplies :
          AfterAttempt(Written(x)) /\ (Close \/ UNCHANGED stream)
    BY <1>1 DEF Answered
  <2> QED
    BY <2>1, <2>2, Run
<1>2. CASE Refused
  <2>1. call.at = "send" /\ UNCHANGED serverVars /\ UNCHANGED stream
    BY <1>2 DEF Refused
  <2>2. PICK x \in Refusals : AfterAttempt(Answer(x, 0, {}))
    BY <1>2 DEF Refused
  <2> QED
    BY <2>1, <2>2, NotRun
<1>3. CASE Interrupted
  <2>1. call.at = "send"
    BY <1>3 DEF Interrupted
  <2>2. PICK q \in (call.next - 1) .. StopAt : Process(q)
    BY <1>3 DEF Interrupted
  <2>3. PICK x \in Interruptions :
          AfterAttempt(Answer(x, 0, {})) /\ (Close \/ UNCHANGED stream)
    BY <1>3 DEF Interrupted
  <2> QED
    BY <2>1, <2>2, <2>3, PartlyRun
<1>4. CASE ConnectionFails
  <2>1. call.at = "send" /\ AfterAttempt(Answer(NetworkError, 0, {})) /\ Close
    BY <1>4 DEF ConnectionFails
  <2>2. PICK q \in (call.next - 1) .. StopAt : Process(q)
    BY <1>4 DEF ConnectionFails
  <2>3. NetworkError \in Interruptions \cup {NetworkError}
    OBVIOUS
  <2> QED
    BY <2>1, <2>2, <2>3, PartlyRun
<1>5. CASE SendOverClosed
  <2>1. /\ call.at = "send" /\ AfterAttempt(Answer(NetworkError, 0, {})) /\ Close
        /\ UNCHANGED serverVars
    BY <1>5 DEF SendOverClosed
  <2>2. NetworkError \in Refusals \cup {NetworkError}
    OBVIOUS
  <2> QED
    BY <2>1, <2>2, NotRun
<1> QED
  BY <1>1, <1>2, <1>3, <1>4, <1>5

----------------------------------------------------------------------------
(***************************************************************************)
(* The steps between attempts.                                             *)
(***************************************************************************)
(* The operations counted are finitely many.                               *)
LEMMA CountedFinite ==
  ASSUME NEW b \in Bulks, NEW ap, NEW c
  PROVE  /\ IsFiniteSet(Counted(b, ap, c))
         /\ Cardinality(Counted(b, ap, c)) \in Nat
<1>1. 1 \in Int /\ Len(b.docs) \in Int /\ DOMAIN b.docs = 1 .. Len(b.docs)
  BY BulkFacts
<1>2. IsFiniteSet(DOMAIN b.docs)
  BY <1>1, FS_Interval
<1>3. Counted(b, ap, c) \subseteq DOMAIN b.docs
  BY DEF Counted
<1> QED
  BY <1>2, <1>3, FS_Subset, FS_CardinalityType

(* Outside of a batch there is nothing to say about one.                   *)
LEMMA NoBatch ==
  ASSUME NEW b, NEW c, NEW d, NEW ap, NEW s, NEW rn,
         AppliedOk(b, ap, s, rn, c), d.at \notin InBatch, d.last = c.last
  PROVE  AppliedOk(b, ap, s, rn, d) /\ PartOk(b, ap, d) /\ KeptOk(b, ap, d)
<1>1. d.at \notin {"send", "retry", "merge"}
  BY DEF InBatch
<1>2. AppliedOk(b, ap, s, rn, d)
  BY <1>1 DEF AppliedOk
<1>3. PartOk(b, ap, d)
  BY DEF PartOk
<1>4. KeptOk(b, ap, d)
  BY <1>1 DEF KeptOk
<1> QED
  BY <1>2, <1>3, <1>4

(* The call goes to another place.                                         *)
GoesTo(c, d, v) ==
  /\ d.at = v /\ d.first = c.first /\ d.next = c.next /\ d.last = c.last
  /\ d.offset = c.offset /\ d.retryable = c.retryable /\ d.num = c.num
  /\ d.loop = c.loop /\ d.ret = c.ret /\ d.kept = c.kept /\ d.set = c.set

(* ... when only that is assigned.                                         *)
LEMMA GoesToFacts ==
  ASSUME NEW b, NEW c \in CallsOf(b), NEW v \in Places
  PROVE  /\ [c EXCEPT !.at = v] \in CallsOf(b)
         /\ GoesTo(c, [c EXCEPT !.at = v], v)
BY DEF CallsOf, GoesTo

(* An error ends the call, or the command.                                 *)
SameCounts(q, p) ==
  /\ p.n = q.n /\ p.errors = q.errors /\ p.ok = q.ok /\ p.wce = q.wce
  /\ p.must_stop = q.must_stop /\ (q.failed => p.failed)

(* The result after an error that cut the bulk short.                      *)
LEMMA CutShort ==
  ASSUME NEW b \in Bulks, NEW c \in CallsOf(b), NEW d, NEW v,
         v \in {"end", "return", "done"}, GoesTo(c, d, v), c.at # "done",
         NEW ap, NEW q \in ResultsOf(b), NEW p \in ResultsOf(b),
         SameCounts(q, p), p.cut, v # "done" => ~Clean(b, p),
         ResultOk(b, ap, c, q), OrderedOk(b, ap, c, q)
  PROVE  ResultOk(b, ap, d, p) /\ OrderedOk(b, ap, d, p)
<1>1. /\ d.at \in {"end", "return", "done"} /\ d.last = c.last
      /\ d.at \notin InBatch /\ d.at \notin Going
  BY DEF GoesTo, InBatch, Going
<1>2. Counted(b, ap, c) \subseteq Counted(b, ap, d)
  BY <1>1 DEF Counted
<1>3. Cardinality(Counted(b, ap, c)) <= Cardinality(Counted(b, ap, d))
  BY <1>2, CountedFinite, FS_Subset
<1>4. p.n <= Cardinality(Counted(b, ap, d))
  <2>1. q.n <= Cardinality(Counted(b, ap, c)) /\ q.n \in Nat
    BY DEF ResultOk, CountOk, ResultsOf
  <2> QED
    BY <1>3, <2>1, CountedFinite DEF SameCounts
<1>5. CountOk(b, ap, d, p)
  BY <1>4 DEF CountOk
<1>6. ErrorsOk(b, d, p)
  BY <1>1 DEF ErrorsOk, ResultOk, SameCounts
<1>7. StopOk(p)
  BY DEF StopOk, ResultOk, SameCounts
<1>8. ~p.ok
  BY DEF ResultOk, CleanOk, SameCounts
<1>9. CleanOk(b, ap, d, p)
  BY <1>8 DEF CleanOk, GoesTo
<1>10. NamedOk(b, ap, d, p)
  BY DEF NamedOk
<1>11. OrderedOk(b, ap, d, p)
  BY <1>1 DEF OrderedOk
<1> QED
  BY <1>5, <1>6, <1>7, <1>9, <1>10, <1>11 DEF ResultOk

(* The invariant after such an error.                                      *)
LEMMA CutShortStep ==
  ASSUME IInv, NEW v, v \in {"end", "return", "done"}, call.at # "done",
         call' = [call EXCEPT !.at = v],
         v = "end" => call.at = "batch" /\ bulk.api = "bulk_operation",
         result' \in ResultsOf(bulk), SameCounts(result, result'), result'.cut,
         v # "done" => ~Clean(bulk, result'),
         UNCHANGED <<bulk, serverVars, txn_number, stream>>
  PROVE  IInv'
<1>1. /\ TypeOK /\ CallOk(bulk, call) /\ OneBatchOk(bulk, call)
      /\ NumbersOk(seen, txn_number, call) /\ StreamOk(call, stream)
      /\ AppliedOk(bulk, applied, seen, ran, call)
      /\ ResultOk(bulk, applied, call, result)
      /\ OrderedOk(bulk, applied, call, result)
  BY DEF IInv
<1>2. bulk \in Bulks /\ call \in CallsOf(bulk) /\ result \in ResultsOf(bulk)
      /\ stream \in StreamRecords
      /\ ServerTyped(bulk, applied, seen, ran, txn_number)
  BY <1>1, TypeParts
<1>3. v \in Places
  BY DEF Places
<1>4. call' \in CallsOf(bulk) /\ GoesTo(call, call', v)
  BY <1>2, <1>3, GoesToFacts
<1>5. /\ applied' = applied /\ seen' = seen /\ ran' = ran /\ bulk' = bulk
      /\ txn_number' = txn_number /\ stream' = stream
  BY DEF serverVars
<1>6. ResultOk(bulk, applied, call', result') /\ OrderedOk(bulk, applied, call', result')
  BY <1>1, <1>2, <1>4, CutShort
<1>7. call'.at \notin InBatch
  BY <1>4 DEF GoesTo, InBatch
<1>8. /\ AppliedOk(bulk, applied, seen, ran, call') /\ PartOk(bulk, applied, call')
      /\ KeptOk(bulk, applied, call')
  BY <1>1, <1>4, <1>7, NoBatch DEF GoesTo
<1>9. CallOk(bulk, call')
  BY <1>1, <1>4, <1>7 DEF CallOk, GoesTo, InBatch
<1>10. OneBatchOk(bulk, call') /\ NumbersOk(seen, txn_number, call')
  BY <1>1, <1>4, <1>7 DEF OneBatchOk, NumbersOk, GoesTo
<1>11. StreamOk(call', stream)
  BY <1>1, <1>4, <1>7 DEF StreamOk, GoesTo
<1>12. TypeOK'
  BY <1>2, <1>4, <1>5, TypePartsNext
<1> QED
  BY <1>5, <1>6, <1>8, <1>9, <1>10, <1>11, <1>12 DEF IInv

(* The flags of an error.                                                  *)
LEMMA ErrorFacts ==
  ASSUME NEW b, NEW q \in ResultsOf(b), NEW p,
         p = [q EXCEPT !.error = TRUE, !.cut = TRUE]
  PROVE  /\ p \in ResultsOf(b) /\ SameCounts(q, p)
         /\ p.cut = TRUE /\ p.error = TRUE
<1>1. p = [failed |-> q.failed, must_stop |-> q.must_stop, n |-> q.n,
           errors |-> q.errors, wce |-> q.wce, error |-> TRUE,
           server_id |-> q.server_id, retry_server_id |-> q.retry_server_id,
           errorscount |-> q.errorscount, first_error |-> q.first_error,
           parsed |-> q.parsed, cut |-> TRUE, ok |-> q.ok,
           reported |-> q.reported]
  BY DEF ResultsOf
<1>2. p \in ResultsOf(b)
  BY <1>1 DEF ResultsOf
<1>3. SameCounts(q, p) /\ p.cut = TRUE /\ p.error = TRUE
  BY <1>1 DEF SameCounts
<1> QED
  BY <1>2, <1>3

(* Neither a stream nor another command.                                   *)
LEMMA SelectFailsStep == IInv /\ SelectFails => IInv'
<1> SUFFICES ASSUME IInv, SelectFails PROVE IInv'
  OBVIOUS
<1>1. result \in ResultsOf(bulk)
  BY TypeParts DEF IInv
<1>2. result' \in ResultsOf(bulk) /\ SameCounts(result, result') /\ result'.cut
  BY <1>1, ErrorFacts DEF SelectFails
<1>3. /\ call.at # "done" /\ call' = [call EXCEPT !.at = "done"]
      /\ UNCHANGED <<bulk, serverVars, txn_number, stream>>
  BY DEF SelectFails
<1> QED
  BY <1>2, <1>3, CutShortStep

(* A batch of mongoc_bulkwrite_execute that failed.                        *)
LEMMA ApplyFailedStep == IInv /\ ApplyFailed => IInv'
<1> SUFFICES ASSUME IInv, ApplyFailed PROVE IInv'
  OBVIOUS
<1>1. result \in ResultsOf(bulk)
  BY TypeParts DEF IInv
<1>2. /\ result' \in ResultsOf(bulk) /\ SameCounts(result, result') /\ result'.cut
      /\ result'.error = TRUE
  BY <1>1, ErrorFacts DEF ApplyFailed
<1>3. ~Clean(bulk, result')
  BY <1>2 DEF Clean, ApplyFailed, Legacy
<1>4. /\ call.at # "done" /\ call' = [call EXCEPT !.at = "return"]
      /\ UNCHANGED <<bulk, serverVars, txn_number, stream>>
  BY DEF ApplyFailed
<1> QED
  BY <1>2, <1>3, <1>4, CutShortStep

(* An operation that cannot be sent.                                       *)
LEMMA TooLargeStep == IInv /\ TooLarge => IInv'
<1> SUFFICES ASSUME IInv, TooLarge PROVE IInv'
  OBVIOUS
<1> DEFINE q == result
           v == IF Legacy THEN "end" ELSE "return"
<1>1. q \in ResultsOf(bulk)
  BY TypeParts DEF IInv
<1>2. result' = [failed |-> TRUE, must_stop |-> q.must_stop, n |-> q.n,
           errors |-> q.errors, wce |-> q.wce, error |-> TRUE,
           server_id |-> q.server_id, retry_server_id |-> q.retry_server_id,
           errorscount |-> q.errorscount, first_error |-> q.first_error,
           parsed |-> q.parsed, cut |-> TRUE, ok |-> q.ok,
           reported |-> q.reported]
  BY <1>1 DEF ResultsOf, TooLarge
<1>3. result' \in ResultsOf(bulk)
  BY <1>1, <1>2 DEF ResultsOf
<1>4. SameCounts(result, result') /\ result'.cut /\ ~Clean(bulk, result')
  BY <1>2 DEF SameCounts, Clean
<1>5. /\ call.at = "batch" /\ call' = [call EXCEPT !.at = v]
      /\ UNCHANGED <<bulk, serverVars, txn_number, stream>>
  BY DEF TooLarge
<1>6. v \in {"end", "return", "done"} /\ (v = "end" => bulk.api = "bulk_operation")
  BY DEF Legacy
<1> HIDE DEF v
<1> QED
  BY <1>3, <1>4, <1>5, <1>6, CutShortStep

(* Steps that change neither operations nor result.                        *)
LEMMA QuietResult ==
  ASSUME NEW b, NEW c, NEW d, NEW ap, NEW q,
         c.at \in Going, d.at \in Going, d.next = c.next, c.last <= d.last,
         Counted(b, ap, d) = Counted(b, ap, c),
         \A j \in q.errors : j \in Nat, c.last \in Nat, d.last \in Nat,
         ResultOk(b, ap, c, q), OrderedOk(b, ap, c, q)
  PROVE  ResultOk(b, ap, d, q) /\ OrderedOk(b, ap, d, q)
<1>1. Covered(b, c) = c.next - 1 /\ Covered(b, d) = c.next - 1
  BY DEF Covered
<1>2. c.at # "done" /\ d.at # "done"
  BY DEF Going, InBatch
<1>3. CountOk(b, ap, d, q)
  BY DEF ResultOk, CountOk
<1>4. ErrorsOk(b, d, q)
  BY DEF ResultOk, ErrorsOk
<1>5. CleanOk(b, ap, d, q)
  BY <1>1, <1>2 DEF ResultOk, CleanOk
<1>6. NamedOk(b, ap, d, q)
  BY <1>1 DEF ResultOk, NamedOk
<1>7. OrderedOk(b, ap, d, q)
  BY DEF OrderedOk
<1> QED
  BY <1>3, <1>4, <1>5, <1>6, <1>7 DEF ResultOk

(* A stream is found.                                                      *)
LEMMA SelectStep == IInv /\ Select => IInv'
<1> SUFFICES ASSUME IInv, Select PROVE IInv'
  OBVIOUS
<1>1. /\ TypeOK /\ CallOk(bulk, call) /\ OneBatchOk(bulk, call)
      /\ NumbersOk(seen, txn_number, call) /\ StreamOk(call, stream)
      /\ AppliedOk(bulk, applied, seen, ran, call)
      /\ ResultOk(bulk, applied, call, result)
      /\ OrderedOk(bulk, applied, call, result)
  BY DEF IInv
<1>2. bulk \in Bulks /\ call \in CallsOf(bulk) /\ result \in ResultsOf(bulk)
      /\ stream \in StreamRecords
      /\ ServerTyped(bulk, applied, seen, ran, txn_number)
  BY <1>1, TypeParts
<1>3. PICK s \in IF result.server_id # 0 THEN {result.server_id} ELSE Servers,
           second \in BOOLEAN :
        /\ call' = [call EXCEPT !.at = "batch", !.ret = FALSE,
                      !.retryable = MayRetry(call.first) /\ ~second]
        /\ stream' = [NewStreams EXCEPT !.begun = [server |-> s, ok |-> TRUE],
                                        !.used = [server |-> s, ok |-> TRUE]]
  BY DEF Select
<1>4. /\ applied' = applied /\ seen' = seen /\ ran' = ran /\ bulk' = bulk
      /\ txn_number' = txn_number /\ result' = result /\ call.at = "select"
  BY DEF Select, serverVars
<1>5. s \in Servers /\ s # 0
  BY <1>2, <1>3, BulkAssumption DEF ResultsOf
<1> DEFINE may == MayRetry(call.first) /\ ~second
<1>6. may \in BOOLEAN
  BY DEF MayRetry
<1> HIDE DEF may
<1>7. call' = [at |-> "batch", first |-> call.first, next |-> call.next,
               last |-> call.last, offset |-> call.offset, retryable |-> may,
               num |-> call.num, loop |-> call.loop, ret |-> FALSE,
               kept |-> call.kept, set |-> call.set]
  BY <1>2, <1>3 DEF CallsOf, may
<1>8. stream' = [begun |-> [server |-> s, ok |-> TRUE],
                 used |-> [server |-> s, ok |-> TRUE], fresh |-> 0, retry |-> 0]
  BY <1>3 DEF NewStreams
<1>9. call' \in CallsOf(bulk)
  <2>1. "batch" \in Places
    BY DEF Places
  <2> QED
    BY <1>2, <1>6, <1>7, <2>1 DEF CallsOf
<1>10. stream' \in StreamRecords /\ StreamOk(call', stream')
  BY <1>5, <1>8 DEF StreamRecords, StreamOk
<1>11. call'.at \notin InBatch /\ call.at \notin InBatch
       /\ call.at \in Going /\ call'.at \in Going
  BY <1>4, <1>7 DEF InBatch, Going
<1>12. /\ AppliedOk(bulk, applied, seen, ran, call') /\ PartOk(bulk, applied, call')
       /\ KeptOk(bulk, applied, call')
  BY <1>1, <1>7, <1>11, NoBatch
<1>13. Counted(bulk, applied, call') = Counted(bulk, applied, call)
  BY <1>11 DEF Counted
<1>14. call.last \in Nat /\ \A j \in result.errors : j \in Nat
  BY <1>2, CallNumbers DEF ResultsOf
<1>15. ResultOk(bulk, applied, call', result) /\ OrderedOk(bulk, applied, call', result)
  BY <1>1, <1>7, <1>11, <1>13, <1>14, QuietResult
<1>16. CallOk(bulk, call')
  BY <1>1, <1>4, <1>7 DEF CallOk, InBatch
<1>17. OneBatchOk(bulk, call') /\ NumbersOk(seen, txn_number, call')
  BY <1>1, <1>4, <1>7 DEF OneBatchOk, NumbersOk, InBatch, CallOk
<1>18. TypeOK'
  BY <1>2, <1>4, <1>9, <1>10, TypePartsNext
<1> QED
  BY <1>4, <1>10, <1>12, <1>15, <1>16, <1>17, <1>18 DEF IInv

(* No operation of a batch that can be sent is too large for a message.    *)
LEMMA BatchSendable ==
  ASSUME bulk \in Bulks, NEW i \in DOMAIN bulk.docs, ~MeetsLarge(i)
  PROVE  \A k \in i .. BatchOf(bulk, i) : bulk.docs[k] # "large"
<1> DEFINE j == BatchOf(bulk, i)
<1>1. /\ j \in i .. LastOf(bulk, i) /\ Joins(bulk, i, j)
  BY BatchOfFacts DEF EndsBatch
<1>2. i \in Nat /\ LastOf(bulk, i) \in Nat
  BY LastOfFacts, BulkFacts
<1>3. BatchLast(i) = j
  BY SameLast
<1> HIDE DEF j
<1>4. i \in Examined(i) /\ (Legacy => i .. j \subseteq Examined(i))
  BY <1>1, <1>2, <1>3 DEF Examined
<1>5. ASSUME NEW k \in i .. j, bulk.docs[k] = "large" PROVE FALSE
  <2>1. k \notin Examined(i)
    BY <1>5 DEF MeetsLarge
  <2>2. k # i
    BY <1>4, <2>1
  <2>3. i # j
    BY <1>1, <1>2, <2>2
  <2> QED
    BY <1>1, <1>5, <2>3 DEF Joins
<1> QED
  BY <1>5 DEF j

(* A batch is cut off and sent for the first time.                         *)
LEMMA ShipOverStep ==
  ASSUME IInv, call.at = "batch", ~MeetsLarge(call.next), NEW s,
         s \in [server : Servers, ok : BOOLEAN], ShipOver(s),
         UNCHANGED <<bulk, serverVars>>
  PROVE  IInv'
<1>1. /\ TypeOK /\ CallOk(bulk, call) /\ OneBatchOk(bulk, call)
      /\ NumbersOk(seen, txn_number, call) /\ StreamOk(call, stream)
      /\ AppliedOk(bulk, applied, seen, ran, call)
      /\ ResultOk(bulk, applied, call, result)
      /\ OrderedOk(bulk, applied, call, result)
  BY DEF IInv
<1>2. bulk \in Bulks /\ call \in CallsOf(bulk) /\ result \in ResultsOf(bulk)
      /\ stream \in StreamRecords
      /\ ServerTyped(bulk, applied, seen, ran, txn_number)
  BY <1>1, TypeParts
<1>3. /\ applied' = applied /\ seen' = seen /\ ran' = ran /\ bulk' = bulk
      /\ result' = result
  BY DEF ShipOver, serverVars
<1>4. /\ call.next \in Nat /\ call.last \in Nat /\ call.first \in Nat
      /\ call.first \in DOMAIN bulk.docs
      /\ call.next >= 1 /\ DOMAIN bulk.docs = 1 .. Len(bulk.docs)
      /\ Len(bulk.docs) \in Nat /\ call.last <= Len(bulk.docs)
  BY <1>2, CallNumbers
<1>5. call.next <= LastOf(bulk, call.first) /\ call.first <= call.next
      /\ call.last < call.next
  BY <1>1 DEF CallOk
<1>6. LastOf(bulk, call.first) \in DOMAIN bulk.docs
  BY <1>2, <1>4, LastOfFacts
<1>7. call.next \in DOMAIN bulk.docs
  BY <1>4, <1>5, <1>6
<1>8. LastOf(bulk, call.next) = LastOf(bulk, call.first)
  BY <1>2, <1>4, <1>5, <1>7, LastOfSame
<1> DEFINE m == BatchOf(bulk, call.next)
           num == IF call.retryable THEN txn_number + 1 ELSE 0
           l == NewLoop(Eligibility, s.server)
<1>9. m \in call.next .. LastOf(bulk, call.first)
  BY <1>2, <1>7, <1>8, BatchOfFacts
<1>10. \A k \in call.next .. m : bulk.docs[k] # "large"
  BY <1>2, <1>7, BatchSendable
<1>11. l = [elig |-> Eligibility, attempt |-> 0,
            allowed |-> IF Eligibility = "overload_only" THEN 0 ELSE 1,
            server |-> s.server, deprioritized |-> {}]
  BY DEF NewLoop
<1>12. Eligibility \in Eligibilities
       /\ (IF call.retryable THEN Eligibility = "retryable_write"
                             ELSE Eligibility \in {"overload_only", "none"})
  BY DEF Eligibility, Eligibilities
<1>13. l \in Loops /\ l.elig = Eligibility
  BY <1>11, <1>12 DEF Loops
<1>14. txn_number' = IF call.retryable THEN txn_number + 1 ELSE txn_number
  BY DEF ShipOver, NextNumber
<1>15. call' = [call EXCEPT !.at = "send", !.last = m, !.num = num, !.loop = l,
                            !.set = FALSE]
  BY SameLast DEF ShipOver, NextNumber
<1>16. txn_number \in Nat /\ seen \in Nat /\ call.num \in Nat
  BY <1>2 DEF ServerTyped, CallsOf
<1>17. num \in Nat /\ (call.retryable <=> num # 0) /\ num <= txn_number'
       /\ (num # 0 => num # seen) /\ txn_number' \in Nat
       /\ txn_number <= txn_number'
  BY <1>1, <1>14, <1>16 DEF NumbersOk
<1> HIDE DEF m, num, l
<1>18. call' = [at |-> "send", first |-> call.first, next |-> call.next,
                last |-> m, offset |-> call.offset, retryable |-> call.retryable,
                num |-> num, loop |-> l, ret |-> call.ret,
                kept |-> call.kept, set |-> FALSE]
  BY <1>2, <1>15 DEF CallsOf
<1>19. m \in Nat /\ m <= Len(bulk.docs) /\ call.next <= m
  BY <1>4, <1>6, <1>9
<1>20. call' \in CallsOf(bulk)
  <2>1. "send" \in Places /\ m \in 0 .. Len(bulk.docs)
    BY <1>4, <1>19 DEF Places
  <2> QED
    BY <1>2, <1>13, <1>17, <1>18, <2>1 DEF CallsOf
<1>21. CallOk(bulk, call')
  <2>1. m <= LastOf(bulk, call.first)
    BY <1>4, <1>6, <1>9
  <2> QED
    BY <1>1, <1>10, <1>12, <1>13, <1>17, <1>18, <1>19, <2>1 DEF CallOk, InBatch
<1>22. OneBatchOk(bulk, call')
  <2>1. ASSUME bulk.api = "bulk_operation", OneBatch(bulk)
        PROVE  m = LastOf(bulk, call.first)
    <3>1. call.next = call.first /\ call.first \in bulk.starts
      BY <1>1, <2>1 DEF OneBatchOk, CallOk
    <3> QED
      BY <2>1, <3>1 DEF OneBatch, m
  <2> QED
    BY <1>18, <2>1 DEF OneBatchOk
<1>23. NumbersOk(seen, txn_number', call')
  BY <1>1, <1>16, <1>17, <1>18 DEF NumbersOk
<1>24. \A i \in DOMAIN bulk.docs : applied[i] = 1 => i < call.next
  BY <1>1, <1>4, <1>5 DEF AppliedOk
<1>25. \A i \in call.next .. m : applied[i] # 1
  BY <1>4, <1>19, <1>24
<1>26. AppliedOk(bulk, applied, seen, ran, call')
  <2>1. ASSUME NEW i \in DOMAIN bulk.docs
        PROVE  /\ applied[i] \in {0, 1}
               /\ applied[i] = 1 => i <= m /\ Good(bulk, i)
    BY <1>1, <1>4, <1>19, <1>24 DEF AppliedOk
  <2> QED
    BY <1>17, <1>18, <1>25, <2>1 DEF AppliedOk
<1>27. PartOk(bulk, applied, call')
  BY <1>18, <1>25 DEF PartOk
<1>28. KeptOk(bulk, applied, call')
  BY <1>18 DEF KeptOk
<1>29. Counted(bulk, applied, call') = Counted(bulk, applied, call)
  BY <1>18, <1>24 DEF Counted, InBatch
<1>30. \A j \in result.errors : j \in Nat
  BY <1>2, <1>4 DEF ResultsOf
<1>31. ResultOk(bulk, applied, call', result) /\ OrderedOk(bulk, applied, call', result)
  <2>1. call.at \in Going /\ call'.at \in Going
    BY <1>18 DEF Going, InBatch
  <2>2. call'.next = call.next /\ call'.last \in Nat /\ call.last <= call'.last
    BY <1>4, <1>5, <1>18, <1>19
  <2> QED
    BY <1>1, <1>4, <1>29, <1>30, <2>1, <2>2, QuietResult
<1>32. stream' = [begun |-> stream.begun, used |-> s, fresh |-> 0,
                  retry |-> stream.retry]
  BY <1>2 DEF ShipOver, StreamRecords
<1>33. s.server # 0
  BY BulkAssumption
<1>34. stream' \in StreamRecords /\ StreamOk(call', stream')
  BY <1>1, <1>2, <1>32, <1>33 DEF StreamRecords, StreamOk
<1>35. TypeOK'
  BY <1>2, <1>3, <1>17, <1>20, <1>34, TypePartsNext DEF ServerTyped
<1> QED
  BY <1>3, <1>21, <1>22, <1>23, <1>26, <1>27, <1>28, <1>31, <1>34, <1>35 DEF IInv

(* Before a batch, a stream may have to be fetched again.                  *)
LEMMA ShipStep == IInv /\ Ship => IInv'
<1> SUFFICES ASSUME IInv, Ship PROVE IInv'
  OBVIOUS
<1>1. /\ TypeOK /\ StreamOk(call, stream)
  BY DEF IInv
<1>2. stream \in StreamRecords /\ result \in ResultsOf(bulk)
  BY <1>1, TypeParts
<1>3. call.at = "batch" /\ ~MeetsLarge(call.next) /\ UNCHANGED <<bulk, serverVars>>
  BY DEF Ship
<1>4. stream.used \in [server : Servers, ok : BOOLEAN]
  BY <1>1, <1>2, <1>3 DEF StreamRecords, StreamOk
<1>5. CASE ShipOver(stream.used)
  BY <1>3, <1>4, <1>5, ShipOverStep
<1>6. CASE \E s \in Servers : ShipOver([server |-> s, ok |-> TRUE])
  <2>1. PICK s \in Servers : ShipOver([server |-> s, ok |-> TRUE])
    BY <1>6
  <2>2. [server |-> s, ok |-> TRUE] \in [server : Servers, ok : BOOLEAN]
    OBVIOUS
  <2> QED
    BY <1>3, <2>1, <2>2, ShipOverStep
<1>7. CASE /\ ~Legacy /\ call' = [call EXCEPT !.at = "return"]
           /\ result' = [result EXCEPT !.error = TRUE, !.cut = TRUE]
           /\ UNCHANGED <<stream, txn_number>>
  <2>1. /\ result' \in ResultsOf(bulk) /\ SameCounts(result, result')
        /\ result'.cut /\ result'.error = TRUE
    BY <1>2, <1>7, ErrorFacts
  <2>2. ~Clean(bulk, result')
    BY <1>7, <2>1 DEF Clean, Legacy
  <2>3. UNCHANGED <<bulk, serverVars, txn_number, stream>>
    BY <1>3, <1>7
  <2> QED
    BY <1>3, <1>7, <2>1, <2>2, <2>3, CutShortStep
<1> QED
  BY <1>5, <1>6, <1>7 DEF Ship

(* Another server for the next attempt, or none.                           *)
LEMMA RetrySelectStep == IInv /\ RetrySelect => IInv'
<1> SUFFICES ASSUME IInv, RetrySelect PROVE IInv'
  OBVIOUS
<1>1. /\ TypeOK /\ CallOk(bulk, call) /\ OneBatchOk(bulk, call)
      /\ NumbersOk(seen, txn_number, call) /\ StreamOk(call, stream)
      /\ AppliedOk(bulk, applied, seen, ran, call)
      /\ PartOk(bulk, applied, call) /\ KeptOk(bulk, applied, call)
      /\ ResultOk(bulk, applied, call, result)
      /\ OrderedOk(bulk, applied, call, result)
  BY DEF IInv
<1>2. bulk \in Bulks /\ call \in CallsOf(bulk) /\ result \in ResultsOf(bulk)
      /\ stream \in StreamRecords
      /\ ServerTyped(bulk, applied, seen, ran, txn_number)
  BY <1>1, TypeParts
<1>3. /\ applied' = applied /\ seen' = seen /\ ran' = ran /\ bulk' = bulk
      /\ result' = result /\ txn_number' = txn_number /\ call.at = "retry"
  BY DEF RetrySelect, serverVars
<1> DEFINE Same(v, l) ==
      call' = [at |-> v, first |-> call.first, next |-> call.next,
               last |-> call.last, offset |-> call.offset,
               retryable |-> call.retryable, num |-> call.num, loop |-> l,
               ret |-> call.ret, kept |-> call.kept, set |-> call.set]
<1>4. ASSUME NEW v \in {"send", "merge"}, NEW l \in Loops,
             l.elig = call.loop.elig, Same(v, l), stream' \in StreamRecords,
             stream'.used.server # 0, stream'.begun.server # 0
      PROVE  IInv'
  <2>1. call' \in CallsOf(bulk)
    <3>1. v \in Places
      BY DEF Places
    <3> QED
      BY <1>2, <1>4, <3>1 DEF CallsOf
  <2>2. CallOk(bulk, call')
    BY <1>1, <1>3, <1>4 DEF CallOk, InBatch
  <2>3. OneBatchOk(bulk, call') /\ NumbersOk(seen, txn_number, call')
    BY <1>1, <1>3, <1>4 DEF OneBatchOk, NumbersOk, InBatch
  <2>4. AppliedOk(bulk, applied, seen, ran, call')
    BY <1>1, <1>3, <1>4 DEF AppliedOk
  <2>5. PartOk(bulk, applied, call')
    BY <1>1, <1>3, <1>4 DEF PartOk, InBatch
  <2>6. KeptOk(bulk, applied, call')
    <3>1. call.set = TRUE
      BY <1>1, <1>3 DEF CallOk
    <3>2. Complete(bulk, applied, call') <=> Complete(bulk, applied, call)
      BY <1>4 DEF Complete, BatchApplied
    <3> QED
      BY <1>1, <1>3, <1>4, <3>1, <3>2 DEF KeptOk, InBatch
  <2>7. call.at \in InBatch /\ call'.at \in InBatch
        /\ call.at \in Going /\ call'.at \in Going
    BY <1>3, <1>4 DEF InBatch, Going
  <2>8. Counted(bulk, applied, call') = Counted(bulk, applied, call)
    BY <1>4, <2>7 DEF Counted
  <2>9. call.last \in Nat /\ \A j \in result.errors : j \in Nat
    BY <1>2, CallNumbers DEF ResultsOf
  <2>10. ResultOk(bulk, applied, call', result) /\ OrderedOk(bulk, applied, call', result)
    BY <1>1, <1>4, <2>7, <2>8, <2>9, QuietResult
  <2>11. StreamOk(call', stream')
    BY <1>4 DEF StreamOk
  <2>12. TypeOK'
    BY <1>2, <1>3, <1>4, <2>1, TypePartsNext
  <2> QED
    BY <1>3, <2>2, <2>3, <2>4, <2>5, <2>6, <2>10, <2>11, <2>12 DEF IInv
<1>5. stream.used.server # 0 /\ stream.begun.server # 0
  BY <1>1, <1>3 DEF StreamOk, InBatch
<1>6. CASE \E s \in Candidates(call.loop.deprioritized) :
             /\ stream' = [stream EXCEPT !.used = [server |-> s, ok |-> TRUE],
                                         !.fresh = s]
             /\ call' = [call EXCEPT !.at = "send", !.loop.server = s]
  <2>1. PICK s \in Candidates(call.loop.deprioritized) :
             /\ stream' = [stream EXCEPT !.used = [server |-> s, ok |-> TRUE],
                                         !.fresh = s]
             /\ call' = [call EXCEPT !.at = "send", !.loop.server = s]
    BY <1>6
  <2>2. s \in Servers /\ s # 0
    BY <2>1, BulkAssumption DEF Candidates
  <2> DEFINE l == [call.loop EXCEPT !.server = s]
  <2>3. l = [elig |-> call.loop.elig, attempt |-> call.loop.attempt,
             allowed |-> call.loop.allowed, server |-> s,
             deprioritized |-> call.loop.deprioritized]
    BY <1>2 DEF CallsOf, Loops
  <2>4. l \in Loops /\ l.elig = call.loop.elig
    BY <1>2, <2>2, <2>3 DEF CallsOf, Loops
  <2>5. call' = [call EXCEPT !.at = "send", !.loop = l]
    BY <1>2, <2>1 DEF CallsOf
  <2> HIDE DEF l
  <2>6. Same("send", l)
    BY <1>2, <2>5 DEF CallsOf
  <2>7. stream' = [begun |-> stream.begun, used |-> [server |-> s, ok |-> TRUE],
                   fresh |-> s, retry |-> stream.retry]
    BY <1>2, <2>1 DEF StreamRecords
  <2>8. stream' \in StreamRecords /\ stream'.used.server # 0
        /\ stream'.begun.server # 0
    BY <1>2, <1>5, <2>2, <2>7 DEF StreamRecords
  <2> QED
    BY <1>4, <2>4, <2>6, <2>8
<1>7. CASE /\ stream' = [stream EXCEPT
                           !.used.ok = @ /\ call.loop.attempt = 1, !.fresh = 0]
           /\ call' = [call EXCEPT !.at = "merge"]
  <2> DEFINE o == stream.used.ok /\ call.loop.attempt = 1
  <2>1. o \in BOOLEAN
    BY <1>2 DEF StreamRecords
  <2>2. stream' = [stream EXCEPT !.used.ok = o, !.fresh = 0]
    BY <1>7
  <2> HIDE DEF o
  <2>3. stream' = [begun |-> stream.begun,
                   used |-> [server |-> stream.used.server, ok |-> o],
                   fresh |-> 0, retry |-> stream.retry]
    BY <1>2, <2>2 DEF StreamRecords
  <2>4. stream' \in StreamRecords /\ stream'.used.server # 0
        /\ stream'.begun.server # 0
    BY <1>2, <1>5, <2>1, <2>3 DEF StreamRecords
  <2>5. Same("merge", call.loop) /\ call.loop \in Loops
    BY <1>2, <1>7 DEF CallsOf
  <2> QED
    BY <1>4, <2>4, <2>5
<1> QED
  BY <1>6, <1>7 DEF RetrySelect

(* What was applied of a batch is added to what was applied before.        *)
LEMMA BatchCount ==
  ASSUME NEW b \in Bulks, NEW c \in CallsOf(b), NEW d, c.at = "merge",
         CallOk(b, c), NEW ap, NEW s, NEW rn, AppliedOk(b, ap, s, rn, c),
         d.at \notin InBatch
  PROVE  /\ Cardinality(Counted(b, ap, d)) =
              Cardinality(Counted(b, ap, c)) + Cardinality(BatchApplied(ap, c))
         /\ Cardinality(BatchApplied(ap, c)) \in Nat
<1> DEFINE S == Counted(b, ap, c)
           T == BatchApplied(ap, c)
<1>1. /\ c.next \in Nat /\ c.last \in Nat /\ c.next >= 1
      /\ DOMAIN b.docs = 1 .. Len(b.docs) /\ Len(b.docs) \in Nat
      /\ c.last <= Len(b.docs) /\ c.at \in InBatch
  BY CallNumbers DEF InBatch
<1>2. \A i \in DOMAIN b.docs : ap[i] = 1 => i <= c.last
  BY DEF AppliedOk
<1>3. Counted(b, ap, d) = S \cup T
  BY <1>1, <1>2 DEF Counted, BatchApplied
<1>4. S \cap T = {}
  BY <1>1 DEF Counted, BatchApplied
<1>5. T \subseteq Counted(b, ap, d)
  BY <1>3
<1>6. IsFiniteSet(S) /\ IsFiniteSet(Counted(b, ap, d)) /\ Cardinality(S) \in Nat
  BY CountedFinite
<1>7. IsFiniteSet(T) /\ Cardinality(T) \in Nat
  BY <1>5, <1>6, FS_Subset, FS_CardinalityType
<1> HIDE DEF S, T
<1>8. Cardinality(S \cup T) = Cardinality(S) + Cardinality(T) - Cardinality(S \cap T)
  BY <1>6, <1>7, FS_Union
<1>9. Cardinality(S \cap T) = 0
  BY <1>4, FS_EmptySet
<1> QED
  BY <1>3, <1>6, <1>7, <1>8, <1>9 DEF S, T

(* The answer of a batch becomes part of the result.                       *)
AbsorbedErrors(c) == {c.offset + e : e \in c.kept.errors}
Absorbed(b, c, d, q, p) ==
  /\ p.n = q.n + c.kept.n /\ p.ok = q.ok
  /\ q.errors \subseteq p.errors /\ p.errors \subseteq q.errors \cup AbsorbedErrors(c)
  /\ ~p.cut => /\ ~q.cut /\ c.kept.reply.ok
               /\ p.errors = q.errors \cup AbsorbedErrors(c)
  /\ ~p.wce => ~q.wce
  /\ Clean(b, p) => /\ Clean(b, q) /\ c.kept.reply.ok /\ c.kept.errors = {}
                    /\ Covered(b, d) <= c.last
  /\ ~p.cut /\ ~p.wce /\ ~(Covered(b, d) <= c.last) => b.ordered /\ p.errors # {}

(* The result stays true.                                                  *)
LEMMA AbsorbedOk ==
  ASSUME NEW b \in Bulks, NEW c \in CallsOf(b), NEW d \in CallsOf(b),
         NEW q \in ResultsOf(b), NEW p \in ResultsOf(b), c.at = "merge",
         CallOk(b, c), NEW ap, NEW s, NEW rn, AppliedOk(b, ap, s, rn, c),
         KeptOk(b, ap, c), ResultOk(b, ap, c, q), Absorbed(b, c, d, q, p),
         d.at \in {"batch", "end", "return"}, d.last = c.last,
         Covered(b, d) \in Nat, Covered(b, d) <= Len(b.docs), StopOk(p)
  PROVE  ResultOk(b, ap, d, p)
<1>1. /\ c.next \in Nat /\ c.last \in Nat /\ c.next >= 1 /\ c.next <= c.last
      /\ DOMAIN b.docs = 1 .. Len(b.docs) /\ Len(b.docs) \in Nat
      /\ c.last <= Len(b.docs) /\ c.at \in InBatch /\ c.at \in Going
      /\ d.at \notin InBatch /\ c.at # "done" /\ d.at # "done"
      /\ c.offset = c.next - 1 /\ c.set = TRUE
  BY CallNumbers DEF InBatch, Going, CallOk
<1>2. \A e \in c.kept.errors : /\ e \in Nat
                               /\ c.next - 1 + e \in c.next .. c.last
                               /\ b.docs[c.next - 1 + e] = "bad"
  BY <1>1 DEF KeptOk, CallsOf, AnswersOf
<1>3. Covered(b, c) = c.next - 1
  BY <1>1 DEF Covered
<1>4. c.kept.reply.ok => Complete(b, ap, c)
  BY <1>1 DEF KeptOk
<1>5. CountOk(b, ap, d, p)
  <2>1. /\ Cardinality(Counted(b, ap, d)) =
             Cardinality(Counted(b, ap, c)) + Cardinality(BatchApplied(ap, c))
        /\ Cardinality(BatchApplied(ap, c)) \in Nat
    BY <1>1, BatchCount
  <2>2. c.kept.reply.ok => c.kept.n = Cardinality(BatchApplied(ap, c))
    BY <1>4 DEF Complete
  <2>3. ~c.kept.reply.ok => c.kept.n = 0
    BY <1>1 DEF KeptOk
  <2>4. Cardinality(Counted(b, ap, c)) \in Nat
    BY CountedFinite
  <2>5. q.n \in Nat /\ q.n <= Cardinality(Counted(b, ap, c))
        /\ (~q.cut => q.n = Cardinality(Counted(b, ap, c)))
    BY DEF ResultOk, CountOk, ResultsOf
  <2> QED
    BY <2>1, <2>2, <2>3, <2>4, <2>5 DEF CountOk, Absorbed
<1>6. ErrorsOk(b, d, p)
  <2>1. ASSUME NEW j \in p.errors PROVE j <= c.last /\ b.docs[j] = "bad"
    <3>1. CASE j \in q.errors
      BY <3>1 DEF ResultOk, ErrorsOk
    <3>2. CASE j \in AbsorbedErrors(c)
      BY <1>1, <1>2, <3>2 DEF AbsorbedErrors
    <3> QED
      BY <3>1, <3>2 DEF Absorbed
  <2> QED
    BY <2>1 DEF ErrorsOk
<1>7. CleanOk(b, ap, d, p)
  <2>1. ASSUME Clean(b, p) PROVE AllApplied(ap, Covered(b, d))
    <3>1. AllApplied(ap, c.next - 1)
      BY <1>1, <1>3, <2>1 DEF ResultOk, CleanOk, Absorbed
    <3>2. Complete(b, ap, c) /\ c.kept.errors = {} /\ Covered(b, d) <= c.last
      BY <1>4, <2>1 DEF Absorbed
    <3>3. \A i \in c.next .. c.last : ap[i] = 1
      BY <3>2 DEF Complete
    <3> QED
      BY <1>1, <3>1, <3>2, <3>3 DEF AllApplied
  <2>2. ~p.ok
    BY <1>1 DEF ResultOk, CleanOk, Absorbed
  <2> QED
    BY <2>1, <2>2 DEF CleanOk
<1>8. NamedOk(b, ap, d, p)
  <2>1. SUFFICES ASSUME ~p.cut, ~p.wce, NEW i \in 1 .. Covered(b, d)
                 PROVE  Named(b, ap, p, i)
    BY DEF NamedOk
  <2>2. /\ ~q.cut /\ ~q.wce /\ c.kept.reply.ok
        /\ p.errors = q.errors \cup AbsorbedErrors(c)
    BY <2>1 DEF Absorbed
  <2>3. CASE i < c.next
    <3>1. Named(b, ap, q, i)
      BY <1>1, <1>3, <2>1, <2>2, <2>3 DEF ResultOk, NamedOk
    <3> QED
      BY <2>2, <3>1 DEF Named
  <2>4. CASE i \in c.next .. c.last
    <3>1. \/ ap[i] = 1 \/ i - c.next + 1 \in c.kept.errors
          \/ b.ordered /\ \E e \in c.kept.errors : c.next - 1 + e < i
      BY <1>4, <2>2, <2>4 DEF Complete
    <3>2. CASE i - c.next + 1 \in c.kept.errors
      <4>1. i = c.offset + (i - c.next + 1)
        BY <1>1, <2>4
      <4>2. i \in AbsorbedErrors(c)
        BY <3>2, <4>1 DEF AbsorbedErrors
      <4> QED
        BY <2>2, <4>2 DEF Named
    <3>3. CASE b.ordered /\ \E e \in c.kept.errors : c.next - 1 + e < i
      <4>1. PICK e \in c.kept.errors : c.next - 1 + e < i
        BY <3>3
      <4>2. c.next - 1 + e \in AbsorbedErrors(c)
        BY <1>1 DEF AbsorbedErrors
      <4> QED
        BY <2>2, <3>3, <4>1, <4>2 DEF Named
    <3> QED
      BY <3>1, <3>2, <3>3 DEF Named
  <2>5. CASE i > c.last
    <3>1. b.ordered /\ p.errors # {}
      BY <1>1, <2>1, <2>5 DEF Absorbed
    <3>2. PICK j \in p.errors : TRUE
      BY <3>1
    <3>3. j <= c.last /\ j \in Nat
      BY <1>1, <1>6 DEF ErrorsOk, ResultsOf
    <3>4. j < i
      BY <1>1, <2>1, <2>5, <3>3
    <3> QED
      BY <3>1, <3>2, <3>4 DEF Named
  <2> QED
    BY <1>1, <2>1, <2>3, <2>4, <2>5
<1> QED
  BY <1>5, <1>6, <1>7, <1>8 DEF ResultOk

(* mongoc_bulkwrite_execute has one command.                               *)
LEMMA OneCommand ==
  ASSUME NEW b \in Bulks, b.api # "bulk_operation", NEW i \in DOMAIN b.docs
  PROVE  LastOf(b, i) = Len(b.docs)
<1>1. b.starts = {1} /\ DOMAIN b.docs = 1 .. Len(b.docs) /\ Len(b.docs) \in Nat
  BY BulkFacts
<1>2. LastOf(b, i) \in DOMAIN b.docs
      /\ (LastOf(b, i) = Len(b.docs) \/ LastOf(b, i) + 1 \in b.starts)
  BY LastOfFacts DEF EndsCommand
<1> QED
  BY <1>1, <1>2

(* The call after a batch.                                                 *)
Advanced(c, d, v) ==
  /\ d.at = v /\ d.first = c.first /\ d.last = c.last
  /\ d.next = c.last + 1 /\ d.offset = c.last
  /\ d.num = c.num

(* Advance makes it.                                                       *)
LEMMA AdvanceFacts ==
  ASSUME bulk \in Bulks, call \in CallsOf(bulk), CallOk(bulk, call),
         call.at = "merge", NEW v \in Places, Advance(v)
  PROVE  call' \in CallsOf(bulk) /\ Advanced(call, call', v)
<1>1. /\ call.next \in Nat /\ call.last \in Nat /\ Len(bulk.docs) \in Nat
      /\ call.last <= Len(bulk.docs) /\ call.offset = call.next - 1
  BY CallNumbers DEF CallOk
<1>2. call.last + 1 \in 1 .. (Len(bulk.docs) + 1)
  BY <1>1
<1>3. call.offset + (call.last - call.next + 1) = call.last
  BY <1>1
<1>4. call' = [at |-> v, first |-> call.first, next |-> call.last + 1,
               last |-> call.last, offset |-> call.last,
               retryable |-> call.retryable, num |-> call.num,
               loop |-> call.loop, ret |-> call.ret, kept |-> call.kept,
               set |-> call.set]
  BY <1>3 DEF Advance, CallsOf
<1> QED
  BY <1>1, <1>2, <1>4 DEF CallsOf, Advanced

(* It is in order.                                                         *)
LEMMA AdvancedOk ==
  ASSUME NEW b \in Bulks, NEW c \in CallsOf(b), NEW d, c.at = "merge",
         NEW v \in {"batch", "end", "return"}, Advanced(c, d, v),
         CallOk(b, c), OneBatchOk(b, c),
         v = "batch" => c.last < LastOf(b, c.first),
         v = "end" => b.api = "bulk_operation",
         NEW s, NEW t, NumbersOk(s, t, c)
  PROVE  /\ CallOk(b, d) /\ OneBatchOk(b, d) /\ NumbersOk(s, t, d)
         /\ Covered(b, d) \in Nat /\ Covered(b, d) <= Len(b.docs)
<1>1. /\ c.next \in Nat /\ c.last \in Nat /\ c.first \in Nat
      /\ c.first \in DOMAIN b.docs
      /\ DOMAIN b.docs = 1 .. Len(b.docs) /\ Len(b.docs) \in Nat
      /\ c.last <= Len(b.docs)
  BY CallNumbers
<1>2. LastOf(b, c.first) \in DOMAIN b.docs
  BY <1>1, LastOfFacts
<1>3. /\ c.first \in b.starts /\ c.first <= c.next /\ c.next <= c.last
      /\ c.last <= LastOf(b, c.first)
  BY DEF CallOk, InBatch
<1>4. c.first <= c.last + 1 /\ c.last < c.last + 1
      /\ (c.last < LastOf(b, c.first) => c.last + 1 <= LastOf(b, c.first))
      /\ (c.last + 1) - 1 = c.last
  BY <1>1, <1>2, <1>3
<1>5. CallOk(b, d)
  BY <1>3, <1>4 DEF CallOk, Advanced, InBatch
<1>6. OneBatchOk(b, d)
  BY <1>1, <1>2 DEF OneBatchOk, Advanced, InBatch
<1>7. NumbersOk(s, t, d)
  BY DEF NumbersOk, Advanced
<1>8. Covered(b, d) = IF v = "batch" THEN c.last
                        ELSE IF v = "end" THEN LastOf(b, c.first) ELSE Len(b.docs)
  BY <1>4 DEF Covered, Advanced, Going, InBatch
<1> QED
  BY <1>1, <1>2, <1>5, <1>6, <1>7, <1>8

(* _mongoc_write_opmsg after a batch.                                      *)
LEMMA MergeStep == IInv /\ Merge => IInv'
<1> SUFFICES ASSUME IInv, Merge PROVE IInv'
  OBVIOUS
<1>1. /\ TypeOK /\ CallOk(bulk, call) /\ OneBatchOk(bulk, call)
      /\ NumbersOk(seen, txn_number, call) /\ StreamOk(call, stream)
      /\ AppliedOk(bulk, applied, seen, ran, call)
      /\ PartOk(bulk, applied, call) /\ KeptOk(bulk, applied, call)
      /\ ResultOk(bulk, applied, call, result)
      /\ OrderedOk(bulk, applied, call, result)
  BY DEF IInv
<1>2. bulk \in Bulks /\ call \in CallsOf(bulk) /\ result \in ResultsOf(bulk)
      /\ stream \in StreamRecords
      /\ ServerTyped(bulk, applied, seen, ran, txn_number)
  BY <1>1, TypeParts
<1>3. /\ applied' = applied /\ seen' = seen /\ ran' = ran /\ bulk' = bulk
      /\ txn_number' = txn_number /\ call.at = "merge"
      /\ bulk.api = "bulk_operation"
  BY DEF Merge, serverVars, Legacy
<1>4. PICK valid \in StreamValid(stream.begun) :
        /\ result' = [MergeReply(result) EXCEPT
              !.failed = @ \/ ~call.ret,
              !.must_stop = @ \/ (~call.ret /\ (bulk.ordered \/ ~valid)),
              !.error = ~call.kept.reply.ok,
              !.cut = @ \/ ~call.kept.reply.ok]
        /\ Advance(IF MoreBatches
                      /\ ~(result.must_stop \/ (~call.ret /\ (bulk.ordered \/ ~valid)))
                      THEN "batch" ELSE "end")
  BY DEF Merge
<1> DEFINE q == result
           k == call.kept
           stop == ~call.ret /\ (bulk.ordered \/ ~valid)
           L == LastOf(bulk, call.first)
           v == IF call.last < L /\ ~(q.must_stop \/ stop) THEN "batch" ELSE "end"
           failed == (q.failed \/ k.errors # {}) \/ ~call.ret
           must == q.must_stop \/ stop
           errors == q.errors \cup AbsorbedErrors(call)
           wce == q.wce \/ HasWce(k.reply)
           error == ~k.reply.ok
           cut == q.cut \/ ~k.reply.ok
           n == q.n + k.n
           some == q.failed \/ k.errors # {}
<1>5. MergeReply(q) = [q EXCEPT !.failed = some, !.n = n, !.errors = errors,
                                !.wce = wce]
  BY DEF MergeReply, MergedErrors, AbsorbedErrors
<1>6. result' = [failed |-> failed, must_stop |-> must, n |-> n,
           errors |-> errors, wce |-> wce, error |-> error,
           server_id |-> q.server_id, retry_server_id |-> q.retry_server_id,
           errorscount |-> q.errorscount, first_error |-> q.first_error,
           parsed |-> q.parsed, cut |-> cut, ok |-> q.ok,
           reported |-> q.reported]
  <2> DEFINE p == MergeReply(q)
  <2>1. result' = [p EXCEPT !.failed = @ \/ ~call.ret, !.must_stop = @ \/ stop,
                            !.error = error, !.cut = @ \/ ~k.reply.ok]
    BY <1>4
  <2>2. failed = (some \/ ~call.ret) /\ must = (q.must_stop \/ stop)
        /\ cut = (q.cut \/ ~k.reply.ok)
    OBVIOUS
  <2> HIDE DEF some, n, errors, wce, stop, error, failed, must, cut
  <2>3. p = [failed |-> some, must_stop |-> q.must_stop, n |-> n,
           errors |-> errors, wce |-> wce, error |-> q.error,
           server_id |-> q.server_id, retry_server_id |-> q.retry_server_id,
           errorscount |-> q.errorscount, first_error |-> q.first_error,
           parsed |-> q.parsed, cut |-> q.cut, ok |-> q.ok,
           reported |-> q.reported]
    BY <1>2, <1>5 DEF ResultsOf
  <2> HIDE DEF p
  <2> QED
    BY <2>1, <2>2, <2>3
<1>7. Advance(v)
  BY <1>4, SameLast DEF MoreBatches
<1>8. failed \in BOOLEAN /\ must \in BOOLEAN /\ wce \in BOOLEAN /\ error \in BOOLEAN
      /\ cut \in BOOLEAN
  BY <1>2 DEF HasWce, ResultsOf
<1>9. /\ call.next \in Nat /\ call.last \in Nat /\ call.offset = call.next - 1
      /\ DOMAIN bulk.docs = 1 .. Len(bulk.docs) /\ call.last <= Len(bulk.docs)
      /\ Len(bulk.docs) \in Nat /\ call.next >= 1 /\ call.set = TRUE
      /\ call.last <= L
  BY <1>1, <1>2, <1>3, CallNumbers DEF CallOk
<1>10. L \in Nat
  BY <1>2, <1>9, LastOfFacts, CallNumbers
<1>11. k \in AnswersOf(bulk)
  BY <1>2 DEF CallsOf
<1>12. \A e \in k.errors : e \in Nat /\ call.next - 1 + e \in call.next .. call.last
  BY <1>1, <1>3, <1>9, <1>11 DEF KeptOk, InBatch, AnswersOf
<1>13. AbsorbedErrors(call) \subseteq DOMAIN bulk.docs
  BY <1>9, <1>12 DEF AbsorbedErrors
<1>14. n \in Nat /\ errors \in SUBSET DOMAIN bulk.docs
  BY <1>2, <1>11, <1>13 DEF ResultsOf, AnswersOf
<1>15. call.ret => k.reply.ok
  BY <1>1, <1>3 DEF KeptOk
<1>16. k.reply.ok /\ ~HasWce(k.reply) => call.ret
  BY <1>1, <1>3 DEF KeptOk, HasWce
<1>17. stop => ~call.ret
  OBVIOUS
<1>18. v # "batch" => must \/ L <= call.last
  BY <1>9, <1>10
<1>19. v \in {"batch", "end", "return"} /\ v \in Places
       /\ (v = "batch" => call.last < L)
  BY DEF Places
<1> HIDE DEF stop, L, v
<1>20. call' \in CallsOf(bulk) /\ Advanced(call, call', v)
  BY <1>1, <1>2, <1>3, <1>7, <1>19, AdvanceFacts
<1>21. /\ CallOk(bulk, call') /\ OneBatchOk(bulk, call')
       /\ NumbersOk(seen, txn_number, call')
       /\ Covered(bulk, call') \in Nat /\ Covered(bulk, call') <= Len(bulk.docs)
  BY <1>1, <1>2, <1>3, <1>19, <1>20, AdvancedOk DEF L
<1>22. StopOk(q)
  BY <1>1 DEF ResultOk
<1>23. StopOk(result')
  <2>1. must => failed /\ (cut \/ wce)
    BY <1>16, <1>17, <1>22 DEF StopOk
  <2>2. failed /\ ~cut /\ ~wce => errors # {}
    <3>1. k.errors # {} => errors # {}
      BY DEF AbsorbedErrors
    <3> QED
      BY <1>16, <1>22, <3>1 DEF StopOk
  <2> QED
    BY <1>6, <2>1, <2>2 DEF StopOk
<1>24. Covered(bulk, call') = IF v = "batch" THEN call.last ELSE L
  BY <1>9, <1>19, <1>20 DEF Covered, Advanced, Going, InBatch, L, v
<1>25. ~must => Covered(bulk, call') <= call.last
  BY <1>9, <1>18, <1>24
<1>26. Absorbed(bulk, call, call', q, result')
  <2>1. Clean(bulk, result') => ~failed
    BY <1>3, <1>6 DEF Clean
  <2>2. ~failed => Clean(bulk, q) /\ k.reply.ok /\ k.errors = {} /\ ~must
    BY <1>3, <1>15, <1>17, <1>22 DEF Clean, StopOk
  <2>3. ~cut /\ ~wce => ~must
    BY <1>16, <1>17, <1>22 DEF StopOk
  <2> QED
    BY <1>6, <1>25, <2>1, <2>2, <2>3 DEF Absorbed
<1>27. result' \in ResultsOf(bulk)
  <2> HIDE DEF failed, must, errors, wce, error, cut, n
  <2> QED
    BY <1>2, <1>6, <1>8, <1>14 DEF ResultsOf
<1>28. call'.at \in {"batch", "end", "return"} /\ call'.last = call.last
       /\ call'.at \notin InBatch
  BY <1>19, <1>20 DEF Advanced, InBatch
<1>29. ResultOk(bulk, applied, call', result')
  BY <1>1, <1>2, <1>3, <1>20, <1>21, <1>23, <1>26, <1>27, <1>28, AbsorbedOk
<1>30. /\ AppliedOk(bulk, applied, seen, ran, call') /\ PartOk(bulk, applied, call')
       /\ KeptOk(bulk, applied, call')
  BY <1>1, <1>28, NoBatch
<1>31. OrderedOk(bulk, applied, call', result')
  <2>1. OneBatch(bulk) => call.last = L
    BY <1>1, <1>3 DEF OneBatchOk, InBatch, L
  <2>2. OneBatch(bulk) => call'.at \notin Going
    BY <1>9, <1>10, <1>19, <1>20, <2>1 DEF Advanced, Going, InBatch, v
  <2> QED
    BY <1>1, <1>3, <2>2 DEF OrderedOk
<1>32. stream' = [begun |-> stream.begun, used |-> stream.used,
          fresh |-> stream.fresh,
          retry |-> IF stream.fresh # 0 THEN stream.fresh ELSE stream.retry]
  BY <1>2 DEF Merge, StreamRecords
<1>33. stream' \in StreamRecords /\ StreamOk(call', stream')
  BY <1>1, <1>2, <1>3, <1>32 DEF StreamRecords, StreamOk, InBatch
<1>34. TypeOK'
  BY <1>2, <1>3, <1>20, <1>27, <1>33, TypePartsNext
<1> QED
  BY <1>3, <1>21, <1>29, <1>30, <1>31, <1>33, <1>34 DEF IInv

(* The invariant after a step that leaves what was applied, and every      *)
(* batch, behind.                                                          *)
LEMMA StepBeyond ==
  ASSUME IInv, call' \in CallsOf(bulk), result' \in ResultsOf(bulk),
         CallOk(bulk, call'), OneBatchOk(bulk, call'),
         call'.num = call.num, call'.last = call.last,
         call'.at \notin InBatch, call'.at # "end",
         call'.at = "batch" => call.at \in InBatch,
         ResultOk(bulk, applied, call', result'),
         OrderedOk(bulk, applied, call', result'),
         UNCHANGED <<bulk, serverVars, txn_number, stream>>
  PROVE  IInv'
<1>1. /\ TypeOK /\ NumbersOk(seen, txn_number, call) /\ StreamOk(call, stream)
      /\ AppliedOk(bulk, applied, seen, ran, call)
  BY DEF IInv
<1>2. /\ bulk \in Bulks /\ stream \in StreamRecords
      /\ ServerTyped(bulk, applied, seen, ran, txn_number)
  BY <1>1, TypeParts
<1>3. /\ applied' = applied /\ seen' = seen /\ ran' = ran /\ bulk' = bulk
      /\ txn_number' = txn_number /\ stream' = stream
  BY DEF serverVars
<1>4. /\ AppliedOk(bulk, applied, seen, ran, call') /\ PartOk(bulk, applied, call')
      /\ KeptOk(bulk, applied, call')
  BY <1>1, NoBatch
<1>5. NumbersOk(seen, txn_number, call')
  BY <1>1 DEF NumbersOk
<1>6. StreamOk(call', stream)
  BY <1>1 DEF StreamOk
<1>7. TypeOK'
  BY <1>2, <1>3, TypePartsNext
<1> QED
  BY <1>3, <1>4, <1>5, <1>6, <1>7 DEF IInv

(* The result of a command is the result so far.                           *)
LEMMA EndedOk ==
  ASSUME NEW b \in Bulks, NEW c \in CallsOf(b), NEW d, c.at = "end",
         b.api = "bulk_operation", c.last <= LastOf(b, c.first),
         NEW ap, NEW q \in ResultsOf(b), NEW p,
         SameCounts(q, p), p.failed = q.failed, p.cut = q.cut,
         ResultOk(b, ap, c, q), OrderedOk(b, ap, c, q),
         d.at \in {"select", "return"}, d.last = c.last,
         d.at = "select" => d.next = LastOf(b, c.first) + 1
                            /\ ~(q.failed /\ (b.ordered \/ q.must_stop)),
         d.at = "return" => LastOf(b, c.first) = Len(b.docs)
                            \/ (q.failed /\ (b.ordered \/ q.must_stop))
  PROVE  ResultOk(b, ap, d, p) /\ OrderedOk(b, ap, d, p)
<1> DEFINE L == LastOf(b, c.first)
<1>1. /\ c.first \in DOMAIN b.docs /\ c.last \in Nat
      /\ DOMAIN b.docs = 1 .. Len(b.docs) /\ Len(b.docs) \in Nat
  BY CallNumbers
<1>2. L \in Nat /\ c.last <= L
  BY <1>1, LastOfFacts
<1>3. Covered(b, c) = L
  BY DEF Covered, Going, InBatch
<1> HIDE DEF L
<1>4. Covered(b, d) = IF d.at = "select" THEN L ELSE Len(b.docs)
  BY <1>2 DEF Covered, Going, InBatch, L
<1>5. Counted(b, ap, d) = Counted(b, ap, c)
  BY DEF Counted, InBatch
<1>6. CountOk(b, ap, d, p)
  BY <1>5 DEF ResultOk, CountOk, SameCounts
<1>7. ErrorsOk(b, d, p)
  BY DEF ResultOk, ErrorsOk, SameCounts
<1>8. StopOk(q) /\ StopOk(p)
  BY DEF ResultOk, StopOk, SameCounts
<1>9. ~q.failed => AllApplied(ap, L)
  BY <1>3 DEF ResultOk, CleanOk, Clean
<1>10. CleanOk(b, ap, d, p)
  <2>1. ~p.ok /\ (Clean(b, p) => ~q.failed)
    BY DEF ResultOk, CleanOk, SameCounts, Clean
  <2>2. ~q.failed => AllApplied(ap, Covered(b, d))
    BY <1>4, <1>9 DEF L
  <2> QED
    BY <2>1, <2>2 DEF CleanOk
<1>11. NamedOk(b, ap, d, p)
  <2>1. SUFFICES ASSUME ~q.cut, ~q.wce, NEW i \in 1 .. Covered(b, d)
                 PROVE  Named(b, ap, q, i)
    BY DEF NamedOk, Named, SameCounts
  <2>2. CASE i <= L
    BY <1>1, <1>2, <1>3, <1>4, <2>1, <2>2 DEF ResultOk, NamedOk
  <2>3. CASE ~(i <= L)
    <3>1. q.failed /\ b.ordered
      BY <1>1, <1>2, <1>4, <1>8, <2>1, <2>3 DEF L, StopOk
    <3>2. PICK j \in q.errors : TRUE
      BY <1>8, <2>1, <3>1 DEF StopOk
    <3>3. j <= c.last /\ j \in Nat
      BY <1>1 DEF ResultOk, ErrorsOk, ResultsOf
    <3>4. j < i
      BY <1>1, <1>2, <1>4, <2>1, <2>3, <3>3
    <3> QED
      BY <3>1, <3>2, <3>4 DEF Named
  <2> QED
    BY <2>2, <2>3
<1>12. OrderedOk(b, ap, d, p)
  BY DEF OrderedOk, Clean, Going, InBatch
<1> QED
  BY <1>6, <1>7, <1>8, <1>10, <1>11, <1>12 DEF ResultOk

(* mongoc_bulk_operation_execute after a command.                          *)
LEMMA EndCommandStep == IInv /\ EndCommand => IInv'
<1> SUFFICES ASSUME IInv, EndCommand PROVE IInv'
  OBVIOUS
<1>1. /\ TypeOK /\ CallOk(bulk, call) /\ OneBatchOk(bulk, call)
      /\ ResultOk(bulk, applied, call, result)
      /\ OrderedOk(bulk, applied, call, result)
  BY DEF IInv
<1>2. bulk \in Bulks /\ call \in CallsOf(bulk) /\ result \in ResultsOf(bulk)
      /\ stream \in StreamRecords
  BY <1>1, TypeParts
<1>3. /\ call.at = "end" /\ bulk.api = "bulk_operation"
      /\ UNCHANGED <<bulk, serverVars, txn_number, stream>>
  BY <1>1 DEF EndCommand, CallOk
<1> DEFINE q == result
           L == LastOf(bulk, call.first)
           retried == IF stream.retry # 0 /\ call.ret THEN stream.retry
                                                 ELSE result.retry_server_id
           server == IF retried # 0 THEN retried ELSE stream.begun.server
           error == q.error /\ ~call.ret
           stops == q.failed /\ (bulk.ordered \/ q.must_stop)
<1>4. result' = [q EXCEPT !.error = error, !.retry_server_id = retried,
                          !.server_id = server]
  BY DEF EndCommand
<1>5. call' = IF stops \/ L = Len(bulk.docs) THEN [call EXCEPT !.at = "return"]
              ELSE [call EXCEPT !.at = "select", !.first = L + 1,
                                !.next = L + 1, !.offset = L]
  BY SameLast DEF EndCommand, Stops
<1>6. error \in BOOLEAN /\ retried \in Servers \cup {0} /\ server \in Servers \cup {0}
  BY <1>2 DEF ResultsOf, StreamRecords
<1> HIDE DEF error, retried, server
<1>7. result' = [failed |-> q.failed, must_stop |-> q.must_stop, n |-> q.n,
           errors |-> q.errors, wce |-> q.wce, error |-> error,
           server_id |-> server, retry_server_id |-> retried,
           errorscount |-> q.errorscount, first_error |-> q.first_error,
           parsed |-> q.parsed, cut |-> q.cut, ok |-> q.ok,
           reported |-> q.reported]
  BY <1>2, <1>4 DEF ResultsOf
<1>8. result' \in ResultsOf(bulk)
  BY <1>2, <1>6, <1>7 DEF ResultsOf
<1>9. SameCounts(q, result') /\ result'.failed = q.failed /\ result'.cut = q.cut
  BY <1>7 DEF SameCounts
<1>10. /\ call.first \in DOMAIN bulk.docs /\ call.last \in Nat
       /\ DOMAIN bulk.docs = 1 .. Len(bulk.docs) /\ Len(bulk.docs) \in Nat
       /\ call.last <= L
  BY <1>1, <1>2, CallNumbers DEF CallOk
<1>11. L \in DOMAIN bulk.docs
  BY <1>2, <1>10, LastOfFacts
<1>12. CASE stops \/ L = Len(bulk.docs)
  <2>1. call' \in CallsOf(bulk) /\ GoesTo(call, call', "return")
    BY <1>2, <1>5, <1>12, GoesToFacts DEF Places
  <2>2. call'.at = "return" /\ call'.last = call.last /\ call'.num = call.num
    BY <2>1 DEF GoesTo
  <2>3. ResultOk(bulk, applied, call', result') /\ OrderedOk(bulk, applied, call', result')
    BY <1>1, <1>2, <1>3, <1>9, <1>10, <1>12, <2>2, EndedOk
  <2>4. CallOk(bulk, call') /\ OneBatchOk(bulk, call')
    BY <1>1, <2>1 DEF CallOk, OneBatchOk, GoesTo, InBatch
  <2> QED
    BY <1>3, <1>8, <2>1, <2>2, <2>3, <2>4, StepBeyond DEF InBatch
<1>13. CASE ~(stops \/ L = Len(bulk.docs))
  <2>1. L + 1 \in bulk.starts /\ L + 1 \in DOMAIN bulk.docs
    BY <1>2, <1>10, <1>13, NextCommand
  <2>2. call' = [at |-> "select", first |-> L + 1, next |-> L + 1,
               last |-> call.last, offset |-> L,
               retryable |-> call.retryable, num |-> call.num,
               loop |-> call.loop, ret |-> call.ret, kept |-> call.kept,
               set |-> call.set]
    BY <1>2, <1>5, <1>13 DEF CallsOf
  <2>3. L \in Nat /\ L + 1 \in 1 .. (Len(bulk.docs) + 1) /\ call.last < L + 1
        /\ (L + 1) - 1 = L
    BY <1>10, <1>11
  <2>4. call' \in CallsOf(bulk)
    BY <1>2, <2>1, <2>2, <2>3 DEF CallsOf, Places
  <2>5. LastOf(bulk, L + 1) \in Nat /\ L + 1 <= LastOf(bulk, L + 1)
    BY <1>2, <1>10, <2>1, LastOfFacts DEF EndsCommand
  <2>6. call.last <= LastOf(bulk, L + 1)
    BY <1>10, <2>3, <2>5
  <2>7. CallOk(bulk, call') /\ OneBatchOk(bulk, call')
    BY <2>1, <2>2, <2>3, <2>5, <2>6 DEF CallOk, OneBatchOk, InBatch
  <2>8. ResultOk(bulk, applied, call', result') /\ OrderedOk(bulk, applied, call', result')
    BY <1>1, <1>2, <1>3, <1>9, <1>10, <1>13, <2>2, EndedOk
  <2> QED
    BY <1>3, <1>8, <2>2, <2>4, <2>7, <2>8, StepBeyond DEF InBatch
<1> QED
  BY <1>12, <1>13

(* What is returned.                                                       *)
LEMMA ReturnStep == IInv /\ Return => IInv'
<1> SUFFICES ASSUME IInv, Return PROVE IInv'
  OBVIOUS
<1>1. /\ TypeOK /\ CallOk(bulk, call) /\ OneBatchOk(bulk, call)
      /\ ResultOk(bulk, applied, call, result)
      /\ OrderedOk(bulk, applied, call, result)
  BY DEF IInv
<1>2. bulk \in Bulks /\ call \in CallsOf(bulk) /\ result \in ResultsOf(bulk)
  BY <1>1, TypeParts
<1> DEFINE q == result
           error == q.error \/ q.errors # {} \/ q.wce
           ok == ~error /\ (Legacy => ~q.failed)
           reported == Legacy \/ HasSuccessfulResults
<1>3. /\ call.at = "return" /\ call' = [call EXCEPT !.at = "done"]
      /\ UNCHANGED <<bulk, serverVars, txn_number, stream>>
      /\ result' = [q EXCEPT !.error = error, !.ok = ok, !.reported = reported]
  BY DEF Return
<1>4. error \in BOOLEAN /\ ok \in BOOLEAN /\ reported \in BOOLEAN
  BY <1>2 DEF ResultsOf, HasSuccessfulResults
<1>5. ok => Clean(bulk, q)
  BY DEF Clean, Legacy
<1> HIDE DEF error, ok, reported
<1>6. result' = [failed |-> q.failed, must_stop |-> q.must_stop, n |-> q.n,
           errors |-> q.errors, wce |-> q.wce, error |-> error,
           server_id |-> q.server_id, retry_server_id |-> q.retry_server_id,
           errorscount |-> q.errorscount, first_error |-> q.first_error,
           parsed |-> q.parsed, cut |-> q.cut, ok |-> ok,
           reported |-> reported]
  BY <1>2, <1>3 DEF ResultsOf
<1>7. result' \in ResultsOf(bulk)
  BY <1>2, <1>4, <1>6 DEF ResultsOf
<1>8. call' \in CallsOf(bulk) /\ GoesTo(call, call', "done")
  BY <1>2, <1>3, GoesToFacts DEF Places
<1>9. call'.at = "done" /\ call'.last = call.last /\ call'.num = call.num
  BY <1>8 DEF GoesTo
<1>10. Covered(bulk, call) = Len(bulk.docs) /\ Covered(bulk, call') = Len(bulk.docs)
  BY <1>3, <1>9 DEF Covered, Going, InBatch
<1>11. Counted(bulk, applied, call') = Counted(bulk, applied, call)
  BY <1>3, <1>9 DEF Counted, InBatch
<1>12. ok => AllApplied(applied, Len(bulk.docs))
  BY <1>1, <1>3, <1>5, <1>10 DEF ResultOk, CleanOk
<1>13. CountOk(bulk, applied, call', result')
  BY <1>1, <1>6, <1>11 DEF ResultOk, CountOk
<1>14. ErrorsOk(bulk, call', result') /\ StopOk(result')
  BY <1>1, <1>6, <1>9 DEF ResultOk, ErrorsOk, StopOk
<1>15. CleanOk(bulk, applied, call', result')
  BY <1>6, <1>9, <1>12 DEF CleanOk
<1>16. NamedOk(bulk, applied, call', result')
  BY <1>1, <1>6, <1>10 DEF ResultOk, NamedOk, Named
<1>17. OrderedOk(bulk, applied, call', result')
  BY <1>1, <1>9 DEF OrderedOk, Going, InBatch
<1>18. CallOk(bulk, call') /\ OneBatchOk(bulk, call')
  BY <1>1, <1>8 DEF CallOk, OneBatchOk, GoesTo, InBatch
<1>19. ResultOk(bulk, applied, call', result')
  BY <1>13, <1>14, <1>15, <1>16 DEF ResultOk
<1> QED
  BY <1>3, <1>7, <1>8, <1>9, <1>17, <1>18, <1>19, StepBeyond DEF InBatch

(* The least of the places reported is one of them.                        *)
LEMMA FirstPlace ==
  ASSUME NEW T \in SUBSET Nat, T # {}
  PROVE  (CHOOSE e \in T : \A f \in T : e <= f) \in Nat
<1>1. \E e \in T : \A f \in T : e <= f
  BY LeastPlace
<1> QED
  BY <1>1

(* mongoc_bulkwrite_execute after a batch that was answered.               *)
LEMMA ApplyStep == IInv /\ Apply => IInv'
<1> SUFFICES ASSUME IInv, Apply PROVE IInv'
  OBVIOUS
<1>1. /\ TypeOK /\ CallOk(bulk, call) /\ OneBatchOk(bulk, call)
      /\ NumbersOk(seen, txn_number, call)
      /\ AppliedOk(bulk, applied, seen, ran, call)
      /\ KeptOk(bulk, applied, call)
      /\ ResultOk(bulk, applied, call, result)
      /\ OrderedOk(bulk, applied, call, result)
  BY DEF IInv
<1>2. bulk \in Bulks /\ call \in CallsOf(bulk) /\ result \in ResultsOf(bulk)
  BY <1>1, TypeParts
<1>3. /\ call.at = "merge" /\ bulk.api # "bulk_operation" /\ call.ret
      /\ UNCHANGED <<bulk, serverVars, txn_number, stream>>
  BY DEF Apply, Legacy
<1>4. PICK read \in 0 .. (call.last - call.next + 1), whole \in BOOLEAN :
        /\ whole => call.kept.errors \cap (1 .. read) = call.kept.errors
        /\ result' = [ApplyResults(ApplyReply(result),
                                   call.kept.errors \cap (1 .. read)) EXCEPT
                        !.error = @ \/ ~whole, !.cut = @ \/ ~whole]
        /\ IF ~whole THEN call' = [call EXCEPT !.at = "return"]
             ELSE Advance(IF MoreBatches
                             /\ ~(bulk.ordered /\ result'.errors # {})
                            THEN "batch" ELSE "return")
  BY DEF Apply
<1> DEFINE q == result
           k == call.kept
           got == k.errors \cap (1 .. read)
           L == LastOf(bulk, call.first)
           n == q.n + k.n
           count == q.errorscount + Cardinality(k.errors)
           wce == q.wce \/ HasWce(k.reply)
           errors == q.errors \cup {call.offset + e : e \in got}
           first == IF q.first_error = 0 /\ got # {}
                      THEN CHOOSE e \in got : \A f \in got : e <= f
                      ELSE q.first_error
           error == q.error \/ ~whole
           cut == q.cut \/ ~whole
<1>5. ApplyReply(q) = [q EXCEPT !.n = n, !.errorscount = count,
                                !.parsed = TRUE, !.wce = wce]
  BY DEF ApplyReply
<1>6. \A r : ApplyResults(r, got) =
        [r EXCEPT !.errors = @ \cup {call.offset + e : e \in got},
                  !.first_error = IF @ = 0 /\ got # {}
                                    THEN CHOOSE e \in got : \A f \in got : e <= f
                                    ELSE @]
  BY DEF ApplyResults
<1>7. result' = [failed |-> q.failed, must_stop |-> q.must_stop, n |-> n,
           errors |-> errors, wce |-> wce, error |-> error,
           server_id |-> q.server_id, retry_server_id |-> q.retry_server_id,
           errorscount |-> count, first_error |-> first,
           parsed |-> TRUE, cut |-> cut, ok |-> q.ok, reported |-> q.reported]
  <2> DEFINE least == CHOOSE e \in got : \A f \in got : e <= f
             new == {call.offset + e : e \in got}
             some == got # {}
             p == ApplyReply(q)
             r == ApplyResults(p, got)
  <2>1. r = [p EXCEPT !.errors = @ \cup new,
                      !.first_error = IF @ = 0 /\ some THEN least ELSE @]
    BY <1>6
  <2>2. result' = [r EXCEPT !.error = @ \/ ~whole, !.cut = @ \/ ~whole]
    BY <1>4
  <2>3. /\ errors = q.errors \cup new
        /\ first = IF q.first_error = 0 /\ some THEN least ELSE q.first_error
    OBVIOUS
  <2> HIDE DEF n, count, wce, new, least, some, errors, first
  <2>4. p = [failed |-> q.failed, must_stop |-> q.must_stop, n |-> n,
           errors |-> q.errors, wce |-> wce, error |-> q.error,
           server_id |-> q.server_id, retry_server_id |-> q.retry_server_id,
           errorscount |-> count, first_error |-> q.first_error,
           parsed |-> TRUE, cut |-> q.cut, ok |-> q.ok, reported |-> q.reported]
    BY <1>2, <1>5 DEF ResultsOf
  <2> HIDE DEF p
  <2>5. p.errors = q.errors /\ p.first_error = q.first_error
    BY <2>4
  <2>6. r = [p EXCEPT !.errors = errors, !.first_error = first]
    BY <2>1, <2>3, <2>5
  <2> HIDE DEF r
  <2>7. r = [failed |-> q.failed, must_stop |-> q.must_stop, n |-> n,
           errors |-> errors, wce |-> wce, error |-> q.error,
           server_id |-> q.server_id, retry_server_id |-> q.retry_server_id,
           errorscount |-> count, first_error |-> first,
           parsed |-> TRUE, cut |-> q.cut, ok |-> q.ok, reported |-> q.reported]
    BY <2>4, <2>6
  <2> QED
    BY <2>2, <2>7
<1>8. /\ call.next \in Nat /\ call.last \in Nat /\ call.offset = call.next - 1
      /\ DOMAIN bulk.docs = 1 .. Len(bulk.docs) /\ call.last <= Len(bulk.docs)
      /\ Len(bulk.docs) \in Nat /\ call.next >= 1 /\ call.set = TRUE
      /\ call.first \in DOMAIN bulk.docs /\ call.next <= call.last
  BY <1>1, <1>2, <1>3, CallNumbers DEF CallOk, InBatch
<1>9. L = Len(bulk.docs)
  BY <1>2, <1>3, <1>8, OneCommand
<1>10. k \in AnswersOf(bulk) /\ k.errors \in SUBSET DOMAIN bulk.docs /\ k.n \in Nat
  BY <1>2 DEF CallsOf, AnswersOf
<1>11. Cardinality(k.errors) \in Nat
  <2>1. 1 \in Int /\ Len(bulk.docs) \in Int
    BY <1>8
  <2>2. IsFiniteSet(DOMAIN bulk.docs)
    BY <1>8, <2>1, FS_Interval
  <2> QED
    BY <1>10, <2>2, FS_Subset, FS_CardinalityType
<1>12. \A e \in k.errors : e \in Nat /\ call.next - 1 + e \in call.next .. call.last
  BY <1>1, <1>3, <1>8, <1>10 DEF KeptOk, InBatch
<1>13. got \subseteq k.errors /\ got \in SUBSET Nat
  BY <1>12
<1>14. /\ errors \in SUBSET DOMAIN bulk.docs /\ q.errors \subseteq errors
       /\ errors \subseteq q.errors \cup AbsorbedErrors(call)
  <2>1. {call.offset + e : e \in got} \subseteq DOMAIN bulk.docs
    BY <1>8, <1>12, <1>13
  <2>2. {call.offset + e : e \in got} \subseteq AbsorbedErrors(call)
    BY <1>13 DEF AbsorbedErrors
  <2> QED
    BY <1>2, <2>1, <2>2 DEF ResultsOf
<1>15. whole => errors = q.errors \cup AbsorbedErrors(call)
  BY <1>4 DEF AbsorbedErrors
<1>16. whole /\ errors = {} => k.errors = {}
  BY <1>4
<1>17. first \in Nat
  BY <1>2, <1>13, FirstPlace DEF ResultsOf
<1>18. n \in Nat /\ count \in Nat /\ wce \in BOOLEAN /\ error \in BOOLEAN
       /\ cut \in BOOLEAN
  BY <1>2, <1>10, <1>11 DEF ResultsOf, HasWce
<1>19. k.reply.ok
  BY <1>1, <1>3 DEF KeptOk
<1> HIDE DEF errors, first, count
<1>20. result' \in ResultsOf(bulk)
  <2> HIDE DEF n, wce, error, cut
  <2> QED
    BY <1>2, <1>7, <1>14, <1>17, <1>18 DEF ResultsOf
<1>21. StopOk(result')
  <2>1. StopOk(q)
    BY <1>1 DEF ResultOk
  <2> QED
    BY <1>7, <1>14, <2>1 DEF StopOk
<1> DEFINE v == IF call.last < L /\ ~(bulk.ordered /\ errors # {})
                  THEN "batch" ELSE "return"
<1>22. whole => Advance(v)
  <2>1. result'.errors = errors
    BY <1>7
  <2>2. MoreBatches <=> call.last < L
    BY SameLast DEF MoreBatches
  <2>3. v = IF MoreBatches /\ ~(bulk.ordered /\ result'.errors # {})
              THEN "batch" ELSE "return"
    BY <2>1, <2>2
  <2> HIDE DEF v
  <2> QED
    BY <1>4, <2>3, Zenon
<1>23. /\ v \in {"batch", "return"} /\ v \in Places
       /\ (v = "batch" => call.last < L /\ ~(bulk.ordered /\ errors # {}))
       /\ (v = "return" => L <= call.last \/ (bulk.ordered /\ errors # {}))
  BY <1>8, <1>9 DEF Places
<1> HIDE DEF v
<1>24. Clean(bulk, result') => Clean(bulk, q) /\ k.errors = {} /\ whole /\ errors = {}
  BY <1>3, <1>7, <1>14, <1>16 DEF Clean
<1>25. /\ call' \in CallsOf(bulk) /\ call'.at \in {"batch", "return"}
       /\ call'.last = call.last /\ call'.num = call.num
       /\ CallOk(bulk, call') /\ OneBatchOk(bulk, call')
       /\ Covered(bulk, call') \in Nat /\ Covered(bulk, call') <= Len(bulk.docs)
       /\ (whole /\ ~(Covered(bulk, call') <= call.last)
             => bulk.ordered /\ errors # {})
       /\ (call'.at = "batch" => whole /\ ~(bulk.ordered /\ errors # {}))
  <2>1. CASE whole
    <3>1. call' \in CallsOf(bulk) /\ Advanced(call, call', v)
      BY <1>1, <1>2, <1>3, <1>22, <1>23, <2>1, AdvanceFacts
    <3>2. /\ CallOk(bulk, call') /\ OneBatchOk(bulk, call')
          /\ Covered(bulk, call') \in Nat /\ Covered(bulk, call') <= Len(bulk.docs)
      BY <1>1, <1>2, <1>3, <1>23, <3>1, AdvancedOk
    <3>3. Covered(bulk, call') = IF v = "batch" THEN call.last ELSE Len(bulk.docs)
      BY <1>8, <1>23, <3>1 DEF Covered, Advanced, Going, InBatch
    <3> QED
      BY <1>8, <1>9, <1>23, <2>1, <3>1, <3>2, <3>3 DEF Advanced
  <2>2. CASE ~whole
    <3>1. call' \in CallsOf(bulk) /\ GoesTo(call, call', "return")
      BY <1>2, <1>4, <2>2, GoesToFacts DEF Places
    <3>2. CallOk(bulk, call') /\ OneBatchOk(bulk, call')
      BY <1>1, <3>1 DEF CallOk, OneBatchOk, GoesTo, InBatch
    <3>3. Covered(bulk, call') = Len(bulk.docs)
      BY <3>1 DEF Covered, GoesTo, Going, InBatch
    <3> QED
      BY <1>8, <2>2, <3>1, <3>2, <3>3 DEF GoesTo
  <2> QED
    BY <2>1, <2>2
<1>26. Absorbed(bulk, call, call', q, result')
  <2>1. ~cut => ~q.cut /\ whole
    BY <1>2 DEF ResultsOf
  <2>2. Clean(bulk, result') => Covered(bulk, call') <= call.last
    BY <1>24, <1>25
  <2>3. ~wce => ~q.wce
    OBVIOUS
  <2>4. /\ result'.n = q.n + call.kept.n /\ result'.ok = q.ok
        /\ result'.errors = errors /\ result'.cut = cut /\ result'.wce = wce
    BY <1>7
  <2> HIDE DEF cut, wce
  <2> QED
    BY <1>14, <1>15, <1>19, <1>24, <1>25, <2>1, <2>2, <2>3, <2>4 DEF Absorbed
<1>27. ResultOk(bulk, applied, call', result')
  BY <1>1, <1>2, <1>3, <1>20, <1>21, <1>25, <1>26, AbsorbedOk
<1>28. OrderedOk(bulk, applied, call', result')
  <2>1. ASSUME bulk.ordered, call'.at \in Going PROVE Clean(bulk, result')
    <3>1. call'.at = "batch"
      BY <1>25, <2>1 DEF Going, InBatch
    <3>2. whole /\ errors = {}
      BY <1>25, <2>1, <3>1
    <3>3. ~q.error
      BY <1>1, <1>3, <2>1 DEF OrderedOk, Clean, Going, InBatch
    <3> QED
      BY <1>3, <1>7, <3>2, <3>3 DEF Clean
  <2> QED
    BY <1>1, <1>3, <2>1 DEF OrderedOk
<1> QED
  BY <1>3, <1>20, <1>25, <1>27, <1>28, StepBeyond DEF InBatch

----------------------------------------------------------------------------
(***************************************************************************)
(* The theorems.                                                           *)
(***************************************************************************)
(* The invariant holds at the start.                                       *)
LEMMA InitInv == Init => IInv
<1> SUFFICES ASSUME Init PROVE IInv
  OBVIOUS
<1>1. bulk \in Bulks /\ applied = [i \in DOMAIN bulk.docs |-> 0]
      /\ seen = 0 /\ ran = {} /\ txn_number = 0
      /\ call = NewCall /\ stream = NewStreams /\ result = NewResult
  BY DEF Init, Docs
<1>2. /\ DOMAIN bulk.docs = 1 .. Len(bulk.docs) /\ Len(bulk.docs) \in Nat
      /\ Len(bulk.docs) >= 1 /\ 1 \in bulk.starts /\ 1 \in DOMAIN bulk.docs
  BY <1>1, BulkFacts
<1> DEFINE s == CHOOSE s \in Servers : TRUE
           l == NewLoop("none", s)
           k == Answer(OkReply, 0, {})
<1>3. s \in Servers
  BY RetryAssumption
<1>4. l \in Loops
  BY <1>3 DEF NewLoop, Loops, Eligibilities
<1>5. k \in AnswersOf(bulk)
  BY DEF Answer, AnswersOf, OkReply, Reply, ReplyRecords, Codes
<1> HIDE DEF l, k
<1>6. call = [at |-> "select", first |-> 1, next |-> 1, last |-> 0, offset |-> 0,
              retryable |-> FALSE, num |-> 0, loop |-> l, ret |-> FALSE,
              kept |-> k, set |-> FALSE]
  BY <1>1 DEF NewCall, l, k
<1>7. call \in CallsOf(bulk)
  BY <1>2, <1>4, <1>5, <1>6 DEF CallsOf, Places
<1>8. stream \in StreamRecords
  BY <1>1 DEF NewStreams, NoStream, StreamRecords
<1>9. result \in ResultsOf(bulk)
  BY <1>1 DEF NewResult, ResultsOf
<1>10. TypeOK
  BY <1>1, <1>7, <1>8, <1>9, TypeParts DEF ServerTyped
<1>11. LastOf(bulk, 1) \in Nat /\ 1 <= LastOf(bulk, 1)
  BY <1>1, <1>2, LastOfFacts DEF EndsCommand
<1>12. CallOk(bulk, call) /\ OneBatchOk(bulk, call)
  BY <1>2, <1>6, <1>11 DEF CallOk, OneBatchOk, InBatch
<1>13. NumbersOk(seen, txn_number, call) /\ StreamOk(call, stream)
  BY <1>1, <1>6 DEF NumbersOk, StreamOk, InBatch
<1>14. AppliedOk(bulk, applied, seen, ran, call)
  BY <1>1, <1>6 DEF AppliedOk
<1>15. PartOk(bulk, applied, call) /\ KeptOk(bulk, applied, call)
  BY <1>6, <1>14, NoBatch DEF InBatch
<1>16. Counted(bulk, applied, call) = {}
  BY <1>1 DEF Counted
<1>17. CountOk(bulk, applied, call, result)
  BY <1>1, <1>16, FS_EmptySet DEF CountOk, NewResult
<1>18. ErrorsOk(bulk, call, result) /\ StopOk(result)
  BY <1>1 DEF ErrorsOk, StopOk, NewResult
<1>19. Covered(bulk, call) = 0
  BY <1>6 DEF Covered, Going
<1>20. CleanOk(bulk, applied, call, result) /\ NamedOk(bulk, applied, call, result)
  BY <1>1, <1>19 DEF CleanOk, NamedOk, AllApplied, NewResult
<1>21. OrderedOk(bulk, applied, call, result)
  BY <1>1 DEF OrderedOk, Clean, NewResult
<1> QED
  BY <1>10, <1>12, <1>13, <1>14, <1>15, <1>17, <1>18, <1>20, <1>21 DEF IInv, ResultOk

(* Every step keeps it.                                                    *)
LEMMA NextInv == IInv /\ [Next]_vars => IInv'
<1> SUFFICES ASSUME IInv, [Next]_vars PROVE IInv'
  OBVIOUS
<1>1. CASE SelectFails \/ Select \/ TooLarge \/ Ship
  BY <1>1, SelectFailsStep, SelectStep, TooLargeStep, ShipStep
<1>2. CASE Answered \/ Refused \/ Interrupted \/ ConnectionFails \/ SendOverClosed
  BY <1>2, Attempts
<1>3. CASE RetrySelect \/ Merge \/ EndCommand
  BY <1>3, RetrySelectStep, MergeStep, EndCommandStep
<1>4. CASE ApplyFailed \/ Apply \/ Return
  BY <1>4, ApplyFailedStep, ApplyStep, ReturnStep
<1>5. CASE Done \/ UNCHANGED vars
  <2>1. /\ bulk' = bulk /\ applied' = applied /\ seen' = seen /\ ran' = ran
        /\ txn_number' = txn_number /\ call' = call /\ stream' = stream
        /\ result' = result
    BY <1>5 DEF Done, vars
  <2>2. TypeOK <=> TypeOK'
    BY <2>1, TypeParts, TypePartsNext
  <2> QED
    BY <2>1, <2>2 DEF IInv
<1> QED
  BY <1>1, <1>2, <1>3, <1>4, <1>5 DEF Next

(* The inductive invariant holds in every state of a bulk write.           *)
THEOREM Inductive == Spec => []IInv
<1> QED
  BY InitInv, NextInv, PTL DEF Spec

(* The state of a bulk write has its types, for every bulk, every size of  *)
(* a batch and every set of servers.                                       *)
THEOREM TypeCorrect == Spec => []TypeOK
<1>1. IInv => TypeOK
  BY DEF IInv
<1> QED
  BY <1>1, Inductive, PTL

(* No operation of a bulk is applied twice, whatever mongoc_cluster_run_   *)
(* retryable_write sends again.                                            *)
THEOREM OnceApplied == Spec => []AppliedOnce
<1>1. ASSUME IInv PROVE AppliedOnce
  <2>1. AppliedOk(bulk, applied, seen, ran, call)
    BY <1>1 DEF IInv
  <2>2. \A i \in Docs : applied[i] \in {0, 1}
    BY <2>1 DEF AppliedOk, Docs
  <2> QED
    BY <2>2 DEF AppliedOnce
<1> QED
  BY <1>1, Inductive, PTL

(* An ordered bulk whose commands have one batch each, and every ordered   *)
(* bulk of mongoc_bulkwrite_execute, stops at its first error.             *)
THEOREM StopsAtFirstError == Spec => []OrderedPrefix
<1>1. ASSUME IInv PROVE OrderedPrefix
  <2>1. /\ OrderedOk(bulk, applied, call, result)
        /\ AppliedOk(bulk, applied, seen, ran, call) /\ bulk \in Bulks
    BY <1>1, TypeParts DEF IInv
  <2>2. OneBatchEach <=> OneBatch(bulk)
    BY SameLast DEF OneBatchEach, OneBatch
  <2>3. Docs = 1 .. Len(bulk.docs) /\ Len(bulk.docs) \in Nat /\ Docs = DOMAIN bulk.docs
    BY <2>1, BulkFacts DEF Docs
  <2>4. \A i \in Docs : i \in Applied <=> applied[i] = 1
    BY <2>1, <2>3 DEF Applied, AppliedOk
  <2>5. ASSUME bulk.ordered, ~Legacy \/ OneBatchEach, NEW i \in Applied,
               NEW j \in 1 .. i
        PROVE  j \in Applied
    <3>1. i \in Docs /\ applied[i] = 1
      BY <2>4, <2>5 DEF Applied
    <3>2. AllApplied(applied, i)
      BY <2>1, <2>2, <2>3, <2>5, <3>1 DEF OrderedOk, Legacy
    <3>3. j \in Docs
      BY <2>3, <3>1
    <3> QED
      BY <2>4, <3>2, <3>3 DEF AllApplied
  <2> QED
    BY <2>5 DEF OrderedPrefix, Prefix
<1> QED
  BY <1>1, Inductive, PTL

(* What mongoc_bulk_operation_execute and mongoc_bulkwrite_execute return  *)
(* is what happened.                                                       *)
THEOREM ResultTrue == Spec => []ResultExact
<1>1. ASSUME IInv PROVE ResultExact
  <2>1. /\ ResultOk(bulk, applied, call, result) /\ bulk \in Bulks
        /\ AppliedOk(bulk, applied, seen, ran, call)
        /\ result \in ResultsOf(bulk)
    BY <1>1, TypeParts DEF IInv
  <2>2. Docs = 1 .. Len(bulk.docs) /\ Len(bulk.docs) \in Nat /\ Docs = DOMAIN bulk.docs
    BY <2>1, BulkFacts DEF Docs
  <2>3. \A i \in Docs : i \in Applied <=> applied[i] = 1
    BY <2>1, <2>2 DEF Applied, AppliedOk
  <2>4. SUFFICES ASSUME call.at = "done"
        PROVE  /\ result.ok => Applied = Docs
               /\ result.errors \subseteq Bad
               /\ result.n <= Cardinality(Applied)
               /\ result.reported /\ ~result.cut => result.n = Cardinality(Applied)
               /\ ~result.cut /\ ~result.wce =>
                    \A i \in Docs \ (Applied \cup result.errors) :
                      bulk.ordered /\ \E j \in result.errors : j < i
    BY DEF ResultExact
  <2>5. Counted(bulk, applied, call) = Applied
    BY <2>2, <2>3, <2>4 DEF Counted, InBatch, Applied
  <2>6. Covered(bulk, call) = Len(bulk.docs)
    BY <2>4 DEF Covered, Going, InBatch
  <2>7. result.ok => Applied = Docs
    <3>1. result.ok => \A i \in Docs : applied[i] = 1
      BY <2>1, <2>2 DEF ResultOk, CleanOk, AllApplied
    <3> QED
      BY <2>3, <3>1 DEF Applied
  <2>8. result.errors \subseteq Bad
    BY <2>1, <2>2 DEF ResultOk, ErrorsOk, ResultsOf, Bad
  <2>9. /\ result.n <= Cardinality(Applied)
        /\ ~result.cut => result.n = Cardinality(Applied)
    BY <2>1, <2>5 DEF ResultOk, CountOk
  <2>10. ASSUME ~result.cut, ~result.wce,
                NEW i \in Docs \ (Applied \cup result.errors)
         PROVE  bulk.ordered /\ \E j \in result.errors : j < i
    <3>1. Named(bulk, applied, result, i)
      BY <2>1, <2>2, <2>6, <2>10 DEF ResultOk, NamedOk
    <3> QED
      BY <2>3, <2>10, <3>1 DEF Named
  <2> QED
    BY <2>7, <2>8, <2>9, <2>10
<1> QED
  BY <1>1, Inductive, PTL
============================================================================
