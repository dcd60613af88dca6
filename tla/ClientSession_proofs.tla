------------------------ MODULE ClientSession_proofs ------------------------
(***************************************************************************)
(* Proofs about ClientSession.  The parts of the invariant take the state  *)
(* as arguments: n, o, h, ap and cm are the deployment's number, open,     *)
(* home, applied and committed; st, tn, sid and rt the session's           *)
(* txn_state, txn_number, server_id and recovery_token; cl, p, c and q the *)
(* call, its pc, its command and the result; L is late, w is with, k is    *)
(* calls and tr is transient.                                              *)
(***************************************************************************)
EXTENDS ClientSession, FiniteSetTheorems, TLAPS

Active == {"starting", "in_progress"}
Finishes == {"commit", "abort"}

(* Where the thread is: what a call is about, in which state of the        *)
(* transaction, at which place of with_transaction.                        *)
Blank(q) == q.fn = "none" /\ q.kind = "abort" /\ q.labels = {} /\ q.num = 0
ControlOk(st, tn, cl, p, c, q, w) ==
  /\ p = "idle" <=> cl = "none"
  /\ p = "wait" => c.tried
  /\ p = "select" /\ c.tried => c.set
  /\ c.set => c.tried
  /\ cl = "none" => ~c.tried
  /\ cl # "none" => Blank(q)
  /\ cl = "write" => c.msg.kind \in {"write", "statement"}
  /\ cl \in Finishes => c.msg.kind = cl
  /\ st = "ending" <=> cl \in Finishes
  /\ cl = "write" /\ c.msg.kind = "statement" =>
       IF c.tried THEN st = "in_progress" ELSE st \in Active
  /\ cl = "write" /\ c.msg.kind = "write" =>
       IF c.tried THEN st = "none" ELSE st \notin Active /\ tn < MaxTxnNumber
  /\ cl = "write" => w.at \in {"off", "callback"}
  /\ cl = "commit" => w.at \in {"off", "callback", "committed"}
  /\ cl = "abort" => w.at \in {"off", "callback", "aborted"}
  /\ w.at \in {"aborted", "committed"} => st \notin Active

(* The loop and the reply it keeps: a reply that was retried is an error,  *)
(* and unless the write has a number it says that nothing was written.     *)
LoopOk(c) ==
  /\ c.tried => /\ c.loop.elig \in {"none", "overload_only", "retryable_write"}
                /\ c.loop.elig = "retryable_write" <=>
                     c.msg.kind = "write" /\ c.msg.num # 0
  /\ c.set => /\ ~CheckOk(c.kept) /\ "Transient" \notin c.kept.labels
              /\ c.loop.elig = "retryable_write" \/ "NoWrites" \in c.kept.labels

(* Every command that was sent, and the numbers the session has.           *)
MessageOk(m, n, tn, k) ==
  /\ m.num <= tn /\ m.token \in {0, m.num} /\ m.token <= n
  /\ IF m.kind = "write" THEN m.write \in 1 .. k ELSE m.num # 0 /\ m.write = 0
Sent(L, c) == L \cup {m \in {c.msg} : c.tried}
NumbersOk(n, st, tn, rt, cl, c, L, k) ==
  /\ n <= tn
  /\ \A m \in Sent(L, c) : MessageOk(m, n, tn, k)
  /\ rt \in {0, tn} /\ rt <= n
  /\ st = "none" => rt = 0
  /\ st # "none" => tn # 0
  /\ cl \in Finishes => c.msg.num = tn /\ c.msg.token = rt /\ c.msg.write = 0
  /\ cl = "write" /\ c.msg.kind = "statement" => c.msg.write = 0 /\ c.msg.token = 0
  /\ cl = "write" /\ c.msg.kind = "write" =>
       c.msg.write = k /\ k # 0 /\ c.msg.token = 0
  /\ cl = "write" /\ c.tried => c.msg.num \in {0, tn}
  /\ cl = "write" /\ c.tried /\ c.msg.kind = "statement" => c.msg.num = tn

(* Writes outside of transactions.  A number belongs to one write or to    *)
(* one transaction, and tells whether the write was applied; a write       *)
(* without a number has one copy that can arrive.                          *)
IsWrite(m, x) == m.kind = "write" /\ m.write = x
NoCopy(L, x) == \A m \in L : ~IsWrite(m, x)
OwnerOk(st, tn, c, L) ==
  /\ \A m \in Sent(L, c) : m.kind = "write" =>
       /\ \A u \in Sent(L, c) :
            /\ m.num # 0 /\ u.num = m.num => IsWrite(u, m.write)
            /\ IsWrite(u, m.write) => u.num = m.num
       /\ st # "none" => m.num # tn
AppliedOk(n, ap, c, L, k) ==
  /\ \A x \in Writes : ap[x] \in {0, 1} /\ (x > k => ap[x] = 0)
  /\ \A m \in Sent(L, c) : m.kind = "write" /\ m.num # 0 =>
       /\ n = m.num => ap[m.write] = 1
       /\ n < m.num => ap[m.write] = 0
  /\ \A m \in L : m.kind = "write" /\ m.num = 0 =>
       /\ ap[m.write] = 0
       /\ \A u \in L : IsWrite(u, m.write) => u = m

(* A write whose attempts all said so was not written.                     *)
UntouchedOk(ap, cl, c, L) ==
  cl = "write" /\ c.msg.kind = "write"
     /\ (~c.set \/ "NoWrites" \in c.kept.labels) =>
    ap[c.msg.write] = 0 /\ NoCopy(L, c.msg.write)

(* What the result of a write says.                                        *)
WriteResultOk(ap, q, L, k) ==
  q.kind = "write" =>
    /\ q.write \in 1 .. k /\ "Transient" \notin q.labels
    /\ q.ok => ap[q.write] = 1
    /\ "NoWrites" \in q.labels => ap[q.write] = 0 /\ NoCopy(L, q.write)

(* Transactions.  Until its first commit is sent nothing can commit one;   *)
(* a commit that may meet itself asks for a majority.                      *)
NoCommit(L, x) == \A m \in L : m.kind = "commit" => m.num # x
Uncommitted(cm, L, x) == x \notin cm /\ NoCommit(L, x)
CommitOk(n, o, cm, st, tn, cl, L) ==
  /\ \A x \in cm : x <= n
  /\ o => n # 0 /\ n \notin cm
  /\ st \in Active \cup {"aborted", "committed_empty"} => Uncommitted(cm, L, tn)
  /\ cl = "abort" => Uncommitted(cm, L, tn)
FirstCommitOk(cm, tn, cl, c, L) ==
  cl = "commit" /\ ~c.msg.majority => ~c.again /\ Uncommitted(cm, L, tn)
CommitResultOk(cm, du, q) ==
  q.fn = "commit" /\ q.ok /\ q.num # 0 =>
    /\ q.num \in cm
    /\ q.repeat => q.num \in du

(* with_transaction: a transaction that is gone is never committed, as the *)
(* deployment has ended it or as nobody has asked or will ask to commit    *)
(* it.  All are gone but the last; that one is when the next may start.    *)
Gone(x, n, o, cm, st, tn, cl, c, L) ==
  /\ x \notin cm
  /\ \/ x <= n /\ ~(x = n /\ o)
     \/ /\ NoCommit(L, x)
        /\ cl = "commit" => c.msg.num # x
        /\ x = tn => st \notin Active \cup {"committed"}
AllGone(n, o, cm, st, tn, cl, c, L, w) ==
  \A x \in w.nums : Gone(x, n, o, cm, st, tn, cl, c, L)
WithOk(n, o, cm, st, tn, cl, c, q, L, w) ==
  /\ \A x \in w.nums : x <= tn
  /\ \A x, y \in w.nums : x < y => Gone(x, n, o, cm, st, tn, cl, c, L)
  /\ w.at # "off" /\ st # "none" =>
       \A x \in w.nums : x # tn => Gone(x, n, o, cm, st, tn, cl, c, L)
  /\ \/ w.at \in {"start", "restart"}
     \/ w.at = "aborted" /\ "Transient" \in w.labels
     \/ /\ w.at \in {"callback", "committed"} /\ "Transient" \in q.labels
        /\ st \notin Active
     => AllGone(n, o, cm, st, tn, cl, c, L, w)

(* The mongos of a transaction none of whose commands failed: it is the    *)
(* one the session is pinned to, and its recovery token has arrived.       *)
RouteOk(n, o, h, st, tn, sid, rt, cl, c, L, tr) ==
  /\ Sharded /\ cl = "write" /\ c.msg.kind = "statement" /\ c.tried =>
       sid = c.msg.server
  /\ Sharded /\ ~tr /\ st # "none" =>
       /\ \A m \in L : m.kind = "statement" /\ m.start => m.num # tn
       /\ st = "starting" => n < tn
       /\ cl = "write" /\ c.msg.kind = "statement" /\ c.tried /\ c.msg.start =>
            n < tn
       /\ o /\ n = tn => rt = tn /\ (st \in Active => sid = h)

IInv ==
  /\ TypeOK
  /\ ControlOk(txn_state, txn_number, call, pc, cmd, result, with)
  /\ LoopOk(cmd)
  /\ NumbersOk(number, txn_state, txn_number, recovery_token, call, cmd, late,
               calls)
  /\ OwnerOk(txn_state, txn_number, cmd, late)
  /\ AppliedOk(number, applied, cmd, late, calls)
  /\ UntouchedOk(applied, call, cmd, late)
  /\ WriteResultOk(applied, result, late, calls)
  /\ CommitOk(number, open, committed, txn_state, txn_number, call, late)
  /\ FirstCommitOk(committed, txn_number, call, cmd, late)
  /\ CommitResultOk(committed, durable, result)
  /\ WithOk(number, open, committed, txn_state, txn_number, call, cmd, result,
            late, with)
  /\ RouteOk(number, open, home, txn_state, txn_number, server_id,
             recovery_token, call, cmd, late, transient)

----------------------------------------------------------------------------
(***************************************************************************)
(* The deployment.                                                         *)
(***************************************************************************)
(* What a deployment may answer.  Only a success has neither an error nor  *)
(* a writeConcernError, and only an error says that nothing was written.   *)
LEMMA ReplyTyped ==
  ASSUME NEW r \in Replies
  PROVE  /\ r \in ReplyRecords
         /\ CheckOk(r) => r = OkReply
         /\ "NoWrites" \in r.labels => ~r.ok
         /\ "SystemOverloaded" \in r.labels => "NoWrites" \in r.labels
         /\ "SystemOverloaded" \in r.labels => "Transient" \notin r.labels
         /\ r.network = FALSE
         /\ "UnknownCommit" \notin r.labels
<1>1. CASE r \in Ran
  <2>1. PICK c \in {"none", "ShutdownInProgress", "WriteConcernFailed"},
             l \in {{}, {"RetryableWrite"}} :
          r = Reply(TRUE, FALSE, c, l) /\ (c = "none" => r = OkReply)
    BY <1>1 DEF Ran, OkReply
  <2>2. c \in Codes /\ l \in SUBSET Labels
    BY DEF Codes, RetryableCodes, Labels
  <2>3. /\ r.ok = TRUE /\ r.network = FALSE /\ r.labels = l /\ r.code = c
        /\ r \in ReplyRecords
    BY <2>1, <2>2 DEF Reply, ReplyRecords
  <2>4. /\ "NoWrites" \notin l /\ "SystemOverloaded" \notin l
        /\ "UnknownCommit" \notin l
    OBVIOUS
  <2> QED
    BY <2>1, <2>3, <2>4 DEF CheckOk
<1>2. CASE r \notin Ran
  <2>1. r \in [ok : {FALSE}, network : {FALSE},
              code : {"NotPrimary", "NoSuchTransaction", "MaxTimeMSExpired",
                      "other"},
              labels : {{}, {"Transient"}, {"RetryableWrite", "NoWrites"},
                        {"SystemOverloaded", "Retryable", "NoWrites"}}]
    BY <1>2 DEF Replies
  <2>2. r.code \in Codes /\ r.labels \in SUBSET Labels
    BY <2>1 DEF Codes, RetryableCodes, Labels
  <2>3. r.ok = FALSE /\ r.network = FALSE /\ r \in ReplyRecords
    BY <2>1, <2>2 DEF ReplyRecords
  <2>4. /\ "SystemOverloaded" \in r.labels =>
             "NoWrites" \in r.labels /\ "Transient" \notin r.labels
        /\ "UnknownCommit" \notin r.labels
    BY <2>1
  <2> QED
    BY <2>3, <2>4 DEF CheckOk
<1> QED
  BY <1>1, <1>2

(* What the driver may rely on when a command is processed: numbers only   *)
(* grow, and only to those of writes and of transactions that start; a     *)
(* transaction is committed while it is open, and opened by its start; a   *)
(* write is applied when it brings a new number, or none.                  *)
NumberStep(m) ==
  /\ number' \in {number, m.num} /\ number <= number'
  /\ number' # number => m.kind \in {"write", "statement"}
  /\ m.kind = "statement" /\ number' # number => m.start
OpenStep(m) ==
  open' => \/ open /\ number' = number /\ home' = home
           \/ /\ m.kind = "statement" /\ m.start /\ number < m.num
              /\ number' = m.num /\ home' = m.server
CommitStep(m) ==
  /\ \/ committed' = committed
     \/ /\ m.kind = "commit" /\ committed' = committed \cup {m.num}
        /\ m.num = number /\ open /\ ~open'
  /\ durable \subseteq durable'
WriteStep(m) ==
  \/ /\ applied' = applied
     /\ m.kind = "write" => number' = number
  \/ /\ m.kind = "write" /\ (m.num = 0 \/ number < m.num)
     /\ applied' = [applied EXCEPT ![m.write] = @ + 1]
     /\ number' = IF m.num = 0 THEN number ELSE m.num
ReplyStep(m, r) ==
  /\ "NoWrites" \in r.labels => UNCHANGED serverVars
  /\ m.kind = "write" => "Transient" \notin r.labels
  /\ m.kind = "write" /\ CheckOk(r) =>
       \/ applied' = [applied EXCEPT ![m.write] = @ + 1]
       \/ m.num # 0 /\ m.num = number /\ applied' = applied
  /\ m.kind = "statement" /\ r.ok => number' = m.num
  /\ m.kind = "statement" /\ number' # number => r.ok
  /\ m.kind = "commit" /\ CheckOk(r) =>
       \/ m.num = number /\ open /\ m.num \in committed'
       \/ \E x \in {m.num, m.token} :
            x \in committed /\ (m.majority => x \in durable')
  /\ m.kind = "commit" /\ "Transient" \in r.labels =>
       /\ committed' = committed /\ number' = number
       /\ \/ m.num = number /\ m.num \notin committed /\ ~open'
          \/ /\ m.token # 0 /\ m.token \notin committed
             /\ m.token = number => ~open'

Contract(m, r) ==
  /\ NumberStep(m) /\ OpenStep(m) /\ CommitStep(m) /\ WriteStep(m)
  /\ ReplyStep(m, r)

(* A refusal changes nothing.                                              *)
LEMMA RefuseKeeps ==
  ASSUME ServerTypeOK, NEW m \in Messages, NEW r, NEW code, NEW labels,
         Refuse(code, labels, r), "Transient" \notin labels
  PROVE  ServerTypeOK' /\ Contract(m, r)
<1>1. /\ number' = number /\ open' = open /\ home' = home /\ applied' = applied
      /\ committed' = committed /\ durable' = durable
      /\ UNCHANGED serverVars
  BY DEF Refuse, serverVars
<1>2. r.ok = FALSE /\ "Transient" \notin r.labels /\ ~CheckOk(r)
  BY DEF Refuse, CheckOk, Reply
<1>3. number \in Nat
  BY ServerAssumption DEF ServerTypeOK
<1>4. ServerTypeOK'
  BY <1>1 DEF ServerTypeOK
<1>5. NumberStep(m) /\ OpenStep(m) /\ CommitStep(m) /\ WriteStep(m)
  BY <1>1, <1>3 DEF NumberStep, OpenStep, CommitStep, WriteStep
<1>6. ReplyStep(m, r)
  BY <1>1, <1>2 DEF ReplyStep
<1> QED
  BY <1>4, <1>5, <1>6 DEF Contract

(* NoSuchTransaction, for a command that cannot commit.                    *)
LEMMA NoSuchKeeps ==
  ASSUME ServerTypeOK, NEW m \in Messages, NEW r,
         Refuse("NoSuchTransaction", {"Transient"}, r),
         m.kind \in {"statement", "abort"}
  PROVE  ServerTypeOK' /\ Contract(m, r)
<1>1. /\ number' = number /\ open' = open /\ home' = home /\ applied' = applied
      /\ committed' = committed /\ durable' = durable
      /\ UNCHANGED serverVars
  BY DEF Refuse, serverVars
<1>2. r.ok = FALSE /\ ~CheckOk(r)
  BY DEF Refuse, CheckOk, Reply
<1>3. number \in Nat
  BY ServerAssumption DEF ServerTypeOK
<1>4. ServerTypeOK'
  BY <1>1 DEF ServerTypeOK
<1>5. NumberStep(m) /\ OpenStep(m) /\ CommitStep(m) /\ WriteStep(m)
  BY <1>1, <1>3 DEF NumberStep, OpenStep, CommitStep, WriteStep
<1>6. ReplyStep(m, r)
  BY <1>1, <1>2 DEF ReplyStep
<1> QED
  BY <1>4, <1>5, <1>6 DEF Contract

(* A reply to a command that ran.                                          *)
LEMMA RanReply ==
  ASSUME NEW r \in Ran
  PROVE  r.ok = TRUE /\ "NoWrites" \notin r.labels /\ "Transient" \notin r.labels
BY DEF Ran, OkReply, Reply

(* RunWrite.                                                               *)
LEMMA WriteKeeps ==
  ASSUME ServerTypeOK, NEW m \in Messages, NEW r, m.kind = "write",
         m.write \in Writes, RunWrite(m, r)
  PROVE  ServerTypeOK' /\ Contract(m, r)
<1>0. number \in 0 .. MaxTxnNumber /\ m.num \in 0 .. MaxTxnNumber
      /\ MaxTxnNumber \in Nat
  BY ServerAssumption DEF ServerTypeOK, Messages
<1>1. CASE m.num # 0 /\ m.num < number /\ Refuse("other", {}, r)
  BY <1>1, RefuseKeeps
<1>2. CASE m.num # 0 /\ m.num = number /\ r = OkReply /\ UNCHANGED serverVars
  <2>1. /\ number' = number /\ open' = open /\ home' = home /\ applied' = applied
        /\ committed' = committed /\ durable' = durable
    BY <1>2 DEF serverVars
  <2>2. r \in Ran
    BY <1>2 DEF Ran
  <2>3. ServerTypeOK'
    BY <2>1 DEF ServerTypeOK
  <2>4. NumberStep(m) /\ OpenStep(m) /\ CommitStep(m) /\ WriteStep(m)
    BY <1>0, <2>1 DEF NumberStep, OpenStep, CommitStep, WriteStep
  <2>5. ReplyStep(m, r)
    BY <1>2, <2>1, <2>2, RanReply DEF ReplyStep
  <2> QED
    BY <2>3, <2>4, <2>5 DEF Contract
<1>3. CASE /\ m.num = 0 \/ m.num > number
           /\ r \in Ran
           /\ applied' = [applied EXCEPT ![m.write] = @ + 1]
           /\ number' = IF m.num = 0 THEN number ELSE m.num
           /\ open' = (open /\ m.num = 0)
           /\ UNCHANGED <<home, committed, durable>>
  <2>1. home' = home /\ committed' = committed /\ durable' = durable
    BY <1>3
  <2>2. applied' \in [Writes -> Nat]
    BY <1>3 DEF ServerTypeOK
  <2>3. number' \in 0 .. MaxTxnNumber /\ open' \in BOOLEAN
    BY <1>0, <1>3 DEF ServerTypeOK
  <2>4. ServerTypeOK'
    BY <2>1, <2>2, <2>3 DEF ServerTypeOK
  <2>5. NumberStep(m)
    BY <1>0, <1>3 DEF NumberStep
  <2>6. OpenStep(m)
    BY <1>3, <2>1 DEF OpenStep
  <2>7. CommitStep(m) /\ WriteStep(m)
    BY <1>0, <1>3, <2>1 DEF CommitStep, WriteStep
  <2>8. ReplyStep(m, r)
    BY <1>3, RanReply DEF ReplyStep
  <2> QED
    BY <2>4, <2>5, <2>6, <2>7, <2>8 DEF Contract
<1> QED
  BY <1>1, <1>2, <1>3 DEF RunWrite

(* RunStatement.                                                           *)
LEMMA StatementKeeps ==
  ASSUME ServerTypeOK, NEW m \in Messages, NEW r, m.kind = "statement",
         RunStatement(m, r)
  PROVE  ServerTypeOK' /\ Contract(m, r)
<1>0. number \in 0 .. MaxTxnNumber /\ m.num \in 0 .. MaxTxnNumber
      /\ MaxTxnNumber \in Nat /\ m.server \in Servers
  BY ServerAssumption DEF ServerTypeOK, Messages
<1>1. CASE NoSuchTransaction(r)
  BY <1>1, NoSuchKeeps DEF NoSuchTransaction
<1>2. CASE /\ ~m.start /\ m.num = number /\ open /\ home = m.server
           /\ r = OkReply
           /\ UNCHANGED serverVars
  <2>1. /\ number' = number /\ open' = open /\ home' = home /\ applied' = applied
        /\ committed' = committed /\ durable' = durable
    BY <1>2 DEF serverVars
  <2>2. r \in Ran
    BY <1>2 DEF Ran
  <2>3. ServerTypeOK'
    BY <2>1 DEF ServerTypeOK
  <2>4. NumberStep(m) /\ OpenStep(m) /\ CommitStep(m) /\ WriteStep(m)
    BY <1>0, <2>1 DEF NumberStep, OpenStep, CommitStep, WriteStep
  <2>5. ReplyStep(m, r)
    BY <1>2, <2>1, <2>2, RanReply DEF ReplyStep
  <2> QED
    BY <2>3, <2>4, <2>5 DEF Contract
<1>3. CASE /\ m.start /\ m.num > number
           /\ r = OkReply
           /\ number' = m.num /\ open' = TRUE /\ home' = m.server
           /\ UNCHANGED <<applied, committed, durable>>
  <2>1. applied' = applied /\ committed' = committed /\ durable' = durable
    BY <1>3
  <2>2. r \in Ran
    BY <1>3 DEF Ran
  <2>3. ServerTypeOK'
    BY <1>0, <1>3, <2>1 DEF ServerTypeOK
  <2>4. NumberStep(m) /\ OpenStep(m) /\ CommitStep(m) /\ WriteStep(m)
    BY <1>0, <1>3, <2>1 DEF NumberStep, OpenStep, CommitStep, WriteStep
  <2>5. ReplyStep(m, r)
    BY <1>3, <2>1, <2>2, RanReply DEF ReplyStep
  <2> QED
    BY <2>3, <2>4, <2>5 DEF Contract
<1> QED
  BY <1>1, <1>2, <1>3 DEF RunStatement

(* RunAbort.                                                               *)
LEMMA AbortKeeps ==
  ASSUME ServerTypeOK, NEW m \in Messages, NEW r, m.kind = "abort",
         RunAbort(m, r)
  PROVE  ServerTypeOK' /\ Contract(m, r)
<1>0. number \in 0 .. MaxTxnNumber /\ MaxTxnNumber \in Nat
  BY ServerAssumption DEF ServerTypeOK
<1>1. CASE NoSuchTransaction(r)
  BY <1>1, NoSuchKeeps DEF NoSuchTransaction
<1>2. CASE /\ r = OkReply
           /\ open' = FALSE
           /\ UNCHANGED <<number, home, applied, committed, durable>>
  <2>1. /\ number' = number /\ home' = home /\ applied' = applied
        /\ committed' = committed /\ durable' = durable
    BY <1>2
  <2>2. r \in Ran
    BY <1>2 DEF Ran
  <2>3. ServerTypeOK'
    BY <1>2, <2>1 DEF ServerTypeOK
  <2>4. NumberStep(m) /\ OpenStep(m) /\ CommitStep(m) /\ WriteStep(m)
    BY <1>0, <1>2, <2>1 DEF NumberStep, OpenStep, CommitStep, WriteStep
  <2>5. ReplyStep(m, r)
    BY <1>2, <2>1, <2>2, RanReply DEF ReplyStep
  <2> QED
    BY <2>3, <2>4, <2>5 DEF Contract
<1> QED
  BY <1>1, <1>2 DEF RunAbort

(* RunCommit.                                                              *)
LEMMA CommitKeeps ==
  ASSUME ServerTypeOK, NEW m \in Messages, NEW r, m.kind = "commit",
         RunCommit(m, r), open => number # 0
  PROVE  ServerTypeOK' /\ Contract(m, r)
<1>0. /\ number \in 0 .. MaxTxnNumber /\ MaxTxnNumber \in Nat
      /\ m.num \in 0 .. MaxTxnNumber /\ committed \subseteq Numbers
      /\ durable \subseteq Numbers /\ open \in BOOLEAN
  BY ServerAssumption DEF ServerTypeOK, Messages
<1>1. CASE Refuse("other", {}, r) \/ Refuse("MaxTimeMSExpired", {}, r)
  BY <1>1, RefuseKeeps
<1>2. CASE /\ Knows(m) /\ open
           /\ r \in Ran
           /\ committed' = committed \cup {m.num}
           /\ durable' = IF m.majority /\ r = OkReply
                           THEN durable \cup {m.num} ELSE durable
           /\ open' = FALSE
           /\ UNCHANGED <<number, home, applied>>
  <2>1. /\ number' = number /\ home' = home /\ applied' = applied
        /\ m.num = number
    BY <1>2 DEF Knows
  <2>2. m.num \in Numbers
    BY <1>0, <1>2, <2>1 DEF Numbers
  <2>3. durable \subseteq durable' /\ durable' \subseteq Numbers
    BY <1>0, <1>2, <2>2
  <2>4. ServerTypeOK'
    BY <1>0, <1>2, <2>1, <2>2, <2>3 DEF ServerTypeOK
  <2>5. NumberStep(m) /\ OpenStep(m) /\ WriteStep(m)
    BY <1>0, <1>2, <2>1 DEF NumberStep, OpenStep, WriteStep
  <2>6. CommitStep(m)
    BY <1>2, <2>1, <2>3 DEF CommitStep
  <2>7. ReplyStep(m, r)
    BY <1>2, <2>1, RanReply DEF ReplyStep
  <2> QED
    BY <2>4, <2>5, <2>6, <2>7 DEF Contract
<1>3. ASSUME NEW n \in {IF Knows(m) THEN m.num ELSE m.token},
             n \in committed, ~(Knows(m) /\ open),
             r = OkReply,
             durable' = IF m.majority THEN durable \cup {n} ELSE durable,
             UNCHANGED <<number, open, home, applied, committed>>
      PROVE  ServerTypeOK' /\ Contract(m, r)
  <2>1. /\ number' = number /\ home' = home /\ applied' = applied /\ open' = open
        /\ committed' = committed
    BY <1>3
  <2>2. r \in Ran
    BY <1>3 DEF Ran
  <2>3. ServerTypeOK'
    BY <1>0, <1>3, <2>1 DEF ServerTypeOK
  <2>4. NumberStep(m) /\ OpenStep(m) /\ CommitStep(m) /\ WriteStep(m)
    BY <1>0, <1>3, <2>1 DEF NumberStep, OpenStep, CommitStep, WriteStep
  <2>5. n \in {m.num, m.token} /\ (m.majority => n \in durable')
    BY <1>3
  <2>6. ReplyStep(m, r)
    BY <1>3, <2>1, <2>2, <2>5, RanReply DEF ReplyStep
  <2> QED
    BY <2>3, <2>4, <2>6 DEF Contract
<1>4. CASE /\ Knows(m) => ~open /\ m.num \notin committed
           /\ ~Knows(m) => m.token # 0 /\ m.token \notin committed
           /\ r = Reply(FALSE, FALSE, "NoSuchTransaction", {"Transient"})
           /\ open' = (open /\ m.token # number)
           /\ UNCHANGED <<number, home, applied, committed, durable>>
  <2>1. /\ number' = number /\ home' = home /\ applied' = applied
        /\ committed' = committed /\ durable' = durable
    BY <1>4
  <2>2. r.ok = FALSE /\ r.labels = {"Transient"} /\ ~CheckOk(r)
    BY <1>4 DEF CheckOk, Reply
  <2>3. ServerTypeOK'
    BY <1>0, <1>4, <2>1 DEF ServerTypeOK
  <2>4. NumberStep(m) /\ OpenStep(m) /\ CommitStep(m) /\ WriteStep(m)
    BY <1>0, <1>4, <2>1 DEF NumberStep, OpenStep, CommitStep, WriteStep
  <2>5. \/ m.num = number /\ m.num \notin committed /\ ~open'
        \/ m.token # 0 /\ m.token \notin committed /\ (m.token = number => ~open')
    BY <1>4 DEF Knows
  <2>6. ReplyStep(m, r)
    BY <2>1, <2>2, <2>5 DEF ReplyStep
  <2> QED
    BY <2>3, <2>4, <2>6 DEF Contract
<1> QED
  BY <1>1, <1>2, <1>3, <1>4 DEF RunCommit

(* What the driver relies on.                                              *)
LEMMA ProcessContract ==
  ASSUME ServerTypeOK, NEW m \in Messages, NEW r, Process(m, r),
         m.kind = "write" => m.write \in Writes, open => number # 0
  PROVE  ServerTypeOK' /\ Contract(m, r)
<1>1. CASE Refused(r)
  BY <1>1, RefuseKeeps DEF Refused
<1> QED
  BY <1>1, WriteKeeps, StatementKeeps, CommitKeeps, AbortKeeps DEF Process

----------------------------------------------------------------------------
(***************************************************************************)
(* The invariant when the deployment has processed a command m, one that   *)
(* was given up on or the one the driver waits for.                        *)
(***************************************************************************)
(* The types of a command.                                                 *)
LEMMA MessageTyped ==
  ASSUME NEW m \in Messages
  PROVE  /\ m.num \in Nat /\ m.write \in Nat /\ m.token \in Nat
         /\ m.num <= MaxTxnNumber /\ m.write <= MaxWrites /\ m.server \in Servers
         /\ m.token <= MaxTxnNumber
         /\ m.kind \in {"write", "statement", "commit", "abort"}
BY ServerAssumption DEF Messages

(* The types of the numbers.                                               *)
LEMMA NumbersTyped ==
  ASSUME TypeOK
  PROVE  /\ number \in Nat /\ txn_number \in Nat /\ calls \in Nat
         /\ MaxTxnNumber \in Nat /\ MaxWrites \in Nat /\ calls <= MaxWrites
         /\ recovery_token \in Nat /\ txn_number <= MaxTxnNumber
         /\ cmd \in Commands /\ cmd.msg \in Messages
         /\ Sent(late, cmd) \subseteq Messages
<1>1. cmd.msg \in Messages /\ cmd \in Commands /\ late \subseteq Messages
  BY DEF TypeOK, Commands
<1>2. Sent(late, cmd) \subseteq Messages
  BY <1>1 DEF Sent
<1> QED
  BY <1>1, <1>2, ServerAssumption, SessionAssumption DEF TypeOK, ServerTypeOK

Reached(m) == number' \in {number, m.num} /\ number <= number' /\ number' \in Nat

(* The numbers.                                                            *)
LEMMA ServerNumbers ==
  ASSUME IInv, NEW m \in Sent(late, cmd), Reached(m), NEW L \in SUBSET late
  PROVE  NumbersOk(number', txn_state, txn_number, recovery_token, call, cmd, L,
                   calls)
<1>1. NumbersOk(number, txn_state, txn_number, recovery_token, call, cmd, late,
                calls)
  BY DEF IInv
<1>2. number \in Nat /\ txn_number \in Nat /\ number' \in Nat
      /\ \A u \in Sent(late, cmd) : u.num \in Nat /\ u.token \in Nat
  BY NumbersTyped, MessageTyped DEF IInv, Reached
<1>3. Sent(L, cmd) \subseteq Sent(late, cmd)
  BY DEF Sent
<1>4. number <= number' /\ number' <= txn_number
  BY <1>1, <1>2 DEF Reached, NumbersOk, MessageOk
<1>5. ASSUME NEW u \in Sent(L, cmd)
      PROVE  MessageOk(u, number', txn_number, calls)
  <2>1. MessageOk(u, number, txn_number, calls) /\ u.token \in Nat
    BY <1>1, <1>2, <1>3 DEF NumbersOk
  <2> QED
    BY <2>1, <1>2, <1>4 DEF MessageOk
<1>6. recovery_token <= number'
  BY <1>1, <1>2, <1>4, NumbersTyped DEF NumbersOk, IInv
<1> QED
  BY <1>1, <1>4, <1>5, <1>6 DEF NumbersOk

(* Who owns a number.                                                      *)
LEMMA FewerOwners ==
  ASSUME NEW st, NEW tn, NEW c, NEW K, OwnerOk(st, tn, c, K), NEW L \in SUBSET K
  PROVE  OwnerOk(st, tn, c, L)
<1>1. Sent(L, c) \subseteq Sent(K, c)
  BY DEF Sent
<1> QED
  BY <1>1 DEF OwnerOk

(* What was applied: m is not in L, unless it is the command that runs.    *)
LEMMA ServerApplied ==
  ASSUME IInv, NEW m \in Sent(late, cmd), Reached(m), WriteStep(m),
         NumberStep(m), NEW L \in SUBSET late,
         \/ m \notin L /\ m \in late
         \/ m = cmd.msg /\ cmd.tried
  PROVE  AppliedOk(number', applied', cmd, L, calls)
<1>1. /\ AppliedOk(number, applied, cmd, late, calls)
      /\ UntouchedOk(applied, call, cmd, late)
      /\ OwnerOk(txn_state, txn_number, cmd, late)
      /\ applied \in [Writes -> Nat]
      /\ ControlOk(txn_state, txn_number, call, pc, cmd, result, with)
      /\ LoopOk(cmd)
  BY DEF IInv, TypeOK, ServerTypeOK
<1>2. /\ number \in Nat /\ number' \in Nat /\ calls \in Nat /\ m.num \in Nat
      /\ \A u \in Sent(late, cmd) : u.num \in Nat /\ u.write \in Nat
  BY NumbersTyped, MessageTyped DEF IInv, Reached
<1>3. /\ Sent(L, cmd) \subseteq Sent(late, cmd)
      /\ \A u \in Sent(late, cmd) : u.kind = "write" => u.write \in 1 .. calls
  BY DEF Sent, IInv, NumbersOk, MessageOk
<1>4. 1 .. calls \subseteq Writes
  BY NumbersTyped DEF IInv, Writes
<1>5. CASE applied' = applied /\ (m.kind = "write" => number' = number)
  <2>1. ASSUME NEW u \in Sent(L, cmd), u.kind = "write", u.num # 0
        PROVE  /\ number' = u.num => applied'[u.write] = 1
               /\ number' < u.num => applied'[u.write] = 0
    <3>1. /\ number = u.num => applied[u.write] = 1
          /\ number < u.num => applied[u.write] = 0
      BY <1>1, <1>3, <2>1 DEF AppliedOk
    <3>2. CASE number' = number
      BY <1>5, <3>1, <3>2
    <3>3. CASE number' # number
      <4>1. number' = m.num /\ m.kind # "write"
        BY <1>2, <1>5, <3>3 DEF Reached, WriteStep, NumberStep
      <4>2. u.num # m.num
        BY <1>1, <1>3, <2>1, <4>1 DEF OwnerOk, IsWrite
      <4>3. number <= number' /\ u.num \in Nat
        BY <1>2, <1>3 DEF Reached
      <4> QED
        BY <1>2, <1>5, <3>1, <4>1, <4>2, <4>3
    <3> QED
      BY <3>2, <3>3
  <2> QED
    BY <1>1, <1>5, <2>1 DEF AppliedOk
<1>6. CASE /\ m.kind = "write" /\ (m.num = 0 \/ number < m.num)
           /\ applied' = [applied EXCEPT ![m.write] = @ + 1]
           /\ number' = IF m.num = 0 THEN number ELSE m.num
  <2>1. m.write \in Writes /\ m.write \in 1 .. calls
    BY <1>3, <1>4, <1>6
  <2>2. applied[m.write] = 0
    <3>1. CASE m.num # 0
      BY <1>1, <1>6, <3>1 DEF AppliedOk
    <3>2. CASE m.num = 0 /\ m \in late
      BY <1>1, <1>6, <3>2 DEF AppliedOk
    <3>3. CASE m.num = 0 /\ m = cmd.msg /\ cmd.tried
      <4>1. call = "write" /\ (~cmd.set \/ "NoWrites" \in cmd.kept.labels)
        BY <1>1, <1>6, <3>3 DEF ControlOk, LoopOk, IInv, TypeOK, CallNames, Finishes
      <4> QED
        BY <1>1, <1>6, <3>3, <4>1 DEF UntouchedOk
    <3> QED
      BY <3>1, <3>2, <3>3
  <2>3. applied'[m.write] = 1
        /\ \A x \in Writes : x # m.write => applied'[x] = applied[x]
    BY <1>1, <1>6, <2>1, <2>2
  <2>4. \A x \in Writes : applied'[x] \in {0, 1} /\ (x > calls => applied'[x] = 0)
    BY <1>1, <1>2, <2>1, <2>3 DEF AppliedOk
  <2>5. ASSUME NEW u \in Sent(L, cmd), u.kind = "write", u.num # 0
        PROVE  /\ number' = u.num => applied'[u.write] = 1
               /\ number' < u.num => applied'[u.write] = 0
    <3>1. /\ number = u.num => applied[u.write] = 1
          /\ number < u.num => applied[u.write] = 0
          /\ u.write \in Writes
      BY <1>1, <1>3, <1>4, <2>5 DEF AppliedOk
    <3>2. CASE u.write = m.write
      <4>1. u.num = m.num
        BY <1>1, <1>3, <1>6, <2>5, <3>2 DEF OwnerOk, IsWrite
      <4> QED
        BY <1>2, <1>6, <2>3, <2>5, <3>2, <4>1
    <3>3. CASE u.write # m.write
      <4>1. m.num # 0 => u.num # m.num
        BY <1>1, <1>3, <1>6, <2>5, <3>3 DEF OwnerOk, IsWrite
      <4>2. applied'[u.write] = applied[u.write]
        BY <2>3, <3>1, <3>3
      <4> QED
        BY <1>2, <1>3, <1>6, <3>1, <4>1, <4>2
    <3> QED
      BY <3>2, <3>3
  <2>6. ASSUME NEW u \in L, u.kind = "write", u.num = 0
        PROVE  /\ applied'[u.write] = 0
               /\ \A v \in L : IsWrite(v, u.write) => v = u
    <3>1. /\ applied[u.write] = 0 /\ u.write \in Writes
          /\ \A v \in late : IsWrite(v, u.write) => v = u
      BY <1>1, <1>3, <1>4, <2>6 DEF AppliedOk, Sent
    <3>2. u.write # m.write
      <4>1. CASE m \in late /\ m \notin L
        BY <1>6, <3>1, <4>1 DEF IsWrite
      <4>2. CASE m = cmd.msg /\ cmd.tried
        <5>1. ASSUME u.write = m.write PROVE m.num = 0
          BY <1>1, <1>6, <2>6, <5>1 DEF OwnerOk, IsWrite, Sent
        <5>2. ASSUME m.num = 0 PROVE NoCopy(late, m.write)
          BY <1>1, <1>6, <4>2, <5>2 DEF ControlOk, LoopOk, UntouchedOk, IInv,
             TypeOK, CallNames, Finishes
        <5> QED
          BY <2>6, <5>1, <5>2 DEF NoCopy, IsWrite
      <4> QED
        BY <4>1, <4>2
    <3> QED
      BY <2>3, <3>1, <3>2
  <2> QED
    BY <2>4, <2>5, <2>6 DEF AppliedOk
<1> QED
  BY <1>5, <1>6 DEF WriteStep

(* The kind of a command that was sent tells the call.                     *)
LEMMA TriedCall ==
  ASSUME IInv, cmd.tried
  PROVE  /\ call # "none" /\ Blank(result)
         /\ cmd.msg.kind \in {"write", "statement"} <=> call = "write"
         /\ cmd.msg.kind = "commit" <=> call = "commit"
         /\ cmd.msg.kind = "abort" <=> call = "abort"
         /\ call = "write" /\ cmd.msg.kind = "write" => txn_state = "none"
         /\ call = "write" /\ cmd.msg.kind = "statement" =>
              txn_state = "in_progress"
         /\ call \in Finishes => txn_state = "ending"
<1>1. call \in CallNames /\ cmd.msg \in Messages
      /\ ControlOk(txn_state, txn_number, call, pc, cmd, result, with)
  BY NumbersTyped DEF IInv, TypeOK
<1>2. call # "none" /\ Blank(result)
  BY <1>1 DEF ControlOk
<1>3. call \in {"write", "commit", "abort"}
  BY <1>1, <1>2 DEF CallNames
<1>4. CASE call = "write"
  BY <1>1, <1>2, <1>4 DEF ControlOk, Finishes
<1>5. CASE call \in Finishes
  BY <1>1, <1>2, <1>5 DEF ControlOk, Finishes
<1> QED
  BY <1>3, <1>4, <1>5 DEF Finishes

(* A transaction that is not committed and that nobody asks to commit      *)
(* stays so.                                                               *)
LEMMA ServerUncommitted ==
  ASSUME NEW m, CommitStep(m), NEW x, Uncommitted(committed, late, x),
         m \in late \/ m.kind # "commit", NEW L \in SUBSET late
  PROVE  Uncommitted(committed', L, x)
BY DEF Uncommitted, NoCommit, CommitStep

(* Transactions.                                                           *)
LEMMA ServerCommits ==
  ASSUME IInv, NEW m \in Sent(late, cmd), Reached(m), NumberStep(m),
         OpenStep(m), CommitStep(m), NEW L \in SUBSET late,
         m \in late \/ (m = cmd.msg /\ cmd.tried)
  PROVE  CommitOk(number', open', committed', txn_state, txn_number, call, L)
<1>1. /\ CommitOk(number, open, committed, txn_state, txn_number, call, late)
      /\ committed \subseteq Nat
      /\ ControlOk(txn_state, txn_number, call, pc, cmd, result, with)
  BY DEF IInv, TypeOK, ServerTypeOK, Numbers
<1>2. number \in Nat /\ number' \in Nat /\ number <= number' /\ m.num \in Nat
  BY NumbersTyped, MessageTyped DEF IInv, Reached
<1>3. \A x \in committed' : x <= number'
  BY <1>1, <1>2 DEF CommitOk, CommitStep
<1>4. ASSUME open' PROVE number' # 0 /\ number' \notin committed'
  <2>1. committed' = committed
    BY <1>4 DEF CommitStep
  <2>2. CASE open /\ number' = number /\ home' = home
    BY <1>1, <2>1, <2>2 DEF CommitOk
  <2>3. CASE number < m.num /\ number' = m.num
    BY <1>1, <1>2, <2>1, <2>3 DEF CommitOk
  <2> QED
    BY <1>4, <2>2, <2>3 DEF OpenStep
<1>5. \/ m \in late \/ m.kind # "commit"
      \/ call = "commit" /\ txn_state = "ending"
  BY TriedCall DEF Finishes
<1>6. ASSUME \/ txn_state \in Active \cup {"aborted", "committed_empty"}
             \/ call = "abort"
      PROVE  Uncommitted(committed', L, txn_number)
  <2>1. m \in late \/ m.kind # "commit"
    BY <1>5, <1>6 DEF Active
  <2>2. Uncommitted(committed, late, txn_number)
    BY <1>1, <1>6 DEF CommitOk
  <2> QED
    BY <2>1, <2>2, ServerUncommitted
<1> QED
  BY <1>3, <1>4, <1>6 DEF CommitOk

(* A transaction that is gone stays so.                                    *)
LEMMA ServerGone ==
  ASSUME NEW x \in Nat, NEW m, Reached(m), OpenStep(m), CommitStep(m), m.num \in Nat,
         number \in Nat, NEW st, NEW tn,
         Gone(x, number, open, committed, st, tn, call, cmd, late),
         \/ m \in late
         \/ m = cmd.msg /\ (m.kind = "commit" => call = "commit"),
         NEW L \in SUBSET late
  PROVE  Gone(x, number', open', committed', st, tn, call, cmd, L)
<1>1. number \in Nat /\ number' \in Nat /\ number <= number'
  BY DEF Reached
<1>2. CASE x <= number /\ ~(x = number /\ open)
  <2>1. x \notin committed'
    BY <1>2 DEF CommitStep, Gone
  <2>2. x <= number'
    BY <1>1, <1>2
  <2>3. ~(x = number' /\ open')
    BY <1>1, <1>2 DEF OpenStep
  <2> QED
    BY <2>1, <2>2, <2>3 DEF Gone
<1>3. CASE /\ NoCommit(late, x)
           /\ call = "commit" => cmd.msg.num # x
           /\ x = tn => st \notin Active \cup {"committed"}
  <2>1. x \notin committed'
    BY <1>3 DEF CommitStep, Gone, NoCommit
  <2>2. NoCommit(L, x)
    BY <1>3 DEF NoCommit
  <2> QED
    BY <1>3, <2>1, <2>2 DEF Gone
<1> QED
  BY <1>2, <1>3 DEF Gone

(* with_transaction.                                                       *)
LEMMA ServerWith ==
  ASSUME IInv, NEW m \in Sent(late, cmd), Reached(m),
         OpenStep(m), CommitStep(m), NEW L \in SUBSET late,
         m \in late \/ (m = cmd.msg /\ cmd.tried)
  PROVE  WithOk(number', open', committed', txn_state, txn_number, call, cmd,
                result, L, with)
<1>1. /\ WithOk(number, open, committed, txn_state, txn_number, call, cmd,
                result, late, with)
      /\ with.nums \subseteq Nat
  BY DEF IInv, TypeOK, Withs, Numbers
<1>2. m.num \in Nat /\ number \in Nat
  BY NumbersTyped, MessageTyped DEF IInv
<1>3. \/ m \in late
      \/ m = cmd.msg /\ (m.kind = "commit" => call = "commit")
  BY TriedCall
<1>4. ASSUME NEW x \in with.nums,
             Gone(x, number, open, committed, txn_state, txn_number, call, cmd, late)
      PROVE  Gone(x, number', open', committed', txn_state, txn_number, call, cmd, L)
  BY <1>1, <1>2, <1>3, <1>4, ServerGone
<1> QED
  BY <1>1, <1>4 DEF WithOk, AllGone

(* A command that was given up on is processed.                            *)
LEMMA LateStep ==
  ASSUME IInv, ProcessLate
  PROVE  IInv'
<1>1. PICK m \in late : late' = late \ {m} /\ \E r \in Replies : Process(m, r)
  BY DEF ProcessLate
<1>2. PICK r \in Replies : Process(m, r)
  BY <1>1
<1>3. /\ txn_state' = txn_state /\ txn_number' = txn_number /\ dirty' = dirty
      /\ server_id' = server_id /\ recovery_token' = recovery_token
      /\ call' = call /\ pc' = pc /\ cmd' = cmd /\ result' = result
      /\ calls' = calls /\ with' = with /\ transient' = transient
  BY DEF ProcessLate, txnVars, callVars
<1>4. m \in Sent(late, cmd) /\ m \in Messages /\ late' \in SUBSET late /\ m \notin late'
  BY <1>1, NumbersTyped DEF Sent, IInv
<1>5. /\ m.kind = "write" => m.write \in Writes /\ m.write \in 1 .. calls
      /\ open => number # 0
      /\ MessageOk(m, number, txn_number, calls)
  BY <1>4, NumbersTyped DEF IInv, NumbersOk, MessageOk, Writes, CommitOk
<1>6. ServerTypeOK' /\ Contract(m, r)
  BY <1>2, <1>4, <1>5, ProcessContract DEF IInv, TypeOK
<1>7. Reached(m) /\ NumberStep(m) /\ OpenStep(m) /\ CommitStep(m) /\ WriteStep(m)
  BY <1>6, ServerAssumption DEF Contract, NumberStep, Reached, ServerTypeOK
<1>8. TypeOK'
  BY <1>3, <1>4, <1>6 DEF IInv, TypeOK
<1>9. /\ NumbersOk(number', txn_state, txn_number, recovery_token, call, cmd,
                   late', calls)
      /\ OwnerOk(txn_state, txn_number, cmd, late')
      /\ AppliedOk(number', applied', cmd, late', calls)
      /\ CommitOk(number', open', committed', txn_state, txn_number, call, late')
      /\ WithOk(number', open', committed', txn_state, txn_number, call, cmd,
                result, late', with)
  BY <1>4, <1>7, ServerNumbers, FewerOwners, ServerApplied, ServerCommits,
     ServerWith DEF IInv
<1>10. UntouchedOk(applied', call, cmd, late')
  <2>1. ASSUME call = "write", cmd.msg.kind = "write",
               ~cmd.set \/ "NoWrites" \in cmd.kept.labels
        PROVE  applied'[cmd.msg.write] = 0 /\ NoCopy(late', cmd.msg.write)
    <3>1. /\ applied[cmd.msg.write] = 0 /\ NoCopy(late, cmd.msg.write)
          /\ cmd.msg.write = calls /\ calls # 0
      BY <2>1 DEF IInv, UntouchedOk, NumbersOk
    <3>2. NoCopy(late', cmd.msg.write)
      BY <1>4, <3>1 DEF NoCopy
    <3>3. cmd.msg.write \in Writes /\ applied \in [Writes -> Nat]
      BY <3>1, NumbersTyped DEF IInv, TypeOK, ServerTypeOK, Writes
    <3>4. m.kind = "write" => m.write # cmd.msg.write
      BY <3>1 DEF NoCopy, IsWrite
    <3>5. applied'[cmd.msg.write] = 0
      BY <1>7, <3>1, <3>3, <3>4 DEF WriteStep
    <3> QED
      BY <3>2, <3>5
  <2> QED
    BY <2>1 DEF UntouchedOk
<1>11. WriteResultOk(applied', result, late', calls)
  <2>1. ASSUME result.kind = "write"
        PROVE  /\ result.ok => applied'[result.write] = 1
               /\ "NoWrites" \in result.labels =>
                    applied'[result.write] = 0 /\ NoCopy(late', result.write)
    <3>1. /\ result.ok => applied[result.write] = 1
          /\ "NoWrites" \in result.labels =>
               applied[result.write] = 0 /\ NoCopy(late, result.write)
          /\ result.write \in 1 .. calls
      BY <2>1 DEF IInv, WriteResultOk
    <3>2. result.write \in Writes /\ applied \in [Writes -> Nat]
      BY <3>1, NumbersTyped DEF IInv, TypeOK, ServerTypeOK, Writes
    <3>3. result.ok => applied'[result.write] = 1
      <4>1. applied'[result.write] \in {0, 1}
        BY <1>9, <3>2 DEF AppliedOk
      <4>2. ASSUME applied[result.write] = 1 PROVE applied'[result.write] # 0
        BY <1>5, <1>7, <3>2, <4>2 DEF WriteStep
      <4> QED
        BY <3>1, <4>1, <4>2
    <3>4. ASSUME "NoWrites" \in result.labels
          PROVE  applied'[result.write] = 0 /\ NoCopy(late', result.write)
      <4>1. m.kind = "write" => m.write # result.write
        BY <3>1, <3>4 DEF NoCopy, IsWrite
      <4>2. applied'[result.write] = 0
        BY <1>7, <3>1, <3>2, <3>4, <4>1 DEF WriteStep
      <4> QED
        BY <1>4, <3>1, <3>4, <4>2 DEF NoCopy
    <3> QED
      BY <3>3, <3>4
  <2> QED
    BY <2>1 DEF WriteResultOk, IInv
<1>12. FirstCommitOk(committed', txn_number, call, cmd, late')
  BY <1>1, <1>4, <1>7, ServerUncommitted DEF FirstCommitOk, IInv
<1>13. CommitResultOk(committed', durable', result)
  <2>1. committed \subseteq committed' /\ durable \subseteq durable'
    BY <1>7 DEF CommitStep
  <2> QED
    BY <2>1 DEF CommitResultOk, IInv
<1>14. RouteOk(number', open', home', txn_state, txn_number, server_id,
               recovery_token, call, cmd, late', transient)
  <2>0. /\ RouteOk(number, open, home, txn_state, txn_number, server_id,
                   recovery_token, call, cmd, late, transient)
        /\ OwnerOk(txn_state, txn_number, cmd, late)
        /\ number <= txn_number /\ number' <= txn_number
    BY <1>9 DEF IInv, NumbersOk
  <2>1. number \in Nat /\ number' \in Nat /\ txn_number \in Nat /\ m.num \in Nat
    BY <1>4, <1>7, NumbersTyped, MessageTyped DEF IInv, Reached
  <2>2. ASSUME Sharded, ~transient, txn_state # "none"
        PROVE  number' = number \/ number' < txn_number
    <3>1. ASSUME number' # number PROVE number' = m.num /\ m.num # txn_number
      <4>1. CASE m.kind = "write"
        BY <1>4, <1>7, <2>0, <2>2, <3>1, <4>1 DEF OwnerOk, Reached
      <4>2. CASE m.kind = "statement" /\ m.start
        BY <1>7, <2>0, <2>2, <3>1, <4>2 DEF RouteOk, Reached
      <4> QED
        BY <1>7, <3>1, <4>1, <4>2 DEF NumberStep
    <3> QED
      BY <2>0, <2>1, <3>1
  <2>3. ASSUME Sharded, ~transient, txn_state # "none", open', number' = txn_number
        PROVE  open /\ number = txn_number /\ home' = home
    BY <1>7, <2>1, <2>2, <2>3 DEF OpenStep
  <2>4. \A u \in late' : u \in late
    BY <1>4
  <2>5. ASSUME Sharded, ~transient, txn_state # "none", number < txn_number
        PROVE  number' < txn_number
    BY <2>2, <2>5
  <2> QED
    BY <2>0, <2>3, <2>4, <2>5 DEF RouteOk
<1> QED
  BY <1>3, <1>8, <1>9, <1>10, <1>11, <1>12, <1>13, <1>14 DEF IInv

----------------------------------------------------------------------------
(***************************************************************************)
(* The end of a command.                                                   *)
(***************************************************************************)
(* The parts of the invariant between the answer to a command, or its      *)
(* failure, and what the driver makes of it; p is where it leaves the      *)
(* session pinned.                                                         *)
Answering(p) ==
  /\ ServerTypeOK' /\ late' \in SUBSET Messages
  /\ dirty' \in BOOLEAN /\ transient' \in BOOLEAN
  /\ recovery_token' \in 0 .. MaxTxnNumber
  /\ txn_number' = txn_number /\ calls' = calls /\ with' = with
  /\ NumbersOk(number', txn_state, txn_number, recovery_token', call, cmd, late',
               calls)
  /\ OwnerOk(txn_state, txn_number, cmd, late')
  /\ AppliedOk(number', applied', cmd, late', calls)
  /\ CommitOk(number', open', committed', txn_state, txn_number, call, late')
  /\ WithOk(number', open', committed', txn_state, txn_number, call, cmd, result,
            late', with)
  /\ Sharded /\ ~transient' /\ txn_state # "none" =>
       /\ \A m \in late' : m.kind = "statement" /\ m.start => m.num # txn_number
       /\ txn_state = "starting" => number' < txn_number
       /\ open' /\ number' = txn_number =>
            recovery_token' = txn_number /\ (txn_state \in Active => p = home')

(* What the reply r, which the loop returns with ok, says of the command.  *)
Ended(x) == x \notin committed' /\ x <= number' /\ ~(x = number' /\ open')
Outcome(ok, r) ==
  /\ ok \in BOOLEAN /\ r \in ReplyRecords
  /\ call = "write" /\ cmd.msg.kind = "write" =>
       /\ "Transient" \notin r.labels
       /\ ok => applied'[cmd.msg.write] = 1
       /\ "NoWrites" \in r.labels =>
            applied'[cmd.msg.write] = 0 /\ NoCopy(late', cmd.msg.write)
  /\ call = "commit" =>
       /\ ok => /\ cmd.msg.num \in committed'
                /\ cmd.msg.num \in committed => cmd.msg.num \in durable'
       /\ "Transient" \in r.labels => Ended(cmd.msg.num)

(* A command that was not sent yet.                                        *)
LEMMA NewCommandTyped ==
  ASSUME NEW m \in Messages
  PROVE  /\ NewCommand(m) \in Commands
         /\ NewCommand(m).msg = m /\ NewCommand(m).tried = FALSE
         /\ NewCommand(m).set = FALSE /\ NewCommand(m).again = FALSE
<1>1. AServer \in Servers
  BY RetryAssumption DEF AServer
<1>2. NewLoop("none", AServer) \in Loops
  BY <1>1 DEF NewLoop, Loops, Eligibilities
<1>3. OkReply \in ReplyRecords
  BY DEF OkReply, Reply, ReplyRecords, Codes, Labels
<1> QED
  BY <1>2, <1>3 DEF NewCommand, Commands

(* No command.                                                             *)
LEMMA NoCommandTyped ==
  /\ NoMessage \in Messages /\ NoCommand \in Commands /\ NoCommand.msg = NoMessage
  /\ NoCommand.tried = FALSE /\ NoCommand.set = FALSE /\ NoCommand.again = FALSE
<1>1. AServer \in Servers
  BY RetryAssumption DEF AServer
<1>2. NoMessage \in Messages
  BY <1>1, ServerAssumption DEF NoMessage, Messages
<1> QED
  BY <1>2, NewCommandTyped DEF NoCommand

(* The sent commands without the one that ended.                           *)
LEMMA SentUntried ==
  ASSUME NEW L, NEW c, c.tried = FALSE
  PROVE  Sent(L, c) = L
BY DEF Sent

(* The parts about numbers, owners and writes for a command that is not    *)
(* sent yet.                                                               *)
LEMMA FewerSent ==
  ASSUME NEW c, c.tried = FALSE, NEW st, NEW t, t # "none" => st # "none",
         NEW n, NEW tn, NEW rt, NEW cl, NEW L, NEW k, NEW ap,
         OwnerOk(st, tn, cmd, L), AppliedOk(n, ap, cmd, L, k)
  PROVE  OwnerOk(t, tn, c, L) /\ AppliedOk(n, ap, c, L, k)
<1>1. Sent(L, c) = L /\ L \subseteq Sent(L, cmd)
  BY SentUntried DEF Sent
<1>2. OwnerOk(t, tn, c, L)
  BY <1>1 DEF OwnerOk
<1>3. AppliedOk(n, ap, c, L, k)
  BY <1>1 DEF AppliedOk
<1> QED
  BY <1>2, <1>3

(* A call returns.                                                         *)
LEMMA ReturnStep ==
  ASSUME IInv, call # "none", NEW p \in Servers \cup {0}, Answering(p),
         NEW ok, NEW r, Outcome(ok, r), NEW q \in Results,
         call' = "none", pc' = "idle", cmd' = NoCommand, server_id' = p,
         result' = q, q.kind = cmd.msg.kind, q.fn = call, q.write = cmd.msg.write,
         q.num = cmd.msg.num, q.repeat = (cmd.msg.num \in committed),
         call # "abort" => q.ok = ok /\ q.labels \ {"UnknownCommit"} \subseteq r.labels,
         call = "abort" => q.labels = {},
         txn_state' = CASE call = "write" -> txn_state
                        [] call = "commit" -> "committed"
                        [] call = "abort" -> "aborted"
  PROVE  IInv'
<1> USE NoCommandTyped
<1>1. /\ ControlOk(txn_state, txn_number, call, pc, cmd, result, with)
      /\ call \in {"write", "commit", "abort"} /\ txn_state \in TxnStates
      /\ txn_number' = txn_number /\ calls' = calls /\ with' = with
      /\ txn_number \in Nat /\ number' \in Nat
  BY NumbersTyped, ServerAssumption DEF IInv, TypeOK, CallNames, Answering, ServerTypeOK
<1>2. /\ call = "write" => txn_state' = txn_state
      /\ call = "commit" => txn_state' = "committed"
      /\ call = "abort" => txn_state' = "aborted"
  BY <1>1
<1>3. TypeOK'
  <2>1. txn_state' \in TxnStates
    BY <1>1, <1>2 DEF TxnStates
  <2> QED
    BY <1>1, <2>1 DEF TypeOK, IInv, Answering, CallNames
<1>4. ControlOk(txn_state', txn_number, "none", "idle", NoCommand, q, with)
  BY <1>1, <1>2 DEF ControlOk, Finishes, Active
<1>5. LoopOk(NoCommand)
  BY DEF LoopOk
<1>6. Sent(late', NoCommand) = late' /\ late' \subseteq Sent(late', cmd)
  BY SentUntried DEF Sent
<1>7. txn_state' # "none" <=> txn_state # "none"
  BY <1>1, <1>2 DEF ControlOk, Finishes
<1>8. NumbersOk(number', txn_state', txn_number, recovery_token', "none", NoCommand,
                late', calls)
  BY <1>6, <1>7 DEF NumbersOk, Answering, Finishes
<1>9. OwnerOk(txn_state', txn_number, NoCommand, late')
      /\ AppliedOk(number', applied', NoCommand, late', calls)
  BY <1>7, FewerSent DEF Answering
<1>10. UntouchedOk(applied', "none", NoCommand, late')
  BY DEF UntouchedOk
<1>11. WriteResultOk(applied', q, late', calls)
  <2>1. ASSUME q.kind = "write"
        PROVE  call = "write" /\ cmd.msg.kind = "write" /\ cmd.msg.write = calls
               /\ calls # 0 /\ calls \in Nat
    BY <1>1, <2>1, NumbersTyped DEF ControlOk, Finishes, IInv, NumbersOk
  <2> QED
    BY <2>1 DEF WriteResultOk, Outcome
<1>12. CommitOk(number', open', committed', txn_state', txn_number, "none", late')
  BY <1>1, <1>2 DEF CommitOk, Answering, Active, ControlOk, Finishes
<1>13. FirstCommitOk(committed', txn_number, "none", NoCommand, late')
  BY DEF FirstCommitOk
<1>14. CommitResultOk(committed', durable', q)
  BY DEF CommitResultOk, Outcome
<1>15. WithOk(number', open', committed', txn_state', txn_number, "none", NoCommand,
              q, late', with)
  <2>0. WithOk(number', open', committed', txn_state, txn_number, call, cmd, result,
               late', with)
    BY DEF Answering
  <2>1. ASSUME NEW x,
               Gone(x, number', open', committed', txn_state, txn_number, call, cmd,
                    late')
        PROVE  Gone(x, number', open', committed', txn_state', txn_number, "none",
                    NoCommand, late')
    <3>1. call = "commit" => cmd.msg.num = txn_number
      BY DEF IInv, NumbersOk, Finishes
    <3> QED
      BY <1>1, <1>2, <2>1, <3>1 DEF Gone, Active
  <2>2. ASSUME with.at \in {"callback", "committed"}, "Transient" \in q.labels,
               txn_state' \notin Active
        PROVE  AllGone(number', open', committed', txn_state', txn_number, "none",
                       NoCommand, late', with)
    <3>1. call # "abort" /\ "Transient" \in r.labels
      BY <2>2
    <3>2. call = "commit"
      <4>1. CASE call = "write" /\ cmd.msg.kind = "write"
        BY <3>1, <4>1 DEF Outcome
      <4>2. CASE call = "write" /\ cmd.msg.kind = "statement"
        BY <1>1, <1>2, <2>2, <4>2 DEF ControlOk, Active
      <4> QED
        BY <1>1, <3>1, <4>1, <4>2 DEF ControlOk
    <3>3. Ended(txn_number)
      BY <3>1, <3>2 DEF Outcome, IInv, NumbersOk, Finishes
    <3>4. txn_state # "none"
      BY <1>1, <3>2 DEF ControlOk, Finishes
    <3>5. ASSUME NEW x \in with.nums
          PROVE  Gone(x, number', open', committed', txn_state', txn_number, "none",
                      NoCommand, late')
      <4>1. CASE x = txn_number
        BY <3>3, <4>1 DEF Ended, Gone
      <4>2. CASE x # txn_number
        BY <2>0, <2>1, <2>2, <3>4, <4>2 DEF WithOk
      <4> QED
        BY <4>1, <4>2
    <3> QED
      BY <3>5 DEF AllGone
  <2>3. with.at \in {"start", "restart"} \/ (with.at = "aborted" /\ "Transient" \in with.labels) =>
          AllGone(number', open', committed', txn_state', txn_number, "none",
                  NoCommand, late', with)
    BY <2>0, <2>1 DEF WithOk, AllGone
  <2>4. /\ \A x \in with.nums : x <= txn_number
        /\ \A x, y \in with.nums : x < y =>
             Gone(x, number', open', committed', txn_state', txn_number, "none",
                  NoCommand, late')
        /\ with.at # "off" /\ txn_state' # "none" =>
             \A x \in with.nums : x # txn_number =>
               Gone(x, number', open', committed', txn_state', txn_number, "none",
                    NoCommand, late')
    BY <1>7, <2>0, <2>1 DEF WithOk
  <2> QED
    BY <2>2, <2>3, <2>4 DEF WithOk
<1>16. RouteOk(number', open', home', txn_state', txn_number, p, recovery_token',
               "none", NoCommand, late', transient')
  <2>1. txn_state' \in Active => txn_state' = txn_state
    BY <1>1, <1>2 DEF Active
  <2>2. txn_state' = "starting" => txn_state = "starting"
    BY <1>1, <1>2
  <2> QED
    BY <1>7, <2>1, <2>2 DEF RouteOk, Answering
<1> QED
  BY <1>1, <1>3, <1>4, <1>5, <1>8, <1>9, <1>10, <1>11, <1>12, <1>13, <1>14, <1>15,
     <1>16 DEF IInv

(* A commit or an abort runs its command again.                            *)
LEMMA AgainStep ==
  ASSUME IInv, call \in Finishes, NEW p \in Servers \cup {0}, Answering(p),
         NEW m \in Messages, m.kind = call, m.num = cmd.msg.num,
         m.token = cmd.msg.token, m.write = cmd.msg.write,
         call = "commit" => m.majority, RunAgain(m)
  PROVE  IInv'
<1> DEFINE c == [NewCommand(m) EXCEPT !.again = TRUE]
<1>1. /\ ControlOk(txn_state, txn_number, call, pc, cmd, result, with)
      /\ txn_number' = txn_number /\ calls' = calls /\ with' = with
      /\ call' = call /\ result' = result /\ txn_state' = txn_state
      /\ cmd' = c /\ pc' = "select" /\ server_id' = 0
  BY DEF IInv, Answering, RunAgain
<1>2. c \in Commands /\ c.msg = m /\ c.tried = FALSE /\ c.set = FALSE
  BY NewCommandTyped DEF Commands
<1> HIDE DEF c
<1>3. TypeOK'
  BY <1>1, <1>2 DEF TypeOK, IInv, Answering
<1>4. ControlOk(txn_state, txn_number, call, "select", c, result, with)
  BY <1>1, <1>2 DEF ControlOk, Finishes
<1>5. LoopOk(c)
  BY <1>2 DEF LoopOk
<1>6. Sent(late', c) = late' /\ late' \subseteq Sent(late', cmd)
  BY <1>2, SentUntried DEF Sent
<1>7. NumbersOk(number', txn_state, txn_number, recovery_token', call, c, late',
                calls)
  BY <1>2, <1>6 DEF NumbersOk, Answering, Finishes
<1>8. OwnerOk(txn_state, txn_number, c, late')
      /\ AppliedOk(number', applied', c, late', calls)
  BY <1>2, FewerSent DEF Answering
<1>9. UntouchedOk(applied', call, c, late') /\ WriteResultOk(applied', result, late', calls)
      /\ CommitResultOk(committed', durable', result)
  BY <1>1 DEF UntouchedOk, WriteResultOk, CommitResultOk, ControlOk, Blank, Finishes
<1>10. CommitOk(number', open', committed', txn_state, txn_number, call, late')
       /\ FirstCommitOk(committed', txn_number, call, c, late')
  BY <1>2 DEF FirstCommitOk, Answering
<1>11. WithOk(number', open', committed', txn_state, txn_number, call, c, result,
              late', with)
  <2>1. \A x : Gone(x, number', open', committed', txn_state, txn_number, call, cmd,
                    late')
          => Gone(x, number', open', committed', txn_state, txn_number, call, c,
                  late')
    BY <1>2 DEF Gone
  <2> QED
    BY <2>1 DEF WithOk, AllGone, Answering
<1>12. RouteOk(number', open', home', txn_state, txn_number, 0, recovery_token',
               call, c, late', transient')
  BY <1>1 DEF RouteOk, Answering, ControlOk, Finishes, Active
<1> QED
  BY <1>1, <1>3, <1>4, <1>5, <1>7, <1>8, <1>9, <1>10, <1>11, <1>12 DEF IInv

ErrorKinds == {"none", "selection", "network", "server", "state"}

(* What a call returns.                                                    *)
LEMMA ReturnedTyped ==
  ASSUME NEW fn \in CallNames, NEW ok \in BOOLEAN, NEW error \in ErrorKinds,
         NEW r \in ReplyRecords, NEW c \in Commands
  PROVE  LET q == Returned(fn, ok, error, r, c)
         IN  /\ q \in Results /\ q.fn = fn /\ q.ok = ok /\ q.labels = r.labels
             /\ q.num = c.msg.num /\ q.write = c.msg.write /\ q.kind = c.msg.kind
             /\ q.repeat = (c.msg.num \in committed) /\ q.code = r.code
<1>1. c.msg \in Messages
  BY DEF Commands
<1>2. /\ c.msg.num \in 0 .. MaxTxnNumber /\ c.msg.write \in 0 .. MaxWrites
      /\ c.msg.kind \in {"write", "statement", "commit", "abort"}
  BY <1>1 DEF Messages
<1>3. r.code \in Codes /\ r.labels \in SUBSET Labels
  BY DEF ReplyRecords
<1>4. (c.msg.num \in committed) \in BOOLEAN
  OBVIOUS
<1> QED
  BY <1>2, <1>3, <1>4 DEF Returned, Results, ErrorKinds

(* A commit or an abort does not depend on where the session is pinned.    *)
LEMMA AnsweringFinish ==
  ASSUME IInv, call \in Finishes, NEW p, Answering(p), NEW s
  PROVE  Answering(s)
<1>1. txn_state \notin Active
  BY DEF IInv, ControlOk, Active
<1> QED
  BY <1>1 DEF Answering

(* The end of a command.                                                   *)
LEMMA EndStep ==
  ASSUME IInv, call # "none", NEW p \in Servers \cup {0}, Answering(p),
         NEW ok, NEW r, Outcome(ok, r), NEW error \in ErrorKinds,
         End(ok, error, r, p)
  PROVE  IInv'
<1>0. /\ call \in CallNames /\ ok \in BOOLEAN /\ r \in ReplyRecords
      /\ cmd \in Commands /\ cmd.msg \in Messages
  BY NumbersTyped DEF IInv, TypeOK, Outcome
<1>1. CASE EndWrite(ok, error, r, p)
  <2> DEFINE q == Returned(call, ok, error, r, cmd)
  <2>1. /\ call = "write" /\ result' = q /\ call' = "none" /\ pc' = "idle"
        /\ cmd' = NoCommand /\ server_id' = p /\ txn_state' = txn_state
    BY <1>1 DEF EndWrite, Return
  <2>2. /\ q \in Results /\ q.fn = call /\ q.ok = ok /\ q.labels = r.labels
        /\ q.num = cmd.msg.num /\ q.write = cmd.msg.write /\ q.kind = cmd.msg.kind
        /\ q.repeat = (cmd.msg.num \in committed)
    BY <1>0, ReturnedTyped
  <2> HIDE DEF q
  <2>3. txn_state' = CASE call = "write" -> txn_state
                       [] call = "commit" -> "committed"
                       [] call = "abort" -> "aborted"
    BY <2>1
  <2> QED
    BY <2>1, <2>2, <2>3, ReturnStep
<1>2. CASE EndCommit(ok, error, r, p)
  <2>0. call = "commit" /\ call \in Finishes
    BY <1>2 DEF EndCommit, Finishes
  <2>1. CASE ~cmd.again /\ WriteErrorType(r) = "retry"
    <3> DEFINE m == [cmd.msg EXCEPT !.majority = TRUE]
    <3>1. /\ m \in Messages /\ m.kind = cmd.msg.kind /\ m.num = cmd.msg.num
          /\ m.token = cmd.msg.token /\ m.write = cmd.msg.write /\ m.majority
      BY <1>0 DEF Messages
    <3>2. cmd.msg.kind = call
      BY <2>0 DEF IInv, ControlOk
    <3>3. RunAgain(m)
      BY <1>2, <2>1 DEF EndCommit
    <3> HIDE DEF m
    <3> QED
      BY <2>0, <3>1, <3>2, <3>3, AgainStep
  <2>2. CASE ~(~cmd.again /\ WriteErrorType(r) = "retry")
    <3> DEFINE u == UnknownResult(ok, error, r)
               s == IF u THEN [r EXCEPT !.labels = @ \cup {"UnknownCommit"}] ELSE r
               q == Returned(call, ok, error, s, cmd)
               t == IF u THEN 0 ELSE p
    <3>1. /\ result' = q /\ call' = "none" /\ pc' = "idle"
          /\ cmd' = NoCommand /\ server_id' = t /\ txn_state' = "committed"
      BY <1>2, <2>2 DEF EndCommit, Return
    <3>2. s \in ReplyRecords /\ s.labels \ {"UnknownCommit"} \subseteq r.labels
      <4>1. r.labels \cup {"UnknownCommit"} \in SUBSET Labels
        BY <1>0 DEF ReplyRecords, Labels
      <4>2. CASE u
        BY <1>0, <4>1, <4>2 DEF ReplyRecords
      <4>3. CASE ~u
        BY <1>0, <4>3
      <4> QED
        BY <4>2, <4>3
    <3>3. t \in Servers \cup {0} /\ Answering(t)
      BY <2>0, AnsweringFinish
    <3> HIDE DEF s, t, u
    <3>4. /\ q \in Results /\ q.fn = call /\ q.ok = ok /\ q.labels = s.labels
          /\ q.num = cmd.msg.num /\ q.write = cmd.msg.write /\ q.kind = cmd.msg.kind
          /\ q.repeat = (cmd.msg.num \in committed)
      BY <1>0, <3>2, ReturnedTyped
    <3> HIDE DEF q
    <3>5. txn_state' = CASE call = "write" -> txn_state
                         [] call = "commit" -> "committed"
                         [] call = "abort" -> "aborted"
      BY <2>0, <3>1
    <3> QED
      BY <2>0, <3>1, <3>2, <3>3, <3>4, <3>5, ReturnStep
  <2> QED
    BY <2>1, <2>2
<1>3. CASE EndAbort(ok, error, r, p)
  <2>0. call = "abort" /\ call \in Finishes
    BY <1>3 DEF EndAbort, Finishes
  <2>1. CASE ~cmd.again /\ "RetryableWrite" \in r.labels
    <3>1. cmd.msg.kind = call
      BY <2>0 DEF IInv, ControlOk
    <3>2. RunAgain(cmd.msg)
      BY <1>3, <2>1 DEF EndAbort
    <3> QED
      BY <1>0, <2>0, <3>1, <3>2, AgainStep
  <2>2. CASE ~(~cmd.again /\ "RetryableWrite" \in r.labels)
    <3> DEFINE q == Returned(call, TRUE, "none", OkReply, cmd)
    <3>1. /\ result' = q /\ call' = "none" /\ pc' = "idle"
          /\ cmd' = NoCommand /\ server_id' = 0 /\ txn_state' = "aborted"
      BY <1>3, <2>2 DEF EndAbort, Return
    <3>2. OkReply \in ReplyRecords /\ OkReply.labels = {}
      BY DEF OkReply, Reply, ReplyRecords, Codes, Labels
    <3>3. Answering(0)
      BY <2>0, AnsweringFinish
    <3>4. /\ q \in Results /\ q.fn = call /\ q.labels = {}
          /\ q.num = cmd.msg.num /\ q.write = cmd.msg.write /\ q.kind = cmd.msg.kind
          /\ q.repeat = (cmd.msg.num \in committed)
      <4> DEFINE e == "none"
                 y == TRUE
                 o == OkReply
      <4>1. e \in ErrorKinds /\ y \in BOOLEAN /\ o \in ReplyRecords /\ o.labels = {}
        BY <3>2 DEF ErrorKinds
      <4>2. q = Returned(call, y, e, o, cmd)
        OBVIOUS
      <4> HIDE DEF e, y, o, q
      <4> QED
        BY <1>0, <4>1, <4>2, ReturnedTyped
    <3> HIDE DEF q
    <3>5. txn_state' = CASE call = "write" -> txn_state
                         [] call = "commit" -> "committed"
                         [] call = "abort" -> "aborted"
      BY <2>0, <3>1
    <3> QED
      BY <2>0, <3>1, <3>3, <3>4, <3>5, ReturnStep
  <2> QED
    BY <2>1, <2>2
<1> QED
  BY <1>1, <1>2, <1>3 DEF End

(* The invariant before anything is sent.                                  *)
LEMMA NothingAnswered ==
  ASSUME IInv, UNCHANGED <<serverVars, txn_number, dirty, recovery_token, late,
                           with, calls>>,
         NEW p, transient' \in BOOLEAN, ~transient' => ~transient,
         ~transient' /\ txn_state \in Active /\ Sharded /\ server_id \in Servers =>
           p = server_id
  PROVE  Answering(p)
<1>1. /\ number' = number /\ open' = open /\ home' = home /\ applied' = applied
      /\ committed' = committed /\ durable' = durable
      /\ txn_number' = txn_number /\ dirty' = dirty /\ late' = late
      /\ recovery_token' = recovery_token /\ with' = with /\ calls' = calls
  BY DEF serverVars
<1>2. /\ ServerTypeOK' /\ late \in SUBSET Messages /\ home \in Servers
      /\ dirty \in BOOLEAN /\ recovery_token \in 0 .. MaxTxnNumber
  BY <1>1 DEF IInv, TypeOK, ServerTypeOK
<1>3. RouteOk(number, open, home, txn_state, txn_number, server_id,
              recovery_token, call, cmd, late, transient)
  BY DEF IInv
<1>4. Sharded /\ ~transient' /\ txn_state # "none" =>
        /\ \A m \in late : m.kind = "statement" /\ m.start => m.num # txn_number
        /\ txn_state = "starting" => number < txn_number
        /\ open /\ number = txn_number =>
             recovery_token = txn_number /\ (txn_state \in Active => p = home)
  BY <1>2, <1>3 DEF RouteOk
<1> QED
  BY <1>1, <1>2, <1>4 DEF Answering, IInv

(* The servers a selection finds, and where it leaves the session pinned.  *)
LEMMA SelectionTyped ==
  ASSUME IInv, NEW d, NEW s \in Selections(d)
  PROVE  /\ s \in Servers /\ PinAfter(s) \in Servers \cup {0}
         /\ txn_state \in Active /\ Sharded => PinAfter(s) = s
         /\ txn_state \in Active /\ Sharded /\ server_id \in Servers =>
              s = server_id
<1>1. server_id \in Servers \cup {0} /\ 0 \notin Servers
  BY ServerAssumption DEF IInv, TypeOK
<1>2. txn_state \in Active /\ Sharded => InShardedTxn
  BY DEF Active, InShardedTxn, InTxnOrEnding, InTxn
<1>3. s \in Servers /\ (InShardedTxn /\ server_id \in Servers => s = server_id)
  BY <1>1 DEF Selections, Candidates
<1> QED
  BY <1>1, <1>2, <1>3 DEF PinAfter

(* A command that cannot be sent says nothing about writes, and nothing    *)
(* about a transaction it ends.                                            *)
LEMMA UnsentOutcome ==
  ASSUME IInv, NEW r \in ReplyRecords, "NoWrites" \notin r.labels,
         "Transient" \in r.labels => txn_state \in Active, ~cmd.tried
  PROVE  Outcome(FALSE, r)
<1>1. ControlOk(txn_state, txn_number, call, pc, cmd, result, with)
  BY DEF IInv
<1>2. call = "write" /\ cmd.msg.kind = "write" => txn_state \notin Active
  BY <1>1 DEF ControlOk
<1>3. call = "commit" => txn_state \notin Active
  BY <1>1 DEF ControlOk, Finishes, Active
<1> QED
  BY <1>2, <1>3 DEF Outcome

(* No server is found.                                                     *)
LEMMA SelectFailsStep ==
  ASSUME IInv, SelectFails
  PROVE  IInv'
<1> DEFINE r == Reply(FALSE, FALSE, "other", Transient)
<1>1. /\ pc = "select" /\ ~cmd.tried /\ transient' = (transient \/ InTxn)
      /\ End(FALSE, "selection", r, PinUnselected)
      /\ UNCHANGED <<serverVars, txn_number, dirty, recovery_token, late, with,
                     calls>>
  BY DEF SelectFails
<1>2. /\ r \in ReplyRecords /\ "NoWrites" \notin r.labels
      /\ "Transient" \in r.labels => txn_state \in Active
  BY DEF Reply, ReplyRecords, Transient, Labels, Codes, InTxn, Active
<1> HIDE DEF r
<1>3. Outcome(FALSE, r)
  BY <1>1, <1>2, UnsentOutcome
<1>4. PinUnselected \in Servers \cup {0} /\ transient' \in BOOLEAN
      /\ (txn_state \in Active => transient') /\ (~transient' => ~transient)
  BY <1>1 DEF PinUnselected, IInv, TypeOK, InTxn, Active
<1>5. Answering(PinUnselected)
  BY <1>1, <1>4, NothingAnswered
<1>6. call # "none" /\ "selection" \in ErrorKinds
  BY <1>1 DEF IInv, ControlOk, ErrorKinds
<1> QED
  BY <1>1, <1>3, <1>4, <1>5, <1>6, EndStep

(* No connection is made.                                                  *)
LEMMA ConnectFailsStep ==
  ASSUME IInv, ConnectFails
  PROVE  IInv'
<1> DEFINE r == Reply(FALSE, TRUE, "none",
                      Overloaded \cup (IF RetryWrites THEN {"RetryableWrite"}
                                                      ELSE {}))
<1>1. PICK s \in Selections({}) : End(FALSE, "network", r, PinAfter(s))
  BY DEF ConnectFails
<1>2. /\ pc = "select" /\ ~cmd.tried /\ transient' = transient
      /\ UNCHANGED <<serverVars, txn_number, dirty, recovery_token, late, with,
                     calls>>
  BY DEF ConnectFails
<1>3. r \in ReplyRecords /\ "NoWrites" \notin r.labels /\ "Transient" \notin r.labels
  <2> DEFINE l == Overloaded \cup (IF RetryWrites THEN {"RetryableWrite"} ELSE {})
  <2>1. l \in SUBSET Labels /\ "NoWrites" \notin l /\ "Transient" \notin l
    BY DEF Overloaded, Labels
  <2> HIDE DEF l
  <2>2. r = Reply(FALSE, TRUE, "none", l)
    BY DEF l
  <2> QED
    BY <2>1, <2>2 DEF Reply, ReplyRecords, Codes
<1> HIDE DEF r
<1>4. Outcome(FALSE, r)
  BY <1>2, <1>3, UnsentOutcome
<1>5. PinAfter(s) \in Servers \cup {0}
      /\ (txn_state \in Active /\ Sharded /\ server_id \in Servers =>
            PinAfter(s) = server_id)
  BY SelectionTyped
<1>6. transient \in BOOLEAN
  BY DEF IInv, TypeOK
<1>7. Answering(PinAfter(s))
  BY <1>2, <1>5, <1>6, NothingAnswered
<1>8. call # "none" /\ "network" \in ErrorKinds
  BY <1>2 DEF IInv, ControlOk, ErrorKinds
<1> QED
  BY <1>1, <1>4, <1>5, <1>7, <1>8, EndStep

(* EndRun is the end of a command, with some kind of error.                *)
LEMMA EndRunKind ==
  ASSUME NEW ok, NEW r \in ReplyRecords, NEW p, EndRun(ok, r, p)
  PROVE  \E error \in ErrorKinds : End(ok /\ CheckOk(r), error, r, p)
<1> DEFINE e == CASE r.network -> "network"
                  [] ~r.network /\ ~r.ok -> "server"
                  [] ~r.network /\ r.ok ->
                       IF ok /\ r.code # "none" THEN "server" ELSE "none"
<1>1. End(ok /\ CheckOk(r), e, r, p)
  BY DEF EndRun
<1>2. e \in ErrorKinds
  BY DEF ErrorKinds, ReplyRecords
<1> QED
  BY <1>1, <1>2

(* No server is found for the next attempt.                                *)
LEMMA RetryFailsStep ==
  ASSUME IInv, RetryFails
  PROVE  IInv'
<1>1. /\ pc = "select" /\ cmd.tried /\ transient' = transient
      /\ UNCHANGED <<serverVars, txn_number, dirty, recovery_token, late, with,
                     calls>>
  BY DEF RetryFails
<1>2. PICK p : /\ EndRun(cmd.ok, cmd.kept, p)
               /\ \/ p = PinUnselected
                  \/ \E s \in Selections(cmd.loop.deprioritized) : p = PinAfter(s)
  BY DEF RetryFails
<1>3. p \in Servers \cup {0}
      /\ (txn_state \in Active /\ Sharded /\ server_id \in Servers => p = server_id)
  BY <1>2, SelectionTyped DEF PinUnselected, IInv, TypeOK, InTxnOrEnding, InTxn, Active
<1>4. /\ cmd.kept \in ReplyRecords /\ cmd.ok \in BOOLEAN /\ transient \in BOOLEAN
      /\ cmd.set /\ call # "none" /\ LoopOk(cmd)
      /\ UntouchedOk(applied, call, cmd, late) /\ applied' = applied /\ late' = late
  BY <1>1 DEF IInv, TypeOK, Commands, ControlOk, serverVars
<1>5. Answering(p)
  BY <1>1, <1>3, <1>4, NothingAnswered
<1>6. Outcome(cmd.ok /\ CheckOk(cmd.kept), cmd.kept)
  BY <1>4 DEF Outcome, LoopOk, UntouchedOk
<1>7. PICK error \in ErrorKinds :
        End(cmd.ok /\ CheckOk(cmd.kept), error, cmd.kept, p)
  BY <1>2, <1>4, EndRunKind
<1> QED
  BY <1>3, <1>4, <1>5, <1>6, <1>7, EndStep

----------------------------------------------------------------------------
(***************************************************************************)
(* The end of an attempt.                                                  *)
(***************************************************************************)
(* What an attempt that ended with r, labelled, says of the command.       *)
AttemptOk(r, p) ==
  /\ r \in ReplyRecords
  /\ r.ok => "NoWrites" \notin r.labels
  /\ "NoWrites" \in r.labels => UNCHANGED serverVars /\ late' = late
  /\ cmd.msg.kind = "write" =>
       "Transient" \notin r.labels /\ (CheckOk(r) => applied'[cmd.msg.write] = 1)
  /\ cmd.msg.kind = "commit" =>
       /\ CheckOk(r) => /\ cmd.msg.num \in committed'
                        /\ cmd.msg.num \in committed => cmd.msg.num \in durable'
       /\ "Transient" \in r.labels => Ended(cmd.msg.num)
  /\ Retries(cmd.loop, r) =>
       /\ ~CheckOk(r) /\ "Transient" \notin r.labels
       /\ cmd.loop.elig = "retryable_write" \/ "NoWrites" \in r.labels
       /\ cmd.msg.kind = "statement" => p = server_id
  /\ ~transient' => ~transient

(* The reply the loop keeps says so of all attempts.                       *)
LEMMA KeepOutcome ==
  ASSUME IInv, pc = "wait", NEW r, NEW p, AttemptOk(r, p)
  PROVE  /\ Keep(r) \in ReplyRecords
         /\ Outcome(r.ok /\ CheckOk(Keep(r)), Keep(r))
<1>1. /\ LoopOk(cmd) /\ UntouchedOk(applied, call, cmd, late) /\ cmd.tried
      /\ cmd.kept \in ReplyRecords
  BY DEF IInv, ControlOk, TypeOK, Commands
<1>2. /\ call = "write" <=> cmd.msg.kind \in {"write", "statement"}
      /\ call = "commit" <=> cmd.msg.kind = "commit"
  BY <1>1, TriedCall
<1>3. CASE cmd.set /\ "NoWrites" \in r.labels
  <2>1. Keep(r) = cmd.kept /\ r.ok = FALSE
    BY <1>3 DEF Keep, AttemptOk, ReplyRecords
  <2>2. applied' = applied /\ late' = late
    BY <1>3 DEF AttemptOk, serverVars
  <2> QED
    BY <1>1, <1>2, <1>3, <2>1, <2>2 DEF Outcome, LoopOk, UntouchedOk
<1>4. CASE ~(cmd.set /\ "NoWrites" \in r.labels)
  <2>1. Keep(r) = r /\ r \in ReplyRecords
    BY <1>4 DEF Keep, AttemptOk
  <2>2. "NoWrites" \in r.labels => applied' = applied /\ late' = late /\ ~cmd.set
    BY <1>4 DEF AttemptOk, serverVars
  <2> QED
    BY <1>1, <1>2, <2>1, <2>2 DEF Outcome, UntouchedOk, AttemptOk
<1> QED
  BY <1>3, <1>4

(* The loop goes on.                                                       *)
LEMMA NextAttemptTyped ==
  ASSUME NEW l \in Loops, NEW r
  PROVE  NextAttempt(l, r) \in Loops /\ NextAttempt(l, r).elig = l.elig
<1> DEFINE a == IF IsOverload(r) THEN MaxAdaptiveRetries ELSE l.allowed
           d == IF \/ l.server \in Mongoses
                   \/ IsOverload(r) /\ OverloadRetargeting
                  THEN l.deprioritized \cup {l.server} ELSE l.deprioritized
<1>1. a \in Nat /\ d \in SUBSET Servers /\ l.attempt + 1 \in Nat
  BY RetryAssumption DEF Loops
<1>2. NextAttempt(l, r) = [l EXCEPT !.attempt = l.attempt + 1, !.allowed = a,
                                    !.deprioritized = d]
  BY DEF NextAttempt
<1> HIDE DEF a, d
<1> QED
  BY <1>1, <1>2 DEF Loops

(* An attempt will be made again.                                          *)
LEMMA AttemptAgain ==
  ASSUME IInv, pc = "wait", NEW p \in Servers \cup {0}, Answering(p), NEW r,
         AttemptOk(r, p), AfterAttempt(r, p), Retries(cmd.loop, r)
  PROVE  IInv'
<1> DEFINE l == NextAttempt(cmd.loop, r)
           k == Keep(r)
           c == [cmd EXCEPT !.loop = l, !.ok = r.ok, !.kept = k, !.set = TRUE]
<1>1. /\ cmd' = c /\ pc' = "select" /\ server_id' = p /\ call' = call
      /\ result' = result /\ txn_state' = txn_state
      /\ txn_number' = txn_number /\ calls' = calls /\ with' = with
  BY DEF AfterAttempt, Answering
<1>2. /\ cmd \in Commands /\ cmd.loop \in Loops /\ cmd.tried /\ r \in ReplyRecords
      /\ LoopOk(cmd)
      /\ ControlOk(txn_state, txn_number, call, pc, cmd, result, with)
  BY DEF IInv, TypeOK, Commands, ControlOk, AttemptOk
<1>3. l \in Loops /\ l.elig = cmd.loop.elig /\ k \in ReplyRecords
      /\ Outcome(r.ok /\ CheckOk(k), k)
  BY <1>2, NextAttemptTyped, KeepOutcome
<1>4. /\ ~CheckOk(k) /\ "Transient" \notin k.labels
      /\ cmd.loop.elig = "retryable_write" \/ "NoWrites" \in k.labels
  BY <1>2 DEF AttemptOk, Keep, LoopOk
<1> HIDE DEF l, k
<1>5. /\ c \in Commands /\ c.msg = cmd.msg /\ c.tried = cmd.tried /\ c.set = TRUE
      /\ c.loop = l /\ c.kept = k /\ c.again = cmd.again
  BY <1>2, <1>3 DEF Commands, ReplyRecords
<1> HIDE DEF c
<1>6. TypeOK'
  BY <1>1, <1>5 DEF TypeOK, IInv, Answering
<1>7. ControlOk(txn_state, txn_number, call, "select", c, result, with)
  BY <1>2, <1>5 DEF ControlOk
<1>8. LoopOk(c)
  BY <1>2, <1>3, <1>4, <1>5 DEF LoopOk
<1>9. Sent(late', c) = Sent(late', cmd)
  BY <1>5 DEF Sent
<1>10. /\ NumbersOk(number', txn_state, txn_number, recovery_token', call, c, late',
                    calls)
       /\ OwnerOk(txn_state, txn_number, c, late')
       /\ AppliedOk(number', applied', c, late', calls)
  BY <1>5, <1>9 DEF NumbersOk, OwnerOk, AppliedOk, Answering
<1>11. UntouchedOk(applied', call, c, late')
  BY <1>3, <1>5 DEF UntouchedOk, Outcome
<1>12. WriteResultOk(applied', result, late', calls)
       /\ CommitResultOk(committed', durable', result)
  BY <1>2, TriedCall DEF WriteResultOk, CommitResultOk, Blank
<1>13. CommitOk(number', open', committed', txn_state, txn_number, call, late')
  BY DEF Answering
<1>14. cmd.msg.kind # "write" => UNCHANGED serverVars /\ late' = late
  BY <1>2 DEF AttemptOk, LoopOk
<1>15. FirstCommitOk(committed', txn_number, call, c, late')
  <2>1. call = "commit" => committed' = committed /\ late' = late
    BY <1>2, <1>14, TriedCall DEF serverVars
  <2> QED
    BY <1>5, <2>1 DEF FirstCommitOk, IInv
<1>16. WithOk(number', open', committed', txn_state, txn_number, call, c, result,
              late', with)
  <2>1. \A x : Gone(x, number', open', committed', txn_state, txn_number, call, cmd,
                    late')
          => Gone(x, number', open', committed', txn_state, txn_number, call, c,
                  late')
    BY <1>5 DEF Gone
  <2> QED
    BY <2>1 DEF WithOk, AllGone, Answering
<1>17. RouteOk(number', open', home', txn_state, txn_number, p, recovery_token',
               call, c, late', transient')
  <2>1. RouteOk(number, open, home, txn_state, txn_number, server_id,
                recovery_token, call, cmd, late, transient)
    BY DEF IInv
  <2>2. cmd.msg.kind = "statement" => number' = number /\ p = server_id
    BY <1>14 DEF serverVars, AttemptOk
  <2>3. ~transient' => ~transient
    BY DEF AttemptOk
  <2> QED
    BY <1>2, <1>5, <2>1, <2>2, <2>3 DEF RouteOk, Answering
<1> QED
  BY <1>1, <1>6, <1>7, <1>8, <1>10, <1>11, <1>12, <1>13, <1>15, <1>16, <1>17
     DEF IInv

(* The end of an attempt.                                                  *)
LEMMA AttemptStep ==
  ASSUME IInv, pc = "wait", NEW p \in Servers \cup {0}, Answering(p), NEW r,
         AttemptOk(r, p), AfterAttempt(r, p)
  PROVE  IInv'
<1>1. CASE Retries(cmd.loop, r)
  BY <1>1, AttemptAgain
<1>2. CASE ~Retries(cmd.loop, r)
  <2>1. EndRun(r.ok, Keep(r), p)
    BY <1>2 DEF AfterAttempt
  <2>2. Keep(r) \in ReplyRecords /\ Outcome(r.ok /\ CheckOk(Keep(r)), Keep(r))
    BY KeepOutcome
  <2>3. PICK error \in ErrorKinds : End(r.ok /\ CheckOk(Keep(r)), error, Keep(r), p)
    BY <2>1, <2>2, EndRunKind
  <2>4. call # "none"
    BY DEF IInv, ControlOk
  <2> QED
    BY <2>2, <2>3, <2>4, EndStep
<1> QED
  BY <1>1, <1>2

(* The labels the driver adds.                                             *)
LEMMA LabelledTyped ==
  ASSUME NEW r \in ReplyRecords
  PROVE  /\ Labelled(r) \in ReplyRecords
         /\ Labelled(r).ok = r.ok /\ Labelled(r).code = r.code
         /\ \/ Labelled(r).labels = r.labels
            \/ Labelled(r).labels = r.labels \cup {"RetryableWrite"} /\ ~CheckOk(r)
<1> DEFINE s == [r EXCEPT !.labels = @ \cup {"RetryableWrite"}]
<1>1. /\ s \in ReplyRecords /\ s.ok = r.ok /\ s.code = r.code
      /\ s.labels = r.labels \cup {"RetryableWrite"}
  <2>1. r.labels \cup {"RetryableWrite"} \in SUBSET Labels
    BY DEF ReplyRecords, Labels
  <2> QED
    BY <2>1 DEF ReplyRecords
<1>2. Labelled(r) = r \/ (Labelled(r) = s /\ ~CheckOk(r))
  BY DEF Labelled, HandleWriteLabels, CheckOk
<1> HIDE DEF s
<1> QED
  BY <1>1, <1>2

(* Why an attempt is made again.                                           *)
LEMMA RetriesWhy ==
  ASSUME LoopOk(cmd), cmd.tried, NEW r, Retries(cmd.loop, r)
  PROVE  \/ cmd.loop.elig = "retryable_write" /\ "RetryableWrite" \in r.labels
         \/ "SystemOverloaded" \in r.labels
<1>1. cmd.loop.elig \in {"none", "overload_only", "retryable_write"}
  BY DEF LoopOk
<1>2. WriteErrorType(r) = "retry" => "RetryableWrite" \in r.labels
  BY DEF WriteErrorType
<1> QED
  BY <1>1, <1>2 DEF Retries, IsRetryable, IsOverload

(* The reply of a server arrives.                                          *)
LEMMA AnsweredStep ==
  ASSUME IInv, Answered
  PROVE  IInv'
<1>1. PICK r \in Replies :
        /\ Process(cmd.msg, r)
        /\ AfterAttempt(Labelled(r), IF "Transient" \in r.labels THEN 0
                                                               ELSE server_id)
        /\ recovery_token' =
             IF r.ok /\ InShardedTxn /\ cmd.msg.kind = "statement"
               THEN cmd.msg.num ELSE recovery_token
        /\ transient' = (transient \/ "Transient" \in r.labels)
  BY DEF Answered
<1> DEFINE m == cmd.msg
           s == Labelled(r)
           p == IF "Transient" \in r.labels THEN 0 ELSE server_id
<1>2. /\ pc = "wait" /\ txn_number' = txn_number /\ dirty' = dirty /\ late' = late
      /\ with' = with /\ calls' = calls
  BY DEF Answered
<1>3. /\ cmd.tried /\ m \in Sent(late, cmd) /\ m \in Messages /\ late \in SUBSET late
      /\ LoopOk(cmd) /\ late' \in SUBSET Messages
      /\ MessageOk(m, number, txn_number, calls)
  BY <1>2, NumbersTyped DEF IInv, ControlOk, Sent, TypeOK, NumbersOk
<1>4. /\ m.kind = "write" => m.write \in Writes
      /\ open => number # 0
  BY <1>3, NumbersTyped DEF IInv, MessageOk, Writes, CommitOk
<1>5. ServerTypeOK' /\ Contract(m, r)
  BY <1>1, <1>3, <1>4, ProcessContract DEF IInv, TypeOK
<1>6. /\ Reached(m) /\ NumberStep(m) /\ OpenStep(m) /\ CommitStep(m) /\ WriteStep(m)
      /\ ReplyStep(m, r)
  BY <1>5, ServerAssumption DEF Contract, NumberStep, Reached, ServerTypeOK
<1>7. /\ NumbersOk(number', txn_state, txn_number, recovery_token, call, cmd,
                   late, calls)
      /\ OwnerOk(txn_state, txn_number, cmd, late)
      /\ AppliedOk(number', applied', cmd, late, calls)
      /\ CommitOk(number', open', committed', txn_state, txn_number, call, late)
      /\ WithOk(number', open', committed', txn_state, txn_number, call, cmd,
                result, late, with)
  BY <1>3, <1>6, ServerNumbers, ServerApplied, ServerCommits, ServerWith DEF IInv
<1>8. /\ m.num \in Nat /\ number \in Nat /\ number' \in Nat /\ txn_number \in Nat
      /\ m.token \in Nat /\ m.num <= MaxTxnNumber
  BY <1>3, <1>6, NumbersTyped, MessageTyped DEF IInv, Reached
<1>9. m.kind = "statement" =>
        /\ m.num = txn_number /\ txn_state = "in_progress" /\ call = "write"
  BY <1>3, TriedCall DEF IInv, NumbersOk
<1>10. NumbersOk(number', txn_state, txn_number, recovery_token', call, cmd, late,
                 calls)
       /\ recovery_token' \in 0 .. MaxTxnNumber
  <2>1. CASE r.ok /\ InShardedTxn /\ m.kind = "statement"
    <3>1. recovery_token' = txn_number /\ number' = txn_number
      BY <1>1, <1>6, <1>9, <2>1 DEF ReplyStep
    <3>2. recovery_token' \in 0 .. MaxTxnNumber
      BY <1>8, <1>9, <2>1, <3>1
    <3> QED
      BY <1>7, <1>8, <1>9, <2>1, <3>1, <3>2 DEF NumbersOk, Finishes
  <2>2. CASE ~(r.ok /\ InShardedTxn /\ m.kind = "statement")
    BY <1>1, <1>7, <2>2 DEF IInv, TypeOK
  <2> QED
    BY <2>1, <2>2
<1>11. /\ p \in Servers \cup {0} /\ transient' \in BOOLEAN /\ dirty \in BOOLEAN
       /\ ~transient' => ~transient /\ p = server_id
  BY <1>1 DEF IInv, TypeOK
<1>12. ASSUME Sharded, ~transient', txn_state # "none"
       PROVE  /\ \A u \in late : u.kind = "statement" /\ u.start => u.num # txn_number
              /\ txn_state = "starting" => number' < txn_number
              /\ open' /\ number' = txn_number =>
                   recovery_token' = txn_number /\ (txn_state \in Active => p = home')
  <2>1. /\ RouteOk(number, open, home, txn_state, txn_number, server_id,
                   recovery_token, call, cmd, late, transient)
        /\ ~transient
    BY <1>11, <1>12 DEF IInv
  <2>2. txn_state \in {"none", "in_progress", "ending"}
    BY <1>3, TriedCall, NumbersTyped, MessageTyped DEF IInv, Finishes
  <2>3. ASSUME open', number' = txn_number
        PROVE  recovery_token' = txn_number /\ (txn_state \in Active => p = home')
    <3>1. CASE open /\ number' = number /\ home' = home
      BY <1>1, <1>9, <1>11, <1>12, <2>1, <2>3, <3>1 DEF RouteOk
    <3>2. CASE /\ m.kind = "statement" /\ m.start /\ number < m.num
               /\ number' = m.num /\ home' = m.server
      <4>1. r.ok
        BY <1>6, <1>8, <3>2 DEF ReplyStep
      <4>2. InShardedTxn
        BY <1>9, <1>12, <3>2 DEF InShardedTxn, InTxnOrEnding, InTxn
      <4>3. server_id = m.server
        BY <1>3, <1>9, <1>12, <2>1, <3>2 DEF RouteOk
      <4> QED
        BY <1>1, <1>9, <1>11, <1>12, <3>2, <4>1, <4>2, <4>3
    <3> QED
      BY <1>6, <2>3, <3>1, <3>2 DEF OpenStep
  <2> QED
    BY <1>12, <2>1, <2>2, <2>3 DEF RouteOk
<1>13. Answering(p)
  BY <1>2, <1>3, <1>5, <1>7, <1>10, <1>11, <1>12 DEF Answering
<1>14. /\ r \in ReplyRecords /\ (CheckOk(r) => r = OkReply)
       /\ "NoWrites" \in r.labels => ~r.ok
       /\ "SystemOverloaded" \in r.labels =>
            "NoWrites" \in r.labels /\ "Transient" \notin r.labels
  BY ReplyTyped
<1>15. /\ s \in ReplyRecords /\ s.ok = r.ok /\ s.code = r.code
       /\ CheckOk(s) <=> CheckOk(r)
       /\ \A x \in {"NoWrites", "SystemOverloaded", "Transient"} :
            x \in s.labels <=> x \in r.labels
       /\ CheckOk(r) => s.labels = {}
  <2>1. OkReply.labels = {}
    BY DEF OkReply, Reply
  <2> QED
    BY <1>14, <2>1, LabelledTyped DEF CheckOk
<1>16. ASSUME m.kind = "write", CheckOk(r)
       PROVE  applied'[m.write] = 1
  <2>1. /\ m.write \in Writes /\ applied \in [Writes -> Nat]
        /\ AppliedOk(number, applied, cmd, late, calls)
    BY <1>4, <1>16 DEF IInv, TypeOK, ServerTypeOK
  <2>2. CASE applied' = [applied EXCEPT ![m.write] = @ + 1]
    <3>1. applied'[m.write] = applied[m.write] + 1 /\ applied'[m.write] \in {0, 1}
      BY <1>7, <2>1, <2>2 DEF AppliedOk
    <3>2. applied[m.write] \in Nat
      BY <2>1
    <3> QED
      BY <3>1, <3>2
  <2>3. CASE m.num # 0 /\ m.num = number /\ applied' = applied
    BY <1>3, <1>16, <2>1, <2>3 DEF AppliedOk
  <2> QED
    BY <1>6, <1>16, <2>2, <2>3 DEF ReplyStep
<1>17. ASSUME m.kind = "commit"
       PROVE  /\ m.num = txn_number /\ m.num # 0 /\ committed \subseteq committed'
              /\ m.token \in {0, m.num} /\ m.token <= number /\ 0 \notin committed
              /\ CommitOk(number, open, committed, txn_state, txn_number, call, late)
              /\ FirstCommitOk(committed, txn_number, call, cmd, late)
              /\ call = "commit"
  <2>1. call = "commit" /\ committed \subseteq committed'
    BY <1>3, <1>6, <1>17, TriedCall DEF CommitStep
  <2>2. 0 \notin committed
    BY DEF IInv, TypeOK, ServerTypeOK, Numbers
  <2> QED
    BY <1>3, <1>17, <2>1, <2>2 DEF IInv, NumbersOk, MessageOk, Finishes
<1>18. ASSUME m.kind = "commit", CheckOk(r)
       PROVE  m.num \in committed' /\ (m.num \in committed => m.num \in durable')
  <2>1. CASE m.num = number /\ open /\ m.num \in committed'
    BY <1>17, <1>18, <2>1 DEF CommitOk
  <2>2. CASE \E x \in {m.num, m.token} :
               x \in committed /\ (m.majority => x \in durable')
    <3>1. m.num \in committed /\ (m.majority => m.num \in durable')
      BY <1>17, <1>18, <2>2
    <3>2. m.majority
      BY <1>17, <1>18, <3>1 DEF FirstCommitOk, Uncommitted
    <3> QED
      BY <1>17, <1>18, <3>1, <3>2
  <2> QED
    BY <1>6, <1>18, <2>1, <2>2 DEF ReplyStep
<1>19. ASSUME m.kind = "commit", "Transient" \in r.labels
       PROVE  Ended(m.num)
  <2>1. /\ committed' = committed /\ number' = number
        /\ \/ m.num = number /\ m.num \notin committed /\ ~open'
           \/ /\ m.token # 0 /\ m.token \notin committed
              /\ m.token = number => ~open'
    BY <1>6, <1>19 DEF ReplyStep
  <2> QED
    BY <1>8, <1>17, <1>19, <2>1 DEF Ended
<1>20. AttemptOk(s, p)
  <2>1. ASSUME Retries(cmd.loop, s)
        PROVE  /\ ~CheckOk(s) /\ "Transient" \notin s.labels
               /\ cmd.loop.elig = "retryable_write" \/ "NoWrites" \in s.labels
    <3>1. CASE cmd.loop.elig = "retryable_write" /\ "RetryableWrite" \in s.labels
      <4>1. m.kind = "write"
        BY <1>3, <3>1 DEF LoopOk
      <4> QED
        BY <1>6, <1>15, <3>1, <4>1 DEF ReplyStep
    <3>2. CASE "SystemOverloaded" \in s.labels
      BY <1>14, <1>15, <3>2
    <3> QED
      BY <1>3, <2>1, <3>1, <3>2, RetriesWhy
  <2>2. "Transient" \notin s.labels => p = server_id
    BY <1>15
  <2>3. "NoWrites" \in s.labels => UNCHANGED serverVars /\ late' = late /\ ~s.ok
    BY <1>2, <1>6, <1>14, <1>15 DEF ReplyStep
  <2>4. m.kind = "write" => "Transient" \notin s.labels
    BY <1>6, <1>15 DEF ReplyStep
  <2> HIDE DEF s, p
  <2> QED
    BY <1>11, <1>15, <1>16, <1>18, <1>19, <2>1, <2>2, <2>3, <2>4 DEF AttemptOk
<1>21. AfterAttempt(s, p)
  BY <1>1
<1> HIDE DEF s, p
<1> QED
  BY <1>2, <1>11, <1>13, <1>20, <1>21, AttemptStep

(* The connection fails.                                                   *)
LEMMA ConnectionFailsStep ==
  ASSUME IInv, ConnectionFails
  PROVE  IInv'
<1> DEFINE m == cmd.msg
           r == [NetworkError EXCEPT !.labels = Transient]
           s == Labelled(r)
           p == IF InTxn THEN 0 ELSE server_id
<1>1. /\ pc = "wait" /\ dirty' = TRUE /\ AfterAttempt(s, p)
      /\ transient' = (transient \/ InTxn)
      /\ txn_number' = txn_number /\ recovery_token' = recovery_token
      /\ with' = with /\ calls' = calls
      /\ number' = number /\ open' = open /\ home' = home /\ applied' = applied
      /\ committed' = committed /\ durable' = durable
  BY DEF ConnectionFails, serverVars
<1>2. late' = late \/ late' = late \cup {m}
  BY DEF ConnectionFails
<1>3. /\ cmd.tried /\ m \in Sent(late, cmd) /\ m \in Messages /\ LoopOk(cmd)
      /\ late' \in SUBSET Messages /\ Sent(late', cmd) = Sent(late, cmd)
  BY <1>1, <1>2, NumbersTyped DEF IInv, ControlOk, Sent, TypeOK
<1>4. /\ m.kind = "write" => txn_state = "none" /\ call = "write"
      /\ m.kind = "statement" => txn_state = "in_progress"
      /\ m.kind \in Finishes => txn_state = "ending"
      /\ m.kind = "commit" => call = "commit"
      /\ m.kind \in {"write", "statement", "commit", "abort"}
  BY <1>3, TriedCall, MessageTyped DEF Finishes
<1>5. AppliedOk(number, applied, cmd, late', calls)
  <2>1. /\ AppliedOk(number, applied, cmd, late, calls)
        /\ UntouchedOk(applied, call, cmd, late)
        /\ OwnerOk(txn_state, txn_number, cmd, late)
    BY DEF IInv
  <2>2. ASSUME m.kind = "write", m.num = 0
        PROVE  applied[m.write] = 0 /\ NoCopy(late, m.write)
    BY <1>3, <1>4, <2>1, <2>2 DEF UntouchedOk, LoopOk
  <2>3. ASSUME NEW u \in late', u.kind = "write", u.num = 0
        PROVE  /\ applied[u.write] = 0
               /\ \A v \in late' : IsWrite(v, u.write) => v = u
    <3>1. CASE u = m
      BY <1>2, <2>2, <2>3, <3>1 DEF NoCopy, IsWrite
    <3>2. CASE u \in late
      <4>1. /\ applied[u.write] = 0
            /\ \A v \in late : IsWrite(v, u.write) => v = u
        BY <2>1, <2>3, <3>2 DEF AppliedOk
      <4>2. ~IsWrite(m, u.write)
        <5>1. ASSUME IsWrite(m, u.write) PROVE m.num = 0
          BY <1>3, <2>1, <2>3, <3>2, <5>1 DEF OwnerOk, Sent
        <5> QED
          BY <2>2, <2>3, <3>2, <5>1 DEF NoCopy, IsWrite
      <4> QED
        BY <1>2, <4>1, <4>2
    <3> QED
      BY <1>2, <2>3, <3>1, <3>2
  <2> QED
    BY <1>3, <2>1, <2>3 DEF AppliedOk
<1>6. CommitOk(number, open, committed, txn_state, txn_number, call, late')
  BY <1>2, <1>4 DEF CommitOk, Uncommitted, NoCommit, Active, Finishes, IInv
<1>7. WithOk(number, open, committed, txn_state, txn_number, call, cmd, result,
             late', with)
  <2>1. \A x : Gone(x, number, open, committed, txn_state, txn_number, call, cmd,
                    late)
          => Gone(x, number, open, committed, txn_state, txn_number, call, cmd,
                  late')
    BY <1>2, <1>4 DEF Gone, NoCommit
  <2> QED
    BY <2>1 DEF WithOk, AllGone, IInv
<1>8. /\ NumbersOk(number, txn_state, txn_number, recovery_token, call, cmd, late',
                   calls)
      /\ OwnerOk(txn_state, txn_number, cmd, late')
  BY <1>3 DEF NumbersOk, OwnerOk, IInv
<1>9. /\ p \in Servers \cup {0} /\ transient' \in BOOLEAN
      /\ ~transient' => ~transient /\ txn_state \notin Active
      /\ ServerTypeOK' /\ recovery_token \in 0 .. MaxTxnNumber
  BY <1>1 DEF IInv, TypeOK, ServerTypeOK, InTxn, Active
<1>10. ASSUME Sharded, ~transient', txn_state # "none"
       PROVE  /\ \A u \in late' : u.kind = "statement" /\ u.start => u.num # txn_number
              /\ txn_state = "starting" => number < txn_number
              /\ open /\ number = txn_number =>
                   recovery_token = txn_number /\ (txn_state \in Active => p = home)
  <2>1. RouteOk(number, open, home, txn_state, txn_number, server_id,
                recovery_token, call, cmd, late, transient)
    BY DEF IInv
  <2>2. m.kind # "statement" /\ ~transient /\ txn_state \notin Active
    BY <1>4, <1>9, <1>10 DEF Active
  <2> QED
    BY <1>2, <1>10, <2>1, <2>2 DEF RouteOk, Active
<1>11. Answering(p)
  BY <1>1, <1>3, <1>5, <1>6, <1>7, <1>8, <1>9, <1>10 DEF Answering
<1>12. /\ r \in ReplyRecords /\ r.ok = FALSE /\ r.labels = Transient
       /\ Transient \in {{}, {"Transient"}}
       /\ "Transient" \in Transient => txn_state \in Active
  BY DEF NetworkError, Reply, ReplyRecords, Codes, Labels, Transient, InTxn, Active
<1>13. /\ s \in ReplyRecords /\ s.ok = FALSE /\ "NoWrites" \notin s.labels
       /\ "SystemOverloaded" \notin s.labels
       /\ "Transient" \in s.labels => txn_state \in Active
       /\ ~CheckOk(s)
  <2>1. r \in ReplyRecords
    BY <1>12
  <2> HIDE DEF r
  <2>2. /\ s \in ReplyRecords /\ s.ok = r.ok
        /\ s.labels = r.labels \/ s.labels = r.labels \cup {"RetryableWrite"}
    BY <2>1, LabelledTyped
  <2> HIDE DEF s
  <2> QED
    BY <1>12, <2>2 DEF CheckOk
<1>14. AttemptOk(s, p)
  <2>1. Retries(cmd.loop, s) => cmd.loop.elig = "retryable_write" /\ m.kind = "write"
    BY <1>3, <1>13, RetriesWhy DEF LoopOk
  <2>2. m.kind \in {"write", "commit"} => "Transient" \notin s.labels
    BY <1>4, <1>13 DEF Active, Finishes
  <2> HIDE DEF s, p
  <2> QED
    BY <1>9, <1>13, <2>1, <2>2 DEF AttemptOk
<1> HIDE DEF s, p
<1> QED
  BY <1>1, <1>9, <1>11, <1>14, AttemptStep

----------------------------------------------------------------------------
(***************************************************************************)
(* Sending a command.                                                      *)
(***************************************************************************)
(* The command of the thread once it is sent.                              *)
LEMMA SendTyped ==
  ASSUME IInv, NEW l \in Loops, NEW m \in Messages, Send(l, m)
  PROVE  /\ cmd' \in Commands /\ cmd'.msg = m /\ cmd'.loop = l
         /\ cmd'.tried = TRUE /\ cmd'.set = cmd.set /\ cmd'.kept = cmd.kept
         /\ cmd'.again = cmd.again
         /\ pc' = "wait" /\ call' = call /\ result' = result
         /\ Sent(late, cmd') = late \cup {m}
<1>1. cmd \in Commands
  BY DEF IInv, TypeOK
<1>2. cmd' = [cmd EXCEPT !.tried = TRUE, !.loop = l, !.msg = m]
  BY DEF Send
<1>3. /\ cmd' \in Commands /\ cmd'.msg = m /\ cmd'.loop = l
      /\ cmd'.tried = TRUE /\ cmd'.set = cmd.set /\ cmd'.kept = cmd.kept
      /\ cmd'.again = cmd.again
  BY <1>1, <1>2 DEF Commands
<1> QED
  BY <1>3 DEF Send, Sent

(* What no command that is sent disturbs: the result is blank until the    *)
(* call returns, and the write is the same.                                *)
LEMMA SendKeeps ==
  ASSUME IInv, pc = "select", NEW l \in Loops, NEW m \in Messages, Send(l, m),
         m.kind = cmd.msg.kind, m.write = cmd.msg.write,
         UNCHANGED <<serverVars, dirty, late, with, calls, transient>>
  PROVE  /\ call # "none" /\ Blank(result)
         /\ number' = number /\ open' = open /\ home' = home
         /\ applied' = applied /\ committed' = committed /\ durable' = durable
         /\ dirty' = dirty /\ late' = late /\ with' = with /\ calls' = calls
         /\ transient' = transient
         /\ ServerTypeOK'
         /\ UntouchedOk(applied, call, cmd', late)
         /\ WriteResultOk(applied, result, late, calls)
         /\ CommitResultOk(committed, durable, result)
<1>1. /\ number' = number /\ open' = open /\ home' = home
      /\ applied' = applied /\ committed' = committed /\ durable' = durable
      /\ dirty' = dirty /\ late' = late /\ with' = with /\ calls' = calls
      /\ transient' = transient
  BY DEF serverVars
<1>2. call # "none" /\ Blank(result)
  BY DEF IInv, ControlOk
<1>3. ServerTypeOK'
  BY <1>1 DEF IInv, TypeOK, ServerTypeOK
<1>4. cmd'.msg = m /\ cmd'.set = cmd.set /\ cmd'.kept = cmd.kept
  BY SendTyped
<1>5. UntouchedOk(applied, call, cmd', late)
  BY <1>4 DEF UntouchedOk, IInv
<1> QED
  BY <1>1, <1>2, <1>3, <1>5 DEF IInv

(* A command that is sent as it stands, to another server: what ends a     *)
(* transaction, or the next attempt of any command.                        *)
LEMMA SameSend ==
  ASSUME IInv, pc = "select", cmd.tried \/ cmd.msg.kind \in Finishes,
         NEW d, NEW s \in Selections(d), NEW l \in Loops,
         cmd.tried => l.elig = cmd.loop.elig,
         ~cmd.tried => l.elig \in {"none", "overload_only"},
         Send(l, [cmd.msg EXCEPT !.server = s]), server_id' = PinAfter(s),
         UNCHANGED <<txn_number, txn_state, recovery_token>>,
         UNCHANGED <<serverVars, dirty, late, with, calls, transient>>
  PROVE  IInv'
<1> DEFINE m == [cmd.msg EXCEPT !.server = s]
           c == cmd'
<1>1. cmd \in Commands /\ cmd.msg \in Messages
  BY NumbersTyped DEF IInv
<1>2. /\ s \in Servers /\ server_id' \in Servers \cup {0}
      /\ txn_state \in Active /\ Sharded => server_id' = s
      /\ txn_state \in Active /\ Sharded /\ server_id \in Servers => s = server_id
  BY SelectionTyped
<1>3. /\ m \in Messages /\ m.kind = cmd.msg.kind /\ m.write = cmd.msg.write
      /\ m.num = cmd.msg.num /\ m.token = cmd.msg.token /\ m.start = cmd.msg.start
      /\ m.majority = cmd.msg.majority /\ m.server = s
  BY <1>1, <1>2 DEF Messages
<1>4. Send(l, m)
  OBVIOUS
<1> HIDE DEF m
<1>5. /\ c \in Commands /\ c.msg = m /\ c.loop = l /\ c.tried = TRUE
      /\ c.set = cmd.set /\ c.kept = cmd.kept /\ c.again = cmd.again
      /\ pc' = "wait" /\ call' = call /\ result' = result
      /\ Sent(late, c) = late \cup {m}
  BY <1>3, <1>4, SendTyped
<1>6. /\ call # "none" /\ Blank(result)
      /\ number' = number /\ open' = open /\ home' = home
      /\ applied' = applied /\ committed' = committed /\ durable' = durable
      /\ dirty' = dirty /\ late' = late /\ with' = with /\ calls' = calls
      /\ transient' = transient
      /\ ServerTypeOK'
      /\ UntouchedOk(applied, call, c, late)
      /\ WriteResultOk(applied, result, late, calls)
      /\ CommitResultOk(committed, durable, result)
  BY <1>3, <1>4, SendKeeps
<1>7. /\ txn_number' = txn_number /\ txn_state' = txn_state
      /\ recovery_token' = recovery_token
  OBVIOUS
<1> HIDE DEF c
<1>8. TypeOK'
  BY <1>2, <1>5, <1>6, <1>7 DEF TypeOK, IInv, c
<1>9. /\ ControlOk(txn_state, txn_number, call, pc, cmd, result, with)
      /\ call \in CallNames /\ m.kind \in {"write", "statement", "commit", "abort"}
  BY <1>3, MessageTyped DEF IInv, TypeOK
<1>10. cmd.tried \/ call \in Finishes
  BY <1>9 DEF ControlOk, CallNames, Finishes
<1>11. ControlOk(txn_state, txn_number, call, "wait", c, result, with)
  BY <1>3, <1>5, <1>6, <1>9, <1>10 DEF ControlOk, Finishes
<1>12. LoopOk(c)
  BY <1>3, <1>5, <1>9 DEF LoopOk, IInv, ControlOk, Finishes
<1>13. /\ NumbersOk(number, txn_state, txn_number, recovery_token, call, cmd, late,
                    calls)
       /\ OwnerOk(txn_state, txn_number, cmd, late)
       /\ AppliedOk(number, applied, cmd, late, calls)
  BY DEF IInv
<1>14. MessageOk(m, number, txn_number, calls)
  <2>1. CASE cmd.tried
    BY <1>3, <1>13, <2>1 DEF NumbersOk, Sent, MessageOk
  <2>2. CASE call \in Finishes
    BY <1>3, <1>9, <1>13, <2>2, NumbersTyped
       DEF NumbersOk, MessageOk, ControlOk, Finishes, IInv
  <2> QED
    BY <1>10, <2>1, <2>2
<1>15. NumbersOk(number, txn_state, txn_number, recovery_token, call, c, late, calls)
  BY <1>3, <1>5, <1>10, <1>13, <1>14 DEF NumbersOk, Sent, Finishes
<1>16. OwnerOk(txn_state, txn_number, c, late)
  <2>1. CASE cmd.tried
    <3>1. Sent(late, cmd) = late \cup {cmd.msg}
      BY <2>1 DEF Sent
    <3> QED
      BY <1>3, <1>5, <1>13, <3>1 DEF OwnerOk, IsWrite
  <2>2. CASE call \in Finishes
    <3>1. m.kind # "write" /\ m.num = txn_number /\ txn_state # "none"
      BY <1>3, <1>9, <1>13, <2>2 DEF NumbersOk, ControlOk, Finishes
    <3>2. late \subseteq Sent(late, cmd)
      BY DEF Sent
    <3> QED
      BY <1>5, <1>13, <3>1, <3>2 DEF OwnerOk, IsWrite
  <2> QED
    BY <1>10, <2>1, <2>2
<1>17. AppliedOk(number, applied, c, late, calls)
  <2>1. CASE cmd.tried
    <3>1. Sent(late, cmd) = late \cup {cmd.msg}
      BY <2>1 DEF Sent
    <3> QED
      BY <1>3, <1>5, <1>13, <3>1 DEF AppliedOk
  <2>2. CASE call \in Finishes
    <3>1. m.kind # "write"
      BY <1>3, <1>9, <2>2 DEF ControlOk, Finishes
    <3>2. late \subseteq Sent(late, cmd)
      BY DEF Sent
    <3> QED
      BY <1>5, <1>13, <3>1, <3>2 DEF AppliedOk
  <2> QED
    BY <1>10, <2>1, <2>2
<1>18. FirstCommitOk(committed, txn_number, call, c, late)
  BY <1>3, <1>5 DEF FirstCommitOk, IInv
<1>19. WithOk(number, open, committed, txn_state, txn_number, call, c, result, late,
              with)
  <2>1. \A x : Gone(x, number, open, committed, txn_state, txn_number, call, cmd,
                    late)
          => Gone(x, number, open, committed, txn_state, txn_number, call, c, late)
    BY <1>3, <1>5 DEF Gone
  <2> QED
    BY <2>1 DEF WithOk, AllGone, IInv
<1>20. RouteOk(number, open, home, txn_state, txn_number, server_id',
               recovery_token, call, c, late, transient)
  <2>1. RouteOk(number, open, home, txn_state, txn_number, server_id,
                recovery_token, call, cmd, late, transient)
    BY DEF IInv
  <2>2. call = "write" /\ m.kind = "statement" => txn_state \in Active /\ cmd.tried
    BY <1>3, <1>9, <1>10 DEF ControlOk, Active, Finishes
  <2>3. home \in Servers
    BY DEF IInv, TypeOK, ServerTypeOK
  <2>4. Sharded /\ txn_state \in Active /\ server_id = home => server_id' = home
    BY <1>2, <2>3
  <2> QED
    BY <1>2, <1>3, <1>5, <2>1, <2>2, <2>4 DEF RouteOk
<1> QED
  BY <1>5, <1>6, <1>7, <1>8, <1>11, <1>12, <1>15, <1>16, <1>17, <1>18, <1>19, <1>20
     DEF IInv, c

(* RetrySend.                                                              *)
LEMMA RetrySendStep ==
  ASSUME IInv, RetrySend
  PROVE  IInv'
<1>1. PICK s \in Selections(cmd.loop.deprioritized) :
        /\ server_id' = PinAfter(s)
        /\ Send([cmd.loop EXCEPT !.server = s], [cmd.msg EXCEPT !.server = s])
  BY DEF RetrySend
<1>2. /\ pc = "select" /\ cmd.tried
      /\ UNCHANGED <<txn_number, txn_state, recovery_token>>
      /\ UNCHANGED <<serverVars, dirty, late, with, calls, transient>>
  BY DEF RetrySend
<1>3. s \in Servers /\ cmd.loop \in Loops
  BY SelectionTyped DEF IInv, TypeOK, Commands
<1>4. /\ [cmd.loop EXCEPT !.server = s] \in Loops
      /\ [cmd.loop EXCEPT !.server = s].elig = cmd.loop.elig
  BY <1>3 DEF Loops
<1> QED
  BY <1>1, <1>2, <1>4, SameSend

(* The loop of a command that is sent for the first time.                  *)
LEMMA NewLoopTyped ==
  ASSUME NEW e \in Eligibilities, NEW s \in Servers
  PROVE  NewLoop(e, s) \in Loops /\ NewLoop(e, s).elig = e
BY DEF NewLoop, Loops

(* The eligibility of a command that has no number of its own.             *)
LEMMA NotRetryableTyped ==
  NotRetryable \in {"none", "overload_only"} /\ NotRetryable \in Eligibilities
BY DEF NotRetryable, Eligibilities

(* SendStatement: the command gets the number of the transaction.          *)
LEMMA StatementSend ==
  ASSUME IInv, pc = "select", ~cmd.tried, NEW s \in Selections({}),
         server_id' = PinAfter(s), SendStatement(s),
         UNCHANGED <<serverVars, dirty, late, with, calls, transient>>
  PROVE  IInv'
<1> DEFINE m == [cmd.msg EXCEPT !.server = s, !.num = txn_number,
                                !.start = (txn_state = "starting")]
           l == NewLoop(NotRetryable, s)
           c == cmd'
<1>1. cmd.msg \in Messages /\ txn_number \in 0 .. MaxTxnNumber
  BY NumbersTyped DEF IInv, TypeOK
<1>2. /\ s \in Servers /\ server_id' \in Servers \cup {0}
      /\ txn_state \in Active /\ Sharded => server_id' = s
      /\ txn_state \in Active /\ Sharded /\ server_id \in Servers => s = server_id
  BY SelectionTyped
<1>3. /\ m \in Messages /\ m.kind = cmd.msg.kind /\ m.write = cmd.msg.write
      /\ m.num = txn_number /\ m.token = cmd.msg.token
      /\ m.start = (txn_state = "starting") /\ m.server = s
  BY <1>1, <1>2 DEF Messages
<1>4. /\ Send(l, m) /\ cmd.msg.kind = "statement" /\ txn_state' = "in_progress"
      /\ txn_number' = txn_number /\ recovery_token' = recovery_token
  BY DEF SendStatement
<1>5. l \in Loops /\ l.elig \in {"none", "overload_only"}
  BY <1>2, NewLoopTyped, NotRetryableTyped
<1> HIDE DEF m, l
<1>6. /\ c \in Commands /\ c.msg = m /\ c.loop = l /\ c.tried = TRUE
      /\ c.set = cmd.set /\ c.kept = cmd.kept /\ c.again = cmd.again
      /\ pc' = "wait" /\ call' = call /\ result' = result
      /\ Sent(late, c) = late \cup {m}
  BY <1>3, <1>4, <1>5, SendTyped
<1>7. /\ call # "none" /\ Blank(result)
      /\ number' = number /\ open' = open /\ home' = home
      /\ applied' = applied /\ committed' = committed /\ durable' = durable
      /\ dirty' = dirty /\ late' = late /\ with' = with /\ calls' = calls
      /\ transient' = transient
      /\ ServerTypeOK'
      /\ UntouchedOk(applied, call, c, late)
      /\ WriteResultOk(applied, result, late, calls)
      /\ CommitResultOk(committed, durable, result)
  BY <1>3, <1>4, <1>5, SendKeeps
<1> HIDE DEF c
<1>8. TypeOK'
  BY <1>2, <1>4, <1>6, <1>7 DEF TypeOK, IInv, c, TxnStates
<1>9. ControlOk(txn_state, txn_number, call, pc, cmd, result, with)
  BY DEF IInv
<1>10. /\ call = "write" /\ txn_state \in Active /\ ~cmd.set
       /\ with.at \in {"off", "callback"}
  BY <1>4, <1>7, <1>9 DEF ControlOk, Finishes, IInv, TypeOK, CallNames
<1>11. ControlOk("in_progress", txn_number, call, "wait", c, result, with)
  BY <1>3, <1>4, <1>6, <1>7, <1>10 DEF ControlOk, Finishes, Active
<1>12. LoopOk(c)
  BY <1>3, <1>4, <1>5, <1>6, <1>10 DEF LoopOk
<1>13. /\ NumbersOk(number, txn_state, txn_number, recovery_token, call, cmd, late,
                    calls)
       /\ OwnerOk(txn_state, txn_number, cmd, late)
       /\ AppliedOk(number, applied, cmd, late, calls)
       /\ late \subseteq Sent(late, cmd) /\ txn_state # "none"
  BY <1>10 DEF IInv, Sent, Active
<1>14. MessageOk(m, number, txn_number, calls)
  BY <1>3, <1>4, <1>10, <1>13, NumbersTyped DEF NumbersOk, MessageOk, IInv
<1>15. NumbersOk(number, "in_progress", txn_number, recovery_token, call, c, late,
                 calls)
  BY <1>3, <1>4, <1>6, <1>10, <1>13, <1>14 DEF NumbersOk, Finishes
<1>16. OwnerOk("in_progress", txn_number, c, late)
  BY <1>3, <1>4, <1>6, <1>13 DEF OwnerOk, IsWrite
<1>17. AppliedOk(number, applied, c, late, calls)
  BY <1>3, <1>4, <1>6, <1>13 DEF AppliedOk
<1>18. FirstCommitOk(committed, txn_number, call, c, late)
  BY <1>10 DEF FirstCommitOk
<1>19. CommitOk(number, open, committed, "in_progress", txn_number, call, late)
  BY <1>10 DEF CommitOk, IInv, Active
<1>20. WithOk(number, open, committed, "in_progress", txn_number, call, c, result,
              late, with)
  <2>1. \A x : Gone(x, number, open, committed, txn_state, txn_number, call, cmd,
                    late)
          => Gone(x, number, open, committed, "in_progress", txn_number, call, c,
                  late)
    BY <1>10 DEF Gone, Active
  <2> QED
    BY <1>10, <1>13, <2>1 DEF WithOk, IInv, Active
<1>21. RouteOk(number, open, home, "in_progress", txn_number, server_id',
               recovery_token, call, c, late, transient)
  <2>1. RouteOk(number, open, home, txn_state, txn_number, server_id,
                recovery_token, call, cmd, late, transient)
    BY DEF IInv
  <2>2. home \in Servers
    BY DEF IInv, TypeOK, ServerTypeOK
  <2> QED
    BY <1>2, <1>3, <1>6, <1>10, <1>13, <2>1, <2>2 DEF RouteOk
<1> QED
  BY <1>4, <1>6, <1>7, <1>8, <1>11, <1>12, <1>15, <1>16, <1>17, <1>18, <1>19, <1>20,
     <1>21 DEF IInv, c

(* SendWrite: a write that can be retried gets a number of its own.        *)
LEMMA WriteSend ==
  ASSUME IInv, pc = "select", ~cmd.tried, NEW s \in Selections({}),
         server_id' = PinAfter(s), NEW second, SendWrite(s, second),
         UNCHANGED <<serverVars, dirty, late, with, calls, transient>>
  PROVE  IInv'
<1> DEFINE retryable == RetryWrites /\ ~second
           x == IF retryable THEN txn_number + 1 ELSE 0
           t == IF retryable THEN txn_number + 1 ELSE txn_number
           m == [cmd.msg EXCEPT !.server = s, !.num = x]
           l == NewLoop(IF retryable THEN "retryable_write" ELSE NotRetryable, s)
           c == cmd'
<1>1. /\ Send(l, m) /\ cmd.msg.kind = "write" /\ txn_state' = "none"
      /\ txn_number' = t
      /\ recovery_token' = IF txn_state = "none" THEN recovery_token ELSE 0
  BY DEF SendWrite
<1>2. /\ cmd.msg \in Messages /\ txn_number \in Nat /\ MaxTxnNumber \in Nat
      /\ txn_number <= MaxTxnNumber /\ late \subseteq Messages /\ number \in Nat
  BY NumbersTyped DEF IInv, TypeOK
<1>3. ControlOk(txn_state, txn_number, call, pc, cmd, result, with)
      /\ call \in CallNames
  BY DEF IInv, TypeOK
<1>4. /\ call = "write" /\ txn_state \notin Active /\ ~cmd.set
      /\ with.at \in {"off", "callback"} /\ txn_number < MaxTxnNumber
      /\ Blank(result)
  BY <1>1, <1>3 DEF ControlOk, Finishes, CallNames
<1>5. /\ x \in Nat /\ x <= MaxTxnNumber /\ t \in Nat /\ t <= MaxTxnNumber
      /\ x \in {0, t} /\ txn_number <= t
      /\ x # 0 => x > txn_number
      /\ retryable <=> x # 0
  BY <1>2, <1>4
<1>6. s \in Servers /\ server_id' \in Servers \cup {0}
  BY SelectionTyped
<1>7. l \in Loops /\ l.elig \in {"none", "overload_only", "retryable_write"}
      /\ (l.elig = "retryable_write" <=> retryable)
  BY <1>6, NewLoopTyped, NotRetryableTyped DEF Eligibilities
<1> HIDE DEF retryable, x, t, l
<1>8. /\ m \in Messages /\ m.kind = cmd.msg.kind /\ m.write = cmd.msg.write
      /\ m.num = x /\ m.token = cmd.msg.token
  <2>1. x \in 0 .. MaxTxnNumber
    BY <1>2, <1>5
  <2> QED
    BY <1>2, <1>6, <2>1 DEF Messages
<1> HIDE DEF m
<1>9. /\ c \in Commands /\ c.msg = m /\ c.loop = l /\ c.tried = TRUE
      /\ c.set = cmd.set /\ c.kept = cmd.kept /\ c.again = cmd.again
      /\ pc' = "wait" /\ call' = call /\ result' = result
      /\ Sent(late, c) = late \cup {m}
  BY <1>1, <1>7, <1>8, SendTyped
<1>10. /\ number' = number /\ open' = open /\ home' = home
       /\ applied' = applied /\ committed' = committed /\ durable' = durable
       /\ dirty' = dirty /\ late' = late /\ with' = with /\ calls' = calls
       /\ transient' = transient
       /\ ServerTypeOK'
       /\ UntouchedOk(applied, call, c, late)
       /\ WriteResultOk(applied, result, late, calls)
       /\ CommitResultOk(committed, durable, result)
  BY <1>1, <1>7, <1>8, SendKeeps
<1> HIDE DEF c
<1>11. /\ NumbersOk(number, txn_state, txn_number, recovery_token, call, cmd, late,
                    calls)
       /\ OwnerOk(txn_state, txn_number, cmd, late)
       /\ AppliedOk(number, applied, cmd, late, calls)
       /\ UntouchedOk(applied, call, cmd, late)
       /\ late \subseteq Sent(late, cmd)
  BY DEF IInv, Sent
<1>12. recovery_token' = 0
  BY <1>1, <1>11 DEF NumbersOk
<1>13. TypeOK'
  <2>1. t \in 0 .. MaxTxnNumber /\ 0 \in 0 .. MaxTxnNumber
    BY <1>2, <1>5
  <2> QED
    BY <1>1, <1>6, <1>9, <1>10, <1>12, <2>1 DEF TypeOK, IInv, c, TxnStates
<1>14. ControlOk("none", t, call, "wait", c, result, with)
  BY <1>1, <1>4, <1>8, <1>9 DEF ControlOk, Finishes, Active
<1>15. LoopOk(c)
  BY <1>1, <1>4, <1>5, <1>7, <1>8, <1>9 DEF LoopOk
<1>16. \A u \in late : MessageOk(u, number, txn_number, calls) /\ u.num \in Nat
  BY <1>2, <1>11, MessageTyped DEF NumbersOk
<1>17. \A u \in late : MessageOk(u, number, t, calls) /\ (x # 0 => u.num # x)
  <2>1. ASSUME NEW u \in late
        PROVE  u.num <= t /\ (x # 0 => u.num # x)
    BY <1>2, <1>5, <1>16 DEF MessageOk
  <2> QED
    BY <1>16, <2>1 DEF MessageOk
<1>18. MessageOk(m, number, t, calls)
  <2>1. m.write = calls /\ calls # 0 /\ m.token = 0 /\ calls \in Nat
    BY <1>1, <1>4, <1>8, <1>11, NumbersTyped DEF NumbersOk, IInv
  <2> QED
    BY <1>1, <1>2, <1>5, <1>8, <2>1 DEF MessageOk
<1>19. NumbersOk(number, "none", t, 0, call, c, late, calls)
  <2>1. number <= t /\ 0 <= number
    BY <1>2, <1>5, <1>11 DEF NumbersOk
  <2>2. m.write = calls /\ calls # 0 /\ m.token = 0
    BY <1>1, <1>4, <1>8, <1>11 DEF NumbersOk
  <2> QED
    BY <1>1, <1>4, <1>5, <1>8, <1>9, <1>17, <1>18, <2>1, <2>2
       DEF NumbersOk, Finishes
<1>20. applied[m.write] = 0 /\ NoCopy(late, m.write)
  BY <1>1, <1>4, <1>8, <1>11 DEF UntouchedOk
<1>21. OwnerOk("none", t, c, late)
  BY <1>1, <1>5, <1>8, <1>9, <1>11, <1>17, <1>20 DEF OwnerOk, IsWrite, NoCopy
<1>22. AppliedOk(number, applied, c, late, calls)
  <2>1. x # 0 => number # x
    BY <1>2, <1>5, <1>11 DEF NumbersOk
  <2> QED
    BY <1>8, <1>9, <1>11, <1>20, <2>1 DEF AppliedOk
<1>23. FirstCommitOk(committed, t, call, c, late)
  BY <1>4 DEF FirstCommitOk
<1>24. CommitOk(number, open, committed, "none", t, call, late)
  BY <1>4 DEF CommitOk, IInv, Active
<1>25. WithOk(number, open, committed, "none", t, call, c, result, late, with)
  <2>1. \A y : Gone(y, number, open, committed, txn_state, txn_number, call, cmd,
                    late)
          => Gone(y, number, open, committed, "none", t, call, c, late)
    BY <1>4 DEF Gone, Active
  <2>2. with.nums \subseteq Nat
    BY <1>2 DEF IInv, TypeOK, Withs, Numbers
  <2>3. \A y \in with.nums : y <= t
    BY <1>2, <1>5, <2>2 DEF WithOk, IInv
  <2> QED
    BY <1>4, <2>1, <2>3 DEF WithOk, IInv, Blank
<1>26. RouteOk(number, open, home, "none", t, server_id', 0, call, c, late,
               transient)
  BY <1>1, <1>8, <1>9 DEF RouteOk
<1> QED
  BY <1>1, <1>9, <1>10, <1>12, <1>13, <1>14, <1>15, <1>19, <1>21, <1>22, <1>23,
     <1>24, <1>25, <1>26 DEF IInv, c

(* FirstSend.                                                              *)
LEMMA FirstSendStep ==
  ASSUME IInv, FirstSend
  PROVE  IInv'
<1>1. /\ pc = "select" /\ ~cmd.tried
      /\ UNCHANGED <<serverVars, dirty, late, with, calls, transient>>
  BY DEF FirstSend
<1>2. PICK s \in Selections({}) :
        /\ server_id' = PinAfter(s)
        /\ \/ \E second \in {FALSE, RetryWrites} : SendWrite(s, second)
           \/ SendStatement(s)
           \/ SendFinish(s)
  BY DEF FirstSend
<1>3. CASE \E second \in {FALSE, RetryWrites} : SendWrite(s, second)
  BY <1>1, <1>2, <1>3, WriteSend
<1>4. CASE SendStatement(s)
  BY <1>1, <1>2, <1>4, StatementSend
<1>5. CASE SendFinish(s)
  <2>1. /\ cmd.msg.kind \in Finishes
        /\ Send(NewLoop(NotRetryable, s), [cmd.msg EXCEPT !.server = s])
        /\ UNCHANGED <<txn_number, txn_state, recovery_token>>
    BY <1>5 DEF SendFinish, Finishes
  <2>2. s \in Servers
    BY SelectionTyped
  <2>3. /\ NewLoop(NotRetryable, s) \in Loops
        /\ NewLoop(NotRetryable, s).elig \in {"none", "overload_only"}
    BY <2>2, NewLoopTyped, NotRetryableTyped
  <2> QED
    BY <1>1, <1>2, <2>1, <2>3, SameSend
<1> QED
  BY <1>2, <1>3, <1>4, <1>5

----------------------------------------------------------------------------
(***************************************************************************)
(* The calls of the application and of with_transaction: no command runs.  *)
(***************************************************************************)
(* The result of a call that sends no command, and what is before a call.  *)
Quiet(q) == q.kind = "abort" /\ q.labels = {} /\ q.num = 0 /\ q \in Results

(* A call that is refused, or that has nothing to send.                     *)
LEMMA QuietResult ==
  ASSUME NEW fn \in CallNames, NEW ok \in BOOLEAN, NEW error \in ErrorKinds
  PROVE  LET q == Returned(fn, ok, error, OkReply, NoCommand)
         IN  Quiet(q) /\ q.fn = fn
<1> DEFINE q == Returned(fn, ok, error, OkReply, NoCommand)
<1>1. OkReply \in ReplyRecords /\ OkReply.labels = {}
  BY DEF OkReply, Reply, ReplyRecords, Codes, Labels
<1>2. NoMessage.num = 0 /\ NoMessage.kind = "abort"
  BY DEF NoMessage
<1>3. /\ q \in Results /\ q.fn = fn /\ q.labels = OkReply.labels
      /\ q.num = NoCommand.msg.num /\ q.kind = NoCommand.msg.kind
  BY <1>1, NoCommandTyped, ReturnedTyped
<1> HIDE DEF q
<1>4. Quiet(q) /\ q.fn = fn
  BY <1>1, <1>2, <1>3, NoCommandTyped DEF Quiet
<1> QED
  BY <1>4 DEF q

(* Before a call returns.                                                  *)
LEMMA NothingResult ==
  Quiet(Nothing) /\ Blank(Nothing)
<1>1. "none" \in CallNames /\ TRUE \in BOOLEAN /\ "none" \in ErrorKinds
  BY DEF CallNames, ErrorKinds
<1>2. Quiet(Nothing) /\ Nothing.fn = "none"
  BY <1>1, QuietResult DEF Nothing
<1> QED
  BY <1>2 DEF Quiet, Blank

(* What a call with no command under way leaves as it is: the writes and   *)
(* the numbers of the commands that are late.                              *)
LEMMA IdleKeeps ==
  ASSUME IInv, call = "none", UNCHANGED <<serverVars, dirty, late>>,
         cmd' \in Commands, cmd'.tried = FALSE, cmd'.set = FALSE,
         txn_number' \in {txn_number, txn_number + 1},
         txn_number' <= MaxTxnNumber,
         txn_state' # "none" => txn_state # "none" \/ txn_number' = txn_number + 1,
         calls' \in {calls, calls + 1}, calls' <= MaxCalls,
         result' = result \/ Quiet(result')
  PROVE  /\ number' = number /\ open' = open /\ home' = home
         /\ applied' = applied /\ committed' = committed /\ durable' = durable
         /\ dirty' = dirty /\ late' = late
         /\ ServerTypeOK' /\ dirty' \in BOOLEAN /\ late' \subseteq Messages
         /\ txn_number' \in 0 .. MaxTxnNumber /\ calls' \in 0 .. MaxCalls
         /\ result' \in Results
         /\ LoopOk(cmd')
         /\ number <= txn_number'
         /\ \A m \in late : /\ MessageOk(m, number, txn_number', calls')
                            /\ m.num <= txn_number
         /\ Sent(late, cmd') = late
         /\ OwnerOk(txn_state', txn_number', cmd', late)
         /\ AppliedOk(number, applied, cmd', late, calls')
         /\ \A x \in Writes : x > calls => applied[x] = 0 /\ NoCopy(late, x)
         /\ WriteResultOk(applied, result', late, calls')
         /\ CommitResultOk(committed, durable, result')
<1>1. /\ number' = number /\ open' = open /\ home' = home
      /\ applied' = applied /\ committed' = committed /\ durable' = durable
      /\ dirty' = dirty /\ late' = late
  BY DEF serverVars
<1>2. /\ ServerTypeOK' /\ dirty' \in BOOLEAN /\ late' \subseteq Messages
      /\ late \subseteq Messages /\ result \in Results
  BY <1>1 DEF IInv, TypeOK, ServerTypeOK
<1>3. /\ number \in Nat /\ txn_number \in Nat /\ calls \in Nat
      /\ MaxTxnNumber \in Nat /\ MaxCalls \in Nat /\ MaxWrites \in Nat
  BY NumbersTyped, SessionAssumption, ServerAssumption DEF IInv
<1>4. txn_number' \in 0 .. MaxTxnNumber /\ calls' \in 0 .. MaxCalls
      /\ txn_number' >= txn_number /\ calls' >= calls
      /\ txn_number' \in Nat /\ calls' \in Nat
  BY <1>3
<1>5. result' \in Results
  BY <1>2 DEF Quiet
<1>6. LoopOk(cmd')
  BY DEF LoopOk
<1>7. ~cmd.tried
  BY DEF IInv, ControlOk
<1>8. Sent(late, cmd) = late /\ Sent(late, cmd') = late
  BY <1>7, SentUntried DEF Sent
<1>9. /\ number <= txn_number
      /\ \A m \in late : MessageOk(m, number, txn_number, calls)
  BY <1>8 DEF IInv, NumbersOk
<1>10. number <= txn_number'
  BY <1>3, <1>4, <1>9
<1>11. ASSUME NEW m \in late
       PROVE  MessageOk(m, number, txn_number', calls') /\ m.num <= txn_number
  <2>1. m.num \in Nat /\ m.write \in Nat /\ m.num <= txn_number
    BY <1>2, <1>9, <1>11, MessageTyped DEF MessageOk
  <2>2. m.num <= txn_number'
    BY <1>3, <1>4, <2>1
  <2>3. m.write \in 1 .. calls => m.write \in 1 .. calls'
    BY <1>3, <1>4, <2>1
  <2> QED
    BY <1>9, <1>11, <2>1, <2>2, <2>3 DEF MessageOk
<1>12. OwnerOk(txn_state', txn_number', cmd', late)
  <2>1. OwnerOk(txn_state, txn_number, cmd, late)
    BY DEF IInv
  <2>2. ASSUME NEW m \in late, m.kind = "write", txn_state' # "none"
        PROVE  m.num # txn_number'
    <3>1. m.num \in Nat /\ m.num <= txn_number
      BY <1>2, <1>11, <2>2, MessageTyped
    <3>2. CASE txn_number' = txn_number + 1
      BY <1>3, <3>1, <3>2
    <3>3. CASE txn_number' = txn_number /\ txn_state # "none"
      BY <1>8, <2>1, <2>2, <3>3 DEF OwnerOk
    <3> QED
      BY <2>2, <3>2, <3>3
  <2> QED
    BY <1>8, <2>1, <2>2 DEF OwnerOk
<1>13. AppliedOk(number, applied, cmd, late, calls)
  BY DEF IInv
<1>14. AppliedOk(number, applied, cmd', late, calls')
  <2>1. ASSUME NEW x \in Writes, x > calls'
        PROVE  applied[x] = 0
    <3>1. x > calls
      BY <1>3, <1>4, <2>1 DEF Writes
    <3> QED
      BY <1>13, <2>1, <3>1 DEF AppliedOk
  <2> QED
    BY <1>8, <1>13, <2>1 DEF AppliedOk
<1>15. ASSUME NEW x \in Writes, x > calls
       PROVE  applied[x] = 0 /\ NoCopy(late, x)
  <2>1. applied[x] = 0
    BY <1>13, <1>15 DEF AppliedOk
  <2>2. ASSUME NEW m \in late, IsWrite(m, x) PROVE FALSE
    <3>1. m.write = x /\ m.write \in 1 .. calls
      BY <1>9, <2>2 DEF MessageOk, IsWrite
    <3> QED
      BY <1>3, <1>15, <3>1 DEF Writes
  <2> QED
    BY <2>1, <2>2 DEF NoCopy
<1>16. WriteResultOk(applied, result', late, calls')
  <2>1. CASE result' = result
    <3>1. result.write \in 1 .. calls => result.write \in 1 .. calls'
      BY <1>3, <1>4
    <3>2. WriteResultOk(applied, result, late, calls)
      BY DEF IInv
    <3> QED
      BY <2>1, <3>1, <3>2 DEF WriteResultOk
  <2>2. CASE Quiet(result')
    BY <2>2 DEF WriteResultOk, Quiet
  <2> QED
    BY <2>1, <2>2
<1>17. CommitResultOk(committed, durable, result')
  BY DEF CommitResultOk, Quiet, IInv
<1> QED
  BY <1>1, <1>2, <1>4, <1>5, <1>6, <1>8, <1>10, <1>11, <1>12, <1>14, <1>15, <1>16,
     <1>17

(* Where a new transaction may be the next step.                           *)
MayRestart(w, q, st) ==
  \/ w.at \in {"start", "restart"}
  \/ w.at = "aborted" /\ "Transient" \in w.labels
  \/ /\ w.at \in {"callback", "committed"} /\ "Transient" \in q.labels
     /\ st \notin Active

(* A step of with_transaction itself: it starts nothing, and goes where    *)
(* the transactions must be gone only if they are.                         *)
LEMMA WithMove ==
  ASSUME IInv, UNCHANGED <<serverVars, txnVars, call, pc, cmd, calls, late,
                           transient>>,
         result' = result \/ (call = "none" /\ result' = Nothing),
         with' \in Withs, with'.nums \subseteq with.nums,
         call # "none" => with'.at = with.at,
         with'.at \in {"aborted", "committed"} => txn_state \notin Active,
         with'.at # "off" => with.at # "off" \/ with'.nums = {},
         MayRestart(with', result', txn_state) =>
           \/ AllGone(number, open, committed, txn_state, txn_number, call, cmd,
                      late, with)
           \/ with'.nums = {}
  PROVE  IInv'
<1>1. /\ number' = number /\ open' = open /\ home' = home
      /\ applied' = applied /\ committed' = committed /\ durable' = durable
      /\ txn_state' = txn_state /\ txn_number' = txn_number /\ dirty' = dirty
      /\ server_id' = server_id /\ recovery_token' = recovery_token
      /\ call' = call /\ pc' = pc /\ cmd' = cmd /\ calls' = calls /\ late' = late
      /\ transient' = transient
  BY DEF serverVars, txnVars
<1>2. Quiet(Nothing) /\ Blank(Nothing)
  BY NothingResult
<1>3. result' \in Results
  BY <1>2 DEF Quiet, IInv, TypeOK
<1>4. TypeOK'
  BY <1>1, <1>3 DEF IInv, TypeOK, ServerTypeOK
<1>5. ControlOk(txn_state, txn_number, call, pc, cmd, result', with')
  <2>1. ControlOk(txn_state, txn_number, call, pc, cmd, result, with)
    BY DEF IInv
  <2> QED
    BY <1>2, <2>1 DEF ControlOk, Finishes
<1>6. WriteResultOk(applied, result', late, calls)
      /\ CommitResultOk(committed, durable, result')
  BY <1>2 DEF WriteResultOk, CommitResultOk, Quiet, IInv
<1>7. WithOk(number, open, committed, txn_state, txn_number, call, cmd, result',
             late, with')
  <2>1. WithOk(number, open, committed, txn_state, txn_number, call, cmd, result,
               late, with)
    BY DEF IInv
  <2> QED
    BY <2>1 DEF WithOk, AllGone, MayRestart
<1> QED
  BY <1>1, <1>4, <1>5, <1>6, <1>7 DEF IInv

(* with_transaction goes from one place to another, or returns.            *)
LEMMA WithGoes ==
  ASSUME IInv, UNCHANGED <<serverVars, txnVars, callVars, late, transient>>,
         call = "none",
         \/ \E ok \in BOOLEAN : WithReturns(ok)
         \/ With("commit") /\ with.at # "off"
         \/ \E at \in {"start", "restart"} :
              /\ With(at) /\ with.at # "off"
              /\ AllGone(number, open, committed, txn_state, txn_number, call, cmd,
                         late, with)
  PROVE  IInv'
<1>0. with \in Withs
  BY DEF IInv, TypeOK
<1>1. /\ UNCHANGED <<serverVars, txnVars, call, pc, cmd, calls, late, transient>>
      /\ result' = result
  BY DEF callVars
<1>2. CASE \E ok \in BOOLEAN : WithReturns(ok)
  <2>1. PICK ok \in BOOLEAN : with' = [with EXCEPT !.at = "off", !.ok = ok]
    BY <1>2 DEF WithReturns
  <2>2. with' \in Withs /\ with'.at = "off" /\ with'.nums = with.nums
    BY <1>0, <2>1 DEF Withs
  <2>3. ~MayRestart(with', result', txn_state)
    BY <2>2 DEF MayRestart
  <2> QED
    BY <1>1, <2>2, <2>3, WithMove
<1>3. CASE With("commit") /\ with.at # "off"
  <2>1. with' \in Withs /\ with'.at = "commit" /\ with'.nums = with.nums
    BY <1>0, <1>3 DEF With, Withs
  <2>2. ~MayRestart(with', result', txn_state)
    BY <2>1 DEF MayRestart
  <2> QED
    BY <1>1, <1>3, <2>1, <2>2, WithMove
<1>4. ASSUME NEW at \in {"start", "restart"}, With(at), with.at # "off",
             AllGone(number, open, committed, txn_state, txn_number, call, cmd,
                     late, with)
      PROVE  IInv'
  <2>1. with' \in Withs /\ with'.at = at /\ with'.nums = with.nums
    BY <1>0, <1>4 DEF With, Withs
  <2> QED
    BY <1>1, <1>4, <2>1, WithMove
<1> QED
  BY <1>2, <1>3, <1>4

(* Where with_transaction is, no call of the callback runs.                *)
LEMMA WithIdle ==
  ASSUME IInv, with.at \in {"start", "commit", "restart"}
  PROVE  call = "none"
BY DEF IInv, ControlOk, TypeOK, CallNames

(* WithAborted.                                                            *)
LEMMA WithAbortedStep ==
  ASSUME IInv, WithAborted
  PROVE  IInv'
<1>1. /\ with.at = "aborted" /\ call = "none"
      /\ UNCHANGED <<serverVars, txnVars, callVars, late, transient>>
  BY DEF WithAborted
<1>2. CASE "Transient" \in with.labels /\ With("restart")
  <2>1. AllGone(number, open, committed, txn_state, txn_number, call, cmd, late,
                with)
    BY <1>1, <1>2 DEF IInv, WithOk
  <2> QED
    BY <1>1, <1>2, <2>1, WithGoes
<1>3. CASE WithReturns(FALSE)
  BY <1>1, <1>3, WithGoes
<1> QED
  BY <1>2, <1>3 DEF WithAborted

(* CallbackSucceeds.                                                       *)
LEMMA CallbackSucceedsStep ==
  ASSUME IInv, CallbackSucceeds
  PROVE  IInv'
<1>1. /\ with.at = "callback" /\ call = "none"
      /\ UNCHANGED <<serverVars, txnVars, callVars, late, transient>>
      /\ With("commit") \/ WithReturns(TRUE)
  BY DEF CallbackSucceeds
<1> QED
  BY <1>1, WithGoes

(* WithCommitted: a commit that failed with TransientTransactionError is   *)
(* run again as a whole, one of unknown result is only committed again.    *)
LEMMA WithCommittedStep ==
  ASSUME IInv, WithCommitted
  PROVE  IInv'
<1>1. /\ with.at = "committed" /\ call = "none"
      /\ UNCHANGED <<serverVars, txnVars, callVars, late, transient>>
  BY DEF WithCommitted
<1>2. \/ \E ok \in BOOLEAN : WithReturns(ok)
      \/ With("commit")
      \/ "Transient" \in result.labels /\ With("restart")
  <2>1. CASE result.ok
    BY <2>1 DEF WithCommitted
  <2>2. CASE ~result.ok
    BY <2>2 DEF WithCommitted
  <2> QED
    BY <2>1, <2>2
<1>3. CASE "Transient" \in result.labels /\ With("restart")
  <2>1. AllGone(number, open, committed, txn_state, txn_number, call, cmd, late,
                with)
    BY <1>1, <1>3 DEF IInv, WithOk, ControlOk
  <2> QED
    BY <1>1, <1>3, <2>1, WithGoes
<1>4. CASE With("commit") \/ \E ok \in BOOLEAN : WithReturns(ok)
  BY <1>1, <1>4, WithGoes
<1> QED
  BY <1>2, <1>3, <1>4

(* WithRestart.                                                            *)
LEMMA WithRestartStep ==
  ASSUME IInv, WithRestart
  PROVE  IInv'
<1>1. /\ with.at = "restart" /\ call = "none"
      /\ UNCHANGED <<serverVars, txnVars, callVars, late, transient>>
      /\ With("start") \/ WithReturns(FALSE)
  BY WithIdle DEF WithRestart
<1>2. AllGone(number, open, committed, txn_state, txn_number, call, cmd, late, with)
  BY <1>1 DEF IInv, WithOk
<1>3. CASE With("start")
  BY <1>1, <1>2, <1>3, WithGoes
<1>4. CASE WithReturns(FALSE)
  BY <1>1, <1>4, WithGoes
<1> QED
  BY <1>1, <1>3, <1>4

(* Expire: the timeout of with_transaction passes, at any moment.          *)
LEMMA ExpireStep ==
  ASSUME IInv, Expire
  PROVE  IInv'
<1>1. /\ UNCHANGED <<serverVars, txnVars, call, pc, cmd, calls, late, transient>>
      /\ result' = result /\ with' = [with EXCEPT !.expired = TRUE]
  BY DEF Expire, callVars
<1>2. with \in Withs
  BY DEF IInv, TypeOK
<1>3. /\ with' \in Withs /\ with'.at = with.at /\ with'.nums = with.nums
      /\ with'.labels = with.labels
  BY <1>1, <1>2 DEF Withs
<1>4. /\ with.at \in {"aborted", "committed"} => txn_state \notin Active
      /\ MayRestart(with, result, txn_state) =>
           AllGone(number, open, committed, txn_state, txn_number, call, cmd, late,
                   with)
  BY DEF IInv, ControlOk, WithOk, MayRestart
<1>5. MayRestart(with', result', txn_state) => MayRestart(with, result, txn_state)
  BY <1>1, <1>3 DEF MayRestart
<1>6. with'.nums \subseteq with.nums
  BY <1>3
<1> QED
  BY <1>1, <1>3, <1>4, <1>5, <1>6, WithMove

(* WithBegin.                                                              *)
LEMMA WithBeginStep ==
  ASSUME IInv, WithBegin
  PROVE  IInv'
<1>1. /\ call = "none" /\ with.at = "off"
      /\ UNCHANGED <<serverVars, txnVars, call, pc, cmd, calls, late, transient>>
      /\ result' = Nothing /\ with' = [NotWith EXCEPT !.at = "start"]
  BY DEF WithBegin, MayCall
<1>2. with' \in Withs /\ with'.at = "start" /\ with'.nums = {}
  BY <1>1 DEF NotWith, Withs
<1> QED
  BY <1>1, <1>2, WithMove

(* A new transaction.                                                      *)
LEMMA StartStep ==
  ASSUME IInv, call = "none", StartTransaction,
         UNCHANGED <<serverVars, call, pc, cmd, calls, late>>,
         result' = result \/ result' = Nothing,
         \/ with' = with /\ with.at = "off"
         \/ /\ with.at = "start"
            /\ with' = [with EXCEPT !.at = "callback",
                                    !.nums = @ \cup {txn_number + 1}]
  PROVE  IInv'
<1> DEFINE t == txn_number + 1
           q == result'
           w == with'
<1>1. /\ txn_number' = t /\ txn_number < MaxTxnNumber /\ txn_state' = "starting"
      /\ server_id' = 0 /\ recovery_token' = 0 /\ transient' = FALSE
      /\ dirty' = dirty /\ call' = "none" /\ pc' = pc /\ cmd' = cmd
      /\ calls' = calls /\ UNCHANGED <<serverVars, dirty, late>>
  BY DEF StartTransaction
<1>2. /\ number \in Nat /\ txn_number \in Nat /\ calls \in Nat /\ cmd \in Commands
      /\ MaxTxnNumber \in Nat /\ calls \in 0 .. MaxCalls /\ MaxCalls \in Nat
      /\ late \subseteq Messages /\ with \in Withs
  BY NumbersTyped, SessionAssumption, ServerAssumption DEF IInv, TypeOK
<1>3. ControlOk(txn_state, txn_number, call, pc, cmd, result, with)
  BY DEF IInv
<1>4. cmd.tried = FALSE /\ cmd.set = FALSE
  BY <1>2, <1>3 DEF ControlOk, Commands
<1>5. result' = result \/ Quiet(result')
  BY NothingResult
<1>6. t \in Nat /\ t <= MaxTxnNumber /\ calls <= MaxCalls
  BY <1>1, <1>2
<1>7. /\ number' = number /\ open' = open /\ home' = home
      /\ applied' = applied /\ committed' = committed /\ durable' = durable
      /\ dirty' = dirty /\ late' = late
      /\ ServerTypeOK' /\ dirty' \in BOOLEAN /\ late' \subseteq Messages
      /\ txn_number' \in 0 .. MaxTxnNumber /\ calls' \in 0 .. MaxCalls
      /\ q \in Results
      /\ LoopOk(cmd)
      /\ number <= t
      /\ \A m \in late : MessageOk(m, number, t, calls) /\ m.num <= txn_number
      /\ Sent(late, cmd) = late
      /\ OwnerOk("starting", t, cmd, late)
      /\ AppliedOk(number, applied, cmd, late, calls)
      /\ WriteResultOk(applied, q, late, calls)
      /\ CommitResultOk(committed, durable, q)
  BY <1>1, <1>2, <1>4, <1>5, <1>6, IdleKeeps
<1> HIDE DEF q, w
<1>8. /\ w \in Withs /\ w.at \in {"off", "callback"}
      /\ \/ w.nums = with.nums
         \/ w.nums = with.nums \cup {t} /\ with.at = "start"
      /\ w.at # "off" => with.at = "start"
  <2>1. t \in Numbers
    BY <1>1, <1>2 DEF Numbers
  <2>2. CASE with' = with /\ with.at = "off"
    BY <1>2, <2>2 DEF w
  <2>3. CASE /\ with.at = "start"
             /\ with' = [with EXCEPT !.at = "callback", !.nums = @ \cup {t}]
    <3> HIDE DEF t
    <3>1. with.nums \cup {t} \in SUBSET Numbers
      BY <1>2, <2>1 DEF Withs
    <3> QED
      BY <1>2, <2>3, <3>1 DEF Withs, w
  <2> QED
    BY <2>2, <2>3
<1>9. \A m \in late : m.num # t
  <2>1. ASSUME NEW m \in late PROVE m.num # t
    <3>1. m.num \in Nat /\ m.num <= txn_number
      BY <1>2, <1>7, <2>1, MessageTyped
    <3> QED
      BY <1>2, <3>1
  <2> QED
    BY <2>1
<1>10. number < t /\ number # t
  BY <1>2 DEF IInv, NumbersOk
<1>11. /\ CommitOk(number, open, committed, txn_state, txn_number, call, late)
       /\ WithOk(number, open, committed, txn_state, txn_number, call, cmd, result,
                 late, with)
       /\ committed \subseteq Nat /\ with.nums \subseteq Nat
  BY <1>2 DEF IInv, TypeOK, ServerTypeOK, Withs, Numbers
<1>12. t \notin committed
  BY <1>2, <1>10, <1>11 DEF CommitOk
<1>13. \A x \in with.nums : x <= txn_number /\ x < t /\ x <= t
  BY <1>2, <1>11 DEF WithOk
<1>14. t # 0
  BY <1>2
<1> HIDE DEF t
<1>15. TypeOK'
  <2>1. 0 \in 0 .. MaxTxnNumber /\ pc \in {"idle", "select", "wait"}
    BY <1>2 DEF IInv, TypeOK
  <2> QED
    BY <1>1, <1>2, <1>7, <1>8, <2>1 DEF TypeOK, TxnStates, q, w, CallNames
<1>16. ControlOk("starting", t, "none", pc, cmd, q, w)
  BY <1>3, <1>8 DEF ControlOk, Finishes
<1>17. NumbersOk(number, "starting", t, 0, "none", cmd, late, calls)
  BY <1>2, <1>7, <1>14 DEF NumbersOk, Finishes
<1>18. UntouchedOk(applied, "none", cmd, late)
       /\ FirstCommitOk(committed, t, "none", cmd, late)
  BY DEF UntouchedOk, FirstCommitOk
<1>19. CommitOk(number, open, committed, "starting", t, "none", late)
  BY <1>9, <1>11, <1>12 DEF CommitOk, Uncommitted, NoCommit
<1>20. WithOk(number, open, committed, "starting", t, "none", cmd, q, late, w)
  <2>1. ASSUME NEW x \in with.nums,
               Gone(x, number, open, committed, txn_state, txn_number, call, cmd,
                    late)
        PROVE  Gone(x, number, open, committed, "starting", t, "none", cmd, late)
    <3>1. x # t
      BY <1>2, <1>11, <1>13, <2>1 DEF t
    <3> QED
      BY <2>1, <3>1 DEF Gone
  <2>2. \A x \in w.nums : x <= t
    BY <1>2, <1>8, <1>13 DEF t
  <2>3. ASSUME with.at = "start", NEW x \in with.nums
        PROVE  Gone(x, number, open, committed, "starting", t, "none", cmd, late)
    BY <1>11, <2>1, <2>3 DEF WithOk, AllGone
  <2>4. ASSUME NEW x \in w.nums, NEW y \in w.nums, x < y
        PROVE  Gone(x, number, open, committed, "starting", t, "none", cmd, late)
    <3>1. CASE with.at = "start"
      <4>1. x # t
        <5>1. x \in Nat /\ y \in Nat /\ y <= t /\ t \in Nat
          BY <1>2, <1>6, <1>8, <1>11, <2>2, <2>4
        <5> QED
          BY <2>4, <5>1
      <4> QED
        BY <1>8, <2>3, <3>1, <4>1
    <3>2. CASE w.nums = with.nums
      BY <1>11, <2>1, <2>4, <3>2 DEF WithOk
    <3> QED
      BY <1>8, <3>1, <3>2
  <2>5. ASSUME w.at # "off", NEW x \in w.nums, x # t
        PROVE  Gone(x, number, open, committed, "starting", t, "none", cmd, late)
    BY <1>8, <2>3, <2>5
  <2> QED
    BY <1>8, <2>2, <2>4, <2>5 DEF WithOk, Active
<1>21. RouteOk(number, open, home, "starting", t, 0, 0, "none", cmd, late, FALSE)
  BY <1>9, <1>10 DEF RouteOk, t
<1> QED
  BY <1>1, <1>7, <1>15, <1>16, <1>17, <1>18, <1>19, <1>20, <1>21 DEF IInv, q, w

(* CallStart.                                                              *)
LEMMA CallStartStep ==
  ASSUME IInv, CallStart
  PROVE  IInv'
<1>1. /\ call = "none" /\ StartTransaction
      /\ UNCHANGED <<serverVars, call, pc, cmd, calls, late>>
      /\ result' = Nothing /\ with' = with /\ with.at = "off"
  BY DEF CallStart, MayCall
<1> QED
  BY <1>1, StartStep

(* WithStart.                                                              *)
LEMMA WithStartStep ==
  ASSUME IInv, WithStart
  PROVE  IInv'
<1>1. /\ with.at = "start" /\ call = "none"
      /\ UNCHANGED <<serverVars, callVars, late>>
      /\ UNCHANGED <<serverVars, call, pc, cmd, calls, late>> /\ result' = result
  BY WithIdle DEF WithStart, callVars
<1>2. CASE WithReturns(FALSE) /\ UNCHANGED <<txnVars, transient>>
  <2>1. UNCHANGED <<serverVars, txnVars, callVars, late, transient>>
    BY <1>1, <1>2
  <2> QED
    BY <1>1, <1>2, <2>1, WithGoes
<1>3. CASE /\ StartTransaction
           /\ with' = [with EXCEPT !.at = "callback",
                                   !.nums = @ \cup {txn_number + 1}]
  BY <1>1, <1>3, StartStep
<1> QED
  BY <1>2, <1>3 DEF WithStart

(* What with may become when a call is made: the place it was at, or the   *)
(* one where it waits for the end of the transaction.                      *)
Calling(w) ==
  /\ w \in Withs /\ w.nums = with.nums
  /\ w.at # "off" => with.at # "off"
  /\ \/ w.at \in {"off", "callback", "committed"}
     \/ w.at = "aborted" /\ txn_state \in Active

(* A transaction of with_transaction that is gone stays gone, and the one  *)
(* that is aborted goes.                                                   *)
LEMMA WithCalling ==
  ASSUME IInv, call = "none", NEW w, Calling(w), NEW cl, NEW c, NEW s, NEW q,
         q.labels = {}, s # "none" => txn_state # "none", s \notin Active,
         s = "committed" => txn_state = "committed",
         cl = "commit" => /\ c.msg.num = txn_number
                          /\ txn_state \in {"in_progress", "committed"},
         w.at = "aborted" => cl # "commit"
  PROVE  WithOk(number, open, committed, s, txn_number, cl, c, q, late, w)
<1>1. WithOk(number, open, committed, txn_state, txn_number, call, cmd, result,
             late, with)
  BY DEF IInv
<1>2. ASSUME NEW x, Gone(x, number, open, committed, txn_state, txn_number, call,
                         cmd, late)
      PROVE  Gone(x, number, open, committed, s, txn_number, cl, c, late)
  BY <1>2 DEF Gone, Active
<1>3. ASSUME w.at = "aborted", NEW x \in with.nums
      PROVE  Gone(x, number, open, committed, s, txn_number, cl, c, late)
  <2>1. txn_state \in Active /\ with.at # "off" /\ txn_state # "none"
        /\ txn_state # "committed"
    BY <1>3 DEF Calling, Active
  <2>2. CASE x = txn_number
    <3>1. Uncommitted(committed, late, txn_number)
      BY <2>1 DEF IInv, CommitOk
    <3> QED
      BY <1>3, <2>1, <2>2, <3>1 DEF Gone, Uncommitted
  <2>3. CASE x # txn_number
    BY <1>1, <1>2, <1>3, <2>1, <2>3 DEF WithOk
  <2> QED
    BY <2>2, <2>3
<1>4. \A x \in w.nums : x <= txn_number
  BY <1>1 DEF WithOk, Calling
<1>5. \A x, y \in w.nums :
        x < y => Gone(x, number, open, committed, s, txn_number, cl, c, late)
  BY <1>1, <1>2 DEF WithOk, Calling
<1>6. w.at # "off" /\ s # "none" =>
        \A x \in w.nums :
          x # txn_number => Gone(x, number, open, committed, s, txn_number, cl, c,
                                 late)
  BY <1>1, <1>2 DEF WithOk, Calling
<1>7. w.at = "aborted" => AllGone(number, open, committed, s, txn_number, cl, c,
                                  late, w)
  BY <1>3 DEF AllGone, Calling
<1>8. w.at \notin {"start", "restart"}
  BY DEF Calling
<1> QED
  BY <1>4, <1>5, <1>6, <1>7, <1>8 DEF WithOk

(* A call that sends no command.                                           *)
LEMMA QuietStep ==
  ASSUME IInv, call = "none",
         UNCHANGED <<serverVars, txn_number, dirty, call, pc, cmd, late, transient>>,
         Quiet(result'), calls' \in {calls, calls + 1}, calls' <= MaxCalls,
         Calling(with'), server_id' \in Servers \cup {0},
         txn_state' \notin Active, txn_state' \in TxnStates,
         txn_state' # "none" => txn_state # "none" /\ recovery_token' = recovery_token,
         txn_state' = "none" => recovery_token' = 0,
         txn_state' \in {"committed", "ending"} => txn_state' = txn_state,
         txn_state' \in {"committed_empty", "aborted"} =>
           txn_state \in Active \cup {"committed_empty", "aborted"}
  PROVE  IInv'
<1> DEFINE s == txn_state'
           r == recovery_token'
           k == calls'
           q == result'
           w == with'
<1>1. /\ txn_number' = txn_number /\ cmd' = cmd /\ pc' = pc /\ call' = "none"
      /\ transient' = transient /\ UNCHANGED <<serverVars, dirty, late>>
  OBVIOUS
<1>2. /\ cmd \in Commands /\ txn_number \in Nat /\ txn_number <= MaxTxnNumber
      /\ ControlOk(txn_state, txn_number, call, pc, cmd, result, with)
      /\ recovery_token \in 0 .. MaxTxnNumber /\ 0 \in 0 .. MaxTxnNumber
  BY NumbersTyped, ServerAssumption DEF IInv, TypeOK
<1>3. cmd.tried = FALSE /\ cmd.set = FALSE /\ txn_state # "ending"
  BY <1>2 DEF ControlOk, Commands, Finishes
<1>4. /\ number' = number /\ open' = open /\ home' = home
      /\ applied' = applied /\ committed' = committed /\ durable' = durable
      /\ dirty' = dirty /\ late' = late
      /\ ServerTypeOK' /\ dirty' \in BOOLEAN /\ late' \subseteq Messages
      /\ txn_number' \in 0 .. MaxTxnNumber /\ k \in 0 .. MaxCalls
      /\ q \in Results
      /\ LoopOk(cmd)
      /\ number <= txn_number
      /\ \A m \in late : MessageOk(m, number, txn_number, k)
      /\ Sent(late, cmd) = late
      /\ OwnerOk(s, txn_number, cmd, late)
      /\ AppliedOk(number, applied, cmd, late, k)
      /\ WriteResultOk(applied, q, late, k)
      /\ CommitResultOk(committed, durable, q)
  BY <1>1, <1>2, <1>3, IdleKeeps
<1>5. w \in Withs /\ w.nums = with.nums /\ q.labels = {}
  BY DEF Calling, Quiet
<1> HIDE DEF s, r, k, q, w
<1>6. TypeOK'
  BY <1>1, <1>2, <1>4, <1>5 DEF IInv, TypeOK, s, r, k, q, w, CallNames
<1>7. ControlOk(s, txn_number, "none", pc, cmd, q, w)
  <2>1. s # "ending" /\ s \notin Active
    BY <1>3 DEF s
  <2> QED
    BY <1>2, <1>3, <2>1 DEF ControlOk, Finishes
<1>8. NumbersOk(number, s, txn_number, r, "none", cmd, late, k)
  <2>1. NumbersOk(number, txn_state, txn_number, recovery_token, call, cmd, late,
                  calls)
    BY DEF IInv
  <2>2. r \in {0, txn_number} /\ r <= number /\ (s = "none" => r = 0)
        /\ (s # "none" => txn_number # 0)
    BY <2>1, NumbersTyped DEF NumbersOk, r, s, IInv
  <2> QED
    BY <1>4, <2>2 DEF NumbersOk, Finishes
<1>9. UntouchedOk(applied, "none", cmd, late)
      /\ FirstCommitOk(committed, txn_number, "none", cmd, late)
  BY DEF UntouchedOk, FirstCommitOk
<1>10. CommitOk(number, open, committed, s, txn_number, "none", late)
  BY DEF CommitOk, IInv, s
<1>11. WithOk(number, open, committed, s, txn_number, "none", cmd, q, late, w)
  <2>1. /\ s # "none" => txn_state # "none"
        /\ s \notin Active
        /\ s = "committed" => txn_state = "committed"
    BY DEF s
  <2>2. Calling(w)
    BY DEF w
  <2> QED
    BY <1>5, <2>1, <2>2, WithCalling
<1>12. RouteOk(number, open, home, s, txn_number, server_id', r, "none", cmd, late,
               transient)
  <2>1. RouteOk(number, open, home, txn_state, txn_number, server_id,
                recovery_token, call, cmd, late, transient)
    BY DEF IInv
  <2>2. s \notin Active /\ s # "starting"
        /\ (s # "none" => txn_state # "none" /\ r = recovery_token)
    BY DEF s, r, Active
  <2> QED
    BY <2>1, <2>2 DEF RouteOk
<1> QED
  BY <1>1, <1>4, <1>6, <1>7, <1>8, <1>9, <1>10, <1>11, <1>12
     DEF IInv, s, r, k, q, w

(* A call that ends the transaction with a command.                        *)
LEMMA FinishStep ==
  ASSUME IInv, call = "none", NEW fn \in Finishes, NEW m \in Messages,
         m.kind = fn, m.num = txn_number, m.token = recovery_token, m.write = 0,
         txn_state = "in_progress" \/ (fn = "commit" /\ txn_state = "committed"),
         fn = "commit" => m.majority = (txn_state = "committed"),
         Run(fn, m), txn_state' = "ending",
         UNCHANGED <<serverVars, txn_number, dirty, server_id, recovery_token, late,
                     transient>>,
         calls' \in {calls, calls + 1}, calls' <= MaxCalls, Calling(with'),
         with'.at = "aborted" => fn = "abort", with'.at = "committed" => fn = "commit"
  PROVE  IInv'
<1> DEFINE c == NewCommand(m)
           k == calls'
           q == result'
           w == with'
<1>1. /\ txn_number' = txn_number /\ server_id' = server_id
      /\ recovery_token' = recovery_token /\ transient' = transient
      /\ cmd' = c /\ pc' = "select" /\ call' = fn /\ q = Nothing
      /\ UNCHANGED <<serverVars, dirty, late>>
  BY DEF Run
<1>2. /\ c \in Commands /\ c.msg = m /\ c.tried = FALSE /\ c.set = FALSE
      /\ c.again = FALSE
  BY NewCommandTyped
<1> HIDE DEF c, q
<1>3. /\ Quiet(q) /\ Blank(q) /\ q.labels = {}
      /\ txn_number \in Nat /\ txn_number <= MaxTxnNumber
  BY <1>1, NothingResult, NumbersTyped DEF IInv, Blank
<1>4. /\ number' = number /\ open' = open /\ home' = home
      /\ applied' = applied /\ committed' = committed /\ durable' = durable
      /\ dirty' = dirty /\ late' = late
      /\ ServerTypeOK' /\ dirty' \in BOOLEAN /\ late' \subseteq Messages
      /\ txn_number' \in 0 .. MaxTxnNumber /\ k \in 0 .. MaxCalls
      /\ q \in Results
      /\ LoopOk(c)
      /\ number <= txn_number
      /\ \A u \in late : MessageOk(u, number, txn_number, k)
      /\ Sent(late, c) = late
      /\ OwnerOk("ending", txn_number, c, late)
      /\ AppliedOk(number, applied, c, late, k)
      /\ WriteResultOk(applied, q, late, k)
      /\ CommitResultOk(committed, durable, q)
  BY <1>1, <1>2, <1>3, IdleKeeps DEF q
<1>5. w \in Withs /\ w.nums = with.nums /\ txn_state # "none"
  BY DEF Calling
<1> HIDE DEF k, w
<1>6. TypeOK'
  BY <1>1, <1>2, <1>4, <1>5
     DEF IInv, TypeOK, k, q, w, CallNames, Finishes, TxnStates
<1>7. ControlOk("ending", txn_number, fn, "select", c, q, w)
  <2>1. /\ fn = "commit" => w.at \in {"off", "callback", "committed"}
        /\ fn = "abort" => w.at \in {"off", "callback", "aborted"}
    BY DEF Calling, w
  <2> QED
    BY <1>2, <1>3, <2>1 DEF ControlOk, Finishes, Active
<1>8. NumbersOk(number, "ending", txn_number, recovery_token, fn, c, late, k)
  BY <1>2, <1>4, <1>5 DEF NumbersOk, Finishes, IInv
<1>9. UntouchedOk(applied, fn, c, late)
  BY DEF UntouchedOk, Finishes
<1>10. CommitOk(number, open, committed, txn_state, txn_number, call, late)
  BY DEF IInv
<1>11. CommitOk(number, open, committed, "ending", txn_number, fn, late)
  BY <1>10 DEF CommitOk, Active
<1>12. FirstCommitOk(committed, txn_number, fn, c, late)
  BY <1>2, <1>10 DEF FirstCommitOk, CommitOk, Active
<1>13. WithOk(number, open, committed, "ending", txn_number, fn, c, q, late, w)
  <2>1. Calling(w) /\ (w.at = "aborted" => fn # "commit")
    BY DEF w
  <2>2. "ending" \notin Active
    BY DEF Active
  <2> QED
    BY <1>2, <1>3, <1>5, <2>1, <2>2, WithCalling
<1>14. RouteOk(number, open, home, "ending", txn_number, server_id, recovery_token,
               fn, c, late, transient)
  BY <1>2, <1>5 DEF RouteOk, IInv, Active
<1> QED
  BY <1>1, <1>4, <1>6, <1>7, <1>8, <1>9, <1>11, <1>12, <1>13, <1>14
     DEF IInv, k, q, w

(* The command that ends a transaction.                                    *)
LEMMA TxnFinishTyped ==
  ASSUME IInv, NEW kind \in Finishes
  PROVE  /\ LET m == TxnFinish(kind)
            IN  /\ m \in Messages /\ m.kind = kind /\ m.num = txn_number
                /\ m.token = recovery_token /\ m.write = 0
         /\ \A b \in BOOLEAN :
              LET m == [TxnFinish(kind) EXCEPT !.majority = b]
              IN  /\ m \in Messages /\ m.kind = kind /\ m.num = txn_number
                  /\ m.token = recovery_token /\ m.write = 0 /\ m.majority = b
<1>1. /\ txn_number \in 0 .. MaxTxnNumber /\ recovery_token \in 0 .. MaxTxnNumber
      /\ NoMessage \in Messages /\ NoMessage.write = 0
  BY NoCommandTyped DEF IInv, TypeOK, NoMessage
<1> DEFINE m == TxnFinish(kind)
<1>2. /\ m \in Messages /\ m.kind = kind /\ m.num = txn_number
      /\ m.token = recovery_token /\ m.write = 0
  BY <1>1 DEF TxnFinish, Messages, Finishes
<1> HIDE DEF m
<1>3. ASSUME NEW b \in BOOLEAN
      PROVE  LET u == [m EXCEPT !.majority = b]
             IN  /\ u \in Messages /\ u.kind = kind /\ u.num = txn_number
                 /\ u.token = recovery_token /\ u.write = 0 /\ u.majority = b
  BY <1>2 DEF Messages
<1> QED
  BY <1>2, <1>3 DEF m

(* commit_transaction, by the application or by with_transaction.          *)
LEMMA CommitCall ==
  ASSUME IInv, call = "none", Commit, UNCHANGED <<serverVars, late, transient>>,
         calls' \in {calls, calls + 1}, calls' <= MaxCalls, Calling(with'),
         with'.at # "aborted"
  PROVE  IInv'
<1>1. /\ UNCHANGED <<txn_number, dirty, server_id, recovery_token>>
      /\ "commit" \in CallNames /\ "commit" \in Finishes
      /\ server_id' \in Servers \cup {0}
      /\ "none" \in ErrorKinds /\ "state" \in ErrorKinds
  BY DEF Commit, CallNames, Finishes, IInv, TypeOK, ErrorKinds
<1>2. CASE /\ txn_state \in {"in_progress", "committed"}
           /\ txn_state' = "ending"
           /\ Run("commit", [TxnFinish("commit") EXCEPT
                               !.majority = (txn_state = "committed")])
  <2> DEFINE b == txn_state = "committed"
             m == [TxnFinish("commit") EXCEPT !.majority = b]
  <2>1. b \in BOOLEAN
    OBVIOUS
  <2>2. /\ m \in Messages /\ m.kind = "commit" /\ m.num = txn_number
        /\ m.token = recovery_token /\ m.write = 0 /\ m.majority = b
    <3> HIDE DEF b
    <3> QED
      BY <1>1, <2>1, TxnFinishTyped
  <2>3. Run("commit", m)
    BY <1>2
  <2> HIDE DEF m
  <2> QED
    BY <1>1, <1>2, <2>2, <2>3, FinishStep
<1>3. CASE /\ txn_state \in {"starting", "committed_empty"}
           /\ txn_state' = "committed_empty"
           /\ result' = Returned("commit", TRUE, "none", OkReply, NoCommand)
           /\ UNCHANGED <<call, pc, cmd>>
  <2>1. Quiet(result')
    BY <1>1, <1>3, QuietResult
  <2> QED
    BY <1>1, <1>3, <2>1, QuietStep DEF TxnStates, Active
<1>4. CASE /\ txn_state \in {"none", "aborted"}
           /\ result' = Returned("commit", FALSE, "state", OkReply, NoCommand)
           /\ UNCHANGED <<txn_state, call, pc, cmd>>
  <2>1. Quiet(result')
    BY <1>1, <1>4, QuietResult
  <2>2. txn_state = "none" => recovery_token = 0
    BY DEF IInv, NumbersOk
  <2> QED
    BY <1>1, <1>4, <2>1, <2>2, QuietStep DEF TxnStates, Active
<1> QED
  BY <1>2, <1>3, <1>4 DEF Commit

(* abort_transaction, by the application or by with_transaction.           *)
LEMMA AbortCall ==
  ASSUME IInv, call = "none", Abort, UNCHANGED <<serverVars, late, transient>>,
         calls' \in {calls, calls + 1}, calls' <= MaxCalls, Calling(with'),
         with'.at # "committed"
  PROVE  IInv'
<1>1. /\ UNCHANGED <<txn_number, dirty, recovery_token>>
      /\ "abort" \in CallNames /\ "abort" \in Finishes
      /\ server_id \in Servers \cup {0}
      /\ "none" \in ErrorKinds /\ "state" \in ErrorKinds
  BY DEF Abort, CallNames, Finishes, IInv, TypeOK, ErrorKinds
<1>2. CASE /\ txn_state = "in_progress"
           /\ txn_state' = "ending"
           /\ Run("abort", TxnFinish("abort"))
           /\ UNCHANGED server_id
  <2> DEFINE m == TxnFinish("abort")
  <2>1. /\ m \in Messages /\ m.kind = "abort" /\ m.num = txn_number
        /\ m.token = recovery_token /\ m.write = 0
    BY <1>1, TxnFinishTyped
  <2> QED
    BY <1>1, <1>2, <2>1, FinishStep
<1>3. CASE /\ txn_state = "starting"
           /\ txn_state' = "aborted" /\ server_id' = 0
           /\ result' = Returned("abort", TRUE, "none", OkReply, NoCommand)
           /\ UNCHANGED <<call, pc, cmd>>
  <2>1. Quiet(result')
    BY <1>1, <1>3, QuietResult
  <2> QED
    BY <1>1, <1>3, <2>1, QuietStep DEF TxnStates, Active
<1>4. CASE /\ txn_state \in {"none", "committed", "committed_empty", "aborted"}
           /\ result' = Returned("abort", FALSE, "state", OkReply, NoCommand)
           /\ UNCHANGED <<txn_state, server_id, call, pc, cmd>>
  <2>1. Quiet(result')
    BY <1>1, <1>4, QuietResult
  <2>2. txn_state = "none" => recovery_token = 0
    BY DEF IInv, NumbersOk
  <2> QED
    BY <1>1, <1>4, <2>1, <2>2, QuietStep DEF TxnStates, Active
<1> QED
  BY <1>2, <1>3, <1>4 DEF Abort

(* The application makes a call.                                           *)
LEMMA CountTyped ==
  ASSUME IInv, MayCall
  PROVE  /\ call = "none" /\ with.at \in {"off", "callback"}
         /\ CountCall => calls' \in {calls, calls + 1} /\ calls' <= MaxCalls
         /\ calls <= MaxCalls
         /\ with' = with => Calling(with')
<1>1. calls \in 0 .. MaxCalls /\ MaxCalls \in Nat /\ with \in Withs
  BY SessionAssumption, ServerAssumption DEF IInv, TypeOK
<1> QED
  BY <1>1 DEF MayCall, CountCall, Calling

(* CallCommit.                                                             *)
LEMMA CallCommitStep ==
  ASSUME IInv, CallCommit
  PROVE  IInv'
<1>1. /\ MayCall /\ CountCall /\ Commit /\ with' = with
      /\ UNCHANGED <<serverVars, late, transient>>
  BY DEF CallCommit
<1>2. /\ call = "none" /\ with'.at # "aborted" /\ Calling(with')
      /\ calls' \in {calls, calls + 1} /\ calls' <= MaxCalls
  BY <1>1, CountTyped
<1> QED
  BY <1>1, <1>2, CommitCall

(* WithCommit.                                                             *)
LEMMA WithCommitStep ==
  ASSUME IInv, WithCommit
  PROVE  IInv'
<1>1. /\ call = "none" /\ with.at = "commit" /\ Commit
      /\ with' = [with EXCEPT !.at = "committed"] /\ calls' = calls
      /\ UNCHANGED <<serverVars, late, transient>>
  BY DEF WithCommit, With
<1>2. with \in Withs /\ calls' \in {calls, calls + 1} /\ calls <= MaxCalls
  BY <1>1, SessionAssumption, ServerAssumption DEF IInv, TypeOK
<1>3. Calling(with') /\ with'.at # "aborted"
  BY <1>1, <1>2 DEF Calling, Withs
<1> QED
  BY <1>1, <1>2, <1>3, CommitCall

(* CallAbort.                                                              *)
LEMMA CallAbortStep ==
  ASSUME IInv, CallAbort
  PROVE  IInv'
<1>1. /\ MayCall /\ CountCall /\ Abort /\ with' = with
      /\ UNCHANGED <<serverVars, late, transient>>
  BY DEF CallAbort
<1>2. /\ call = "none" /\ with'.at # "committed" /\ Calling(with')
      /\ calls' \in {calls, calls + 1} /\ calls' <= MaxCalls
  BY <1>1, CountTyped
<1> QED
  BY <1>1, <1>2, AbortCall

(* CallbackFails.                                                          *)
LEMMA CallbackFailsStep ==
  ASSUME IInv, CallbackFails
  PROVE  IInv'
<1>1. /\ with.at = "callback" /\ call = "none" /\ calls' = calls
      /\ with' = [with EXCEPT !.at = "aborted", !.labels = result.labels]
      /\ UNCHANGED <<serverVars, late, transient>>
  BY DEF CallbackFails
<1>2. with \in Withs /\ result.labels \in SUBSET Labels
      /\ calls' \in {calls, calls + 1} /\ calls <= MaxCalls
  BY <1>1, SessionAssumption, ServerAssumption DEF IInv, TypeOK, Results
<1>3. /\ with' \in Withs /\ with'.at = "aborted" /\ with'.nums = with.nums
      /\ with'.labels = result.labels
  BY <1>1, <1>2 DEF Withs
<1>4. CASE InTxn /\ Abort
  <2>1. Calling(with')
    BY <1>1, <1>3, <1>4 DEF Calling, InTxn, Active
  <2> QED
    BY <1>1, <1>2, <1>3, <1>4, <2>1, AbortCall
<1>5. CASE ~InTxn /\ UNCHANGED <<call, pc, cmd, result, txnVars>>
  <2>1. txn_state \notin Active
    BY <1>5 DEF InTxn, Active
  <2>2. MayRestart(with', result', txn_state) =>
          AllGone(number, open, committed, txn_state, txn_number, call, cmd, late,
                  with)
    BY <1>1, <1>3, <2>1 DEF MayRestart, IInv, WithOk
  <2>3. /\ UNCHANGED <<serverVars, txnVars, call, pc, cmd, calls, late, transient>>
        /\ result' = result
    BY <1>1, <1>5
  <2> QED
    BY <1>1, <1>3, <2>1, <2>2, <2>3, WithMove
<1> QED
  BY <1>4, <1>5 DEF CallbackFails

(* NewSession: the server session goes on with its numbers.                *)
LEMMA NewSessionStep ==
  ASSUME IInv, NewSession
  PROVE  IInv'
<1>1. /\ MayCall /\ CountCall /\ with' = with /\ result' = Nothing
      /\ txn_state' = "none" /\ server_id' = 0 /\ recovery_token' = 0
      /\ UNCHANGED <<serverVars, txn_number, dirty, call, pc, cmd, late, transient>>
  BY DEF NewSession
<1>2. /\ call = "none" /\ Calling(with') /\ Quiet(result')
      /\ calls' \in {calls, calls + 1} /\ calls' <= MaxCalls
  BY <1>1, CountTyped, NothingResult
<1> QED
  BY <1>1, <1>2, QuietStep DEF TxnStates, Active

(* A write is asked for, in a transaction or not.                          *)
LEMMA CallWriteStep ==
  ASSUME IInv, CallWrite
  PROVE  IInv'
<1> DEFINE kind == IF InTxn THEN "statement" ELSE "write"
           m == [NoMessage EXCEPT !.kind = kind,
                                  !.write = IF InTxn THEN 0 ELSE calls + 1]
           c == NewCommand(m)
           k == calls + 1
           q == result'
<1>1. /\ MayCall /\ CountCall
      /\ InTxn \/ txn_number < MaxTxnNumber
      /\ UNCHANGED <<serverVars, txnVars, late, with, transient>>
  BY DEF CallWrite
<1>2. /\ calls \in Nat /\ calls \in 0 .. MaxCalls /\ MaxCalls \in Nat /\ k \in Nat
      /\ calls' = k /\ k <= MaxCalls /\ k <= MaxWrites /\ k # 0 /\ k > calls
      /\ MaxWrites \in Nat /\ k \in Writes
  BY <1>1, SessionAssumption, ServerAssumption DEF IInv, TypeOK, CountCall, Writes
<1>3. /\ call = "none" /\ with.at \in {"off", "callback"}
      /\ ControlOk(txn_state, txn_number, call, pc, cmd, result, with)
  BY <1>1, CountTyped DEF IInv
<1>4. NoMessage \in Messages /\ NoMessage.write = 0 /\ NoMessage.token = 0
  BY NoCommandTyped DEF NoMessage
<1>5. Run("write", m)
  <2>1. CASE InTxn
    <3>1. [NoMessage EXCEPT !.kind = "statement"] = m
      BY <1>4, <2>1 DEF Messages
    <3> QED
      BY <2>1, <3>1 DEF CallWrite
  <2>2. CASE ~InTxn
    BY <2>2 DEF CallWrite
  <2> QED
    BY <2>1, <2>2
<1>6. /\ m \in Messages /\ m.kind = kind /\ m.token = 0
      /\ m.write = IF InTxn THEN 0 ELSE k
  <2>1. (IF InTxn THEN 0 ELSE k) \in 0 .. MaxWrites
    BY <1>2
  <2> QED
    BY <1>4, <2>1 DEF Messages
<1>7. /\ InTxn <=> txn_state \in Active
      /\ kind \in {"statement", "write"}
      /\ kind = "statement" <=> InTxn
  BY DEF InTxn, Active
<1> HIDE DEF kind, m, k
<1>8. /\ cmd' = c /\ pc' = "select" /\ call' = "write" /\ q = Nothing
  BY <1>5 DEF Run
<1>9. /\ c \in Commands /\ c.msg = m /\ c.tried = FALSE /\ c.set = FALSE
      /\ c.again = FALSE
  BY <1>6, NewCommandTyped
<1> HIDE DEF c, q
<1>10. Quiet(q) /\ Blank(q) /\ q.labels = {}
  BY <1>8, NothingResult DEF Blank
<1>11. /\ txn_number' = txn_number /\ txn_state' = txn_state
       /\ server_id' = server_id /\ recovery_token' = recovery_token
       /\ transient' = transient /\ with' = with
       /\ UNCHANGED <<serverVars, dirty, late>>
       /\ txn_number \in Nat /\ txn_number <= MaxTxnNumber
  BY <1>1, NumbersTyped DEF txnVars, IInv
<1>12. /\ number' = number /\ open' = open /\ home' = home
       /\ applied' = applied /\ committed' = committed /\ durable' = durable
       /\ dirty' = dirty /\ late' = late
       /\ ServerTypeOK' /\ dirty' \in BOOLEAN /\ late' \subseteq Messages
       /\ txn_number' \in 0 .. MaxTxnNumber /\ calls' \in 0 .. MaxCalls
       /\ q \in Results
       /\ LoopOk(c)
       /\ number <= txn_number
       /\ \A u \in late : MessageOk(u, number, txn_number, k)
       /\ Sent(late, c) = late
       /\ OwnerOk(txn_state, txn_number, c, late)
       /\ AppliedOk(number, applied, c, late, k)
       /\ \A x \in Writes : x > calls => applied[x] = 0 /\ NoCopy(late, x)
       /\ WriteResultOk(applied, q, late, k)
       /\ CommitResultOk(committed, durable, q)
  <2>1. calls' \in {calls, calls + 1} /\ calls' <= MaxCalls
    BY <1>2 DEF k
  <2> QED
    BY <1>2, <1>3, <1>8, <1>9, <1>10, <1>11, <2>1, IdleKeeps DEF q
<1>13. TypeOK'
  BY <1>8, <1>9, <1>11, <1>12 DEF IInv, TypeOK, q, CallNames
<1>14. ControlOk(txn_state, txn_number, "write", "select", c, q, with)
  BY <1>1, <1>3, <1>6, <1>7, <1>9, <1>10 DEF ControlOk, Finishes
<1>15. NumbersOk(number, txn_state, txn_number, recovery_token, "write", c, late, k)
  BY <1>2, <1>6, <1>7, <1>9, <1>12 DEF NumbersOk, Finishes, IInv
<1>16. UntouchedOk(applied, "write", c, late)
  BY <1>2, <1>6, <1>7, <1>9, <1>12 DEF UntouchedOk
<1>17. CommitOk(number, open, committed, txn_state, txn_number, "write", late)
       /\ FirstCommitOk(committed, txn_number, "write", c, late)
  BY DEF CommitOk, FirstCommitOk, IInv
<1>18. WithOk(number, open, committed, txn_state, txn_number, "write", c, q, late,
              with)
  <2>1. \A x : Gone(x, number, open, committed, txn_state, txn_number, call, cmd,
                    late)
          => Gone(x, number, open, committed, txn_state, txn_number, "write", c,
                  late)
    BY DEF Gone
  <2> QED
    BY <1>3, <1>10, <2>1 DEF WithOk, IInv
<1>19. RouteOk(number, open, home, txn_state, txn_number, server_id,
               recovery_token, "write", c, late, transient)
  BY <1>9 DEF RouteOk, IInv
<1> QED
  BY <1>2, <1>8, <1>11, <1>12, <1>13, <1>14, <1>15, <1>16, <1>17, <1>18, <1>19
     DEF IInv, q

----------------------------------------------------------------------------
(* A session that was just started.                                        *)
LEMMA InitInv == Init => IInv
<1> SUFFICES ASSUME Init PROVE IInv
  OBVIOUS
<1>1. /\ number = 0 /\ open = FALSE /\ applied = [x \in Writes |-> 0]
      /\ committed = {} /\ durable = {} /\ home \in Servers
      /\ txn_state = "none" /\ txn_number = 0 /\ dirty = FALSE
      /\ server_id = 0 /\ recovery_token = 0
      /\ call = "none" /\ pc = "idle" /\ cmd = NoCommand
      /\ late = {} /\ result = Nothing /\ with = NotWith /\ calls = 0
      /\ transient = FALSE
  BY RetryAssumption DEF Init, ServerInit
<1>2. /\ NoCommand \in Commands /\ NoCommand.tried = FALSE /\ NoCommand.set = FALSE
      /\ Quiet(Nothing) /\ Blank(Nothing)
  BY NoCommandTyped, NothingResult
<1>3. NotWith \in Withs /\ NotWith.at = "off" /\ NotWith.nums = {}
  BY DEF NotWith, Withs
<1>4. MaxTxnNumber \in Nat /\ MaxCalls \in Nat
  BY SessionAssumption, ServerAssumption
<1>5. TypeOK
  <2>1. applied \in [Writes -> Nat]
    BY <1>1
  <2>2. 0 \in 0 .. MaxTxnNumber /\ 0 \in 0 .. MaxCalls
    BY <1>4
  <2>3. ServerTypeOK
    BY <1>1, <2>1, <2>2 DEF ServerTypeOK
  <2>4. result \in Results /\ cmd \in Commands /\ with \in Withs
    BY <1>1, <1>2, <1>3 DEF Quiet
  <2> QED
    BY <1>1, <2>2, <2>3, <2>4 DEF TypeOK, TxnStates, CallNames
<1>6. Sent(late, cmd) = {}
  BY <1>1, <1>2 DEF Sent
<1>7. /\ ControlOk(txn_state, txn_number, call, pc, cmd, result, with)
      /\ LoopOk(cmd)
  BY <1>1, <1>2, <1>3 DEF ControlOk, LoopOk, Finishes
<1>8. NumbersOk(number, txn_state, txn_number, recovery_token, call, cmd, late,
                calls)
  BY <1>1, <1>6 DEF NumbersOk, Finishes
<1>9. /\ OwnerOk(txn_state, txn_number, cmd, late)
      /\ AppliedOk(number, applied, cmd, late, calls)
  BY <1>1, <1>6 DEF OwnerOk, AppliedOk
<1>10. /\ UntouchedOk(applied, call, cmd, late)
       /\ WriteResultOk(applied, result, late, calls)
       /\ CommitResultOk(committed, durable, result)
  BY <1>1, <1>2 DEF UntouchedOk, WriteResultOk, CommitResultOk, Quiet
<1>11. /\ CommitOk(number, open, committed, txn_state, txn_number, call, late)
       /\ FirstCommitOk(committed, txn_number, call, cmd, late)
  BY <1>1 DEF CommitOk, FirstCommitOk, Active
<1>12. WithOk(number, open, committed, txn_state, txn_number, call, cmd, result,
              late, with)
  BY <1>1, <1>3 DEF WithOk, AllGone
<1>13. RouteOk(number, open, home, txn_state, txn_number, server_id,
               recovery_token, call, cmd, late, transient)
  BY <1>1 DEF RouteOk
<1> QED
  BY <1>5, <1>7, <1>8, <1>9, <1>10, <1>11, <1>12, <1>13 DEF IInv

(* Every step of the session, of the network and of the deployment.        *)
LEMMA NextInv == IInv /\ [Next]_vars => IInv'
<1> SUFFICES ASSUME IInv, [Next]_vars PROVE IInv'
  OBVIOUS
<1>1. CASE Application
  BY <1>1, CallStartStep, CallWriteStep, CallCommitStep, CallAbortStep,
     WithBeginStep, NewSessionStep DEF Application
<1>2. CASE Driver
  BY <1>2, SelectFailsStep, ConnectFailsStep, FirstSendStep, RetrySendStep,
     RetryFailsStep, WithStartStep, WithAbortedStep, WithCommitStep,
     WithCommittedStep, WithRestartStep DEF Driver
<1>3. CASE CallbackReturns
  BY <1>3, CallbackFailsStep, CallbackSucceedsStep DEF CallbackReturns
<1>4. CASE Network
  BY <1>4, AnsweredStep, ConnectionFailsStep DEF Network
<1>5. CASE ProcessLate
  BY <1>5, LateStep
<1>6. CASE Expire
  BY <1>6, ExpireStep
<1>7. CASE UNCHANGED vars
  <2>1. /\ number' = number /\ open' = open /\ home' = home /\ applied' = applied
        /\ committed' = committed /\ durable' = durable
        /\ txn_state' = txn_state /\ txn_number' = txn_number /\ dirty' = dirty
        /\ server_id' = server_id /\ recovery_token' = recovery_token
        /\ call' = call /\ pc' = pc /\ cmd' = cmd /\ result' = result
        /\ calls' = calls /\ late' = late /\ with' = with
        /\ transient' = transient
    BY <1>7 DEF vars, serverVars, txnVars, callVars
  <2> QED
    BY <2>1 DEF IInv, TypeOK, ServerTypeOK
<1> QED
  BY <1>1, <1>2, <1>3, <1>4, <1>5, <1>6, <1>7 DEF Next, Idle

(* The inductive invariant holds in every state of a session.              *)
THEOREM Inductive == Spec => []IInv
<1> QED
  BY InitInv, NextInv, PTL DEF Spec

(* The state of a session has its types, whatever its topology, its        *)
(* options and the bounds on numbers, calls and late commands.             *)
THEOREM TypeCorrect == Spec => []TypeOK
<1>1. IInv => TypeOK
  BY DEF IInv
<1> QED
  BY <1>1, Inductive, PTL

(* mongoc_cluster_run_retryable_write applies a write at most once, and    *)
(* once if it says so.                                                     *)
THEOREM WritesOnce == Spec => []WritesExactlyOnce
<1>1. ASSUME IInv PROVE WritesExactlyOnce
  <2>1. /\ AppliedOk(number, applied, cmd, late, calls)
        /\ WriteResultOk(applied, result, late, calls)
    BY <1>1 DEF IInv
  <2>2. \A x \in Writes : applied[x] <= 1
    BY <2>1 DEF AppliedOk
  <2>3. result.kind = "write" /\ result.ok => applied[result.write] = 1
    BY <2>1 DEF WriteResultOk
  <2> QED
    BY <2>2, <2>3 DEF WritesExactlyOnce
<1> QED
  BY <1>1, Inductive, PTL

(* The label NoWritesPerformed that _retryable_write_execute returns is    *)
(* true of all the attempts.                                               *)
THEOREM NoWritesTrue == Spec => []NoWritesTruthful
<1>1. ASSUME IInv PROVE NoWritesTruthful
  <2> SUFFICES ASSUME result.kind = "write", "NoWrites" \in result.labels
               PROVE  /\ applied[result.write] = 0
                      /\ \A m \in late : m.write # result.write
    BY DEF NoWritesTruthful
  <2>1. /\ result.write \in 1 .. calls /\ applied[result.write] = 0
        /\ NoCopy(late, result.write) /\ calls \in Nat
    BY <1>1, NumbersTyped DEF IInv, WriteResultOk
  <2>2. ASSUME NEW m \in late PROVE m.write # result.write
    <3>1. MessageOk(m, number, txn_number, calls)
      BY <1>1, <2>2 DEF IInv, NumbersOk, Sent
    <3>2. CASE m.kind = "write"
      BY <2>1, <2>2, <3>2 DEF NoCopy, IsWrite
    <3>3. CASE m.kind # "write"
      BY <2>1, <3>1, <3>3 DEF MessageOk
    <3> QED
      BY <3>2, <3>3
  <2> QED
    BY <2>1, <2>2
<1> QED
  BY <1>1, Inductive, PTL

(* txn_commit reports as committed what is committed, and as committed     *)
(* again only what a majority has.                                         *)
THEOREM CommitTrue == Spec => []CommitTruthful
<1>1. ASSUME IInv PROVE CommitTruthful
  BY <1>1 DEF IInv, CommitResultOk, CommitTruthful
<1> QED
  BY <1>1, Inductive, PTL

(* mongoc_client_session_with_transaction commits one of its transactions  *)
(* at most.                                                                *)
THEOREM OneCommit == Spec => []WithTransactionOnce
<1>1. ASSUME IInv PROVE WithTransactionOnce
  <2> DEFINE S == with.nums \cap committed
  <2>1. /\ WithOk(number, open, committed, txn_state, txn_number, call, cmd, result,
                  late, with)
        /\ S \subseteq Nat
    BY <1>1, ServerAssumption DEF IInv, TypeOK, Withs, Numbers
  <2>2. ASSUME NEW x \in S, NEW y \in S, x < y PROVE FALSE
    <3>1. Gone(x, number, open, committed, txn_state, txn_number, call, cmd, late)
      BY <2>1, <2>2 DEF WithOk
    <3> QED
      BY <2>2, <3>1 DEF Gone
  <2>3. ASSUME NEW x \in S, NEW y \in S PROVE x = y
    <3>1. x \in Nat /\ y \in Nat
      BY <2>1
    <3>2. ~(x < y) /\ ~(y < x)
      BY <2>2
    <3> QED
      BY <3>1, <3>2
  <2>4. CASE S = {}
    <3>1. Cardinality(S) = 0
      BY <2>4, FS_EmptySet
    <3> QED
      BY <3>1 DEF WithTransactionOnce
  <2>5. CASE S # {}
    <3>1. PICK x : x \in S
      BY <2>5
    <3>2. S = {x}
      BY <2>3, <3>1
    <3>3. Cardinality(S) = 1
      BY <3>2, FS_Singleton
    <3> QED
      BY <3>3 DEF WithTransactionOnce
  <2> QED
    BY <2>4, <2>5
<1> QED
  BY <1>1, Inductive, PTL

(* _mongoc_cluster_select_server_id keeps the commands of a transaction on *)
(* the mongos that runs it.                                                *)
THEOREM Routed == Spec => []RoutedToItsMongos
<1>1. ASSUME IInv PROVE RoutedToItsMongos
  <2> SUFFICES ASSUME Sharded, pc = "wait", cmd.msg.kind # "write",
                      cmd.msg.num = number, open, ~transient
               PROVE  \/ cmd.msg.server = home
                      \/ cmd.msg.kind # "statement" /\ cmd.msg.token = cmd.msg.num
    BY DEF RoutedToItsMongos
  <2>1. /\ cmd.tried /\ cmd.msg \in Messages
        /\ ControlOk(txn_state, txn_number, call, pc, cmd, result, with)
    BY <1>1, NumbersTyped DEF IInv, ControlOk
  <2>2. /\ cmd.msg.kind = "statement" => call = "write" /\ txn_state \in Active
        /\ cmd.msg.kind # "statement" => call \in Finishes
        /\ txn_state # "none"
    BY <1>1, <2>1, TriedCall, MessageTyped DEF Active, Finishes, ControlOk
  <2>3. cmd.msg.num = txn_number
        /\ (call \in Finishes => cmd.msg.token = recovery_token)
    BY <1>1, <2>1, <2>2 DEF IInv, NumbersOk
  <2>4. /\ recovery_token = txn_number
        /\ txn_state \in Active => server_id = home
        /\ cmd.msg.kind = "statement" => server_id = cmd.msg.server
    BY <1>1, <2>1, <2>2, <2>3 DEF IInv, RouteOk
  <2> QED
    BY <2>2, <2>3, <2>4
<1> QED
  BY <1>1, Inductive, PTL
============================================================================
