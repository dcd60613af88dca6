--------------------------- MODULE SessionServer ---------------------------
(***************************************************************************)
(* External: the deployment as one server session sees it, a replica set   *)
(* reached directly or through mongoses.  It is what the code of the       *)
(* driver relies on: a retryable write runs once per txnNumber, a          *)
(* transaction belongs to the mongos that started it, and another mongos   *)
(* finds its outcome with the recovery token only.                         *)
(***************************************************************************)
EXTENDS RetryableCommand

CONSTANTS MaxTxnNumber, \* bound on the transaction numbers of the session
          MaxWrites     \* bound on the writes outside of transactions

ASSUME ServerAssumption ==
  /\ MaxTxnNumber \in Nat /\ MaxWrites \in Nat
  /\ 0 \notin Servers

Numbers == 1 .. MaxTxnNumber
Writes == 1 .. MaxWrites

(* A command as sent: its logical write (or 0), txnNumber (or 0), whether  *)
(* it has startTransaction and w:majority, its recovery token (the number  *)
(* of the transaction the token is for, or 0), and where it goes.          *)
Messages ==
  [kind : {"write", "statement", "commit", "abort"}, write : 0 .. MaxWrites,
   num : 0 .. MaxTxnNumber, start : BOOLEAN, majority : BOOLEAN,
   token : 0 .. MaxTxnNumber, server : Servers]

VARIABLES
  number,     \* the greatest txnNumber seen
  open,       \* a transaction with that number is open
  home,       \* the server that number's transaction was started through
  applied,    \* applied[w]: how many times the write w was applied
  committed,  \* the transactions committed
  durable     \* those of them a majority has

serverVars == <<number, open, home, applied, committed, durable>>

ServerTypeOK ==
  /\ number \in 0 .. MaxTxnNumber /\ open \in BOOLEAN /\ home \in Servers
  /\ applied \in [Writes -> Nat]
  /\ committed \subseteq Numbers /\ durable \subseteq Numbers

ServerInit ==
  /\ number = 0 /\ open = FALSE
  /\ home \in {CHOOSE s \in Servers : TRUE}
  /\ applied = [w \in Writes |-> 0]
  /\ committed = {} /\ durable = {}

Refuse(code, labels, reply) ==
  /\ reply = Reply(FALSE, FALSE, code, labels)
  /\ UNCHANGED serverVars

(* What any command may be refused with before it runs.                    *)
Refused(reply) ==
  \/ Refuse("NotPrimary", {"RetryableWrite", "NoWrites"}, reply)
  \/ Refuse("other", {"SystemOverloaded", "Retryable", "NoWrites"}, reply)
  \/ Refuse("other", {}, reply)

(* Answers to a command that ran: success, or a writeConcernError that the *)
(* server labels as retryable or that says the write concern timed out.    *)
Ran == {OkReply, Reply(TRUE, FALSE, "ShutdownInProgress", {"RetryableWrite"}),
        Reply(TRUE, FALSE, "WriteConcernFailed", {})}

RunWrite(m, reply) ==
  \/ /\ m.num = 0 \/ m.num > number
     /\ reply \in Ran
     /\ applied' = [applied EXCEPT ![m.write] = @ + 1]
     /\ number' = IF m.num = 0 THEN number ELSE m.num
     /\ open' = (open /\ m.num = 0)
     /\ UNCHANGED <<home, committed, durable>>
  \/ m.num # 0 /\ m.num = number /\ reply = OkReply /\ UNCHANGED serverVars
  \/ m.num # 0 /\ m.num < number /\ Refuse("other", {}, reply)

NoSuchTransaction(reply) ==
  Refuse("NoSuchTransaction", {"Transient"}, reply)

RunStatement(m, reply) ==
  \/ /\ m.start /\ m.num > number
     /\ reply = OkReply
     /\ number' = m.num /\ open' = TRUE /\ home' = m.server
     /\ UNCHANGED <<applied, committed, durable>>
  \/ /\ ~m.start /\ m.num = number /\ open /\ home = m.server
     /\ reply = OkReply
     /\ UNCHANGED serverVars
  \/ /\ IF m.start THEN m.num <= number
                   ELSE ~(m.num = number /\ open /\ home = m.server)
     /\ NoSuchTransaction(reply)

(* The mongos that ran the transaction knows it; another one recovers the  *)
(* outcome of the transaction of the token, and ends it if it is open.     *)
Knows(m) == m.num = number /\ home = m.server

RunCommit(m, reply) ==
  \/ /\ Knows(m) /\ open
     /\ reply \in Ran
     /\ committed' = committed \cup {m.num}
     /\ durable' = IF m.majority /\ reply = OkReply
                     THEN durable \cup {m.num} ELSE durable
     /\ open' = FALSE
     /\ UNCHANGED <<number, home, applied>>
  \/ \E n \in {IF Knows(m) THEN m.num ELSE m.token} :
       /\ n \in committed /\ ~(Knows(m) /\ open)
       /\ reply = OkReply
       /\ durable' = IF m.majority THEN durable \cup {n} ELSE durable
       /\ UNCHANGED <<number, open, home, applied, committed>>
  \/ /\ ~Knows(m) /\ m.token = 0 /\ Refuse("other", {}, reply)
  \/ /\ Knows(m) => ~open /\ m.num \notin committed
     /\ ~Knows(m) => m.token # 0 /\ m.token \notin committed
     /\ reply = Reply(FALSE, FALSE, "NoSuchTransaction", {"Transient"})
     /\ open' = (open /\ m.token # number)
     /\ UNCHANGED <<number, home, applied, committed, durable>>
  \/ Refuse("MaxTimeMSExpired", {}, reply)

RunAbort(m, reply) ==
  \/ /\ m.num = number /\ open /\ (home = m.server \/ m.token = m.num)
     /\ reply = OkReply
     /\ open' = FALSE
     /\ UNCHANGED <<number, home, applied, committed, durable>>
  \/ /\ ~(m.num = number /\ open /\ (home = m.server \/ m.token = m.num))
     /\ NoSuchTransaction(reply)

Replies == Ran \cup
  [ok : {FALSE}, network : {FALSE},
   code : {"NotPrimary", "NoSuchTransaction", "MaxTimeMSExpired", "other"},
   labels : {{}, {"Transient"}, {"RetryableWrite", "NoWrites"},
             {"SystemOverloaded", "Retryable", "NoWrites"}}]

Process(m, reply) ==
  \/ Refused(reply)
  \/ m.kind = "write" /\ RunWrite(m, reply)
  \/ m.kind = "statement" /\ RunStatement(m, reply)
  \/ m.kind = "commit" /\ RunCommit(m, reply)
  \/ m.kind = "abort" /\ RunAbort(m, reply)
============================================================================
