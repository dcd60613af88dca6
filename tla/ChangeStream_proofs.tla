------------------------ MODULE ChangeStream_proofs -------------------------
(***************************************************************************)
(* Proofs about Cursor and ChangeStream.  The parts of the invariant take  *)
(* the state as arguments: k is a cursor, o the server's open cursors, hl  *)
(* the sessions held, cl the call in progress, st the change stream, h and *)
(* nw the history of the collection and its end, D what a find has         *)
(* returned, ex the client's exhaust mode.                                 *)
(***************************************************************************)
EXTENDS ChangeStream, FiniteSetTheorems, SequenceTheorems,
        WellFoundedInduction, TLAPS

(* The events after a and up to b in history h.                            *)
Between(h, a, b) == {i \in (a + 1)..b : h[i] # "other"}

Kind(c) == IF c \in Finds THEN "find" ELSE "watch"

(* A cursor, its identity on the server and its session.                   *)
Life(c, k, o, hl) ==
  /\ ~k.live => k = NoCursor
  /\ k.sess \in {0, c}
  /\ k.id # 0 => k.sess = c /\ c \in hl /\ k.server \in Servers
  /\ k.id \in DOMAIN o => o[k.id].sess = c /\ o[k.id].kind = Kind(c)
  /\ c \in Finds => ~k.explicit
  /\ c \in Streams /\ k.live => k.explicit /\ k.sess = c /\ k.state # "Unprimed"
  /\ c \in Streams => ~k.opt /\ ~k.in_exhaust
  /\ k.state # "InBatch" => k.batch = << >>
  /\ k.state = "Unprimed" => k.id = 0
  /\ k.state = "EndOfBatch" => k.id # 0

Distinct(cur) ==
  \A c, d \in Handles : c # d /\ cur[c].id = cur[d].id => cur[c].id = 0

(* A find has returned D and goes on with its batch.                       *)
FindData(k, D, o) ==
  /\ \A i \in DOMAIN D : D[i] = i
  /\ \A i \in DOMAIN k.batch : k.batch[i] = Len(D) + i
  /\ k.state = "Unprimed" => D = << >>
  /\ ~Failed(k) /\ k.state \in {"InBatch", "Done"} /\ k.id = 0 =>
       Len(D) + Len(k.batch) = NumDocs
  /\ ~Failed(k) /\ k.state = "Done" => k.id = 0
  /\ ~Failed(k) /\ k.id \in DOMAIN o => o[k.id].pos = Len(D) + Len(k.batch)

Commands == {"fetch", "send", "select"}
StreamPoints == {"make", "aggregate", "reselect", "next", "advanced",
                 "discard", "destroyed"}
Making == {"make", "aggregate", "reselect"}

(* A call of the change stream, rather than one of a find.                 *)
OfStream(cl) ==
  \/ cl.at \in StreamPoints
  \/ cl.at \in Commands \cup {"kill"} /\ cl.c = W

(* What a command of cursor k may rely on.                                 *)
Asking(cl, k, ex) ==
  /\ cl.c \in Handles /\ k.live /\ ~Failed(k)
  /\ cl.refreshed = (cl.cmd = "getMore")
  /\ \/ cl.cmd = "find" /\ k.state = "Unprimed" /\ cl.c \in Finds
     \/ cl.cmd = "getMore" /\ k.state = "EndOfBatch"
  /\ cl.c \in Streams => ~ex
Sending(cl, k, hl) ==
  /\ k.sess = cl.c /\ cl.c \in hl
  /\ k.server \in Servers /\ cl.loop.server = k.server
  /\ cl.cmd = "getMore" => cl.loop.elig \in {"none", "overload_only"}

(* Where a call is, and what it may rely on there.                         *)
Calling(cl, cur, hl, ex) ==
  /\ cl.at = "idle" => cl = Idle
  /\ cl.at \in Commands => Asking(cl, cur[cl.c], ex)
  /\ cl.at \in {"send", "select"} => Sending(cl, cur[cl.c], hl)
  /\ cl.at = "kill" =>
       cl.c \in Handles /\ cur[cl.c].live /\ cur[cl.c].id # 0
  /\ cl.at # "advanced" => cl.doc = 0
  /\ ~OfStream(cl) => ~cl.resume

(* The stream st, its cursor k and the call.                               *)
StreamState(cl, k, hl, st, ex) ==
  /\ cl.at \in Making \cup {"destroyed"} => ~k.live
  /\ OfStream(cl) => st.live
  /\ OfStream(cl) /\ cl.at \notin {"discard", "kill", "destroyed"} => ~st.err
  /\ cl.at \in {"aggregate", "reselect"} =>
       /\ st.sess = W /\ W \in hl
       /\ cl.server \in Servers /\ cl.loop.server \in Servers
  /\ cl.at \in {"next", "advanced", "discard"} => k.live
  /\ cl.at = "next" => ~ex /\ ~Failed(k) /\ k.state = "InBatch" /\ cl.resume
  /\ cl.at = "advanced" => cl.c = W
  /\ cl.at = "advanced" /\ cl.doc # 0 => ~Failed(k)
  /\ cl.at = "advanced" /\ cl.doc = 0 /\ ~ex => k.batch = << >>
  /\ st.live /\ ~st.err /\ ~OfStream(cl) => k.live /\ ~Failed(k)
  /\ cl.resume => ~st.err /\ st.resumed /\ st.start # None
  /\ cl.at \in Making /\ ~cl.resume => ~st.resumed /\ st.start = None
  /\ ~st.live => st = NoStream
  /\ k.live => st.live /\ st.start # None
  /\ st.start = None /\ st.live /\ ~st.err => cl.at \in Making

(* What the stream has taken from its cursor.                              *)
Taken(st, cl) ==
  IF cl.at = "advanced" /\ cl.doc # 0 THEN Append(st.seen, cl.doc)
                                      ELSE st.seen

(* Before the first aggregate has been answered.                           *)
NotStarted(st, nw, cl) ==
  /\ st.seen = << >>
  /\ st.from <= nw
  /\ st.option = "none" => st.optime = None /\ st.token = None
  /\ st.option = "atTime" => st.optime = st.from /\ st.token = None
  /\ st.option \in {"resumeAfter", "startAfter"}
     /\ cl.at \in {"aggregate", "reselect"} => st.token = st.from

(* With a resume token, and before the first.                              *)
AtToken(st, h, nw) ==
  /\ st.start <= st.token /\ st.token <= nw
  /\ st.seen = InOrder(Between(h, st.start, st.token))
AtTime(k, st, h, nw, cl, ex) ==
  /\ st.seen = << >>
  /\ st.optime # None /\ st.start <= st.optime /\ st.optime <= nw
  /\ k.live => st.optime <= k.pbrt
  /\ cl.resume /\ ~ex => Between(h, st.start, st.optime) = {}

(* What the cursor still holds follows what the stream has taken.          *)
Follows(k, st, h, nw, cl) ==
  /\ st.start <= k.pbrt /\ k.pbrt <= nw
  /\ Taken(st, cl) \o k.batch = InOrder(Between(h, st.start, k.pbrt))

StreamData(k, st, o, h, nw, cl, ex) ==
  /\ st.start = None => NotStarted(st, nw, cl)
  /\ st.start # None => st.start <= nw
  /\ st.start # None /\ st.token # None => AtToken(st, h, nw)
  /\ st.start # None /\ st.token = None => AtTime(k, st, h, nw, cl, ex)
  /\ k.live => Follows(k, st, h, nw, cl)
  /\ k.id \in DOMAIN o /\ ~Failed(k) => o[k.id].pos = k.pbrt

IInv ==
  /\ TypeOK
  /\ Distinct(cursor)
  /\ \A c \in Handles : Life(c, cursor[c], open, held)
  /\ \A c \in Finds : FindData(cursor[c], delivered[c], open)
  /\ Calling(call, cursor, held, in_exhaust)
  /\ StreamState(call, cursor[W], held, stream, in_exhaust)
  /\ StreamData(cursor[W], stream, open, history, now, call, in_exhaust)
----------------------------------------------------------------------------
(* A set of natural numbers has a least one.                               *)
LEMMA LeastNat ==
  ASSUME NEW T \in SUBSET Nat, T # {}
  PROVE  \E m \in T : \A n \in T : m <= n
<1>1. IsWellFoundedOn(OpToRel(<, Nat), Nat)
  BY NatLessThanWellFounded, Zenon
<1>2. \E x \in T : \A y \in T : ~ (<<y, x>> \in OpToRel(<, Nat))
  BY <1>1, WFMin, Zenon
<1>3. PICK x \in T : \A y \in T : ~ (<<y, x>> \in OpToRel(<, Nat))
  BY <1>2
<1>4. \A y \in T : ~ (y < x)
  BY <1>3 DEF OpToRel
<1>5. \A y \in T : x <= y
  BY <1>4
<1> QED
  BY <1>5

(* What InOrder chooses.                                                   *)
Lists(s, S) ==
  /\ s \in [1..Cardinality(S) -> S]
  /\ Ascending(s)
  /\ \A x \in S : \E i \in DOMAIN s : s[i] = x

(* A list grows by a number above its members.                             *)
LEMMA ListsAppend ==
  ASSUME NEW n \in Nat, NEW T \in SUBSET Nat, IsFiniteSet(T),
         \A x \in T : x < n, NEW t, Lists(t, T)
  PROVE  Lists(Append(t, n), T \cup {n})
<1> DEFINE m == Cardinality(T)
<1>1. m \in Nat /\ Cardinality(T \cup {n}) = m + 1
  BY FS_CardinalityType, FS_AddElement
<1>2. t \in Seq(Nat) /\ Len(t) = m /\ DOMAIN t = 1..m
  <2>1. t \in [1..m -> Nat]
    <3>1. t \in [1..m -> T]
      BY DEF Lists
    <3> QED
      BY <3>1
  <2> HIDE DEF m
  <2> QED
    BY <1>1, <2>1
<1> DEFINE s == Append(t, n)
<1>3. /\ s \in Seq(Nat) /\ Len(s) = m + 1 /\ DOMAIN s = 1..(m + 1)
      /\ \A i \in 1..m : s[i] = t[i]
      /\ s[m + 1] = n
  BY <1>1, <1>2
<1> HIDE DEF m, s
<1>4. \A i \in 1..(m + 1) : s[i] \in T \cup {n}
  BY <1>1, <1>2, <1>3 DEF Lists, m
<1>5. s \in [1..Cardinality(T \cup {n}) -> T \cup {n}]
  <2>1. s = [i \in 1..(m + 1) |-> s[i]]
    BY <1>3
  <2>2. s \in [1..(m + 1) -> T \cup {n}]
    BY <2>1, <1>4
  <2> QED
    BY <2>2, <1>1
<1>6. Ascending(s)
  <2> SUFFICES ASSUME NEW i \in 1..(m + 1), NEW j \in 1..(m + 1), i < j
               PROVE  s[i] < s[j]
    BY <1>3 DEF Ascending
  <2>1. i \in 1..m /\ s[i] = t[i] /\ t[i] \in T
    BY <1>1, <1>3 DEF Lists, m
  <2>2. CASE j = m + 1
    BY <2>1, <2>2, <1>3
  <2>3. CASE j # m + 1
    <3>1. j \in 1..m /\ s[j] = t[j]
      BY <2>3, <1>1, <1>3
    <3> QED
      BY <2>1, <3>1, <1>2 DEF Lists, Ascending
  <2> QED
    BY <2>2, <2>3
<1>7. \A x \in T \cup {n} : \E i \in DOMAIN s : s[i] = x
  <2>1. ASSUME NEW x \in T PROVE \E i \in DOMAIN s : s[i] = x
    <3>1. PICK i \in 1..m : t[i] = x
      BY <1>2 DEF Lists
    <3>2. i \in 1..(m + 1)
      BY <1>1
    <3> QED
      BY <1>3, <3>1, <3>2
  <2>2. m + 1 \in DOMAIN s
    BY <1>1, <1>3
  <2> QED
    BY <2>1, <2>2, <1>3
<1> QED
  BY <1>5, <1>6, <1>7 DEF Lists, s

(* Every bounded set of numbers has a list.                                *)
LEMMA ListExists ==
  ASSUME NEW n \in Nat, NEW S \in SUBSET (0..n)
  PROVE  \E s : Lists(s, S)
<1> DEFINE bad == {m \in Nat : \E T \in SUBSET (0..m) : ~ \E s : Lists(s, T)}
<1>0. Lists(<< >>, {})
  BY FS_EmptySet DEF Lists, Ascending
<1>1. SUFFICES ASSUME bad # {} PROVE FALSE
  BY <1>1
<1>2. PICK m \in bad : \A j \in bad : m <= j
  <2>1. bad \in SUBSET Nat
    OBVIOUS
  <2> QED
    BY <1>1, <2>1, LeastNat
<1>3. PICK T \in SUBSET (0..m) : ~ \E s : Lists(s, T)
  BY <1>2
<1>4. m \in Nat /\ m - 1 \notin bad
  BY <1>2
<1> DEFINE U == T \ {m}
<1>5. \E t : Lists(t, U)
  <2>1. CASE m = 0
    <3>1. U = {}
      BY <2>1
    <3> QED
      BY <3>1, <1>0
  <2>2. CASE m # 0
    <3>1. m - 1 \in Nat /\ U \in SUBSET (0..(m - 1))
      BY <2>2, <1>4
    <3> QED
      BY <3>1, <1>4
  <2> QED
    BY <2>1, <2>2
<1>6. PICK t : Lists(t, U)
  BY <1>5
<1>7. m \in T
  <2>1. m \notin T => U = T
    OBVIOUS
  <2> QED
    BY <2>1, <1>6, <1>3
<1>8. IsFiniteSet(U) /\ U \in SUBSET Nat /\ (\A x \in U : x < m) /\ U \cup {m} = T
  <2>1. IsFiniteSet(0..m)
    BY <1>4, FS_Interval
  <2>2. U \in SUBSET (0..m)
    OBVIOUS
  <2>3. IsFiniteSet(U)
    BY <2>1, <2>2, FS_Subset
  <2> QED
    BY <2>3, <1>4, <1>7
<1>9. Lists(Append(t, m), T)
  BY <1>8, <1>6, <1>4, ListsAppend
<1> QED
  BY <1>9, <1>3

(* InOrder is a list of its set.                                           *)
LEMMA InOrderLists ==
  ASSUME NEW n \in Nat, NEW S \in SUBSET (0..n)
  PROVE  Lists(InOrder(S), S)
<1>1. PICK s : Lists(s, S)
  BY ListExists
<1>2. s \in [1..Cardinality(S) -> S]
      /\ Ascending(s) /\ \A x \in S : \E i \in DOMAIN s : s[i] = x
  BY <1>1 DEF Lists
<1> QED
  BY <1>2, Zenon DEF Lists, InOrder

(* The same as a sequence.                                                 *)
LEMMA InOrderSeq ==
  ASSUME NEW n \in Nat, NEW S \in SUBSET (0..n)
  PROVE  /\ InOrder(S) \in Seq(Nat)
         /\ Ascending(InOrder(S))
         /\ \A i \in DOMAIN InOrder(S) : InOrder(S)[i] \in S
         /\ \A x \in S : \E i \in DOMAIN InOrder(S) : InOrder(S)[i] = x
<1>1. Lists(InOrder(S), S)
  BY InOrderLists
<1>2. IsFiniteSet(S) /\ Cardinality(S) \in Nat
  <2>1. IsFiniteSet(0..n)
    BY FS_Interval
  <2> QED
    BY <2>1, FS_Subset, FS_CardinalityType
<1>3. InOrder(S) \in [1..Cardinality(S) -> Nat]
  <2>1. InOrder(S) \in [1..Cardinality(S) -> S]
    BY <1>1 DEF Lists
  <2>2. S \subseteq Nat
    OBVIOUS
  <2> QED
    BY <2>1, <2>2
<1>4. InOrder(S) \in Seq(Nat)
  BY <1>2, <1>3
<1> QED
  BY <1>1, <1>4 DEF Lists

(* Ascending sequences with the same members are the same.                 *)
LEMMA AscendingUnique ==
  ASSUME NEW s \in Seq(Nat), NEW t \in Seq(Nat), Ascending(s), Ascending(t),
         \A i \in DOMAIN s : \E j \in DOMAIN t : t[j] = s[i],
         \A j \in DOMAIN t : \E i \in DOMAIN s : s[i] = t[j]
  PROVE  s = t
<1> DEFINE bad == {i \in Nat : /\ i \in 1..Len(s) \/ i \in 1..Len(t)
                               /\ ~(/\ i \in 1..Len(s) /\ i \in 1..Len(t)
                                    /\ s[i] = t[i])}
<1>0. /\ DOMAIN s = 1..Len(s) /\ Len(s) \in Nat /\ DOMAIN t = 1..Len(t) /\ Len(t) \in Nat
      /\ \A i \in 1..Len(s) : s[i] \in Nat
      /\ \A i \in 1..Len(t) : t[i] \in Nat
  OBVIOUS
<1>1. bad = {}
  <2> SUFFICES ASSUME bad # {} PROVE FALSE
    OBVIOUS
  <2>1. bad \in SUBSET Nat
    OBVIOUS
  <2>2. PICK m \in bad : \A j \in bad : m <= j
    BY <2>1, LeastNat
  <2>3. m \in Nat /\ m > 0 /\ \A j \in 1..(m - 1) : j \in 1..Len(s) /\ j \in 1..Len(t) /\ s[j] = t[j]
    <3>1. m \in Nat /\ m > 0 /\ (m <= Len(s) \/ m <= Len(t))
      BY <1>0
    <3>2. ASSUME NEW j \in 1..(m - 1)
          PROVE  j \in 1..Len(s) /\ j \in 1..Len(t) /\ s[j] = t[j]
      <4>1. j \in Nat /\ j < m
        BY <3>1
      <4>3. j \notin bad
        BY <3>1, <4>1, <2>2
      <4>2. j \in 1..Len(s) \/ j \in 1..Len(t)
        BY <3>1, <4>1, <1>0
      <4> QED
        BY <4>1, <4>2, <4>3
    <3> QED
      BY <3>1, <3>2
  <2>4. ASSUME m \in 1..Len(s), m \in 1..Len(t) => s[m] < t[m] PROVE FALSE
    <3>1. PICK j \in 1..Len(t) : t[j] = s[m]
      BY <2>4, <1>0
    <3>2. CASE j < m
      <4>1. j \in 1..(m - 1) /\ s[j] = t[j] /\ j \in 1..Len(s)
        BY <3>2, <2>3
      <4>2. s[j] < s[m]
        BY <4>1, <3>2, <2>4, <1>0 DEF Ascending
      <4> QED
        BY <4>1, <4>2, <3>1, <1>0, <2>4
    <3>3. CASE j >= m
      <4>1. m \in 1..Len(t)
        BY <3>3, <1>0, <2>3
      <4>2. j # m => m < j
        BY <3>3, <2>3
      <4>3. j # m => t[m] < t[j]
        BY <4>1, <4>2, <1>0 DEF Ascending
      <4> QED
        BY <4>1, <4>3, <3>1, <2>4, <1>0
    <3> QED
      BY <3>2, <3>3, <2>3
  <2>5. ASSUME m \in 1..Len(t), m \in 1..Len(s) => t[m] < s[m] PROVE FALSE
    <3>1. PICK j \in 1..Len(s) : s[j] = t[m]
      BY <2>5, <1>0
    <3>2. CASE j < m
      <4>1. j \in 1..(m - 1) /\ s[j] = t[j] /\ j \in 1..Len(t)
        BY <3>2, <2>3
      <4>2. t[j] < t[m]
        BY <4>1, <3>2, <2>5, <1>0 DEF Ascending
      <4> QED
        BY <4>1, <4>2, <3>1, <1>0, <2>5
    <3>3. CASE j >= m
      <4>1. m \in 1..Len(s)
        BY <3>3, <1>0, <2>3
      <4>2. j # m => m < j
        BY <3>3, <2>3
      <4>3. j # m => s[m] < s[j]
        BY <4>1, <4>2, <1>0 DEF Ascending
      <4> QED
        BY <4>1, <4>3, <3>1, <2>5, <1>0
    <3> QED
      BY <3>2, <3>3, <2>3
  <2>6. m \in 1..Len(s) /\ m \in 1..Len(t) => s[m] < t[m] \/ t[m] < s[m]
    BY <1>0
  <2>7. m \in 1..Len(s) \/ m \in 1..Len(t)
    OBVIOUS
  <2> QED
    BY <2>4, <2>5, <2>6, <2>7
<1>2. Len(s) = Len(t) /\ \A i \in 1..Len(s) : s[i] = t[i]
  <2>1. ASSUME NEW i \in 1..Len(s) PROVE i \in 1..Len(t) /\ s[i] = t[i]
    <3>1. i \in Nat
      BY <1>0
    <3>2. i \notin bad
      BY <1>1
    <3> QED
      BY <3>1, <3>2
  <2>2. ASSUME NEW i \in 1..Len(t) PROVE i \in 1..Len(s)
    <3>1. i \in Nat
      BY <1>0
    <3>2. i \notin bad
      BY <1>1
    <3> QED
      BY <3>1, <3>2
  <2> HIDE DEF bad
  <2>3. Len(s) <= Len(t)
    <3>1. CASE Len(s) = 0
      BY <3>1, <1>0
    <3>2. CASE Len(s) # 0
      <4>1. Len(s) \in 1..Len(s)
        BY <3>2, <1>0
      <4> QED
        BY <4>1, <2>1, <1>0
    <3> QED
      BY <3>1, <3>2
  <2>4. Len(t) <= Len(s)
    <3>1. CASE Len(t) = 0
      BY <3>1, <1>0
    <3>2. CASE Len(t) # 0
      <4>1. Len(t) \in 1..Len(t)
        BY <3>2, <1>0
      <4> QED
        BY <4>1, <2>2, <1>0
    <3> QED
      BY <3>1, <3>2
  <2>5. Len(s) \in Nat /\ Len(t) \in Nat
    BY <1>0
  <2>6. Len(s) = Len(t)
    BY <2>3, <2>4, <2>5
  <2> QED
    BY <2>1, <2>6
<1> QED
  BY <1>2, <1>0, SeqEqual

(* An ascending sequence is the list of its members.                       *)
LEMMA InOrderIs ==
  ASSUME NEW n \in Nat, NEW S \in SUBSET (0..n), NEW s \in Seq(Nat), Ascending(s),
         \A i \in DOMAIN s : s[i] \in S,
         \A x \in S : \E i \in DOMAIN s : s[i] = x
  PROVE  InOrder(S) = s
<1> DEFINE t == InOrder(S)
<1>1. /\ t \in Seq(Nat) /\ Ascending(t)
      /\ \A i \in DOMAIN t : t[i] \in S
      /\ \A x \in S : \E i \in DOMAIN t : t[i] = x
  BY InOrderSeq
<1> HIDE DEF t
<1>2. s = t
  BY <1>1, AscendingUnique
<1> QED
  BY <1>2 DEF t

(* The list of no numbers is empty.                                        *)
LEMMA InOrderEmpty == InOrder({}) = << >>
<1>1. << >> \in Seq(Nat) /\ Ascending(<< >>) /\ {} \in SUBSET (0..0)
  BY DEF Ascending
<1>2. DOMAIN << >> = {}
  OBVIOUS
<1>3. /\ \A i \in DOMAIN << >> : << >>[i] \in {}
      /\ \A x \in {} : \E i \in DOMAIN << >> : << >>[i] = x
  BY <1>2
<1> QED
  BY <1>1, <1>3, InOrderIs

(* Only the list of no numbers is empty.                                   *)
LEMMA InOrderOnlyEmpty ==
  ASSUME NEW n \in Nat, NEW S \in SUBSET (0..n), InOrder(S) = << >>
  PROVE  S = {}
<1>1. \A x \in S : \E i \in DOMAIN InOrder(S) : InOrder(S)[i] = x
  BY InOrderSeq
<1> QED
  BY <1>1

(* The list of two sets, one below the other.                              *)
LEMMA InOrderConcat ==
  ASSUME NEW n \in Nat, NEW S \in SUBSET (0..n), NEW T \in SUBSET (0..n),
         \A x \in S : \A y \in T : x < y
  PROVE  InOrder(S) \o InOrder(T) = InOrder(S \cup T)
<1> DEFINE s == InOrder(S)
           t == InOrder(T)
           u == s \o t
<1>1. /\ s \in Seq(Nat) /\ Ascending(s)
      /\ \A i \in DOMAIN s : s[i] \in S
      /\ \A x \in S : \E i \in DOMAIN s : s[i] = x
  BY InOrderSeq
<1>2. /\ t \in Seq(Nat) /\ Ascending(t)
      /\ \A i \in DOMAIN t : t[i] \in T
      /\ \A x \in T : \E i \in DOMAIN t : t[i] = x
  BY InOrderSeq
<1> HIDE DEF s, t
<1>3. /\ DOMAIN s = 1..Len(s) /\ Len(s) \in Nat
      /\ DOMAIN t = 1..Len(t) /\ Len(t) \in Nat
  BY <1>1, <1>2
<1>4. /\ u \in Seq(Nat) /\ DOMAIN u = 1..(Len(s) + Len(t))
      /\ \A i \in 1..Len(s) : u[i] = s[i]
      /\ \A i \in 1..Len(t) : u[Len(s) + i] = t[i]
  BY <1>1, <1>2, <1>3
<1> HIDE DEF u
<1>5. ASSUME NEW i \in DOMAIN u
      PROVE  \/ i \in 1..Len(s) /\ u[i] = s[i] /\ s[i] \in S
             \/ /\ i - Len(s) \in 1..Len(t) /\ u[i] = t[i - Len(s)]
                /\ t[i - Len(s)] \in T
  <2>1. CASE i <= Len(s)
    BY <2>1, <1>1, <1>3, <1>4
  <2>2. CASE i > Len(s)
    <3>1. i - Len(s) \in 1..Len(t) /\ i = Len(s) + (i - Len(s))
      BY <2>2, <1>3, <1>4
    <3>2. u[i] = t[i - Len(s)]
      BY <3>1, <1>4
    <3> QED
      BY <3>1, <3>2, <1>2, <1>3
  <2> QED
    BY <2>1, <2>2, <1>3, <1>4
<1>6. Ascending(u)
  <2> SUFFICES ASSUME NEW i \in DOMAIN u, NEW j \in DOMAIN u, i < j
               PROVE  u[i] < u[j]
    BY DEF Ascending
  <2>1. i \in Nat /\ j \in Nat
    BY <1>3, <1>4
  <2>2. CASE i \in 1..Len(s) /\ j \in 1..Len(s)
    <3>1. s[i] < s[j]
      BY <2>2, <1>1, <1>3 DEF Ascending
    <3> QED
      BY <3>1, <2>2, <1>4
  <2>3. CASE i \in 1..Len(s) /\ j \notin 1..Len(s)
    <3>1. u[i] \in S
      BY <2>3, <1>1, <1>3, <1>4
    <3>2. u[j] \in T
      BY <2>3, <1>5
    <3> QED
      BY <3>1, <3>2
  <2>4. CASE i \notin 1..Len(s)
    <3>1. i - Len(s) \in 1..Len(t) /\ u[i] = t[i - Len(s)]
      BY <2>4, <1>5
    <3>2. j \notin 1..Len(s)
      BY <2>1, <2>4, <1>3, <1>4
    <3>3. j - Len(s) \in 1..Len(t) /\ u[j] = t[j - Len(s)]
      BY <3>2, <1>5
    <3>4. i - Len(s) < j - Len(s)
      BY <2>1, <1>3
    <3>5. t[i - Len(s)] < t[j - Len(s)]
      BY <3>1, <3>3, <3>4, <1>2, <1>3 DEF Ascending
    <3> QED
      BY <3>1, <3>3, <3>5
  <2> QED
    BY <2>2, <2>3, <2>4
<1>7. \A i \in DOMAIN u : u[i] \in S \cup T
  BY <1>5
<1>8. ASSUME NEW x \in S \cup T PROVE \E i \in DOMAIN u : u[i] = x
  <2>1. CASE x \in S
    <3>1. PICK i \in 1..Len(s) : s[i] = x
      BY <2>1, <1>1, <1>3
    <3>2. i \in DOMAIN u /\ u[i] = x
      BY <3>1, <1>3, <1>4
    <3> QED
      BY <3>2
  <2>2. CASE x \in T
    <3>1. PICK i \in 1..Len(t) : t[i] = x
      BY <2>2, <1>2, <1>3
    <3>2. Len(s) + i \in DOMAIN u /\ u[Len(s) + i] = x
      BY <3>1, <1>3, <1>4
    <3> QED
      BY <3>2
  <2> QED
    BY <2>1, <2>2
<1>9. S \cup T \in SUBSET (0..n)
  OBVIOUS
<1>10. InOrder(S \cup T) = u
  BY <1>4, <1>6, <1>7, <1>8, <1>9, InOrderIs
<1> QED
  BY <1>10 DEF u, s, t

(* What has been taken from a list is the list up to the last of it.       *)
LEMMA InOrderPrefix ==
  ASSUME NEW n \in Nat, NEW S \in SUBSET (0..n), NEW s \in Seq(Nat),
         NEW t \in Seq(Nat), s \o t = InOrder(S), s # << >>
  PROVE  /\ s[Len(s)] \in S
         /\ s = InOrder({i \in S : i <= s[Len(s)]})
<1> DEFINE u == s \o t
           m == s[Len(s)]
           P == {i \in S : i <= m}
<1>1. /\ Ascending(u)
      /\ \A i \in DOMAIN u : u[i] \in S
      /\ \A x \in S : \E i \in DOMAIN u : u[i] = x
  BY InOrderSeq
<1>2. /\ DOMAIN s = 1..Len(s) /\ Len(s) \in Nat
      /\ DOMAIN t = 1..Len(t) /\ Len(t) \in Nat
      /\ Len(s) > 0
  <2>1. Len(s) # 0
    BY EmptySeq
  <2> QED
    BY <2>1
<1> HIDE DEF m, P
<1>3. /\ u \in Seq(Nat) /\ DOMAIN u = 1..(Len(s) + Len(t))
      /\ \A i \in 1..Len(s) : u[i] = s[i]
  <2>1. u \in Seq(Nat) /\ Len(u) = Len(s) + Len(t)
    BY ConcatProperties
  <2>2. DOMAIN u = 1..(Len(s) + Len(t))
    BY <2>1
  <2>3. \A i \in 1..Len(s) : u[i] = s[i]
    BY <1>2
  <2> QED
    BY <2>1, <2>2, <2>3
<1> HIDE DEF u
<1>4. Len(s) \in DOMAIN u /\ u[Len(s)] = m /\ m \in S /\ m \in Nat
  BY <1>1, <1>2, <1>3 DEF m
<1> USE DEF P
<1>5. Ascending(s)
  <2> SUFFICES ASSUME NEW i \in DOMAIN s, NEW j \in DOMAIN s, i < j
               PROVE  s[i] < s[j]
    BY DEF Ascending
  <2>1. i \in DOMAIN u /\ j \in DOMAIN u /\ u[i] = s[i] /\ u[j] = s[j]
    BY <1>2, <1>3
  <2> QED
    BY <2>1, <1>1 DEF Ascending
<1>6. ASSUME NEW i \in DOMAIN s PROVE s[i] \in P
  <2>1. i \in DOMAIN u /\ u[i] = s[i] /\ s[i] \in S /\ i <= Len(s) /\ i \in Nat
        /\ s[i] \in Nat
    BY <1>1, <1>2, <1>3
  <2>2. CASE i = Len(s)
    BY <2>1, <2>2, <1>4
  <2>3. CASE i # Len(s)
    <3>1. u[i] < u[Len(s)]
      BY <2>1, <2>3, <1>1, <1>2, <1>4 DEF Ascending
    <3> QED
      BY <3>1, <2>1, <1>4
  <2> QED
    BY <2>2, <2>3
<1>7. ASSUME NEW x \in P PROVE \E i \in DOMAIN s : s[i] = x
  <2>1. PICK i \in DOMAIN u : u[i] = x
    BY <1>1
  <2>2. x \in Nat /\ x <= m /\ i \in Nat
    BY <1>3
  <2>3. CASE i > Len(s)
    <3>1. u[Len(s)] < u[i]
      BY <2>3, <1>1, <1>4 DEF Ascending
    <3> QED
      BY <3>1, <2>1, <2>2, <1>4
  <2>4. CASE i <= Len(s)
    <3>1. i \in DOMAIN s /\ s[i] = x
      BY <2>1, <2>4, <1>2, <1>3
    <3> QED
      BY <3>1
  <2> QED
    BY <2>2, <2>3, <2>4, <1>2
<1>8. P \in SUBSET (0..n)
  OBVIOUS
<1> HIDE DEF P
<1>9. InOrder(P) = s
  BY <1>5, <1>6, <1>7, <1>8, InOrderIs
<1> QED
  BY <1>4, <1>9 DEF P, m

(* The list of an interval.                                                *)
LEMMA InOrderInterval ==
  ASSUME NEW p \in Nat, NEW q \in Nat, p <= q
  PROVE  /\ InOrder((p + 1)..q) \in Seq(Nat)
         /\ Len(InOrder((p + 1)..q)) = q - p
         /\ \A i \in 1..(q - p) : InOrder((p + 1)..q)[i] = p + i
<1> DEFINE s == [i \in 1..(q - p) |-> p + i]
<1>1. s \in Seq(Nat) /\ Len(s) = q - p /\ DOMAIN s = 1..(q - p)
  <2>1. q - p \in Nat /\ s \in [1..(q - p) -> Nat]
    OBVIOUS
  <2> QED
    BY <2>1
<1>2. Ascending(s)
  BY DEF Ascending
<1>3. \A i \in DOMAIN s : s[i] \in (p + 1)..q
  OBVIOUS
<1>4. ASSUME NEW x \in (p + 1)..q PROVE \E i \in DOMAIN s : s[i] = x
  <2>1. x - p \in DOMAIN s /\ s[x - p] = x
    OBVIOUS
  <2> QED
    BY <2>1
<1>5. (p + 1)..q \in SUBSET (0..q)
  OBVIOUS
<1>6. InOrder((p + 1)..q) = s
  BY <1>1, <1>2, <1>3, <1>4, <1>5, InOrderIs
<1> QED
  BY <1>6, <1>1

----------------------------------------------------------------------------
(* The one stream of the client, and the handles.                          *)
LEMMA StreamHandle ==
  /\ Streams = {W} /\ W \in Handles /\ W \notin Finds
  /\ Handles \subseteq Nat \ {0}
  /\ \A c \in Handles : c \in Finds <=> c # W
<1>1. IsFiniteSet(Streams)
  <2>1. Streams \in SUBSET Handles
    BY DEF Handles
  <2> QED
    BY <2>1, CursorAssumption, FS_Subset
<1>2. \E x : Streams = {x}
  BY <1>1, StreamAssumption, FS_Singleton
<1>3. W \in Streams
  BY <1>2 DEF W
<1>4. Streams = {W}
  BY <1>2, <1>3
<1> QED
  BY <1>3, <1>4, CursorAssumption DEF Handles

(* The identifiers in use are finitely many.                               *)
LEMMA UsedFinite ==
  ASSUME TypeOK
  PROVE  IsFiniteSet(DOMAIN open \cup {cursor[d].id : d \in Handles})
<1> DEFINE T == {cursor[d].id : d \in Handles}
           f == [d \in Handles |-> cursor[d].id]
<1>1. f \in Surjection(Handles, T)
  BY DEF Surjection
<1>2. IsFiniteSet(T)
  BY <1>1, CursorAssumption, FS_Surjection
<1>3. IsFiniteSet(DOMAIN open)
  BY DEF TypeOK
<1> QED
  BY <1>2, <1>3, FS_Union

(* A new identifier is not in use.                                         *)
LEMMA NewIdFresh ==
  ASSUME TypeOK, NEW c \in Handles
  PROVE  /\ NewId(c) \in Nat \ {0}
         /\ NewId(c) \notin DOMAIN open
         /\ \A d \in Handles : cursor[d].id # NewId(c)
<1> DEFINE used == DOMAIN open \cup {cursor[d].id : d \in Handles}
           n == Cardinality(used)
           mine == {c + 10 * i : i \in 0..n}
           free == mine \ used
<1>1. c \in Nat \ {0}
  BY StreamHandle
<1>2. IsFiniteSet(used) /\ n \in Nat
  BY UsedFinite, FS_CardinalityType
<1> HIDE DEF n, used
<1>3. free # {}
  <2> SUFFICES ASSUME free = {} PROVE FALSE
    OBVIOUS
  <2> DEFINE f == [i \in 0..n |-> c + 10 * i]
  <2>1. \A i \in 0..n : c + 10 * i \in mine
    OBVIOUS
  <2>2. mine \subseteq used
    OBVIOUS
  <2> HIDE DEF mine
  <2>3. f \in [0..n -> used]
    BY <2>1, <2>2
  <2>4. IsFiniteSet(0..n) /\ Cardinality(0..n) = n + 1
    BY <1>2, FS_Interval
  <2>5. Cardinality(used) < Cardinality(0..n)
    BY <2>4, <1>2 DEF n
  <2>6. \E x, y \in 0..n : x # y /\ f[x] = f[y]
    <3> HIDE DEF f
    <3> QED
      BY <2>3, <2>4, <2>5, <1>2, FS_PigeonHole
  <2> QED
    BY <2>6, <1>1, <1>2
<1>4. mine \subseteq Nat \ {0}
  BY <1>1, <1>2
<1> HIDE DEF mine
<1>5. PICK i \in free : \A j \in free : i <= j
  <2>1. free \in SUBSET Nat
    BY <1>4
  <2> QED
    BY <2>1, <1>3, LeastNat
<1>6. NewId(c) = CHOOSE j \in free : \A l \in free : j <= l
  BY Zenon DEF NewId, used, n, mine
<1>7. NewId(c) \in free
  BY <1>5, <1>6
<1>8. NewId(c) \in Nat \ {0} /\ NewId(c) \notin used
  BY <1>7, <1>4
<1> QED
  BY <1>8 DEF used

----------------------------------------------------------------------------
(* The open cursors, and what a step of a server may do to them.           *)
OpenType(o) ==
  /\ IsFiniteSet(DOMAIN o) /\ DOMAIN o \subseteq Nat \ {0}
  /\ o \in [DOMAIN o -> ServerCursors]
Keeps(o, p, i) == i \in DOMAIN p => i \in DOMAIN o /\ p[i] = o[i]
Shrinks(o, p) == \A i \in DOMAIN p : i \in DOMAIN o /\ p[i] = o[i]

(* Closing cursors leaves the others as they are.                          *)
LEMMA RemoveShrinks ==
  ASSUME OpenType(open), NEW ids
  PROVE  /\ OpenType(Remove(ids)) /\ Shrinks(open, Remove(ids))
         /\ DOMAIN Remove(ids) = DOMAIN open \ ids
<1>1. DOMAIN Remove(ids) = DOMAIN open \ ids
  BY DEF Remove
<1>2. IsFiniteSet(DOMAIN open \ ids)
  BY FS_Difference DEF OpenType
<1> QED
  BY <1>1, <1>2 DEF OpenType, Shrinks, Remove

(* A cursor is put among the open ones.                                    *)
LEMMA PutKeeps ==
  ASSUME OpenType(open), NEW id \in Nat \ {0}, NEW c \in ServerCursors
  PROVE  /\ OpenType(Put(id, c)) /\ DOMAIN Put(id, c) = DOMAIN open \cup {id}
         /\ Put(id, c)[id] = c
         /\ \A i \in DOMAIN Put(id, c) : i # id => Keeps(open, Put(id, c), i)
<1>1. DOMAIN Put(id, c) = DOMAIN open \cup {id}
  BY DEF Put
<1>2. IsFiniteSet(DOMAIN open \cup {id})
  BY FS_AddElement DEF OpenType
<1> QED
  BY <1>1, <1>2 DEF OpenType, Keeps, Put

(* A cursor reads on.                                                      *)
LEMMA ReadOn ==
  ASSUME OpenType(open), NEW id \in DOMAIN open, NEW q \in Nat
  PROVE  LET p == [open EXCEPT ![id].pos = q]
         IN  /\ OpenType(p) /\ DOMAIN p = DOMAIN open
             /\ p[id] = [open[id] EXCEPT !.pos = q]
             /\ \A i \in DOMAIN p : i # id => Keeps(open, p, i)
<1> DEFINE p == [open EXCEPT ![id].pos = q]
<1>1. open \in [DOMAIN open -> ServerCursors] /\ open[id] \in ServerCursors
  BY DEF OpenType
<1>2. DOMAIN p = DOMAIN open
  BY <1>1
<1>3. p[id] = [open[id] EXCEPT !.pos = q]
  BY <1>1
<1>4. p[id] \in ServerCursors
  BY <1>1, <1>3 DEF ServerCursors
<1>5. \A i \in DOMAIN open : i # id => p[i] = open[i]
  BY <1>1
<1> HIDE DEF p
<1>6. p = [i \in DOMAIN open |-> p[i]]
  BY <1>2 DEF p
<1>7. p \in [DOMAIN open -> ServerCursors]
  BY <1>1, <1>4, <1>5, <1>6
<1>8. OpenType(p) /\ \A i \in DOMAIN p : i # id => Keeps(open, p, i)
  BY <1>2, <1>5, <1>7 DEF OpenType, Keeps
<1> QED
  BY <1>2, <1>3, <1>8 DEF p

(* The type of the open cursors.                                           *)
LEMMA OpenTyped == ASSUME TypeOK PROVE OpenType(open)
BY DEF TypeOK, OpenType

(* Where a batch ends, and the numbers in it.                              *)
LEMMA BatchTyped ==
  ASSUME TypeOK, NEW kind \in {"find", "watch"}, NEW p \in Nat,
         NEW q \in Ends(kind, p)
  PROVE  /\ q \in Nat /\ p <= q
         /\ kind = "find" => q <= NumDocs
         /\ kind = "watch" => q <= now
         /\ Documents(kind, p, q) \in SUBSET (0..q)
         /\ Batch(kind, p, q) \in Seq(Nat \ {0})
         /\ Token(kind, q) \in Nat
<1>1. now \in Nat /\ NumDocs \in Nat
  <2>1. Len(history) \in Nat
    BY CursorServerAssumption DEF TypeOK
  <2> QED
    BY <2>1, CursorServerAssumption DEF TypeOK
<1>2. q \in Nat /\ p <= q /\ (kind = "find" => q <= NumDocs) /\ (kind = "watch" => q <= now)
  BY <1>1 DEF Ends
<1>3. Documents(kind, p, q) \in SUBSET (0..q)
  BY <1>2 DEF Documents
<1>4. \A x \in Documents(kind, p, q) : x \in Nat \ {0}
  BY <1>2 DEF Documents
<1> DEFINE b == InOrder(Documents(kind, p, q))
<1>5. b \in Seq(Nat) /\ \A i \in DOMAIN b : b[i] \in Nat \ {0}
  BY <1>2, <1>3, <1>4, InOrderSeq
<1> HIDE DEF b
<1>6. b \in Seq(Nat \ {0})
  <2>1. Len(b) \in Nat /\ b \in [1..Len(b) -> Nat] /\ DOMAIN b = 1..Len(b)
    BY <1>5
  <2>2. b \in [1..Len(b) -> Nat \ {0}]
    BY <2>1, <1>5
  <2> QED
    BY <2>1, <2>2
<1> QED
  BY <1>2, <1>3, <1>6 DEF b, Batch, Token

----------------------------------------------------------------------------
(* An answer after which cursor id has been read from p on to q, among the *)
(* cursors o.                                                              *)
ReadsTo(a, o, id, kind, p, q) ==
  /\ a.reply = OkReply /\ a.batch = Batch(kind, p, q)
  /\ a.pbrt = Token(kind, q) /\ a.more \in BOOLEAN
  /\ \/ /\ a.id = 0 /\ id \notin DOMAIN o /\ ~a.more
        /\ kind = "find" => q = NumDocs
     \/ a.id = id /\ id \in DOMAIN o /\ o[id].pos = q /\ o[id].kind = kind
OutcomeType(o) ==
  OpenType(o.open) /\ o.streaming \in [Servers -> Nat] /\ o.fault \in BOOLEAN

(* A batch that ends somewhere.                                            *)
LEMMA BatchesAre ==
  ASSUME TypeOK, NEW kind \in {"find", "watch"}, NEW p \in Nat,
         NEW exhaust \in BOOLEAN, NEW b \in Batches(kind, p, exhaust)
  PROVE  /\ b.end \in Ends(kind, p) /\ b.closed \in BOOLEAN
         /\ b.more \in BOOLEAN
         /\ b.closed /\ kind = "find" => b.end = NumDocs
         /\ b.more => exhaust /\ ~b.closed
<1>1. /\ b.end \in Ends(kind, p) /\ b.closed \in BOOLEAN
      /\ b.more \in BOOLEAN /\ b.closed \in Closes(kind, p, b.end)
      /\ b.more => exhaust /\ ~b.closed
  BY DEF Batches
<1> QED
  BY <1>1 DEF Closes

(* What the answer to find or aggregate, and the one to getMore, does.      *)
Opened(o, before, streams, s, kind, p, id, sess, exhaust) ==
  \E q \in Ends(kind, p) :
    /\ OutcomeType(o) /\ ~o.fault
    /\ ReadsTo(o.answer, o.open, id, kind, p, q)
    /\ \A i \in DOMAIN o.open : i # id => Keeps(before, o.open, i)
    /\ id \in DOMAIN o.open => o.open[id] =
         [server |-> s, kind |-> kind, pos |-> q, sess |-> sess]
    /\ o.answer.more => exhaust
    /\ o.streaming = IF o.answer.more THEN [streams EXCEPT ![s] = id]
                                      ELSE streams
ReadMore(o, before, streams, s, id, exhaust) ==
  /\ OutcomeType(o) /\ ~o.fault
  /\ \A i \in DOMAIN o.open : i # id => Keeps(before, o.open, i)
  /\ \/ /\ id \in DOMAIN before /\ before[id].server = s
        /\ \E q \in Ends(before[id].kind, before[id].pos) :
             /\ ReadsTo(o.answer, o.open, id, before[id].kind,
                        before[id].pos, q)
             /\ id \in DOMAIN o.open =>
                  o.open[id] = [before[id] EXCEPT !.pos = q]
        /\ o.answer.more => exhaust
        /\ o.streaming =
             [streams EXCEPT ![s] = IF o.answer.more THEN id ELSE 0]
     \/ /\ ~(id \in DOMAIN before /\ before[id].server = s)
        /\ o.open = before /\ o.streaming = streams
        /\ o.answer = ErrorAnswer(CursorNotFound)

(* The answer to find or aggregate.                                        *)
LEMMA RunOpenIs ==
  ASSUME TypeOK, NEW s \in Servers, NEW kind \in {"find", "watch"},
         NEW p \in Nat, NEW id \in Nat \ {0}, id \notin DOMAIN open,
         NEW sess \in Handles, NEW exhaust \in BOOLEAN,
         NEW o \in RunOpen(s, kind, p, id, sess, exhaust)
  PROVE  Opened(o, open, streaming, s, kind, p, id, sess, exhaust)
<1> SUFFICES \E q \in Ends(kind, p) :
               /\ OutcomeType(o) /\ ~o.fault
               /\ ReadsTo(o.answer, o.open, id, kind, p, q)
               /\ \A i \in DOMAIN o.open : i # id => Keeps(open, o.open, i)
               /\ id \in DOMAIN o.open => o.open[id] =
                    [server |-> s, kind |-> kind, pos |-> q, sess |-> sess]
               /\ o.answer.more => exhaust
               /\ o.streaming = IF o.answer.more THEN [streaming EXCEPT ![s] = id]
                                                 ELSE streaming
  BY DEF Opened
<1> DEFINE cur(q) == [server |-> s, kind |-> kind, pos |-> q, sess |-> sess]
<1>1. PICK b \in Batches(kind, p, exhaust) :
        o = Outcome(IF b.closed THEN open ELSE Put(id, cur(b.end)),
                    IF b.more THEN [streaming EXCEPT ![s] = id] ELSE streaming,
                    FALSE,
                    Answer(IF b.closed THEN 0 ELSE id, Batch(kind, p, b.end),
                           Token(kind, b.end), b.more))
  BY DEF RunOpen
<1>2. /\ b.end \in Ends(kind, p) /\ b.closed \in BOOLEAN
      /\ b.more \in BOOLEAN
      /\ b.closed /\ kind = "find" => b.end = NumDocs
      /\ b.more => exhaust /\ ~b.closed
  BY BatchesAre
<1>3. b.end \in Nat
  BY <1>2, BatchTyped
<1> DEFINE q == b.end
<1>4. cur(q) \in ServerCursors
  BY <1>3 DEF ServerCursors
<1> HIDE DEF cur
<1>5. /\ o.open = IF b.closed THEN open ELSE Put(id, cur(q))
      /\ o.streaming = IF b.more THEN [streaming EXCEPT ![s] = id]
                                 ELSE streaming
      /\ o.fault = FALSE
      /\ o.answer = Answer(IF b.closed THEN 0 ELSE id, Batch(kind, p, q),
                           Token(kind, q), b.more)
  BY <1>1 DEF Outcome
<1>6. /\ o.answer.reply = OkReply /\ o.answer.batch = Batch(kind, p, q)
      /\ o.answer.pbrt = Token(kind, q) /\ o.answer.more = b.more
      /\ o.answer.id = IF b.closed THEN 0 ELSE id
  BY <1>5 DEF Answer
<1>7. OpenType(open) /\ streaming \in [Servers -> Nat]
  BY OpenTyped DEF TypeOK
<1>8. o.streaming \in [Servers -> Nat]
  BY <1>5, <1>7
<1>9. CASE b.closed
  <2>1. o.open = open
    BY <1>5, <1>9
  <2>2. \A i \in DOMAIN open : Keeps(open, open, i)
    BY DEF Keeps
  <2>3. ReadsTo(o.answer, o.open, id, kind, p, q)
    BY <1>2, <1>6, <1>9, <2>1 DEF ReadsTo
  <2> QED
    BY <1>2, <1>5, <1>6, <1>7, <1>8, <2>1, <2>2, <2>3 DEF OutcomeType
<1>10. CASE ~b.closed
  <2>1. o.open = Put(id, cur(q))
    BY <1>5, <1>10
  <2>2. /\ OpenType(o.open) /\ id \in DOMAIN o.open /\ o.open[id] = cur(q)
        /\ \A i \in DOMAIN o.open : i # id => Keeps(open, o.open, i)
    <3>1. /\ OpenType(Put(id, cur(q)))
          /\ DOMAIN Put(id, cur(q)) = DOMAIN open \cup {id}
          /\ Put(id, cur(q))[id] = cur(q)
          /\ \A i \in DOMAIN Put(id, cur(q)) :
               i # id => Keeps(open, Put(id, cur(q)), i)
      BY <1>4, <1>7, PutKeeps, Zenon
    <3> QED
      BY <2>1, <3>1
  <2>3. o.open[id] = [server |-> s, kind |-> kind, pos |-> q, sess |-> sess]
    BY <2>2 DEF cur
  <2>4. o.open[id].pos = q /\ o.open[id].kind = kind
    BY <2>3
  <2>5. ReadsTo(o.answer, o.open, id, kind, p, q)
    BY <1>2, <1>6, <1>10, <2>2, <2>4 DEF ReadsTo
  <2> QED
    BY <1>2, <1>5, <1>6, <1>8, <2>2, <2>3, <2>5 DEF OutcomeType
<1> QED
  BY <1>2, <1>9, <1>10

(* The answer to getMore.                                                  *)
LEMMA RunGetMoreIs ==
  ASSUME TypeOK, NEW s \in Servers, NEW id \in Nat, NEW exhaust \in BOOLEAN,
         NEW o \in RunGetMore(s, id, exhaust)
  PROVE  ReadMore(o, open, streaming, s, id, exhaust)
<1> SUFFICES /\ OutcomeType(o) /\ ~o.fault
             /\ \A i \in DOMAIN o.open : i # id => Keeps(open, o.open, i)
             /\ \/ /\ id \in DOMAIN open /\ open[id].server = s
                   /\ \E q \in Ends(open[id].kind, open[id].pos) :
                        /\ ReadsTo(o.answer, o.open, id, open[id].kind,
                                   open[id].pos, q)
                        /\ id \in DOMAIN o.open =>
                             o.open[id] = [open[id] EXCEPT !.pos = q]
                   /\ o.answer.more => exhaust
                   /\ o.streaming =
                        [streaming EXCEPT ![s] = IF o.answer.more THEN id ELSE 0]
                \/ /\ ~(id \in DOMAIN open /\ open[id].server = s)
                   /\ o.open = open /\ o.streaming = streaming
                   /\ o.answer = ErrorAnswer(CursorNotFound)
  BY DEF ReadMore
<1>1. OpenType(open) /\ streaming \in [Servers -> Nat]
  BY OpenTyped DEF TypeOK
<1>2. CASE ~(id \in DOMAIN open /\ open[id].server = s)
  <2>1. o = Outcome(open, streaming, FALSE, ErrorAnswer(CursorNotFound))
    BY <1>2 DEF RunGetMore
  <2>2. /\ o.open = open /\ o.streaming = streaming /\ o.fault = FALSE
        /\ o.answer = ErrorAnswer(CursorNotFound)
    BY <2>1 DEF Outcome
  <2>3. \A i \in DOMAIN open : Keeps(open, open, i)
    BY DEF Keeps
  <2> QED
    BY <1>1, <1>2, <2>2, <2>3 DEF OutcomeType
<1>3. CASE id \in DOMAIN open /\ open[id].server = s
  <2> DEFINE kind == open[id].kind
             p == open[id].pos
  <2>1. open[id] \in ServerCursors
    BY <1>1, <1>3 DEF OpenType
  <2>2. kind \in {"find", "watch"} /\ p \in Nat
    BY <2>1 DEF ServerCursors
  <2>3. PICK b \in Batches(kind, p, exhaust) :
          o = Outcome(IF b.closed THEN Remove({id})
                                  ELSE [open EXCEPT ![id].pos = b.end],
                      [streaming EXCEPT ![s] = IF b.more THEN id ELSE 0],
                      FALSE,
                      Answer(IF b.closed THEN 0 ELSE id, Batch(kind, p, b.end),
                             Token(kind, b.end), b.more))
    BY <1>3 DEF RunGetMore
  <2> HIDE DEF kind, p
  <2>4. /\ b.end \in Ends(kind, p) /\ b.closed \in BOOLEAN
        /\ b.more \in BOOLEAN
        /\ b.closed /\ kind = "find" => b.end = NumDocs
        /\ b.more => exhaust /\ ~b.closed
    BY <2>2, BatchesAre
  <2>5. b.end \in Nat
    BY <2>2, <2>4, BatchTyped
  <2> DEFINE q == b.end
             read == [open EXCEPT ![id].pos = q]
  <2>6. /\ o.open = IF b.closed THEN Remove({id}) ELSE read
        /\ o.streaming = [streaming EXCEPT ![s] = IF b.more THEN id ELSE 0]
        /\ o.fault = FALSE
        /\ o.answer = Answer(IF b.closed THEN 0 ELSE id, Batch(kind, p, q),
                             Token(kind, q), b.more)
    BY <2>3 DEF Outcome
  <2>7. /\ o.answer.reply = OkReply /\ o.answer.batch = Batch(kind, p, q)
        /\ o.answer.pbrt = Token(kind, q) /\ o.answer.more = b.more
        /\ o.answer.id = IF b.closed THEN 0 ELSE id
    BY <2>6 DEF Answer
  <2>8. o.streaming \in [Servers -> Nat]
    BY <1>1, <2>6
  <2>9. /\ OpenType(o.open)
        /\ \A i \in DOMAIN o.open : i # id => Keeps(open, o.open, i)
        /\ ReadsTo(o.answer, o.open, id, kind, p, q)
        /\ id \in DOMAIN o.open => o.open[id] = [open[id] EXCEPT !.pos = q]
    <3>1. CASE b.closed
      <4>1. o.open = Remove({id})
        BY <2>6, <3>1
      <4>2. /\ OpenType(o.open) /\ Shrinks(open, o.open)
            /\ DOMAIN o.open = DOMAIN open \ {id}
        BY <1>1, <4>1, RemoveShrinks
      <4>3. id \notin DOMAIN o.open
        BY <4>2
      <4>4. ReadsTo(o.answer, o.open, id, kind, p, q)
        BY <2>4, <2>7, <3>1, <4>3 DEF ReadsTo
      <4> QED
        BY <4>2, <4>3, <4>4 DEF Shrinks, Keeps
    <3>2. CASE ~b.closed
      <4>1. o.open = read
        BY <2>6, <3>2
      <4>2. /\ OpenType(read) /\ DOMAIN read = DOMAIN open
            /\ read[id] = [open[id] EXCEPT !.pos = q]
            /\ \A i \in DOMAIN read : i # id => Keeps(open, read, i)
        BY <1>1, <1>3, <2>5, ReadOn
      <4> HIDE DEF read
      <4>3. read[id].pos = q /\ read[id].kind = kind
        BY <4>2, <2>1 DEF kind, ServerCursors
      <4>4. ReadsTo(o.answer, o.open, id, kind, p, q)
        BY <2>4, <2>7, <3>2, <4>1, <4>2, <4>3, <1>3 DEF ReadsTo
      <4> QED
        BY <4>1, <4>2, <4>4
    <3> QED
      BY <3>1, <3>2, <2>4
  <2> QED
    BY <1>3, <2>4, <2>6, <2>7, <2>8, <2>9 DEF OutcomeType, kind, p
<1> QED
  BY <1>2, <1>3

(* The answer of a server that refuses.                                    *)
LEMMA RefuseIs ==
  ASSUME TypeOK, NEW s \in Servers, NEW id, NEW o \in Refuse(s, id)
  PROVE  /\ OutcomeType(o) /\ Shrinks(open, o.open)
         /\ o.open = open \/ o.open = Remove({id})
         /\ o.streaming = [streaming EXCEPT ![s] = 0]
         /\ \E r \in {OverloadError, NotPrimary, OtherError} :
              /\ o.answer = ErrorAnswer(r) /\ o.fault = (r = NotPrimary)
              /\ r = OverloadError /\ streaming[s] = 0 => o.open = open
              /\ streaming[s] # 0 => o.open = Remove({id})
<1>1. OpenType(open) /\ streaming \in [Servers -> Nat]
  BY OpenTyped DEF TypeOK
<1>2. PICK r \in {OverloadError, NotPrimary, OtherError}, drop \in BOOLEAN :
        /\ drop \in IF streaming[s] # 0 THEN {TRUE}
                      ELSE IF r = OverloadError THEN {FALSE} ELSE BOOLEAN
        /\ o = Outcome(IF drop THEN Remove({id}) ELSE open,
                       [streaming EXCEPT ![s] = 0], r = NotPrimary,
                       ErrorAnswer(r))
  BY DEF Refuse
<1>3. /\ o.open = IF drop THEN Remove({id}) ELSE open
      /\ o.streaming = [streaming EXCEPT ![s] = 0]
      /\ o.fault = (r = NotPrimary)
      /\ o.answer = ErrorAnswer(r)
  BY <1>2 DEF Outcome
<1>4. OpenType(Remove({id})) /\ Shrinks(open, Remove({id})) /\ Shrinks(open, open)
  BY <1>1, RemoveShrinks DEF Shrinks
<1>5. o.streaming \in [Servers -> Nat] /\ o.fault \in BOOLEAN
  BY <1>1, <1>3
<1> HIDE DEF OverloadError, NotPrimary, OtherError
<1> QED
  BY <1>1, <1>2, <1>3, <1>4, <1>5 DEF OutcomeType

(* What a step may do to the cursors o when it is about cursor id.         *)
Touches(o, p, id) ==
  /\ \A i \in DOMAIN p : i # id => Keeps(o, p, i)
  /\ id \in DOMAIN p => /\ id \in DOMAIN o
                        /\ p[id].server = o[id].server
                        /\ p[id].kind = o[id].kind /\ p[id].sess = o[id].sess

(* A command without a reply.                                              *)
LEMMA LostIs ==
  ASSUME TypeOK, NEW s \in Servers, NEW id \in Nat, Lost(s, id)
  PROVE  /\ OpenType(open') /\ streaming' = [streaming EXCEPT ![s] = 0]
         /\ streaming' \in [Servers -> Nat]
         /\ Touches(open, open', id)
         /\ id \notin DOMAIN open => Shrinks(open, open')
         /\ streaming[s] # 0 => open' = Remove({streaming[s]})
<1>1. OpenType(open) /\ streaming \in [Servers -> Nat]
  BY OpenTyped DEF TypeOK
<1>2. streaming' = [streaming EXCEPT ![s] = 0] /\ streaming' \in [Servers -> Nat]
  BY <1>1 DEF Lost
<1>3. ASSUME Shrinks(open, open') PROVE Touches(open, open', id)
  BY <1>3 DEF Shrinks, Touches, Keeps
<1>4. CASE open' = Remove({streaming[s]})
  <2>1. OpenType(open') /\ Shrinks(open, open')
    BY <1>1, <1>4, RemoveShrinks
  <2> QED
    BY <1>2, <1>3, <1>4, <2>1
<1>5. ASSUME id \in DOMAIN open, streaming[s] = 0,
             NEW q \in Ends(open[id].kind, open[id].pos), NEW closed,
             open' = IF closed THEN Remove({id}) ELSE [open EXCEPT ![id].pos = q]
      PROVE  OpenType(open') /\ Touches(open, open', id)
  <2>1. open[id] \in ServerCursors
    BY <1>1, <1>5 DEF OpenType
  <2>2. open[id].kind \in {"find", "watch"} /\ open[id].pos \in Nat
    BY <2>1 DEF ServerCursors
  <2>3. q \in Nat
    BY <1>5, <2>2, BatchTyped
  <2>4. CASE open' = Remove({id})
    BY <2>4, <1>1, <1>3, RemoveShrinks
  <2>5. CASE open' = [open EXCEPT ![id].pos = q]
    <3> DEFINE read == [open EXCEPT ![id].pos = q]
    <3>1. /\ OpenType(read) /\ DOMAIN read = DOMAIN open
          /\ read[id] = [open[id] EXCEPT !.pos = q]
          /\ \A i \in DOMAIN read : i # id => Keeps(open, read, i)
      BY <1>1, <1>5, <2>3, ReadOn
    <3> HIDE DEF read
    <3>2. /\ read[id].server = open[id].server
          /\ read[id].kind = open[id].kind /\ read[id].sess = open[id].sess
      BY <3>1, <2>1 DEF ServerCursors
    <3>3. Touches(open, read, id)
      BY <3>1, <3>2, <1>5 DEF Touches
    <3> QED
      BY <2>5, <3>1, <3>3 DEF read
  <2> QED
    BY <1>5, <2>4, <2>5
<1>6. CASE /\ id \in DOMAIN open /\ streaming[s] = 0
           /\ \E q \in Ends(open[id].kind, open[id].pos) :
                \E closed \in Closes(open[id].kind, open[id].pos, q) :
                  open' = IF closed THEN Remove({id})
                                    ELSE [open EXCEPT ![id].pos = q]
  BY <1>2, <1>5, <1>6
<1> QED
  BY <1>4, <1>6 DEF Lost

----------------------------------------------------------------------------
(* The retry loop of a command.                                            *)
CallLoops == [elig : Eligibilities, attempt : Nat, allowed : Nat,
              server : Servers \cup {0}, deprioritized : SUBSET Servers]

(* A command that succeeded is not retried.                                *)
LEMMA OkNotRetried ==
  ASSUME NEW loop
  PROVE  ~Retries(loop, OkReply)
<1>1. /\ OkReply.ok = TRUE /\ OkReply.network = FALSE
      /\ OkReply.code = "none" /\ OkReply.labels = {}
  BY DEF OkReply, Reply
<1>2. ~ReadErrorIsRetryable(OkReply)
  BY <1>1 DEF ReadErrorIsRetryable, CheckOk
<1>3. WriteErrorType(OkReply) = "none"
  BY <1>1 DEF WriteErrorType, CheckOk
<1>4. ~IsOverload(OkReply)
  BY <1>1 DEF IsOverload
<1> QED
  BY <1>2, <1>3, <1>4 DEF Retries, IsRetryable

(* A getMore is not retried after an error of the network.                 *)
LEMMA NetworkNotRetried ==
  ASSUME NEW loop, loop.elig \in {"none", "overload_only"}
  PROVE  ~Retries(loop, NetworkError)
<1>1. NetworkError.labels = {}
  BY DEF NetworkError, Reply
<1> QED
  BY <1>1 DEF Retries, IsRetryable, IsOverload

(* The loop goes on.                                                       *)
LEMMA NextAttemptTyped ==
  ASSUME NEW loop \in CallLoops, loop.server \in Servers, NEW r
  PROVE  /\ NextAttempt(loop, r) \in CallLoops
         /\ NextAttempt(loop, r).server = loop.server
         /\ NextAttempt(loop, r).elig = loop.elig
<1> DEFINE n == NextAttempt(loop, r)
           allowed == IF IsOverload(r) THEN MaxAdaptiveRetries ELSE loop.allowed
           avoided == IF \/ loop.server \in Mongoses
                         \/ IsOverload(r) /\ OverloadRetargeting
                        THEN loop.deprioritized \cup {loop.server}
                        ELSE loop.deprioritized
<1>1. n = [loop EXCEPT !.attempt = loop.attempt + 1, !.allowed = allowed,
                       !.deprioritized = avoided]
  BY DEF NextAttempt
<1>2. loop.attempt + 1 \in Nat /\ allowed \in Nat
  BY RetryAssumption DEF CallLoops
<1>3. avoided \in SUBSET Servers
  BY DEF CallLoops
<1> HIDE DEF n, allowed, avoided
<1>4. n \in CallLoops /\ n.server = loop.server /\ n.elig = loop.elig
  BY <1>1, <1>2, <1>3 DEF CallLoops
<1> QED
  BY <1>4 DEF n

(* The loop of a new command.                                              *)
LEMMA NewLoopTyped ==
  ASSUME NEW elig \in Eligibilities, NEW s \in Servers
  PROVE  /\ NewLoop(elig, s) \in CallLoops
         /\ NewLoop(elig, s).server = s /\ NewLoop(elig, s).elig = elig
BY DEF NewLoop, CallLoops

(* The servers a retry chooses from.                                       *)
LEMMA CandidatesTyped ==
  ASSUME NEW d PROVE Candidates(d) \subseteq Servers
BY DEF Candidates

(* The replies there are.                                                  *)
LEMMA RepliesTyped ==
  /\ \A r \in {OkReply, NetworkError, OverloadError, NotPrimary, OtherError,
               CursorNotFound} : r \in Replies
  /\ OkReply.ok /\ Local = NetworkError
  /\ \A r \in {NetworkError, OverloadError, NotPrimary, OtherError,
               CursorNotFound} : ~r.ok
BY DEF OkReply, NetworkError, OverloadError, NotPrimary, OtherError,
       CursorNotFound, ServerError, Reply, Replies, Codes, RetryableCodes,
       Labels, Local

(* An answer that is an error.                                             *)
LEMMA ErrorAnswerIs ==
  ASSUME NEW r
  PROVE  /\ ErrorAnswer(r).reply = r /\ ErrorAnswer(r).id = 0
         /\ ErrorAnswer(r).batch = << >> /\ ErrorAnswer(r).pbrt = 0
         /\ ErrorAnswer(r).more = FALSE
BY DEF ErrorAnswer

----------------------------------------------------------------------------
(* A cursor is not disturbed by a step that keeps its server cursor.       *)
LEMMA LifeFrame ==
  ASSUME NEW c, NEW k, NEW o, NEW p, NEW hl, NEW hm,
         Life(c, k, o, hl), Keeps(o, p, k.id), c \in hl => c \in hm
  PROVE  Life(c, k, p, hm)
<1>1. /\ ~k.live => k = NoCursor
      /\ k.sess \in {0, c}
      /\ k.id # 0 => k.sess = c /\ c \in hl /\ k.server \in Servers
      /\ k.id \in DOMAIN o => o[k.id].sess = c /\ o[k.id].kind = Kind(c)
  BY DEF Life
<1>2. k.id \in DOMAIN p => p[k.id].sess = c /\ p[k.id].kind = Kind(c)
  BY <1>1 DEF Keeps
<1> QED
  BY <1>1, <1>2 DEF Life

(* Nor what it has returned, if it is of a find.                           *)
LEMMA FindDataFrame ==
  ASSUME NEW k, NEW D, NEW o, NEW p, FindData(k, D, o), Keeps(o, p, k.id)
  PROVE  FindData(k, D, p)
BY DEF FindData, Keeps

(* The stream is not disturbed by the calls of finds.                      *)
LEMMA StreamFrame ==
  ASSUME NEW cl, NEW cm, NEW k, NEW hl, NEW hm, NEW st, NEW ex, NEW ey,
         StreamState(cl, k, hl, st, ex), ~OfStream(cl), ~OfStream(cm),
         ~cm.resume
  PROVE  StreamState(cm, k, hm, st, ey)
BY DEF StreamState, OfStream, StreamPoints, Making

(* Nor its data.                                                           *)
LEMMA StreamDataFrame ==
  ASSUME NEW cl, NEW cm, NEW k, NEW o, NEW p, NEW h, NEW nw, NEW st,
         NEW ex, NEW ey, StreamData(k, st, o, h, nw, cl, ex),
         Keeps(o, p, k.id), ~OfStream(cl), ~OfStream(cm), ~cm.resume
  PROVE  StreamData(k, st, p, h, nw, cm, ey)
<1>1. /\ cl.at \notin StreamPoints /\ cm.at \notin StreamPoints
  BY DEF OfStream
<1>2. NotStarted(st, nw, cl) => NotStarted(st, nw, cm)
  BY <1>1 DEF NotStarted, StreamPoints
<1>3. AtTime(k, st, h, nw, cl, ex) => AtTime(k, st, h, nw, cm, ey)
  BY DEF AtTime
<1>4. Taken(st, cl) = Taken(st, cm)
  BY <1>1 DEF Taken, StreamPoints
<1>5. Follows(k, st, h, nw, cl) => Follows(k, st, h, nw, cm)
  BY <1>4 DEF Follows
<1>6. k.id \in DOMAIN p /\ ~Failed(k) => p[k.id].pos = k.pbrt
  BY DEF StreamData, Keeps
<1> QED
  BY <1>2, <1>3, <1>5, <1>6 DEF StreamData

(* The types of what is not a cursor or the stream.                        *)
StepTyped ==
  /\ OpenType(open) /\ streaming \in [Servers -> Nat]
  /\ faults \in 0..MaxFaults
  /\ in_exhaust \in BOOLEAN /\ crossed \in BOOLEAN
  /\ held \subseteq Handles /\ call \in Calls

(* TypeOK gives them.                                                      *)
LEMMA StepTypes == ASSUME TypeOK PROVE StepTyped
BY OpenTyped DEF TypeOK, StepTyped

(* A cursor changes, and the others do not.                                *)
LEMMA CursorStep ==
  ASSUME IInv, NEW c \in Handles, NEW k \in Cursors,
         cursor' = [cursor EXCEPT ![c] = k],
         \A d \in Handles : d # c => Keeps(open, open', cursor[d].id),
         \A d \in Handles : d # c /\ k.id = cursor[d].id => k.id = 0,
         held \ {c} \subseteq held', Life(c, k, open', held')
  PROVE  /\ cursor' \in [Handles -> Cursors] /\ cursor'[c] = k
         /\ \A d \in Handles : d # c => cursor'[d] = cursor[d]
         /\ Distinct(cursor')
         /\ \A d \in Handles : Life(d, cursor'[d], open', held')
<1>1. cursor \in [Handles -> Cursors]
  BY DEF IInv, TypeOK
<1>2. /\ cursor' \in [Handles -> Cursors] /\ cursor'[c] = k
      /\ \A d \in Handles : d # c => cursor'[d] = cursor[d]
  BY <1>1
<1>3. Distinct(cursor')
  BY <1>2 DEF IInv, Distinct
<1>4. ASSUME NEW d \in Handles, d # c PROVE Life(d, cursor'[d], open', held')
  <2>1. Life(d, cursor[d], open, held) /\ Keeps(open, open', cursor[d].id)
    BY <1>4 DEF IInv
  <2>2. d \in held => d \in held'
    BY <1>4
  <2>3. Life(d, cursor[d], open', held')
    BY <2>1, <2>2, LifeFrame
  <2> QED
    BY <2>3, <1>2, <1>4
<1> QED
  BY <1>2, <1>3, <1>4

(* A step of a find.                                                       *)
LEMMA FindStep ==
  ASSUME IInv, NEW c \in Finds, NEW k \in Cursors, NEW D \in Seq(Nat \ {0}),
         cursor' = [cursor EXCEPT ![c] = k],
         delivered' = [delivered EXCEPT ![c] = D],
         \A d \in Handles : d # c => Keeps(open, open', cursor[d].id),
         \A d \in Handles : d # c /\ k.id = cursor[d].id => k.id = 0,
         held \ {c} \subseteq held', Life(c, k, open', held'),
         FindData(k, D, open'), ~OfStream(call), ~OfStream(call'),
         Calling(call', cursor', held', in_exhaust'), StepTyped',
         UNCHANGED <<history, now, stream>>
  PROVE  IInv'
<1>1. c \in Handles /\ W \in Handles /\ W # c
  BY StreamHandle DEF Handles
<1>2. /\ cursor' \in [Handles -> Cursors] /\ cursor'[c] = k
      /\ \A d \in Handles : d # c => cursor'[d] = cursor[d]
      /\ Distinct(cursor')
      /\ \A d \in Handles : Life(d, cursor'[d], open', held')
  BY <1>1, CursorStep
<1>3. delivered \in [Finds -> Seq(Nat \ {0})]
  BY DEF IInv, TypeOK
<1>4. TypeOK'
  <2>1. /\ history' \in Histories /\ now' \in 0..Len(history')
        /\ stream' \in StreamRecords
    BY DEF IInv, TypeOK
  <2>2. delivered' \in [Finds -> Seq(Nat \ {0})]
    BY <1>3
  <2> QED
    BY <1>2, <2>1, <2>2 DEF TypeOK, StepTyped, OpenType
<1>5. ASSUME NEW d \in Finds PROVE FindData(cursor'[d], delivered'[d], open')
  <2>1. CASE d = c
    BY <2>1, <1>2, <1>3
  <2>2. CASE d # c
    <3>1. d \in Handles /\ delivered'[d] = delivered[d] /\ cursor'[d] = cursor[d]
      BY <2>2, <1>2, <1>3 DEF Handles
    <3>2. FindData(cursor[d], delivered[d], open) /\ Keeps(open, open', cursor[d].id)
      BY <2>2, <3>1 DEF IInv
    <3>3. FindData(cursor[d], delivered[d], open')
      BY <3>2, FindDataFrame
    <3> QED
      BY <3>1, <3>3
  <2> QED
    BY <2>1, <2>2
<1>6. cursor'[W] = cursor[W] /\ Keeps(open, open', cursor[W].id) /\ ~call'.resume
  BY <1>1, <1>2 DEF Calling
<1>7. StreamState(call', cursor'[W], held', stream', in_exhaust')
  <2>1. StreamState(call, cursor[W], held, stream, in_exhaust)
    BY DEF IInv
  <2>2. StreamState(call', cursor[W], held', stream, in_exhaust')
    BY <2>1, <1>6, StreamFrame
  <2> QED
    BY <2>2, <1>6
<1>8. StreamData(cursor'[W], stream', open', history', now', call', in_exhaust')
  <2>1. StreamData(cursor[W], stream, open, history, now, call, in_exhaust)
    BY DEF IInv
  <2>2. StreamData(cursor[W], stream, open', history, now, call', in_exhaust')
    BY <2>1, <1>6, StreamDataFrame
  <2> QED
    BY <2>2, <1>6
<1> QED
  BY <1>2, <1>4, <1>5, <1>7, <1>8 DEF IInv

(* A step of the stream.                                                   *)
LEMMA StreamStep ==
  ASSUME IInv, NEW k \in Cursors, NEW st \in StreamRecords,
         cursor' = [cursor EXCEPT ![W] = k], stream' = st,
         \A d \in Handles : d # W => Keeps(open, open', cursor[d].id),
         \A d \in Handles : d # W /\ k.id = cursor[d].id => k.id = 0,
         held \ {W} \subseteq held', Life(W, k, open', held'),
         Calling(call', cursor', held', in_exhaust'),
         StreamState(call', k, held', st, in_exhaust'),
         StreamData(k, st, open', history, now, call', in_exhaust'),
         StepTyped', UNCHANGED <<history, now, delivered>>
  PROVE  IInv'
<1>1. W \in Handles /\ W \notin Finds
  BY StreamHandle
<1>2. /\ cursor' \in [Handles -> Cursors] /\ cursor'[W] = k
      /\ \A d \in Handles : d # W => cursor'[d] = cursor[d]
      /\ Distinct(cursor')
      /\ \A d \in Handles : Life(d, cursor'[d], open', held')
  BY <1>1, CursorStep
<1>3. TypeOK'
  <2>1. /\ history' \in Histories /\ now' \in 0..Len(history')
        /\ delivered' \in [Finds -> Seq(Nat \ {0})]
    BY DEF IInv, TypeOK
  <2> QED
    BY <1>2, <2>1 DEF TypeOK, StepTyped, OpenType
<1>4. ASSUME NEW d \in Finds PROVE FindData(cursor'[d], delivered'[d], open')
  <2>1. d \in Handles /\ d # W
    BY <1>1 DEF Handles
  <2>2. cursor'[d] = cursor[d] /\ Keeps(open, open', cursor[d].id)
    BY <2>1, <1>2
  <2>3. FindData(cursor[d], delivered[d], open)
    BY DEF IInv
  <2>4. FindData(cursor[d], delivered[d], open')
    BY <2>2, <2>3, FindDataFrame
  <2> QED
    BY <2>2, <2>4
<1> QED
  BY <1>2, <1>3, <1>4 DEF IInv

----------------------------------------------------------------------------
(* Two cursors that differ at most in state, batch, error and timed_out.   *)
SameCursor(j, k) ==
  /\ j.live = k.live /\ j.id = k.id /\ j.server = k.server
  /\ j.pbrt = k.pbrt /\ j.sess = k.sess /\ j.explicit = k.explicit
  /\ j.opt = k.opt /\ j.in_exhaust = k.in_exhaust

(* An empty batch ends.                                                    *)
LEMMA PoppedIs ==
  ASSUME NEW k \in Cursors
  PROVE  /\ Popped(k) \in Cursors /\ SameCursor(Popped(k), k)
         /\ Popped(k).error = k.error /\ Popped(k).batch = k.batch
         /\ Popped(k).timed_out = k.timed_out
         /\ k.state = "InBatch" /\ k.batch = << >> =>
              Popped(k).state = IF k.id # 0 THEN "EndOfBatch" ELSE "Done"
         /\ ~(k.state = "InBatch" /\ k.batch = << >>) => Popped(k) = k
<1>1. CASE k.state = "InBatch" /\ k.batch = << >>
  <2> DEFINE s == IF k.id # 0 THEN "EndOfBatch" ELSE "Done"
  <2>1. Popped(k) = [k EXCEPT !.state = s]
    BY <1>1 DEF Popped
  <2>2. s \in {"EndOfBatch", "Done"}
    OBVIOUS
  <2> HIDE DEF s
  <2>3. Popped(k) \in Cursors /\ Popped(k).state = s
    BY <2>1, <2>2 DEF Cursors
  <2>4. SameCursor(Popped(k), k) /\ Popped(k).error = k.error
        /\ Popped(k).batch = k.batch /\ Popped(k).timed_out = k.timed_out
    BY <2>1 DEF Cursors, SameCursor
  <2> QED
    BY <1>1, <2>3, <2>4 DEF s
<1>2. CASE ~(k.state = "InBatch" /\ k.batch = << >>)
  <2>1. Popped(k) = k
    BY <1>2 DEF Popped
  <2> QED
    BY <1>2, <2>1 DEF SameCursor
<1> QED
  BY <1>1, <1>2

(* The life of a cursor depends on little of it.                           *)
LEMMA LifeSame ==
  ASSUME NEW c, NEW k \in Cursors, NEW j \in Cursors, NEW o, NEW hl,
         Life(c, k, o, hl), k.live, SameCursor(j, k),
         j.state # "InBatch" => j.batch = << >>,
         j.state = "Unprimed" => k.state = "Unprimed",
         j.state = "EndOfBatch" => k.id # 0
  PROVE  Life(c, j, o, hl)
BY DEF Life, SameCursor

(* The loop of mongoc_cursor_next, case by case.                           *)
Fetches(c, k) ==
  /\ k.state \in {"Unprimed", "EndOfBatch"}
  /\ cursor' = [cursor EXCEPT ![c] = k]
  /\ call' = [call EXCEPT !.at = "fetch", !.c = c,
                !.cmd = IF k.state = "Unprimed" THEN "find" ELSE "getMore",
                !.refreshed = (k.state # "Unprimed")]
  /\ UNCHANGED delivered

(* Proceed takes one of three courses.                                     *)
LEMMA ProceedCases ==
  ASSUME NEW c, NEW k \in Cursors, NEW refreshed \in BOOLEAN,
         Proceed(c, k, refreshed)
  PROVE  \/ /\ k.state = "InBatch" /\ k.batch # << >>
            /\ Returns(c, [k EXCEPT !.batch = Tail(@)], Head(k.batch))
         \/ /\ Popped(k).state = "Done" \/ (Popped(k).state = "EndOfBatch" /\ refreshed)
            /\ Returns(c, Popped(k), 0)
         \/ Fetches(c, Popped(k)) /\ (Popped(k).state = "Unprimed" \/ ~refreshed)
<1>1. /\ Popped(k).state \in {"Unprimed", "InBatch", "EndOfBatch", "Done"}
      /\ k.state = "Unprimed" <=> Popped(k).state = "Unprimed"
      /\ Popped(k).state = "InBatch" => k.state = "InBatch" /\ k.batch # << >>
  BY PoppedIs DEF Cursors
<1>2. CASE Popped(k).state = "InBatch"
  <2>1. Returns(c, [k EXCEPT !.batch = Tail(@)], Head(k.batch))
    BY <1>2 DEF Proceed
  <2> QED
    BY <1>1, <1>2, <2>1
<1>3. CASE Popped(k).state = "Done" \/ (Popped(k).state = "EndOfBatch" /\ refreshed)
  <2>1. Returns(c, Popped(k), 0)
    BY <1>3 DEF Proceed
  <2> QED
    BY <1>3, <2>1
<1>4. CASE Popped(k).state = "Unprimed" \/ (Popped(k).state = "EndOfBatch" /\ ~refreshed)
  <2>1. /\ cursor' = [cursor EXCEPT ![c] = Popped(k)]
        /\ call' = [call EXCEPT !.at = "fetch", !.c = c,
                      !.cmd = IF k.state = "Unprimed" THEN "find" ELSE "getMore",
                      !.refreshed = (k.state # "Unprimed")]
        /\ UNCHANGED delivered
    BY <1>4 DEF Proceed
  <2>2. (k.state = "Unprimed") = (Popped(k).state = "Unprimed")
    BY <1>1
  <2>3. call' = [call EXCEPT !.at = "fetch", !.c = c,
                   !.cmd = IF Popped(k).state = "Unprimed" THEN "find" ELSE "getMore",
                   !.refreshed = (Popped(k).state # "Unprimed")]
    BY <2>1, <2>2
  <2> QED
    BY <1>4, <2>1, <2>3 DEF Fetches
<1>5. \/ Popped(k).state = "InBatch"
      \/ Popped(k).state = "Done" \/ (Popped(k).state = "EndOfBatch" /\ refreshed)
      \/ Popped(k).state = "Unprimed" \/ (Popped(k).state = "EndOfBatch" /\ ~refreshed)
  BY <1>1
<1> QED
  BY <1>2, <1>3, <1>4, <1>5

----------------------------------------------------------------------------
(* mongoc_cursor_next of a find returns.                                   *)
LEMMA FindReturns ==
  ASSUME TypeOK, NEW c \in Finds, NEW k, NEW doc, Returns(c, k, doc)
  PROVE  /\ cursor' = [cursor EXCEPT ![c] = k] /\ call' = Idle
         /\ delivered' = [delivered EXCEPT ![c] =
              IF doc = 0 THEN delivered[c] ELSE Append(delivered[c], doc)]
         /\ delivered[c] \in Seq(Nat \ {0})
<1>1. delivered \in [Finds -> Seq(Nat \ {0})]
  BY DEF TypeOK
<1>2. cursor' = [cursor EXCEPT ![c] = k] /\ call' = Idle
  BY DEF Returns
<1>3. CASE doc = 0
  <2>1. delivered' = delivered
    BY <1>3 DEF Returns
  <2> QED
    BY <1>1, <1>2, <1>3, <2>1
<1>4. CASE doc # 0
  <2>1. delivered' = [delivered EXCEPT ![c] = Append(@, doc)]
    BY <1>4 DEF Returns
  <2> QED
    BY <1>1, <1>2, <1>4, <2>1
<1> QED
  BY <1>3, <1>4

(* The next call after Proceed: it returns, or it asks for a batch.        *)
AsksFor(c, k) ==
  /\ k.state \in {"Unprimed", "EndOfBatch"}
  /\ call' = [call EXCEPT !.at = "fetch", !.c = c,
                !.cmd = IF k.state = "Unprimed" THEN "find" ELSE "getMore",
                !.refreshed = (k.state # "Unprimed")]

(* A document is taken from the batch of a find.                           *)
LEMMA FindTakes ==
  ASSUME NEW c, NEW k \in Cursors, NEW o, NEW hl, NEW D \in Seq(Nat \ {0}),
         Life(c, k, o, hl), k.live, FindData(k, D, o), k.state = "InBatch",
         k.batch # << >>
  PROVE  LET j == [k EXCEPT !.batch = Tail(@)]
             E == Append(D, Head(k.batch))
         IN  /\ j \in Cursors /\ SameCursor(j, k) /\ j.error = k.error
             /\ j.state = k.state
             /\ Head(k.batch) \in Nat \ {0} /\ E \in Seq(Nat \ {0})
             /\ Life(c, j, o, hl) /\ FindData(j, E, o)
<1> DEFINE j == [k EXCEPT !.batch = Tail(k.batch)]
           E == Append(D, Head(k.batch))
<1>1. k.batch \in Seq(Nat \ {0})
  BY DEF Cursors
<1> DEFINE b == k.batch
           t == Tail(b)
<1>2. /\ Head(b) \in Nat \ {0} /\ t \in Seq(Nat \ {0})
      /\ Len(b) \in Nat /\ Len(t) = Len(b) - 1 /\ Head(b) = b[1]
      /\ Len(b) >= 1
      /\ \A i \in 1..Len(t) : t[i] = b[i + 1]
  <2>1. b \in Seq(Nat \ {0}) /\ b # << >>
    BY <1>1
  <2> HIDE DEF b
  <2> QED
    BY <2>1
<1>3. j \in Cursors /\ SameCursor(j, k) /\ j.error = k.error /\ j.batch = t
      /\ j.state = k.state
  <2> HIDE DEF t
  <2>1. j = [k EXCEPT !.batch = t]
    BY DEF t
  <2> QED
    BY <1>2, <2>1 DEF Cursors, SameCursor
<1>4. Life(c, j, o, hl)
  <2> HIDE DEF j, t
  <2> QED
    BY <1>3, LifeSame
<1>5. /\ \A i \in 1..Len(D) : D[i] = i
      /\ \A i \in 1..Len(b) : b[i] = Len(D) + i
      /\ Len(D) \in Nat
  BY <1>1 DEF FindData
<1>6. /\ E \in Seq(Nat \ {0}) /\ Len(E) = Len(D) + 1
      /\ \A i \in 1..Len(D) : E[i] = D[i]
      /\ E[Len(D) + 1] = Head(b)
  BY <1>2
<1> HIDE DEF b, t, E, j
<1>7. \A i \in DOMAIN E : E[i] = i
  <2>1. DOMAIN E = 1..(Len(D) + 1)
    BY <1>5, <1>6
  <2>2. E[Len(D) + 1] = Len(D) + 1
    BY <1>2, <1>5, <1>6
  <2>3. \A i \in 1..Len(D) : E[i] = i
    BY <1>5, <1>6
  <2>4. \A i \in 1..(Len(D) + 1) : i \in 1..Len(D) \/ i = Len(D) + 1
    BY <1>5
  <2> QED
    BY <2>1, <2>2, <2>3, <2>4
<1>8. \A i \in DOMAIN t : t[i] = Len(E) + i
  <2>1. DOMAIN t = 1..Len(t)
    BY <1>2
  <2>2. ASSUME NEW i \in 1..Len(t) PROVE t[i] = Len(E) + i
    <3>1. i + 1 \in 1..Len(b) /\ t[i] = b[i + 1]
      BY <1>2
    <3> QED
      BY <3>1, <1>5, <1>6
  <2> QED
    BY <2>1, <2>2
<1>9. Len(E) + Len(t) = Len(D) + Len(b)
  BY <1>2, <1>5, <1>6
<1>10. FindData(j, E, o)
  BY <1>3, <1>7, <1>8, <1>9 DEF FindData, SameCursor, Failed, b
<1> QED
  BY <1>2, <1>3, <1>4, <1>6, <1>10 DEF j, E, b

(* The loop of mongoc_cursor_next for a find.                              *)
LEMMA ProceedFind ==
  ASSUME TypeOK, NEW c \in Finds, NEW k \in Cursors, NEW o, NEW hl,
         NEW refreshed \in BOOLEAN, k.live, Life(c, k, o, hl),
         FindData(k, delivered[c], o), Proceed(c, k, refreshed),
         refreshed => k.state # "EndOfBatch"
  PROVE  \E j \in Cursors, D \in Seq(Nat \ {0}) :
           /\ cursor' = [cursor EXCEPT ![c] = j]
           /\ delivered' = [delivered EXCEPT ![c] = D]
           /\ SameCursor(j, k) /\ j.error = k.error
           /\ Life(c, j, o, hl) /\ FindData(j, D, o)
           /\ \/ call' = Idle /\ (j.state = "Done" => k.id = 0 \/ k.state = "Done")
              \/ AsksFor(c, j)
<1>1. delivered \in [Finds -> Seq(Nat \ {0})] /\ delivered[c] \in Seq(Nat \ {0})
  BY DEF TypeOK
<1>2. ASSUME k.state = "InBatch", k.batch # << >>,
             Returns(c, [k EXCEPT !.batch = Tail(@)], Head(k.batch))
      PROVE  \E j \in Cursors, D \in Seq(Nat \ {0}) :
               /\ cursor' = [cursor EXCEPT ![c] = j]
               /\ delivered' = [delivered EXCEPT ![c] = D]
               /\ SameCursor(j, k) /\ j.error = k.error
               /\ Life(c, j, o, hl) /\ FindData(j, D, o)
               /\ call' = Idle /\ j.state = k.state
  <2> DEFINE j == [k EXCEPT !.batch = Tail(@)]
             E == Append(delivered[c], Head(k.batch))
  <2>1. /\ j \in Cursors /\ SameCursor(j, k) /\ j.error = k.error
        /\ j.state = k.state
        /\ Head(k.batch) \in Nat \ {0} /\ E \in Seq(Nat \ {0})
        /\ Life(c, j, o, hl) /\ FindData(j, E, o)
    BY <1>1, <1>2, FindTakes
  <2>2. /\ cursor' = [cursor EXCEPT ![c] = j] /\ call' = Idle
        /\ delivered' = [delivered EXCEPT ![c] =
             IF Head(k.batch) = 0 THEN delivered[c] ELSE E]
    BY <1>2, FindReturns
  <2> HIDE DEF j, E
  <2>3. delivered' = [delivered EXCEPT ![c] = E]
    BY <2>1, <2>2
  <2> QED
    BY <2>1, <2>2, <2>3
<1> DEFINE p == Popped(k)
<1>3. /\ p \in Cursors /\ SameCursor(p, k) /\ p.error = k.error
      /\ p.batch = k.batch
      /\ k.state = "InBatch" /\ k.batch = << >> =>
           p.state = IF k.id # 0 THEN "EndOfBatch" ELSE "Done"
      /\ ~(k.state = "InBatch" /\ k.batch = << >>) => p = k
  BY PoppedIs
<1> HIDE DEF p
<1>4. Life(c, p, o, hl)
  <2>1. /\ p.state # "InBatch" => p.batch = << >>
        /\ p.state = "Unprimed" => k.state = "Unprimed"
        /\ p.state = "EndOfBatch" => k.id # 0
    BY <1>3 DEF Life
  <2> QED
    BY <1>3, <2>1, LifeSame
<1>5. FindData(p, delivered[c], o)
  BY <1>3 DEF FindData, SameCursor, Failed
<1>6. delivered = [delivered EXCEPT ![c] = delivered[c]]
  BY <1>1
<1>7. ASSUME p.state = "Done" \/ (p.state = "EndOfBatch" /\ refreshed),
             Returns(c, p, 0)
      PROVE  /\ cursor' = [cursor EXCEPT ![c] = p] /\ call' = Idle
             /\ delivered' = [delivered EXCEPT ![c] = delivered[c]]
             /\ p.state = "Done" => k.id = 0 \/ k.state = "Done"
  <2>1. /\ cursor' = [cursor EXCEPT ![c] = p] /\ call' = Idle
        /\ delivered' = [delivered EXCEPT ![c] = delivered[c]]
    BY <1>7, FindReturns
  <2>2. p.state = "Done" => k.id = 0 \/ k.state = "Done"
    BY <1>3
  <2> QED
    BY <2>1, <2>2
<1>8. ASSUME Fetches(c, p)
      PROVE  /\ cursor' = [cursor EXCEPT ![c] = p] /\ AsksFor(c, p)
             /\ delivered' = [delivered EXCEPT ![c] = delivered[c]]
  BY <1>6, <1>8 DEF Fetches, AsksFor
<1>9. \/ /\ k.state = "InBatch" /\ k.batch # << >>
         /\ Returns(c, [k EXCEPT !.batch = Tail(@)], Head(k.batch))
      \/ /\ p.state = "Done" \/ (p.state = "EndOfBatch" /\ refreshed)
         /\ Returns(c, p, 0)
      \/ Fetches(c, p)
  BY ProceedCases DEF p
<1>10. CASE /\ k.state = "InBatch" /\ k.batch # << >>
            /\ Returns(c, [k EXCEPT !.batch = Tail(@)], Head(k.batch))
  <2>1. PICK j \in Cursors, D \in Seq(Nat \ {0}) :
               /\ cursor' = [cursor EXCEPT ![c] = j]
               /\ delivered' = [delivered EXCEPT ![c] = D]
               /\ SameCursor(j, k) /\ j.error = k.error
               /\ Life(c, j, o, hl) /\ FindData(j, D, o)
               /\ call' = Idle /\ j.state = k.state
    BY <1>2, <1>10
  <2> QED
    BY <2>1, <1>10
<1>11. CASE /\ p.state = "Done" \/ (p.state = "EndOfBatch" /\ refreshed)
            /\ Returns(c, p, 0)
  BY <1>1, <1>3, <1>4, <1>5, <1>7, <1>11
<1>12. CASE Fetches(c, p)
  BY <1>1, <1>3, <1>4, <1>5, <1>8, <1>12
<1> QED
  BY <1>9, <1>10, <1>11, <1>12

----------------------------------------------------------------------------
(* Between two calls.                                                      *)
LEMMA IdleIs ==
  /\ Idle \in Calls /\ ~OfStream(Idle) /\ Idle.at = "idle" /\ Idle.doc = 0
  /\ Idle.resume = FALSE /\ Idle.resumes = 0 /\ Idle.timeouts = 0
  /\ \A cur, hl, ex : Calling(Idle, cur, hl, ex)
<1>1. /\ Idle.at = "idle" /\ Idle.doc = 0 /\ Idle.resume = FALSE
      /\ Idle.resumes = 0 /\ Idle.timeouts = 0
  BY DEF Idle
<1>2. Idle \in Calls
  BY DEF Idle, NoLoop, Calls, Eligibilities
<1>3. ~OfStream(Idle)
  BY <1>1 DEF OfStream, StreamPoints, Commands
<1> HIDE DEF Idle
<1> QED
  BY <1>1, <1>2, <1>3 DEF Calling, Commands

(* A call that asks for a batch.                                           *)
LEMMA AskingIs ==
  ASSUME call \in Calls, NEW c \in Handles, NEW j \in Cursors, AsksFor(c, j)
  PROVE  /\ call' \in Calls /\ call'.at = "fetch" /\ call'.c = c
         /\ call'.cmd = IF j.state = "Unprimed" THEN "find" ELSE "getMore"
         /\ call'.refreshed = (j.state # "Unprimed")
         /\ call'.loop = call.loop /\ call'.doc = call.doc
         /\ call'.server = call.server /\ call'.resume = call.resume
         /\ call'.timeouts = call.timeouts /\ call'.resumes = call.resumes
<1> DEFINE cmd == IF j.state = "Unprimed" THEN "find" ELSE "getMore"
           ref == j.state # "Unprimed"
<1>1. cmd \in {"find", "getMore"} /\ ref \in BOOLEAN
  OBVIOUS
<1>2. call' = [call EXCEPT !.at = "fetch", !.c = c, !.cmd = cmd,
                           !.refreshed = ref]
  BY DEF AsksFor
<1> HIDE DEF cmd, ref
<1>3. /\ call' \in Calls /\ call'.at = "fetch" /\ call'.c = c
      /\ call'.cmd = cmd /\ call'.refreshed = ref
      /\ call'.loop = call.loop /\ call'.doc = call.doc
  BY <1>1, <1>2 DEF Calls
<1>4. /\ call'.server = call.server /\ call'.resume = call.resume
      /\ call'.timeouts = call.timeouts /\ call'.resumes = call.resumes
  BY <1>2 DEF Calls
<1> QED
  BY <1>3, <1>4 DEF cmd, ref

(* It relies on its cursor.                                                *)
LEMMA CallingAsks ==
  ASSUME call \in Calls, NEW c \in Handles, NEW j \in Cursors, AsksFor(c, j),
         cursor'[c] = j, j.live, ~Failed(j), NEW hl, NEW ex,
         call.doc = 0, c # W => ~call.resume,
         c = W => ~ex /\ j.state # "Unprimed"
  PROVE  Calling(call', cursor', hl, ex)
<1>1. /\ call' \in Calls /\ call'.at = "fetch" /\ call'.c = c
      /\ call'.cmd = IF j.state = "Unprimed" THEN "find" ELSE "getMore"
      /\ call'.refreshed = (j.state # "Unprimed")
      /\ call'.doc = call.doc /\ call'.resume = call.resume
  BY AskingIs
<1>2. j.state \in {"Unprimed", "EndOfBatch"}
  BY DEF AsksFor
<1>3. c \in Streams <=> c = W
  BY StreamHandle
<1>4. c # W => c \in Finds
  BY StreamHandle
<1>5. Asking(call', cursor'[call'.c], ex)
  BY <1>1, <1>2, <1>3, <1>4 DEF Asking
<1>6. ~OfStream(call') => ~call'.resume
  BY <1>1 DEF OfStream, Commands
<1> QED
  BY <1>1, <1>5, <1>6 DEF Calling, Commands

(* Nothing but the call and one cursor changes.                            *)
LEMMA KeepsAll ==
  ASSUME NEW o PROVE \A i : Keeps(o, o, i)
BY DEF Keeps

(* mongoc_collection_find_with_opts                                        *)
LEMMA FindPreserves == ASSUME IInv, Find, UNCHANGED stream PROVE IInv'
<1>1. PICK c \in Finds, exhaust \in BOOLEAN :
        /\ ~cursor[c].live
        /\ cursor' = [cursor EXCEPT ![c] = NewCursor(exhaust)]
        /\ delivered' = [delivered EXCEPT ![c] = << >>]
  BY DEF Find
<1>2. /\ call.at = "idle" /\ call' = call /\ open' = open /\ held' = held
      /\ in_exhaust' = in_exhaust
      /\ UNCHANGED <<streaming, history, now, faults, crossed>>
  BY DEF Find, serverVars
<1> DEFINE k == NewCursor(exhaust)
<1>3. k \in Cursors
  BY RepliesTyped, <1>1 DEF NewCursor, Cursors
<1>4. /\ k.live /\ k.id = 0 /\ k.sess = 0 /\ k.explicit = FALSE
      /\ k.batch = << >> /\ k.state = "Unprimed" /\ k.error = OkReply
  BY DEF NewCursor
<1> HIDE DEF k
<1>5. TypeOK /\ StepTyped
  BY StepTypes DEF IInv
<1>6. 0 \notin DOMAIN open /\ c \in Handles /\ c \notin Streams
  BY <1>5, StreamHandle DEF TypeOK, Handles
<1>7. Life(c, k, open', held')
  BY <1>2, <1>4, <1>6 DEF Life
<1>8. FindData(k, << >>, open')
  BY <1>2, <1>4, <1>6 DEF FindData
<1>9. Calling(call, cursor, held, in_exhaust)
  BY DEF IInv
<1>10. call = Idle
  BY <1>2, <1>9 DEF Calling
<1>11. ~OfStream(call) /\ ~OfStream(call') /\ Calling(call', cursor', held', in_exhaust')
  BY <1>2, <1>10, IdleIs
<1>12. StepTyped'
  BY <1>2, <1>5 DEF StepTyped
<1>13. \A d \in Handles : d # c => Keeps(open, open', cursor[d].id)
  BY <1>2, KeepsAll
<1>14. << >> \in Seq(Nat \ {0}) /\ held \ {c} \subseteq held'
  BY <1>2
<1> QED
  BY <1>1, <1>2, <1>3, <1>4, <1>7, <1>8, <1>11, <1>12, <1>13, <1>14, FindStep
     DEF k

(* A find that fails.                                                      *)
LEMMA FailsFind ==
  ASSUME TypeOK, NEW c \in Finds, NEW k \in Cursors, NEW o, NEW hl, NEW r,
         k.live, Life(c, k, o, hl), k.batch = << >>,
         \A i \in DOMAIN delivered[c] : delivered[c][i] = i,
         Fails(c, k, r)
  PROVE  \E j \in Cursors, D \in Seq(Nat \ {0}) :
           /\ cursor' = [cursor EXCEPT ![c] = j]
           /\ delivered' = [delivered EXCEPT ![c] = D]
           /\ SameCursor(j, k) /\ Failed(j) /\ j.state = "Done"
           /\ Life(c, j, o, hl) /\ FindData(j, D, o) /\ call' = Idle
<1> DEFINE j == [k EXCEPT !.state = "Done", !.error = Local, !.timed_out = FALSE]
<1>1. Local \in Replies /\ ~Local.ok
  BY RepliesTyped
<1>2. j \in Cursors
  BY <1>1 DEF Cursors
<1>3. SameCursor(j, k) /\ j.error = Local /\ j.state = "Done" /\ j.batch = k.batch
  BY DEF Cursors, SameCursor
<1>4. Returns(c, j, 0)
  BY DEF Fails
<1> HIDE DEF j
<1>5. /\ cursor' = [cursor EXCEPT ![c] = j] /\ call' = Idle
      /\ delivered' = [delivered EXCEPT ![c] = delivered[c]]
      /\ delivered[c] \in Seq(Nat \ {0})
  BY <1>4, FindReturns
<1>6. Life(c, j, o, hl)
  BY <1>2, <1>3, LifeSame
<1>7. Failed(j)
  BY <1>1, <1>3 DEF Failed
<1>8. FindData(j, delivered[c], o)
  BY <1>3, <1>7 DEF FindData
<1> QED
  BY <1>2, <1>3, <1>5, <1>6, <1>7, <1>8

(* What holds of a find between its calls.                                 *)
LEMMA FindFacts ==
  ASSUME IInv, NEW c \in Finds
  PROVE  /\ TypeOK /\ StepTyped /\ c \in Handles /\ c \notin Streams /\ c # W
         /\ cursor[c] \in Cursors /\ Life(c, cursor[c], open, held)
         /\ FindData(cursor[c], delivered[c], open)
         /\ delivered[c] \in Seq(Nat \ {0})
         /\ \A i \in DOMAIN delivered[c] : delivered[c][i] = i
         /\ \A d \in Handles : d # c /\ cursor[c].id = cursor[d].id =>
              cursor[c].id = 0
         /\ Calling(call, cursor, held, in_exhaust)
<1>1. TypeOK /\ StepTyped
  BY StepTypes DEF IInv
<1>2. c \in Handles /\ c \notin Streams /\ c # W
  BY StreamHandle DEF Handles
<1>3. cursor[c] \in Cursors /\ delivered[c] \in Seq(Nat \ {0})
  BY <1>1, <1>2 DEF TypeOK
<1>4. Life(c, cursor[c], open, held) /\ FindData(cursor[c], delivered[c], open)
  BY <1>2 DEF IInv
<1>5. \A i \in DOMAIN delivered[c] : delivered[c][i] = i
  BY <1>4 DEF FindData
<1>6. Calling(call, cursor, held, in_exhaust)
  BY DEF IInv
<1> QED
  BY <1>1, <1>2, <1>3, <1>4, <1>5, <1>6 DEF IInv, Distinct

(* mongoc_cursor_next of a find                                            *)
LEMMA FindNextPreserves == ASSUME IInv, FindNext, UNCHANGED stream PROVE IInv'
<1>1. PICK c \in Finds : cursor[c].live /\ EnterNext(c)
  BY DEF FindNext
<1> DEFINE k == cursor[c]
<1>2. /\ call.at = "idle" /\ open' = open /\ held' = held
      /\ in_exhaust' = in_exhaust
      /\ UNCHANGED <<streaming, history, now, faults, crossed>>
  BY <1>1 DEF FindNext, EnterNext, serverVars
<1>3. /\ TypeOK /\ StepTyped /\ c \in Handles /\ c \notin Streams /\ c # W
      /\ k \in Cursors /\ Life(c, k, open, held)
      /\ FindData(k, delivered[c], open)
      /\ delivered[c] \in Seq(Nat \ {0})
      /\ \A d \in Handles : d # c /\ k.id = cursor[d].id => k.id = 0
      /\ Calling(call, cursor, held, in_exhaust)
  BY FindFacts
<1>4. call = Idle /\ ~OfStream(call) /\ call.doc = 0 /\ call \in Calls /\ ~call.resume
  BY <1>2, <1>3, IdleIs DEF Calling
<1>5. /\ Failed(k) => Returns(c, k, 0)
      /\ ~Failed(k) /\ (k.state = "Done" \/ (in_exhaust /\ ~k.in_exhaust)) =>
           Returns(c, [k EXCEPT !.error = Local], 0)
      /\ ~Failed(k) /\ ~(k.state = "Done" \/ (in_exhaust /\ ~k.in_exhaust)) =>
           Proceed(c, k, FALSE)
  BY <1>1 DEF EnterNext
<1>6. k.live
  BY <1>1
<1>7. \A d \in Handles : d # c => Keeps(open, open', cursor[d].id)
  BY <1>2, KeepsAll
<1>8. held \ {c} \subseteq held'
  BY <1>2
<1>9. call' = Idle => StepTyped' /\ Calling(call', cursor', held', in_exhaust')
                      /\ ~OfStream(call')
  BY <1>2, <1>3, IdleIs DEF StepTyped
<1> HIDE DEF k
<1>10. CASE Failed(k)
  <2>1. /\ cursor' = [cursor EXCEPT ![c] = k] /\ call' = Idle
        /\ delivered' = [delivered EXCEPT ![c] = delivered[c]]
    BY <1>3, <1>5, <1>10, FindReturns
  <2> QED
    BY <1>2, <1>3, <1>4, <1>7, <1>8, <1>9, <2>1, FindStep
<1>11. CASE ~Failed(k) /\ (k.state = "Done" \/ (in_exhaust /\ ~k.in_exhaust))
  <2> DEFINE j == [k EXCEPT !.error = Local]
  <2>1. /\ cursor' = [cursor EXCEPT ![c] = j] /\ call' = Idle
        /\ delivered' = [delivered EXCEPT ![c] = delivered[c]]
    BY <1>3, <1>5, <1>11, FindReturns
  <2>2. j \in Cursors
    BY <1>3, RepliesTyped DEF Cursors
  <2>3. SameCursor(j, k) /\ j.state = k.state /\ j.batch = k.batch /\ j.error = Local
    BY <1>3 DEF Cursors, SameCursor
  <2> HIDE DEF j
  <2>4. Failed(j)
    BY <2>3, RepliesTyped DEF Failed
  <2>5. Life(c, j, open', held') /\ j.id = k.id
    <3>1. /\ j.state # "InBatch" => j.batch = << >>
          /\ j.state = "EndOfBatch" => k.id # 0
      BY <2>3, <1>3 DEF Life
    <3>2. Life(c, j, open, held)
      BY <1>3, <1>6, <2>2, <2>3, <3>1, LifeSame
    <3> QED
      BY <3>2, <1>2, <2>3 DEF SameCursor
  <2>6. FindData(j, delivered[c], open')
    BY <1>3, <2>3, <2>4 DEF FindData
  <2>7. /\ delivered[c] \in Seq(Nat \ {0})
        /\ \A d \in Handles : d # c /\ j.id = cursor[d].id => j.id = 0
    BY <1>3, <2>5
  <2> QED
    BY <1>2, <1>4, <1>7, <1>8, <1>9, <2>1, <2>2, <2>5, <2>6, <2>7, FindStep
<1>12. CASE ~Failed(k) /\ ~(k.state = "Done" \/ (in_exhaust /\ ~k.in_exhaust))
  <2>1. PICK j \in Cursors, D \in Seq(Nat \ {0}) :
           /\ cursor' = [cursor EXCEPT ![c] = j]
           /\ delivered' = [delivered EXCEPT ![c] = D]
           /\ SameCursor(j, k) /\ j.error = k.error
           /\ Life(c, j, open, held) /\ FindData(j, D, open)
           /\ call' = Idle \/ AsksFor(c, j)
    BY <1>3, <1>5, <1>6, <1>12, ProceedFind
  <2>2. j.id = k.id /\ j.live /\ ~Failed(j)
    BY <2>1, <1>6, <1>12 DEF SameCursor, Failed
  <2>3. cursor'[c] = j
    BY <2>1, <1>3 DEF TypeOK
  <2>4. ASSUME AsksFor(c, j)
        PROVE  StepTyped' /\ Calling(call', cursor', held', in_exhaust')
               /\ ~OfStream(call')
    <3>1. call' \in Calls /\ call'.at = "fetch" /\ call'.c = c
      BY <1>3, <1>4, <2>4, AskingIs
    <3>2. Calling(call', cursor', held', in_exhaust')
      BY <1>3, <1>4, <2>2, <2>3, <2>4, CallingAsks
    <3>3. StepTyped'
      BY <1>2, <1>3, <3>1 DEF StepTyped
    <3> QED
      BY <3>1, <3>2, <3>3, <1>3 DEF OfStream, StreamPoints
  <2>5. StepTyped' /\ Calling(call', cursor', held', in_exhaust')
        /\ ~OfStream(call')
    BY <2>1, <2>4, <1>9
  <2>6. /\ \A d \in Handles : d # c /\ j.id = cursor[d].id => j.id = 0
        /\ Life(c, j, open', held') /\ FindData(j, D, open')
    BY <1>2, <1>3, <2>1, <2>2
  <2> QED
    BY <1>2, <1>4, <1>7, <1>8, <2>1, <2>5, <2>6, FindStep
<1> QED
  BY <1>10, <1>11, <1>12

----------------------------------------------------------------------------
(* The data of the stream depends on little of its cursor and the call.    *)
LEMMA StreamDataSame ==
  ASSUME NEW j, NEW k, NEW st, NEW o, NEW p, NEW h, NEW nw, NEW cl, NEW cm,
         NEW ex, StreamData(k, st, o, h, nw, cl, ex), Keeps(o, p, k.id),
         j.live = k.live, j.id = k.id, j.pbrt = k.pbrt, j.batch = k.batch,
         ~Failed(j) => ~Failed(k), cm.resume => cl.resume,
         Taken(st, cm) = Taken(st, cl),
         cm.at \in {"aggregate", "reselect"} =>
           cl.at \in {"aggregate", "reselect"}
  PROVE  StreamData(j, st, p, h, nw, cm, ex)
<1>1. NotStarted(st, nw, cl) => NotStarted(st, nw, cm)
  BY DEF NotStarted
<1>2. AtTime(k, st, h, nw, cl, ex) => AtTime(j, st, h, nw, cm, ex)
  BY DEF AtTime
<1>3. Follows(k, st, h, nw, cl) => Follows(j, st, h, nw, cm)
  BY DEF Follows
<1>4. j.id \in DOMAIN p /\ ~Failed(j) => p[j.id].pos = j.pbrt
  BY DEF StreamData, Keeps
<1> QED
  BY <1>1, <1>2, <1>3, <1>4 DEF StreamData

(* A command of the stream's cursor goes on.                               *)
LEMMA StreamStateCommand ==
  ASSUME NEW j, NEW k, NEW st, NEW cl, NEW cm, NEW hl, NEW hm, NEW ex,
         StreamState(cl, k, hl, st, ex), OfStream(cl), k.live, j.live = k.live,
         cl.at \notin {"discard", "kill", "destroyed"},
         cm.at \in Commands, cm.c = W, cm.resume = cl.resume
  PROVE  StreamState(cm, j, hm, st, ex)
BY DEF StreamState, OfStream, StreamPoints, Making, Commands

(* What a command may rely on.                                             *)
LEMMA CommandFacts ==
  ASSUME IInv, call.at \in Commands
  PROVE  LET c == call.c
             k == cursor[call.c]
         IN  /\ TypeOK /\ StepTyped /\ c \in Handles /\ k \in Cursors
             /\ Life(c, k, open, held) /\ k.live /\ ~Failed(k)
             /\ k.batch = << >> /\ k.state # "InBatch" /\ k.state # "Done"
             /\ Asking(call, k, in_exhaust)
             /\ call.at \in {"send", "select"} => Sending(call, k, held)
             /\ call.doc = 0 /\ call \in Calls
             /\ c # W => ~OfStream(call) /\ ~call.resume /\ c \in Finds
             /\ c = W => OfStream(call)
             /\ \A d \in Handles : d # c /\ k.id = cursor[d].id => k.id = 0
<1> DEFINE c == call.c
           k == cursor[c]
<1>1. TypeOK /\ StepTyped /\ Calling(call, cursor, held, in_exhaust)
  BY StepTypes DEF IInv
<1>2. /\ Asking(call, k, in_exhaust)
      /\ call.at \in {"send", "select"} => Sending(call, k, held)
      /\ call.doc = 0 /\ (~OfStream(call) => ~call.resume)
  BY <1>1 DEF Calling, Commands
<1>3. c \in Handles /\ k.live /\ ~Failed(k) /\ k.state \in {"Unprimed", "EndOfBatch"}
  BY <1>2 DEF Asking
<1>4. k \in Cursors /\ call \in Calls
  BY <1>1, <1>3 DEF TypeOK
<1>5. Life(c, k, open, held)
  BY <1>3 DEF IInv
<1>6. k.batch = << >>
  BY <1>3, <1>5 DEF Life
<1>7. c # W => ~OfStream(call) /\ c \in Finds
  BY <1>3, StreamHandle DEF OfStream, Commands, StreamPoints
<1>8. c = W => OfStream(call)
  BY DEF OfStream
<1>9. \A d \in Handles : d # c /\ k.id = cursor[d].id => k.id = 0
  BY <1>3 DEF IInv, Distinct
<1> QED
  BY <1>1, <1>2, <1>3, <1>4, <1>5, <1>6, <1>7, <1>8, <1>9

(* mongoc_cursor_next of the stream's cursor returns.                      *)
LEMMA StreamReturns ==
  ASSUME call \in Calls, NEW k, NEW doc \in Nat, Returns(W, k, doc)
  PROVE  /\ cursor' = [cursor EXCEPT ![W] = k] /\ delivered' = delivered
         /\ call' \in Calls /\ call'.at = "advanced" /\ call'.c = W
         /\ call'.doc = doc /\ call'.resume = call.resume
         /\ call'.timeouts = call.timeouts /\ call'.resumes = call.resumes
<1>1. W \notin Finds /\ W \in Handles
  BY StreamHandle
<1>2. /\ cursor' = [cursor EXCEPT ![W] = k] /\ delivered' = delivered
      /\ call' = [call EXCEPT !.at = "advanced", !.c = W, !.doc = doc]
  BY <1>1 DEF Returns
<1> QED
  BY <1>1, <1>2 DEF Calls

(* A call at its end relies on nothing.                                    *)
LEMMA CallingStream ==
  ASSUME NEW cl, cl.at \in StreamPoints, cl.at # "advanced" => cl.doc = 0
  PROVE  \A cur, hl, ex : Calling(cl, cur, hl, ex)
BY DEF Calling, StreamPoints, Commands, OfStream

(* A call returns to the loop of the stream.                               *)
LEMMA StreamStateAdvanced ==
  ASSUME NEW j, NEW k, NEW st, NEW cl, NEW cm, NEW hl, NEW hm, NEW ex, NEW ey,
         StreamState(cl, k, hl, st, ex), k.live, j.live = k.live,
         st.live, ~st.err,
         cm.at = "advanced", cm.c = W, cm.resume = cl.resume,
         cm.doc # 0 => ~Failed(j),
         cm.doc = 0 /\ ~ey => j.batch = << >>
  PROVE  StreamState(cm, j, hm, st, ey)
BY DEF StreamState, OfStream, StreamPoints, Making, Commands

----------------------------------------------------------------------------
(* The stream's cursor fails.                                              *)
LEMMA FailsStream ==
  ASSUME call \in Calls, NEW k \in Cursors, NEW o, NEW hl, NEW r \in Replies,
         ~r.ok, k.live, Life(W, k, o, hl), k.batch = << >>, Fails(W, k, r)
  PROVE  \E j \in Cursors :
           /\ cursor' = [cursor EXCEPT ![W] = j] /\ delivered' = delivered
           /\ SameCursor(j, k) /\ Failed(j) /\ j.error = r
           /\ j.state = "Done" /\ j.batch = << >>
           /\ j.timed_out = k.timed_out /\ Life(W, j, o, hl)
           /\ call' \in Calls /\ call'.at = "advanced" /\ call'.c = W
           /\ call'.doc = 0 /\ call'.resume = call.resume
           /\ call'.timeouts = call.timeouts /\ call'.resumes = call.resumes
<1> DEFINE j == [k EXCEPT !.state = "Done", !.error = r]
<1>1. j \in Cursors
  BY DEF Cursors
<1>2. /\ SameCursor(j, k) /\ j.error = r /\ j.state = "Done"
      /\ j.batch = k.batch /\ j.timed_out = k.timed_out
  BY DEF Cursors, SameCursor
<1>3. Returns(W, j, 0)
  BY StreamHandle DEF Fails
<1> HIDE DEF j
<1>4. /\ cursor' = [cursor EXCEPT ![W] = j] /\ delivered' = delivered
      /\ call' \in Calls /\ call'.at = "advanced" /\ call'.c = W
      /\ call'.doc = 0 /\ call'.resume = call.resume
      /\ call'.timeouts = call.timeouts /\ call'.resumes = call.resumes
  BY <1>3, StreamReturns
<1>5. Life(W, j, o, hl)
  BY <1>1, <1>2, LifeSame
<1>6. Failed(j)
  BY <1>2 DEF Failed
<1> QED
  BY <1>1, <1>2, <1>4, <1>5, <1>6

(* What the stream may rely on.                                            *)
LEMMA StreamFacts ==
  ASSUME IInv
  PROVE  /\ TypeOK /\ StepTyped /\ W \in Handles /\ cursor[W] \in Cursors
         /\ Life(W, cursor[W], open, held)
         /\ \A d \in Handles : d # W /\ cursor[W].id = cursor[d].id =>
              cursor[W].id = 0
         /\ Calling(call, cursor, held, in_exhaust)
         /\ StreamState(call, cursor[W], held, stream, in_exhaust)
         /\ StreamData(cursor[W], stream, open, history, now, call, in_exhaust)
         /\ stream \in StreamRecords /\ call \in Calls
         /\ now \in Nat
<1>1. TypeOK /\ StepTyped
  BY StepTypes DEF IInv
<1>2. W \in Handles
  BY StreamHandle
<1>3. cursor[W] \in Cursors /\ stream \in StreamRecords /\ call \in Calls
  BY <1>1, <1>2 DEF TypeOK
<1>4. Life(W, cursor[W], open, held)
  BY <1>2 DEF IInv
<1>5. now \in Nat
  <2>1. Len(history) \in Nat
    BY <1>1, CursorServerAssumption DEF TypeOK
  <2> QED
    BY <1>1, <2>1 DEF TypeOK
<1> QED
  BY <1>1, <1>2, <1>3, <1>4, <1>5 DEF IInv, Distinct

(* A failure is counted.                                                   *)
LEMMA FaultTyped ==
  ASSUME TypeOK, Fault
  PROVE  faults' \in 0..MaxFaults /\ faults' = faults + 1
BY CursorServerAssumption DEF TypeOK, Fault

(* A command fails before it is sent.                                      *)
LEMMA CommandFails ==
  ASSUME IInv, call.at \in Commands, Fault,
         Fails(call.c, cursor[call.c], Local),
         UNCHANGED <<open, streaming, history, now, in_exhaust, held, crossed,
                     stream>>
  PROVE  IInv'
<1> DEFINE c == call.c
           k == cursor[c]
<1>1. /\ TypeOK /\ StepTyped /\ c \in Handles /\ k \in Cursors
      /\ Life(c, k, open, held) /\ k.live /\ ~Failed(k)
      /\ k.batch = << >>
      /\ call.doc = 0 /\ call \in Calls
      /\ c # W => ~OfStream(call) /\ ~call.resume /\ c \in Finds
      /\ c = W => OfStream(call)
      /\ \A d \in Handles : d # c /\ k.id = cursor[d].id => k.id = 0
  BY CommandFacts
<1>2. faults' \in 0..MaxFaults
  BY <1>1, FaultTyped
<1>3. Local \in Replies /\ ~Local.ok
  BY RepliesTyped
<1>4. \A d \in Handles : d # c => Keeps(open, open', cursor[d].id)
  BY KeepsAll
<1>5. open' = open /\ held' = held /\ held \ {c} \subseteq held'
  OBVIOUS
<1>6. Fails(c, k, Local)
  OBVIOUS
<1> HIDE DEF c, k
<1>7. CASE c # W
  <2>1. c \in Finds
    BY <1>1, <1>7
  <2>2. \A i \in DOMAIN delivered[c] : delivered[c][i] = i
    BY <2>1, FindFacts
  <2>3. PICK j \in Cursors, D \in Seq(Nat \ {0}) :
           /\ cursor' = [cursor EXCEPT ![c] = j]
           /\ delivered' = [delivered EXCEPT ![c] = D]
           /\ SameCursor(j, k)
           /\ Life(c, j, open, held) /\ FindData(j, D, open) /\ call' = Idle
    BY <1>1, <1>6, <2>1, <2>2, FailsFind
  <2>4. StepTyped'
    BY <1>1, <1>2, <2>3, IdleIs DEF StepTyped
  <2>5. ~OfStream(call') /\ Calling(call', cursor', held', in_exhaust')
    BY <2>3, IdleIs
  <2>6. /\ \A d \in Handles : d # c /\ j.id = cursor[d].id => j.id = 0
        /\ Life(c, j, open', held') /\ FindData(j, D, open') /\ ~OfStream(call)
    BY <1>1, <1>5, <1>7, <2>3 DEF SameCursor
  <2> QED
    BY <1>4, <1>5, <2>1, <2>3, <2>4, <2>5, <2>6, FindStep
<1>8. CASE c = W
  <2>1. PICK j \in Cursors :
           /\ cursor' = [cursor EXCEPT ![W] = j] /\ delivered' = delivered
           /\ SameCursor(j, k) /\ Failed(j) /\ j.batch = << >>
           /\ Life(W, j, open, held)
           /\ call' \in Calls /\ call'.at = "advanced" /\ call'.c = W
           /\ call'.doc = 0 /\ call'.resume = call.resume
    BY <1>1, <1>3, <1>6, <1>8, FailsStream
  <2>2. /\ StreamState(call, k, held, stream, in_exhaust)
        /\ StreamData(k, stream, open, history, now, call, in_exhaust)
        /\ stream \in StreamRecords
    BY StreamFacts, <1>8 DEF k
  <2>3. stream.live /\ ~stream.err
    BY <1>1, <1>8, <2>2 DEF StreamState, Commands
  <2>4. StreamState(call', j, held', stream, in_exhaust')
    BY <1>1, <2>1, <2>2, <2>3, StreamStateAdvanced DEF SameCursor
  <2>5. StreamData(j, stream, open', history, now, call', in_exhaust')
    <3>1. Taken(stream, call') = Taken(stream, call)
      BY <1>1, <2>1 DEF Taken
    <3>2. j.live = k.live /\ j.id = k.id /\ j.pbrt = k.pbrt /\ j.batch = k.batch
      BY <1>1, <2>1 DEF SameCursor
    <3>3. Keeps(open, open', k.id)
      BY KeepsAll
    <3> QED
      BY <2>1, <2>2, <3>1, <3>2, <3>3, StreamDataSame
  <2>6. Calling(call', cursor', held', in_exhaust')
    BY <2>1, CallingStream DEF StreamPoints
  <2>7. StepTyped'
    BY <1>1, <1>2, <2>1 DEF StepTyped
  <2>8. /\ \A d \in Handles : d # W /\ j.id = cursor[d].id => j.id = 0
        /\ \A d \in Handles : d # W => Keeps(open, open', cursor[d].id)
        /\ Life(W, j, open', held') /\ held \ {W} \subseteq held'
    BY <1>1, <1>4, <1>5, <1>8, <2>1 DEF SameCursor
  <2> QED
    BY <2>1, <2>2, <2>4, <2>5, <2>6, <2>7, <2>8, StreamStep
<1> QED
  BY <1>7, <1>8

(* _mongoc_cursor_run_command selects no server                            *)
LEMMA FetchFailsPreserves ==
  ASSUME IInv, FetchFails, UNCHANGED stream PROVE IInv'
BY CommandFails DEF FetchFails, Commands

(* no server is selected for a retry                                       *)
LEMMA RetrySelectFailsPreserves ==
  ASSUME IInv, RetrySelectFails, UNCHANGED stream PROVE IInv'
BY CommandFails DEF RetrySelectFails, Commands

(* A command goes on: it is sent, or another attempt follows.              *)
LEMMA CommandGoesOn ==
  ASSUME IInv, call.at \in Commands, NEW j \in Cursors,
         cursor' = [cursor EXCEPT ![call.c] = j],
         j.live, j.id = cursor[call.c].id, j.pbrt = cursor[call.c].pbrt,
         j.batch = cursor[call.c].batch, j.error = cursor[call.c].error,
         j.state = cursor[call.c].state, j.opt = cursor[call.c].opt,
         j.explicit = cursor[call.c].explicit,
         j.in_exhaust = cursor[call.c].in_exhaust,
         call'.at \in {"send", "select"}, call'.c = call.c,
         call'.cmd = call.cmd, call'.refreshed = call.refreshed,
         call'.doc = call.doc, call'.resume = call.resume,
         Sending(call', j, held'), held \subseteq held', StepTyped',
         Shrinks(open, open'), call.c = W => in_exhaust' = in_exhaust,
         UNCHANGED <<history, now, delivered, stream>>
  PROVE  IInv'
<1> DEFINE c == call.c
           k == cursor[c]
<1>1. /\ TypeOK /\ c \in Handles /\ k \in Cursors
      /\ Life(c, k, open, held) /\ k.live /\ ~Failed(k)
      /\ Asking(call, k, in_exhaust)
      /\ call.doc = 0 /\ call \in Calls
      /\ c # W => ~OfStream(call) /\ ~call.resume /\ c \in Finds
      /\ c = W => OfStream(call)
      /\ \A d \in Handles : d # c /\ k.id = cursor[d].id => k.id = 0
  BY CommandFacts
<1>2. \A i : Keeps(open, open', i)
  BY DEF Keeps, Shrinks
<1>3. /\ call'.c = c /\ call'.at \in {"send", "select"} /\ call'.doc = 0
      /\ call'.at \in Commands
      /\ call'.resume = call.resume
      /\ j.id = k.id /\ j.pbrt = k.pbrt /\ j.batch = k.batch
      /\ j.error = k.error /\ j.state = k.state
      /\ Sending(call', j, held')
  BY <1>1 DEF Commands
<1>4. cursor'[c] = j
  BY <1>1 DEF TypeOK
<1>5. Asking(call', j, in_exhaust')
  <2>1. c \in Streams <=> c = W
    BY StreamHandle
  <2> QED
    BY <1>1, <1>3, <2>1 DEF Asking, Failed
<1>6. Calling(call', cursor', held', in_exhaust')
  <2>1. ~OfStream(call') => ~call'.resume
    BY <1>1, <1>3 DEF OfStream
  <2> QED
    BY <1>3, <1>4, <1>5, <2>1 DEF Calling
<1>7. Life(c, j, open', held')
  <2>1. k.id \in DOMAIN open' => k.id \in DOMAIN open /\ open'[k.id] = open[k.id]
    BY <1>2 DEF Keeps
  <2>2. j.sess = c /\ c \in held' /\ j.server \in Servers
    BY <1>3 DEF Sending
  <2> QED
    BY <1>1, <1>3, <2>1, <2>2 DEF Life
<1>8. /\ \A d \in Handles : d # c => Keeps(open, open', cursor[d].id)
      /\ \A d \in Handles : d # c /\ j.id = cursor[d].id => j.id = 0
      /\ held \ {c} \subseteq held' /\ cursor' = [cursor EXCEPT ![c] = j]
  BY <1>1, <1>2, <1>3
<1> HIDE DEF c, k
<1>9. CASE c # W
  <2>1. c \in Finds
    BY <1>1, <1>9
  <2>2. FindData(k, delivered[c], open) /\ delivered[c] \in Seq(Nat \ {0})
    BY <2>1, FindFacts DEF k
  <2>3. FindData(k, delivered[c], open')
    BY <2>2, <1>2, FindDataFrame
  <2>4. FindData(j, delivered[c], open')
    BY <2>3, <1>3 DEF FindData, Failed
  <2>5. delivered' = [delivered EXCEPT ![c] = delivered[c]]
    BY <1>1, <2>1 DEF TypeOK
  <2>6. ~OfStream(call) /\ ~OfStream(call')
    BY <1>1, <1>3, <1>9 DEF OfStream, Commands, StreamPoints
  <2> QED
    BY <1>6, <1>7, <1>8, <2>1, <2>2, <2>4, <2>5, <2>6, FindStep
<1>10. CASE c = W
  <2>1. /\ StreamState(call, k, held, stream, in_exhaust)
        /\ StreamData(k, stream, open, history, now, call, in_exhaust)
        /\ stream \in StreamRecords
    BY StreamFacts, <1>10 DEF k
  <2>2. in_exhaust' = in_exhaust
    BY <1>10 DEF c
  <2>3. StreamState(call', j, held', stream, in_exhaust')
    <3>1. call.at \notin {"discard", "kill", "destroyed"}
      BY DEF Commands
    <3>2. j.live = k.live
      BY <1>1
    <3> QED
      BY <1>1, <1>3, <1>10, <2>1, <2>2, <3>1, <3>2, StreamStateCommand
  <2>4. StreamData(j, stream, open', history, now, call', in_exhaust')
    <3>1. Taken(stream, call') = Taken(stream, call)
      BY <1>1, <1>3 DEF Taken
    <3>2. j.live = k.live /\ (~Failed(j) => ~Failed(k))
      BY <1>1
    <3> QED
      BY <1>2, <1>3, <2>1, <2>2, <3>1, <3>2, StreamDataSame
  <2> QED
    BY <1>6, <1>7, <1>8, <1>10, <2>1, <2>3, <2>4, StreamStep
<1> QED
  BY <1>9, <1>10

(* Three fields of a cursor are assigned.                                  *)
LEMMA AssignedAtOnce ==
  ASSUME cursor \in [Handles -> Cursors], NEW c \in Handles, NEW s, NEW t, NEW u
  PROVE  [cursor EXCEPT ![c].server = s, ![c].sess = t, ![c].timed_out = u] =
         [cursor EXCEPT ![c] =
            [cursor[c] EXCEPT !.server = s, !.sess = t, !.timed_out = u]]
OBVIOUS

(* _mongoc_cursor_run_command selects a server and takes a session         *)
LEMMA FetchPreserves == ASSUME IInv, Fetch, UNCHANGED stream PROVE IInv'
<1> DEFINE c == call.c
           k == cursor[c]
<1>1. /\ TypeOK /\ StepTyped /\ c \in Handles /\ k \in Cursors
      /\ Life(c, k, open, held) /\ k.live /\ call \in Calls
      /\ Asking(call, k, in_exhaust)
  BY CommandFacts DEF Fetch, Commands
<1>2. PICK s \in IF k.server # 0 THEN {k.server} ELSE Servers :
        /\ cursor' = [cursor EXCEPT ![c].server = s, ![c].sess = c,
                                    ![c].timed_out = FALSE]
        /\ held' = held \cup {c}
        /\ call' = [call EXCEPT !.at = "send",
                      !.loop = NewLoop(Eligibility(call.cmd), s)]
  BY DEF Fetch
<1>3. s \in Servers
  BY <1>1, <1>2 DEF Cursors
<1> DEFINE j == [k EXCEPT !.server = s, !.sess = c, !.timed_out = FALSE]
           loop == NewLoop(Eligibility(call.cmd), s)
<1>4. cursor' = [cursor EXCEPT ![c] = j]
  BY <1>1, <1>2, AssignedAtOnce DEF TypeOK
<1>5. j \in Cursors
  BY <1>1, <1>3 DEF Cursors
<1>6. /\ j.live = k.live /\ j.id = k.id /\ j.pbrt = k.pbrt
      /\ j.batch = k.batch /\ j.error = k.error /\ j.state = k.state
      /\ j.opt = k.opt /\ j.explicit = k.explicit
      /\ j.in_exhaust = k.in_exhaust /\ j.server = s /\ j.sess = c
  BY <1>1 DEF Cursors
<1>7. Eligibility(call.cmd) \in Eligibilities
      /\ (call.cmd = "getMore" => Eligibility(call.cmd) \in {"none", "overload_only"})
  BY DEF Eligibility, Eligibilities
<1>8. loop \in CallLoops /\ loop.server = s /\ loop.elig = Eligibility(call.cmd)
  BY <1>3, <1>7, NewLoopTyped
<1> HIDE DEF loop, j
<1>9. call' = [call EXCEPT !.at = "send", !.loop = loop]
  BY <1>2 DEF loop
<1>10. /\ call' \in Calls /\ call'.at = "send" /\ call'.c = call.c
       /\ call'.cmd = call.cmd /\ call'.refreshed = call.refreshed
       /\ call'.doc = call.doc /\ call'.resume = call.resume
       /\ call'.loop = loop
  BY <1>1, <1>8, <1>9 DEF Calls, CallLoops
<1>11. Sending(call', j, held')
  BY <1>2, <1>3, <1>6, <1>7, <1>8, <1>10 DEF Sending
<1>12. /\ UNCHANGED <<open, streaming, history, now, faults, in_exhaust,
                      delivered, crossed>>
       /\ held \subseteq held' /\ held' \subseteq Handles
  BY <1>1, <1>2 DEF Fetch, serverVars, TypeOK
<1>13. StepTyped'
  BY <1>1, <1>10, <1>12 DEF StepTyped
<1>14. Shrinks(open, open')
  BY <1>12 DEF Shrinks
<1>15. call.at \in Commands
  BY DEF Fetch, Commands
<1> QED
  BY <1>1, <1>4, <1>5, <1>6, <1>10, <1>11, <1>12, <1>13, <1>14, <1>15,
     CommandGoesOn

(* _retryable_cursor_commmand_select_retry_server                          *)
LEMMA RetrySelectPreserves ==
  ASSUME IInv, RetrySelect, UNCHANGED stream PROVE IInv'
<1> DEFINE c == call.c
           k == cursor[c]
<1>0. call.at \in Commands /\ call.at \in {"send", "select"}
  BY DEF RetrySelect, Commands
<1>1. /\ TypeOK /\ StepTyped /\ c \in Handles /\ k \in Cursors
      /\ k.live /\ call \in Calls /\ Sending(call, k, held)
  BY <1>0, CommandFacts
<1>2. PICK s \in Candidates(call.loop.deprioritized) :
        /\ cursor' = [cursor EXCEPT ![c].server = s]
        /\ call' = [call EXCEPT !.at = "send", !.loop.server = s,
                      !.moved = IF k.id = 0 \/ k.server = s THEN @ ELSE @ + 1]
  BY DEF RetrySelect
<1>3. s \in Servers
  BY <1>2, CandidatesTyped
<1> DEFINE j == [k EXCEPT !.server = s]
           loop == [call.loop EXCEPT !.server = s]
           moved == IF k.id = 0 \/ k.server = s THEN call.moved
                                               ELSE call.moved + 1
<1>4. cursor' = [cursor EXCEPT ![c] = j]
  BY <1>1, <1>2 DEF TypeOK
<1>5. j \in Cursors
  BY <1>1, <1>3 DEF Cursors
<1>6. /\ j.live = k.live /\ j.id = k.id /\ j.pbrt = k.pbrt
      /\ j.batch = k.batch /\ j.error = k.error /\ j.state = k.state
      /\ j.opt = k.opt /\ j.explicit = k.explicit
      /\ j.in_exhaust = k.in_exhaust /\ j.server = s /\ j.sess = k.sess
  BY <1>1 DEF Cursors
<1>7. call.loop \in CallLoops
  BY <1>1 DEF Calls, CallLoops
<1>8. loop \in CallLoops /\ loop.server = s /\ loop.elig = call.loop.elig
  BY <1>3, <1>7 DEF CallLoops
<1>9. /\ call' = [call EXCEPT !.at = "send", !.loop = loop, !.moved = moved]
      /\ moved \in Nat
  BY <1>1, <1>2 DEF Calls
<1> HIDE DEF loop, j, moved
<1>10. /\ call' \in Calls /\ call'.at = "send" /\ call'.c = call.c
       /\ call'.cmd = call.cmd /\ call'.refreshed = call.refreshed
       /\ call'.doc = call.doc /\ call'.resume = call.resume
       /\ call'.loop = loop
  BY <1>1, <1>8, <1>9 DEF Calls, CallLoops
<1>11. /\ UNCHANGED <<open, streaming, history, now, faults, in_exhaust,
                      held, delivered, crossed>>
  BY DEF RetrySelect, serverVars
<1>12. Sending(call', j, held')
  BY <1>1, <1>3, <1>6, <1>8, <1>10, <1>11 DEF Sending
<1>13. StepTyped'
  BY <1>1, <1>10, <1>11 DEF StepTyped
<1>14. Shrinks(open, open')
  BY <1>11 DEF Shrinks
<1> QED
  BY <1>0, <1>1, <1>4, <1>5, <1>6, <1>10, <1>11, <1>12, <1>13, <1>14,
     CommandGoesOn

----------------------------------------------------------------------------
(* The types of what a server and the client's flags are after a step.     *)
ServerTyped ==
  /\ OpenType(open) /\ streaming \in [Servers -> Nat]
  /\ faults \in 0..MaxFaults
  /\ in_exhaust \in BOOLEAN /\ crossed \in BOOLEAN

(* A step about cursor id keeps the others.                                *)
LEMMA TouchesKeeps ==
  ASSUME NEW o, NEW p, NEW id, Touches(o, p, id), NEW i, i # id
  PROVE  Keeps(o, p, i)
BY DEF Touches, Keeps

(* A live cursor whose server cursor was touched.                          *)
LEMMA LifeTouched ==
  ASSUME NEW c, NEW k, NEW o, NEW p, NEW hl, Life(c, k, o, hl), k.live,
         Touches(o, p, k.id)
  PROVE  Life(c, k, p, hl)
<1>1. k.id \in DOMAIN o => o[k.id].sess = c /\ o[k.id].kind = Kind(c)
  BY DEF Life
<1>2. k.id \in DOMAIN p => p[k.id].sess = c /\ p[k.id].kind = Kind(c)
  BY <1>1 DEF Touches
<1> QED
  BY <1>2 DEF Life

(* The connection may change what the client knows of a timeout.           *)
LEMMA TimedOut ==
  ASSUME NEW k \in Cursors, NEW t \in BOOLEAN
  PROVE  LET j == [k EXCEPT !.timed_out = t]
         IN  /\ j \in Cursors /\ SameCursor(j, k) /\ j.state = k.state
             /\ j.batch = k.batch /\ j.error = k.error /\ j.timed_out = t
BY DEF Cursors, SameCursor

(* An attempt fails: another follows, or the command fails.                *)
LEMMA AttemptFails ==
  ASSUME IInv, call.at = "send", NEW t \in BOOLEAN, NEW a,
         a.reply \in Replies, ~a.reply.ok,
         AfterAttempt([cursor[call.c] EXCEPT !.timed_out = t], a),
         Touches(open, open', cursor[call.c].id),
         Retries(call.loop, a.reply) => Shrinks(open, open'),
         call.c = W => in_exhaust' = in_exhaust, ServerTyped',
         UNCHANGED <<history, now, stream>>
  PROVE  IInv'
<1> DEFINE c == call.c
           k == cursor[c]
           j == [k EXCEPT !.timed_out = t]
<1>0. call.at \in Commands /\ call.at \in {"send", "select"}
  BY DEF Commands
<1>1. /\ TypeOK /\ StepTyped /\ c \in Handles /\ k \in Cursors
      /\ Life(c, k, open, held) /\ k.live /\ ~Failed(k)
      /\ k.batch = << >> /\ call.doc = 0 /\ call \in Calls
      /\ Sending(call, k, held)
      /\ c # W => ~OfStream(call) /\ ~call.resume /\ c \in Finds
      /\ c = W => OfStream(call)
      /\ \A d \in Handles : d # c /\ k.id = cursor[d].id => k.id = 0
  BY <1>0, CommandFacts
<1>2. /\ j \in Cursors /\ SameCursor(j, k) /\ j.state = k.state
      /\ j.batch = k.batch /\ j.error = k.error /\ j.timed_out = t
  BY <1>1, TimedOut
<1>3. j.live /\ j.id = k.id /\ j.pbrt = k.pbrt /\ j.opt = k.opt
      /\ j.explicit = k.explicit /\ j.in_exhaust = k.in_exhaust
      /\ j.server = k.server /\ j.sess = k.sess
  BY <1>1, <1>2 DEF SameCursor
<1>4. AfterAttempt(j, a)
  OBVIOUS
<1>5. ASSUME Retries(call.loop, a.reply) PROVE IInv'
  <2> DEFINE loop == NextAttempt(call.loop, a.reply)
  <2>1. /\ cursor' = [cursor EXCEPT ![c] = j]
        /\ call' = [call EXCEPT !.at = "select", !.loop = loop]
        /\ held' = held /\ delivered' = delivered
    BY <1>4, <1>5 DEF AfterAttempt
  <2>2. call.loop \in CallLoops /\ call.loop.server = k.server /\ k.server \in Servers
    BY <1>1 DEF Calls, CallLoops, Sending
  <2>3. loop \in CallLoops /\ loop.server = k.server /\ loop.elig = call.loop.elig
    BY <2>2, NextAttemptTyped
  <2> HIDE DEF loop, j
  <2>4. /\ call' \in Calls /\ call'.at = "select" /\ call'.c = call.c
        /\ call'.cmd = call.cmd /\ call'.refreshed = call.refreshed
        /\ call'.doc = call.doc /\ call'.resume = call.resume
        /\ call'.loop = loop
    BY <1>1, <2>1, <2>3 DEF Calls, CallLoops
  <2>5. Sending(call', j, held')
    BY <1>1, <1>3, <2>1, <2>2, <2>3, <2>4 DEF Sending
  <2>6. StepTyped'
    BY <1>1, <2>1, <2>4 DEF StepTyped, ServerTyped
  <2>7. Shrinks(open, open')
    BY <1>5
  <2> QED
    BY <1>0, <1>1, <1>2, <1>3, <2>1, <2>4, <2>5, <2>6, <2>7, CommandGoesOn
<1>6. ASSUME ~Retries(call.loop, a.reply) PROVE IInv'
  <2>1. Fails(c, j, a.reply) /\ held' = held
    BY <1>4, <1>6 DEF AfterAttempt
  <2> HIDE DEF j
  <2>2. Life(c, j, open', held)
    <3>1. Touches(open, open', k.id)
      OBVIOUS
    <3>2. Life(c, k, open', held)
      BY <1>1, <3>1, LifeTouched
    <3>3. j.state = "EndOfBatch" => k.id # 0
      BY <1>1, <1>2 DEF Life
    <3> QED
      BY <1>1, <1>2, <3>2, <3>3, LifeSame
  <2>3. ASSUME NEW d \in Handles, d # c PROVE Keeps(open, open', cursor[d].id)
    <3>1. CASE cursor[d].id = k.id
      <4>1. cursor[d].id = 0
        BY <1>1, <2>3, <3>1
      <4>2. 0 \notin DOMAIN open'
        BY DEF ServerTyped, OpenType
      <4> QED
        BY <4>1, <4>2 DEF Keeps
    <3>2. CASE cursor[d].id # k.id
      BY <3>2, TouchesKeeps
    <3> QED
      BY <3>1, <3>2
  <2> HIDE DEF c, k
  <2>4. CASE c # W
    <3>1. c \in Finds
      BY <1>1, <2>4
    <3>2. \A i \in DOMAIN delivered[c] : delivered[c][i] = i
      BY <3>1, FindFacts
    <3>3. j.batch = << >>
      BY <1>1, <1>2
    <3>4. PICK l \in Cursors, D \in Seq(Nat \ {0}) :
             /\ cursor' = [cursor EXCEPT ![c] = l]
             /\ delivered' = [delivered EXCEPT ![c] = D]
             /\ SameCursor(l, j)
             /\ Life(c, l, open', held) /\ FindData(l, D, open') /\ call' = Idle
      BY <1>1, <1>2, <1>3, <2>1, <2>2, <3>1, <3>2, <3>3, FailsFind
    <3>5. StepTyped'
      BY <1>1, <2>1, <3>4, IdleIs DEF StepTyped, ServerTyped
    <3>6. ~OfStream(call') /\ Calling(call', cursor', held', in_exhaust')
      BY <3>4, IdleIs
    <3>7. /\ \A d \in Handles : d # c /\ l.id = cursor[d].id => l.id = 0
          /\ Life(c, l, open', held') /\ ~OfStream(call)
          /\ held \ {c} \subseteq held'
      BY <1>1, <1>3, <2>1, <2>4, <3>4 DEF SameCursor
    <3> QED
      BY <2>3, <3>1, <3>4, <3>5, <3>6, <3>7, FindStep
  <2>5. CASE c = W
    <3>1. PICK l \in Cursors :
             /\ cursor' = [cursor EXCEPT ![W] = l] /\ delivered' = delivered
             /\ SameCursor(l, j) /\ Failed(l) /\ l.batch = << >>
             /\ Life(W, l, open', held)
             /\ call' \in Calls /\ call'.at = "advanced" /\ call'.c = W
             /\ call'.doc = 0 /\ call'.resume = call.resume
      BY <1>1, <1>2, <1>3, <2>1, <2>2, <2>5, FailsStream
    <3>2. /\ StreamState(call, k, held, stream, in_exhaust)
          /\ StreamData(k, stream, open, history, now, call, in_exhaust)
          /\ stream \in StreamRecords /\ in_exhaust' = in_exhaust
      BY StreamFacts, <2>5 DEF k, c
    <3>3. stream.live /\ ~stream.err
      BY <1>0, <1>1, <2>5, <3>2 DEF StreamState, Commands
    <3>4. l.live = k.live /\ l.id = k.id /\ l.pbrt = k.pbrt /\ l.batch = k.batch
      BY <1>1, <1>3, <3>1 DEF SameCursor
    <3>5. StreamState(call', l, held', stream, in_exhaust')
      BY <1>1, <3>1, <3>2, <3>3, <3>4, StreamStateAdvanced
    <3>6. StreamData(l, stream, open', history, now, call', in_exhaust')
      <4>1. Taken(stream, call') = Taken(stream, call)
        BY <1>1, <3>1 DEF Taken
      <4>2. StreamData(l, stream, open, history, now, call', in_exhaust')
        <5>1. Keeps(open, open, k.id)
          BY KeepsAll
        <5> QED
          BY <3>1, <3>2, <3>4, <4>1, <5>1, StreamDataSame
      <4> QED
        BY <4>2, <3>1 DEF StreamData
    <3>7. Calling(call', cursor', held', in_exhaust')
      BY <3>1, CallingStream DEF StreamPoints
    <3>8. StepTyped'
      BY <1>1, <2>1, <3>1 DEF StepTyped, ServerTyped
    <3>9. /\ \A d \in Handles : d # W /\ l.id = cursor[d].id => l.id = 0
          /\ \A d \in Handles : d # W => Keeps(open, open', cursor[d].id)
          /\ Life(W, l, open', held') /\ held \ {W} \subseteq held'
      BY <1>1, <2>1, <2>3, <2>5, <3>1, <3>4
    <3> QED
      BY <3>1, <3>2, <3>5, <3>6, <3>7, <3>8, <3>9, StreamStep
  <2> QED
    BY <2>4, <2>5
<1> QED
  BY <1>5, <1>6

----------------------------------------------------------------------------
(* The reply of a command is kept in the cursor.                           *)
LEMMA ReadingIs ==
  ASSUME NEW k \in Cursors, NEW a, a.id \in Nat, a.batch \in Seq(Nat \ {0}),
         a.pbrt \in Nat, a.more \in BOOLEAN
  PROVE  LET r == Reading(k, a)
         IN  /\ r \in Cursors /\ r.state = "InBatch" /\ r.id = a.id
             /\ r.batch = a.batch /\ r.pbrt = a.pbrt /\ r.in_exhaust = a.more
             /\ r.sess = IF a.id = 0 /\ ~k.explicit THEN 0 ELSE k.sess
             /\ r.live = k.live /\ r.server = k.server /\ r.error = k.error
             /\ r.explicit = k.explicit /\ r.opt = k.opt
             /\ r.timed_out = k.timed_out
<1> DEFINE x == IF a.id = 0 /\ ~k.explicit THEN 0 ELSE k.sess
           r == Reading(k, a)
<1>1. r = [k EXCEPT !.state = "InBatch", !.id = a.id, !.batch = a.batch,
                    !.pbrt = a.pbrt, !.in_exhaust = a.more, !.sess = x]
  BY DEF Reading, Cursors
<1>2. x \in Handles \cup {0}
  BY DEF Cursors
<1> HIDE DEF x, r
<1>3. r \in Cursors
  BY <1>1, <1>2 DEF Cursors
<1>4. /\ r.state = "InBatch" /\ r.id = a.id
      /\ r.batch = a.batch /\ r.pbrt = a.pbrt /\ r.in_exhaust = a.more
      /\ r.sess = x
  BY <1>1 DEF Cursors
<1>5. /\ r.live = k.live /\ r.server = k.server /\ r.error = k.error
      /\ r.explicit = k.explicit /\ r.opt = k.opt
      /\ r.timed_out = k.timed_out
  BY <1>1 DEF Cursors
<1> QED
  BY <1>3, <1>4, <1>5 DEF r, x

(* The documents of a find from p on to q.                                 *)
LEMMA FindBatch ==
  ASSUME NEW p \in Nat, NEW q \in Nat, p <= q
  PROVE  /\ Len(Batch("find", p, q)) = q - p
         /\ DOMAIN Batch("find", p, q) = 1..(q - p)
         /\ \A i \in 1..(q - p) : Batch("find", p, q)[i] = p + i
<1>1. Documents("find", p, q) = (p + 1)..q
  BY DEF Documents
<1>2. Batch("find", p, q) = InOrder((p + 1)..q)
  BY <1>1 DEF Batch
<1> QED
  BY <1>2, InOrderInterval

(* A find reads its next documents.                                        *)
LEMMA FindReads ==
  ASSUME IInv, call.at = "send", call.c # W, NEW t \in BOOLEAN, NEW a,
         NEW id \in Nat \ {0}, NEW q,
         q \in Ends("find", Len(delivered[call.c])),
         ReadsTo(a, open', id, "find", Len(delivered[call.c]), q),
         id \in DOMAIN open' => open'[id].sess = call.c,
         \A i \in DOMAIN open' : i # id => Keeps(open, open', i),
         \A d \in Handles : d # call.c => cursor[d].id # id,
         AfterAttempt([cursor[call.c] EXCEPT !.timed_out = t], a),
         ServerTyped', UNCHANGED <<history, now, stream>>
  PROVE  IInv'
<1> DEFINE c == call.c
           k == cursor[c]
           j == [k EXCEPT !.timed_out = t]
           D == delivered[c]
           p == Len(D)
           r == Reading(j, a)
<1>0. call.at \in Commands /\ call.at \in {"send", "select"}
  BY DEF Commands
<1>1. /\ TypeOK /\ StepTyped /\ c \in Handles /\ k \in Cursors
      /\ Life(c, k, open, held) /\ k.live /\ ~Failed(k)
      /\ k.batch = << >> /\ k.state # "InBatch" /\ call.doc = 0 /\ call \in Calls
      /\ Sending(call, k, held)
      /\ ~OfStream(call) /\ ~call.resume /\ c \in Finds /\ c # W
      /\ \A d \in Handles : d # c /\ k.id = cursor[d].id => k.id = 0
  BY <1>0, CommandFacts
<1>2. /\ j \in Cursors /\ SameCursor(j, k) /\ j.state = k.state
      /\ j.batch = k.batch /\ j.error = k.error
  BY <1>1, TimedOut
<1>3. /\ D \in Seq(Nat \ {0}) /\ FindData(k, D, open) /\ c \notin Streams
      /\ \A i \in DOMAIN D : D[i] = i
  BY <1>1, FindFacts
<1>4. p \in Nat
  BY <1>3
<1>5. /\ q \in Nat /\ p <= q /\ Batch("find", p, q) \in Seq(Nat \ {0})
      /\ Token("find", q) \in Nat
  BY <1>1, <1>4, BatchTyped
<1>6. /\ a.reply = OkReply /\ a.batch = Batch("find", p, q)
      /\ a.pbrt = Token("find", q) /\ a.more \in BOOLEAN
      /\ a.id \in {0, id}
      /\ a.id = 0 => id \notin DOMAIN open' /\ q = NumDocs
      /\ a.id = id => id \in DOMAIN open' /\ open'[id].pos = q
                      /\ open'[id].kind = "find"
  BY DEF ReadsTo
<1>7. AfterAttempt(j, a)
  OBVIOUS
<1> HIDE DEF j
<1>8. /\ r \in Cursors /\ r.state = "InBatch" /\ r.id = a.id
      /\ r.batch = a.batch /\ r.in_exhaust = a.more
      /\ r.sess = IF a.id = 0 /\ ~j.explicit THEN 0 ELSE j.sess
      /\ r.live = j.live /\ r.server = j.server /\ r.error = j.error
      /\ r.explicit = j.explicit
  <2>1. a.id \in Nat
    BY <1>6
  <2> QED
    BY <1>2, <1>5, <1>6, <2>1, ReadingIs
<1>9. /\ Proceed(c, r, call.refreshed)
      /\ held' = IF r.sess = 0 THEN held \ {j.sess} ELSE held
  BY <1>6, <1>7, OkNotRetried, RepliesTyped DEF AfterAttempt
<1> HIDE DEF r
<1>10. /\ r.live /\ ~Failed(r) /\ r.server \in Servers /\ ~r.explicit
       /\ r.sess = (IF a.id = 0 THEN 0 ELSE c)
       /\ held' = (IF a.id = 0 THEN held \ {c} ELSE held)
       /\ c \in held /\ c # 0
  <2>1. k.sess = c /\ c \in held /\ k.server \in Servers
    BY <1>1 DEF Sending
  <2>2. ~k.explicit
    BY <1>1 DEF Life
  <2>3. c # 0
    BY <1>1, StreamHandle
  <2>4. j.live /\ j.server = k.server /\ j.sess = c /\ j.explicit = k.explicit
    BY <1>1, <1>2, <2>1 DEF SameCursor
  <2>5. ~Failed(r) /\ r.live /\ r.server \in Servers /\ ~r.explicit
    BY <1>1, <1>2, <1>8, <2>1, <2>2, <2>4 DEF Failed
  <2> QED
    BY <1>8, <1>9, <2>1, <2>2, <2>3, <2>4, <2>5
<1>11. Life(c, r, open', held')
  <2>1. 0 \notin DOMAIN open'
    BY DEF ServerTyped, OpenType
  <2>2. r.id \in DOMAIN open' => open'[r.id].sess = c /\ open'[r.id].kind = Kind(c)
    BY <1>1, <1>6, <1>8, <2>1 DEF Kind
  <2> QED
    BY <1>1, <1>3, <1>6, <1>8, <1>10, <2>2 DEF Life
<1>12. FindData(r, D, open')
  <2>1. /\ Len(r.batch) = q - p /\ DOMAIN r.batch = 1..(q - p)
        /\ \A i \in 1..(q - p) : r.batch[i] = p + i
    <3>1. r.batch = Batch("find", p, q)
      BY <1>6, <1>8
    <3> HIDE DEF p
    <3>2. /\ Len(Batch("find", p, q)) = q - p
          /\ DOMAIN Batch("find", p, q) = 1..(q - p)
          /\ \A i \in 1..(q - p) : Batch("find", p, q)[i] = p + i
      BY <1>4, <1>5, FindBatch
    <3> QED
      BY <3>1, <3>2
  <2>2. p + (q - p) = q
    BY <1>4, <1>5
  <2>3. 0 \notin DOMAIN open'
    BY DEF ServerTyped, OpenType
  <2> HIDE DEF D
  <2>4. r.id \in DOMAIN open' => open'[r.id].pos = q
    BY <1>6, <1>8, <2>3
  <2> QED
    BY <1>3, <1>6, <1>8, <2>1, <2>2, <2>4 DEF FindData
<1>13. call.refreshed \in BOOLEAN
  BY <1>1 DEF Calls
<1>14. PICK l \in Cursors, E \in Seq(Nat \ {0}) :
           /\ cursor' = [cursor EXCEPT ![c] = l]
           /\ delivered' = [delivered EXCEPT ![c] = E]
           /\ SameCursor(l, r) /\ l.error = r.error
           /\ Life(c, l, open', held') /\ FindData(l, E, open')
           /\ call' = Idle \/ AsksFor(c, l)
  BY <1>1, <1>8, <1>9, <1>10, <1>11, <1>12, <1>13, ProceedFind
<1>15. l.id = a.id /\ l.live /\ ~Failed(l)
  BY <1>8, <1>10, <1>14 DEF SameCursor, Failed
<1>16. held' \subseteq Handles /\ held \ {c} \subseteq held'
  BY <1>1, <1>10 DEF TypeOK
<1>17. cursor'[c] = l
  BY <1>1, <1>14 DEF TypeOK
<1>18. StepTyped' /\ Calling(call', cursor', held', in_exhaust') /\ ~OfStream(call')
  <2>1. CASE call' = Idle
    BY <1>16, <2>1, IdleIs DEF StepTyped, ServerTyped
  <2>2. CASE AsksFor(c, l)
    <3>1. call' \in Calls /\ call'.at = "fetch" /\ call'.c = c
      BY <1>1, <2>2, AskingIs
    <3>2. Calling(call', cursor', held', in_exhaust')
      BY <1>1, <1>15, <1>17, <2>2, CallingAsks
    <3>3. StepTyped'
      BY <1>16, <3>1 DEF StepTyped, ServerTyped
    <3> QED
      BY <3>1, <3>2, <3>3, <1>1 DEF OfStream, StreamPoints
  <2> QED
    BY <1>14, <2>1, <2>2
<1>19. ASSUME NEW d \in Handles, d # c PROVE Keeps(open, open', cursor[d].id)
  <2>1. cursor[d].id # id
    BY <1>19
  <2> QED
    BY <2>1 DEF Keeps
<1>20. \A d \in Handles : d # c /\ l.id = cursor[d].id => l.id = 0
  BY <1>6, <1>15
<1> HIDE DEF c, D
<1> QED
  BY <1>1, <1>14, <1>16, <1>18, <1>19, <1>20, FindStep

----------------------------------------------------------------------------
(* The events of two stretches of the history, one after the other.        *)
LEMMA BetweenConcat ==
  ASSUME NEW h, NEW x \in Nat, NEW y \in Nat, NEW z \in Nat, x <= y, y <= z
  PROVE  /\ Between(h, x, y) \in SUBSET (0..z)
         /\ Between(h, y, z) \in SUBSET (0..z)
         /\ Between(h, x, z) \in SUBSET (0..z)
         /\ InOrder(Between(h, x, y)) \o InOrder(Between(h, y, z)) =
              InOrder(Between(h, x, z))
<1> DEFINE S == Between(h, x, y)
           T == Between(h, y, z)
<1>1. S \in SUBSET (0..z) /\ T \in SUBSET (0..z)
      /\ Between(h, x, z) \in SUBSET (0..z)
  BY DEF Between
<1>2. \A i \in S : \A j \in T : i < j
  BY DEF Between
<1>3. S \cup T = Between(h, x, z)
  BY DEF Between
<1> HIDE DEF S, T
<1>4. InOrder(S) \o InOrder(T) = InOrder(S \cup T)
  BY <1>1, <1>2, InOrderConcat
<1> QED
  BY <1>1, <1>3, <1>4 DEF S, T

(* A batch of a change stream.                                             *)
LEMMA StreamBatch ==
  ASSUME NEW p \in Nat, NEW q \in Nat
  PROVE  /\ Batch("watch", p, q) = InOrder(Between(history, p, q))
         /\ Token("watch", q) = q
<1>1. Documents("watch", p, q) = Between(history, p, q)
  BY DEF Documents, Between
<1> QED
  BY <1>1 DEF Batch, Token

(* A document is taken from the batch of the stream.                       *)
LEMMA TakesHead ==
  ASSUME NEW s \in Seq(Nat \ {0}), NEW b \in Seq(Nat \ {0}), b # << >>
  PROVE  /\ Head(b) \in Nat \ {0} /\ Tail(b) \in Seq(Nat \ {0})
         /\ Append(s, Head(b)) \o Tail(b) = s \o b
<1>1. /\ Head(b) \in Nat \ {0} /\ Tail(b) \in Seq(Nat \ {0})
      /\ Len(b) \in Nat /\ Len(b) >= 1 /\ Len(s) \in Nat
  OBVIOUS
<1> DEFINE u == Append(s, Head(b))
           v == u \o Tail(b)
           w == s \o b
<1>2. /\ u \in Seq(Nat \ {0}) /\ Len(u) = Len(s) + 1
      /\ \A i \in 1..Len(s) : u[i] = s[i]
      /\ u[Len(s) + 1] = b[1]
  BY <1>1
<1>3. /\ Len(Tail(b)) = Len(b) - 1
      /\ \A i \in 1..(Len(b) - 1) : Tail(b)[i] = b[i + 1]
  BY <1>1
<1> HIDE DEF u
<1>4. /\ v \in Seq(Nat \ {0}) /\ Len(v) = Len(u) + Len(Tail(b))
      /\ \A i \in 1..(Len(u) + Len(Tail(b))) :
           v[i] = IF i <= Len(u) THEN u[i] ELSE Tail(b)[i - Len(u)]
  BY <1>1, <1>2, ConcatProperties
<1>5. /\ w \in Seq(Nat \ {0}) /\ Len(w) = Len(s) + Len(b)
      /\ \A i \in 1..(Len(s) + Len(b)) :
           w[i] = IF i <= Len(s) THEN s[i] ELSE b[i - Len(s)]
  BY ConcatProperties
<1> HIDE DEF v, w
<1>6. Len(v) = Len(w)
  BY <1>1, <1>2, <1>3, <1>4, <1>5
<1>7. ASSUME NEW i \in 1..Len(w) PROVE v[i] = w[i]
  <2>1. i \in 1..(Len(s) + Len(b)) /\ i \in 1..(Len(u) + Len(Tail(b)))
    BY <1>4, <1>5, <1>6, <1>7
  <2>2. CASE i <= Len(s)
    <3>1. w[i] = s[i]
      BY <1>5, <2>1, <2>2
    <3>2. v[i] = u[i] /\ u[i] = s[i]
      BY <1>1, <1>2, <1>4, <2>1, <2>2
    <3> QED
      BY <3>1, <3>2
  <2>3. CASE i = Len(s) + 1
    <3>1. ~(i <= Len(s)) /\ i <= Len(u) /\ i - Len(s) = 1
      BY <1>1, <1>2, <2>3
    <3>2. w[i] = b[1]
      BY <1>5, <2>1, <3>1
    <3>3. v[i] = u[i] /\ u[i] = b[1]
      BY <1>2, <1>4, <2>1, <2>3, <3>1
    <3> QED
      BY <3>2, <3>3
  <2>4. CASE i > Len(s) + 1
    <3>1. /\ ~(i <= Len(s)) /\ ~(i <= Len(u))
          /\ i - Len(u) \in 1..(Len(b) - 1)
          /\ (i - Len(u)) + 1 = i - Len(s)
      BY <1>1, <1>2, <2>1, <2>4
    <3>2. w[i] = b[i - Len(s)]
      BY <1>5, <2>1, <3>1
    <3>3. v[i] = Tail(b)[i - Len(u)]
      BY <1>4, <2>1, <3>1
    <3>4. Tail(b)[i - Len(u)] = b[(i - Len(u)) + 1]
      BY <1>3, <3>1
    <3> QED
      BY <3>1, <3>2, <3>3, <3>4
  <2>5. i \in Nat
    BY <2>1
  <2> QED
    BY <1>1, <2>2, <2>3, <2>4, <2>5
<1>8. v = w
  BY <1>4, <1>5, <1>6, <1>7, SeqEqual
<1> QED
  BY <1>1, <1>8 DEF u, v, w

(* mongoc_cursor_next of the stream's cursor takes a document, finds none, *)
(* or asks for a batch.                                                    *)
Advances(k, j) ==
  /\ call' \in Calls /\ call'.at = "advanced" /\ call'.c = W
  /\ call'.resume = call.resume /\ call'.timeouts = call.timeouts
  /\ call'.resumes = call.resumes
  /\ \/ call'.doc = 0 /\ j.batch = << >> /\ k.batch = << >>
     \/ /\ k.batch # << >> /\ call'.doc = Head(k.batch)
        /\ j.batch = Tail(k.batch)

(* The loop of mongoc_cursor_next for the stream.                          *)
LEMMA ProceedStream ==
  ASSUME call \in Calls, NEW k \in Cursors, NEW o, NEW hl,
         NEW refreshed \in BOOLEAN, k.live, Life(W, k, o, hl),
         Proceed(W, k, refreshed)
  PROVE  \E j \in Cursors :
           /\ cursor' = [cursor EXCEPT ![W] = j] /\ delivered' = delivered
           /\ SameCursor(j, k) /\ j.error = k.error
           /\ j.timed_out = k.timed_out /\ Life(W, j, o, hl)
           /\ \/ Advances(k, j)
              \/ /\ AsksFor(W, j) /\ j.batch = << >> /\ k.batch = << >>
                 /\ ~refreshed
<1>0. W \in Streams /\ k.state # "Unprimed" /\ k.batch \in Seq(Nat \ {0})
      /\ << >> \in Seq(Nat \ {0})
  BY StreamHandle DEF Life, Cursors
<1> DEFINE p == Popped(k)
<1>1. /\ p \in Cursors /\ SameCursor(p, k) /\ p.error = k.error
      /\ p.batch = k.batch /\ p.timed_out = k.timed_out
      /\ k.state = "InBatch" /\ k.batch = << >> =>
           p.state = IF k.id # 0 THEN "EndOfBatch" ELSE "Done"
      /\ ~(k.state = "InBatch" /\ k.batch = << >>) => p = k
  BY PoppedIs
<1>2. \/ /\ k.state = "InBatch" /\ k.batch # << >>
         /\ Returns(W, [k EXCEPT !.batch = Tail(@)], Head(k.batch))
      \/ /\ p.state = "Done" \/ (p.state = "EndOfBatch" /\ refreshed)
         /\ Returns(W, p, 0)
      \/ Fetches(W, p) /\ (p.state = "Unprimed" \/ ~refreshed)
  BY ProceedCases
<1> HIDE DEF p
<1>3. Life(W, p, o, hl)
  <2>1. /\ p.state # "InBatch" => p.batch = << >>
        /\ p.state = "Unprimed" => k.state = "Unprimed"
        /\ p.state = "EndOfBatch" => k.id # 0
    BY <1>1 DEF Life
  <2> QED
    BY <1>1, <2>1, LifeSame
<1>4. CASE /\ k.state = "InBatch" /\ k.batch # << >>
           /\ Returns(W, [k EXCEPT !.batch = Tail(@)], Head(k.batch))
  <2> DEFINE t == Tail(k.batch)
             j == [k EXCEPT !.batch = t]
  <2>1. Head(k.batch) \in Nat \ {0} /\ t \in Seq(Nat \ {0})
    BY <1>0, <1>4, TakesHead
  <2>2. Returns(W, j, Head(k.batch))
    BY <1>4
  <2> HIDE DEF t
  <2>3. j \in Cursors
    BY <2>1 DEF Cursors
  <2>4. /\ SameCursor(j, k) /\ j.error = k.error /\ j.batch = t
        /\ j.state = k.state /\ j.timed_out = k.timed_out
    BY DEF Cursors, SameCursor
  <2> HIDE DEF j
  <2>5. /\ cursor' = [cursor EXCEPT ![W] = j] /\ delivered' = delivered
        /\ call' \in Calls /\ call'.at = "advanced" /\ call'.c = W
        /\ call'.doc = Head(k.batch) /\ call'.resume = call.resume
        /\ call'.timeouts = call.timeouts /\ call'.resumes = call.resumes
    BY <2>1, <2>2, StreamReturns
  <2>6. Life(W, j, o, hl)
    BY <1>4, <2>3, <2>4, LifeSame
  <2>7. Advances(k, j)
    BY <1>4, <2>4, <2>5 DEF Advances, t
  <2> QED
    BY <2>3, <2>4, <2>5, <2>6, <2>7
<1>5. CASE /\ p.state = "Done" \/ (p.state = "EndOfBatch" /\ refreshed)
           /\ Returns(W, p, 0)
  <2>1. /\ cursor' = [cursor EXCEPT ![W] = p] /\ delivered' = delivered
        /\ call' \in Calls /\ call'.at = "advanced" /\ call'.c = W
        /\ call'.doc = 0 /\ call'.resume = call.resume
        /\ call'.timeouts = call.timeouts /\ call'.resumes = call.resumes
    BY <1>5, StreamReturns
  <2>2. p.batch = << >>
    BY <1>3, <1>5 DEF Life
  <2>3. Advances(k, p)
    BY <1>1, <2>1, <2>2 DEF Advances
  <2> QED
    BY <1>1, <1>3, <2>1, <2>3
<1>6. CASE Fetches(W, p) /\ (p.state = "Unprimed" \/ ~refreshed)
  <2>1. p.state # "Unprimed"
    BY <1>0, <1>1
  <2>2. /\ cursor' = [cursor EXCEPT ![W] = p] /\ delivered' = delivered
        /\ AsksFor(W, p) /\ p.state = "EndOfBatch"
    BY <1>6, <2>1 DEF Fetches, AsksFor
  <2>3. p.batch = << >>
    BY <1>3, <2>2 DEF Life
  <2> QED
    BY <1>1, <1>3, <1>6, <2>1, <2>2, <2>3
<1> QED
  BY <1>2, <1>4, <1>5, <1>6

(* The stream's cursor asks for a batch.                                   *)
LEMMA StreamStateFetch ==
  ASSUME NEW j, NEW k, NEW st, NEW cl, NEW cm, NEW hl, NEW hm, NEW ex, NEW ey,
         StreamState(cl, k, hl, st, ex), k.live, j.live = k.live,
         st.live, ~st.err, cm.at \in Commands, cm.c = W, cm.resume = cl.resume
  PROVE  StreamState(cm, j, hm, st, ey)
BY DEF StreamState, OfStream, StreamPoints, Making, Commands

(* The stream goes on with its cursor.                                     *)
LEMMA StreamAdvances ==
  ASSUME IInv, stream.live, ~stream.err, call.doc = 0, cursor[W].live,
         NEW k \in Cursors, k.live, ~Failed(k),
         NEW refreshed \in BOOLEAN, Proceed(W, k, refreshed),
         Life(W, k, open', held'), ~in_exhaust',
         StreamData(k, stream, open', history, now, call, in_exhaust'),
         \A d \in Handles : d # W => Keeps(open, open', cursor[d].id),
         \A d \in Handles : d # W /\ k.id = cursor[d].id => k.id = 0,
         held \ {W} \subseteq held', held' \subseteq Handles, ServerTyped',
         UNCHANGED <<history, now, stream>>
  PROVE  IInv'
<1>1. /\ TypeOK /\ W \in Handles /\ call \in Calls /\ stream \in StreamRecords
      /\ StreamState(call, cursor[W], held, stream, in_exhaust)
  BY StreamFacts
<1>2. PICK j \in Cursors :
           /\ cursor' = [cursor EXCEPT ![W] = j] /\ delivered' = delivered
           /\ SameCursor(j, k) /\ j.error = k.error
           /\ Life(W, j, open', held')
           /\ \/ Advances(k, j)
              \/ AsksFor(W, j) /\ j.batch = << >> /\ k.batch = << >>
  BY <1>1, ProceedStream
<1>3. j.live /\ j.id = k.id /\ j.pbrt = k.pbrt /\ ~Failed(j)
  BY <1>2 DEF SameCursor, Failed
<1>4. cursor'[W] = j
  BY <1>1, <1>2 DEF TypeOK
<1>5. \A d \in Handles : d # W /\ j.id = cursor[d].id => j.id = 0
  BY <1>3
<1>6. Taken(stream, call) = stream.seen
  BY DEF Taken
<1>7. j.live = cursor[W].live
  BY <1>3
<1>8. CASE Advances(k, j)
  <2>1. /\ call' \in Calls /\ call'.at = "advanced" /\ call'.c = W
        /\ call'.resume = call.resume
        /\ \/ call'.doc = 0 /\ j.batch = << >> /\ k.batch = << >>
           \/ /\ k.batch # << >> /\ call'.doc = Head(k.batch)
              /\ j.batch = Tail(k.batch)
    BY <1>8 DEF Advances
  <2>2. StreamData(j, stream, open', history, now, call', in_exhaust')
    <3>1. CASE call'.doc = 0 /\ j.batch = << >> /\ k.batch = << >>
      <4>1. Taken(stream, call') = Taken(stream, call)
        BY <1>6, <3>1 DEF Taken
      <4>2. Keeps(open', open', k.id) /\ j.live = k.live /\ j.batch = k.batch
        BY <1>3, <3>1, KeepsAll
      <4> QED
        BY <1>3, <2>1, <4>1, <4>2, StreamDataSame
    <3>2. CASE /\ k.batch # << >> /\ call'.doc = Head(k.batch)
               /\ j.batch = Tail(k.batch)
      <4>1. k.batch \in Seq(Nat \ {0}) /\ stream.seen \in Seq(Nat \ {0})
        BY <1>1 DEF Cursors, StreamRecords
      <4>2. /\ Head(k.batch) \in Nat \ {0}
            /\ Append(stream.seen, Head(k.batch)) \o Tail(k.batch) =
                 stream.seen \o k.batch
        BY <3>2, <4>1, TakesHead
      <4>3. Taken(stream, call') = Append(stream.seen, Head(k.batch))
        BY <2>1, <3>2, <4>2 DEF Taken
      <4>4. Taken(stream, call') \o j.batch = Taken(stream, call) \o k.batch
        BY <1>6, <3>2, <4>2, <4>3
      <4>5. Follows(j, stream, history, now, call')
        <5>1. Follows(k, stream, history, now, call)
          BY DEF StreamData
        <5> QED
          BY <5>1, <4>4, <1>3 DEF Follows
      <4>6. NotStarted(stream, now, call) => NotStarted(stream, now, call')
        BY <2>1 DEF NotStarted
      <4>7. AtTime(k, stream, history, now, call, in_exhaust') =>
              AtTime(j, stream, history, now, call', in_exhaust')
        BY <1>3, <2>1 DEF AtTime
      <4> QED
        BY <1>3, <4>5, <4>6, <4>7 DEF StreamData
    <3> QED
      BY <2>1, <3>1, <3>2
  <2>3. StreamState(call', j, held', stream, in_exhaust')
    <3>1. call'.doc = 0 => j.batch = << >>
      <4>1. k.batch \in Seq(Nat \ {0})
        BY DEF Cursors
      <4>2. k.batch # << >> => Head(k.batch) # 0
        BY <4>1, TakesHead
      <4> QED
        BY <2>1, <4>2
    <3> QED
      BY <1>1, <1>3, <1>7, <2>1, <3>1, StreamStateAdvanced
  <2>4. Calling(call', cursor', held', in_exhaust')
    BY <2>1, CallingStream DEF StreamPoints
  <2>5. StepTyped'
    BY <2>1 DEF StepTyped, ServerTyped
  <2> QED
    BY <1>1, <1>2, <1>5, <2>2, <2>3, <2>4, <2>5, StreamStep
<1>9. CASE AsksFor(W, j) /\ j.batch = << >> /\ k.batch = << >>
  <2>1. /\ call' \in Calls /\ call'.at = "fetch" /\ call'.c = W
        /\ call'.resume = call.resume /\ call'.doc = 0
    BY <1>1, <1>9, AskingIs
  <2>2. StreamState(call', j, held', stream, in_exhaust')
    BY <1>1, <1>7, <2>1, StreamStateFetch DEF Commands
  <2>3. StreamData(j, stream, open', history, now, call', in_exhaust')
    <3>1. Taken(stream, call') = Taken(stream, call)
      BY <1>6, <2>1 DEF Taken
    <3>2. Keeps(open', open', k.id) /\ j.live = k.live /\ j.batch = k.batch
      BY <1>3, <1>9, KeepsAll
    <3> QED
      BY <1>3, <2>1, <3>1, <3>2, StreamDataSame
  <2>4. j.state # "Unprimed"
    BY <1>2, <1>3, StreamHandle DEF Life
  <2>5. Calling(call', cursor', held', in_exhaust')
    BY <1>1, <1>3, <1>4, <1>9, <2>4, CallingAsks
  <2>6. StepTyped'
    BY <2>1 DEF StepTyped, ServerTyped
  <2> QED
    BY <1>1, <1>2, <1>5, <2>2, <2>3, <2>5, <2>6, StreamStep
<1> QED
  BY <1>2, <1>8, <1>9

(* The stream reads the next batch.                                        *)
LEMMA StreamReads ==
  ASSUME IInv, call.at = "send", call.c = W, NEW t \in BOOLEAN, NEW a,
         NEW q \in Ends("watch", cursor[W].pbrt), cursor[W].id # 0,
         ReadsTo(a, open', cursor[W].id, "watch", cursor[W].pbrt, q),
         cursor[W].id \in DOMAIN open' => open'[cursor[W].id].sess = W,
         \A i \in DOMAIN open' : i # cursor[W].id => Keeps(open, open', i),
         AfterAttempt([cursor[W] EXCEPT !.timed_out = t], a),
         ~a.more, ~in_exhaust',
         ServerTyped', UNCHANGED <<history, now, stream>>
  PROVE  IInv'
<1> DEFINE k == cursor[W]
           j == [k EXCEPT !.timed_out = t]
           p == k.pbrt
           r == Reading(j, a)
<1>0. call.at \in Commands /\ call.at \in {"send", "select"}
  BY DEF Commands
<1>1. /\ TypeOK /\ StepTyped /\ W \in Handles /\ k \in Cursors
      /\ Life(W, k, open, held) /\ k.live /\ ~Failed(k)
      /\ k.batch = << >> /\ call.doc = 0 /\ call \in Calls
      /\ Asking(call, k, in_exhaust)
      /\ Sending(call, k, held) /\ OfStream(call)
      /\ \A d \in Handles : d # W /\ k.id = cursor[d].id => k.id = 0
  BY <1>0, CommandFacts
<1>2. /\ j \in Cursors /\ SameCursor(j, k) /\ j.state = k.state
      /\ j.batch = k.batch /\ j.error = k.error
  BY <1>1, TimedOut
<1>3. /\ StreamState(call, k, held, stream, in_exhaust)
      /\ StreamData(k, stream, open, history, now, call, in_exhaust)
      /\ stream \in StreamRecords /\ now \in Nat
  BY StreamFacts
<1>4. p \in Nat
  BY <1>1 DEF Cursors
<1>5. /\ q \in Nat /\ p <= q /\ q <= now
      /\ Batch("watch", p, q) \in Seq(Nat \ {0}) /\ Token("watch", q) = q
      /\ Batch("watch", p, q) = InOrder(Between(history, p, q))
  BY <1>1, <1>4, BatchTyped, StreamBatch
<1>6. /\ a.reply = OkReply /\ a.batch = Batch("watch", p, q)
      /\ a.pbrt = q /\ a.more \in BOOLEAN
      /\ a.id \in {0, k.id}
      /\ a.id # 0 => a.id \in DOMAIN open' /\ open'[k.id].pos = q
                      /\ open'[k.id].kind = "watch"
  BY <1>5 DEF ReadsTo
<1>7. AfterAttempt(j, a) /\ call.c = W
  OBVIOUS
<1> HIDE DEF j
<1>8. /\ r \in Cursors /\ r.state = "InBatch" /\ r.id = a.id
      /\ r.batch = a.batch /\ r.pbrt = a.pbrt /\ r.in_exhaust = a.more
      /\ r.sess = IF a.id = 0 /\ ~j.explicit THEN 0 ELSE j.sess
      /\ r.live = j.live /\ r.server = j.server /\ r.error = j.error
      /\ r.explicit = j.explicit /\ r.opt = j.opt
  <2>1. a.id \in Nat /\ a.pbrt \in Nat
    BY <1>1, <1>5, <1>6 DEF Cursors
  <2>2. a.batch \in Seq(Nat \ {0})
    BY <1>5, <1>6
  <2> QED
    BY <1>2, <1>6, <2>1, <2>2, ReadingIs
<1>9. /\ Proceed(W, r, call.refreshed)
      /\ held' = IF r.sess = 0 THEN held \ {j.sess} ELSE held
  BY <1>6, <1>7, OkNotRetried, RepliesTyped DEF AfterAttempt
<1> HIDE DEF r
<1>10. /\ r.live /\ ~Failed(r) /\ r.server \in Servers /\ r.explicit
       /\ r.sess = W /\ held' = held /\ W \in held /\ ~r.opt /\ ~r.in_exhaust
  <2>1. k.sess = W /\ W \in held /\ k.server \in Servers
    BY <1>1 DEF Sending
  <2>2. k.explicit /\ ~k.opt
    BY <1>1, StreamHandle DEF Life
  <2>3. W # 0
    BY StreamHandle
  <2>4. /\ j.live /\ j.server = k.server /\ j.sess = W
        /\ j.explicit = k.explicit /\ j.opt = k.opt
    BY <1>1, <1>2, <2>1 DEF SameCursor
  <2>5. ~Failed(r)
    BY <1>1, <1>2, <1>8 DEF Failed
  <2> QED
    BY <1>8, <1>9, <2>1, <2>2, <2>3, <2>4, <2>5
<1>11. 0 \notin DOMAIN open'
  BY DEF ServerTyped, OpenType
<1>12. Life(W, r, open', held')
  <2>1. r.id \in DOMAIN open' => open'[r.id].sess = W /\ open'[r.id].kind = Kind(W)
    BY <1>6, <1>8, <1>11, StreamHandle DEF Kind
  <2> QED
    BY <1>6, <1>8, <1>10, <2>1, StreamHandle DEF Life
<1>13. ~in_exhaust
  BY <1>1, StreamHandle DEF Asking
<1>14. StreamData(r, stream, open', history, now, call, in_exhaust')
  <2>1. stream.start # None /\ stream.start \in Nat
    BY <1>1, <1>3 DEF StreamState, StreamRecords
  <2>2. /\ stream.start <= p /\ p <= now
        /\ stream.seen \o << >> = InOrder(Between(history, stream.start, p))
    <3>1. Taken(stream, call) = stream.seen
      BY <1>1 DEF Taken
    <3> QED
      BY <1>1, <1>3, <3>1 DEF StreamData, Follows
  <2>3. stream.seen = InOrder(Between(history, stream.start, p))
    <3>1. stream.seen \in Seq(Nat \ {0})
      BY <1>3 DEF StreamRecords
    <3> QED
      BY <2>2, <3>1, ConcatEmptySeq
  <2>4. stream.seen \o r.batch = InOrder(Between(history, stream.start, q))
    <3>1. InOrder(Between(history, stream.start, p)) \o InOrder(Between(history, p, q))
            = InOrder(Between(history, stream.start, q))
      BY <1>4, <1>5, <2>1, <2>2, BetweenConcat
    <3> QED
      BY <1>5, <1>6, <1>8, <2>3, <3>1
  <2>5. Follows(r, stream, history, now, call)
    <3>1. Taken(stream, call) = stream.seen
      BY <1>1 DEF Taken
    <3>2. stream.start <= q
      BY <1>4, <1>5, <2>1, <2>2
    <3> QED
      BY <1>5, <1>6, <1>8, <2>4, <3>1, <3>2 DEF Follows
  <2>6. AtTime(k, stream, history, now, call, in_exhaust) =>
          AtTime(r, stream, history, now, call, in_exhaust')
    <3>1. stream.optime \in Nat \cup {None}
      BY <1>3 DEF StreamRecords
    <3>2. stream.optime # None /\ stream.optime <= p => stream.optime <= q
      BY <1>4, <1>5, <3>1
    <3> QED
      BY <1>1, <1>6, <1>8, <1>13, <3>2 DEF AtTime
  <2>7. r.id \in DOMAIN open' /\ ~Failed(r) => open'[r.id].pos = r.pbrt
    BY <1>6, <1>8, <1>11
  <2> QED
    BY <1>3, <2>1, <2>5, <2>6, <2>7 DEF StreamData
<1>15. ASSUME NEW d \in Handles, d # W PROVE Keeps(open, open', cursor[d].id)
  <2>1. cursor[d].id # k.id
    BY <1>1, <1>15
  <2> QED
    BY <2>1 DEF Keeps
<1>16. \A d \in Handles : d # W /\ r.id = cursor[d].id => r.id = 0
  BY <1>1, <1>6, <1>8
<1>17. stream.live /\ ~stream.err /\ call.refreshed \in BOOLEAN
  BY <1>0, <1>1, <1>3 DEF StreamState, Commands, Calls
<1>18. held \ {W} \subseteq held' /\ held' \subseteq Handles
  BY <1>1, <1>10 DEF TypeOK
<1> QED
  BY <1>1, <1>8, <1>9, <1>10, <1>12, <1>14, <1>15, <1>16, <1>17, <1>18,
     StreamAdvances

----------------------------------------------------------------------------
(* The outcome of a command takes effect.                                  *)
LEMMA TakesTyped ==
  ASSUME TypeOK, NEW o, OutcomeType(o), Takes(o), in_exhaust' \in BOOLEAN,
         crossed' \in BOOLEAN
  PROVE  /\ ServerTyped' /\ open' = o.open /\ streaming' = o.streaming
         /\ o.fault => faults' = faults + 1
         /\ ~o.fault => faults' = faults
<1>1. /\ open' = o.open /\ streaming' = o.streaming
      /\ o.fault => Fault
      /\ ~o.fault => faults' = faults
  BY DEF Takes, OutcomeType
<1>2. faults' \in 0..MaxFaults
  BY <1>1, FaultTyped DEF TypeOK, OutcomeType
<1>3. o.fault => faults' = faults + 1
  BY <1>1 DEF Fault
<1> QED
  BY <1>1, <1>2, <1>3 DEF ServerTyped, OutcomeType

(* Closing cursors touches any one of them.                                *)
LEMMA ShrinksTouches ==
  ASSUME NEW o, NEW p, Shrinks(o, p), NEW id
  PROVE  Touches(o, p, id)
BY DEF Shrinks, Touches, Keeps

(* The command was refused, in the short form the proofs below use.        *)
Refused(o, before) ==
  /\ OutcomeType(o) /\ Shrinks(before, o.open)
  /\ \E r \in {OverloadError, NotPrimary, OtherError} : o.answer = ErrorAnswer(r)

(* A refusal is one of three errors.                                       *)
LEMMA RefuseDoes ==
  ASSUME TypeOK, NEW s \in Servers, NEW id, NEW o \in Refuse(s, id)
  PROVE  Refused(o, open)
<1>1. /\ OutcomeType(o) /\ Shrinks(open, o.open)
      /\ \E r \in {OverloadError, NotPrimary, OtherError} :
           /\ o.answer = ErrorAnswer(r) /\ o.fault = (r = NotPrimary)
           /\ r = OverloadError /\ streaming[s] = 0 => o.open = open
           /\ streaming[s] # 0 => o.open = Remove({id})
  BY RefuseIs
<1> QED
  BY <1>1, Zenon DEF Refused

(* The reply of a command arrives.                                         *)
LEMMA AnsweredPreserves == ASSUME IInv, Answered, UNCHANGED stream PROVE IInv'
<1> DEFINE c == call.c
           k == cursor[c]
           s == call.loop.server
<1>0. call.at = "send" /\ call.at \in Commands /\ call.at \in {"send", "select"}
  BY DEF Answered, Commands
<1>1. /\ TypeOK /\ c \in Handles /\ k \in Cursors
      /\ Life(c, k, open, held) /\ k.live /\ ~Failed(k)
      /\ k.batch = << >> /\ call.doc = 0 /\ call \in Calls
      /\ Asking(call, k, in_exhaust) /\ Sending(call, k, held)
      /\ c # W => ~OfStream(call) /\ ~call.resume /\ c \in Finds
      /\ \A d \in Handles : d # c /\ k.id = cursor[d].id => k.id = 0
  BY <1>0, CommandFacts
<1>2. PICK o \in Run(s, k) :
        /\ Takes(o) /\ in_exhaust' = o.answer.more
        /\ AfterAttempt([k EXCEPT !.timed_out = FALSE], o.answer)
  BY DEF Answered, ExhaustAfter
<1>3. UNCHANGED <<history, now>> /\ crossed' = (crossed \/ Crosses(s, k.id))
  BY DEF Answered
<1>4. crossed' \in BOOLEAN
  BY <1>1, <1>3 DEF TypeOK, Crosses
<1>5. s \in Servers /\ k.sess = c /\ k.id \in Nat /\ k.opt \in BOOLEAN /\ c # 0
  BY <1>1, StreamHandle DEF Sending, Cursors
<1>6. c = W => ~in_exhaust /\ ~k.opt
  BY <1>1, StreamHandle DEF Asking, Life
<1>7. ASSUME OutcomeType(o), Shrinks(open, o.open),
             NEW r, r \in {OverloadError, NotPrimary, OtherError, CursorNotFound},
             o.answer = ErrorAnswer(r)
      PROVE  IInv'
  <2>1. o.answer.reply = r /\ o.answer.more = FALSE
    BY <1>7, ErrorAnswerIs
  <2>2. r \in Replies /\ ~r.ok
    BY <1>7, RepliesTyped
  <2>3. in_exhaust' = FALSE
    BY <1>2, <2>1
  <2>4. ServerTyped' /\ open' = o.open
    BY <1>1, <1>2, <1>4, <1>7, <2>3, TakesTyped
  <2>5. Shrinks(open, open') /\ Touches(open, open', k.id)
    BY <1>7, <2>4, ShrinksTouches
  <2>6. /\ o.answer.reply \in Replies /\ ~o.answer.reply.ok
        /\ c = W => in_exhaust' = in_exhaust
    <3>1. in_exhaust \in BOOLEAN
      BY <1>1 DEF TypeOK
    <3>2. c = W => in_exhaust = FALSE
      BY <1>6, <3>1, Zenon
    <3> QED
      BY <2>1, <2>2, <2>3, <3>2
  <2>7. AfterAttempt([k EXCEPT !.timed_out = FALSE], o.answer)
    BY <1>2
  <2> QED
    BY <1>0, <1>3, <2>4, <2>5, <2>6, <2>7, AttemptFails
<1>8. CASE o \in Refuse(s, k.id)
  <2>1. OutcomeType(o) /\ Shrinks(open, o.open)
        /\ \E r \in {OverloadError, NotPrimary, OtherError} : o.answer = ErrorAnswer(r)
    <3>1. o \in Refuse(s, k.id) /\ TypeOK /\ s \in Servers
      BY <1>1, <1>5, <1>8
    <3>2. Refused(o, open)
      BY <3>1, RefuseDoes
    <3> QED
      BY <3>2, Zenon DEF Refused
  <2>2. PICK r \in {OverloadError, NotPrimary, OtherError} : o.answer = ErrorAnswer(r)
    BY <2>1
  <2>3. r \in {OverloadError, NotPrimary, OtherError, CursorNotFound}
    BY <2>2
  <2> QED
    BY <1>7, <2>1, <2>2, <2>3
<1>9. CASE call.cmd = "find" /\ o \in RunOpen(s, "find", 0, NewId(c), k.sess, k.opt)
  <2> DEFINE id == NewId(c)
  <2>1. id \in Nat \ {0} /\ id \notin DOMAIN open /\ \A d \in Handles : cursor[d].id # id
    BY <1>1, NewIdFresh
  <2>2. c # W /\ c \in Finds /\ k.state = "Unprimed"
    BY <1>1, <1>9, StreamHandle DEF Asking
  <2>3. Len(delivered[c]) = 0
    <3>1. FindData(k, delivered[c], open)
      BY <2>2, FindFacts
    <3>2. delivered[c] = << >>
      BY <2>2, <3>1 DEF FindData
    <3> QED
      BY <3>2
  <2> HIDE DEF id
  <2>4. PICK q \in Ends("find", 0) :
           /\ OutcomeType(o) /\ ~o.fault
           /\ ReadsTo(o.answer, o.open, id, "find", 0, q)
           /\ \A i \in DOMAIN o.open : i # id => Keeps(open, o.open, i)
           /\ id \in DOMAIN o.open => o.open[id] =
                [server |-> s, kind |-> "find", pos |-> q, sess |-> c]
    <3>1. o \in RunOpen(s, "find", 0, id, c, k.opt)
      BY <1>5, <1>9 DEF id
    <3>2. 0 \in Nat /\ "find" \in {"find", "watch"}
      OBVIOUS
    <3>3. Opened(o, open, streaming, s, "find", 0, id, c, k.opt)
      <4>1. /\ TypeOK /\ s \in Servers /\ c \in Handles /\ k.opt \in BOOLEAN
            /\ id \in Nat \ {0} /\ id \notin DOMAIN open
        BY <1>1, <1>5, <2>1
      <4> HIDE DEF c, k, s
      <4> QED
        BY <3>1, <3>2, <4>1, RunOpenIs
    <3> HIDE DEF c, k, s
    <3> QED
      BY <3>3, Zenon DEF Opened
  <2>5. in_exhaust' \in BOOLEAN
    BY <1>2, <2>4 DEF ReadsTo
  <2>6. ServerTyped' /\ open' = o.open
    BY <1>1, <1>2, <1>4, <2>4, <2>5, TakesTyped
  <2>7. /\ q \in Ends("find", Len(delivered[c]))
        /\ ReadsTo(o.answer, open', id, "find", Len(delivered[c]), q)
        /\ id \in DOMAIN open' => open'[id].sess = c
        /\ \A i \in DOMAIN open' : i # id => Keeps(open, open', i)
    BY <2>3, <2>4, <2>6
  <2>8. AfterAttempt([k EXCEPT !.timed_out = FALSE], o.answer)
    BY <1>2
  <2> QED
    BY <1>0, <1>3, <2>1, <2>2, <2>6, <2>7, <2>8, FindReads
<1>10. CASE call.cmd # "find" /\ o \in RunGetMore(s, k.id, k.opt)
  <2> DEFINE id == k.id
  <2>1. k.state = "EndOfBatch" /\ id \in Nat \ {0}
    BY <1>1, <1>5, <1>10 DEF Asking, Life
  <2>2. /\ OutcomeType(o) /\ ~o.fault
        /\ \A i \in DOMAIN o.open : i # id => Keeps(open, o.open, i)
        /\ \/ /\ id \in DOMAIN open
              /\ \E q \in Ends(open[id].kind, open[id].pos) :
                   /\ ReadsTo(o.answer, o.open, id, open[id].kind,
                              open[id].pos, q)
                   /\ id \in DOMAIN o.open =>
                        o.open[id] = [open[id] EXCEPT !.pos = q]
              /\ o.answer.more => k.opt
           \/ o.open = open /\ o.answer = ErrorAnswer(CursorNotFound)
    <3>1. /\ o \in RunGetMore(s, id, k.opt) /\ TypeOK
          /\ s \in Servers /\ id \in Nat /\ k.opt \in BOOLEAN
      BY <1>1, <1>5, <1>10
    <3> HIDE DEF c, k, s, id
    <3>2. ReadMore(o, open, streaming, s, id, k.opt)
      BY <3>1, RunGetMoreIs
    <3> QED
      BY <3>2, Zenon DEF ReadMore
  <2>3. CASE o.open = open /\ o.answer = ErrorAnswer(CursorNotFound)
    <3>1. Shrinks(open, o.open)
      BY <2>3 DEF Shrinks
    <3> QED
      BY <1>7, <2>2, <2>3, <3>1
  <2>4. ASSUME id \in DOMAIN open, o.answer.more => k.opt,
               NEW q \in Ends(open[id].kind, open[id].pos),
               ReadsTo(o.answer, o.open, id, open[id].kind, open[id].pos, q),
               id \in DOMAIN o.open => o.open[id] = [open[id] EXCEPT !.pos = q]
        PROVE  IInv'
    <3>1. open[id] \in ServerCursors /\ open[id].sess = c /\ open[id].kind = Kind(c)
      BY <1>1, <2>4 DEF Life, TypeOK
    <3>2. id \in DOMAIN o.open => o.open[id].sess = c
      BY <2>4, <3>1 DEF ServerCursors
    <3>3. in_exhaust' \in BOOLEAN
      BY <1>2, <2>4 DEF ReadsTo
    <3>4. ServerTyped' /\ open' = o.open
      BY <1>1, <1>2, <1>4, <2>2, <3>3, TakesTyped
    <3>5. /\ AfterAttempt([k EXCEPT !.timed_out = FALSE], o.answer)
          /\ \A i \in DOMAIN open' : i # id => Keeps(open, open', i)
          /\ id \in DOMAIN open' => open'[id].sess = c
      BY <1>2, <2>2, <3>2, <3>4
    <3>6. CASE c # W
      <4>1. c \in Finds /\ open[id].kind = "find"
        BY <1>1, <3>1, <3>6 DEF Kind
      <4>2. open[id].pos = Len(delivered[c])
        <5>1. delivered[c] \in Seq(Nat \ {0}) /\ FindData(k, delivered[c], open)
          BY <4>1, FindFacts
        <5>2. open[id].pos = Len(delivered[c]) + Len(k.batch)
          BY <1>1, <2>4, <5>1 DEF FindData
        <5>3. Len(k.batch) = 0 /\ Len(delivered[c]) \in Nat
          BY <1>1, <5>1
        <5> QED
          BY <5>2, <5>3
      <4>3. /\ q \in Ends("find", Len(delivered[c]))
            /\ ReadsTo(o.answer, open', id, "find", Len(delivered[c]), q)
        BY <2>4, <3>4, <4>1, <4>2
      <4>4. \A d \in Handles : d # c => cursor[d].id # id
        BY <1>1, <2>1
      <4> QED
        BY <1>0, <1>3, <2>1, <3>4, <3>5, <3>6, <4>3, <4>4, FindReads
    <3>7. CASE c = W
      <4>1. open[id].kind = "watch"
        BY <3>1, <3>7, StreamHandle DEF Kind
      <4>2. open[id].pos = k.pbrt
        BY <1>1, <2>4, <3>7, StreamFacts DEF StreamData
      <4>3. /\ q \in Ends("watch", k.pbrt)
            /\ ReadsTo(o.answer, open', id, "watch", k.pbrt, q)
        BY <2>4, <3>4, <4>1, <4>2
      <4>4. ~o.answer.more /\ ~in_exhaust'
        BY <1>2, <1>6, <2>4, <3>7
      <4> QED
        BY <1>0, <1>3, <2>1, <3>4, <3>5, <3>7, <4>3, <4>4, StreamReads
    <3> QED
      BY <3>6, <3>7
  <2> QED
    BY <2>2, <2>3, <2>4
<1> QED
  BY <1>2, <1>8, <1>9, <1>10 DEF Run

(* No reply arrives.                                                       *)
LEMMA ConnectionFailsPreserves ==
  ASSUME IInv, ConnectionFails, UNCHANGED stream PROVE IInv'
<1> DEFINE c == call.c
           k == cursor[c]
           s == call.loop.server
<1>0. call.at = "send" /\ call.at \in Commands /\ call.at \in {"send", "select"}
  BY DEF ConnectionFails, Commands
<1>1. /\ TypeOK /\ c \in Handles /\ k \in Cursors
      /\ Life(c, k, open, held) /\ Asking(call, k, in_exhaust)
      /\ Sending(call, k, held)
  BY <1>0, CommandFacts
<1>2. PICK t \in BOOLEAN :
        /\ IF t THEN UNCHANGED faults ELSE Fault
        /\ Lost(s, k.id)
        /\ AfterAttempt([k EXCEPT !.timed_out = t], ErrorAnswer(NetworkError))
  BY DEF ConnectionFails
<1>3. UNCHANGED <<history, now, in_exhaust, crossed>>
  BY DEF ConnectionFails
<1>4. s \in Servers /\ k.id \in Nat
  BY <1>1 DEF Sending, Cursors
<1>5. /\ OpenType(open') /\ streaming' \in [Servers -> Nat]
      /\ Touches(open, open', k.id)
      /\ k.id \notin DOMAIN open => Shrinks(open, open')
  BY <1>1, <1>2, <1>4, LostIs
<1>6. faults' \in 0..MaxFaults
  BY <1>1, <1>2, FaultTyped DEF TypeOK
<1>7. ServerTyped'
  BY <1>1, <1>3, <1>5, <1>6 DEF ServerTyped, TypeOK
<1> DEFINE a == ErrorAnswer(NetworkError)
<1>8. a.reply = NetworkError /\ a.reply \in Replies /\ ~a.reply.ok
  BY ErrorAnswerIs, RepliesTyped
<1>9. Retries(call.loop, a.reply) => Shrinks(open, open')
  <2>1. CASE call.cmd = "getMore"
    BY <1>1, <1>8, <2>1, NetworkNotRetried DEF Sending
  <2>2. CASE call.cmd # "getMore"
    <3>1. k.id = 0
      BY <1>1, <2>2 DEF Asking, Life
    <3>2. k.id \notin DOMAIN open
      BY <1>1, <3>1 DEF TypeOK
    <3> QED
      BY <1>5, <3>2
  <2> QED
    BY <2>1, <2>2
<1> HIDE DEF a
<1>10. AfterAttempt([k EXCEPT !.timed_out = t], a)
  BY <1>2 DEF a
<1> QED
  BY <1>0, <1>2, <1>3, <1>5, <1>7, <1>8, <1>9, <1>10, AttemptFails

----------------------------------------------------------------------------
(* No cursor                                                               *)
LEMMA NoCursorIs ==
  /\ NoCursor \in Cursors /\ NoCursor.id = 0 /\ ~NoCursor.live
  /\ NoCursor.batch = << >> /\ NoCursor.state = "Unprimed"
  /\ \A c, o, hl : 0 \notin DOMAIN o => Life(c, NoCursor, o, hl)
  /\ \A o : 0 \notin DOMAIN o => FindData(NoCursor, << >>, o)
<1>1. /\ NoCursor.id = 0 /\ NoCursor.live = FALSE /\ NoCursor.sess = 0
      /\ NoCursor.batch = << >> /\ NoCursor.state = "Unprimed"
      /\ NoCursor.explicit = FALSE /\ NoCursor.opt = FALSE
      /\ NoCursor.in_exhaust = FALSE /\ NoCursor.error = OkReply
  BY DEF NoCursor, NewCursor
<1>2. NoCursor \in Cursors
  <2>1. NewCursor(FALSE) \in Cursors
    BY RepliesTyped DEF NewCursor, Cursors
  <2> QED
    BY <2>1 DEF NoCursor, Cursors
<1>3. ASSUME NEW c, NEW o, NEW hl, 0 \notin DOMAIN o
      PROVE  Life(c, NoCursor, o, hl)
  BY <1>1, <1>3 DEF Life
<1>4. ASSUME NEW o, 0 \notin DOMAIN o PROVE FindData(NoCursor, << >>, o)
  BY <1>1, <1>4 DEF FindData
<1> QED
  BY <1>1, <1>2, <1>3, <1>4

(* Servers close cursors; the client does nothing.                         *)
LEMMA ServerStep ==
  ASSUME IInv, Shrinks(open, open'), ServerTyped',
         UNCHANGED <<history, now, in_exhaust, cursor, held, call, delivered,
                     stream>>
  PROVE  IInv'
<1>1. \A i : Keeps(open, open', i)
  BY DEF Shrinks, Keeps
<1>2. TypeOK'
  BY DEF IInv, TypeOK, ServerTyped, OpenType
<1>3. ASSUME NEW c \in Handles PROVE Life(c, cursor[c], open', held)
  BY <1>1, LifeFrame DEF IInv
<1>4. ASSUME NEW c \in Finds PROVE FindData(cursor[c], delivered[c], open')
  BY <1>1, FindDataFrame DEF IInv
<1>5. StreamData(cursor[W], stream, open', history, now, call, in_exhaust)
  <2>1. StreamData(cursor[W], stream, open, history, now, call, in_exhaust)
    BY DEF IInv
  <2>2. Keeps(open, open', cursor[W].id)
    BY <1>1
  <2> QED
    BY <2>1, <2>2, StreamDataSame
<1>6. /\ Distinct(cursor) /\ Calling(call, cursor, held, in_exhaust)
      /\ StreamState(call, cursor[W], held, stream, in_exhaust)
  BY DEF IInv
<1> QED
  BY <1>2, <1>3, <1>4, <1>5, <1>6 DEF IInv

(* A server drops an idle cursor.                                          *)
LEMMA ReapPreserves ==
  ASSUME IInv, Reap, UNCHANGED cursorVars, UNCHANGED stream PROVE IInv'
<1>1. TypeOK /\ OpenType(open)
  BY OpenTyped DEF IInv
<1>2. PICK id : open' = Remove({id})
  BY DEF Reap
<1>3. OpenType(open') /\ Shrinks(open, open')
  BY <1>1, <1>2, RemoveShrinks
<1>4. /\ UNCHANGED <<history, now, in_exhaust, cursor, held, call, delivered>>
      /\ streaming' = streaming /\ crossed' = crossed
  BY DEF Reap, cursorVars
<1>5. faults' \in 0..MaxFaults
  BY <1>1, FaultTyped DEF Reap
<1>6. ServerTyped'
  BY <1>1, <1>3, <1>4, <1>5 DEF ServerTyped, TypeOK
<1> QED
  BY <1>3, <1>4, <1>6, ServerStep

(* An entry of the history is written.                                     *)
LEMMA WritePreserves ==
  ASSUME IInv, Write, UNCHANGED cursorVars, UNCHANGED stream PROVE IInv'
<1>1. /\ UNCHANGED <<open, streaming, history, faults, in_exhaust, cursor,
                     held, call, delivered, crossed>>
      /\ now' = now + 1 /\ now < Len(history)
  BY DEF Write, cursorVars
<1>2. TypeOK /\ history \in Seq({"match", "other", "invalidate"})
  BY CursorServerAssumption DEF IInv, TypeOK
<1>3. Len(history) \in Nat /\ now \in Nat /\ now' \in 0..Len(history)
  BY <1>1, <1>2 DEF TypeOK
<1>4. TypeOK'
  BY <1>1, <1>2, <1>3 DEF TypeOK
<1>5. stream \in StreamRecords /\ cursor[W] \in Cursors
  BY <1>2, StreamHandle DEF TypeOK
<1>6. /\ stream.from \in Nat /\ stream.start \in Nat \cup {None}
      /\ stream.token \in Nat \cup {None} /\ stream.optime \in Nat \cup {None}
      /\ cursor[W].pbrt \in Nat
  BY <1>5 DEF StreamRecords, Cursors
<1>7. \A x \in Nat \cup {None} : x <= now => x <= now'
  BY <1>1, <1>3 DEF None
<1>8. StreamData(cursor[W], stream, open, history, now, call, in_exhaust)
  BY DEF IInv
<1>9. StreamData(cursor[W], stream, open, history, now', call, in_exhaust)
  <2>1. NotStarted(stream, now, call) => NotStarted(stream, now', call)
    BY <1>6, <1>7 DEF NotStarted
  <2>2. AtToken(stream, history, now) => AtToken(stream, history, now')
    BY <1>6, <1>7 DEF AtToken
  <2>3. AtTime(cursor[W], stream, history, now, call, in_exhaust) =>
          AtTime(cursor[W], stream, history, now', call, in_exhaust)
    BY <1>6, <1>7 DEF AtTime
  <2>4. Follows(cursor[W], stream, history, now, call) =>
          Follows(cursor[W], stream, history, now', call)
    BY <1>6, <1>7 DEF Follows
  <2> QED
    BY <1>6, <1>7, <1>8, <2>1, <2>2, <2>3, <2>4 DEF StreamData
<1> QED
  BY <1>1, <1>4, <1>9 DEF IInv

(* The deployment                                                          *)
LEMMA DeploymentPreserves ==
  ASSUME IInv, Deployment, UNCHANGED stream PROVE IInv'
BY WritePreserves, ReapPreserves DEF Deployment

(* A find is destroyed.                                                    *)
LEMMA GoneFind ==
  ASSUME IInv, NEW c \in Finds, Gone(c), cursor[c].live, ~OfStream(call),
         Shrinks(open, open'), ServerTyped', UNCHANGED <<history, now, stream>>
  PROVE  IInv'
<1>1. /\ TypeOK /\ c \in Handles /\ c # W /\ Life(c, cursor[c], open, held)
      /\ c \notin Streams
  BY FindFacts
<1>2. /\ cursor' = [cursor EXCEPT ![c] = NoCursor]
      /\ delivered' = [delivered EXCEPT ![c] = << >>] /\ call' = Idle
      /\ held' = held \ {cursor[c].sess}
  BY <1>1 DEF Gone, Life
<1>3. held \subseteq Handles /\ 0 \notin DOMAIN open' /\ DOMAIN open' \subseteq Nat \ {0}
  BY <1>1 DEF TypeOK, ServerTyped, OpenType
<1>4. held' \subseteq Handles /\ held \ {c} \subseteq held'
  <2>1. cursor[c].sess \in {0, c} /\ 0 \notin Handles
    BY <1>1, StreamHandle DEF Life
  <2> QED
    BY <1>2, <1>3, <2>1
<1>5. /\ NoCursor \in Cursors /\ Life(c, NoCursor, open', held')
      /\ FindData(NoCursor, << >>, open') /\ NoCursor.id = 0
  BY <1>3, NoCursorIs
<1>6. /\ ~OfStream(call') /\ call' \in Calls
      /\ Calling(call', cursor', held', in_exhaust')
  BY <1>2, IdleIs
<1>7. StepTyped'
  BY <1>4, <1>6 DEF StepTyped, ServerTyped
<1>8. \A d \in Handles : d # c => Keeps(open, open', cursor[d].id)
  BY DEF Shrinks, Keeps
<1>9. << >> \in Seq(Nat \ {0})
  OBVIOUS
<1>10. \A d \in Handles : d # c /\ NoCursor.id = cursor[d].id => NoCursor.id = 0
  BY <1>5
<1> QED
  BY <1>2, <1>4, <1>5, <1>6, <1>7, <1>8, <1>9, <1>10, FindStep

(* The cursor of the stream is destroyed.                                  *)
LEMMA GoneStream ==
  ASSUME IInv, Gone(W), cursor[W].live, OfStream(call),
         call.at \in {"kill", "discard"},
         Shrinks(open, open'), ServerTyped',
         UNCHANGED <<history, now, in_exhaust, stream>>
  PROVE  IInv'
<1>1. /\ TypeOK /\ W \in Handles /\ W \notin Finds /\ W \in Streams
      /\ Life(W, cursor[W], open, held) /\ call \in Calls
      /\ Calling(call, cursor, held, in_exhaust)
      /\ StreamState(call, cursor[W], held, stream, in_exhaust)
      /\ StreamData(cursor[W], stream, open, history, now, call, in_exhaust)
      /\ stream \in StreamRecords
  BY StreamFacts, StreamHandle
<1>2. cursor[W].explicit
  BY <1>1 DEF Life
<1>3. /\ cursor' = [cursor EXCEPT ![W] = NoCursor] /\ delivered' = delivered
      /\ call' = [call EXCEPT !.at = "destroyed"] /\ held' = held
  BY <1>1, <1>2 DEF Gone
<1>4. /\ call' \in Calls /\ call'.at = "destroyed" /\ call'.doc = call.doc
      /\ call'.resume = call.resume
  BY <1>1, <1>3 DEF Calls
<1>5. 0 \notin DOMAIN open' /\ held' \subseteq Handles
  BY <1>1, <1>3 DEF TypeOK, ServerTyped, OpenType
<1>6. /\ NoCursor \in Cursors /\ Life(W, NoCursor, open', held')
      /\ NoCursor.id = 0 /\ ~NoCursor.live
  BY <1>5, NoCursorIs
<1>7. call'.doc = 0
  BY <1>1, <1>4 DEF Calling
<1>8. Calling(call', cursor', held', in_exhaust')
  BY <1>4, <1>7, CallingStream DEF StreamPoints
<1>9. stream.live /\ stream.start # None
  BY <1>1 DEF StreamState
<1>10. StreamState(call', NoCursor, held', stream, in_exhaust')
  <2>1. OfStream(call')
    BY <1>4 DEF OfStream, StreamPoints
  <2>2. call'.resume => ~stream.err /\ stream.resumed /\ stream.start # None
    BY <1>1, <1>4 DEF StreamState
  <2> QED
    BY <1>4, <1>6, <1>9, <2>1, <2>2 DEF StreamState, Making
<1>11. StreamData(NoCursor, stream, open', history, now, call', in_exhaust')
  <2>1. AtTime(cursor[W], stream, history, now, call, in_exhaust) =>
          AtTime(NoCursor, stream, history, now, call', in_exhaust')
    BY <1>4, <1>6 DEF AtTime
  <2> QED
    BY <1>1, <1>5, <1>6, <1>9, <2>1 DEF StreamData
<1>12. StepTyped'
  BY <1>4, <1>5 DEF StepTyped, ServerTyped
<1>13. \A d \in Handles : d # W => Keeps(open, open', cursor[d].id)
  BY DEF Shrinks, Keeps
<1>14. /\ \A d \in Handles : d # W /\ NoCursor.id = cursor[d].id => NoCursor.id = 0
       /\ held \ {W} \subseteq held'
  BY <1>3, <1>6
<1> QED
  BY <1>1, <1>3, <1>6, <1>8, <1>10, <1>11, <1>12, <1>13, <1>14, StreamStep

(* mongoc_cursor_destroy of a find                                         *)
LEMMA FindDestroyPreserves ==
  ASSUME IInv, FindDestroy, UNCHANGED stream PROVE IInv'
<1>1. PICK c \in Finds : cursor[c].live /\ Destroy(c)
  BY DEF FindDestroy
<1> DEFINE k == cursor[c]
<1>2. /\ TypeOK /\ StepTyped /\ c \in Handles /\ c # W /\ k \in Cursors
      /\ Life(c, k, open, held) /\ FindData(k, delivered[c], open)
      /\ delivered[c] \in Seq(Nat \ {0})
      /\ \A d \in Handles : d # c /\ k.id = cursor[d].id => k.id = 0
      /\ Calling(call, cursor, held, in_exhaust)
  BY FindFacts
<1>3. call = Idle /\ ~OfStream(call)
  BY <1>2, IdleIs DEF FindDestroy, Calling
<1>4. OpenType(open) /\ Shrinks(open, open)
  BY <1>2, OpenTyped DEF Shrinks
<1>5. CASE k.in_exhaust
  <2>1. /\ in_exhaust' = FALSE /\ Gone(c)
        /\ UNCHANGED <<history, now, faults, crossed>>
        /\ \/ Disconnected(k.server)
           \/ UNCHANGED <<open, streaming>>
    BY <1>1, <1>5 DEF Destroy
  <2>2. /\ OpenType(open') /\ Shrinks(open, open')
        /\ streaming' \in [Servers -> Nat]
    <3>1. streaming \in [Servers -> Nat]
      BY <1>2 DEF TypeOK
    <3>2. CASE UNCHANGED <<open, streaming>>
      BY <1>4, <3>1, <3>2
    <3>3. CASE Disconnected(k.server)
      <4>1. open' = Remove({streaming[k.server]})
            /\ streaming' = [streaming EXCEPT ![k.server] = 0]
        BY <3>3 DEF Disconnected
      <4>2. OpenType(open') /\ Shrinks(open, open')
        BY <1>4, <4>1, RemoveShrinks
      <4> QED
        BY <3>1, <4>1, <4>2
    <3> QED
      BY <2>1, <3>2, <3>3
  <2>3. ServerTyped'
    BY <1>2, <2>1, <2>2 DEF ServerTyped, TypeOK
  <2> QED
    BY <1>1, <1>3, <2>1, <2>2, <2>3, GoneFind
<1>6. CASE ~k.in_exhaust
  <2>1. UNCHANGED <<open, streaming, history, now, faults, in_exhaust, crossed>>
    BY <1>1, <1>6 DEF Destroy, serverVars
  <2>2. Shrinks(open, open') /\ ServerTyped'
    BY <1>2, <1>4, <2>1 DEF ServerTyped, TypeOK
  <2>3. CASE Gone(c)
    BY <1>1, <1>3, <2>1, <2>2, <2>3, GoneFind
  <2>4. CASE /\ k.id # 0 /\ call' = [call EXCEPT !.at = "kill", !.c = c]
             /\ UNCHANGED <<cursor, held, delivered>>
    <3>1. /\ call' \in Calls /\ call'.at = "kill" /\ call'.c = c
          /\ call'.doc = call.doc /\ call'.resume = call.resume
      BY <1>2, <2>4 DEF StepTyped, Calls
    <3>2. call'.doc = 0 /\ call'.resume = FALSE
      BY <1>3, <3>1, IdleIs
    <3>3. ~OfStream(call')
      BY <1>2, <3>1 DEF OfStream, StreamPoints, Commands
    <3>4. Calling(call', cursor', held', in_exhaust')
      BY <1>1, <1>2, <2>4, <3>1, <3>2 DEF Calling, Commands
    <3>5. cursor' = [cursor EXCEPT ![c] = k] /\ delivered' = [delivered EXCEPT ![c] = delivered[c]]
      BY <1>2, <2>4 DEF TypeOK
    <3>6. StepTyped'
      BY <1>2, <2>1, <2>4, <3>1 DEF StepTyped
    <3>7. /\ \A d \in Handles : d # c => Keeps(open, open', cursor[d].id)
          /\ held \ {c} \subseteq held'
          /\ Life(c, k, open', held') /\ FindData(k, delivered[c], open')
      BY <1>2, <2>1, <2>4, KeepsAll
    <3> HIDE DEF k
    <3> QED
      BY <1>2, <1>3, <2>1, <3>3, <3>4, <3>5, <3>6, <3>7, FindStep
  <2> QED
    BY <1>1, <1>6, <2>3, <2>4 DEF Destroy
<1> QED
  BY <1>5, <1>6

(* The cursor of the stream is destroyed, or killCursors is sent for it.   *)
LEMMA DiscardPreserves == ASSUME IInv, Discard PROVE IInv'
<1> DEFINE k == cursor[W]
<1>1. /\ TypeOK /\ StepTyped /\ W \in Handles /\ W \notin Finds /\ W \in Streams
      /\ k \in Cursors
      /\ Life(W, k, open, held) /\ call \in Calls
      /\ Calling(call, cursor, held, in_exhaust)
      /\ StreamState(call, k, held, stream, in_exhaust)
      /\ StreamData(k, stream, open, history, now, call, in_exhaust)
      /\ stream \in StreamRecords
      /\ \A d \in Handles : d # W /\ k.id = cursor[d].id => k.id = 0
  BY StreamFacts, StreamHandle
<1>2. call.at = "discard" /\ Destroy(W) /\ stream' = stream
  BY DEF Discard
<1>3. OfStream(call) /\ k.live /\ ~k.in_exhaust
  BY <1>1, <1>2 DEF OfStream, StreamPoints, StreamState, Life
<1>4. UNCHANGED <<open, streaming, history, now, faults, in_exhaust, crossed>>
  BY <1>2, <1>3 DEF Destroy, serverVars
<1>5. Shrinks(open, open') /\ ServerTyped'
  BY <1>1, <1>4 DEF ServerTyped, StepTyped, Shrinks
<1>6. CASE Gone(W)
  BY <1>2, <1>3, <1>4, <1>5, <1>6, GoneStream
<1>7. CASE /\ k.id # 0 /\ call' = [call EXCEPT !.at = "kill", !.c = W]
           /\ UNCHANGED <<cursor, held, delivered>>
  <2>1. /\ call' \in Calls /\ call'.at = "kill" /\ call'.c = W
        /\ call'.doc = call.doc /\ call'.resume = call.resume
    BY <1>1, <1>7 DEF Calls
  <2>2. call'.doc = 0 /\ OfStream(call') /\ stream.live /\ stream.start # None
    BY <1>1, <1>2, <1>3, <2>1 DEF Calling, OfStream, StreamState
  <2>3. Calling(call', cursor', held', in_exhaust')
    BY <1>1, <1>3, <1>7, <2>1, <2>2 DEF Calling, Commands
  <2>4. StreamState(call', k, held', stream, in_exhaust')
    <3>1. call'.resume => ~stream.err /\ stream.resumed /\ stream.start # None
      BY <1>1, <2>1 DEF StreamState
    <3> QED
      BY <2>1, <2>2, <3>1 DEF StreamState, Making
  <2>5. StreamData(k, stream, open', history, now, call', in_exhaust')
    <3>1. Taken(stream, call') = Taken(stream, call) /\ Keeps(open, open', k.id)
      BY <1>2, <1>4, <2>1, KeepsAll DEF Taken
    <3> QED
      BY <1>1, <1>4, <2>1, <3>1, StreamDataSame
  <2>6. cursor' = [cursor EXCEPT ![W] = k]
    BY <1>1, <1>7 DEF TypeOK
  <2>7. StepTyped'
    BY <1>1, <1>4, <1>7, <2>1 DEF StepTyped
  <2>8. /\ \A d \in Handles : d # W => Keeps(open, open', cursor[d].id)
        /\ held \ {W} \subseteq held' /\ Life(W, k, open', held')
    BY <1>1, <1>4, <1>7, KeepsAll
  <2> HIDE DEF k
  <2> QED
    BY <1>1, <1>2, <1>4, <1>7, <2>3, <2>4, <2>5, <2>6, <2>7, <2>8, StreamStep
<1> QED
  BY <1>2, <1>3, <1>6, <1>7 DEF Destroy

(* The end of mongoc_cursor_destroy after killCursors.                     *)
LEMMA Killed ==
  ASSUME IInv, call.at = "kill", Gone(call.c), Shrinks(open, open'),
         ServerTyped', UNCHANGED <<history, now, in_exhaust, stream>>
  PROVE  IInv'
<1>1. call.c \in Handles /\ cursor[call.c].live
  BY DEF IInv, Calling
<1>2. CASE call.c = W
  BY <1>1, <1>2, GoneStream DEF OfStream
<1>3. CASE call.c # W
  <2>1. call.c \in Finds /\ ~OfStream(call)
    BY <1>1, <1>3, StreamHandle DEF OfStream, StreamPoints, Commands
  <2> QED
    BY <1>1, <2>1, GoneFind
<1> QED
  BY <1>2, <1>3

(* _mongoc_client_kill_cursor                                              *)
LEMMA KillPreserves == ASSUME IInv, Kill, UNCHANGED stream PROVE IInv'
<1> DEFINE k == cursor[call.c]
<1>1. TypeOK /\ OpenType(open)
  BY OpenTyped DEF IInv
<1>2. /\ call.at = "kill" /\ Gone(call.c)
      /\ crossed' = (crossed \/ Crosses(k.server, k.id))
      /\ open' = Remove(KilledBy(k))
      /\ UNCHANGED <<streaming, history, now, faults, in_exhaust>>
  BY DEF Kill
<1>3. OpenType(open') /\ Shrinks(open, open')
  BY <1>1, <1>2, RemoveShrinks
<1>4. crossed' \in BOOLEAN
  BY <1>1, <1>2 DEF TypeOK, Crosses
<1>5. ServerTyped'
  BY <1>1, <1>2, <1>3, <1>4 DEF ServerTyped, TypeOK
<1> QED
  BY <1>2, <1>3, <1>5, Killed

(* killCursors is not sent, or fails                                       *)
LEMMA KillFailsPreserves == ASSUME IInv, KillFails, UNCHANGED stream PROVE IInv'
<1> DEFINE k == cursor[call.c]
<1>1. TypeOK /\ OpenType(open)
  BY OpenTyped DEF IInv
<1>2. /\ call.at = "kill" /\ Gone(call.c)
      /\ UNCHANGED <<history, now, in_exhaust, crossed>>
  BY DEF KillFails
<1>3. \/ UNCHANGED <<open, streaming, faults>>
      \/ /\ Fault /\ \E ids : open' = Remove(ids)
         /\ streaming' = [streaming EXCEPT ![k.server] = 0]
  BY DEF KillFails
<1>4. OpenType(open') /\ Shrinks(open, open')
  <2>1. CASE open' = open
    BY <1>1, <2>1 DEF Shrinks
  <2>2. CASE \E ids : open' = Remove(ids)
    BY <1>1, <2>2, RemoveShrinks
  <2> QED
    BY <1>3, <2>1, <2>2
<1>5. streaming' \in [Servers -> Nat] /\ faults' \in 0..MaxFaults
  BY <1>1, <1>3, FaultTyped DEF TypeOK
<1>6. ServerTyped'
  BY <1>1, <1>2, <1>4, <1>5 DEF ServerTyped, TypeOK
<1> QED
  BY <1>2, <1>4, <1>6, Killed

----------------------------------------------------------------------------
(* A step of the stream that leaves its cursor as it is.                   *)
LEMMA StreamCall ==
  ASSUME IInv, NEW st \in StreamRecords, stream' = st, cursor' = cursor,
         Shrinks(open, open'), ServerTyped', in_exhaust' = in_exhaust,
         UNCHANGED <<history, now, delivered>>, call' \in Calls,
         held \ {W} \subseteq held', held' \subseteq Handles,
         cursor[W].id # 0 => W \in held',
         Calling(call', cursor, held', in_exhaust),
         StreamState(call', cursor[W], held', st, in_exhaust),
         StreamData(cursor[W], st, open, history, now, call', in_exhaust)
  PROVE  IInv'
<1> DEFINE k == cursor[W]
<1>1. /\ TypeOK /\ W \in Handles /\ k \in Cursors /\ Life(W, k, open, held)
      /\ \A d \in Handles : d # W /\ k.id = cursor[d].id => k.id = 0
  BY StreamFacts
<1>2. \A i : Keeps(open, open', i)
  BY DEF Shrinks, Keeps
<1>3. cursor' = [cursor EXCEPT ![W] = k]
  BY <1>1 DEF TypeOK
<1>4. Life(W, k, open', held')
  <2>1. k.id \in DOMAIN open' => k.id \in DOMAIN open /\ open'[k.id] = open[k.id]
    BY <1>2 DEF Keeps
  <2> QED
    BY <1>1, <2>1 DEF Life
<1>5. StreamData(k, st, open', history, now, call', in_exhaust')
  <2>1. StreamData(k, st, open, history, now, call', in_exhaust)
    OBVIOUS
  <2>2. Keeps(open, open', k.id)
    BY <1>2
  <2>3. StreamData(k, st, open', history, now, call', in_exhaust)
    BY <2>1, <2>2, StreamDataSame
  <2> QED
    BY <2>3
<1>6. StepTyped'
  BY DEF StepTyped, ServerTyped
<1>7. /\ Calling(call', cursor', held', in_exhaust')
      /\ StreamState(call', k, held', st, in_exhaust')
  OBVIOUS
<1> HIDE DEF k
<1> QED
  BY <1>1, <1>2, <1>3, <1>4, <1>5, <1>6, <1>7, StreamStep

(* The data of the stream does not depend on its flags.                    *)
LEMMA StreamDataOf ==
  ASSUME NEW k, NEW st, NEW su, NEW o, NEW h, NEW nw, NEW cl, NEW ex,
         StreamData(k, st, o, h, nw, cl, ex),
         su.seen = st.seen, su.from = st.from, su.option = st.option,
         su.optime = st.optime, su.token = st.token, su.start = st.start
  PROVE  StreamData(k, su, o, h, nw, cl, ex)
<1>1. Taken(su, cl) = Taken(st, cl)
  BY DEF Taken
<1>2. NotStarted(st, nw, cl) => NotStarted(su, nw, cl)
  BY DEF NotStarted
<1>3. AtToken(st, h, nw) => AtToken(su, h, nw)
  BY DEF AtToken
<1>4. AtTime(k, st, h, nw, cl, ex) => AtTime(k, su, h, nw, cl, ex)
  BY DEF AtTime
<1>5. Follows(k, st, h, nw, cl) => Follows(k, su, h, nw, cl)
  BY <1>1 DEF Follows
<1> QED
  BY <1>2, <1>3, <1>4, <1>5 DEF StreamData

(* No stream                                                               *)
LEMMA NoStreamIs ==
  /\ NoStream \in StreamRecords /\ NoStream.live = FALSE
  /\ NoStream.start = None /\ NoStream.from = 0 /\ NoStream.option = "none"
  /\ NoStream.optime = None /\ NoStream.token = None
  /\ NoStream.seen = << >> /\ NoStream.sess = 0 /\ NoStream.err = FALSE
  /\ NoStream.resumed = FALSE
BY DEF NoStream, StreamRecords, StartOptions

(* What holds between two calls.                                           *)
LEMMA IdleFacts ==
  ASSUME IInv, call.at = "idle"
  PROVE  /\ call = Idle /\ ~OfStream(call) /\ call.doc = 0 /\ ~call.resume
         /\ stream.live /\ ~stream.err => cursor[W].live /\ ~Failed(cursor[W])
         /\ ~stream.live => stream = NoStream
         /\ cursor[W].live => stream.live /\ stream.start # None
         /\ ~cursor[W].live => cursor[W] = NoCursor
         /\ stream.start = None /\ stream.live => stream.err
<1>1. /\ Calling(call, cursor, held, in_exhaust) /\ Life(W, cursor[W], open, held)
      /\ StreamState(call, cursor[W], held, stream, in_exhaust)
  BY StreamFacts
<1>2. call = Idle
  BY <1>1 DEF Calling
<1>3. ~OfStream(call) /\ call.doc = 0 /\ ~call.resume
  BY <1>2, IdleIs
<1> QED
  BY <1>1, <1>2, <1>3 DEF StreamState, Life, Making

(* Only a cursor of its own can be open for a stream that has none.        *)
LEMMA NoCursorData ==
  ASSUME IInv, NEW st, NEW cl, ~cursor[W].live,
         st.start = None => NotStarted(st, now, cl),
         st.start # None => st.start <= now,
         st.start # None /\ st.token # None => AtToken(st, history, now),
         st.start # None /\ st.token = None =>
           AtTime(NoCursor, st, history, now, cl, in_exhaust)
  PROVE  /\ cursor[W] = NoCursor /\ cursor[W].id = 0
         /\ StreamData(cursor[W], st, open, history, now, cl, in_exhaust)
<1>1. TypeOK /\ Life(W, cursor[W], open, held)
  BY StreamFacts
<1>2. cursor[W] = NoCursor /\ 0 \notin DOMAIN open
  BY <1>1 DEF Life, TypeOK
<1>3. cursor[W].id = 0
  BY <1>2, NoCursorIs
<1> QED
  BY <1>2, <1>3 DEF StreamData

(* _change_stream_init                                                     *)
LEMMA WatchPreserves == ASSUME IInv, Watch PROVE IInv'
<1>1. /\ TypeOK /\ call \in Calls /\ now \in Nat
      /\ StreamState(call, cursor[W], held, stream, in_exhaust)
  BY StreamFacts
<1>2. /\ call = Idle /\ ~call.resume /\ call.doc = 0 /\ ~cursor[W].live
  BY IdleFacts DEF Watch
<1>3. PICK option \in StartOptions, from \in Nat :
        /\ from \in IF option = "none" THEN {0} ELSE Starts \cap 0..now
        /\ stream' = [NoStream EXCEPT !.live = TRUE, !.option = option,
                    !.from = from,
                    !.optime = IF option = "atTime" THEN from ELSE None]
  BY StreamAssumption DEF Watch
<1> DEFINE st == stream'
<1>4. from \in Nat /\ from <= now
  BY <1>1, <1>3
<1>5. /\ st.live = TRUE /\ st.option = option /\ st.from = from
      /\ st.optime = (IF option = "atTime" THEN from ELSE None)
      /\ st.start = None /\ st.token = None /\ st.seen = << >>
      /\ st.err = FALSE /\ st.resumed = FALSE
  BY <1>3, NoStreamIs DEF NoStream
<1>6. st \in StreamRecords
  BY <1>3, <1>4, NoStreamIs DEF StreamRecords
<1>7. /\ call' = [call EXCEPT !.at = "make"]
      /\ UNCHANGED <<open, streaming, history, now, faults, in_exhaust, cursor,
                     held, delivered, crossed>>
  BY DEF Watch, serverVars
<1>8. /\ call' \in Calls /\ call'.at = "make" /\ call'.resume = call.resume
      /\ call'.doc = call.doc
  BY <1>1, <1>7 DEF Calls
<1> HIDE DEF st
<1>9. Calling(call', cursor, held', in_exhaust)
  BY <1>2, <1>8, CallingStream DEF StreamPoints
<1>10. StreamState(call', cursor[W], held', st, in_exhaust)
  <2>1. OfStream(call') /\ st.live /\ ~st.err /\ ~st.resumed /\ ~call'.resume
    BY <1>2, <1>5, <1>8 DEF OfStream, StreamPoints
  <2> QED
    BY <1>2, <1>5, <1>8, <2>1 DEF StreamState, Making
<1>11. NotStarted(st, now, call')
  BY <1>4, <1>5, <1>8 DEF NotStarted
<1>12. /\ StreamData(cursor[W], st, open, history, now, call', in_exhaust)
       /\ cursor[W].id = 0
  BY <1>2, <1>5, <1>11, NoCursorData
<1>13. Shrinks(open, open') /\ ServerTyped'
  BY <1>1, <1>7, OpenTyped DEF Shrinks, ServerTyped, TypeOK
<1>14. held' \subseteq Handles /\ held \ {W} \subseteq held'
  BY <1>1, <1>7 DEF TypeOK
<1>15. stream' = st
  BY DEF st
<1> QED
  BY <1>6, <1>7, <1>8, <1>9, <1>10, <1>12, <1>13, <1>14, <1>15, StreamCall

(* Where mongoc_change_stream_next ends.                                   *)
LEMMA EndNextStep ==
  ASSUME IInv, NEW st \in StreamRecords, EndNext(st), st.live,
         ~st.err => cursor[W].live /\ ~Failed(cursor[W]),
         cursor[W].live => st.start # None, st.start = None => st.err,
         StreamData(cursor[W], st, open, history, now, Idle, in_exhaust)
  PROVE  IInv'
<1> DEFINE k == cursor[W]
           over == ~k.live \/ k.id = 0
           token == IF k.live /\ ~Failed(k) /\ k.batch = << >>
                      THEN k.pbrt ELSE st.token
           su == [st EXCEPT !.token = token, !.sess = IF over THEN 0 ELSE @]
<1>1. /\ TypeOK /\ W \in Handles /\ k \in Cursors /\ Life(W, k, open, held)
      /\ now \in Nat
  BY StreamFacts
<1>2. /\ stream' = su /\ call' = Idle
      /\ held' = (IF over THEN held \ {st.sess} ELSE held)
      /\ UNCHANGED <<open, streaming, history, now, faults, in_exhaust, cursor,
                     delivered, crossed>>
  BY DEF EndNext, serverVars
<1>3. k.pbrt \in Nat /\ st.sess \in {0, W} /\ 0 \notin Handles
  BY <1>1, StreamHandle DEF Cursors, StreamRecords
<1>4. token \in Nat \cup {None}
  BY <1>3 DEF StreamRecords
<1> HIDE DEF token
<1>5. /\ su \in StreamRecords /\ su.seen = st.seen /\ su.from = st.from
      /\ su.option = st.option /\ su.optime = st.optime /\ su.start = st.start
      /\ su.token = token /\ su.live = st.live /\ su.err = st.err
      /\ su.resumed = st.resumed
  BY <1>4 DEF StreamRecords
<1> HIDE DEF su
<1>6. /\ held \ {W} \subseteq held' /\ held' \subseteq Handles
      /\ k.id # 0 => W \in held'
  <2>1. held \subseteq Handles
    BY <1>1 DEF TypeOK
  <2>2. k.id # 0 => ~over /\ W \in held
    <3>1. ~k.live => k.id = 0
      BY <1>1, NoCursorIs DEF Life
    <3> QED
      BY <1>1, <3>1 DEF Life
  <2> QED
    BY <1>2, <1>3, <2>1, <2>2
<1>7. /\ Idle \in Calls /\ Calling(Idle, cursor, held', in_exhaust)
      /\ ~OfStream(Idle) /\ Idle.at = "idle" /\ ~Idle.resume
  BY IdleIs
<1>8. StreamState(Idle, k, held', su, in_exhaust)
  BY <1>5, <1>7 DEF StreamState, Making
<1>9. StreamData(k, su, open, history, now, Idle, in_exhaust)
  <2>1. CASE k.live /\ ~Failed(k) /\ k.batch = << >>
    <3>1. /\ token = k.pbrt /\ token # None /\ su.start # None
          /\ Taken(su, Idle) = su.seen /\ Taken(st, Idle) = st.seen
      BY <1>3, <1>5, <1>7, <2>1 DEF token, None, Taken
    <3>2. Follows(k, st, history, now, Idle)
      BY <2>1 DEF StreamData
    <3>3. Follows(k, su, history, now, Idle)
      BY <1>5, <3>1, <3>2 DEF Follows
    <3>4. st.seen \in Seq(Nat \ {0})
      BY DEF StreamRecords
    <3>5. st.seen \o << >> = st.seen
      BY <3>4
    <3>6. AtToken(su, history, now)
      BY <1>5, <2>1, <3>1, <3>2, <3>5 DEF AtToken, Follows
    <3> QED
      BY <1>5, <3>1, <3>3, <3>6 DEF StreamData
  <2>2. CASE ~(k.live /\ ~Failed(k) /\ k.batch = << >>)
    <3>1. su.token = st.token
      BY <1>5, <2>2 DEF token
    <3> HIDE DEF k
    <3> QED
      BY <1>5, <3>1, StreamDataOf DEF k
  <2> QED
    BY <2>1, <2>2
<1>10. Shrinks(open, open') /\ ServerTyped'
  BY <1>1, <1>2, OpenTyped DEF Shrinks, ServerTyped, TypeOK
<1> HIDE DEF k
<1> QED
  BY <1>2, <1>5, <1>6, <1>7, <1>8, <1>9, <1>10, StreamCall DEF k

(* What the stream may rely on when its cursor has advanced.               *)
LEMMA AdvancedFacts ==
  ASSUME IInv, call.at = "advanced"
  PROVE  /\ cursor[W].live /\ stream.live /\ ~stream.err
         /\ stream.start # None /\ stream.start \in Nat
         /\ Follows(cursor[W], stream, history, now, call)
         /\ call.doc # 0 => ~Failed(cursor[W])
         /\ call.doc = 0 /\ ~in_exhaust => cursor[W].batch = << >>
         /\ call.doc \in Nat
<1>1. /\ StreamState(call, cursor[W], held, stream, in_exhaust)
      /\ StreamData(cursor[W], stream, open, history, now, call, in_exhaust)
      /\ stream \in StreamRecords /\ call \in Calls
  BY StreamFacts
<1>2. OfStream(call)
  BY DEF OfStream, StreamPoints
<1>3. stream.start \in Nat \cup {None} /\ call.doc \in Nat
  BY <1>1 DEF StreamRecords, Calls
<1> QED
  BY <1>1, <1>2, <1>3 DEF StreamState, StreamData

(* An event is returned.                                                   *)
LEMMA DeliverPreserves == ASSUME IInv, Deliver PROVE IInv'
<1> DEFINE k == cursor[W]
           doc == call.doc
           st == [stream EXCEPT !.returned = TRUE, !.token = doc,
                    !.optime = None, !.seen = Append(@, doc)]
<1>1. call.at = "advanced" /\ doc # 0 /\ EndNext(st)
  BY DEF Deliver
<1>2. /\ k.live /\ stream.live /\ ~stream.err
      /\ stream.start # None /\ stream.start \in Nat
      /\ Follows(k, stream, history, now, call)
      /\ ~Failed(k) /\ doc \in Nat
  BY <1>1, AdvancedFacts
<1>3. /\ TypeOK /\ k \in Cursors /\ stream \in StreamRecords /\ now \in Nat
      /\ StreamData(k, stream, open, history, now, call, in_exhaust)
  BY StreamFacts
<1>4. k.batch \in Seq(Nat \ {0}) /\ k.pbrt \in Nat /\ stream.seen \in Seq(Nat \ {0})
  BY <1>3 DEF Cursors, StreamRecords
<1>5. /\ st \in StreamRecords /\ st.seen = Append(stream.seen, doc)
      /\ st.token = doc /\ st.start = stream.start /\ st.live = stream.live
      /\ st.err = stream.err
  <2>1. Append(stream.seen, doc) \in Seq(Nat \ {0}) /\ doc \in Nat \cup {None}
    BY <1>1, <1>2, <1>4
  <2> HIDE DEF doc
  <2> QED
    BY <1>3, <2>1 DEF StreamRecords
<1> HIDE DEF st, k, doc
<1> DEFINE s == Append(stream.seen, doc)
           S == Between(history, stream.start, k.pbrt)
<1>6. /\ s \in Seq(Nat) /\ k.batch \in Seq(Nat) /\ s # << >> /\ s[Len(s)] = doc
  BY <1>1, <1>2, <1>4
<1>7. /\ Taken(stream, call) = s /\ s \o k.batch = InOrder(S)
      /\ stream.start <= k.pbrt /\ k.pbrt <= now
  BY <1>1, <1>2 DEF Taken, Follows, doc
<1>8. S \in SUBSET (0..k.pbrt)
  BY <1>2, <1>4 DEF Between
<1> HIDE DEF s, S
<1>9. doc \in S /\ s = InOrder({i \in S : i <= doc})
  <2>1. s[Len(s)] \in S /\ s = InOrder({i \in S : i <= s[Len(s)]})
    BY <1>4, <1>6, <1>7, <1>8, InOrderPrefix
  <2> QED
    BY <1>6, <2>1
<1>10. {i \in S : i <= doc} = Between(history, stream.start, doc)
       /\ stream.start <= doc /\ doc <= now
  BY <1>2, <1>3, <1>4, <1>7, <1>9 DEF S, Between
<1>11. AtToken(st, history, now)
  BY <1>5, <1>9, <1>10 DEF AtToken, s
<1>12. Follows(k, st, history, now, Idle)
  <2>1. Taken(st, Idle) = s
    BY <1>5, IdleIs DEF Taken, s
  <2> QED
    BY <1>5, <1>7, <2>1 DEF Follows, S
<1>13. st.token # None /\ st.start # None /\ st.start <= now
  BY <1>2, <1>3, <1>4, <1>5, <1>7 DEF None
<1>14. StreamData(k, st, open, history, now, Idle, in_exhaust)
  BY <1>3, <1>11, <1>12, <1>13 DEF StreamData
<1> QED
  BY <1>1, <1>2, <1>5, <1>13, <1>14, EndNextStep DEF k

(* There is no event, and no error.                                        *)
LEMMA NothingNewPreserves == ASSUME IInv, NothingNew PROVE IInv'
<1>1. call.at = "advanced" /\ call.doc = 0 /\ ~Failed(cursor[W]) /\ EndNext(stream)
  BY DEF NothingNew
<1>2. /\ cursor[W].live /\ stream.live /\ ~stream.err /\ stream.start # None
      /\ stream \in StreamRecords
      /\ StreamData(cursor[W], stream, open, history, now, call, in_exhaust)
  BY <1>1, AdvancedFacts, StreamFacts
<1>3. Taken(stream, Idle) = Taken(stream, call)
  BY <1>1, IdleIs DEF Taken
<1>4. Keeps(open, open, cursor[W].id) /\ ~Idle.resume /\ Idle.at = "idle"
  BY KeepsAll, IdleIs
<1>5. StreamData(cursor[W], stream, open, history, now, Idle, in_exhaust)
  BY <1>2, <1>3, <1>4, StreamDataSame
<1> QED
  BY <1>1, <1>2, <1>5, EndNextStep

(* The stream fails.                                                       *)
LEMMA StreamFailsPreserves == ASSUME IInv, StreamFails PROVE IInv'
<1> DEFINE st == [stream EXCEPT !.err = TRUE]
<1>1. call.at = "advanced" /\ call.doc = 0 /\ EndNext(st)
  BY DEF StreamFails
<1>2. /\ cursor[W].live /\ stream.live /\ ~stream.err /\ stream.start # None
      /\ stream \in StreamRecords
      /\ StreamData(cursor[W], stream, open, history, now, call, in_exhaust)
  BY <1>1, AdvancedFacts, StreamFacts
<1>3. Taken(stream, Idle) = Taken(stream, call)
  BY <1>1, IdleIs DEF Taken
<1>4. Keeps(open, open, cursor[W].id) /\ ~Idle.resume /\ Idle.at = "idle"
  BY KeepsAll, IdleIs
<1>5. StreamData(cursor[W], stream, open, history, now, Idle, in_exhaust)
  BY <1>2, <1>3, <1>4, StreamDataSame
<1>6. /\ st \in StreamRecords /\ st.seen = stream.seen /\ st.from = stream.from
      /\ st.option = stream.option /\ st.optime = stream.optime
      /\ st.start = stream.start /\ st.token = stream.token
      /\ st.live = stream.live /\ st.err = TRUE
  BY <1>2 DEF StreamRecords
<1> HIDE DEF st
<1>7. StreamData(cursor[W], st, open, history, now, Idle, in_exhaust)
  BY <1>5, <1>6, StreamDataOf
<1> QED
  BY <1>1, <1>2, <1>6, <1>7, EndNextStep

(* mongoc_cursor_next of the stream's cursor is called.                    *)
LEMMA EnterNextStream ==
  ASSUME IInv, call.at \in {"idle", "next"}, stream.live, ~stream.err,
         cursor[W].live, ~Failed(cursor[W]), EnterNext(W), UNCHANGED stream
  PROVE  IInv'
<1> DEFINE k == cursor[W]
<1>1. /\ TypeOK /\ StepTyped /\ W \in Handles /\ W \in Streams /\ k \in Cursors
      /\ Life(W, k, open, held) /\ call \in Calls
      /\ Calling(call, cursor, held, in_exhaust)
      /\ StreamState(call, k, held, stream, in_exhaust)
      /\ StreamData(k, stream, open, history, now, call, in_exhaust)
      /\ stream \in StreamRecords
      /\ \A d \in Handles : d # W /\ k.id = cursor[d].id => k.id = 0
  BY StreamFacts, StreamHandle
<1>2. /\ UNCHANGED <<open, streaming, history, now, faults, in_exhaust, held,
                     crossed>>
      /\ \/ /\ k.state = "Done" \/ in_exhaust
            /\ Returns(W, [k EXCEPT !.error = Local], 0)
         \/ Proceed(W, k, FALSE) /\ ~in_exhaust
  BY <1>1 DEF EnterNext, serverVars, Life
<1>3. call.doc = 0 /\ call.at # "advanced"
  BY <1>1 DEF Calling
<1>4. \A d \in Handles : d # W => Keeps(open, open', cursor[d].id)
  BY <1>2, KeepsAll
<1>5. /\ held \ {W} \subseteq held' /\ held' \subseteq Handles
      /\ Life(W, k, open', held') /\ ServerTyped'
  BY <1>1, <1>2 DEF StepTyped, ServerTyped
<1>6. CASE Proceed(W, k, FALSE) /\ ~in_exhaust
  <2>1. ~in_exhaust' /\ StreamData(k, stream, open', history, now, call, in_exhaust')
    BY <1>1, <1>2, <1>6
  <2>2. FALSE \in BOOLEAN
    OBVIOUS
  <2>3. k.live /\ ~Failed(k) /\ UNCHANGED <<history, now, stream>>
    BY <1>2
  <2> HIDE DEF k
  <2> QED
    BY <1>1, <1>3, <1>4, <1>5, <1>6, <2>1, <2>2, <2>3, StreamAdvances
<1>7. CASE /\ k.state = "Done" \/ in_exhaust
           /\ Returns(W, [k EXCEPT !.error = Local], 0)
  <2> DEFINE j == [k EXCEPT !.error = Local]
  <2>1. /\ j \in Cursors /\ SameCursor(j, k) /\ j.state = k.state
        /\ j.batch = k.batch /\ j.error = Local
    <3>1. Local \in Replies
      BY RepliesTyped
    <3> QED
      BY <1>1, <3>1 DEF Cursors, SameCursor
  <2>2. Returns(W, j, 0)
    BY <1>7
  <2>3. Failed(j)
    BY <2>1, RepliesTyped DEF Failed
  <2> HIDE DEF j, k
  <2>4. /\ cursor' = [cursor EXCEPT ![W] = j] /\ delivered' = delivered
        /\ call' \in Calls /\ call'.at = "advanced" /\ call'.c = W
        /\ call'.doc = 0 /\ call'.resume = call.resume
    BY <1>1, <2>2, StreamReturns
  <2>5. Life(W, j, open', held')
    <3>1. k.live /\ Life(W, k, open', held')
      BY <1>5 DEF k
    <3>2. /\ j.state # "InBatch" => j.batch = << >>
          /\ j.state = "Unprimed" => k.state = "Unprimed"
          /\ j.state = "EndOfBatch" => k.id # 0
      BY <2>1, <3>1 DEF Life
    <3> QED
      BY <1>1, <2>1, <3>1, <3>2, LifeSame
  <2>6. /\ \A d \in Handles : d # W /\ j.id = cursor[d].id => j.id = 0
        /\ j.live = k.live /\ k.live /\ j.id = k.id /\ j.pbrt = k.pbrt
    BY <1>1, <2>1 DEF SameCursor, k
  <2>7. Calling(call', cursor', held', in_exhaust')
    BY <2>4, CallingStream DEF StreamPoints
  <2>8. StreamState(call', j, held', stream, in_exhaust')
    <3>1. call'.doc = 0 /\ ~in_exhaust' => j.batch = << >>
      BY <1>2, <1>5, <1>7, <2>1 DEF Life
    <3> QED
      BY <1>1, <2>4, <2>6, <3>1, StreamStateAdvanced
  <2>9. StreamData(j, stream, open', history, now, call', in_exhaust')
    <3>1. Taken(stream, call') = Taken(stream, call)
      BY <1>3, <2>4 DEF Taken
    <3>2. Keeps(open, open', k.id)
      BY <1>2, KeepsAll
    <3>3. StreamData(j, stream, open', history, now, call', in_exhaust)
      BY <1>1, <2>1, <2>3, <2>4, <2>6, <3>1, <3>2, StreamDataSame
    <3> QED
      BY <1>2, <3>3
  <2>10. StepTyped'
    BY <1>5, <2>4 DEF StepTyped, ServerTyped
  <2> QED
    BY <1>1, <1>2, <1>4, <1>5, <2>1, <2>4, <2>5, <2>6, <2>7, <2>8, <2>9, <2>10,
       StreamStep
<1> QED
  BY <1>2, <1>6, <1>7

(* mongoc_change_stream_next                                               *)
LEMMA StreamNextPreserves == ASSUME IInv, StreamNext PROVE IInv'
<1>1. call.at = "idle" /\ stream.live
  BY DEF StreamNext
<1>2. /\ call = Idle
      /\ ~stream.err => cursor[W].live /\ ~Failed(cursor[W])
      /\ cursor[W].live => stream.start # None
      /\ stream.start = None => stream.err
  BY <1>1, IdleFacts
<1>3. /\ StreamData(cursor[W], stream, open, history, now, Idle, in_exhaust)
      /\ stream \in StreamRecords
  BY <1>2, StreamFacts
<1>4. CASE stream.err
  BY <1>1, <1>2, <1>3, <1>4, EndNextStep DEF StreamNext
<1>5. CASE ~stream.err
  BY <1>1, <1>2, <1>5, EnterNextStream DEF StreamNext
<1> QED
  BY <1>4, <1>5

(* mongoc_cursor_next on the cursor that was opened again                  *)
LEMMA ResumedNextPreserves == ASSUME IInv, ResumedNext PROVE IInv'
<1>1. call.at = "next" /\ EnterNext(W) /\ UNCHANGED stream
  BY DEF ResumedNext
<1>2. StreamState(call, cursor[W], held, stream, in_exhaust)
  BY StreamFacts
<1>3. OfStream(call)
  BY <1>1 DEF OfStream, StreamPoints
<1>4. stream.live /\ ~stream.err /\ cursor[W].live /\ ~Failed(cursor[W])
  BY <1>1, <1>2, <1>3 DEF StreamState
<1> QED
  BY <1>1, <1>4, EnterNextStream

(* mongoc_change_stream_destroy                                            *)
LEMMA StreamDestroyPreserves == ASSUME IInv, StreamDestroy PROVE IInv'
<1> DEFINE k == cursor[W]
<1>1. /\ TypeOK /\ call \in Calls /\ stream \in StreamRecords
      /\ Life(W, k, open, held)
      /\ StreamState(call, k, held, stream, in_exhaust)
      /\ StreamData(k, stream, open, history, now, call, in_exhaust)
  BY StreamFacts
<1>2. call.at = "idle" /\ stream.live
  BY DEF StreamDestroy
<1>3. /\ ~call.resume /\ call.doc = 0 /\ k.live => stream.start # None
      /\ stream.start = None => stream.err
  BY <1>2, IdleFacts
<1>4. ~call.resume /\ call.doc = 0
  BY <1>2, IdleFacts
<1>5. /\ call' = [call EXCEPT !.at = IF k.live THEN "discard" ELSE "destroyed"]
      /\ UNCHANGED <<open, streaming, history, now, faults, in_exhaust, cursor,
                     held, delivered, crossed, stream>>
  BY DEF StreamDestroy, serverVars
<1>6. /\ call' \in Calls /\ call'.doc = 0 /\ call'.resume = call.resume
      /\ call'.at = IF k.live THEN "discard" ELSE "destroyed"
  BY <1>1, <1>4, <1>5 DEF Calls
<1>7. Calling(call', cursor, held', in_exhaust)
  BY <1>6, CallingStream DEF StreamPoints
<1>8. OfStream(call') /\ call'.at \in {"discard", "destroyed"} /\ ~call'.resume
  BY <1>4, <1>6 DEF OfStream, StreamPoints
<1>9. StreamState(call', k, held', stream, in_exhaust)
  BY <1>1, <1>2, <1>3, <1>6, <1>8, IdleFacts DEF StreamState, Making
<1>10. StreamData(k, stream, open, history, now, call', in_exhaust)
  <2>1. Taken(stream, call') = Taken(stream, call) /\ Keeps(open, open, k.id)
    BY <1>2, <1>8, KeepsAll DEF Taken
  <2> HIDE DEF k
  <2> QED
    BY <1>1, <1>8, <2>1, StreamDataSame
<1>11. Shrinks(open, open') /\ ServerTyped'
  BY <1>1, <1>5, OpenTyped DEF Shrinks, ServerTyped, TypeOK
<1>12. /\ held' \subseteq Handles /\ held \ {W} \subseteq held'
       /\ k.id # 0 => W \in held'
  BY <1>1, <1>5 DEF TypeOK, Life
<1> QED
  BY <1>1, <1>5, <1>6, <1>7, <1>9, <1>10, <1>11, <1>12, StreamCall

(* The stream goes on to open its cursor again, or is gone.                *)
LEMMA DiscardedPreserves == ASSUME IInv, Discarded PROVE IInv'
<1> DEFINE k == cursor[W]
<1>1. /\ TypeOK /\ call \in Calls /\ stream \in StreamRecords /\ now \in Nat
      /\ Life(W, k, open, held)
      /\ Calling(call, cursor, held, in_exhaust)
      /\ StreamState(call, k, held, stream, in_exhaust)
      /\ StreamData(k, stream, open, history, now, call, in_exhaust)
  BY StreamFacts
<1>2. /\ call.at = "destroyed"
      /\ UNCHANGED <<open, streaming, history, now, faults, in_exhaust, cursor,
                     delivered, crossed>>
  BY DEF Discarded, serverVars
<1>3. OfStream(call)
  BY <1>2 DEF OfStream, StreamPoints
<1>4. ~k.live /\ stream.live /\ call.doc = 0
  BY <1>1, <1>2, <1>3 DEF StreamState, Calling, Making
<1>5. k = NoCursor /\ k.id = 0
  BY <1>1, <1>4, NoCursorIs DEF Life
<1>6. Shrinks(open, open') /\ ServerTyped'
  BY <1>1, <1>2, OpenTyped DEF Shrinks, ServerTyped, TypeOK
<1>7. CASE call.resume
  <2>1. call' = [call EXCEPT !.at = "make"] /\ stream' = stream /\ held' = held
    BY <1>7 DEF Discarded
  <2>2. /\ call' \in Calls /\ call'.at = "make" /\ call'.doc = 0
        /\ call'.resume = call.resume
    BY <1>1, <1>4, <2>1 DEF Calls
  <2>3. Calling(call', cursor, held', in_exhaust)
    BY <2>2, CallingStream DEF StreamPoints
  <2>4. StreamState(call', k, held', stream, in_exhaust)
    <3>1. ~stream.err /\ stream.resumed /\ stream.start # None
      BY <1>1, <1>7 DEF StreamState
    <3>2. OfStream(call') /\ call'.resume
      BY <1>7, <2>2 DEF OfStream, StreamPoints
    <3> QED
      BY <1>4, <2>2, <3>1, <3>2 DEF StreamState, Making
  <2>5. StreamData(k, stream, open, history, now, call', in_exhaust)
    <3>1. Taken(stream, call') = Taken(stream, call) /\ Keeps(open, open, k.id)
      BY <1>2, <2>2, KeepsAll DEF Taken
    <3> HIDE DEF k
    <3> QED
      BY <1>1, <2>2, <3>1, StreamDataSame
  <2>6. held' \subseteq Handles /\ held \ {W} \subseteq held'
    BY <1>1, <2>1 DEF TypeOK
  <2> QED
    BY <1>1, <1>2, <1>5, <1>6, <2>1, <2>2, <2>3, <2>4, <2>5, <2>6, StreamCall
<1>8. CASE ~call.resume
  <2>1. call' = Idle /\ stream' = NoStream /\ held' = held \ {stream.sess}
    BY <1>8 DEF Discarded
  <2>2. /\ Idle \in Calls /\ ~OfStream(Idle) /\ Idle.at = "idle" /\ ~Idle.resume
        /\ Calling(Idle, cursor, held', in_exhaust)
    BY IdleIs
  <2>3. StreamState(Idle, k, held', NoStream, in_exhaust)
    BY <1>4, <2>2, NoStreamIs DEF StreamState, Making
  <2>4. NotStarted(NoStream, now, Idle)
    BY <1>1, <2>2, NoStreamIs DEF NotStarted
  <2>5. StreamData(k, NoStream, open, history, now, Idle, in_exhaust)
    BY <1>4, <2>4, NoStreamIs, NoCursorData
  <2>6. held' \subseteq Handles /\ held \ {W} \subseteq held'
    <3>1. stream.sess \in {0, W} /\ 0 \notin Handles /\ held \subseteq Handles
      BY <1>1, StreamHandle DEF StreamRecords, TypeOK
    <3> QED
      BY <2>1, <3>1
  <2>7. NoStream \in StreamRecords
    BY NoStreamIs
  <2> QED
    BY <1>2, <1>5, <1>6, <2>1, <2>2, <2>3, <2>5, <2>6, <2>7, StreamCall
<1> QED
  BY <1>7, <1>8

(* What holds while the stream opens its cursor.                           *)
LEMMA MakingFacts ==
  ASSUME IInv, call.at \in Making
  PROVE  /\ TypeOK /\ call \in Calls /\ stream \in StreamRecords /\ now \in Nat
         /\ OfStream(call) /\ stream.live /\ ~stream.err /\ call.doc = 0
         /\ ~cursor[W].live /\ cursor[W] = NoCursor /\ cursor[W].id = 0
         /\ call.resume => stream.resumed /\ stream.start # None
         /\ ~call.resume => ~stream.resumed /\ stream.start = None
         /\ call.at \in {"aggregate", "reselect"} =>
              /\ stream.sess = W /\ W \in held
              /\ call.server \in Servers /\ call.loop.server \in Servers
         /\ stream.start = None => NotStarted(stream, now, call)
         /\ stream.start # None => stream.start <= now
         /\ stream.start # None /\ stream.token # None =>
              AtToken(stream, history, now)
         /\ stream.start # None /\ stream.token = None =>
              AtTime(NoCursor, stream, history, now, call, in_exhaust)
<1>1. /\ TypeOK /\ call \in Calls /\ stream \in StreamRecords /\ now \in Nat
      /\ Life(W, cursor[W], open, held)
      /\ Calling(call, cursor, held, in_exhaust)
      /\ StreamState(call, cursor[W], held, stream, in_exhaust)
      /\ StreamData(cursor[W], stream, open, history, now, call, in_exhaust)
  BY StreamFacts
<1>2. OfStream(call) /\ call.at \notin {"discard", "kill", "destroyed", "advanced"}
  BY DEF OfStream, StreamPoints, Making
<1>3. /\ stream.live /\ ~stream.err /\ call.doc = 0 /\ ~cursor[W].live
      /\ call.resume => stream.resumed /\ stream.start # None
      /\ ~call.resume => ~stream.resumed /\ stream.start = None
      /\ call.at \in {"aggregate", "reselect"} =>
           /\ stream.sess = W /\ W \in held
           /\ call.server \in Servers /\ call.loop.server \in Servers
  BY <1>1, <1>2 DEF StreamState, Calling
<1>4. cursor[W] = NoCursor /\ cursor[W].id = 0
  BY <1>1, <1>3, NoCursorIs DEF Life
<1> QED
  BY <1>1, <1>2, <1>3, <1>4 DEF StreamData

(* _make_cursor selects a server and takes a session                       *)
LEMMA PickPreserves == ASSUME IInv, Pick PROVE IInv'
<1>1. call.at = "make" /\ call.at \in Making
  BY DEF Pick, Making
<1>2. /\ TypeOK /\ call \in Calls /\ stream \in StreamRecords /\ now \in Nat
      /\ stream.live /\ ~stream.err /\ call.doc = 0
      /\ ~cursor[W].live /\ cursor[W].id = 0
      /\ call.resume => stream.resumed /\ stream.start # None
      /\ ~call.resume => ~stream.resumed /\ stream.start = None
      /\ stream.start = None => NotStarted(stream, now, call)
      /\ stream.start # None => stream.start <= now
      /\ stream.start # None /\ stream.token # None =>
           AtToken(stream, history, now)
      /\ stream.start # None /\ stream.token = None =>
           AtTime(NoCursor, stream, history, now, call, in_exhaust)
  BY <1>1, MakingFacts
<1> DEFINE elig == IF RetryReads THEN "retryable_read" ELSE "none"
           token == IF ~stream.resumed
                       /\ stream.option \in {"resumeAfter", "startAfter"}
                      THEN stream.from ELSE stream.token
           st == [stream EXCEPT !.sess = W, !.token = token]
<1>3. PICK s \in Servers :
        call' = [call EXCEPT !.at = "aggregate", !.server = s,
                             !.loop = NewLoop(elig, s)]
  BY DEF Pick
<1>4. /\ stream' = st /\ held' = held \cup {W}
      /\ UNCHANGED <<open, streaming, history, now, faults, in_exhaust, cursor,
                     delivered, crossed>>
  BY DEF Pick, serverVars
<1>5. elig \in Eligibilities
  BY DEF Eligibilities
<1> HIDE DEF elig
<1>6. NewLoop(elig, s) \in CallLoops /\ NewLoop(elig, s).server = s
  BY <1>5, NewLoopTyped
<1>7. /\ call' \in Calls /\ call'.at = "aggregate" /\ call'.server = s
      /\ call'.loop = NewLoop(elig, s) /\ call'.doc = call.doc
      /\ call'.resume = call.resume
  BY <1>2, <1>3, <1>6 DEF Calls, CallLoops
<1>8. token \in Nat \cup {None}
  BY <1>2 DEF StreamRecords
<1> HIDE DEF token
<1>9. /\ st \in StreamRecords /\ st.seen = stream.seen /\ st.from = stream.from
      /\ st.option = stream.option /\ st.optime = stream.optime
      /\ st.start = stream.start /\ st.token = token /\ st.sess = W
      /\ st.live = stream.live /\ st.err = stream.err
      /\ st.resumed = stream.resumed
  BY <1>2, <1>8 DEF StreamRecords
<1> HIDE DEF st
<1>10. Calling(call', cursor, held', in_exhaust)
  BY <1>2, <1>7, CallingStream DEF StreamPoints
<1>11. OfStream(call')
  BY <1>7 DEF OfStream, StreamPoints
<1>12. StreamState(call', cursor[W], held', st, in_exhaust)
  BY <1>2, <1>4, <1>6, <1>7, <1>9, <1>11 DEF StreamState, Making
<1>13. st.start = None => NotStarted(st, now, call')
  <2>1. ASSUME st.start = None PROVE NotStarted(st, now, call')
    <3>1. NotStarted(stream, now, call) /\ ~stream.resumed
      BY <1>2, <1>9, <2>1
    <3> QED
      BY <1>9, <3>1 DEF NotStarted, token
  <2> QED
    BY <2>1
<1>14. st.start # None => st.token = stream.token /\ st.start <= now
  BY <1>2, <1>9 DEF token
<1>15. st.start # None /\ st.token # None => AtToken(st, history, now)
  BY <1>2, <1>9, <1>14 DEF AtToken
<1>16. st.start # None /\ st.token = None =>
         AtTime(NoCursor, st, history, now, call', in_exhaust)
  BY <1>2, <1>7, <1>9, <1>14 DEF AtTime
<1>17. StreamData(cursor[W], st, open, history, now, call', in_exhaust)
  BY <1>2, <1>13, <1>14, <1>15, <1>16, NoCursorData
<1>18. Shrinks(open, open') /\ ServerTyped'
  BY <1>2, <1>4, OpenTyped DEF Shrinks, ServerTyped, TypeOK
<1>19. held' \subseteq Handles /\ held \ {W} \subseteq held'
  BY <1>2, <1>4, StreamHandle DEF TypeOK
<1> QED
  BY <1>2, <1>4, <1>7, <1>9, <1>10, <1>12, <1>17, <1>18, <1>19, StreamCall

(* _make_cursor fails.                                                     *)
LEMMA MakeErrorStep ==
  ASSUME IInv, call.at \in Making, NEW st \in StreamRecords, MakeError(st),
         st.sess = W, st.seen = stream.seen, st.from = stream.from,
         st.option = stream.option, st.optime = stream.optime,
         st.token = stream.token, st.start = stream.start,
         st.live = stream.live, cursor' = cursor,
         Shrinks(open, open'), ServerTyped',
         UNCHANGED <<history, now, in_exhaust, delivered>>
  PROVE  IInv'
<1>1. /\ TypeOK /\ stream.live
      /\ ~cursor[W].live /\ cursor[W].id = 0
      /\ stream.start = None => NotStarted(stream, now, call)
      /\ stream.start # None => stream.start <= now
      /\ stream.start # None /\ stream.token # None =>
           AtToken(stream, history, now)
      /\ stream.start # None /\ stream.token = None =>
           AtTime(NoCursor, stream, history, now, call, in_exhaust)
  BY MakingFacts
<1> DEFINE su == stream'
<1>2. /\ su \in StreamRecords /\ su.seen = st.seen /\ su.from = st.from
      /\ su.option = st.option /\ su.optime = st.optime
      /\ su.token = st.token /\ su.start = st.start
      /\ su.live = st.live /\ su.err = TRUE
  <2>1. CASE call.resume
    <3>1. su = [st EXCEPT !.err = TRUE, !.sess = 0]
      BY <2>1 DEF MakeError
    <3> QED
      BY <3>1 DEF StreamRecords
  <2>2. CASE ~call.resume
    <3>1. su = [st EXCEPT !.err = TRUE]
      BY <2>2 DEF MakeError
    <3> QED
      BY <3>1 DEF StreamRecords
  <2> QED
    BY <2>1, <2>2
<1>3. call' = Idle /\ (held' = held \ {W} \/ held' = held \cup {W})
  BY DEF MakeError
<1>4. held' \subseteq Handles /\ held \ {W} \subseteq held'
  BY <1>1, <1>3, StreamHandle DEF TypeOK
<1> HIDE DEF su
<1>5. /\ Idle \in Calls /\ ~OfStream(Idle) /\ Idle.at = "idle" /\ ~Idle.resume
      /\ Calling(Idle, cursor, held', in_exhaust)
  BY IdleIs
<1>6. StreamState(Idle, cursor[W], held', su, in_exhaust)
  BY <1>1, <1>2, <1>5 DEF StreamState, Making
<1>7. su.start = None => NotStarted(su, now, Idle)
  BY <1>1, <1>2, <1>5 DEF NotStarted
<1>8. /\ su.start # None => su.start <= now
      /\ su.start # None /\ su.token # None => AtToken(su, history, now)
  BY <1>1, <1>2 DEF AtToken
<1>9. su.start # None /\ su.token = None =>
        AtTime(NoCursor, su, history, now, Idle, in_exhaust)
  BY <1>1, <1>2, <1>5 DEF AtTime
<1>10. StreamData(cursor[W], su, open, history, now, Idle, in_exhaust)
  BY <1>1, <1>7, <1>8, <1>9, NoCursorData
<1>11. stream' = su
  BY DEF su
<1> QED
  BY <1>1, <1>2, <1>3, <1>4, <1>5, <1>6, <1>10, <1>11, StreamCall

(* No server is selected.                                                  *)
LEMMA PickFailsPreserves == ASSUME IInv, PickFails PROVE IInv'
<1>1. call.at \in Making
  BY DEF PickFails, Making
<1>2. TypeOK /\ stream \in StreamRecords
  BY StreamFacts
<1> DEFINE st == [stream EXCEPT !.sess = W]
<1>3. /\ Fault /\ MakeError(st)
      /\ UNCHANGED <<open, streaming, history, now, in_exhaust, cursor,
                     delivered, crossed>>
  BY DEF PickFails
<1>4. /\ st \in StreamRecords /\ st.sess = W /\ st.seen = stream.seen
      /\ st.from = stream.from /\ st.option = stream.option
      /\ st.optime = stream.optime /\ st.token = stream.token
      /\ st.start = stream.start /\ st.live = stream.live
  BY <1>2 DEF StreamRecords
<1> HIDE DEF st
<1>5. faults' \in 0..MaxFaults
  BY <1>2, <1>3, FaultTyped
<1>6. Shrinks(open, open') /\ ServerTyped'
  BY <1>2, <1>3, <1>5, OpenTyped DEF Shrinks, ServerTyped, TypeOK
<1> QED
  BY <1>1, <1>3, <1>4, <1>6, MakeErrorStep

(* Another attempt of the aggregate command, or the server for it.         *)
LEMMA AggregateGoesOn ==
  ASSUME IInv, call.at \in {"aggregate", "reselect"},
         call' \in Calls, call'.at \in {"aggregate", "reselect"},
         call'.doc = call.doc, call'.resume = call.resume,
         call'.server = call.server, call'.loop.server \in Servers,
         cursor' = cursor, Shrinks(open, open'), ServerTyped',
         UNCHANGED <<history, now, in_exhaust, delivered, stream, held>>
  PROVE  IInv'
<1>1. call.at \in Making /\ call'.at \in Making /\ call'.at \in StreamPoints
  BY DEF Making, StreamPoints
<1>2. /\ TypeOK /\ stream \in StreamRecords
      /\ stream.live /\ ~stream.err /\ call.doc = 0
      /\ ~cursor[W].live /\ cursor[W].id = 0
      /\ call.resume => stream.resumed /\ stream.start # None
      /\ ~call.resume => ~stream.resumed /\ stream.start = None
      /\ stream.sess = W /\ W \in held /\ call.server \in Servers
      /\ stream.start = None => NotStarted(stream, now, call)
      /\ stream.start # None => stream.start <= now
      /\ stream.start # None /\ stream.token # None =>
           AtToken(stream, history, now)
      /\ stream.start # None /\ stream.token = None =>
           AtTime(NoCursor, stream, history, now, call, in_exhaust)
  BY <1>1, MakingFacts
<1>3. Calling(call', cursor, held', in_exhaust)
  BY <1>1, <1>2, CallingStream
<1>4. OfStream(call')
  BY <1>1 DEF OfStream
<1>5. StreamState(call', cursor[W], held', stream, in_exhaust)
  BY <1>2, <1>4 DEF StreamState, Making
<1>6. stream.start = None => NotStarted(stream, now, call')
  BY <1>2 DEF NotStarted
<1>7. stream.start # None /\ stream.token = None =>
        AtTime(NoCursor, stream, history, now, call', in_exhaust)
  BY <1>2 DEF AtTime
<1>8. StreamData(cursor[W], stream, open, history, now, call', in_exhaust)
  BY <1>2, <1>6, <1>7, NoCursorData
<1>9. held' \subseteq Handles /\ held \ {W} \subseteq held'
  BY <1>2 DEF TypeOK
<1> QED
  BY <1>2, <1>3, <1>5, <1>8, <1>9, StreamCall

(* An attempt of the aggregate command fails.                              *)
LEMMA AggregateAttemptFails ==
  ASSUME IInv, call.at = "aggregate", NEW a, NEW p, ~a.reply.ok,
         AfterAggregate(a, p), Shrinks(open, open'), ServerTyped',
         UNCHANGED <<history, now, in_exhaust, delivered>>
  PROVE  IInv'
<1>1. /\ call.at \in Making /\ call.at \in {"aggregate", "reselect"}
  BY DEF Making
<1>2. /\ TypeOK /\ call \in Calls /\ stream \in StreamRecords
      /\ stream.sess = W /\ call.loop.server \in Servers
  BY <1>1, MakingFacts
<1>3. CASE Retries(call.loop, a.reply)
  <2> DEFINE loop == NextAttempt(call.loop, a.reply)
  <2>1. /\ call' = [call EXCEPT !.at = "reselect", !.loop = loop]
        /\ UNCHANGED <<stream, cursor, held>>
    BY <1>3 DEF AfterAggregate
  <2>2. call.loop \in CallLoops
    BY <1>2 DEF Calls, CallLoops
  <2>3. loop \in CallLoops /\ loop.server \in Servers
    BY <1>2, <2>2, NextAttemptTyped
  <2> HIDE DEF loop
  <2>4. /\ call' \in Calls /\ call'.at = "reselect" /\ call'.loop = loop
        /\ call'.doc = call.doc /\ call'.resume = call.resume
        /\ call'.server = call.server
    BY <1>2, <2>1, <2>3 DEF Calls, CallLoops
  <2> QED
    BY <1>1, <2>1, <2>3, <2>4, AggregateGoesOn
<1>4. CASE ~Retries(call.loop, a.reply)
  <2>1. MakeError(stream) /\ cursor' = cursor
    BY <1>4 DEF AfterAggregate
  <2> QED
    BY <1>1, <1>2, <2>1, MakeErrorStep
<1> QED
  BY <1>3, <1>4

(* The aggregate command is not sent, or not answered                      *)
LEMMA AggregateFailsPreserves == ASSUME IInv, AggregateFails PROVE IInv'
<1>1. call.at = "aggregate" /\ call.at \in Making
  BY DEF AggregateFails, Making
<1>2. /\ TypeOK /\ StepTyped /\ stream \in StreamRecords /\ stream.sess = W
      /\ call.loop.server \in Servers
  BY <1>1, MakingFacts, StreamFacts
<1>3. UNCHANGED <<history, now, faults, in_exhaust, delivered, crossed>>
  BY DEF AggregateFails
<1>4. CASE in_exhaust
  <2>1. MakeError(stream) /\ UNCHANGED <<cursor, open, streaming>>
    BY <1>4 DEF AggregateFails
  <2>2. Shrinks(open, open') /\ ServerTyped'
    BY <1>2, <1>3, <2>1 DEF Shrinks, ServerTyped, StepTyped
  <2> QED
    BY <1>1, <1>2, <1>3, <2>1, <2>2, MakeErrorStep
<1>5. CASE ~in_exhaust
  <2>1. Lost(call.loop.server, 0) /\ AfterAggregate(ErrorAnswer(NetworkError), 0)
    BY <1>5 DEF AggregateFails
  <2>2. 0 \notin DOMAIN open /\ 0 \in Nat
    BY <1>2 DEF TypeOK
  <2>3. /\ OpenType(open') /\ streaming' \in [Servers -> Nat]
        /\ Shrinks(open, open')
    BY <1>2, <2>1, <2>2, LostIs
  <2>4. ServerTyped'
    BY <1>2, <1>3, <2>3 DEF ServerTyped, StepTyped
  <2>5. ~ErrorAnswer(NetworkError).reply.ok
    BY ErrorAnswerIs, RepliesTyped
  <2> QED
    BY <1>1, <1>3, <2>1, <2>3, <2>4, <2>5, AggregateAttemptFails
<1> QED
  BY <1>4, <1>5

(* A server for another attempt of the aggregate command                   *)
LEMMA AggregateReselectPreserves == ASSUME IInv, AggregateReselect PROVE IInv'
<1>1. call.at = "reselect" /\ call.at \in Making
  BY DEF AggregateReselect, Making
<1>2. /\ TypeOK /\ StepTyped /\ stream \in StreamRecords /\ stream.sess = W
      /\ call \in Calls
  BY <1>1, MakingFacts, StreamFacts
<1>3. UNCHANGED <<open, streaming, history, now, in_exhaust, cursor, delivered,
                  crossed>>
  BY DEF AggregateReselect
<1>4. ASSUME NEW s \in Candidates(call.loop.deprioritized),
             call' = [call EXCEPT !.at = "aggregate", !.loop.server = s],
             UNCHANGED <<stream, held, faults>>
      PROVE  IInv'
  <2>1. s \in Servers
    BY CandidatesTyped
  <2>2. call.loop \in CallLoops
    BY <1>2 DEF Calls, CallLoops
  <2> DEFINE loop == [call.loop EXCEPT !.server = s]
  <2>3. loop \in CallLoops /\ loop.server = s
    BY <2>1, <2>2 DEF CallLoops
  <2>4. call' = [call EXCEPT !.at = "aggregate", !.loop = loop]
    BY <1>2, <1>4 DEF Calls
  <2> HIDE DEF loop
  <2>5. /\ call' \in Calls /\ call'.at = "aggregate" /\ call'.loop = loop
        /\ call'.doc = call.doc /\ call'.resume = call.resume
        /\ call'.server = call.server
    BY <1>2, <2>3, <2>4 DEF Calls, CallLoops
  <2>6. Shrinks(open, open') /\ ServerTyped'
    BY <1>2, <1>3, <1>4 DEF Shrinks, ServerTyped, StepTyped
  <2> QED
    BY <1>1, <1>3, <1>4, <2>1, <2>3, <2>5, <2>6, AggregateGoesOn
<1>5. ASSUME Fault, MakeError(stream) PROVE IInv'
  <2>1. faults' \in 0..MaxFaults
    BY <1>2, <1>5, FaultTyped
  <2>2. Shrinks(open, open') /\ ServerTyped'
    BY <1>2, <1>3, <2>1 DEF Shrinks, ServerTyped, StepTyped
  <2> QED
    BY <1>1, <1>2, <1>3, <1>5, <2>2, MakeErrorStep
<1> QED
  BY <1>4, <1>5 DEF AggregateReselect

(* The stream is to open its cursor again                                  *)
LEMMA ResumePreserves == ASSUME IInv, Resume PROVE IInv'
<1> DEFINE k == cursor[W]
           cl == [Idle EXCEPT !.at = "discard", !.resume = TRUE,
                          !.timeouts = Timeouts(k),
                          !.resumes = call.resumes + 1,
                          !.moved = call.moved]
           st == [stream EXCEPT !.resumed = TRUE]
<1>1. /\ call.at = "advanced" /\ call.doc = 0 /\ call' = cl /\ stream' = st
      /\ UNCHANGED <<open, streaming, history, now, faults, in_exhaust, cursor,
                     held, delivered, crossed>>
  BY DEF Resume, serverVars
<1>2. /\ TypeOK /\ StepTyped /\ k \in Cursors /\ call \in Calls
      /\ stream \in StreamRecords /\ now \in Nat
      /\ Life(W, k, open, held)
      /\ StreamData(k, stream, open, history, now, call, in_exhaust)
  BY StreamFacts
<1>3. /\ k.live /\ stream.live /\ ~stream.err
      /\ stream.start # None /\ stream.start \in Nat
      /\ Follows(k, stream, history, now, call)
      /\ ~in_exhaust => k.batch = << >>
  BY <1>1, AdvancedFacts
<1>4. Timeouts(k) \in Nat /\ call.resumes + 1 \in Nat /\ call.moved \in Nat
  <2>1. call.timeouts \in Nat /\ call.resumes \in Nat /\ call.moved \in Nat
    BY <1>2 DEF Calls
  <2>2. Timeouts(k) \in {call.timeouts, call.timeouts + 1}
    BY DEF Timeouts
  <2> QED
    BY <2>1, <2>2
<1>5. /\ cl \in Calls /\ cl.at = "discard" /\ cl.resume = TRUE /\ cl.doc = 0
  BY <1>4, IdleIs DEF Calls, Idle
<1>6. /\ st \in StreamRecords /\ st.sess = stream.sess /\ st.seen = stream.seen
      /\ st.from = stream.from /\ st.option = stream.option
      /\ st.optime = stream.optime /\ st.token = stream.token
      /\ st.start = stream.start /\ st.live = stream.live
      /\ st.err = stream.err /\ st.resumed = TRUE
  BY <1>2 DEF StreamRecords
<1> HIDE DEF cl, st
<1>7. Calling(cl, cursor, held', in_exhaust)
  BY <1>5, CallingStream DEF StreamPoints
<1>8. OfStream(cl)
  BY <1>5 DEF OfStream, StreamPoints
<1>9. StreamState(cl, k, held', st, in_exhaust)
  BY <1>3, <1>5, <1>6, <1>8 DEF StreamState, Making
<1>10. k.pbrt \in Nat /\ stream.seen \in Seq(Nat \ {0})
       /\ stream.optime \in Nat \cup {None}
  BY <1>2 DEF Cursors, StreamRecords
<1>11. ASSUME AtTime(k, stream, history, now, call, in_exhaust), ~in_exhaust
       PROVE  Between(history, stream.start, stream.optime) = {}
  <2> DEFINE S == Between(history, stream.start, k.pbrt)
  <2>1. /\ stream.seen = << >> /\ stream.optime # None
        /\ stream.start <= stream.optime /\ stream.optime <= k.pbrt
    BY <1>3, <1>11 DEF AtTime
  <2>2. InOrder(S) = << >>
    <3>1. Taken(stream, call) = << >> /\ k.batch = << >>
      BY <1>1, <1>3, <1>11, <2>1 DEF Taken
    <3>2. << >> \o << >> = << >>
      OBVIOUS
    <3> QED
      BY <1>3, <3>1, <3>2 DEF Follows
  <2>3. S \in SUBSET (0..k.pbrt)
    BY <1>3, <1>10 DEF Between
  <2>4. S = {}
    BY <1>10, <2>2, <2>3, InOrderOnlyEmpty
  <2>5. Between(history, stream.start, stream.optime) \subseteq S
    BY <1>3, <1>10, <2>1 DEF Between
  <2> QED
    BY <2>4, <2>5
<1>12. StreamData(k, st, open, history, now, cl, in_exhaust)
  <2>1. Taken(st, cl) = Taken(stream, call)
    BY <1>1, <1>5, <1>6 DEF Taken
  <2>2. Follows(k, st, history, now, cl)
    BY <1>3, <1>6, <2>1 DEF Follows
  <2>3. AtToken(stream, history, now) => AtToken(st, history, now)
    BY <1>6 DEF AtToken
  <2>4. AtTime(k, stream, history, now, call, in_exhaust) =>
          AtTime(k, st, history, now, cl, in_exhaust)
    BY <1>6, <1>11 DEF AtTime
  <2> QED
    BY <1>2, <1>3, <1>6, <2>2, <2>3, <2>4 DEF StreamData
<1>13. Shrinks(open, open') /\ ServerTyped'
  BY <1>1, <1>2 DEF Shrinks, ServerTyped, StepTyped
<1>14. /\ held' \subseteq Handles /\ held \ {W} \subseteq held'
       /\ k.id # 0 => W \in held'
  BY <1>1, <1>2 DEF TypeOK, Life
<1>15. call' = cl /\ stream' = st
  BY <1>1
<1> QED
  BY <1>1, <1>5, <1>6, <1>7, <1>9, <1>12, <1>13, <1>14, <1>15, StreamCall

(* Where the server begins.                                                *)
LEMMA BeginsAt ==
  ASSUME IInv, call.at = "aggregate", NEW p \in Begins(MakeCommand(stream))
  PROVE  /\ p \in Nat
         /\ stream.start = None /\ stream.option = "none" => p \in {now - 1, now}
         /\ stream.start = None /\ stream.option # "none" => p = stream.from
         /\ stream.start # None /\ stream.token # None => p = stream.token
         /\ stream.start # None /\ stream.token = None => p = stream.optime
<1>1. call.at \in Making
  BY DEF Making
<1>2. /\ stream \in StreamRecords /\ now \in Nat
      /\ stream.start # None => stream.resumed
      /\ stream.start = None => ~stream.resumed
      /\ stream.start # None /\ stream.token = None => stream.optime # None
  BY <1>1, MakingFacts DEF AtTime
<1>3. /\ stream.token \in Nat \cup {None} /\ stream.optime \in Nat \cup {None}
      /\ stream.from \in Nat
  BY <1>2 DEF StreamRecords
<1> DEFINE m == MakeCommand(stream)
<1>4. p \in IF m.option = "none" THEN {x \in {now - 1, now} : x >= 0} ELSE {m.pos}
  BY DEF Begins
<1>5. CASE stream.start = None
  <2>1. m = [option |-> stream.option, pos |-> stream.from]
    BY <1>2, <1>5 DEF MakeCommand
  <2>2. m.option = stream.option /\ m.pos = stream.from
    BY <2>1
  <2> HIDE DEF m
  <2> QED
    BY <1>2, <1>3, <1>4, <1>5, <2>2
<1>6. CASE stream.start # None /\ stream.token # None
  <2>1. m.option \in {"startAfter", "resumeAfter"} /\ m.pos = stream.token
    BY <1>2, <1>6 DEF MakeCommand
  <2> HIDE DEF m
  <2> QED
    BY <1>2, <1>3, <1>4, <1>6, <2>1
<1>7. CASE stream.start # None /\ stream.token = None
  <2>1. m.option = "atTime" /\ m.pos = stream.optime
    BY <1>2, <1>7 DEF MakeCommand
  <2> HIDE DEF m
  <2> QED
    BY <1>2, <1>3, <1>4, <1>7, <2>1
<1> QED
  BY <1>5, <1>6, <1>7

(* The stream after its cursor was made from position p, with a batch that *)
(* ends at q.                                                              *)
MadeStream(st, batch, p, q) ==
  LET token == IF batch = << >> THEN q ELSE st.token
  IN  [st EXCEPT !.token = token,
                 !.optime = IF st.option = "none" /\ st.optime = None
                               /\ token = None
                              THEN now ELSE @,
                 !.start = IF @ = None THEN p ELSE @]

(* What it holds.                                                          *)
LEMMA MadeStreamIs ==
  ASSUME NEW st \in StreamRecords, NEW batch, NEW p \in Nat, NEW q \in Nat,
         now \in Nat
  PROVE  LET su == MadeStream(st, batch, p, q)
         IN  /\ su \in StreamRecords
             /\ su.token = IF batch = << >> THEN q ELSE st.token
             /\ su.optime = IF /\ st.option = "none" /\ st.optime = None
                               /\ su.token = None
                              THEN now ELSE st.optime
             /\ su.start = IF st.start = None THEN p ELSE st.start
             /\ su.live = st.live /\ su.option = st.option
             /\ su.from = st.from /\ su.err = st.err
             /\ su.resumed = st.resumed /\ su.sess = st.sess
             /\ su.seen = st.seen
<1> DEFINE token == IF batch = << >> THEN q ELSE st.token
           optime == IF st.option = "none" /\ st.optime = None /\ token = None
                       THEN now ELSE st.optime
           start == IF st.start = None THEN p ELSE st.start
<1>1. /\ token \in Nat \cup {None} /\ optime \in Nat \cup {None}
      /\ start \in Nat \cup {None}
  BY DEF StreamRecords
<1>2. MadeStream(st, batch, p, q) =
        [st EXCEPT !.token = token, !.optime = optime, !.start = start]
  BY DEF MadeStream
<1> HIDE DEF token, optime, start
<1>3. /\ MadeStream(st, batch, p, q) \in StreamRecords
      /\ MadeStream(st, batch, p, q).token = token
      /\ MadeStream(st, batch, p, q).optime = optime
      /\ MadeStream(st, batch, p, q).start = start
      /\ MadeStream(st, batch, p, q).live = st.live
      /\ MadeStream(st, batch, p, q).option = st.option
      /\ MadeStream(st, batch, p, q).from = st.from
      /\ MadeStream(st, batch, p, q).err = st.err
      /\ MadeStream(st, batch, p, q).resumed = st.resumed
      /\ MadeStream(st, batch, p, q).sess = st.sess
      /\ MadeStream(st, batch, p, q).seen = st.seen
  BY <1>1, <1>2 DEF StreamRecords
<1> QED
  BY <1>3 DEF token, optime, start

(* The cursor made continues the events of the stream, and its token and   *)
(* operation time are right.                                               *)
LEMMA MadeData ==
  ASSUME IInv, call.at = "aggregate", ~in_exhaust,
         NEW p \in Begins(MakeCommand(stream)), NEW q \in Ends("watch", p),
         NEW k, k.live, k.batch = Batch("watch", p, q), k.pbrt = q,
         NEW o, k.id \in DOMAIN o => o[k.id].pos = q,
         NEW cl, cl.at \in {"idle", "next"}, cl.resume = call.resume,
         NEW su, su = MadeStream(stream, k.batch, p, q)
  PROVE  StreamData(k, su, o, history, now, cl, in_exhaust) /\ su.start # None
<1>1. call.at \in Making
  BY DEF Making
<1>2. /\ TypeOK /\ stream \in StreamRecords /\ now \in Nat
      /\ call.resume => stream.start # None
      /\ ~call.resume => stream.start = None
      /\ stream.start = None => NotStarted(stream, now, call)
      /\ stream.start # None => stream.start <= now
      /\ stream.start # None /\ stream.token # None =>
           AtToken(stream, history, now)
      /\ stream.start # None /\ stream.token = None =>
           AtTime(NoCursor, stream, history, now, call, in_exhaust)
  BY <1>1, MakingFacts
<1>3. /\ p \in Nat
      /\ stream.start = None /\ stream.option = "none" => p \in {now - 1, now}
      /\ stream.start = None /\ stream.option # "none" => p = stream.from
      /\ stream.start # None /\ stream.token # None => p = stream.token
      /\ stream.start # None /\ stream.token = None => p = stream.optime
  BY BeginsAt
<1>4. q \in Nat /\ p <= q /\ q <= now
  BY <1>2, <1>3, BatchTyped
<1>5. k.batch = InOrder(Between(history, p, q))
  BY <1>3, <1>4, StreamBatch
<1>6. /\ su \in StreamRecords
      /\ su.token = (IF k.batch = << >> THEN q ELSE stream.token)
      /\ su.optime = (IF /\ stream.option = "none" /\ stream.optime = None
                         /\ su.token = None
                        THEN now ELSE stream.optime)
      /\ su.start = (IF stream.start = None THEN p ELSE stream.start)
      /\ su.option = stream.option /\ su.seen = stream.seen
  BY <1>2, <1>3, <1>4, MadeStreamIs
<1>7. /\ stream.start \in Nat \cup {None} /\ stream.token \in Nat \cup {None}
      /\ stream.optime \in Nat \cup {None} /\ stream.seen \in Seq(Nat \ {0})
      /\ stream.option \in StartOptions /\ stream.from \in Nat
  BY <1>2 DEF StreamRecords
<1>8. k.batch \in Seq(Nat)
  <2>1. Between(history, p, q) \in SUBSET (0..q)
    BY <1>3, <1>4 DEF Between
  <2>2. InOrder(Between(history, p, q)) \in Seq(Nat)
    BY <1>4, <2>1, InOrderSeq
  <2> QED
    BY <1>5, <2>2
<1>9. /\ << >> \o k.batch = k.batch /\ stream.seen \o << >> = stream.seen
  BY <1>7, <1>8
<1>10. /\ su.start \in Nat /\ su.start # None /\ Taken(su, cl) = stream.seen
  BY <1>3, <1>6, <1>7 DEF None, Taken
(* What was taken, and the batch, are the events from the start to q.      *)
<1>11. /\ su.start <= q
       /\ stream.seen \o k.batch = InOrder(Between(history, su.start, q))
  <2>1. CASE stream.start = None
    <3>1. su.start = p /\ stream.seen = << >>
      BY <1>2, <1>6, <2>1 DEF NotStarted
    <3> QED
      BY <1>4, <1>5, <1>9, <3>1
  <2>2. CASE stream.start # None /\ stream.token # None
    <3>1. /\ su.start = stream.start /\ stream.start \in Nat
          /\ p = stream.token /\ stream.start <= p
          /\ stream.seen = InOrder(Between(history, stream.start, p))
      BY <1>2, <1>3, <1>6, <1>7, <2>2 DEF AtToken
    <3>2. InOrder(Between(history, stream.start, p)) \o
            InOrder(Between(history, p, q)) =
            InOrder(Between(history, stream.start, q))
      <4>1. /\ stream.start \in Nat /\ p \in Nat /\ q \in Nat
            /\ stream.start <= p /\ p <= q
        BY <1>3, <1>4, <3>1
      <4> QED
        BY <4>1, BetweenConcat
    <3> QED
      BY <1>3, <1>4, <1>5, <3>1, <3>2
  <2>3. CASE stream.start # None /\ stream.token = None
    <3>1. /\ su.start = stream.start /\ stream.start \in Nat
          /\ p = stream.optime /\ stream.start <= p
          /\ stream.seen = << >>
          /\ Between(history, stream.start, p) = {}
      BY <1>2, <1>3, <1>6, <1>7, <2>3 DEF AtTime
    <3>2. InOrder(Between(history, stream.start, p)) \o
            InOrder(Between(history, p, q)) =
            InOrder(Between(history, stream.start, q))
      <4>1. /\ stream.start \in Nat /\ p \in Nat /\ q \in Nat
            /\ stream.start <= p /\ p <= q
        BY <1>3, <1>4, <3>1
      <4> QED
        BY <4>1, BetweenConcat
    <3>3. InOrder(Between(history, stream.start, p)) = << >>
      BY <3>1, InOrderEmpty
    <3>4. InOrder(Between(history, p, q)) =
            InOrder(Between(history, stream.start, q))
      BY <1>5, <1>9, <3>2, <3>3
    <3>5. stream.start <= q
      BY <1>3, <1>4, <3>1
    <3> QED
      BY <1>5, <1>9, <3>1, <3>4, <3>5
  <2> QED
    BY <2>1, <2>2, <2>3
<1>12. Follows(k, su, history, now, cl)
  BY <1>4, <1>10, <1>11 DEF Follows
<1>13. su.token # None => AtToken(su, history, now)
  <2>1. CASE k.batch = << >>
    <3>1. su.token = q /\ stream.seen = InOrder(Between(history, su.start, q))
      BY <1>6, <1>9, <1>11, <2>1
    <3> QED
      BY <1>4, <1>6, <1>11, <3>1 DEF AtToken
  <2>2. CASE k.batch # << >> /\ stream.token # None
    <3>1. su.token = stream.token
      BY <1>6, <2>2
    <3>2. CASE stream.start # None
      BY <1>2, <1>6, <2>2, <3>1, <3>2 DEF AtToken
    <3>3. CASE stream.start = None
      <4>1. stream.option \in {"resumeAfter", "startAfter"}
        BY <1>2, <1>7, <2>2, <3>3 DEF NotStarted, StartOptions
      <4>2. su.token = p /\ su.start = p /\ su.seen = << >>
        BY <1>2, <1>3, <1>6, <3>1, <3>3, <4>1 DEF NotStarted
      <4>3. Between(history, p, p) = {}
        BY <1>3 DEF Between
      <4>4. p <= p /\ p <= now
        BY <1>2, <1>3, <1>4
      <4> QED
        BY <4>2, <4>3, <4>4, InOrderEmpty DEF AtToken
    <3> QED
      BY <3>2, <3>3
  <2> QED
    BY <1>6, <2>1, <2>2
<1>14. su.token = None => AtTime(k, su, history, now, cl, in_exhaust)
  <2> SUFFICES ASSUME su.token = None
               PROVE  AtTime(k, su, history, now, cl, in_exhaust)
    OBVIOUS
  <2>1. k.batch # << >> /\ stream.token = None
    BY <1>4, <1>6 DEF None
  <2>2. CASE stream.start # None
    <3>1. AtTime(NoCursor, stream, history, now, call, in_exhaust)
      BY <1>2, <2>1, <2>2
    <3>2. su.optime = stream.optime /\ su.start = stream.start /\ p = stream.optime
      BY <1>3, <1>6, <2>1, <2>2, <3>1 DEF AtTime
    <3> QED
      BY <1>4, <1>6, <3>1, <3>2 DEF AtTime
  <2>3. CASE stream.start = None
    <3>1. /\ NotStarted(stream, now, call) /\ ~call.resume /\ su.start = p
          /\ su.seen = << >>
      BY <1>2, <1>6, <2>3 DEF NotStarted
    <3>2. CASE stream.option = "none"
      <4>1. su.optime = now /\ p \in {now - 1, now}
        BY <1>3, <1>6, <2>3, <3>1, <3>2 DEF NotStarted
      <4>2. q = now
        <5>1. SUFFICES ASSUME q # now PROVE FALSE
          OBVIOUS
        <5>2. q = p
          BY <1>2, <1>3, <1>4, <4>1, <5>1
        <5>3. Between(history, p, q) = {}
          BY <1>3, <5>2 DEF Between
        <5> QED
          BY <1>5, <2>1, <5>3, InOrderEmpty
      <4>3. p <= now /\ now # None
        BY <1>2, <1>3, <1>4 DEF None
      <4> QED
        BY <1>2, <3>1, <4>1, <4>2, <4>3 DEF AtTime
    <3>3. CASE stream.option # "none"
      <4>1. stream.option = "atTime"
        BY <1>3, <1>6, <1>7, <2>1, <2>3, <3>1, <3>3 DEF NotStarted, StartOptions, None
      <4>2. su.optime = p
        BY <1>3, <1>6, <2>3, <3>1, <3>3, <4>1 DEF NotStarted
      <4>3. p <= p /\ p <= now /\ p # None
        BY <1>2, <1>3, <1>4 DEF None
      <4> QED
        BY <1>4, <3>1, <4>2, <4>3 DEF AtTime
    <3> QED
      BY <3>2, <3>3
  <2> QED
    BY <2>2, <2>3
<1>15. su.start <= now
  BY <1>2, <1>4, <1>10, <1>11
<1> QED
  BY <1>10, <1>12, <1>13, <1>14, <1>15 DEF StreamData

(* _make_cursor makes the cursor of the stream.                            *)
LEMMA MadeStep ==
  ASSUME IInv, call.at = "aggregate", ~in_exhaust, in_exhaust' = in_exhaust,
         NEW p \in Begins(MakeCommand(stream)), NEW q \in Ends("watch", p),
         NEW id \in Nat \ {0}, id \notin DOMAIN open,
         \A d \in Handles : cursor[d].id # id,
         NEW a, ReadsTo(a, open', id, "watch", p, q), Made(a, p),
         id \in DOMAIN open' => open'[id].sess = W,
         \A i \in DOMAIN open' : i # id => Keeps(open, open', i),
         ServerTyped', UNCHANGED <<history, now, delivered>>
  PROVE  IInv'
<1> DEFINE k == [NewCursor(FALSE) EXCEPT !.state = "InBatch", !.id = a.id,
              !.batch = a.batch, !.pbrt = a.pbrt, !.server = call.server,
              !.sess = stream.sess, !.explicit = TRUE]
           su == MadeStream(stream, a.batch, p, a.pbrt)
<1>1. call.at \in Making
  BY DEF Making
<1>2. /\ TypeOK /\ call \in Calls /\ stream \in StreamRecords /\ now \in Nat
      /\ stream.live /\ ~stream.err /\ call.doc = 0
      /\ ~cursor[W].live
      /\ call.resume => stream.resumed
      /\ stream.sess = W /\ W \in held /\ call.server \in Servers
  BY <1>1, MakingFacts
<1>3. p \in Nat
  BY BeginsAt
<1>4. /\ q \in Nat /\ Batch("watch", p, q) \in Seq(Nat \ {0})
      /\ Token("watch", q) = q
  BY <1>2, <1>3, BatchTyped, StreamBatch
<1>5. /\ a.batch = Batch("watch", p, q) /\ a.pbrt = q /\ a.id \in {0, id}
      /\ a.id = id => /\ id \in DOMAIN open' /\ open'[id].pos = q
                      /\ open'[id].kind = "watch"
  BY <1>4 DEF ReadsTo
<1>6. /\ cursor' = [cursor EXCEPT ![W] = k] /\ stream' = su /\ held' = held
      /\ call' = IF call.resume
                   THEN [call EXCEPT !.at = "next",
                           !.moved = IF call.loop.server = call.server
                                       THEN @ ELSE @ + 1]
                   ELSE Idle
  BY DEF Made, MadeStream
<1>7. /\ k \in Cursors /\ k.live = TRUE /\ k.state = "InBatch" /\ k.id = a.id
      /\ k.batch = a.batch /\ k.pbrt = a.pbrt /\ k.server = call.server
      /\ k.sess = W /\ k.explicit = TRUE /\ k.opt = FALSE
      /\ k.in_exhaust = FALSE /\ k.error = OkReply
  <2>1. /\ NewCursor(FALSE) \in Cursors /\ NewCursor(FALSE).live = TRUE
        /\ NewCursor(FALSE).opt = FALSE /\ NewCursor(FALSE).in_exhaust = FALSE
        /\ NewCursor(FALSE).error = OkReply
    BY RepliesTyped DEF NewCursor, Cursors
  <2>2. a.id \in Nat /\ a.batch \in Seq(Nat \ {0}) /\ a.pbrt \in Nat /\ W \in Handles
    BY <1>4, <1>5, StreamHandle
  <2> QED
    BY <1>2, <2>1, <2>2 DEF Cursors
<1>8. /\ su \in StreamRecords /\ su.live = stream.live /\ su.err = stream.err
      /\ su.resumed = stream.resumed /\ su.sess = stream.sess
  <2>1. a.pbrt \in Nat /\ stream \in StreamRecords /\ now \in Nat
    BY <1>2, <1>4, <1>5
  <2> QED
    BY <1>3, <2>1, MadeStreamIs
<1> HIDE DEF k
<1>9. 0 \notin DOMAIN open'
  BY DEF ServerTyped, OpenType
<1>10. Life(W, k, open', held')
  <2>1. W \in Streams /\ W \notin Finds /\ Kind(W) = "watch"
    BY StreamHandle DEF Kind
  <2> QED
    BY <1>2, <1>5, <1>6, <1>7, <1>9, <2>1 DEF Life
<1>11. \A d \in Handles : d # W /\ k.id = cursor[d].id => k.id = 0
  BY <1>5, <1>7
<1>12. \A d \in Handles : d # W => Keeps(open, open', cursor[d].id)
  <2>1. \A d \in Handles : cursor[d].id \in DOMAIN open' => Keeps(open, open', cursor[d].id)
    OBVIOUS
  <2> QED
    BY <2>1 DEF Keeps
<1>13. /\ call' \in Calls /\ call'.doc = 0 /\ call'.resume = call.resume
       /\ call'.at = IF call.resume THEN "next" ELSE "idle"
  <2>1. CASE call.resume
    <3> DEFINE moved == IF call.loop.server = call.server THEN call.moved
                                                          ELSE call.moved + 1
    <3>1. call' = [call EXCEPT !.at = "next", !.moved = moved]
      BY <1>2, <1>6, <2>1 DEF Calls
    <3>2. moved \in Nat
      BY <1>2 DEF Calls
    <3> HIDE DEF moved
    <3> QED
      BY <1>2, <2>1, <3>1, <3>2 DEF Calls
  <2>2. CASE ~call.resume
    <3>1. call.resume \in BOOLEAN
      BY <1>2 DEF Calls
    <3>2. call.resume = FALSE
      BY <2>2, <3>1, Zenon
    <3> QED
      BY <1>6, <3>2, IdleIs
  <2> QED
    BY <2>1, <2>2
<1>14. ~call.resume => call' = Idle
  BY <1>6
<1> HIDE DEF su
<1>15. /\ StreamData(k, su, open', history, now, call', in_exhaust)
       /\ su.start # None
  <2>1. /\ k.live /\ k.batch = Batch("watch", p, q) /\ k.pbrt = q
        /\ k.id \in DOMAIN open' => open'[k.id].pos = q
        /\ call'.at \in {"idle", "next"} /\ call'.resume = call.resume
        /\ su = MadeStream(stream, k.batch, p, q)
    BY <1>5, <1>7, <1>9, <1>13 DEF su
  <2> QED
    BY <2>1, MadeData
<1>16. Calling(call', cursor', held', in_exhaust')
  <2>1. CASE call.resume
    BY <1>13, <2>1, CallingStream DEF StreamPoints
  <2>2. CASE ~call.resume
    BY <1>14, <2>2, IdleIs
  <2> QED
    BY <2>1, <2>2
<1>17. StreamState(call', k, held', su, in_exhaust')
  <2>1. k.live /\ ~Failed(k) /\ k.state = "InBatch" /\ su.live /\ ~su.err
    BY <1>2, <1>7, <1>8, RepliesTyped DEF Failed
  <2>2. call'.resume => su.resumed
    BY <1>2, <1>8, <1>13
  <2>3. call'.at \in {"idle", "next"} /\ (call'.at = "next" => call'.resume)
    BY <1>13
  <2> QED
    BY <1>15, <2>1, <2>2, <2>3 DEF StreamState, Making
<1>18. StepTyped'
  BY <1>2, <1>6, <1>13 DEF StepTyped, ServerTyped, TypeOK
<1>19. /\ stream' = su /\ held \ {W} \subseteq held'
       /\ StreamData(k, su, open', history, now, call', in_exhaust')
  BY <1>6, <1>15
<1>20. cursor' = [cursor EXCEPT ![W] = k]
  BY <1>6
<1> QED
  BY <1>7, <1>8, <1>10, <1>11, <1>12, <1>16, <1>17, <1>18, <1>19, <1>20,
     StreamStep

(* The aggregate command is answered                                       *)
LEMMA AggregatedPreserves == ASSUME IInv, Aggregated PROVE IInv'
<1> DEFINE s == call.loop.server
           id == NewId(W)
<1>1. call.at = "aggregate" /\ ~in_exhaust /\ call.at \in Making
  BY DEF Aggregated, Making
<1>2. /\ TypeOK /\ stream.sess = W /\ s \in Servers /\ W \in Handles
  BY <1>1, MakingFacts, StreamHandle
<1>3. /\ UNCHANGED <<history, now, in_exhaust, delivered>>
      /\ crossed' = (crossed \/ Crosses(s, 0))
  BY DEF Aggregated
<1>4. crossed' \in BOOLEAN /\ in_exhaust' \in BOOLEAN
  BY <1>2, <1>3 DEF TypeOK, Crosses
<1>5. ASSUME NEW p \in Begins(MakeCommand(stream)),
             NEW o \in RunOpen(s, "watch", p, id, stream.sess, FALSE),
             Takes(o), AfterAggregate(o.answer, p)
      PROVE  IInv'
  <2>1. /\ id \in Nat \ {0} /\ id \notin DOMAIN open
        /\ \A d \in Handles : cursor[d].id # id
    BY <1>2, NewIdFresh
  <2>2. p \in Nat /\ "watch" \in {"find", "watch"} /\ FALSE \in BOOLEAN
    BY <1>1, <1>5, BeginsAt
  <2>3. o \in RunOpen(s, "watch", p, id, W, FALSE)
    BY <1>2, <1>5
  <2> HIDE DEF s, id
  <2>4. Opened(o, open, streaming, s, "watch", p, id, W, FALSE)
    BY <1>2, <2>1, <2>2, <2>3, RunOpenIs
  <2>5. PICK q \in Ends("watch", p) :
          /\ OutcomeType(o) /\ ~o.fault
          /\ ReadsTo(o.answer, o.open, id, "watch", p, q)
          /\ \A i \in DOMAIN o.open : i # id => Keeps(open, o.open, i)
          /\ id \in DOMAIN o.open => o.open[id] =
               [server |-> s, kind |-> "watch", pos |-> q, sess |-> W]
    BY <2>4, Zenon DEF Opened
  <2>6. ServerTyped' /\ open' = o.open
    BY <1>2, <1>4, <1>5, <2>5, TakesTyped
  <2>7. Made(o.answer, p)
    <3>1. o.answer.reply = OkReply
      BY <2>5 DEF ReadsTo
    <3>2. ~Retries(call.loop, o.answer.reply) /\ o.answer.reply.ok
      BY <3>1, OkNotRetried, RepliesTyped
    <3> QED
      BY <1>5, <3>2 DEF AfterAggregate
  <2>8. id \in DOMAIN open' => open'[id].sess = W
    BY <2>5, <2>6
  <2>9. /\ ReadsTo(o.answer, open', id, "watch", p, q)
        /\ \A i \in DOMAIN open' : i # id => Keeps(open, open', i)
    BY <2>5, <2>6
  <2> QED
    BY <1>1, <1>3, <1>5, <2>1, <2>6, <2>7, <2>8, <2>9, MadeStep
<1>6. ASSUME NEW o \in Refuse(s, 0), Takes(o), AfterAggregate(o.answer, 0)
      PROVE  IInv'
  <2>1. Refused(o, open)
    BY <1>2, <1>6, RefuseDoes
  <2>2. PICK r \in {OverloadError, NotPrimary, OtherError} :
           o.answer = ErrorAnswer(r)
    BY <2>1 DEF Refused
  <2>3. OutcomeType(o) /\ Shrinks(open, o.open)
    BY <2>1 DEF Refused
  <2>4. ~o.answer.reply.ok
    <3>1. o.answer.reply = r
      BY <2>2, ErrorAnswerIs
    <3>2. ~r.ok
      BY <2>2, RepliesTyped
    <3> QED
      BY <3>1, <3>2
  <2>5. ServerTyped' /\ open' = o.open
    BY <1>2, <1>4, <1>6, <2>3, TakesTyped
  <2>6. Shrinks(open, open')
    BY <2>3, <2>5
  <2> QED
    BY <1>1, <1>3, <1>6, <2>4, <2>5, <2>6, AggregateAttemptFails
<1> QED
  BY <1>5, <1>6 DEF Aggregated

----------------------------------------------------------------------------
(* The first state                                                         *)
LEMMA InitIInv == ASSUME Init PROVE IInv
<1>1. /\ open = << >> /\ streaming = [s \in Servers |-> 0] /\ now = 0
      /\ history \in Histories /\ faults = 0 /\ in_exhaust = FALSE
      /\ cursor = [c \in Handles |-> NoCursor] /\ held = {} /\ call = Idle
      /\ delivered = [c \in Finds |-> << >>] /\ crossed = FALSE
      /\ stream = NoStream
  BY DEF Init, CursorInit, ServerInit
<1>2. DOMAIN open = {} /\ 0 \notin DOMAIN open
  BY <1>1
<1>3. TypeOK
  <2>1. IsFiniteSet({})
    BY FS_EmptySet
  <2>2. /\ IsFiniteSet(DOMAIN open) /\ DOMAIN open \subseteq Nat \ {0}
        /\ open \in [DOMAIN open -> ServerCursors]
    BY <1>1, <1>2, <2>1
  <2>3. 0 \in 0..Len(history) /\ 0 \in 0..MaxFaults
    BY <1>1, CursorServerAssumption
  <2>4. cursor \in [Handles -> Cursors]
    BY <1>1, NoCursorIs
  <2>5. call \in Calls /\ stream \in StreamRecords
    BY <1>1, IdleIs, NoStreamIs
  <2>6. /\ streaming \in [Servers -> Nat] /\ held \subseteq Handles
        /\ delivered \in [Finds -> Seq(Nat \ {0})]
    BY <1>1
  <2> QED
    BY <1>1, <2>2, <2>3, <2>4, <2>5, <2>6 DEF TypeOK
<1>4. \A c \in Handles : cursor[c] = NoCursor
  BY <1>1
<1>5. Distinct(cursor)
  BY <1>4, NoCursorIs DEF Distinct
<1>6. \A c \in Handles : Life(c, cursor[c], open, held)
  BY <1>2, <1>4, NoCursorIs
<1>7. ASSUME NEW c \in Finds PROVE FindData(cursor[c], delivered[c], open)
  <2>1. cursor[c] = NoCursor /\ delivered[c] = << >>
    BY <1>1, <1>4 DEF Handles
  <2> QED
    BY <1>2, <2>1, NoCursorIs
<1>8. W \in Handles /\ cursor[W] = NoCursor
  BY <1>4, StreamHandle
<1>9. /\ Calling(call, cursor, held, in_exhaust)
      /\ ~OfStream(Idle) /\ Idle.at = "idle" /\ ~Idle.resume
  BY <1>1, IdleIs
<1>10. StreamState(call, cursor[W], held, stream, in_exhaust)
  BY <1>1, <1>8, <1>9, NoCursorIs, NoStreamIs DEF StreamState, Making
<1>11. StreamData(cursor[W], stream, open, history, now, call, in_exhaust)
  BY <1>1, <1>2, <1>8, <1>9, NoCursorIs, NoStreamIs DEF StreamData, NotStarted
<1> QED
  BY <1>3, <1>5, <1>6, <1>7, <1>9, <1>10, <1>11 DEF IInv

(* Every step keeps the invariant.                                         *)
LEMMA NextIInv == ASSUME IInv, [Next]_vars PROVE IInv'
<1>1. CASE UNCHANGED vars
  BY <1>1 DEF IInv, TypeOK, vars, serverVars, cursorVars
<1>2. CASE Application /\ UNCHANGED stream
  BY <1>2, FindPreserves, FindNextPreserves, FindDestroyPreserves DEF Application
<1>3. CASE Deployment /\ UNCHANGED stream
  BY <1>3, DeploymentPreserves
<1>4. CASE Watch \/ StreamNext \/ StreamDestroy
  BY <1>4, WatchPreserves, StreamNextPreserves, StreamDestroyPreserves
<1>5. CASE Driver /\ UNCHANGED stream
  BY <1>5, FetchFailsPreserves, FetchPreserves, AnsweredPreserves,
     ConnectionFailsPreserves, RetrySelectPreserves, RetrySelectFailsPreserves,
     KillPreserves, KillFailsPreserves DEF Driver
<1>6. CASE StreamDriver
  BY <1>6, PickFailsPreserves, PickPreserves, AggregatedPreserves,
     AggregateFailsPreserves, AggregateReselectPreserves, ResumedNextPreserves,
     DeliverPreserves, NothingNewPreserves, StreamFailsPreserves,
     ResumePreserves, DiscardPreserves, DiscardedPreserves DEF StreamDriver
<1> QED
  BY <1>1, <1>2, <1>3, <1>4, <1>5, <1>6 DEF Next, DriverSteps

(* The cursors and the stream of a client keep what the proofs of their    *)
(* properties rest on: a cursor is where the server cursor is, with the    *)
(* documents in between in its batch.                                      *)
THEOREM StreamInductive == Spec => []IInv
<1>1. Init => IInv
  BY InitIInv
<1>2. IInv /\ [Next]_vars => IInv'
  BY NextIInv
<1> QED
  BY <1>1, <1>2, PTL DEF Spec

(* TypeOK: every variable of the cursors and the stream keeps its type,    *)
(* the records of mongoc_cursor_t and mongoc_change_stream_t included.     *)
THEOREM StreamTypes == Spec => []TypeOK
<1>1. IInv => TypeOK
  BY DEF IInv
<1> QED
  BY <1>1, StreamInductive, PTL

(* FindExact: mongoc_cursor_next returns the documents of a find in order, *)
(* each once, and ends without an error only after the last.               *)
THEOREM FindsExact == Spec => []FindExact
<1>1. IInv => FindExact
  <2> SUFFICES ASSUME IInv, NEW c \in Finds
               PROVE  /\ \A i \in DOMAIN delivered[c] : delivered[c][i] = i
                      /\ cursor[c].state = "Done" /\ ~Failed(cursor[c]) =>
                           Len(delivered[c]) = NumDocs
    BY DEF FindExact
  <2>1. /\ FindData(cursor[c], delivered[c], open)
        /\ Life(c, cursor[c], open, held)
        /\ delivered[c] \in Seq(Nat \ {0})
    BY FindFacts
  <2>2. ASSUME cursor[c].state = "Done", ~Failed(cursor[c])
        PROVE  Len(delivered[c]) = NumDocs
    <3>1. cursor[c].id = 0 /\ cursor[c].batch = << >>
      BY <2>1, <2>2 DEF FindData, Life
    <3>2. Len(delivered[c]) + Len(cursor[c].batch) = NumDocs
      BY <2>1, <2>2, <3>1 DEF FindData
    <3>3. Len(<< >>) = 0 /\ Len(delivered[c]) \in Nat
      BY <2>1
    <3> QED
      BY <3>1, <3>2, <3>3
  <2> QED
    BY <2>1, <2>2 DEF FindData
<1> QED
  BY <1>1, StreamInductive, PTL

(* SessionOfOpenCursor: the session of an open server cursor stays checked *)
(* out while a live cursor refers to it.                                   *)
THEOREM SessionsKept == Spec => []SessionOfOpenCursor
<1>1. IInv => SessionOfOpenCursor
  <2> SUFFICES ASSUME IInv, NEW id \in DOMAIN open, NEW c \in Handles,
                      cursor[c].live, cursor[c].id = id
               PROVE  open[id].sess \in held
    BY DEF SessionOfOpenCursor
  <2>1. Life(c, cursor[c], open, held) /\ DOMAIN open \subseteq Nat \ {0}
    BY DEF IInv, TypeOK
  <2> QED
    BY <2>1 DEF Life
<1> QED
  BY <1>1, StreamInductive, PTL

(* The events up to the last one returned are the ones returned.           *)
LEMMA SeenAre ==
  ASSUME IInv, stream.seen # << >>
  PROVE  stream.seen = Events(stream.seen[Len(stream.seen)])
<1>1. /\ StreamData(cursor[W], stream, open, history, now, call, in_exhaust)
      /\ stream \in StreamRecords
  BY StreamFacts
<1>2. /\ stream.seen \in Seq(Nat \ {0}) /\ stream.start \in Nat \cup {None}
      /\ stream.token \in Nat \cup {None}
  BY <1>1 DEF StreamRecords
<1>3. /\ stream.start \in Nat /\ stream.token \in Nat
      /\ stream.seen = InOrder(Between(history, stream.start, stream.token))
  BY <1>1, <1>2 DEF StreamData, NotStarted, AtToken, AtTime
<1> DEFINE S == Between(history, stream.start, stream.token)
           last == stream.seen[Len(stream.seen)]
<1>4. S \in SUBSET (0..stream.token)
  BY <1>3 DEF Between
<1>5. /\ stream.seen \in Seq(Nat) /\ << >> \in Seq(Nat)
      /\ stream.seen \o << >> = InOrder(S)
  BY <1>2, <1>3
<1> HIDE DEF S
<1>6. last \in S /\ stream.seen = InOrder({i \in S : i <= last})
  BY <1>3, <1>4, <1>5, InOrderPrefix
<1> HIDE DEF last
<1>7. {i \in S : i <= last} =
        {i \in (stream.start + 1)..last : history[i] # "other"}
  BY <1>3, <1>6 DEF S, Between
<1>8. stream.seen = Events(last)
  BY <1>6, <1>7 DEF Events
<1> QED
  BY <1>8 DEF last

(* NoEventLost: the events mongoc_change_stream_next has returned are      *)
(* those of the history, in order and without a gap, however often its     *)
(* cursor was lost and opened again.                                       *)
THEOREM EventsInOrder == Spec => []NoEventLost
<1>1. IInv => NoEventLost
  BY SeenAre DEF NoEventLost
<1> QED
  BY <1>1, StreamInductive, PTL

(* TokenExact: between two calls the resume token stands for exactly the   *)
(* events that were returned.                                              *)
THEOREM TokensExact == Spec => []TokenExact
<1>1. IInv => TokenExact
  <2> SUFFICES ASSUME IInv, stream.start # None, stream.token # None
               PROVE  stream.seen = Events(stream.token)
    BY DEF TokenExact
  <2>1. StreamData(cursor[W], stream, open, history, now, call, in_exhaust)
    BY StreamFacts
  <2> QED
    BY <2>1 DEF StreamData, AtToken, Events, Between
<1> QED
  BY <1>1, StreamInductive, PTL

----------------------------------------------------------------------------
(* What streams is a cursor that is open where it streams.                 *)
StreamsOpen(o, str) ==
  \A s \in Servers :
    str[s] # 0 => str[s] \in DOMAIN o /\ o[str[s]].server = s

(* An open cursor is in exhaust mode exactly while it streams.             *)
Exhausts(k, o, str) ==
  /\ k.in_exhaust => k.id # 0
  /\ k.id \in DOMAIN o =>
       /\ k.in_exhaust => k.state # "Done" /\ str[k.server] = k.id
       /\ ~k.in_exhaust => \A s \in Servers : str[s] # k.id

(* A cursor that moves to another server, or is killed, does not stream.   *)
Ended(cl, k, o) ==
  /\ cl.at = "select" /\ k.id \in DOMAIN o => ~k.in_exhaust
  /\ cl.at = "kill" => ~k.in_exhaust

Streaming ==
  /\ StreamsOpen(open, streaming)
  /\ \A c \in Handles : Exhausts(cursor[c], open, streaming)
  /\ call.at \in {"select", "kill"} => Ended(call, cursor[call.c], open)

(* Where a call goes on after a step of cursor c.                          *)
SameCount(cl, m) ==
  /\ m.resume = cl.resume /\ m.timeouts = cl.timeouts
  /\ m.resumes = cl.resumes /\ m.moved = cl.moved

(* A retry has parted the cursor from its server.                          *)
OneMove(cl, m) ==
  /\ m.resume = cl.resume /\ m.timeouts = cl.timeouts
  /\ m.resumes = cl.resumes /\ m.moved = cl.moved + 1
Onward(cl, m, c) ==
  /\ m.at \in {"idle", "fetch", "advanced"}
  /\ m.at = "idle" => c \in Finds /\ m = Idle
  /\ m.at # "idle" => m.c = c /\ SameCount(cl, m)
  /\ c \in Finds => m.at # "advanced"

(* mongoc_cursor_next returns.                                             *)
LEMMA ReturnsOnward ==
  ASSUME call \in Calls, NEW c \in Handles, NEW k, NEW doc, Returns(c, k, doc)
  PROVE  cursor' = [cursor EXCEPT ![c] = k] /\ Onward(call, call', c)
<1>1. CASE c \in Finds
  <2>1. call' = Idle
    BY <1>1 DEF Returns
  <2>2. Idle.at = "idle"
    BY DEF Idle
  <2> QED
    BY <1>1, <2>1, <2>2 DEF Returns, Onward
<1>2. CASE c \notin Finds
  BY <1>2 DEF Returns, Onward, SameCount, Calls
<1> QED
  BY <1>1, <1>2

(* What Proceed does to its cursor.                                        *)
Moves(j, k) ==
  /\ j \in Cursors /\ SameCursor(j, k) /\ j.error = k.error
  /\ j.timed_out = k.timed_out
  /\ j.state = "Done" => k.state = "Done" \/ k.id = 0

(* The loop of mongoc_cursor_next moves its cursor and the call on.        *)
LEMMA ProceedOnward ==
  ASSUME call \in Calls, NEW c \in Handles, NEW k \in Cursors,
         NEW refreshed \in BOOLEAN, Proceed(c, k, refreshed)
  PROVE  \E j : /\ Moves(j, k) /\ cursor' = [cursor EXCEPT ![c] = j]
                /\ Onward(call, call', c)
<1>1. /\ Popped(k) \in Cursors /\ SameCursor(Popped(k), k)
      /\ Popped(k).error = k.error /\ Popped(k).timed_out = k.timed_out
      /\ Popped(k).state = "Done" => k.state = "Done" \/ k.id = 0
  BY PoppedIs DEF Cursors
<1>2. Moves(Popped(k), k)
  BY <1>1 DEF Moves
<1>3. CASE /\ k.state = "InBatch" /\ k.batch # << >>
           /\ Returns(c, [k EXCEPT !.batch = Tail(@)], Head(k.batch))
  <2> DEFINE j == [k EXCEPT !.batch = Tail(@)]
  <2>1. k.batch \in Seq(Nat \ {0})
    BY DEF Cursors
  <2>2. Tail(k.batch) \in Seq(Nat \ {0})
    BY <1>3, <2>1
  <2>3. Moves(j, k)
    BY <1>3, <2>2 DEF Moves, SameCursor, Cursors
  <2> HIDE DEF j
  <2>4. cursor' = [cursor EXCEPT ![c] = j] /\ Onward(call, call', c)
    BY <1>3, ReturnsOnward DEF j
  <2> QED
    BY <2>3, <2>4
<1>4. CASE Returns(c, Popped(k), 0)
  BY <1>2, <1>4, ReturnsOnward
<1>5. CASE Fetches(c, Popped(k))
  <2>1. cursor' = [cursor EXCEPT ![c] = Popped(k)]
    BY <1>5 DEF Fetches
  <2>2. Onward(call, call', c)
    BY <1>5 DEF Fetches, Onward, SameCount, Calls
  <2> QED
    BY <1>2, <2>1, <2>2
<1> QED
  BY <1>3, <1>4, <1>5, ProceedCases

(* An attempt that failed is retried, or is the end of the command.        *)
AttemptOver(a, k, j, c) ==
  /\ SameCursor(j, k)
  /\ \/ /\ Retries(call.loop, a.reply) /\ j = k
        /\ call'.at = "select" /\ call'.c = c /\ SameCount(call, call')
        /\ call'.cmd = call.cmd
        /\ call'.loop = NextAttempt(call.loop, a.reply)
     \/ /\ ~Retries(call.loop, a.reply)
        /\ Onward(call, call', c) /\ call'.at # "fetch"
        /\ c = W => j.error = a.reply /\ j.timed_out = k.timed_out

(* What AfterAttempt does with a reply that is an error.                   *)
LEMMA AttemptOverIs ==
  ASSUME call \in Calls, call.c \in Handles, NEW k \in Cursors, NEW a,
         ~a.reply.ok, AfterAttempt(k, a)
  PROVE  \E j : /\ cursor' = [cursor EXCEPT ![call.c] = j]
                /\ AttemptOver(a, k, j, call.c)
<1>1. CASE Retries(call.loop, a.reply)
  <2>1. /\ cursor' = [cursor EXCEPT ![call.c] = k]
        /\ call' = [call EXCEPT !.at = "select",
                                !.loop = NextAttempt(call.loop, a.reply)]
    BY <1>1 DEF AfterAttempt
  <2>2. /\ call'.at = "select" /\ call'.c = call.c /\ SameCount(call, call')
        /\ call'.loop = NextAttempt(call.loop, a.reply) /\ call'.cmd = call.cmd
    BY <2>1 DEF Calls, SameCount
  <2> QED
    BY <1>1, <2>1, <2>2 DEF AttemptOver, SameCursor
<1>2. CASE ~Retries(call.loop, a.reply)
  <2> DEFINE j == IF call.c \in Finds
               THEN [k EXCEPT !.state = "Done", !.error = Local,
                              !.timed_out = FALSE]
               ELSE [k EXCEPT !.state = "Done", !.error = a.reply]
  <2>1. Returns(call.c, j, 0)
    BY <1>2 DEF AfterAttempt, Fails
  <2>2. SameCursor(j, k)
    BY DEF SameCursor, Cursors
  <2>3. call.c = W => j.error = a.reply /\ j.timed_out = k.timed_out
    BY StreamHandle DEF Cursors
  <2>4. call'.at # "fetch"
    <3>1. Idle.at = "idle"
      BY DEF Idle
    <3> QED
      BY <2>1, <3>1 DEF Returns, Calls
  <2> HIDE DEF j
  <2>5. cursor' = [cursor EXCEPT ![call.c] = j] /\ Onward(call, call', call.c)
    BY <2>1, ReturnsOnward
  <2> QED
    BY <1>2, <2>2, <2>3, <2>4, <2>5 DEF AttemptOver
<1> QED
  BY <1>1, <1>2

(* An attempt that succeeded.                                              *)
AttemptDone(a, k, j, c) ==
  /\ j \in Cursors /\ j.id = a.id /\ j.in_exhaust = a.more
  /\ j.server = k.server /\ j.error = k.error
  /\ j.state = "Done" => a.id = 0
  /\ Onward(call, call', c)

(* What AfterAttempt does with a reply that is none.                       *)
LEMMA AttemptDoneIs ==
  ASSUME call \in Calls, call.c \in Handles, NEW k \in Cursors, NEW a,
         a.reply = OkReply, a.id \in Nat, a.batch \in Seq(Nat \ {0}),
         a.pbrt \in Nat, a.more \in BOOLEAN, AfterAttempt(k, a)
  PROVE  \E j : /\ cursor' = [cursor EXCEPT ![call.c] = j]
                /\ AttemptDone(a, k, j, call.c)
<1>1. ~Retries(call.loop, a.reply) /\ a.reply.ok
  BY OkNotRetried DEF OkReply, Reply
<1>2. Proceed(call.c, Reading(k, a), call.refreshed)
  BY <1>1 DEF AfterAttempt
<1>3. /\ Reading(k, a) \in Cursors
      /\ Reading(k, a).state = "InBatch" /\ Reading(k, a).id = a.id
      /\ Reading(k, a).in_exhaust = a.more
      /\ Reading(k, a).server = k.server /\ Reading(k, a).error = k.error
  BY DEF Reading, Cursors
<1>4. call.refreshed \in BOOLEAN
  BY DEF Calls
<1> DEFINE r == Reading(k, a)
<1> HIDE DEF r
<1>5. PICK j : /\ Moves(j, r) /\ cursor' = [cursor EXCEPT ![call.c] = j]
               /\ Onward(call, call', call.c)
  BY <1>2, <1>3, <1>4, ProceedOnward DEF r
<1>6. AttemptDone(a, k, j, call.c)
  BY <1>3, <1>5 DEF AttemptDone, Moves, SameCursor, r
<1> QED
  BY <1>5, <1>6

----------------------------------------------------------------------------
(* A cursor, and what it reads, changes; the others go on as they were.    *)
LEMMA StreamingStep ==
  ASSUME IInv, Streaming, NEW c \in Handles, NEW j,
         cursor' = [cursor EXCEPT ![c] = j],
         StreamsOpen(open', streaming'), Exhausts(j, open', streaming'),
         \A d \in Handles : d # c /\ cursor[d].id \in DOMAIN open' =>
           /\ cursor[d].id \in DOMAIN open
           /\ \A s \in Servers : streaming'[s] = cursor[d].id
                                   <=> streaming[s] = cursor[d].id,
         call'.at \in {"select", "kill"} =>
           Ended(call', cursor'[call'.c], open')
  PROVE  Streaming'
<1>1. cursor \in [Handles -> Cursors]
  BY DEF IInv, TypeOK
<1>2. cursor'[c] = j /\ \A d \in Handles : d # c => cursor'[d] = cursor[d]
  BY <1>1
<1>3. ASSUME NEW d \in Handles, d # c
      PROVE  Exhausts(cursor[d], open', streaming')
  <2>0. cursor[d].in_exhaust => cursor[d].id # 0
    BY DEF Streaming, Exhausts
  <2> SUFFICES ASSUME cursor[d].id \in DOMAIN open'
               PROVE  /\ cursor[d].in_exhaust =>
                           /\ cursor[d].state # "Done"
                           /\ streaming'[cursor[d].server] = cursor[d].id
                      /\ ~cursor[d].in_exhaust =>
                           \A s \in Servers : streaming'[s] # cursor[d].id
    BY <2>0 DEF Exhausts
  <2>1. /\ cursor[d].id \in DOMAIN open
        /\ \A s \in Servers : streaming'[s] = cursor[d].id
                                <=> streaming[s] = cursor[d].id
    BY <1>3
  <2>2. Exhausts(cursor[d], open, streaming)
    BY DEF Streaming
  <2>3. cursor[d].server \in Servers
    <3>1. cursor[d].id # 0
      BY <2>1 DEF IInv, TypeOK
    <3> QED
      BY <3>1 DEF IInv, Life
  <2> QED
    BY <2>1, <2>2, <2>3 DEF Exhausts
<1>4. \A d \in Handles : Exhausts(cursor'[d], open', streaming')
  BY <1>2, <1>3
<1> QED
  BY <1>4 DEF Streaming

(* A step that no server sees.                                             *)
Quiet(j, k) ==
  /\ j.id = k.id /\ j.in_exhaust = k.in_exhaust
  /\ k.id # 0 => j.server = k.server \/ call.at = "select"
  /\ k.in_exhaust /\ j.state = "Done" =>
       k.state = "Done" \/ k.id = 0 \/ call.at = "select"
Aside(c, j) ==
  /\ UNCHANGED <<open, streaming, in_exhaust, crossed>>
  /\ cursor' = [cursor EXCEPT ![c] = j]
  /\ Quiet(j, cursor[c])
  /\ call.at = "select" => call.c = c
  /\ call'.at # "select"
  /\ call'.at = "kill" => ~cursor'[call'.c].in_exhaust

(* Streams and cursors agree after a step that no server sees.             *)
LEMMA QuietStreaming ==
  ASSUME IInv, Streaming, NEW c \in Handles, NEW j, Aside(c, j)
  PROVE  Streaming'
<1>1. /\ UNCHANGED <<open, streaming>> /\ cursor' = [cursor EXCEPT ![c] = j]
      /\ Quiet(j, cursor[c]) /\ (call.at = "select" => call.c = c)
      /\ call'.at # "select"
      /\ call'.at = "kill" => ~cursor'[call'.c].in_exhaust
  BY DEF Aside
<1>2. /\ Exhausts(cursor[c], open, streaming)
      /\ call.at = "select" => Ended(call, cursor[c], open)
      /\ StreamsOpen(open, streaming)
  BY <1>1 DEF Streaming
<1>3. 0 \notin DOMAIN open
  BY DEF IInv, TypeOK
<1>4. Exhausts(j, open, streaming)
  BY <1>1, <1>2, <1>3 DEF Exhausts, Ended, Quiet
<1>5. /\ StreamsOpen(open', streaming') /\ Exhausts(j, open', streaming')
      /\ \A d \in Handles : d # c /\ cursor[d].id \in DOMAIN open' =>
           /\ cursor[d].id \in DOMAIN open
           /\ \A s \in Servers : streaming'[s] = cursor[d].id
                                   <=> streaming[s] = cursor[d].id
  BY <1>1, <1>2, <1>4
<1>6. call'.at \in {"select", "kill"} => Ended(call', cursor'[call'.c], open')
  BY <1>1 DEF Ended
<1> QED
  BY <1>1, <1>5, <1>6, StreamingStep

(* The same when no cursor changes.                                        *)
LEMMA NoneChanged ==
  ASSUME IInv, UNCHANGED <<open, streaming, in_exhaust, crossed, cursor>>,
         call.at # "select", call'.at # "select",
         call'.at = "kill" => ~cursor'[call'.c].in_exhaust
  PROVE  \E c \in Handles : Aside(c, cursor[c])
<1>1. W \in Handles /\ cursor \in [Handles -> Cursors]
  BY StreamHandle DEF IInv, TypeOK
<1>2. cursor' = [cursor EXCEPT ![W] = cursor[W]]
  BY <1>1
<1>3. Quiet(cursor[W], cursor[W])
  BY DEF Quiet
<1>4. Aside(W, cursor[W])
  BY <1>2, <1>3 DEF Aside
<1> QED
  BY <1>1, <1>4

Sidestep == \E c \in Handles : \E j : Aside(c, j)

(* A step of cursor c that leaves its identity, and a call that goes on.   *)
LEMMA OnwardAside ==
  ASSUME NEW c \in Handles, NEW j, cursor' = [cursor EXCEPT ![c] = j],
         Quiet(j, cursor[c]), call.at = "select" => call.c = c,
         Onward(call, call', c),
         UNCHANGED <<open, streaming, in_exhaust, crossed>>
  PROVE  Sidestep
<1>1. call'.at # "select" /\ call'.at # "kill"
  BY DEF Onward
<1>2. Aside(c, j)
  BY <1>1 DEF Aside
<1> QED
  BY <1>2 DEF Sidestep

(* mongoc_cursor_next sends nothing by itself.                             *)
LEMMA EnterNextAside ==
  ASSUME IInv, NEW c \in Handles, EnterNext(c), call.at # "select"
  PROVE  Sidestep
<1> DEFINE k == cursor[c]
<1>1. k \in Cursors /\ call \in Calls
  BY DEF IInv, TypeOK
<1>2. UNCHANGED <<open, streaming, in_exhaust, crossed>>
  BY DEF EnterNext, serverVars
<1>3. ASSUME NEW j, SameCursor(j, k), j.state = k.state, Returns(c, j, 0)
      PROVE  Sidestep
  <2>1. cursor' = [cursor EXCEPT ![c] = j] /\ Onward(call, call', c)
    BY <1>1, <1>3, ReturnsOnward
  <2>2. Quiet(j, k)
    BY <1>3 DEF Quiet, SameCursor
  <2> QED
    BY <1>2, <2>1, <2>2, OnwardAside
<1>4. CASE Failed(k)
  <2>1. Returns(c, k, 0)
    BY <1>4 DEF EnterNext
  <2> QED
    BY <1>3, <2>1 DEF SameCursor
<1>5. CASE ~Failed(k) /\ (k.state = "Done" \/ (in_exhaust /\ ~k.in_exhaust))
  <2> DEFINE j == [k EXCEPT !.error = Local]
  <2>1. Returns(c, j, 0)
    BY <1>5 DEF EnterNext
  <2>2. SameCursor(j, k) /\ j.state = k.state
    BY <1>1 DEF SameCursor, Cursors
  <2> HIDE DEF j
  <2> QED
    BY <1>3, <2>1, <2>2
<1>6. CASE ~Failed(k) /\ ~(k.state = "Done" \/ (in_exhaust /\ ~k.in_exhaust))
  <2>1. Proceed(c, k, FALSE)
    BY <1>6 DEF EnterNext
  <2> HIDE DEF k
  <2>2. PICK j : /\ Moves(j, k) /\ cursor' = [cursor EXCEPT ![c] = j]
                 /\ Onward(call, call', c)
    BY <1>1, <2>1, ProceedOnward
  <2>3. Quiet(j, k)
    BY <2>2 DEF Moves, SameCursor, Quiet
  <2> QED
    BY <1>2, <2>2, <2>3, OnwardAside DEF k
<1> QED
  BY <1>4, <1>5, <1>6

(* Making a cursor sends nothing.                                          *)
LEMMA FindAside == ASSUME IInv, Find PROVE Sidestep
<1>1. /\ call.at = "idle" /\ UNCHANGED <<open, streaming, in_exhaust, crossed>>
      /\ call' = call
  BY DEF Find, serverVars
<1>2. PICK c \in Finds, exhaust \in BOOLEAN :
        ~cursor[c].live /\ cursor' = [cursor EXCEPT ![c] = NewCursor(exhaust)]
  BY DEF Find
<1>3. c \in Handles
  BY DEF Handles
<1>4. cursor[c] = NoCursor
  BY <1>2, <1>3 DEF IInv, Life
<1>5. Quiet(NewCursor(exhaust), cursor[c])
  BY <1>4 DEF Quiet, NoCursor, NewCursor
<1>6. Aside(c, NewCursor(exhaust))
  BY <1>1, <1>2, <1>5 DEF Aside
<1> QED
  BY <1>3, <1>6 DEF Sidestep

(* A command that cannot be sent.                                          *)
LEMMA CommandFailsAside ==
  ASSUME IInv, FetchFails \/ RetrySelectFails PROVE Sidestep
<1> DEFINE c == call.c
           k == cursor[c]
           j == IF c \in Finds
                  THEN [k EXCEPT !.state = "Done", !.error = Local,
                                 !.timed_out = FALSE]
                  ELSE [k EXCEPT !.state = "Done", !.error = Local]
<1>1. /\ call.at \in Commands /\ Returns(c, j, 0)
      /\ call.at = "select" \/ ~k.in_exhaust
      /\ UNCHANGED <<open, streaming, in_exhaust, crossed>>
  BY DEF FetchFails, RetrySelectFails, Commands, Fails
<1>2. c \in Handles /\ k \in Cursors /\ call \in Calls
  BY <1>1, CommandFacts
<1>3. Quiet(j, k)
  BY <1>1, <1>2 DEF Quiet, Cursors
<1> HIDE DEF j
<1>4. cursor' = [cursor EXCEPT ![c] = j] /\ Onward(call, call', c)
  BY <1>1, <1>2, ReturnsOnward
<1> QED
  BY <1>1, <1>2, <1>3, <1>4, OnwardAside

(* A command that is about to be sent.                                     *)
LEMMA FetchAside == ASSUME IInv, Fetch PROVE Sidestep
<1> DEFINE c == call.c
           k == cursor[c]
<1>1. call.at = "fetch" /\ UNCHANGED <<open, streaming, in_exhaust, crossed>>
  BY DEF Fetch, serverVars
<1>2. /\ c \in Handles /\ k \in Cursors /\ call \in Calls
      /\ Life(c, k, open, held)
  BY <1>1, CommandFacts DEF Commands
<1>3. PICK s \in IF k.server # 0 THEN {k.server} ELSE Servers :
        /\ cursor' = [cursor EXCEPT ![c].server = s, ![c].sess = c,
                                    ![c].timed_out = FALSE]
        /\ call'.at = "send"
  BY <1>2 DEF Fetch, Calls
<1> DEFINE j == [k EXCEPT !.server = s, !.sess = c, !.timed_out = FALSE]
<1>4. cursor' = [cursor EXCEPT ![c] = j]
  <2>1. cursor \in [Handles -> Cursors]
    BY DEF IInv, TypeOK
  <2> QED
    BY <1>2, <1>3, <2>1, AssignedAtOnce
<1>5. k.id # 0 => k.server # 0
  BY <1>2, CursorAssumption DEF Life
<1>6. Quiet(j, k)
  BY <1>2, <1>3, <1>5 DEF Quiet, Cursors
<1> HIDE DEF j
<1>7. Aside(c, j)
  BY <1>1, <1>3, <1>4, <1>6 DEF Aside
<1> QED
  BY <1>2, <1>7 DEF Sidestep

(* Selecting a server for a retry sends nothing.                           *)
LEMMA RetrySelectAside == ASSUME IInv, RetrySelect PROVE Sidestep
<1> DEFINE c == call.c
           k == cursor[c]
<1>1. call.at = "select" /\ UNCHANGED <<open, streaming, in_exhaust, crossed>>
  BY DEF RetrySelect, serverVars
<1>2. c \in Handles /\ k \in Cursors /\ call \in Calls
  BY <1>1, CommandFacts DEF Commands
<1>3. PICK s : /\ cursor' = [cursor EXCEPT ![c].server = s]
               /\ call' = [call EXCEPT !.at = "send", !.loop.server = s,
                             !.moved = IF k.id = 0 \/ k.server = s
                                         THEN @ ELSE @ + 1]
  BY DEF RetrySelect
<1> DEFINE j == [k EXCEPT !.server = s]
<1>4. cursor' = [cursor EXCEPT ![c] = j] /\ call'.at = "send"
  BY <1>2, <1>3 DEF Calls
<1>5. Quiet(j, k)
  BY <1>1, <1>2 DEF Quiet, Cursors
<1> HIDE DEF j
<1>6. Aside(c, j)
  BY <1>1, <1>4, <1>5 DEF Aside
<1> QED
  BY <1>2, <1>6 DEF Sidestep

(* A step of the change stream itself.                                     *)
LEMMA StreamAside ==
  ASSUME IInv, UNCHANGED <<open, streaming, in_exhaust, crossed, cursor>>,
         call.at # "select", call'.at \notin {"select", "kill"}
  PROVE  Sidestep
BY NoneChanged DEF Sidestep

(* The end of mongoc_change_stream_next sends nothing.                     *)
LEMMA EndNextAside ==
  ASSUME IInv, NEW st, EndNext(st), call.at # "select"
  PROVE  Sidestep
<1>1. UNCHANGED <<open, streaming, in_exhaust, crossed, cursor>> /\ call' = Idle
  BY DEF EndNext, serverVars
<1>2. Idle.at = "idle"
  BY DEF Idle
<1> QED
  BY <1>1, <1>2, StreamAside

(* The steps of a change stream that send nothing.                         *)
LEMMA StreamStepsAside ==
  ASSUME IInv,
         \/ Watch \/ StreamNext \/ StreamDestroy \/ PickFails \/ Pick
         \/ AggregateReselect \/ ResumedNext \/ Deliver \/ NothingNew
         \/ StreamFails \/ Resume \/ Discarded
  PROVE  Sidestep
<1>1. call \in Calls /\ W \in Handles /\ Idle.at = "idle"
  BY StreamHandle DEF IInv, TypeOK, Idle
<1>2. CASE Watch
  <2>1. /\ UNCHANGED <<open, streaming, in_exhaust, crossed, cursor>>
        /\ call.at # "select" /\ call'.at = "make"
    BY <1>1, <1>2 DEF Watch, serverVars, Calls
  <2> QED
    BY <2>1, StreamAside
<1>3. CASE StreamNext
  BY <1>1, <1>3, EndNextAside, EnterNextAside DEF StreamNext
<1>4. CASE StreamDestroy
  <2>1. /\ UNCHANGED <<open, streaming, in_exhaust, crossed, cursor>>
        /\ call.at # "select" /\ call'.at \in {"discard", "destroyed"}
    BY <1>1, <1>4 DEF StreamDestroy, serverVars, Calls
  <2> QED
    BY <2>1, StreamAside
<1>5. ASSUME NEW st, MakeError(st) PROVE call'.at = "idle"
  BY <1>1, <1>5 DEF MakeError
<1>6. CASE PickFails
  <2>1. /\ UNCHANGED <<open, streaming, in_exhaust, crossed, cursor>>
        /\ call.at # "select" /\ call'.at = "idle"
    BY <1>5, <1>6 DEF PickFails
  <2> QED
    BY <2>1, StreamAside
<1>7. CASE Pick
  <2>1. /\ UNCHANGED <<open, streaming, in_exhaust, crossed, cursor>>
        /\ call.at # "select" /\ call'.at = "aggregate"
    BY <1>1, <1>7 DEF Pick, serverVars, Calls
  <2> QED
    BY <2>1, StreamAside
<1>8. CASE AggregateReselect
  <2>1. /\ UNCHANGED <<open, streaming, in_exhaust, crossed, cursor>>
        /\ call.at # "select" /\ call'.at \in {"aggregate", "idle"}
    BY <1>1, <1>5, <1>8 DEF AggregateReselect, Calls
  <2> QED
    BY <2>1, StreamAside
<1>9. CASE ResumedNext
  BY <1>1, <1>9, EnterNextAside DEF ResumedNext
<1>10. CASE Deliver \/ NothingNew \/ StreamFails
  BY <1>10, EndNextAside DEF Deliver, NothingNew, StreamFails
<1>11. CASE Resume
  <2>1. /\ UNCHANGED <<open, streaming, in_exhaust, crossed, cursor>>
        /\ call.at # "select" /\ call'.at = "discard"
    BY <1>1, <1>11 DEF Resume, serverVars, Idle
  <2> QED
    BY <2>1, StreamAside
<1>12. CASE Discarded
  <2>1. /\ UNCHANGED <<open, streaming, in_exhaust, crossed, cursor>>
        /\ call.at # "select" /\ call'.at \in {"make", "idle"}
    BY <1>1, <1>12 DEF Discarded, serverVars, Calls
  <2> QED
    BY <2>1, StreamAside
<1> QED
  BY <1>2, <1>3, <1>4, <1>6, <1>7, <1>8, <1>9, <1>10, <1>11, <1>12

(* Destroying a cursor: it is gone, or has to be killed first, unless it   *)
(* is in exhaust.                                                          *)
CutOff(c) ==
  /\ call.at = "idle" /\ c \in Finds /\ cursor[c].in_exhaust
  /\ in_exhaust' = FALSE /\ crossed' = crossed /\ faults' = faults
  /\ IF cursor[c].state # "Done" THEN Disconnected(cursor[c].server)
                                 ELSE UNCHANGED <<open, streaming>>
  /\ cursor' = [cursor EXCEPT ![c] = NoCursor] /\ call' = Idle

(* mongoc_cursor_destroy cuts a stream off, or sends nothing yet.          *)
LEMMA DestroyCases ==
  ASSUME IInv, NEW c \in Handles, Destroy(c), cursor[c].live,
         call.at \in {"idle", "discard"}, c \in Finds => call.at = "idle"
  PROVE  CutOff(c) \/ Sidestep
<1> DEFINE k == cursor[c]
<1>1. /\ k \in Cursors /\ Life(c, k, open, held) /\ call \in Calls
      /\ cursor \in [Handles -> Cursors]
  BY DEF IInv, TypeOK
<1>2. CASE k.in_exhaust
  <2>1. c \in Finds
    BY <1>1, <1>2, StreamHandle DEF Life
  <2> QED
    BY <1>2, <2>1 DEF Destroy, CutOff, Gone
<1>3. CASE ~k.in_exhaust
  <2>1. UNCHANGED <<open, streaming, in_exhaust, crossed>>
    BY <1>3 DEF Destroy, serverVars
  <2>2. CASE k.id # 0
    <3>1. UNCHANGED cursor /\ call'.at = "kill" /\ call'.c = c
      BY <1>1, <1>3, <2>2 DEF Destroy, Calls
    <3>2. \E d \in Handles : Aside(d, cursor[d])
      BY <1>3, <2>1, <3>1, NoneChanged
    <3> QED
      BY <3>2 DEF Sidestep
  <2>3. CASE k.id = 0
    <3>1. /\ cursor' = [cursor EXCEPT ![c] = NoCursor]
          /\ call'.at \in {"idle", "destroyed"}
      BY <1>1, <1>3, <2>3 DEF Destroy, Gone, Calls, Idle
    <3>2. Quiet(NoCursor, k)
      BY <1>1, <1>3, <2>3 DEF Quiet, NoCursor, NewCursor, Cursors
    <3>3. Aside(c, NoCursor)
      BY <2>1, <3>1, <3>2 DEF Aside
    <3> QED
      BY <3>3 DEF Sidestep
  <2> QED
    BY <2>2, <2>3
<1> QED
  BY <1>2, <1>3

----------------------------------------------------------------------------
(* Nothing streams there any more.                                         *)
LEMMA StreamEnds ==
  ASSUME IInv, Streaming, NEW c \in Handles, NEW j, NEW s \in Servers,
         cursor' = [cursor EXCEPT ![c] = j],
         streaming' = [streaming EXCEPT ![s] = 0], 0 \notin DOMAIN open',
         \A t \in Servers : t # s /\ streaming[t] # 0 =>
           /\ streaming[t] \in DOMAIN open'
           /\ open'[streaming[t]].server = open[streaming[t]].server,
         Exhausts(j, open', streaming'),
         \A d \in Handles : d # c /\ cursor[d].id \in DOMAIN open' =>
           cursor[d].id \in DOMAIN open /\ streaming[s] # cursor[d].id,
         call'.at \in {"select", "kill"} =>
           Ended(call', cursor'[call'.c], open')
  PROVE  Streaming'
<1>1. streaming \in [Servers -> Nat]
  BY DEF IInv, TypeOK
<1>2. StreamsOpen(open', streaming')
  BY <1>1 DEF Streaming, StreamsOpen
<1>3. ASSUME NEW d \in Handles, d # c, cursor[d].id \in DOMAIN open'
      PROVE  /\ cursor[d].id \in DOMAIN open
             /\ \A t \in Servers : streaming'[t] = cursor[d].id
                                     <=> streaming[t] = cursor[d].id
  <2>1. cursor[d].id \in DOMAIN open /\ streaming[s] # cursor[d].id
    BY <1>3
  <2> QED
    BY <1>1, <1>3, <2>1
<1> QED
  BY <1>2, <1>3, StreamingStep

(* The cursors streaming at different servers are different.               *)
LEMMA StreamsApart ==
  ASSUME IInv, StreamsOpen(open, streaming)
  PROVE  /\ streaming \in [Servers -> Nat] /\ 0 \notin DOMAIN open
         /\ \A s, t \in Servers : streaming[s] = streaming[t] /\ s # t =>
              streaming[s] = 0
         /\ \A s \in Servers : streaming[s] # 0 =>
              streaming[s] \in DOMAIN open /\ open[streaming[s]].server = s
<1>1. streaming \in [Servers -> Nat] /\ 0 \notin DOMAIN open
  BY DEF IInv, TypeOK
<1> QED
  BY <1>1 DEF StreamsOpen

(* What a cursor of an open identity has to do with the streams.           *)
LEMMA CursorStreams ==
  ASSUME IInv, Streaming, NEW c \in Handles, cursor[c].id \in DOMAIN open
  PROVE  /\ cursor[c].server \in Servers /\ cursor[c].id # 0
         /\ cursor[c].in_exhaust =>
              /\ streaming[cursor[c].server] = cursor[c].id
              /\ open[cursor[c].id].server = cursor[c].server
              /\ cursor[c].state # "Done"
              /\ \A t \in Servers : streaming[t] = cursor[c].id =>
                                      t = cursor[c].server
         /\ ~cursor[c].in_exhaust =>
              \A t \in Servers : streaming[t] # cursor[c].id
         /\ \A d \in Handles : d # c => cursor[d].id # cursor[c].id
<1>1. /\ streaming \in [Servers -> Nat] /\ 0 \notin DOMAIN open
      /\ \A s \in Servers : streaming[s] # 0 =>
           streaming[s] \in DOMAIN open /\ open[streaming[s]].server = s
  BY StreamsApart DEF Streaming
<1>2. cursor[c].id # 0 /\ Exhausts(cursor[c], open, streaming)
  BY <1>1 DEF Streaming
<1>3. cursor[c].server \in Servers
  BY <1>2 DEF IInv, Life
<1>4. \A d \in Handles : d # c => cursor[d].id # cursor[c].id
  BY <1>2 DEF IInv, Distinct
<1> QED
  BY <1>1, <1>2, <1>3, <1>4 DEF Exhausts

(* Streams and cursors agree after one is cut off.                         *)
LEMMA CutOffStreaming ==
  ASSUME IInv, Streaming, NEW c \in Handles, CutOff(c)
  PROVE  Streaming'
<1> DEFINE k == cursor[c]
           s == k.server
<1>1. /\ k.in_exhaust /\ cursor' = [cursor EXCEPT ![c] = NoCursor]
      /\ call' = Idle
      /\ IF k.state # "Done" THEN Disconnected(s)
                             ELSE UNCHANGED <<open, streaming>>
  BY DEF CutOff
<1>2. OpenType(open) /\ StreamsOpen(open, streaming)
  BY OpenTyped DEF IInv, Streaming
<1>3. /\ streaming \in [Servers -> Nat] /\ 0 \notin DOMAIN open
      /\ \A t, u \in Servers : streaming[t] = streaming[u] /\ t # u =>
           streaming[t] = 0
      /\ \A t \in Servers : streaming[t] # 0 =>
           streaming[t] \in DOMAIN open /\ open[streaming[t]].server = t
  BY <1>2, StreamsApart
<1>4. NoCursor.id = 0 /\ Idle.at = "idle" /\ ~NoCursor.in_exhaust
  BY DEF NoCursor, NewCursor, Idle
<1>5. CASE k.state = "Done"
  <2>1. UNCHANGED <<open, streaming>>
    BY <1>1, <1>5
  <2>2. Exhausts(NoCursor, open', streaming')
    BY <1>3, <1>4, <2>1 DEF Exhausts
  <2>3. StreamsOpen(open', streaming')
    BY <1>2, <2>1
  <2>4. \A d \in Handles : d # c /\ cursor[d].id \in DOMAIN open' =>
          /\ cursor[d].id \in DOMAIN open
          /\ \A t \in Servers : streaming'[t] = cursor[d].id
                                  <=> streaming[t] = cursor[d].id
    BY <2>1
  <2>5. call'.at \notin {"select", "kill"}
    BY <1>1, <1>4
  <2> QED
    BY <1>1, <2>2, <2>3, <2>4, <2>5, StreamingStep
<1>6. CASE k.state # "Done"
  <2>1. open' = Remove({streaming[s]}) /\ streaming' = [streaming EXCEPT ![s] = 0]
    BY <1>1, <1>6 DEF Disconnected
  <2>2. /\ DOMAIN open' = DOMAIN open \ {streaming[s]}
        /\ \A i \in DOMAIN open' : open'[i] = open[i]
    BY <1>2, <2>1, RemoveShrinks DEF Shrinks
  <2>3. 0 \notin DOMAIN open'
    BY <1>3, <2>2
  <2>4. Exhausts(NoCursor, open', streaming')
    BY <1>4, <2>3 DEF Exhausts
  <2>5. CASE s \in Servers
    <3>1. \A t \in Servers : t # s /\ streaming[t] # 0 =>
           /\ streaming[t] \in DOMAIN open'
           /\ open'[streaming[t]].server = open[streaming[t]].server
      BY <1>3, <2>2, <2>5
    <3>2. \A d \in Handles : d # c /\ cursor[d].id \in DOMAIN open' =>
           /\ cursor[d].id \in DOMAIN open
           /\ streaming[s] # cursor[d].id
      BY <2>2, <2>3
    <3>3. call'.at \notin {"select", "kill"}
      BY <1>1, <1>4
    <3>5. cursor' = [cursor EXCEPT ![c] = NoCursor]
      BY <1>1
    <3> HIDE DEF s, k
    <3> QED
      BY <2>1, <2>3, <2>4, <2>5, <3>1, <3>2, <3>3, <3>5, StreamEnds
  <2>6. s \in Servers
    <3>1. k.id # 0
      BY <1>1 DEF Streaming, Exhausts
    <3> QED
      BY <3>1 DEF IInv, Life
  <2> QED
    BY <2>5, <2>6
<1> QED
  BY <1>5, <1>6

(* What a step that ends a killCursors command has in common.              *)
KillOver(c) ==
  /\ call.at = "kill" /\ c = call.c /\ c \in Handles
  /\ cursor[c].live /\ cursor[c].id # 0 /\ cursor[c].server \in Servers
  /\ cursor' = [cursor EXCEPT ![c] = NoCursor]
  /\ call'.at \in {"idle", "destroyed"}
  /\ call'.at = "idle" => call' = Idle /\ c # W
  /\ call'.at = "destroyed" => c = W /\ SameCount(call, call')
  /\ in_exhaust' = in_exhaust

(* Both ends of killCursors are such steps.                                *)
LEMMA KillIsOver ==
  ASSUME IInv, Kill \/ KillFails PROVE KillOver(call.c)
<1> DEFINE c == call.c
<1>1. call.at = "kill" /\ Gone(c) /\ in_exhaust' = in_exhaust
  BY DEF Kill, KillFails
<1>2. /\ c \in Handles /\ cursor[c].live /\ cursor[c].id # 0 /\ call \in Calls
  BY <1>1 DEF IInv, Calling, TypeOK
<1>3. cursor[c].server \in Servers
  BY <1>2 DEF IInv, Life
<1>4. Idle.at = "idle"
  BY DEF Idle
<1>5. /\ cursor' = [cursor EXCEPT ![c] = NoCursor]
      /\ c \in Finds => call' = Idle
      /\ c \notin Finds => call' = [call EXCEPT !.at = "destroyed"]
  BY <1>1 DEF Gone
<1>6. c \in Finds <=> c # W
  BY <1>2, StreamHandle
<1>7. c \notin Finds => call'.at = "destroyed" /\ SameCount(call, call')
  BY <1>2, <1>5 DEF Calls, SameCount
<1> QED
  BY <1>1, <1>2, <1>3, <1>4, <1>5, <1>6, <1>7 DEF KillOver

(* Streams and cursors agree after killCursors.                            *)
LEMMA KillStreaming ==
  ASSUME IInv, Streaming, Kill \/ KillFails PROVE Streaming'
<1> DEFINE c == call.c
           k == cursor[c]
           s == k.server
<1>1. /\ c \in Handles /\ s \in Servers /\ call.at = "kill"
      /\ cursor' = [cursor EXCEPT ![c] = NoCursor]
      /\ call'.at \notin {"select", "kill"}
  BY KillIsOver DEF KillOver
<1>2. OpenType(open) /\ StreamsOpen(open, streaming)
  BY OpenTyped DEF IInv, Streaming
<1>3. /\ streaming \in [Servers -> Nat] /\ 0 \notin DOMAIN open
      /\ \A t, u \in Servers : streaming[t] = streaming[u] /\ t # u =>
           streaming[t] = 0
      /\ \A t \in Servers : streaming[t] # 0 =>
           streaming[t] \in DOMAIN open /\ open[streaming[t]].server = t
  BY <1>2, StreamsApart
<1>4. ~k.in_exhaust
  BY <1>1 DEF Streaming, Ended
<1>5. \A t \in Servers : streaming[t] # 0 => streaming[t] # k.id
  BY <1>1, <1>3, <1>4, CursorStreams
<1>6. NoCursor.id = 0 /\ ~NoCursor.in_exhaust
  BY DEF NoCursor, NewCursor
<1>7. CASE /\ UNCHANGED streaming
           /\ open' = open \/ open' = Remove(KilledBy(k))
  <2>1. /\ DOMAIN open \ {k.id} \subseteq DOMAIN open'
        /\ \A i \in DOMAIN open' : i \in DOMAIN open /\ open'[i] = open[i]
    <3>1. /\ DOMAIN Remove(KilledBy(k)) = DOMAIN open \ KilledBy(k)
          /\ Shrinks(open, Remove(KilledBy(k))) /\ KilledBy(k) \subseteq {k.id}
      BY <1>2, RemoveShrinks DEF KilledBy
    <3>2. CASE open' = open
      BY <3>2
    <3>3. CASE open' = Remove(KilledBy(k))
      BY <3>1, <3>3 DEF Shrinks
    <3> QED
      BY <1>7, <3>2, <3>3
  <2>2. StreamsOpen(open', streaming')
    BY <1>3, <1>5, <1>7, <2>1 DEF StreamsOpen
  <2>3. Exhausts(NoCursor, open', streaming')
    BY <1>3, <1>6, <2>1 DEF Exhausts
  <2>4. \A d \in Handles : d # c /\ cursor[d].id \in DOMAIN open' =>
          /\ cursor[d].id \in DOMAIN open
          /\ \A t \in Servers : streaming'[t] = cursor[d].id
                                  <=> streaming[t] = cursor[d].id
    BY <1>7, <2>1
  <2> HIDE DEF c, k, s
  <2> QED
    BY <1>1, <2>2, <2>3, <2>4, StreamingStep
<1>8. CASE /\ \E ids \in {{}, KilledBy(k)} :
                open' = Remove(ids \cup {streaming[s]})
           /\ streaming' = [streaming EXCEPT ![s] = 0]
  <2>1. /\ DOMAIN open \ {k.id, streaming[s]} \subseteq DOMAIN open'
        /\ streaming[s] \notin DOMAIN open'
        /\ \A i \in DOMAIN open' : i \in DOMAIN open /\ open'[i] = open[i]
    <3>1. PICK ids \in {{}, KilledBy(k)} :
            open' = Remove(ids \cup {streaming[s]})
      BY <1>8
    <3>2. /\ DOMAIN open' = DOMAIN open \ (ids \cup {streaming[s]})
          /\ Shrinks(open, open')
      BY <1>2, <3>1, RemoveShrinks
    <3>3. ids \subseteq {k.id}
      BY <3>1 DEF KilledBy
    <3> QED
      BY <3>2, <3>3 DEF Shrinks
  <2>2. \A t \in Servers : t # s /\ streaming[t] # 0 =>
         /\ streaming[t] \in DOMAIN open'
         /\ open'[streaming[t]].server = open[streaming[t]].server
    BY <1>1, <1>3, <1>5, <2>1
  <2>3. \A d \in Handles : d # c /\ cursor[d].id \in DOMAIN open' =>
          cursor[d].id \in DOMAIN open /\ streaming[s] # cursor[d].id
    BY <2>1
  <2>4. 0 \notin DOMAIN open'
    BY <1>3, <2>1
  <2>5. Exhausts(NoCursor, open', streaming')
    BY <1>6, <2>4 DEF Exhausts
  <2>6. streaming' = [streaming EXCEPT ![s] = 0]
    BY <1>8
  <2> HIDE DEF c, k, s
  <2> QED
    BY <1>1, <2>2, <2>3, <2>4, <2>5, <2>6, StreamEnds
<1>9. CASE Kill
  BY <1>7, <1>9 DEF Kill
<1>10. CASE KillFails
  BY <1>7, <1>8, <1>10 DEF KillFails
<1> QED
  BY <1>9, <1>10

(* Streams and cursors agree after a server drops an idle cursor.          *)
LEMMA ReapStreaming ==
  ASSUME IInv, Streaming, Reap, UNCHANGED cursorVars PROVE Streaming'
<1>1. PICK id \in DOMAIN open : /\ \A s \in Servers : streaming[s] # id
                                /\ open' = Remove({id})
  BY DEF Reap
<1>2. UNCHANGED <<streaming, cursor, call>>
  BY DEF Reap, cursorVars
<1>3. OpenType(open) /\ StreamsOpen(open, streaming)
  BY OpenTyped DEF IInv, Streaming
<1>4. /\ DOMAIN open' = DOMAIN open \ {id}
      /\ \A i \in DOMAIN open' : open'[i] = open[i]
  BY <1>1, <1>3, RemoveShrinks DEF Shrinks
<1>5. StreamsOpen(open', streaming')
  BY <1>1, <1>2, <1>3, <1>4 DEF StreamsOpen
<1>6. \A c \in Handles : Exhausts(cursor'[c], open', streaming')
  BY <1>2, <1>4 DEF Streaming, Exhausts
<1>7. call'.at \in {"select", "kill"} => Ended(call', cursor'[call'.c], open')
  BY <1>2, <1>4 DEF Streaming, Ended
<1> QED
  BY <1>5, <1>6, <1>7 DEF Streaming

(* A command without a reply closes only what it was about, or what        *)
(* streamed over the connection.                                           *)
LEMMA LostKeeps ==
  ASSUME TypeOK, NEW s \in Servers, NEW id \in Nat, Lost(s, id)
  PROVE  \A i \in DOMAIN open :
           \/ i \in DOMAIN open' /\ open'[i].server = open[i].server
           \/ i = streaming[s]
           \/ i = id /\ streaming[s] = 0 /\ open[i].server = s
<1>1. OpenType(open)
  BY OpenTyped
<1>2. /\ DOMAIN Remove({streaming[s]}) = DOMAIN open \ {streaming[s]}
      /\ Shrinks(open, Remove({streaming[s]}))
      /\ DOMAIN Remove({id}) = DOMAIN open \ {id}
      /\ Shrinks(open, Remove({id}))
  BY <1>1, RemoveShrinks
<1>3. CASE open' = Remove({streaming[s]})
  BY <1>2, <1>3 DEF Shrinks
<1>4. CASE /\ id \in DOMAIN open /\ open[id].server = s /\ streaming[s] = 0
           /\ open' = Remove({id})
  BY <1>2, <1>4 DEF Shrinks
<1>5. ASSUME id \in DOMAIN open, NEW q, open' = [open EXCEPT ![id].pos = q]
      PROVE  \A i \in DOMAIN open :
               i \in DOMAIN open' /\ open'[i].server = open[i].server
  BY <1>1, <1>5 DEF OpenType, ServerCursors
<1> QED
  BY <1>3, <1>4, <1>5 DEF Lost

(* A step without a reply from server s, about cursor c or none.           *)
LEMMA LostStreaming ==
  ASSUME IInv, Streaming, NEW c \in Handles, NEW s \in Servers, NEW id, NEW j,
         Lost(s, id), id \in {0, cursor[c].id},
         id # 0 => s = cursor[c].server,
         cursor' = [cursor EXCEPT ![c] = j], SameCursor(j, cursor[c]),
         id # cursor[c].id => j.state = cursor[c].state,
         call'.at # "kill", call'.at = "select" => call'.c = c /\ id = cursor[c].id
  PROVE  Streaming'
<1> DEFINE k == cursor[c]
<1>1. OpenType(open) /\ StreamsOpen(open, streaming) /\ k \in Cursors /\ TypeOK
  BY OpenTyped DEF IInv, Streaming, TypeOK
<1>2. /\ streaming \in [Servers -> Nat] /\ 0 \notin DOMAIN open
      /\ \A t, u \in Servers : streaming[t] = streaming[u] /\ t # u =>
           streaming[t] = 0
      /\ \A t \in Servers : streaming[t] # 0 =>
           streaming[t] \in DOMAIN open /\ open[streaming[t]].server = t
  BY <1>1, StreamsApart
<1>3. id \in Nat
  BY <1>1 DEF Cursors
<1>4. /\ OpenType(open') /\ streaming' = [streaming EXCEPT ![s] = 0]
      /\ Touches(open, open', id)
      /\ streaming[s] # 0 => open' = Remove({streaming[s]})
  BY <1>1, <1>3, LostIs
<1>5. \A i \in DOMAIN open :
        \/ i \in DOMAIN open' /\ open'[i].server = open[i].server
        \/ i = streaming[s]
        \/ i = id /\ streaming[s] = 0 /\ open[i].server = s
  BY <1>1, <1>3, LostKeeps
<1>6. \A t \in Servers : t # s /\ streaming[t] # 0 =>
        /\ streaming[t] \in DOMAIN open'
        /\ open'[streaming[t]].server = open[streaming[t]].server
  BY <1>2, <1>5
<1>7. /\ DOMAIN open' \subseteq DOMAIN open /\ 0 \notin DOMAIN open'
      /\ streaming[s] \notin DOMAIN open'
  <2>1. DOMAIN open' \subseteq DOMAIN open
    BY <1>4 DEF Touches, Keeps
  <2>2. streaming[s] # 0 => streaming[s] \notin DOMAIN open'
    <3>1. DOMAIN Remove({streaming[s]}) = DOMAIN open \ {streaming[s]}
      BY <1>1, RemoveShrinks
    <3>2. streaming[s] \notin DOMAIN Remove({streaming[s]})
      BY <3>1
    <3> QED
      BY <1>4, <3>2
  <2> QED
    BY <1>2, <2>1, <2>2
<1>8. \A d \in Handles : d # c /\ cursor[d].id \in DOMAIN open' =>
        cursor[d].id \in DOMAIN open /\ streaming[s] # cursor[d].id
  BY <1>7
<1>9. j.id = k.id /\ j.in_exhaust = k.in_exhaust /\ j.server = k.server
  BY DEF SameCursor
<1>10. Exhausts(k, open, streaming)
  BY DEF Streaming
<1>11. ASSUME k.id \in DOMAIN open', k.in_exhaust
       PROVE  k.server # s /\ k.state # "Done" /\ streaming[k.server] = k.id
  BY <1>7, <1>10, <1>11 DEF Exhausts
<1>12. id # 0 /\ k.id \in DOMAIN open' => ~k.in_exhaust
  BY <1>11
<1>13. Exhausts(j, open', streaming')
  <2>1. j.in_exhaust => j.id # 0
    BY <1>9, <1>10 DEF Exhausts
  <2>2. ASSUME j.id \in DOMAIN open', j.in_exhaust
        PROVE  j.state # "Done" /\ streaming'[j.server] = j.id
    <3>1. k.server \in Servers /\ k.id # 0
      BY <1>7, <1>9, <2>2, CursorStreams
    <3> QED
      BY <1>2, <1>4, <1>9, <1>11, <1>12, <2>2, <3>1
  <2>3. ASSUME j.id \in DOMAIN open', ~j.in_exhaust
        PROVE  \A t \in Servers : streaming'[t] # j.id
    BY <1>2, <1>4, <1>7, <1>9, <1>10, <2>3 DEF Exhausts
  <2> QED
    BY <2>1, <2>2, <2>3 DEF Exhausts
<1>14. call'.at \in {"select", "kill"} => Ended(call', cursor'[call'.c], open')
  <2>1. SUFFICES ASSUME call'.at = "select" PROVE Ended(call', cursor'[call'.c], open')
    OBVIOUS
  <2>2. cursor'[c] = j
    BY DEF IInv, TypeOK
  <2>3. call'.c = c /\ id = k.id
    BY <2>1
  <2>4. k.id \in DOMAIN open' => ~k.in_exhaust
    BY <1>7, <1>12, <2>3
  <2> QED
    BY <1>9, <2>1, <2>2, <2>3, <2>4 DEF Ended
<1> HIDE DEF k
<1> QED
  BY <1>4, <1>6, <1>7, <1>8, <1>13, <1>14, StreamEnds

----------------------------------------------------------------------------
(* A command that a server answered, and what the answer was.              *)
Asked == [cursor[call.c] EXCEPT !.timed_out = FALSE]
Replied(o, j) ==
  /\ call.at = "send" /\ call.c \in Handles
  /\ call.loop.server \in Servers /\ cursor[call.c].server = call.loop.server
  /\ Takes(o) /\ in_exhaust' = o.answer.more
  /\ crossed' = (crossed \/ Crosses(call.loop.server, cursor[call.c].id))
  /\ cursor' = [cursor EXCEPT ![call.c] = j]
Dropped(o, s, id) ==
  /\ o.open = open \/ o.open = Remove({id})
  /\ o.streaming = [streaming EXCEPT ![s] = 0]
  /\ \E r \in {OverloadError, NotPrimary, OtherError} :
       /\ o.answer = ErrorAnswer(r) /\ o.fault = (r = NotPrimary)
       /\ r = OverloadError /\ streaming[s] = 0 => o.open = open
       /\ streaming[s] # 0 => o.open = Remove({id})
RefusedTo(o, j) ==
  /\ Dropped(o, call.loop.server, cursor[call.c].id)
  /\ AttemptOver(o.answer, Asked, j, call.c)
MissingTo(o, j) ==
  /\ call.cmd = "getMore"
  /\ ~(/\ cursor[call.c].id \in DOMAIN open
       /\ open[cursor[call.c].id].server = call.loop.server)
  /\ o.open = open /\ o.streaming = streaming /\ ~o.fault
  /\ o.answer = ErrorAnswer(CursorNotFound)
  /\ AttemptOver(o.answer, Asked, j, call.c)
FoundTo(o, j) ==
  /\ call.cmd = "find" /\ call.c \in Finds
  /\ cursor[call.c].id = 0
  /\ Opened(o, open, streaming, call.loop.server, "find", 0, NewId(call.c),
            call.c, cursor[call.c].opt)
  /\ DOMAIN open \subseteq DOMAIN o.open
  /\ AttemptDone(o.answer, Asked, j, call.c)
ReadTo(o, j) ==
  /\ call.cmd = "getMore" /\ cursor[call.c].id \in DOMAIN open
  /\ open[cursor[call.c].id].server = call.loop.server
  /\ ReadMore(o, open, streaming, call.loop.server, cursor[call.c].id,
              cursor[call.c].opt)
  /\ DOMAIN open \ {cursor[call.c].id} \subseteq DOMAIN o.open
  /\ o.answer.reply = OkReply /\ ~o.fault
  /\ AttemptDone(o.answer, Asked, j, call.c)

(* A server that opens a cursor, or reads on, keeps the others.            *)
LEMMA OpenKeeps ==
  ASSUME OpenType(open), NEW s, NEW kind, NEW p, NEW id, NEW sess, NEW ex,
         NEW o \in RunOpen(s, kind, p, id, sess, ex)
  PROVE  DOMAIN open \subseteq DOMAIN o.open
<1>1. \E x : o.open = open \/ o.open = Put(id, x)
  <2>1. PICK b \in Batches(kind, p, ex) : o.open =
          IF b.closed THEN open
            ELSE Put(id, [server |-> s, kind |-> kind, pos |-> b.end,
                          sess |-> sess])
    BY DEF RunOpen, Outcome
  <2> QED
    BY <2>1
<1>2. \A x : DOMAIN open \subseteq DOMAIN Put(id, x)
  BY DEF Put
<1> QED
  BY <1>1, <1>2

(* A server that reads on keeps the other cursors.                         *)
LEMMA ReadKeeps ==
  ASSUME OpenType(open), NEW s, NEW id, NEW ex, NEW o \in RunGetMore(s, id, ex)
  PROVE  DOMAIN open \ {id} \subseteq DOMAIN o.open
<1>1. \/ o.open = open \/ o.open = Remove({id})
      \/ \E q : o.open = [open EXCEPT ![id].pos = q]
  <2>1. CASE ~(id \in DOMAIN open /\ open[id].server = s)
    BY <2>1 DEF RunGetMore, Outcome
  <2>2. CASE id \in DOMAIN open /\ open[id].server = s
    <3> DEFINE kind == open[id].kind
               p == open[id].pos
    <3>1. PICK b \in Batches(kind, p, ex) :
            o = Outcome(IF b.closed THEN Remove({id})
                                    ELSE [open EXCEPT ![id].pos = b.end],
                        [streaming EXCEPT ![s] = IF b.more THEN id ELSE 0],
                        FALSE,
                        Answer(IF b.closed THEN 0 ELSE id,
                               Batch(kind, p, b.end), Token(kind, b.end),
                               b.more))
      BY <2>2 DEF RunGetMore
    <3> HIDE DEF kind, p
    <3>2. o.open = IF b.closed THEN Remove({id})
                               ELSE [open EXCEPT ![id].pos = b.end]
      BY <3>1 DEF Outcome
    <3> QED
      BY <3>2
  <2> QED
    BY <2>1, <2>2
<1>2. DOMAIN Remove({id}) = DOMAIN open \ {id}
  BY RemoveShrinks
<1>3. \A q : DOMAIN [open EXCEPT ![id].pos = q] = DOMAIN open
  OBVIOUS
<1> QED
  BY <1>1, <1>2, <1>3

(* A server that refuses closes at most what it was asked about.           *)
LEMMA RefuseDrops ==
  ASSUME TypeOK, NEW s \in Servers, NEW id, NEW o \in Refuse(s, id)
  PROVE  Dropped(o, s, id) /\ ~o.answer.reply.ok
<1>1. /\ o.open = open \/ o.open = Remove({id})
      /\ o.streaming = [streaming EXCEPT ![s] = 0]
  BY RefuseIs
<1>2. PICK r \in {OverloadError, NotPrimary, OtherError} :
        /\ o.answer = ErrorAnswer(r) /\ o.fault = (r = NotPrimary)
        /\ r = OverloadError /\ streaming[s] = 0 => o.open = open
        /\ streaming[s] # 0 => o.open = Remove({id})
  BY RefuseIs
<1>3. ~r.ok
  BY <1>2, RepliesTyped
<1>4. Dropped(o, s, id)
  BY <1>1, <1>2, Zenon DEF Dropped
<1> QED
  BY <1>2, <1>3, <1>4, ErrorAnswerIs

(* An answered command is refused, unknown, a find or a getMore.           *)
LEMMA AnsweredCases ==
  ASSUME IInv, Answered
  PROVE  \E o, j : /\ Replied(o, j)
                   /\ \/ RefusedTo(o, j) \/ MissingTo(o, j)
                      \/ FoundTo(o, j) \/ ReadTo(o, j)
<1> DEFINE c == call.c
           k == cursor[c]
           s == call.loop.server
<1>0. call.at = "send" /\ call.at \in Commands /\ call.at \in {"send", "select"}
  BY DEF Answered, Commands
<1>1. /\ TypeOK /\ c \in Handles /\ k \in Cursors /\ call \in Calls
      /\ Life(c, k, open, held)
      /\ Asking(call, k, in_exhaust) /\ Sending(call, k, held)
  BY <1>0, CommandFacts
<1>2. PICK o \in Run(s, k) :
        /\ Takes(o) /\ in_exhaust' = o.answer.more
        /\ AfterAttempt(Asked, o.answer)
  BY DEF Answered, ExhaustAfter, Asked
<1>3. crossed' = (crossed \/ Crosses(s, k.id))
  BY DEF Answered
<1>4. /\ s \in Servers /\ k.server = s /\ k.sess = c /\ k.id \in Nat
      /\ k.opt \in BOOLEAN
  BY <1>1 DEF Sending, Cursors
<1>5. Asked \in Cursors
  BY <1>1, TimedOut DEF Asked
<1>6. ASSUME NEW j, cursor' = [cursor EXCEPT ![c] = j] PROVE Replied(o, j)
  BY <1>0, <1>1, <1>2, <1>3, <1>4, <1>6 DEF Replied
<1> HIDE DEF Asked
<1>7. ASSUME ~o.answer.reply.ok
      PROVE  \E j : Replied(o, j) /\ AttemptOver(o.answer, Asked, j, c)
  <2>1. PICK j : /\ cursor' = [cursor EXCEPT ![c] = j]
                 /\ AttemptOver(o.answer, Asked, j, c)
    BY <1>1, <1>2, <1>5, <1>7, AttemptOverIs
  <2> QED
    BY <1>6, <2>1
<1>8. ASSUME NEW kind \in {"find", "watch"}, NEW p \in Nat, NEW q \in Ends(kind, p),
             NEW id \in Nat, ReadsTo(o.answer, o.open, id, kind, p, q)
      PROVE  \E j : Replied(o, j) /\ AttemptDone(o.answer, Asked, j, c)
  <2>1. Batch(kind, p, q) \in Seq(Nat \ {0}) /\ Token(kind, q) \in Nat
    BY <1>1, <1>8, BatchTyped
  <2>2. /\ o.answer.reply = OkReply /\ o.answer.id \in Nat
        /\ o.answer.batch \in Seq(Nat \ {0}) /\ o.answer.pbrt \in Nat
        /\ o.answer.more \in BOOLEAN
    BY <1>8, <2>1 DEF ReadsTo
  <2>3. PICK j : /\ cursor' = [cursor EXCEPT ![c] = j]
                 /\ AttemptDone(o.answer, Asked, j, c)
    BY <1>1, <1>2, <1>5, <2>2, AttemptDoneIs
  <2> QED
    BY <1>6, <2>3
<1>9. CASE o \in Refuse(s, k.id)
  <2>1. Dropped(o, s, k.id) /\ ~o.answer.reply.ok
    BY <1>1, <1>4, <1>9, RefuseDrops
  <2>2. PICK j : Replied(o, j) /\ AttemptOver(o.answer, Asked, j, c)
    BY <1>7, <2>1
  <2>3. RefusedTo(o, j)
    BY <2>1, <2>2 DEF RefusedTo
  <2> QED
    BY <2>2, <2>3
<1>10. CASE call.cmd = "find" /\ o \in RunOpen(s, "find", 0, NewId(c), k.sess, k.opt)
  <2> DEFINE id == NewId(c)
  <2>1. id \in Nat \ {0} /\ id \notin DOMAIN open
    BY <1>1, NewIdFresh
  <2>2. c \in Finds /\ k.id = 0
    BY <1>1, <1>10 DEF Asking, Life
  <2>3. o \in RunOpen(s, "find", 0, id, c, k.opt)
    BY <1>4, <1>10
  <2>4. 0 \in Nat /\ "find" \in {"find", "watch"}
    OBVIOUS
  <2>5. Opened(o, open, streaming, s, "find", 0, id, c, k.opt)
    <3> HIDE DEF c, k, s, id
    <3> QED
      BY <1>1, <1>4, <2>1, <2>3, <2>4, RunOpenIs
  <2>6. PICK q \in Ends("find", 0) : ReadsTo(o.answer, o.open, id, "find", 0, q)
    BY <2>5, Zenon DEF Opened
  <2>7. PICK j : Replied(o, j) /\ AttemptDone(o.answer, Asked, j, c)
    <3> HIDE DEF id
    <3> QED
      BY <1>8, <2>1, <2>4, <2>6
  <2>8. FoundTo(o, j)
    <3>1. DOMAIN open \subseteq DOMAIN o.open
      BY <1>1, <2>3, OpenKeeps, OpenTyped
    <3> QED
      BY <1>10, <2>2, <2>5, <2>7, <3>1 DEF FoundTo
  <2> QED
    BY <2>7, <2>8
<1>11. CASE call.cmd # "find" /\ o \in RunGetMore(s, k.id, k.opt)
  <2> DEFINE id == k.id
  <2>1. call.cmd = "getMore" /\ o \in RunGetMore(s, id, k.opt)
    BY <1>1, <1>11 DEF Asking
  <2>2. ReadMore(o, open, streaming, s, id, k.opt)
    <3>1. id \in Nat
      BY <1>4
    <3> HIDE DEF c, k, s, id
    <3> QED
      BY <1>1, <1>4, <2>1, <3>1, RunGetMoreIs
  <2>3. CASE id \in DOMAIN open /\ open[id].server = s
    <3>1. PICK q \in Ends(open[id].kind, open[id].pos) :
            ReadsTo(o.answer, o.open, id, open[id].kind, open[id].pos, q)
      BY <2>2, <2>3, Zenon DEF ReadMore
    <3>2. open[id] \in ServerCursors
      BY <1>1, <2>3 DEF TypeOK
    <3>3. open[id].kind \in {"find", "watch"} /\ open[id].pos \in Nat
      BY <3>2 DEF ServerCursors
    <3>4. PICK j : Replied(o, j) /\ AttemptDone(o.answer, Asked, j, c)
      BY <1>4, <1>8, <3>1, <3>3
    <3>5. o.answer.reply = OkReply /\ ~o.fault
      BY <2>2, <3>1 DEF ReadsTo, ReadMore
    <3>6. ReadTo(o, j)
      <4>1. DOMAIN open \ {id} \subseteq DOMAIN o.open
        BY <1>1, <2>1, ReadKeeps, OpenTyped
      <4> QED
        BY <2>1, <2>2, <2>3, <3>4, <3>5, <4>1 DEF ReadTo
    <3> QED
      BY <3>4, <3>6
  <2>4. CASE ~(id \in DOMAIN open /\ open[id].server = s)
    <3>1. /\ o.open = open /\ o.streaming = streaming /\ ~o.fault
          /\ o.answer = ErrorAnswer(CursorNotFound)
      BY <2>2, <2>4, Zenon DEF ReadMore
    <3>2. ~o.answer.reply.ok
      BY <3>1, ErrorAnswerIs, RepliesTyped
    <3>3. PICK j : Replied(o, j) /\ AttemptOver(o.answer, Asked, j, c)
      BY <1>7, <3>2
    <3>4. MissingTo(o, j)
      BY <2>1, <2>4, <3>1, <3>3 DEF MissingTo
    <3> QED
      BY <3>3, <3>4
  <2> QED
    BY <2>3, <2>4
<1> QED
  BY <1>2, <1>9, <1>10, <1>11 DEF Run

(* A command that is refused.                                              *)
LEMMA DroppedStreaming ==
  ASSUME IInv, Streaming, NEW c \in Handles, NEW s \in Servers, NEW id, NEW j,
         NEW o, Dropped(o, s, id), open' = o.open, streaming' = o.streaming,
         streaming[s] \in {0, id}, id \in {0, cursor[c].id},
         id # 0 => s = cursor[c].server,
         cursor' = [cursor EXCEPT ![c] = j], SameCursor(j, cursor[c]),
         id # cursor[c].id => j.state = cursor[c].state,
         call'.at # "kill", call'.at = "select" => call'.c = c /\ id = cursor[c].id
  PROVE  Streaming'
<1> DEFINE k == cursor[c]
<1>1. OpenType(open) /\ StreamsOpen(open, streaming) /\ k \in Cursors
  BY OpenTyped DEF IInv, Streaming, TypeOK
<1>2. /\ streaming \in [Servers -> Nat] /\ 0 \notin DOMAIN open
      /\ \A t, u \in Servers : streaming[t] = streaming[u] /\ t # u =>
           streaming[t] = 0
      /\ \A t \in Servers : streaming[t] # 0 =>
           streaming[t] \in DOMAIN open /\ open[streaming[t]].server = t
  BY <1>1, StreamsApart
<1>3. /\ streaming' = [streaming EXCEPT ![s] = 0]
      /\ open' = open \/ open' = Remove({id})
      /\ streaming[s] # 0 => open' = Remove({id})
  BY Zenon DEF Dropped
<1>4. /\ DOMAIN Remove({id}) = DOMAIN open \ {id}
      /\ Shrinks(open, Remove({id}))
  BY <1>1, RemoveShrinks
<1>5. /\ \A i \in DOMAIN open' : i \in DOMAIN open /\ open'[i] = open[i]
      /\ \A i \in DOMAIN open : i # id => i \in DOMAIN open'
      /\ streaming[s] # 0 => id \notin DOMAIN open'
  <2>1. CASE open' = open /\ streaming[s] = 0
    BY <2>1
  <2>2. CASE open' = Remove({id})
    BY <1>4, <2>2 DEF Shrinks
  <2> QED
    BY <1>3, <2>1, <2>2
<1>6. Exhausts(k, open, streaming)
  BY DEF Streaming
<1>7. ASSUME NEW t \in Servers, t # s, streaming[t] # 0
      PROVE  streaming[t] # id
  <2>1. SUFFICES ASSUME streaming[t] = id PROVE FALSE
    OBVIOUS
  <2>2. k.id \in DOMAIN open /\ id = k.id /\ s = k.server
    BY <1>2, <1>7, <2>1
  <2> QED
    BY <1>7, <2>1, <2>2, CursorStreams
<1>8. \A t \in Servers : t # s /\ streaming[t] # 0 =>
        /\ streaming[t] \in DOMAIN open'
        /\ open'[streaming[t]].server = open[streaming[t]].server
  BY <1>2, <1>5, <1>7
<1>9. 0 \notin DOMAIN open' /\ streaming[s] \notin DOMAIN open'
  BY <1>2, <1>5
<1>10. \A d \in Handles : d # c /\ cursor[d].id \in DOMAIN open' =>
         cursor[d].id \in DOMAIN open /\ streaming[s] # cursor[d].id
  BY <1>5, <1>9
<1>11. j.id = k.id /\ j.in_exhaust = k.in_exhaust /\ j.server = k.server
  BY DEF SameCursor
<1>12. ASSUME k.id \in DOMAIN open', k.in_exhaust
       PROVE  /\ k.server # s /\ k.state # "Done" /\ streaming[k.server] = k.id
              /\ k.server \in Servers /\ id # k.id
  <2>1. k.id \in DOMAIN open /\ k.id # 0 /\ k.server \in Servers
    BY <1>5, <1>12, CursorStreams
  <2>2. k.state # "Done" /\ streaming[k.server] = k.id
    BY <1>6, <1>12, <2>1 DEF Exhausts
  <2>3. k.server # s
    BY <1>9, <1>12, <2>2
  <2> QED
    BY <2>1, <2>2, <2>3
<1>13. Exhausts(j, open', streaming')
  <2>1. j.in_exhaust => j.id # 0
    BY <1>6, <1>11 DEF Exhausts
  <2>2. ASSUME j.id \in DOMAIN open', j.in_exhaust
        PROVE  j.state # "Done" /\ streaming'[j.server] = j.id
    BY <1>2, <1>3, <1>11, <1>12, <2>2
  <2>3. ASSUME j.id \in DOMAIN open', ~j.in_exhaust
        PROVE  \A t \in Servers : streaming'[t] # j.id
    BY <1>2, <1>3, <1>5, <1>6, <1>9, <1>11, <2>3 DEF Exhausts
  <2> QED
    BY <2>1, <2>2, <2>3 DEF Exhausts
<1>14. call'.at \in {"select", "kill"} => Ended(call', cursor'[call'.c], open')
  <2>1. SUFFICES ASSUME call'.at = "select" PROVE Ended(call', cursor'[call'.c], open')
    OBVIOUS
  <2>2. cursor'[c] = j
    BY DEF IInv, TypeOK
  <2>3. call'.c = c /\ id = k.id
    BY <2>1
  <2>4. k.id \in DOMAIN open' => ~k.in_exhaust
    BY <1>12, <2>3
  <2> QED
    BY <1>11, <2>1, <2>2, <2>3, <2>4 DEF Ended
<1> HIDE DEF k
<1> QED
  BY <1>3, <1>8, <1>9, <1>10, <1>13, <1>14, StreamEnds

(* A cursor is opened: by find, or by aggregate.                           *)
LEMMA OpenedStreaming ==
  ASSUME IInv, Streaming, NEW c \in Handles, NEW s \in Servers, NEW kind,
         NEW p, NEW sess, NEW ex, NEW o, NEW j,
         Opened(o, open, streaming, s, kind, p, NewId(c), sess, ex),
         DOMAIN open \subseteq DOMAIN o.open,
         open' = o.open, streaming' = o.streaming, streaming[s] = 0,
         cursor' = [cursor EXCEPT ![c] = j], cursor[c].id = 0,
         j.id = o.answer.id, j.in_exhaust = o.answer.more,
         j.in_exhaust => j.server = s,
         j.state = "Done" => j.id = 0, call'.at \notin {"select", "kill"}
  PROVE  Streaming'
<1> DEFINE id == NewId(c)
<1>1. TypeOK /\ OpenType(open) /\ StreamsOpen(open, streaming)
  BY OpenTyped DEF IInv, Streaming
<1>2. /\ streaming \in [Servers -> Nat] /\ 0 \notin DOMAIN open
      /\ \A t \in Servers : streaming[t] # 0 =>
           streaming[t] \in DOMAIN open /\ open[streaming[t]].server = t
  BY <1>1, StreamsApart
<1>3. /\ id \in Nat \ {0} /\ id \notin DOMAIN open
      /\ \A d \in Handles : cursor[d].id # id
  BY <1>1, NewIdFresh
<1> HIDE DEF id
<1>4. PICK q \in Ends(kind, p) :
        /\ ReadsTo(o.answer, o.open, id, kind, p, q)
        /\ \A i \in DOMAIN o.open : i # id => Keeps(open, o.open, i)
        /\ id \in DOMAIN o.open => o.open[id] =
             [server |-> s, kind |-> kind, pos |-> q, sess |-> sess]
        /\ o.streaming = IF o.answer.more THEN [streaming EXCEPT ![s] = id]
                                          ELSE streaming
  BY Zenon DEF Opened, id
<1>5. /\ o.answer.more \in BOOLEAN
      /\ \/ o.answer.id = 0 /\ id \notin DOMAIN open' /\ ~o.answer.more
         \/ o.answer.id = id /\ id \in DOMAIN open' /\ open'[id].server = s
  BY <1>4 DEF ReadsTo
<1>6. \A i \in DOMAIN o.open : i # id => i \in DOMAIN open /\ o.open[i] = open[i]
  BY <1>4 DEF Keeps
<1>7. \A d \in Handles : d # c /\ cursor[d].id \in DOMAIN open' =>
        /\ cursor[d].id \in DOMAIN open
        /\ id # cursor[d].id /\ 0 # cursor[d].id
  BY <1>2, <1>3, <1>6
<1>8. \A t \in Servers : streaming[t] # 0 =>
        /\ streaming[t] \in DOMAIN open' /\ streaming[t] # id
        /\ open'[streaming[t]].server = open[streaming[t]].server
  BY <1>2, <1>3, <1>6
<1>9. CASE o.answer.more
  <2>1. /\ streaming' = [streaming EXCEPT ![s] = id]
        /\ id \in DOMAIN open' /\ open'[id].server = s
    BY <1>4, <1>5, <1>9
  <2>2. Exhausts(j, open', streaming')
    <3>1. j.in_exhaust /\ j.id = id
      BY <1>5, <1>9
    <3> QED
      BY <1>2, <1>3, <2>1, <3>1 DEF Exhausts
  <2>3. \A t \in Servers : t # s /\ streaming[t] # 0 =>
          /\ streaming[t] \in DOMAIN open'
          /\ open'[streaming[t]].server = open[streaming[t]].server
    BY <1>8
  <2>4. \A d \in Handles : d # c /\ cursor[d].id \in DOMAIN open' =>
          /\ cursor[d].id \in DOMAIN open
          /\ id # cursor[d].id /\ streaming[s] # cursor[d].id
    BY <1>7
  <2>5. StreamsOpen(open', streaming')
    BY <1>2, <2>1, <2>3 DEF StreamsOpen
  <2>6. ASSUME NEW d \in Handles, d # c, cursor[d].id \in DOMAIN open'
        PROVE  /\ cursor[d].id \in DOMAIN open
               /\ \A t \in Servers : streaming'[t] = cursor[d].id
                                       <=> streaming[t] = cursor[d].id
    <3>1. /\ cursor[d].id \in DOMAIN open
          /\ id # cursor[d].id /\ streaming[s] # cursor[d].id
      BY <2>4, <2>6
    <3> QED
      BY <1>2, <2>1, <3>1
  <2> QED
    BY <2>2, <2>5, <2>6, StreamingStep
<1>10. CASE ~o.answer.more
  <2>1. streaming' = streaming
    BY <1>4, <1>10
  <2>2. Exhausts(j, open', streaming')
    <3>1. ~j.in_exhaust /\ j.id \in {0, id}
      BY <1>5, <1>10
    <3>2. \A t \in Servers : streaming[t] # id
      BY <1>3, <1>8
    <3>3. 0 \notin DOMAIN open'
      BY <1>2, <1>3, <1>6
    <3> QED
      BY <2>1, <3>1, <3>2, <3>3 DEF Exhausts
  <2>3. StreamsOpen(open', streaming')
    BY <1>2, <1>8, <2>1 DEF StreamsOpen
  <2> QED
    BY <1>7, <2>1, <2>2, <2>3, StreamingStep
<1> QED
  BY <1>5, <1>9, <1>10

(* A cursor reads on.                                                      *)
LEMMA ReadStreaming ==
  ASSUME IInv, Streaming, NEW c \in Handles, NEW s \in Servers, NEW ex,
         NEW o, NEW j, ReadMore(o, open, streaming, s, cursor[c].id, ex),
         cursor[c].id \in DOMAIN open, open[cursor[c].id].server = s,
         DOMAIN open \ {cursor[c].id} \subseteq DOMAIN o.open,
         open' = o.open, streaming' = o.streaming,
         streaming[s] \in {0, cursor[c].id},
         cursor' = [cursor EXCEPT ![c] = j],
         j.id = o.answer.id, j.in_exhaust = o.answer.more, j.server = s,
         j.state = "Done" => j.id = 0, call'.at \notin {"select", "kill"}
  PROVE  Streaming'
<1> DEFINE id == cursor[c].id
<1>1. StreamsOpen(open, streaming)
  BY DEF Streaming
<1>2. /\ streaming \in [Servers -> Nat] /\ 0 \notin DOMAIN open
      /\ \A t \in Servers : streaming[t] # 0 =>
           streaming[t] \in DOMAIN open /\ open[streaming[t]].server = t
  BY <1>1, StreamsApart
<1>3. /\ id \in Nat /\ id # 0
      /\ \A d \in Handles : d # c => cursor[d].id # id
  BY CursorStreams DEF IInv, TypeOK
<1> HIDE DEF id
<1>4. /\ \A i \in DOMAIN o.open : i # id => Keeps(open, o.open, i)
      /\ o.streaming = [streaming EXCEPT ![s] = IF o.answer.more THEN id ELSE 0]
      /\ \E q \in Ends(open[id].kind, open[id].pos) :
           /\ ReadsTo(o.answer, o.open, id, open[id].kind, open[id].pos, q)
           /\ id \in DOMAIN o.open => o.open[id] = [open[id] EXCEPT !.pos = q]
  BY Zenon DEF ReadMore, id
<1>5. /\ o.answer.more \in BOOLEAN
      /\ \/ o.answer.id = 0 /\ id \notin DOMAIN open' /\ ~o.answer.more
         \/ o.answer.id = id /\ id \in DOMAIN open' /\ open'[id].server = s
  <2>1. PICK q \in Ends(open[id].kind, open[id].pos) :
           /\ ReadsTo(o.answer, o.open, id, open[id].kind, open[id].pos, q)
           /\ id \in DOMAIN o.open => o.open[id] = [open[id] EXCEPT !.pos = q]
    BY <1>4
  <2>2. open[id] \in ServerCursors /\ open[id].server = s
    BY DEF id, IInv, TypeOK
  <2>3. id \in DOMAIN o.open => o.open[id].server = s
    BY <2>1, <2>2 DEF ServerCursors
  <2> QED
    BY <2>1, <2>3 DEF ReadsTo
<1>6. \A i \in DOMAIN o.open : i # id => i \in DOMAIN open /\ o.open[i] = open[i]
  BY <1>4 DEF Keeps
<1>7. \A d \in Handles : d # c /\ cursor[d].id \in DOMAIN open' =>
        /\ cursor[d].id \in DOMAIN open /\ id # cursor[d].id
        /\ 0 # cursor[d].id /\ streaming[s] # cursor[d].id
  BY <1>2, <1>3, <1>6 DEF id
<1>8. \A t \in Servers : t # s /\ streaming[t] # 0 =>
        /\ streaming[t] \in DOMAIN open' /\ streaming[t] # id
        /\ open'[streaming[t]].server = open[streaming[t]].server
  <2>1. open[id].server = s
    BY DEF id
  <2>2. DOMAIN open \ {id} \subseteq DOMAIN o.open
    BY DEF id
  <2> QED
    BY <1>2, <1>6, <2>1, <2>2
<1>9. CASE o.answer.more
  <2>1. /\ streaming' = [streaming EXCEPT ![s] = id]
        /\ id \in DOMAIN open' /\ open'[id].server = s
    BY <1>4, <1>5, <1>9
  <2>2. Exhausts(j, open', streaming')
    <3>1. j.in_exhaust /\ j.id = id
      BY <1>5, <1>9
    <3> QED
      BY <1>2, <1>3, <2>1, <3>1 DEF Exhausts
  <2>3. \A t \in Servers : t # s /\ streaming[t] # 0 =>
          /\ streaming[t] \in DOMAIN open'
          /\ open'[streaming[t]].server = open[streaming[t]].server
    BY <1>8
  <2>4. \A d \in Handles : d # c /\ cursor[d].id \in DOMAIN open' =>
          /\ cursor[d].id \in DOMAIN open
          /\ id # cursor[d].id /\ streaming[s] # cursor[d].id
    BY <1>7
  <2>5. StreamsOpen(open', streaming')
    BY <1>2, <2>1, <2>3 DEF StreamsOpen
  <2>6. ASSUME NEW d \in Handles, d # c, cursor[d].id \in DOMAIN open'
        PROVE  /\ cursor[d].id \in DOMAIN open
               /\ \A t \in Servers : streaming'[t] = cursor[d].id
                                       <=> streaming[t] = cursor[d].id
    <3>1. /\ cursor[d].id \in DOMAIN open
          /\ id # cursor[d].id /\ streaming[s] # cursor[d].id
      BY <2>4, <2>6
    <3> QED
      BY <1>2, <2>1, <3>1
  <2> QED
    BY <2>2, <2>5, <2>6, StreamingStep
<1>10. CASE ~o.answer.more
  <2>1. streaming' = [streaming EXCEPT ![s] = 0]
    BY <1>4, <1>10
  <2>2. 0 \notin DOMAIN open'
    BY <1>2, <1>3, <1>6
  <2>3. Exhausts(j, open', streaming')
    <3>1. ~j.in_exhaust /\ j.id \in {0, id}
      BY <1>5, <1>10
    <3>2. \A t \in Servers : streaming'[t] # id
      <4>1. \A t \in Servers : streaming'[t] = IF t = s THEN 0 ELSE streaming[t]
        BY <1>2, <2>1
      <4> QED
        BY <1>3, <1>8, <4>1
    <3> QED
      BY <2>2, <3>1, <3>2 DEF Exhausts
  <2>4. \A t \in Servers : t # s /\ streaming[t] # 0 =>
          /\ streaming[t] \in DOMAIN open'
          /\ open'[streaming[t]].server = open[streaming[t]].server
    BY <1>8
  <2>5. \A d \in Handles : d # c /\ cursor[d].id \in DOMAIN open' =>
          cursor[d].id \in DOMAIN open /\ streaming[s] # cursor[d].id
    BY <1>7
  <2> QED
    BY <2>1, <2>2, <2>3, <2>4, <2>5, StreamEnds
<1> QED
  BY <1>5, <1>9, <1>10

(* Streams and cursors agree after a reply that did not cross.             *)
LEMMA AnsweredStreaming ==
  ASSUME IInv, Streaming, Answered, ~crossed' PROVE Streaming'
<1> DEFINE c == call.c
           k == cursor[c]
           s == call.loop.server
<1>1. PICK o, j : /\ Replied(o, j)
                  /\ \/ RefusedTo(o, j) \/ MissingTo(o, j)
                     \/ FoundTo(o, j) \/ ReadTo(o, j)
  BY AnsweredCases
<1>2. /\ c \in Handles /\ s \in Servers /\ k.server = s /\ ~Crosses(s, k.id)
      /\ open' = o.open /\ streaming' = o.streaming
      /\ cursor' = [cursor EXCEPT ![c] = j]
  BY <1>1 DEF Replied, Takes
<1>3. streaming[s] \in {0, k.id}
  BY <1>2 DEF Crosses
<1>4. k \in Cursors
  BY <1>2 DEF IInv, TypeOK
<1>5. /\ Asked.id = k.id /\ Asked.in_exhaust = k.in_exhaust
      /\ Asked.server = k.server /\ Asked.state = k.state
      /\ SameCursor(Asked, k)
  BY <1>4 DEF Asked, Cursors, SameCursor
<1>6. ASSUME AttemptOver(o.answer, Asked, j, c)
      PROVE  /\ SameCursor(j, k) /\ call'.at # "kill"
             /\ call'.at = "select" => call'.c = c
  BY <1>5, <1>6 DEF AttemptOver, Onward, SameCursor
<1>7. ASSUME AttemptDone(o.answer, Asked, j, c)
      PROVE  /\ j.id = o.answer.id /\ j.in_exhaust = o.answer.more
             /\ j.server = s /\ (j.state = "Done" => j.id = 0)
             /\ call'.at \notin {"select", "kill"}
  BY <1>2, <1>5, <1>7 DEF AttemptDone, Onward
<1>8. CASE RefusedTo(o, j)
  <2>1. Dropped(o, s, k.id) /\ AttemptOver(o.answer, Asked, j, c)
    BY <1>8 DEF RefusedTo
  <2> HIDE DEF c, k, s
  <2> DEFINE id == k.id
  <2>2. /\ id \in {0, k.id} /\ (id # 0 => s = k.server)
        /\ (id # k.id => j.state = k.state)
        /\ call'.at = "select" => call'.c = c /\ id = k.id
    BY <1>2, <1>6, <2>1
  <2>3. Dropped(o, s, id) /\ streaming[s] \in {0, id}
    BY <1>3, <2>1
  <2> HIDE DEF id
  <2> QED
    BY <1>2, <1>6, <2>1, <2>2, <2>3, DroppedStreaming DEF k
<1>9. CASE MissingTo(o, j)
  <2>1. /\ open' = open /\ streaming' = streaming
        /\ ~(k.id \in DOMAIN open /\ open[k.id].server = s)
        /\ AttemptOver(o.answer, Asked, j, c)
    BY <1>2, <1>9 DEF MissingTo
  <2>2. k.id \in DOMAIN open => ~k.in_exhaust
    BY <1>2, <2>1, CursorStreams
  <2>3. Exhausts(k, open, streaming) /\ StreamsOpen(open, streaming)
    BY <1>2 DEF Streaming
  <2>4. j.id = k.id /\ j.in_exhaust = k.in_exhaust
    BY <1>6, <2>1 DEF SameCursor
  <2>5. Exhausts(j, open', streaming')
    BY <2>1, <2>2, <2>3, <2>4 DEF Exhausts
  <2>6. cursor'[c] = j
    BY <1>2 DEF IInv, TypeOK
  <2>7. call'.at \in {"select", "kill"} => Ended(call', cursor'[call'.c], open')
    BY <1>6, <2>1, <2>2, <2>4, <2>6 DEF Ended
  <2>8. /\ StreamsOpen(open', streaming')
        /\ \A d \in Handles : d # c /\ cursor[d].id \in DOMAIN open' =>
             /\ cursor[d].id \in DOMAIN open
             /\ \A t \in Servers : streaming'[t] = cursor[d].id
                                     <=> streaming[t] = cursor[d].id
    BY <2>1, <2>3
  <2> HIDE DEF c, k, s
  <2> QED
    BY <1>2, <2>5, <2>7, <2>8, StreamingStep
<1>10. CASE FoundTo(o, j)
  <2>1. /\ Opened(o, open, streaming, s, "find", 0, NewId(c), c, k.opt)
        /\ DOMAIN open \subseteq DOMAIN o.open /\ k.id = 0
        /\ AttemptDone(o.answer, Asked, j, c)
    BY <1>10 DEF FoundTo
  <2>2. streaming[s] = 0
    BY <1>3, <2>1
  <2> HIDE DEF c, s
  <2> QED
    BY <1>2, <1>7, <2>1, <2>2, OpenedStreaming
<1>11. CASE ReadTo(o, j)
  <2>1. /\ ReadMore(o, open, streaming, s, k.id, k.opt)
        /\ k.id \in DOMAIN open /\ open[k.id].server = s
        /\ DOMAIN open \ {k.id} \subseteq DOMAIN o.open
        /\ AttemptDone(o.answer, Asked, j, c)
    BY <1>11 DEF ReadTo
  <2> HIDE DEF c, s
  <2> QED
    BY <1>2, <1>3, <1>7, <2>1, ReadStreaming
<1> QED
  BY <1>1, <1>8, <1>9, <1>10, <1>11

(* No reply arrives.                                                       *)
Unanswered(t, j) ==
  /\ call.at = "send" /\ call.c \in Handles
  /\ call.loop.server \in Servers /\ cursor[call.c].server = call.loop.server
  /\ IF t THEN UNCHANGED faults ELSE Fault
  /\ Lost(call.loop.server, cursor[call.c].id)
  /\ UNCHANGED <<in_exhaust, crossed>>
  /\ cursor' = [cursor EXCEPT ![call.c] = j]
  /\ AttemptOver(ErrorAnswer(NetworkError),
                 [cursor[call.c] EXCEPT !.timed_out = t], j, call.c)

(* A connection that fails leaves a command without a reply.               *)
LEMMA UnansweredIs ==
  ASSUME IInv, ConnectionFails
  PROVE  \E t \in BOOLEAN : \E j : Unanswered(t, j)
<1> DEFINE c == call.c
           k == cursor[c]
           a == ErrorAnswer(NetworkError)
<1>0. call.at = "send" /\ call.at \in Commands /\ call.at \in {"send", "select"}
  BY DEF ConnectionFails, Commands
<1>1. /\ c \in Handles /\ k \in Cursors /\ call \in Calls
      /\ Sending(call, k, held)
  BY <1>0, CommandFacts
<1>2. PICK t \in BOOLEAN :
        /\ IF t THEN UNCHANGED faults ELSE Fault
        /\ Lost(call.loop.server, k.id)
        /\ AfterAttempt([k EXCEPT !.timed_out = t], a)
  BY DEF ConnectionFails
<1>3. UNCHANGED <<in_exhaust, crossed>>
  BY DEF ConnectionFails
<1> DEFINE b == [k EXCEPT !.timed_out = t]
<1>4. b \in Cursors
  BY <1>1, TimedOut
<1>5. ~a.reply.ok
  BY ErrorAnswerIs, RepliesTyped
<1>6. AfterAttempt(b, a)
  BY <1>2
<1> HIDE DEF a, b
<1>7. PICK j : cursor' = [cursor EXCEPT ![c] = j] /\ AttemptOver(a, b, j, c)
  BY <1>1, <1>4, <1>5, <1>6, AttemptOverIs
<1>8. call.loop.server \in Servers /\ k.server = call.loop.server
  BY <1>1 DEF Sending
<1>9. Unanswered(t, j)
  BY <1>0, <1>1, <1>2, <1>3, <1>7, <1>8 DEF Unanswered, a, b
<1> QED
  BY <1>9

(* Streams and cursors agree after a command without a reply.              *)
LEMMA UnansweredStreaming ==
  ASSUME IInv, Streaming, NEW t \in BOOLEAN, NEW j, Unanswered(t, j)
  PROVE  Streaming'
<1> DEFINE c == call.c
           k == cursor[c]
           s == call.loop.server
           id == k.id
           b == [k EXCEPT !.timed_out = t]
<1>1. /\ c \in Handles /\ s \in Servers /\ k.server = s /\ Lost(s, id)
      /\ cursor' = [cursor EXCEPT ![c] = j]
      /\ AttemptOver(ErrorAnswer(NetworkError), b, j, c)
  BY DEF Unanswered
<1>2. SameCursor(b, k)
  BY <1>1, TimedOut DEF IInv, TypeOK
<1> HIDE DEF b
<1>3. /\ SameCursor(j, k) /\ call'.at # "kill"
      /\ call'.at = "select" => call'.c = c /\ id = k.id
  BY <1>1, <1>2 DEF AttemptOver, Onward, SameCursor
<1>4. id \in {0, k.id} /\ (id # 0 => s = k.server) /\ (id # k.id => j.state = k.state)
  BY <1>1
<1> HIDE DEF c, s, id
<1> QED
  BY <1>1, <1>3, <1>4, LostStreaming

----------------------------------------------------------------------------
(* How an attempt of the aggregate command ends.                           *)
AggregateOver(a) ==
  /\ cursor' = cursor
  /\ \/ /\ Retries(call.loop, a.reply) /\ call'.at = "reselect"
        /\ SameCount(call, call') /\ call'.server = call.server
        /\ call'.loop = NextAttempt(call.loop, a.reply)
     \/ ~Retries(call.loop, a.reply) /\ call' = Idle
AggregateDone(a, j) ==
  /\ cursor' = [cursor EXCEPT ![W] = j]
  /\ j.id = a.id /\ j.server = call.server /\ j.in_exhaust = FALSE
  /\ j.state = "InBatch" /\ j.error = OkReply
  /\ \/ call' = Idle
     \/ /\ call'.at = "next"
        /\ IF call.loop.server = call.server THEN SameCount(call, call')
                                             ELSE OneMove(call, call')
AtAggregate(s) ==
  /\ call.at = "aggregate" /\ s = call.loop.server /\ s \in Servers
  /\ call.server \in Servers /\ W \in Handles /\ cursor[W].id = 0
  /\ in_exhaust' = in_exhaust

(* What AfterAggregate does with a reply that is an error.                 *)
LEMMA AggregateOverIs ==
  ASSUME call \in Calls, NEW a, ~a.reply.ok, NEW p, AfterAggregate(a, p)
  PROVE  AggregateOver(a)
<1>1. CASE Retries(call.loop, a.reply)
  <2>1. /\ call' = [call EXCEPT !.at = "reselect",
                                !.loop = NextAttempt(call.loop, a.reply)]
        /\ cursor' = cursor
    BY <1>1 DEF AfterAggregate
  <2>2. /\ call'.at = "reselect" /\ SameCount(call, call')
        /\ call'.server = call.server
        /\ call'.loop = NextAttempt(call.loop, a.reply)
    BY <2>1 DEF Calls, SameCount
  <2> QED
    BY <1>1, <2>1, <2>2 DEF AggregateOver
<1>2. CASE ~Retries(call.loop, a.reply)
  BY <1>2 DEF AfterAggregate, MakeError, AggregateOver
<1> QED
  BY <1>1, <1>2

AggregateRefused(o) ==
  Dropped(o, call.loop.server, 0) /\ AggregateOver(o.answer)
AggregateMade(o, j) ==
  /\ \E p : Opened(o, open, streaming, call.loop.server, "watch", p, NewId(W),
                   W, FALSE)
  /\ DOMAIN open \subseteq DOMAIN o.open
  /\ AggregateDone(o.answer, j)

(* An answered aggregate is refused, or makes the cursor.                  *)
LEMMA AggregatedCases ==
  ASSUME IInv, Aggregated
  PROVE  \E o : /\ AtAggregate(call.loop.server) /\ Takes(o) /\ ~in_exhaust
                /\ crossed' = (crossed \/ Crosses(call.loop.server, 0))
                /\ AggregateRefused(o) \/ \E j : AggregateMade(o, j)
<1> DEFINE s == call.loop.server
           id == NewId(W)
<1>1. call.at = "aggregate" /\ ~in_exhaust /\ call.at \in Making
  BY DEF Aggregated, Making
<1>2. /\ TypeOK /\ stream.sess = W /\ s \in Servers /\ W \in Handles
      /\ call \in Calls /\ cursor[W].id = 0 /\ call.server \in Servers
  BY <1>1, MakingFacts, StreamHandle
<1>3. /\ UNCHANGED in_exhaust
      /\ crossed' = (crossed \/ Crosses(s, 0))
  BY DEF Aggregated
<1>4. AtAggregate(s)
  BY <1>1, <1>2, <1>3 DEF AtAggregate
<1>5. ASSUME NEW p \in Begins(MakeCommand(stream)),
             NEW o \in RunOpen(s, "watch", p, id, stream.sess, FALSE),
             Takes(o), AfterAggregate(o.answer, p)
      PROVE  \E j : AggregateMade(o, j)
  <2>1. /\ id \in Nat \ {0} /\ id \notin DOMAIN open
    BY <1>2, NewIdFresh
  <2>2. p \in Nat /\ "watch" \in {"find", "watch"} /\ FALSE \in BOOLEAN
    BY <1>1, <1>5, BeginsAt
  <2>3. o \in RunOpen(s, "watch", p, id, W, FALSE)
    BY <1>2, <1>5
  <2>4. Opened(o, open, streaming, s, "watch", p, id, W, FALSE)
    <3> HIDE DEF s, id
    <3> QED
      BY <1>2, <2>1, <2>2, <2>3, RunOpenIs
  <2>5. DOMAIN open \subseteq DOMAIN o.open
    BY <1>2, <2>3, OpenKeeps, OpenTyped
  <2>6. o.answer.reply = OkReply
    BY <2>4, Zenon DEF Opened, ReadsTo
  <2>7. ~Retries(call.loop, o.answer.reply) /\ o.answer.reply.ok
    BY <2>6, OkNotRetried, RepliesTyped
  <2>8. Made(o.answer, p)
    BY <1>5, <2>7 DEF AfterAggregate
  <2> DEFINE j == [NewCursor(FALSE) EXCEPT !.state = "InBatch",
                     !.id = o.answer.id, !.batch = o.answer.batch,
                     !.pbrt = o.answer.pbrt, !.server = call.server,
                     !.sess = stream.sess, !.explicit = TRUE]
  <2>9. /\ cursor' = [cursor EXCEPT ![W] = j]
        /\ call' = IF call.resume
                     THEN [call EXCEPT !.at = "next",
                             !.moved = IF call.loop.server = call.server
                                         THEN @ ELSE @ + 1]
                     ELSE Idle
    BY <2>8 DEF Made
  <2>10. /\ j.id = o.answer.id /\ j.server = call.server
         /\ j.in_exhaust = FALSE
         /\ j.state = "InBatch" /\ j.error = OkReply
    BY DEF NewCursor
  <2>11. \/ call' = Idle
         \/ /\ call'.at = "next"
            /\ IF call.loop.server = call.server THEN SameCount(call, call')
                                                 ELSE OneMove(call, call')
    BY <1>2, <2>9 DEF Calls, SameCount, OneMove
  <2> HIDE DEF j
  <2>12. AggregateDone(o.answer, j)
    BY <2>9, <2>10, <2>11 DEF AggregateDone
  <2>13. AggregateMade(o, j)
    BY <2>4, <2>5, <2>12 DEF AggregateMade
  <2> QED
    BY <2>13
<1>6. ASSUME NEW o \in Refuse(s, 0), Takes(o), AfterAggregate(o.answer, 0)
      PROVE  AggregateRefused(o)
  <2>1. Dropped(o, s, 0) /\ ~o.answer.reply.ok
    BY <1>2, <1>6, RefuseDrops
  <2>2. AggregateOver(o.answer)
    BY <1>2, <1>6, <2>1, AggregateOverIs
  <2> QED
    BY <2>1, <2>2 DEF AggregateRefused
<1> QED
  BY <1>1, <1>3, <1>4, <1>5, <1>6 DEF Aggregated

(* Streams and cursors agree after the aggregate is answered.              *)
LEMMA AggregatedStreaming ==
  ASSUME IInv, Streaming, Aggregated, ~crossed' PROVE Streaming'
<1> DEFINE s == call.loop.server
           k == cursor[W]
<1>1. PICK o : /\ AtAggregate(s) /\ Takes(o) /\ ~in_exhaust
               /\ crossed' = (crossed \/ Crosses(s, 0))
               /\ AggregateRefused(o) \/ \E j : AggregateMade(o, j)
  BY AggregatedCases
<1>2. /\ W \in Handles /\ s \in Servers /\ k.id = 0
      /\ open' = o.open /\ streaming' = o.streaming
  BY <1>1 DEF AtAggregate, Takes
<1>3. streaming[s] = 0
  BY <1>1 DEF Crosses
<1>4. Idle.at = "idle" /\ cursor \in [Handles -> Cursors]
  BY DEF Idle, IInv, TypeOK
<1>5. CASE AggregateRefused(o)
  <2> DEFINE id == 0
             j == k
  <2>1. Dropped(o, s, id) /\ call'.at \in {"reselect", "idle"} /\ cursor' = cursor
    BY <1>4, <1>5 DEF AggregateRefused, AggregateOver
  <2>2. cursor' = [cursor EXCEPT ![W] = j] /\ SameCursor(j, k)
    BY <1>2, <1>4, <2>1 DEF SameCursor
  <2>3. /\ id \in {0, k.id} /\ (id # 0 => s = k.server) /\ streaming[s] \in {0, id}
        /\ id # k.id => j.state = k.state
    BY <1>3
  <2> HIDE DEF id, j, s
  <2> QED
    BY <1>2, <2>1, <2>2, <2>3, DroppedStreaming
<1>6. ASSUME NEW j, AggregateMade(o, j) PROVE Streaming'
  <2>1. PICK p : Opened(o, open, streaming, s, "watch", p, NewId(W), W, FALSE)
    BY <1>6 DEF AggregateMade
  <2>2. DOMAIN open \subseteq DOMAIN o.open /\ AggregateDone(o.answer, j)
    BY <1>6 DEF AggregateMade
  <2>3. /\ cursor' = [cursor EXCEPT ![W] = j] /\ j.id = o.answer.id
        /\ j.in_exhaust = FALSE /\ j.state = "InBatch"
        /\ call'.at \notin {"select", "kill"}
    BY <1>4, <2>2 DEF AggregateDone
  <2>4. ~o.answer.more /\ o.answer.more \in BOOLEAN
    BY <2>1, Zenon DEF Opened, ReadsTo
  <2>5. (j.in_exhaust => j.server = s) /\ (j.state = "Done" => j.id = 0)
    BY <2>3
  <2>6. j.in_exhaust = o.answer.more
    BY <2>3, <2>4, Zenon
  <2> HIDE DEF s
  <2> QED
    BY <1>2, <1>3, <2>1, <2>2, <2>3, <2>5, <2>6, OpenedStreaming
<1> QED
  BY <1>1, <1>5, <1>6

(* The aggregate command is not sent, or not answered.                     *)
AggregateLost ==
  /\ AtAggregate(call.loop.server) /\ Lost(call.loop.server, 0)
  /\ UNCHANGED <<faults, crossed>>
  /\ AggregateOver(ErrorAnswer(NetworkError))

(* An aggregate that fails was sent and lost, or never sent.               *)
LEMMA AggregateFailsCases ==
  ASSUME IInv, AggregateFails
  PROVE  AggregateLost \/ Sidestep
<1>1. call.at = "aggregate" /\ call.at \in Making
  BY DEF AggregateFails, Making
<1>2. /\ call.loop.server \in Servers /\ W \in Handles /\ call \in Calls
      /\ cursor[W].id = 0 /\ call.server \in Servers
  BY <1>1, MakingFacts, StreamHandle
<1>3. CASE in_exhaust
  <2>1. /\ UNCHANGED <<open, streaming, in_exhaust, crossed, cursor>>
        /\ call' = Idle
    BY <1>3 DEF AggregateFails, MakeError
  <2>2. Idle.at = "idle"
    BY DEF Idle
  <2> QED
    BY <1>1, <2>1, <2>2, StreamAside
<1>4. CASE ~in_exhaust
  <2>1. /\ Lost(call.loop.server, 0) /\ UNCHANGED <<faults, in_exhaust, crossed>>
        /\ AfterAggregate(ErrorAnswer(NetworkError), 0)
    BY <1>4 DEF AggregateFails
  <2>2. ~ErrorAnswer(NetworkError).reply.ok
    BY ErrorAnswerIs, RepliesTyped
  <2>3. AggregateOver(ErrorAnswer(NetworkError))
    BY <1>2, <2>1, <2>2, AggregateOverIs
  <2> QED
    BY <1>1, <1>2, <2>1, <2>3 DEF AggregateLost, AtAggregate
<1> QED
  BY <1>3, <1>4

(* Streams and cursors agree after an aggregate without a reply.           *)
LEMMA AggregateLostStreaming ==
  ASSUME IInv, Streaming, AggregateLost PROVE Streaming'
<1> DEFINE s == call.loop.server
           k == cursor[W]
           id == 0
           j == k
<1>1. /\ W \in Handles /\ s \in Servers /\ Lost(s, id) /\ k.id = 0
      /\ cursor' = cursor
  BY DEF AggregateLost, AtAggregate, AggregateOver
<1>2. call'.at \in {"reselect", "idle"}
  BY DEF AggregateLost, AggregateOver, Idle
<1>3. cursor' = [cursor EXCEPT ![W] = j] /\ SameCursor(j, k)
  BY <1>1 DEF SameCursor, IInv, TypeOK
<1>4. id \in {0, k.id} /\ (id # 0 => s = k.server) /\ (id # k.id => j.state = k.state)
  OBVIOUS
<1> HIDE DEF id, j, s
<1> QED
  BY <1>1, <1>2, <1>3, <1>4, LostStreaming

----------------------------------------------------------------------------
(* Every step, by what it does to the streams.                             *)
Steps ==
  \/ Sidestep
  \/ Write /\ UNCHANGED cursorVars
  \/ Reap /\ UNCHANGED cursorVars
  \/ \E c \in Handles : CutOff(c)
  \/ Kill \/ KillFails \/ Answered
  \/ \E t \in BOOLEAN : \E j : Unanswered(t, j)
  \/ Aggregated \/ AggregateLost
  \/ UNCHANGED vars

(* Every step of the specification is one of those.                        *)
LEMMA NextSteps == ASSUME IInv, [Next]_vars PROVE Steps
<1> USE DEF Steps
<1>1. \A c \in Finds : c \in Handles
  BY DEF Handles
<1>2. CASE Find
  BY <1>2, FindAside
<1>3. CASE FindNext
  BY <1>1, <1>3, EnterNextAside DEF FindNext
<1>4. CASE FindDestroy
  <2>1. PICK c \in Finds : cursor[c].live /\ Destroy(c)
    BY <1>4 DEF FindDestroy
  <2>2. call.at = "idle" /\ c \in Handles
    BY <1>1, <1>4 DEF FindDestroy
  <2>3. CutOff(c) \/ Sidestep
    BY <2>1, <2>2, DestroyCases
  <2> QED
    BY <2>2, <2>3
<1>5. CASE FetchFails \/ RetrySelectFails
  BY <1>5, CommandFailsAside
<1>6. CASE Fetch \/ RetrySelect
  BY <1>6, FetchAside, RetrySelectAside
<1>7. CASE ConnectionFails
  BY <1>7, UnansweredIs
<1>8. CASE Deployment
  BY <1>8 DEF Deployment
<1>9. CASE Discard
  <2>1. call.at = "discard" /\ Destroy(W)
    BY <1>9 DEF Discard
  <2>2. W \in Handles /\ W \notin Finds
    BY StreamHandle
  <2>3. cursor[W].live
    BY <2>1 DEF IInv, StreamState
  <2>4. CutOff(W) \/ Sidestep
    BY <2>1, <2>2, <2>3, DestroyCases
  <2> QED
    BY <2>2, <2>4
<1>10. CASE AggregateFails
  BY <1>10, AggregateFailsCases
<1>11. CASE \/ Watch \/ StreamNext \/ StreamDestroy \/ PickFails \/ Pick
            \/ AggregateReselect \/ ResumedNext \/ Deliver \/ NothingNew
            \/ StreamFails \/ Resume \/ Discarded
  BY <1>11, StreamStepsAside
<1>12. CASE Application
  BY <1>2, <1>3, <1>4, <1>12 DEF Application
<1>13. CASE Driver
  BY <1>5, <1>6, <1>7, <1>13 DEF Driver
<1>14. CASE StreamDriver
  BY <1>9, <1>10, <1>11, <1>14 DEF StreamDriver
<1> QED
  BY <1>8, <1>11, <1>12, <1>13, <1>14 DEF Next, DriverSteps

(* A reply that has crossed stays so.                                      *)
LEMMA CrossedStays == ASSUME Steps, crossed, IInv PROVE crossed'
<1>1. CASE Sidestep
  BY <1>1 DEF Sidestep, Aside
<1>2. CASE \E t \in BOOLEAN : \E j : Unanswered(t, j)
  BY <1>2 DEF Unanswered
<1>3. CASE \E c \in Handles : CutOff(c)
  BY <1>3 DEF CutOff
<1>4. CASE (Write \/ Reap) /\ UNCHANGED cursorVars
  BY <1>4 DEF cursorVars
<1>5. CASE Kill \/ KillFails
  BY <1>5 DEF Kill, KillFails
<1>6. CASE Answered \/ Aggregated
  BY <1>6 DEF Answered, Aggregated
<1>7. CASE AggregateLost
  BY <1>7 DEF AggregateLost
<1>8. CASE UNCHANGED vars
  BY <1>8 DEF vars, cursorVars
<1> QED
  BY <1>1, <1>2, <1>3, <1>4, <1>5, <1>6, <1>7, <1>8 DEF Steps

(* Streams and cursors agree after each of them, unless a reply crosses.   *)
LEMMA StepStreaming ==
  ASSUME IInv, Steps, Streaming, ~crossed' PROVE Streaming'
<1>1. CASE Sidestep
  BY <1>1, QuietStreaming DEF Sidestep
<1>2. CASE \E t \in BOOLEAN : \E j : Unanswered(t, j)
  BY <1>2, UnansweredStreaming
<1>3. CASE \E c \in Handles : CutOff(c)
  BY <1>3, CutOffStreaming
<1>4. CASE UNCHANGED <<open, streaming, cursor, call>>
  BY <1>4 DEF Streaming, StreamsOpen, Exhausts, Ended
<1>5. CASE Write /\ UNCHANGED cursorVars
  BY <1>4, <1>5 DEF Write, cursorVars
<1>6. CASE Reap /\ UNCHANGED cursorVars
  BY <1>6, ReapStreaming
<1>7. CASE Kill \/ KillFails
  BY <1>7, KillStreaming
<1>8. CASE Answered
  BY <1>8, AnsweredStreaming
<1>9. CASE Aggregated
  BY <1>9, AggregatedStreaming
<1>10. CASE AggregateLost
  BY <1>10, AggregateLostStreaming
<1>11. CASE UNCHANGED vars
  BY <1>4, <1>11 DEF vars, serverVars, cursorVars
<1> QED
  BY <1>1, <1>2, <1>3, <1>5, <1>6, <1>7, <1>8, <1>9, <1>10, <1>11 DEF Steps

(* Until a reply crosses, streams and cursors agree.                       *)
TInv == crossed \/ Streaming

(* As long as every reply read from a connection answers the command it    *)
(* was read for (client->in_exhaust keeps other commands away), a server   *)
(* streams only a cursor that is open there, and a cursor is in exhaust    *)
(* mode exactly while its server streams it.                               *)
THEOREM StreamsAgree == Spec => [](RepliesNotCrossed => Streaming)
<1>1. Init => TInv
  <2> SUFFICES ASSUME Init PROVE Streaming
    BY DEF TInv
  <2>1. /\ streaming = [s \in Servers |-> 0] /\ open = << >>
        /\ cursor = [c \in Handles |-> NoCursor] /\ call = Idle
    BY DEF Init, CursorInit, ServerInit
  <2>2. /\ NoCursor.id = 0 /\ ~NoCursor.in_exhaust
        /\ Idle.at = "idle" /\ DOMAIN open = {}
    BY <2>1 DEF NoCursor, NewCursor, Idle
  <2> QED
    BY <2>1, <2>2 DEF Streaming, StreamsOpen, Exhausts
<1>2. IInv /\ TInv /\ [Next]_vars => TInv'
  BY NextSteps, CrossedStays, StepStreaming DEF TInv
<1>3. TInv => (RepliesNotCrossed => Streaming)
  BY DEF TInv, RepliesNotCrossed
<1> QED
  BY <1>1, <1>2, <1>3, StreamInductive, PTL DEF Spec

----------------------------------------------------------------------------
(* With one find, the client is in exhaust only for that find, and every   *)
(* stream is its own.                                                      *)
OneFind == \A c, d \in Finds : c = d
OneStream(ex, cur, str) ==
  /\ ex => \E f \in Finds : cur[f].in_exhaust
  /\ \A s \in Servers : str[s] # 0 =>
       /\ ex
       /\ \E f \in Finds : cur[f].in_exhaust /\ cur[f].id = str[s]

(* What the one find has to do with a stream.                              *)
LEMMA TheStream ==
  ASSUME IInv, Streaming, OneFind, OneStream(in_exhaust, cursor, streaming),
         NEW c \in Finds, NEW t \in Servers, streaming[t] # 0
  PROVE  /\ in_exhaust /\ cursor[c].in_exhaust /\ cursor[c].state # "Done"
         /\ cursor[c].id = streaming[t] /\ cursor[c].server = t
         /\ cursor[c].id \in DOMAIN open /\ open[cursor[c].id].server = t
<1>1. /\ in_exhaust /\ cursor[c].in_exhaust /\ cursor[c].id = streaming[t]
  BY DEF OneFind, OneStream
<1>2. streaming[t] \in DOMAIN open /\ open[streaming[t]].server = t
  BY DEF Streaming, StreamsOpen
<1>3. c \in Handles
  BY DEF Handles
<1> QED
  BY <1>1, <1>2, <1>3, CursorStreams

(* A step of one cursor that leaves it in exhaust as it was.               *)
LEMMA OneStreamKept ==
  ASSUME IInv, OneStream(in_exhaust, cursor, streaming), NEW c \in Handles,
         NEW j, cursor' = [cursor EXCEPT ![c] = j],
         j.id = cursor[c].id, j.in_exhaust = cursor[c].in_exhaust,
         in_exhaust' = in_exhaust,
         \A s \in Servers : streaming'[s] \in {0, streaming[s]}
  PROVE  OneStream(in_exhaust, cursor, streaming)'
<1>1. cursor \in [Handles -> Cursors] /\ \A f \in Finds : f \in Handles
  BY DEF IInv, TypeOK, Handles
<1>2. \A f \in Finds : /\ cursor'[f].id = cursor[f].id
                       /\ cursor'[f].in_exhaust = cursor[f].in_exhaust
  BY <1>1
<1> QED
  BY <1>2 DEF OneStream

(* Nothing streams after a step.                                           *)
LEMMA NoneStreams ==
  ASSUME ~in_exhaust', \A s \in Servers : streaming'[s] = 0
  PROVE  OneStream(in_exhaust, cursor, streaming)'
BY DEF OneStream

(* A find in exhaust is destroyed, and its stream with it.                 *)
LEMMA CutOffOne ==
  ASSUME IInv, Streaming, OneFind, OneStream(in_exhaust, cursor, streaming),
         NEW c \in Handles, CutOff(c)
  PROVE  OneStream(in_exhaust, cursor, streaming)'
<1>1. /\ c \in Finds /\ in_exhaust' = FALSE
      /\ IF cursor[c].state # "Done" THEN Disconnected(cursor[c].server)
                                     ELSE UNCHANGED <<open, streaming>>
  BY DEF CutOff
<1>2. streaming \in [Servers -> Nat]
  BY DEF IInv, TypeOK
<1>3. \A t \in Servers : streaming[t] # 0 =>
        cursor[c].state # "Done" /\ cursor[c].server = t
  BY <1>1, TheStream
<1>4. \A t \in Servers : streaming'[t] = 0
  BY <1>1, <1>2, <1>3 DEF Disconnected
<1> QED
  BY <1>1, <1>4, NoneStreams

(* A killCursors command is not sent while anything streams.               *)
LEMMA KillOne ==
  ASSUME IInv, Streaming, OneFind, OneStream(in_exhaust, cursor, streaming),
         ~crossed, Kill \/ KillFails
  PROVE  OneStream(in_exhaust, cursor, streaming)' /\ ~crossed'
<1>1. KillOver(call.c)
  BY KillIsOver
<1>2. /\ call.at = "kill" /\ call.c \in Handles
      /\ cursor[call.c].server \in Servers /\ in_exhaust' = in_exhaust
      /\ cursor' = [cursor EXCEPT ![call.c] = NoCursor]
  BY <1>1 DEF KillOver
<1>3. streaming \in [Servers -> Nat] /\ cursor \in [Handles -> Cursors]
  BY DEF IInv, TypeOK
<1>4. CASE ~in_exhaust
  <2>1. \A t \in Servers : streaming[t] = 0
    BY <1>4 DEF OneStream
  <2>2. \A t \in Servers : streaming'[t] = 0
    BY <1>3, <1>4, <2>1 DEF Kill, KillFails
  <2>3. ~Crosses(cursor[call.c].server, cursor[call.c].id)
    BY <1>2, <2>1 DEF Crosses
  <2>4. ~crossed'
    BY <2>3 DEF Kill, KillFails
  <2> QED
    BY <1>2, <1>4, <2>2, <2>4, NoneStreams
<1>5. CASE in_exhaust
  <2>1. ~cursor[call.c].in_exhaust
    BY <1>2 DEF Streaming, Ended
  <2>2. streaming' = streaming /\ crossed' = crossed
    BY <1>5 DEF Kill, KillFails
  <2>3. \A f \in Finds : cursor[f].in_exhaust => cursor'[f] = cursor[f]
    BY <1>2, <1>3, <2>1 DEF Handles
  <2> QED
    BY <1>2, <2>2, <2>3 DEF OneStream
<1> QED
  BY <1>4, <1>5

(* Every command that is answered is answered by its own reply.            *)
LEMMA AnsweredOne ==
  ASSUME IInv, Streaming, OneFind, OneStream(in_exhaust, cursor, streaming),
         ~crossed, Answered
  PROVE  OneStream(in_exhaust, cursor, streaming)' /\ ~crossed'
<1> DEFINE c == call.c
           k == cursor[c]
           s == call.loop.server
<1>1. PICK o, j : /\ Replied(o, j)
                  /\ \/ RefusedTo(o, j) \/ MissingTo(o, j)
                     \/ FoundTo(o, j) \/ ReadTo(o, j)
  BY AnsweredCases
<1>2. /\ c \in Handles /\ s \in Servers /\ k.server = s /\ call.at = "send"
      /\ open' = o.open /\ streaming' = o.streaming
      /\ in_exhaust' = o.answer.more
      /\ crossed' = (crossed \/ Crosses(s, k.id))
      /\ cursor' = [cursor EXCEPT ![c] = j]
  BY <1>1 DEF Replied, Takes
<1>3. streaming \in [Servers -> Nat] /\ cursor \in [Handles -> Cursors]
  BY DEF IInv, TypeOK
<1>4. \A t \in Servers : streaming[t] # 0 =>
        /\ c \in Finds /\ in_exhaust /\ k.id = streaming[t] /\ s = t
        /\ k.id \in DOMAIN open /\ open[k.id].server = s
  <2>1. CASE c \in Finds
    BY <1>2, <2>1, TheStream
  <2>2. CASE c \notin Finds
    <3>1. ~in_exhaust
      BY <1>2, <2>2, CommandFacts DEF Commands, Asking, Handles
    <3> QED
      BY <3>1 DEF OneStream
  <2> QED
    BY <2>1, <2>2
<1>5. ~crossed'
  BY <1>2, <1>4 DEF Crosses
<1>6. ASSUME NEW r, o.answer = ErrorAnswer(r) PROVE ~in_exhaust'
  BY <1>2, <1>6, ErrorAnswerIs
<1>7. CASE RefusedTo(o, j)
  <2>1. streaming' = [streaming EXCEPT ![s] = 0] /\ ~in_exhaust'
    BY <1>2, <1>6, <1>7 DEF RefusedTo, Dropped
  <2>2. \A t \in Servers : streaming'[t] = 0
    BY <1>2, <1>3, <1>4, <2>1
  <2> QED
    BY <1>5, <2>1, <2>2, NoneStreams
<1>8. CASE MissingTo(o, j)
  <2>1. streaming' = streaming /\ ~in_exhaust'
    BY <1>2, <1>6, <1>8 DEF MissingTo
  <2>2. ~(k.id \in DOMAIN open /\ open[k.id].server = s)
    BY <1>8 DEF MissingTo
  <2>3. \A t \in Servers : streaming'[t] = 0
    BY <1>4, <2>1, <2>2
  <2> QED
    BY <1>5, <2>1, <2>3, NoneStreams
<1>9. ASSUME NEW id, o.answer.more \in BOOLEAN, o.answer.more => k.opt,
             o.answer.more => o.answer.id = id,
             AttemptDone(o.answer, Asked, j, c),
             \A t \in Servers :
               streaming'[t] = IF t = s /\ o.answer.more THEN id ELSE 0
      PROVE  OneStream(in_exhaust, cursor, streaming)'
  <2>1. CASE ~o.answer.more
    BY <1>2, <1>9, <2>1, NoneStreams
  <2>2. CASE o.answer.more
    <3>1. c \in Finds
      <4>1. Life(c, k, open, held)
        BY <1>2 DEF IInv
      <4> QED
        BY <1>2, <1>9, <2>2, <4>1, StreamHandle DEF Life
    <3>2. cursor'[c].in_exhaust /\ cursor'[c].id = id
      BY <1>2, <1>3, <1>9, <2>2 DEF AttemptDone
    <3> QED
      BY <1>2, <1>9, <2>2, <3>1, <3>2 DEF OneStream
  <2> QED
    BY <1>9, <2>1, <2>2
<1>10. CASE FoundTo(o, j)
  <2>1. /\ Opened(o, open, streaming, s, "find", 0, NewId(c), c, k.opt)
        /\ AttemptDone(o.answer, Asked, j, c) /\ k.id = 0
    BY <1>10 DEF FoundTo
  <2>2. /\ o.answer.more \in BOOLEAN /\ (o.answer.more => k.opt)
        /\ o.answer.more => o.answer.id = NewId(c)
        /\ o.streaming = IF o.answer.more THEN [streaming EXCEPT ![s] = NewId(c)]
                                          ELSE streaming
    BY <2>1, Zenon DEF Opened, ReadsTo
  <2>3. \A t \in Servers : streaming[t] = 0
    BY <1>4, <2>1
  <2>4. \A t \in Servers :
          streaming'[t] = IF t = s /\ o.answer.more THEN NewId(c) ELSE 0
    BY <1>2, <1>3, <2>2, <2>3
  <2> QED
    BY <1>5, <1>9, <2>1, <2>2, <2>4
<1>11. CASE ReadTo(o, j)
  <2>1. /\ ReadMore(o, open, streaming, s, k.id, k.opt)
        /\ k.id \in DOMAIN open /\ open[k.id].server = s
        /\ AttemptDone(o.answer, Asked, j, c)
    BY <1>11 DEF ReadTo
  <2>2. /\ o.answer.more \in BOOLEAN /\ (o.answer.more => k.opt)
        /\ o.answer.more => o.answer.id = k.id
        /\ o.streaming =
             [streaming EXCEPT ![s] = IF o.answer.more THEN k.id ELSE 0]
    BY <2>1, Zenon DEF ReadMore, ReadsTo
  <2>3. \A t \in Servers : t # s => streaming[t] = 0
    BY <1>4
  <2>4. \A t \in Servers :
          streaming'[t] = IF t = s /\ o.answer.more THEN k.id ELSE 0
    BY <1>2, <1>3, <2>2, <2>3
  <2> QED
    BY <1>5, <1>9, <2>1, <2>2, <2>4
<1> QED
  BY <1>1, <1>7, <1>8, <1>10, <1>11

(* The aggregate command is not sent while anything streams.               *)
LEMMA AggregatedOne ==
  ASSUME IInv, OneStream(in_exhaust, cursor, streaming), ~crossed, Aggregated
  PROVE  OneStream(in_exhaust, cursor, streaming)' /\ ~crossed'
<1> DEFINE s == call.loop.server
<1>1. PICK o : /\ AtAggregate(s) /\ Takes(o) /\ ~in_exhaust
               /\ crossed' = (crossed \/ Crosses(s, 0))
               /\ AggregateRefused(o) \/ \E j : AggregateMade(o, j)
  BY AggregatedCases
<1>2. s \in Servers /\ in_exhaust' = in_exhaust /\ streaming' = o.streaming
  BY <1>1 DEF AtAggregate, Takes
<1>3. streaming \in [Servers -> Nat]
  BY DEF IInv, TypeOK
<1>4. \A t \in Servers : streaming[t] = 0
  BY <1>1 DEF OneStream
<1>5. ~crossed'
  BY <1>1, <1>2, <1>4 DEF Crosses
<1>6. CASE AggregateRefused(o)
  <2>1. streaming' = [streaming EXCEPT ![s] = 0]
    BY <1>2, <1>6 DEF AggregateRefused, Dropped
  <2>2. \A t \in Servers : streaming'[t] = 0
    BY <1>3, <1>4, <2>1
  <2> QED
    BY <1>1, <1>2, <1>5, <2>2, NoneStreams
<1>7. CASE \E j : AggregateMade(o, j)
  <2>1. PICK p : Opened(o, open, streaming, s, "watch", p, NewId(W), W, FALSE)
    BY <1>7 DEF AggregateMade
  <2>2. o.streaming = streaming
    BY <2>1, Zenon DEF Opened
  <2> QED
    BY <1>1, <1>2, <1>4, <1>5, <2>2, NoneStreams
<1> QED
  BY <1>1, <1>6, <1>7

(* Each step with one find.                                                *)
LEMMA StepOne ==
  ASSUME IInv, Steps, Streaming, OneFind, ~crossed,
         OneStream(in_exhaust, cursor, streaming)
  PROVE  OneStream(in_exhaust, cursor, streaming)' /\ ~crossed'
<1>1. streaming \in [Servers -> Nat] /\ cursor \in [Handles -> Cursors]
  BY DEF IInv, TypeOK
<1>2. CASE Sidestep
  <2>1. PICK c \in Handles : \E j : Aside(c, j)
    BY <1>2 DEF Sidestep
  <2>2. PICK j : Aside(c, j)
    BY <2>1
  <2>3. /\ UNCHANGED <<streaming, in_exhaust, crossed>>
        /\ cursor' = [cursor EXCEPT ![c] = j]
        /\ j.id = cursor[c].id /\ j.in_exhaust = cursor[c].in_exhaust
    BY <2>2 DEF Aside, Quiet
  <2> QED
    BY <2>3, OneStreamKept
<1>3. CASE \E t \in BOOLEAN : \E j : Unanswered(t, j)
  <2>0. PICK t \in BOOLEAN : \E j : Unanswered(t, j)
    BY <1>3
  <2>1. PICK j : Unanswered(t, j)
    BY <2>0
  <2> DEFINE c == call.c
             s == call.loop.server
             b == [cursor[call.c] EXCEPT !.timed_out = t]
  <2>2. /\ c \in Handles /\ Lost(s, cursor[c].id)
        /\ UNCHANGED <<in_exhaust, crossed>>
        /\ cursor' = [cursor EXCEPT ![c] = j]
        /\ AttemptOver(ErrorAnswer(NetworkError), b, j, c)
    BY <2>1 DEF Unanswered
  <2>3. b.id = cursor[c].id /\ b.in_exhaust = cursor[c].in_exhaust
    BY <1>1, <2>2 DEF Cursors
  <2>4. j.id = cursor[c].id /\ j.in_exhaust = cursor[c].in_exhaust
    BY <2>2, <2>3 DEF AttemptOver, SameCursor
  <2>5. \A u \in Servers : streaming'[u] \in {0, streaming[u]}
    BY <1>1, <2>2 DEF Lost
  <2> QED
    BY <2>2, <2>4, <2>5, OneStreamKept
<1>4. CASE \E c \in Handles : CutOff(c)
  <2>1. PICK c \in Handles : CutOff(c)
    BY <1>4
  <2>2. crossed' = crossed
    BY <2>1 DEF CutOff
  <2> QED
    BY <2>1, <2>2, CutOffOne
<1>5. CASE UNCHANGED <<in_exhaust, streaming, cursor, crossed>>
  BY <1>5 DEF OneStream
<1>6. CASE (Write \/ Reap) /\ UNCHANGED cursorVars
  BY <1>5, <1>6 DEF Write, Reap, cursorVars
<1>7. CASE UNCHANGED vars
  BY <1>5, <1>7 DEF vars, serverVars, cursorVars
<1>8. CASE Kill \/ KillFails
  BY <1>8, KillOne
<1>9. CASE Answered
  BY <1>9, AnsweredOne
<1>10. CASE Aggregated
  BY <1>10, AggregatedOne
<1>11. CASE AggregateLost
  <2>1. /\ UNCHANGED <<in_exhaust, crossed, cursor>>
        /\ Lost(call.loop.server, 0)
    BY <1>11 DEF AggregateLost, AtAggregate, AggregateOver
  <2>2. \A u \in Servers : streaming'[u] \in {0, streaming[u]}
    BY <1>1, <2>1 DEF Lost
  <2> QED
    BY <2>1, <2>2 DEF OneStream
<1> QED
  BY <1>2, <1>3, <1>4, <1>6, <1>7, <1>8, <1>9, <1>10, <1>11 DEF Steps

(* A client that has one find and a change stream reads no reply for a     *)
(* command it does not answer: client->in_exhaust keeps the commands of    *)
(* the stream, and killCursors, away while the find streams.  To cross     *)
(* replies it takes a second find.                                         *)
THEOREM OneFindNotCrossed ==
  ASSUME OneFind PROVE Spec => []RepliesNotCrossed
<1> DEFINE XInv == ~crossed /\ OneStream(in_exhaust, cursor, streaming)
<1>1. Init => XInv
  BY DEF Init, CursorInit, ServerInit, OneStream
<1>2. IInv /\ (RepliesNotCrossed => Streaming) /\ XInv /\ [Next]_vars => XInv'
  BY NextSteps, StepOne, OneFind DEF RepliesNotCrossed
<1>3. XInv => RepliesNotCrossed
  BY DEF RepliesNotCrossed
<1> QED
  BY <1>1, <1>2, <1>3, StreamInductive, StreamsAgree, PTL DEF Spec

----------------------------------------------------------------------------
(* mongoc_cursor_next, wherever it leads.                                  *)
LEMMA EnterNextOnward ==
  ASSUME IInv, NEW c \in Handles, EnterNext(c)
  PROVE  Onward(call, call', c)
<1> DEFINE k == cursor[c]
<1>1. k \in Cursors /\ call \in Calls
  BY DEF IInv, TypeOK
<1>2. CASE Failed(k)
  <2>1. Returns(c, k, 0)
    BY <1>2 DEF EnterNext
  <2> QED
    BY <1>1, <2>1, ReturnsOnward
<1>3. CASE ~Failed(k) /\ (k.state = "Done" \/ (in_exhaust /\ ~k.in_exhaust))
  <2>1. Returns(c, [k EXCEPT !.error = Local], 0)
    BY <1>3 DEF EnterNext
  <2> QED
    BY <1>1, <2>1, ReturnsOnward
<1>4. CASE ~Failed(k) /\ ~(k.state = "Done" \/ (in_exhaust /\ ~k.in_exhaust))
  <2>1. Proceed(c, k, FALSE)
    BY <1>4 DEF EnterNext
  <2> HIDE DEF k
  <2> QED
    BY <1>1, <2>1, ProceedOnward
<1> QED
  BY <1>2, <1>3, <1>4

(* A step of cursor c after which it is j: a server cursor is the one it   *)
(* read, or was open before, and then in reach of c only if it still is.   *)
Tracks(c, j) ==
  /\ cursor' = [cursor EXCEPT ![c] = j]
  /\ \A i \in DOMAIN open' :
       \/ i = j.id /\ open'[i].server = j.server
       \/ /\ i \in DOMAIN open /\ open'[i].server = open[i].server
          /\ cursor[c].id = i /\ cursor[c].server = open[i].server =>
               j.id = i /\ j.server = cursor[c].server

(* Such a step puts no server cursor out of reach.                         *)
LEMMA TracksReach ==
  ASSUME IInv, IInv', NEW c \in Handles, NEW j, Tracks(c, j),
         NEW id \in OutOfReach'
  PROVE  id \in OutOfReach
<1>1. /\ cursor \in [Handles -> Cursors] /\ id # 0 /\ id \in DOMAIN open'
  BY DEF IInv, TypeOK, OutOfReach
<1>2. cursor'[c] = j /\ \A d \in Handles : d # c => cursor'[d] = cursor[d]
  BY <1>1 DEF Tracks
<1>3. \A d \in Handles :
        ~(/\ cursor'[d].live /\ cursor'[d].id = id
          /\ cursor'[d].server = open'[id].server)
  BY DEF OutOfReach
<1>4. j.id = id => j.live
  <2>1. NoCursor.id = 0
    BY DEF NoCursor, NewCursor
  <2> QED
    BY <1>1, <1>2, <2>1 DEF IInv, Life
<1>5. ~(id = j.id /\ open'[id].server = j.server)
  BY <1>2, <1>3, <1>4
<1>6. /\ id \in DOMAIN open /\ open'[id].server = open[id].server
      /\ ~(cursor[c].id = id /\ cursor[c].server = open[id].server)
  BY <1>1, <1>5 DEF Tracks
<1>7. ASSUME NEW d \in Handles
      PROVE  ~(/\ cursor[d].live /\ cursor[d].id = id
               /\ cursor[d].server = open[id].server)
  BY <1>2, <1>3, <1>6
<1> QED
  BY <1>6, <1>7 DEF OutOfReach

(* What a step of cursor c that opens nothing puts out of reach is its own *)
(* server cursor.                                                          *)
LEMMA ReachLost ==
  ASSUME IInv, NEW c \in Handles, NEW j, cursor' = [cursor EXCEPT ![c] = j],
         \A i \in DOMAIN open' :
           i \in DOMAIN open /\ open'[i].server = open[i].server,
         NEW id \in OutOfReach' \ OutOfReach
  PROVE  id = cursor[c].id
<1>1. cursor \in [Handles -> Cursors] /\ id \in DOMAIN open'
  BY DEF IInv, TypeOK, OutOfReach
<1>2. \A d \in Handles : d # c => cursor'[d] = cursor[d]
  BY <1>1
<1>3. PICK d \in Handles : /\ cursor[d].live /\ cursor[d].id = id
                           /\ cursor[d].server = open[id].server
  BY <1>1 DEF OutOfReach
<1>4. ~(/\ cursor'[d].live /\ cursor'[d].id = id
        /\ cursor'[d].server = open'[id].server)
  BY DEF OutOfReach
<1>5. d = c
  BY <1>1, <1>2, <1>3, <1>4
<1> QED
  BY <1>3, <1>5

(* Cursors are closed, or none.                                            *)
LEMMA ClosedShrinks ==
  ASSUME IInv, NEW ids, open' = open \/ open' = Remove(ids)
  PROVE  \A i \in DOMAIN open' :
           i \in DOMAIN open /\ open'[i].server = open[i].server
<1>1. Shrinks(open, Remove(ids))
  BY RemoveShrinks, OpenTyped DEF IInv
<1>2. CASE open' = open
  BY <1>2
<1>3. CASE open' = Remove(ids)
  BY <1>1, <1>3 DEF Shrinks
<1> QED
  BY <1>2, <1>3

(* A cursor keeps its identity and server while cursors are closed.        *)
LEMMA ShrinkTracks ==
  ASSUME IInv, NEW c \in Handles, NEW j,
         cursor' = [cursor EXCEPT ![c] = j],
         j.id = cursor[c].id, j.id # 0 => j.server = cursor[c].server,
         \A i \in DOMAIN open' :
           i \in DOMAIN open /\ open'[i].server = open[i].server
  PROVE  Tracks(c, j)
<1>1. 0 \notin DOMAIN open
  BY DEF IInv, TypeOK
<1> QED
  BY <1>1 DEF Tracks

(* The same when no cursor changes.                                        *)
LEMMA NoneTracks ==
  ASSUME IInv, cursor' = cursor,
         \A i \in DOMAIN open' :
           i \in DOMAIN open /\ open'[i].server = open[i].server
  PROVE  \E c \in Handles : \E j : Tracks(c, j)
<1>1. W \in Handles /\ cursor \in [Handles -> Cursors]
  BY StreamHandle DEF IInv, TypeOK
<1>2. cursor' = [cursor EXCEPT ![W] = cursor[W]]
  BY <1>1
<1>3. Tracks(W, cursor[W])
  BY <1>1, <1>2, ShrinkTracks
<1> QED
  BY <1>1, <1>3

(* A cursor is gone, and so is what it read, unless that is elsewhere.     *)
LEMMA GoneTracks ==
  ASSUME NEW c \in Handles, cursor' = [cursor EXCEPT ![c] = NoCursor],
         \A i \in DOMAIN open' :
           i \in DOMAIN open /\ open'[i].server = open[i].server,
         cursor[c].id \in DOMAIN open' =>
           open[cursor[c].id].server # cursor[c].server
  PROVE  Tracks(c, NoCursor)
BY DEF Tracks

(* A cursor is opened.                                                     *)
LEMMA OpenedTracks ==
  ASSUME IInv, NEW c \in Handles, NEW s \in Servers, NEW kind, NEW p, NEW sess,
         NEW ex, NEW o, NEW j,
         Opened(o, open, streaming, s, kind, p, NewId(c), sess, ex),
         open' = o.open, cursor' = [cursor EXCEPT ![c] = j],
         cursor[c].id = 0, j.id = o.answer.id, j.server = s
  PROVE  Tracks(c, j)
<1> DEFINE id == NewId(c)
<1>1. id # 0 /\ 0 \notin DOMAIN open
  BY NewIdFresh DEF IInv, TypeOK
<1> HIDE DEF id
<1>2. PICK q \in Ends(kind, p) :
        /\ ReadsTo(o.answer, o.open, id, kind, p, q)
        /\ \A i \in DOMAIN o.open : i # id => Keeps(open, o.open, i)
        /\ id \in DOMAIN o.open => o.open[id] =
             [server |-> s, kind |-> kind, pos |-> q, sess |-> sess]
  BY Zenon DEF Opened, id
<1>3. id \in DOMAIN o.open => j.id = id /\ o.open[id].server = s
  BY <1>2 DEF ReadsTo
<1>4. \A i \in DOMAIN o.open : i # id => i \in DOMAIN open /\ o.open[i] = open[i]
  BY <1>2 DEF Keeps
<1> QED
  BY <1>1, <1>3, <1>4 DEF Tracks

(* A killCursors command closes what it is for at the server it goes to;   *)
(* one that is not sent, or fails, leaves at most that.                    *)
LEMMA KillLeaves ==
  ASSUME IInv, IInv', Kill \/ KillFails PROVE LeavesOnly
<1> DEFINE c == call.c
           k == cursor[c]
<1>1. /\ c \in Handles /\ call.at = "kill"
      /\ cursor' = [cursor EXCEPT ![c] = NoCursor]
  BY KillIsOver DEF KillOver
<1>2. OpenType(open)
  BY OpenTyped DEF IInv
<1>3. CASE Kill
  <2>1. open' = Remove(KilledBy(k))
    BY <1>3 DEF Kill
  <2>2. /\ DOMAIN open' = DOMAIN open \ KilledBy(k) /\ Shrinks(open, open')
    BY <1>2, <2>1, RemoveShrinks
  <2>3. \A i \in DOMAIN open' :
          i \in DOMAIN open /\ open'[i].server = open[i].server
    BY <2>2 DEF Shrinks
  <2>4. k.id \in DOMAIN open' => open[k.id].server # k.server
    BY <2>2 DEF KilledBy
  <2>5. Tracks(c, NoCursor)
    BY <1>1, <2>3, <2>4, GoneTracks
  <2> QED
    BY <1>1, <2>5, TracksReach DEF LeavesOnly
<1>4. CASE KillFails
  <2>1. in_exhaust \/ faults' = faults + 1
    BY <1>4 DEF KillFails, Fault
  <2>2. open' = open \/ \E ids : open' = Remove(ids)
    BY <1>4 DEF KillFails
  <2>3. \A i \in DOMAIN open' :
          i \in DOMAIN open /\ open'[i].server = open[i].server
    BY <2>2, ClosedShrinks
  <2>4. \A id \in OutOfReach' \ OutOfReach : id = cursor[c].id
    BY <1>1, <2>3, ReachLost
  <2> QED
    BY <1>1, <2>1, <2>4 DEF LeavesOnly
<1> QED
  BY <1>3, <1>4

(* A find in exhaust is destroyed: its connection is closed, unless the    *)
(* server has closed the cursor before.                                    *)
LEMMA CutOffTracks ==
  ASSUME IInv, Streaming, NEW c \in Handles, CutOff(c)
  PROVE  Tracks(c, NoCursor)
<1> DEFINE k == cursor[c]
<1>1. /\ k.in_exhaust /\ cursor' = [cursor EXCEPT ![c] = NoCursor]
      /\ IF k.state # "Done" THEN Disconnected(k.server)
                             ELSE UNCHANGED <<open, streaming>>
  BY DEF CutOff
<1>2. OpenType(open)
  BY OpenTyped DEF IInv
<1>3. k.id \in DOMAIN open => k.state # "Done" /\ streaming[k.server] = k.id
  BY <1>1, CursorStreams
<1>4. CASE k.state = "Done"
  <2>1. open' = open /\ k.id \notin DOMAIN open
    BY <1>1, <1>3, <1>4
  <2> QED
    BY <1>1, <2>1, GoneTracks
<1>5. CASE k.state # "Done"
  <2>1. open' = Remove({streaming[k.server]})
    BY <1>1, <1>5 DEF Disconnected
  <2>2. /\ DOMAIN open' = DOMAIN open \ {streaming[k.server]}
        /\ \A i \in DOMAIN open' : open'[i] = open[i]
    BY <1>2, <2>1, RemoveShrinks DEF Shrinks
  <2> QED
    BY <1>1, <1>3, <2>2, GoneTracks
<1> QED
  BY <1>4, <1>5

(* A command that is answered.                                             *)
LEMMA AnsweredTracks ==
  ASSUME IInv, Answered
  PROVE  \E c \in Handles : \E j : Tracks(c, j)
<1> DEFINE c == call.c
           k == cursor[c]
           s == call.loop.server
<1>1. PICK o, j : /\ Replied(o, j)
                  /\ \/ RefusedTo(o, j) \/ MissingTo(o, j)
                     \/ FoundTo(o, j) \/ ReadTo(o, j)
  BY AnsweredCases
<1>2. /\ c \in Handles /\ s \in Servers /\ k.server = s
      /\ open' = o.open /\ cursor' = [cursor EXCEPT ![c] = j]
  BY <1>1 DEF Replied, Takes
<1>3. k \in Cursors /\ OpenType(open)
  BY <1>2, OpenTyped DEF IInv, TypeOK
<1>4. Asked.id = k.id /\ Asked.server = s
  BY <1>2, <1>3 DEF Asked, Cursors
<1>5. ASSUME AttemptOver(o.answer, Asked, j, c)
      PROVE  j.id = k.id /\ j.server = k.server
  BY <1>2, <1>4, <1>5 DEF AttemptOver, SameCursor
<1>6. ASSUME AttemptDone(o.answer, Asked, j, c)
      PROVE  j.id = o.answer.id /\ j.server = s
  BY <1>4, <1>6 DEF AttemptDone
<1>7. CASE RefusedTo(o, j)
  <2>1. open' = open \/ open' = Remove({k.id})
    BY <1>2, <1>7 DEF RefusedTo, Dropped
  <2>2. \A i \in DOMAIN open' :
          i \in DOMAIN open /\ open'[i].server = open[i].server
    BY <2>1, ClosedShrinks
  <2> QED
    BY <1>2, <1>5, <1>7, <2>2, ShrinkTracks DEF RefusedTo
<1>8. CASE MissingTo(o, j)
  BY <1>2, <1>5, <1>8, ShrinkTracks DEF MissingTo
<1>9. CASE FoundTo(o, j)
  <2>1. /\ Opened(o, open, streaming, s, "find", 0, NewId(c), c, k.opt)
        /\ AttemptDone(o.answer, Asked, j, c) /\ k.id = 0
    BY <1>9 DEF FoundTo
  <2>2. j.id = o.answer.id /\ j.server = s
    BY <1>6, <2>1
  <2> HIDE DEF c, s
  <2> QED
    BY <1>2, <2>1, <2>2, OpenedTracks
<1>10. CASE ReadTo(o, j)
  <2> DEFINE id == k.id
  <2>1. /\ ReadMore(o, open, streaming, s, id, k.opt)
        /\ id \in DOMAIN open /\ open[id].server = s
        /\ AttemptDone(o.answer, Asked, j, c)
    BY <1>10 DEF ReadTo
  <2>2. open[id] \in ServerCursors
    BY <1>3, <2>1 DEF OpenType
  <2>3. \A i \in DOMAIN o.open : i # id => i \in DOMAIN open /\ o.open[i] = open[i]
    BY <2>1 DEF ReadMore, Keeps
  <2>4. id \in DOMAIN o.open =>
          o.answer.id = id /\ \E q : o.open[id] = [open[id] EXCEPT !.pos = q]
    BY <2>1, Zenon DEF ReadMore, ReadsTo
  <2>5. id \in DOMAIN o.open => j.id = id /\ o.open[id].server = j.server
    BY <1>6, <2>1, <2>2, <2>4 DEF ServerCursors
  <2>6. Tracks(c, j)
    BY <1>2, <2>3, <2>5 DEF Tracks
  <2> QED
    BY <1>2, <2>6
<1> QED
  BY <1>1, <1>7, <1>8, <1>9, <1>10

(* A command without a reply.                                              *)
LEMMA LostShrinks ==
  ASSUME IInv, NEW s \in Servers, NEW id \in Nat, Lost(s, id)
  PROVE  \A i \in DOMAIN open' :
           i \in DOMAIN open /\ open'[i].server = open[i].server
<1>1. Touches(open, open', id)
  BY LostIs DEF IInv
<1> QED
  BY <1>1 DEF Touches, Keeps

(* The aggregate command is answered.                                      *)
LEMMA AggregatedTracks ==
  ASSUME IInv, Aggregated, call.loop.server = call.server
  PROVE  \E c \in Handles : \E j : Tracks(c, j)
<1> DEFINE s == call.loop.server
<1>1. PICK o : /\ AtAggregate(s) /\ Takes(o)
               /\ AggregateRefused(o) \/ \E j : AggregateMade(o, j)
  BY AggregatedCases
<1>2. /\ W \in Handles /\ s \in Servers /\ cursor[W].id = 0 /\ open' = o.open
      /\ s = call.server
  BY <1>1 DEF AtAggregate, Takes
<1>3. OpenType(open)
  BY OpenTyped DEF IInv
<1>4. CASE AggregateRefused(o)
  <2>1. cursor' = cursor /\ (open' = open \/ open' = Remove({0}))
    BY <1>2, <1>4 DEF AggregateRefused, AggregateOver, Dropped
  <2>2. \A i \in DOMAIN open' :
          i \in DOMAIN open /\ open'[i].server = open[i].server
    BY <2>1, ClosedShrinks
  <2> QED
    BY <2>1, <2>2, NoneTracks
<1>5. ASSUME NEW j, AggregateMade(o, j)
      PROVE  Tracks(W, j)
  <2>1. PICK p : Opened(o, open, streaming, s, "watch", p, NewId(W), W, FALSE)
    BY <1>5 DEF AggregateMade
  <2>2. /\ cursor' = [cursor EXCEPT ![W] = j] /\ j.id = o.answer.id
        /\ j.server = s
    BY <1>2, <1>5 DEF AggregateMade, AggregateDone
  <2> HIDE DEF s
  <2> QED
    BY <1>2, <2>1, <2>2, OpenedTracks
<1> QED
  BY <1>1, <1>2, <1>4, <1>5

(* Each step, while replies do not cross.                                  *)
LEMMA StepLeaves ==
  ASSUME IInv, IInv', Steps, Streaming PROVE LeavesOnly
<1>0. ASSUME \E c \in Handles : \E j : Tracks(c, j) PROVE LeavesOnly
  BY <1>0, TracksReach DEF LeavesOnly
<1>1. CASE Sidestep
  <2>1. PICK c \in Handles : \E j : Aside(c, j)
    BY <1>1 DEF Sidestep
  <2>2. PICK j : Aside(c, j)
    BY <2>1
  <2>3. /\ open' = open /\ cursor' = [cursor EXCEPT ![c] = j]
        /\ j.id = cursor[c].id
        /\ j.id # 0 => j.server = cursor[c].server \/ call.at = "select"
        /\ call.at = "select" => call.c = c
    BY <2>2 DEF Aside, Quiet
  <2>4. CASE j.id # 0 => j.server = cursor[c].server
    <3>1. Tracks(c, j)
      BY <2>3, <2>4, ShrinkTracks
    <3> QED
      BY <1>0, <3>1
  <2>5. CASE call.at = "select"
    <3>1. \A id \in OutOfReach' \ OutOfReach : id = cursor[c].id
      BY <2>3, ReachLost
    <3> QED
      BY <2>3, <2>5, <3>1 DEF LeavesOnly
  <2> QED
    BY <2>3, <2>4, <2>5
<1>2. CASE \E t \in BOOLEAN : \E j : Unanswered(t, j)
  <2>0. PICK t \in BOOLEAN : \E j : Unanswered(t, j)
    BY <1>2
  <2>1. PICK j : Unanswered(t, j)
    BY <2>0
  <2> DEFINE c == call.c
             s == call.loop.server
             b == [cursor[call.c] EXCEPT !.timed_out = t]
  <2>2. /\ c \in Handles /\ s \in Servers /\ Lost(s, cursor[c].id)
        /\ cursor' = [cursor EXCEPT ![c] = j]
        /\ AttemptOver(ErrorAnswer(NetworkError), b, j, c)
    BY <2>1 DEF Unanswered
  <2>3. cursor[c] \in Cursors /\ cursor[c].id \in Nat
    BY <2>2 DEF IInv, TypeOK, Cursors
  <2>4. b.id = cursor[c].id /\ b.server = cursor[c].server
    BY <2>3 DEF Cursors
  <2>5. j.id = cursor[c].id /\ j.server = cursor[c].server
    BY <2>2, <2>4 DEF AttemptOver, SameCursor
  <2>6. \A i \in DOMAIN open' :
          i \in DOMAIN open /\ open'[i].server = open[i].server
    BY <2>2, <2>3, LostShrinks
  <2> QED
    BY <1>0, <2>2, <2>5, <2>6, ShrinkTracks
<1>3. CASE \E c \in Handles : CutOff(c)
  BY <1>0, <1>3, CutOffTracks
<1>4. CASE UNCHANGED <<open, cursor>>
  BY <1>0, <1>4, NoneTracks
<1>5. CASE Write /\ UNCHANGED cursorVars
  BY <1>4, <1>5 DEF Write, cursorVars
<1>6. CASE Reap /\ UNCHANGED cursorVars
  <2>1. cursor' = cursor /\ \E id : open' = Remove({id})
    BY <1>6 DEF Reap, cursorVars
  <2>2. \A i \in DOMAIN open' :
          i \in DOMAIN open /\ open'[i].server = open[i].server
    BY <2>1, ClosedShrinks
  <2> QED
    BY <1>0, <2>1, <2>2, NoneTracks
<1>7. CASE UNCHANGED vars
  BY <1>4, <1>7 DEF vars, serverVars, cursorVars
<1>8. CASE Kill \/ KillFails
  BY <1>8, KillLeaves
<1>9. CASE Answered
  BY <1>0, <1>9, AnsweredTracks
<1>10. CASE Aggregated
  <2>1. CASE call.loop.server = call.server
    BY <1>0, <1>10, <2>1, AggregatedTracks
  <2>2. CASE call.loop.server # call.server
    BY <1>10, <2>2 DEF LeavesOnly, Aggregated
  <2> QED
    BY <2>1, <2>2
<1>11. CASE AggregateLost
  <2>1. /\ cursor' = cursor /\ call.loop.server \in Servers
        /\ Lost(call.loop.server, 0)
    BY <1>11 DEF AggregateLost, AtAggregate, AggregateOver
  <2>2. \A i \in DOMAIN open' :
          i \in DOMAIN open /\ open'[i].server = open[i].server
    BY <2>1, LostShrinks
  <2> QED
    BY <1>0, <2>1, <2>2, NoneTracks
<1> QED
  BY <1>1, <1>2, <1>3, <1>5, <1>6, <1>7, <1>8, <1>9, <1>10, <1>11 DEF Steps

(* Until a reply crosses, a server cursor gets out of reach only when a    *)
(* retry goes to another server, or when its killCursors is not sent while *)
(* the client is in exhaust, or fails.                                     *)
THEOREM CursorsNotLeft ==
  Spec => [][RepliesNotCrossed => LeavesOnly]_<<serverVars, cursorVars>>
<1>1. IInv /\ IInv' /\ (RepliesNotCrossed => Streaming) /\ [Next]_vars
        => [RepliesNotCrossed => LeavesOnly]_<<serverVars, cursorVars>>
  BY NextSteps, StepLeaves
<1> QED
  BY <1>1, StreamInductive, StreamsAgree, PTL DEF Spec

----------------------------------------------------------------------------
(* A stream's cursor that will be opened again for what has happened to it *)
(* already: it failed with an error to resume after, other than a timeout, *)
(* or it is not open at the server that it asks.                           *)
Doomed(k, o) ==
  IF Failed(k) THEN ~k.timed_out /\ IsResumableError(k.error)
               ELSE k.id # 0 /\ (k.id \in DOMAIN o => o[k.id].server # k.server)

(* The cursor was opened again by the call, which is using it.             *)
Reopened(cl) == cl.resume /\ cl.at \in Commands \cup {"next", "advanced"}

(* Each time the cursor was opened again but the last has been paid for by *)
(* a timeout, a failure or a retry at another server; the last too, once   *)
(* its cursor is doomed.                                                   *)
Bounded ==
  /\ call.timeouts \in 0..1
  /\ ~call.resume => call.resumes = 0 /\ call.timeouts = 0
  /\ call.resumes <= 1 + call.timeouts + faults + call.moved
  /\ Reopened(call) /\ Doomed(cursor[W], open) =>
       call.resumes <= call.timeouts + faults + call.moved

(* What a step does to that account.                                       *)
Counts ==
  \/ call' = Idle /\ faults' \in {faults, faults + 1}
  \/ SameCount(call, call') /\ faults' = faults + 1
  \/ OneMove(call, call') /\ faults' = faults
  \/ /\ SameCount(call, call') /\ faults' = faults
     /\ Reopened(call') /\ Doomed(cursor'[W], open') =>
          Reopened(call) /\ Doomed(cursor[W], open)
  \/ Resume

(* Such a step keeps within the bound.                                     *)
LEMMA CountsBounded ==
  ASSUME IInv, Bounded, Counts PROVE Bounded'
<1>1. /\ faults \in Nat /\ call \in Calls /\ call.timeouts \in Nat
      /\ call.resumes \in Nat /\ call.resume \in BOOLEAN /\ call.moved \in Nat
  <2>1. TypeOK /\ MaxFaults \in Nat
    BY CursorServerAssumption DEF IInv
  <2> QED
    BY <2>1 DEF TypeOK, Calls
<1>2. CASE call' = Idle /\ faults' \in {faults, faults + 1}
  <2>1. /\ Idle.timeouts = 0 /\ Idle.resumes = 0 /\ Idle.resume = FALSE
        /\ Idle.moved = 0
    BY DEF Idle
  <2>2. faults' \in Nat
    BY <1>1, <1>2
  <2>3. /\ call'.timeouts = 0 /\ call'.resumes = 0 /\ call'.resume = FALSE
        /\ call'.moved = 0
    BY <1>2, <2>1
  <2>4. ~Reopened(call')
    BY <2>3 DEF Reopened
  <2>5. call'.timeouts \in 0..1
    BY <2>3
  <2>6. call'.resumes <= 1 + call'.timeouts + faults' + call'.moved
    <3>1. \A f \in Nat : 0 <= 1 + 0 + f + 0
      OBVIOUS
    <3>2. 0 <= 1 + 0 + faults' + 0
      BY <2>2, <3>1, Zenon
    <3> QED
      BY <2>3, <3>2, Zenon
  <2>7. ~call'.resume => call'.resumes = 0 /\ call'.timeouts = 0
    BY <2>3
  <2>8. Reopened(call') /\ Doomed(cursor'[W], open') =>
          call'.resumes <= call'.timeouts + faults' + call'.moved
    BY <2>4
  <2> QED
    BY <2>5, <2>6, <2>7, <2>8 DEF Bounded
<1>3. CASE SameCount(call, call') /\ faults' = faults + 1
  BY <1>1, <1>3 DEF Bounded, SameCount
<1>6. CASE OneMove(call, call') /\ faults' = faults
  BY <1>1, <1>6 DEF Bounded, OneMove
<1>4. CASE /\ SameCount(call, call') /\ faults' = faults
           /\ Reopened(call') /\ Doomed(cursor'[W], open') =>
                Reopened(call) /\ Doomed(cursor[W], open)
  BY <1>1, <1>4 DEF Bounded, SameCount
<1>5. CASE Resume
  <2> DEFINE k == cursor[W]
             n == Timeouts(k)
  <2>1. /\ call.at = "advanced" /\ Failed(k) /\ n < 2 /\ IsResumableError(k.error)
    BY <1>5 DEF Resume, Stop, Resumes
  <2>2. /\ call' = [Idle EXCEPT !.at = "discard", !.resume = TRUE,
                                !.timeouts = n, !.resumes = call.resumes + 1,
                                !.moved = call.moved]
        /\ faults' = faults
    BY <1>5 DEF Resume, serverVars
  <2>3. /\ call'.at = "discard" /\ call'.resume = TRUE /\ call'.timeouts = n
        /\ call'.resumes = call.resumes + 1 /\ call'.moved = call.moved
    BY <2>2 DEF Idle
  <2>4. ~Reopened(call')
    BY <2>3 DEF Reopened, Commands
  <2>5. CASE ~call.resume
    <3>1. n = call.timeouts
      BY <2>5 DEF Timeouts
    <3> HIDE DEF n
    <3> QED
      BY <1>1, <2>2, <2>3, <2>4, <2>5, <3>1 DEF Bounded
  <2>6. CASE call.resume /\ k.timed_out
    <3>1. n = call.timeouts + 1
      BY <1>1, <2>6 DEF Timeouts, Bounded
    <3> HIDE DEF n
    <3> QED
      BY <1>1, <2>1, <2>2, <2>3, <2>4, <3>1 DEF Bounded
  <2>7. CASE call.resume /\ ~k.timed_out
    <3>1. n = call.timeouts
      BY <2>7 DEF Timeouts
    <3>2. Reopened(call) /\ Doomed(k, open)
      BY <2>1, <2>7 DEF Reopened, Doomed
    <3> HIDE DEF n
    <3> QED
      BY <1>1, <2>2, <2>3, <2>4, <3>1, <3>2 DEF Bounded
  <2> QED
    BY <1>1, <2>5, <2>6, <2>7
<1> QED
  BY <1>2, <1>3, <1>4, <1>5, <1>6 DEF Counts

(* What a server that refuses a command says is to be resumed after only   *)
(* when it is a failure that counts.                                       *)
LEMMA NotResumable ==
  /\ ~IsResumableError(OverloadError) /\ ~IsResumableError(OtherError)
  /\ \A loop : loop.elig \in {"none", "overload_only"} =>
       ~Retries(loop, OtherError)
<1>1. /\ OverloadError.network = FALSE /\ OverloadError.code = "other"
      /\ OverloadError.labels = {"SystemOverloaded", "Retryable"}
      /\ OtherError.network = FALSE /\ OtherError.code = "other"
      /\ OtherError.labels = {}
  BY DEF OverloadError, OtherError, ServerError, Reply
<1>2. ~IsResumableError(OverloadError) /\ ~IsResumableError(OtherError)
  BY <1>1 DEF IsResumableError, RetryableCodes
<1>3. \A loop : loop.elig \in {"none", "overload_only"} =>
        ~Retries(loop, OtherError)
  BY <1>1 DEF Retries, IsRetryable, IsOverload
<1> QED
  BY <1>2, <1>3

(* A command of the stream's cursor is answered.                           *)
LEMMA AnsweredCounts ==
  ASSUME IInv, Answered, ~crossed' PROVE Counts
<1> DEFINE c == call.c
           k == cursor[c]
           s == call.loop.server
<1>1. PICK o, j : /\ Replied(o, j)
                  /\ \/ RefusedTo(o, j) \/ MissingTo(o, j)
                     \/ FoundTo(o, j) \/ ReadTo(o, j)
  BY AnsweredCases
<1>2. /\ c \in Handles /\ s \in Servers /\ k.server = s /\ ~Crosses(s, k.id)
      /\ call.at = "send" /\ open' = o.open
      /\ IF o.fault THEN Fault ELSE UNCHANGED faults
      /\ cursor' = [cursor EXCEPT ![c] = j]
  BY <1>1 DEF Replied, Takes
<1>3. /\ k \in Cursors /\ Life(c, k, open, held) /\ ~Failed(k)
      /\ Asking(call, k, in_exhaust) /\ Sending(call, k, held)
      /\ c # W => ~call.resume
      /\ cursor \in [Handles -> Cursors]
  BY <1>2, CommandFacts DEF Commands, TypeOK
<1>4. faults' = faults \/ faults' = faults + 1
  BY <1>2 DEF Fault
<1>5. call' = Idle \/ SameCount(call, call')
  <2>1. CASE AttemptOver(o.answer, Asked, j, c)
    BY <2>1 DEF AttemptOver, Onward
  <2>2. CASE AttemptDone(o.answer, Asked, j, c)
    BY <2>2 DEF AttemptDone, Onward
  <2> QED
    BY <1>1, <2>1, <2>2 DEF RefusedTo, MissingTo, FoundTo, ReadTo
<1>6. ASSUME \/ ~call.resume
             \/ o.fault
             \/ ~Doomed(j, open')
             \/ Doomed(k, open)
      PROVE  Counts
  <2>1. CASE call' = Idle \/ faults' = faults + 1
    BY <1>4, <1>5, <2>1 DEF Counts
  <2>2. CASE SameCount(call, call') /\ faults' = faults /\ ~call.resume
    BY <2>2 DEF Counts, SameCount, Reopened
  <2>3. CASE /\ SameCount(call, call') /\ faults' = faults /\ call.resume
             /\ ~Doomed(j, open') \/ Doomed(k, open)
    <3>1. c = W /\ cursor'[W] = j /\ Reopened(call)
      BY <1>2, <1>3, <2>3 DEF Reopened, Commands
    <3> QED
      BY <2>3, <3>1 DEF Counts
  <2>4. o.fault => faults' = faults + 1
    BY <1>2 DEF Fault
  <2> QED
    BY <1>4, <1>5, <1>6, <2>1, <2>2, <2>3, <2>4
<1>7. CASE c # W
  BY <1>3, <1>6, <1>7
<1>8. CASE c = W
  <2>1. /\ ~in_exhaust /\ streaming[s] = 0 /\ call.cmd = "getMore"
        /\ k.id # 0 /\ call.loop.elig \in {"none", "overload_only"}
    BY <1>2, <1>3, <1>8, StreamHandle DEF Asking, Sending, Crosses, Life
  <2>2. /\ Asked.id = k.id /\ Asked.error = k.error /\ Asked.server = s
    BY <1>2, <1>3 DEF Asked, Cursors
  <2>3. CASE RefusedTo(o, j)
    <3>1. PICK r \in {OverloadError, NotPrimary, OtherError} :
            /\ o.answer = ErrorAnswer(r) /\ o.fault = (r = NotPrimary)
            /\ r = OverloadError => o.open = open
      BY <2>1, <2>3, Zenon DEF RefusedTo, Dropped
    <3>2. o.answer.reply = r /\ ~r.ok
      BY <3>1, ErrorAnswerIs, RepliesTyped
    <3>3. AttemptOver(o.answer, Asked, j, c)
      BY <2>3 DEF RefusedTo
    <3>4. CASE r = NotPrimary
      BY <1>6, <3>1, <3>4
    <3>5. CASE r # NotPrimary /\ ~Retries(call.loop, r)
      <4>1. j.error = r
        BY <1>8, <3>2, <3>3, <3>5 DEF AttemptOver
      <4>2. ~Doomed(j, open')
        BY <3>1, <3>2, <3>5, <4>1, NotResumable DEF Doomed, Failed
      <4> QED
        BY <1>6, <4>2
    <3>6. CASE r # NotPrimary /\ Retries(call.loop, r)
      <4>1. r = OverloadError
        BY <2>1, <3>1, <3>6, NotResumable
      <4>2. j = Asked
        BY <3>2, <3>3, <3>6 DEF AttemptOver
      <4>3. open' = open
        BY <1>2, <3>1, <4>1
      <4>4. Doomed(j, open') => Doomed(k, open)
        BY <1>2, <1>3, <2>2, <4>2, <4>3 DEF Doomed, Failed
      <4> QED
        BY <1>6, <4>4
    <3> QED
      BY <3>4, <3>5, <3>6
  <2>4. CASE MissingTo(o, j)
    <3>1. k.id \in DOMAIN open => open[k.id].server # s
      BY <2>4 DEF MissingTo
    <3>2. Doomed(k, open)
      BY <1>2, <1>3, <2>1, <3>1 DEF Doomed
    <3> QED
      BY <1>6, <3>2
  <2>5. CASE ReadTo(o, j)
    <3>1. /\ ReadMore(o, open, streaming, s, k.id, k.opt)
          /\ k.id \in DOMAIN open /\ open[k.id].server = s
          /\ AttemptDone(o.answer, Asked, j, c)
      BY <2>5 DEF ReadTo
    <3>2. /\ o.answer.id = 0 \/ o.answer.id \in DOMAIN o.open
          /\ o.answer.id \in {0, k.id}
          /\ k.id \in DOMAIN o.open =>
               \E q : o.open[k.id] = [open[k.id] EXCEPT !.pos = q]
      BY <3>1, Zenon DEF ReadMore, ReadsTo
    <3>3. j.id = o.answer.id /\ j.error = k.error /\ j.server = s
      BY <2>2, <3>1 DEF AttemptDone
    <3>4. open[k.id] \in ServerCursors
      BY <3>1, OpenTyped DEF OpenType, IInv
    <3>5. k.id \in DOMAIN o.open => o.open[k.id].server = s
      BY <3>1, <3>2, <3>4 DEF ServerCursors
    <3>6. ~Doomed(j, open')
      BY <1>2, <1>3, <3>2, <3>3, <3>5 DEF Doomed, Failed
    <3> QED
      BY <1>6, <3>6
  <2>6. ~FoundTo(o, j)
    BY <2>1 DEF FoundTo
  <2> QED
    BY <1>1, <2>3, <2>4, <2>5, <2>6
<1> QED
  BY <1>7, <1>8

(* A command of the stream's cursor is not answered: a timeout is counted  *)
(* when the cursor is opened again, anything else at once.                 *)
LEMMA UnansweredCounts ==
  ASSUME IInv, NEW t \in BOOLEAN, NEW j, Unanswered(t, j) PROVE Counts
<1> DEFINE c == call.c
           k == cursor[c]
           b == [k EXCEPT !.timed_out = t]
           a == ErrorAnswer(NetworkError)
<1>1. /\ call.at = "send" /\ c \in Handles
      /\ IF t THEN UNCHANGED faults ELSE Fault
      /\ cursor' = [cursor EXCEPT ![c] = j] /\ AttemptOver(a, b, j, c)
  BY DEF Unanswered
<1>2. /\ k \in Cursors /\ Asking(call, k, in_exhaust)
      /\ Sending(call, k, held) /\ (c # W => ~call.resume)
      /\ cursor \in [Handles -> Cursors]
  BY <1>1, CommandFacts DEF Commands, TypeOK
<1>3. b.timed_out = t
  BY <1>2 DEF Cursors
<1> HIDE DEF b
<1>4. call' = Idle \/ SameCount(call, call')
  BY <1>1 DEF AttemptOver, Onward
<1>5. CASE ~t
  <2>1. faults' = faults + 1
    BY <1>1, <1>5 DEF Fault
  <2> QED
    BY <1>4, <2>1 DEF Counts
<1>6. CASE t /\ c # W
  <2>1. faults' = faults /\ ~call.resume
    BY <1>1, <1>2, <1>6
  <2> QED
    BY <1>4, <2>1 DEF Counts, SameCount, Reopened
<1>7. CASE t /\ c = W
  <2>1. call.cmd = "getMore" /\ call.loop.elig \in {"none", "overload_only"}
    BY <1>2, <1>7, StreamHandle DEF Asking, Sending
  <2>2. a.reply = NetworkError /\ ~NetworkError.ok
    BY ErrorAnswerIs, RepliesTyped
  <2>3. ~Retries(call.loop, a.reply)
    BY <2>1, <2>2, NetworkNotRetried
  <2> HIDE DEF a
  <2>4. j.error = NetworkError /\ j.timed_out = t
    BY <1>1, <1>3, <1>7, <2>2, <2>3 DEF AttemptOver
  <2>5. ~Doomed(j, open')
    BY <1>7, <2>2, <2>4 DEF Doomed, Failed
  <2>6. cursor'[W] = j /\ faults' = faults
    BY <1>1, <1>2, <1>7
  <2> QED
    BY <1>4, <2>5, <2>6 DEF Counts
<1> QED
  BY <1>5, <1>6, <1>7

(* mongoc_cursor_next on the cursor that was opened again.                 *)
LEMMA ResumedCounts == ASSUME IInv, ResumedNext PROVE Counts
<1> DEFINE k == cursor[W]
<1>1. call.at = "next" /\ EnterNext(W)
  BY DEF ResumedNext
<1>2. /\ W \in Handles /\ W \notin Finds /\ k \in Cursors /\ call \in Calls
      /\ cursor \in [Handles -> Cursors]
  BY StreamHandle DEF IInv, TypeOK
<1>3. ~in_exhaust /\ ~Failed(k) /\ k.state = "InBatch" /\ call.resume
  BY <1>1 DEF IInv, StreamState
<1>4. Proceed(W, k, FALSE) /\ UNCHANGED <<open, faults>>
  BY <1>1, <1>3 DEF EnterNext, serverVars
<1> HIDE DEF k
<1>5. PICK j : /\ Moves(j, k) /\ cursor' = [cursor EXCEPT ![W] = j]
               /\ Onward(call, call', W)
  BY <1>2, <1>4, ProceedOnward
<1>6. SameCount(call, call')
  BY <1>2, <1>5 DEF Onward
<1>7. cursor'[W] = j
  BY <1>2, <1>5
<1>8. /\ j.error = k.error /\ j.timed_out = k.timed_out /\ j.id = k.id
      /\ j.server = k.server
  BY <1>5 DEF Moves, SameCursor
<1>9. Doomed(j, open') => Doomed(k, open)
  BY <1>4, <1>8 DEF Doomed, Failed
<1>10. Reopened(call)
  BY <1>1, <1>3 DEF Reopened
<1> QED
  BY <1>4, <1>6, <1>7, <1>9, <1>10 DEF Counts, k

(* A command that is about to be sent, again perhaps.                      *)
LEMMA SendCounts == ASSUME IInv, Fetch \/ RetrySelect PROVE Counts
<1> DEFINE c == call.c
           k == cursor[c]
<1>1. call.at \in Commands /\ UNCHANGED <<open, faults>>
  BY DEF Fetch, RetrySelect, Commands, serverVars
<1>2. /\ c \in Handles /\ k \in Cursors /\ call \in Calls /\ ~Failed(k)
      /\ cursor \in [Handles -> Cursors] /\ (c # W => ~call.resume)
      /\ 0 \notin Servers /\ (k.id # 0 => k.server \in Servers)
  BY <1>1, CommandFacts, CursorAssumption DEF TypeOK, Life
<1>3. ASSUME SameCount(call, call'), cursor'[c].error = k.error,
             cursor'[c].id = k.id, k.id # 0 => cursor'[c].server = k.server
      PROVE  Counts
  <2>1. CASE c # W
    BY <1>1, <1>2, <1>3, <2>1 DEF Counts, SameCount, Reopened
  <2>2. CASE c = W
    <3>1. Doomed(cursor'[W], open') => Doomed(cursor[W], open)
      BY <1>1, <1>2, <1>3, <2>2 DEF Doomed, Failed
    <3>2. Reopened(call') => Reopened(call)
      BY <1>1, <1>3 DEF Reopened, SameCount
    <3> QED
      BY <1>1, <1>3, <3>1, <3>2 DEF Counts
  <2> QED
    BY <2>1, <2>2
<1>4. CASE Fetch
  <2>1. PICK s \in IF k.server # 0 THEN {k.server} ELSE Servers :
          cursor' = [cursor EXCEPT ![c].server = s, ![c].sess = c,
                                   ![c].timed_out = FALSE]
    BY <1>4 DEF Fetch
  <2>2. cursor' = [cursor EXCEPT ![c] = [k EXCEPT !.server = s, !.sess = c,
                                                  !.timed_out = FALSE]]
    BY <1>2, <2>1, AssignedAtOnce
  <2>3. /\ cursor'[c].error = k.error /\ cursor'[c].id = k.id
        /\ cursor'[c].server = s
    BY <1>2, <2>2 DEF Cursors
  <2>4. k.id # 0 => s = k.server
    BY <1>2, <2>1
  <2>5. SameCount(call, call')
    BY <1>2, <1>4 DEF Fetch, SameCount, Calls
  <2> QED
    BY <1>3, <2>3, <2>4, <2>5
<1>5. CASE RetrySelect
  <2>1. PICK s : /\ cursor' = [cursor EXCEPT ![c].server = s]
                 /\ call' = [call EXCEPT !.at = "send", !.loop.server = s,
                               !.moved = IF k.id = 0 \/ k.server = s
                                           THEN @ ELSE @ + 1]
    BY <1>5 DEF RetrySelect
  <2>2. /\ cursor'[c].error = k.error /\ cursor'[c].id = k.id
        /\ cursor'[c].server = s
    BY <1>2, <2>1 DEF Cursors
  <2>3. CASE k.id = 0 \/ k.server = s
    <3>1. SameCount(call, call')
      BY <1>2, <2>1, <2>3 DEF SameCount, Calls
    <3> QED
      BY <1>3, <2>2, <2>3, <3>1
  <2>4. CASE ~(k.id = 0 \/ k.server = s)
    <3>1. OneMove(call, call')
      BY <1>2, <2>1, <2>4 DEF OneMove, Calls
    <3> QED
      BY <1>1, <3>1 DEF Counts
  <2> QED
    BY <2>3, <2>4
<1> QED
  BY <1>4, <1>5

(* Every step keeps the account.                                           *)
LEMMA NextCounts ==
  ASSUME IInv, ~crossed', [Next]_vars PROVE Counts
<1>1. /\ call \in Calls /\ W \in Handles /\ W \notin Finds
      /\ \A c \in Finds : c \in Handles
  BY StreamHandle DEF IInv, TypeOK, Handles
<1>2. call.at = "idle" => call = Idle /\ ~call.resume
  BY DEF IInv, Calling, Idle
<1>3. ASSUME SameCount(call, call'), faults' \in {faults, faults + 1},
             ~call.resume \/ call'.at \notin Commands \cup {"next", "advanced"}
      PROVE  Counts
  BY <1>3 DEF Counts, SameCount, Reopened
<1>4. ASSUME call' = Idle, faults' \in {faults, faults + 1} PROVE Counts
  BY <1>4 DEF Counts
<1>5. ASSUME Fault PROVE faults' \in {faults, faults + 1} /\ faults' = faults + 1
  BY <1>5 DEF Fault
<1>6. ASSUME NEW c \in Handles, EnterNext(c), call.at = "idle" PROVE Counts
  <2>1. Onward(call, call', c) /\ faults' = faults
    BY <1>6, EnterNextOnward DEF EnterNext, serverVars
  <2> QED
    BY <1>2, <1>3, <1>4, <1>6, <2>1 DEF Onward
<1>7. ASSUME NEW st, EndNext(st) PROVE Counts
  BY <1>4, <1>7 DEF EndNext, serverVars
<1>8. ASSUME NEW c \in Handles, Destroy(c) PROVE Counts
  <2>1. faults' = faults
    BY <1>8 DEF Destroy, serverVars
  <2>2. \/ call' = Idle
        \/ call' = [call EXCEPT !.at = "destroyed"]
        \/ call' = [call EXCEPT !.at = "kill", !.c = c]
    BY <1>8 DEF Destroy, Gone
  <2>3. CASE call' = [call EXCEPT !.at = "destroyed"]
    BY <1>1, <1>3, <2>1, <2>3 DEF Calls, SameCount, Commands
  <2>4. CASE call' = [call EXCEPT !.at = "kill", !.c = c]
    BY <1>1, <1>3, <2>1, <2>4 DEF Calls, SameCount, Commands
  <2> QED
    BY <1>4, <2>1, <2>2, <2>3, <2>4
<1>9. CASE Find
  <2>1. call' = call /\ call = Idle /\ faults' = faults
    BY <1>2, <1>9 DEF Find, serverVars
  <2> QED
    BY <1>4, <2>1
<1>10. CASE FindNext
  BY <1>1, <1>6, <1>10 DEF FindNext
<1>11. CASE FindDestroy \/ Discard
  BY <1>1, <1>8, <1>11 DEF FindDestroy, Discard
<1>12. CASE FetchFails \/ RetrySelectFails
  <2>1. /\ call.at \in Commands /\ \E j : Returns(call.c, j, 0)
        /\ faults' = faults + 1
    BY <1>5, <1>12 DEF FetchFails, RetrySelectFails, Fails, Commands
  <2>2. call.c \in Handles
    BY <2>1, CommandFacts
  <2>3. Onward(call, call', call.c)
    BY <1>1, <2>1, <2>2, ReturnsOnward
  <2> QED
    BY <2>1, <2>3 DEF Counts, Onward
<1>13. CASE ConnectionFails
  BY <1>13, UnansweredIs, UnansweredCounts
<1>14. CASE Kill \/ KillFails
  <2>1. KillOver(call.c)
    BY <1>14, KillIsOver
  <2>2. faults' \in {faults, faults + 1}
    BY <1>5, <1>14 DEF Kill, KillFails
  <2>3. call' = Idle \/ (call'.at = "destroyed" /\ SameCount(call, call'))
    BY <2>1 DEF KillOver
  <2> QED
    BY <1>3, <1>4, <2>2, <2>3 DEF Commands
<1>15. CASE Deployment
  <2>1. call' = call /\ cursor' = cursor
    BY <1>15 DEF Deployment, cursorVars
  <2>2. CASE Write
    BY <2>1, <2>2 DEF Write, Counts, SameCount
  <2>3. CASE Reap
    BY <1>5, <2>1, <2>3 DEF Reap, Counts, SameCount
  <2> QED
    BY <1>15, <2>2, <2>3 DEF Deployment
<1>16. CASE Watch
  <2>1. call.at = "idle" /\ call' = [call EXCEPT !.at = "make"] /\ faults' = faults
    BY <1>16 DEF Watch, serverVars
  <2> QED
    BY <1>1, <1>2, <1>3, <2>1 DEF Calls, SameCount
<1>17. CASE StreamNext
  BY <1>1, <1>6, <1>7, <1>17 DEF StreamNext
<1>18. CASE StreamDestroy
  <2>1. /\ call.at = "idle" /\ faults' = faults
        /\ \E p : call' = [call EXCEPT !.at = p]
    BY <1>18 DEF StreamDestroy, serverVars
  <2> QED
    BY <1>1, <1>2, <1>3, <2>1 DEF Calls, SameCount
<1>19. ASSUME NEW st, MakeError(st) PROVE call' = Idle
  BY <1>19 DEF MakeError
<1>20. CASE PickFails
  BY <1>4, <1>5, <1>19, <1>20 DEF PickFails
<1>21. CASE Pick
  <2>1. SameCount(call, call') /\ call'.at = "aggregate" /\ faults' = faults
    BY <1>1, <1>21 DEF Pick, Calls, SameCount, serverVars
  <2> QED
    BY <1>3, <2>1 DEF Commands
<1>22. ASSUME NEW a, AggregateOver(a), faults' \in {faults, faults + 1}
       PROVE  Counts
  BY <1>3, <1>4, <1>22 DEF AggregateOver, Commands
<1>23. CASE Aggregated
  <2>1. PICK o : /\ Takes(o)
                 /\ AggregateRefused(o) \/ \E j : AggregateMade(o, j)
    BY <1>23, AggregatedCases
  <2>2. faults' \in {faults, faults + 1}
    BY <1>5, <2>1 DEF Takes
  <2>3. CASE AggregateRefused(o)
    BY <1>22, <2>2, <2>3 DEF AggregateRefused
  <2>4. ASSUME NEW j, AggregateMade(o, j) PROVE Counts
    <3>1. PICK p : Opened(o, open, streaming, call.loop.server, "watch", p,
                          NewId(W), W, FALSE)
      BY <2>4 DEF AggregateMade
    <3>2. /\ ~o.fault
          /\ o.answer.id # 0 => /\ o.answer.id \in DOMAIN o.open
                                /\ o.open[o.answer.id].server = call.loop.server
      <4>1. PICK q : /\ ReadsTo(o.answer, o.open, NewId(W), "watch", p, q)
                     /\ NewId(W) \in DOMAIN o.open => o.open[NewId(W)] =
                          [server |-> call.loop.server, kind |-> "watch",
                           pos |-> q, sess |-> W]
        BY <3>1, Zenon DEF Opened
      <4>2. ~o.fault
        BY <3>1, Zenon DEF Opened
      <4> QED
        BY <4>1, <4>2 DEF ReadsTo
    <3>3. /\ cursor' = [cursor EXCEPT ![W] = j] /\ j.id = o.answer.id
          /\ j.error = OkReply /\ j.server = call.server
          /\ \/ call' = Idle
             \/ /\ call'.at = "next"
                /\ IF call.loop.server = call.server THEN SameCount(call, call')
                                                     ELSE OneMove(call, call')
      BY <2>4 DEF AggregateMade, AggregateDone
    <3>4. cursor'[W] = j /\ open' = o.open /\ faults' = faults
      BY <1>1, <2>1, <3>2, <3>3 DEF IInv, TypeOK, Takes
    <3>5. CASE call.loop.server = call.server
      <4>1. ~Doomed(j, open')
        BY <3>2, <3>3, <3>4, <3>5, RepliesTyped DEF Doomed, Failed
      <4> QED
        BY <1>4, <3>3, <3>4, <3>5, <4>1 DEF Counts
    <3>6. CASE call.loop.server # call.server
      BY <1>4, <3>3, <3>4, <3>6 DEF Counts
    <3> QED
      BY <3>5, <3>6
  <2> QED
    BY <2>1, <2>3, <2>4
<1>24. CASE AggregateFails
  <2>1. faults' = faults
    BY <1>24 DEF AggregateFails
  <2>2. CASE in_exhaust
    BY <1>4, <1>19, <1>24, <2>1, <2>2 DEF AggregateFails
  <2>3. CASE ~in_exhaust
    <3>1. AfterAggregate(ErrorAnswer(NetworkError), 0)
      BY <1>24, <2>3 DEF AggregateFails
    <3>2. ~ErrorAnswer(NetworkError).reply.ok
      BY ErrorAnswerIs, RepliesTyped
    <3>3. AggregateOver(ErrorAnswer(NetworkError))
      BY <1>1, <3>1, <3>2, AggregateOverIs
    <3> QED
      BY <1>22, <2>1, <3>3
  <2> QED
    BY <2>2, <2>3
<1>25. CASE AggregateReselect
  <2>1. CASE Fault /\ MakeError(stream)
    BY <1>4, <1>5, <1>19, <2>1
  <2>2. CASE /\ faults' = faults
             /\ \E s : call' = [call EXCEPT !.at = "aggregate", !.loop.server = s]
    <3>1. SameCount(call, call') /\ call'.at = "aggregate"
      BY <1>1, <2>2 DEF Calls, SameCount
    <3> QED
      BY <1>3, <2>2, <3>1 DEF Commands
  <2> QED
    BY <1>25, <2>1, <2>2 DEF AggregateReselect
<1>26. CASE Deliver \/ NothingNew \/ StreamFails
  BY <1>7, <1>26 DEF Deliver, NothingNew, StreamFails
<1>27. CASE Discarded
  <2>1. faults' = faults
    BY <1>27 DEF Discarded, serverVars
  <2>2. CASE call' = [call EXCEPT !.at = "make"]
    BY <1>1, <1>3, <2>1, <2>2 DEF Calls, SameCount, Commands
  <2> QED
    BY <1>4, <1>27, <2>1, <2>2 DEF Discarded
<1>28. CASE Resume
  BY <1>28 DEF Counts
<1>29. CASE UNCHANGED vars
  BY <1>29 DEF vars, serverVars, cursorVars, Counts, SameCount
<1>30. CASE Application
  BY <1>9, <1>10, <1>11, <1>30 DEF Application
<1>31. CASE Driver
  BY <1>12, <1>13, <1>14, <1>31, SendCounts, AnsweredCounts DEF Driver
<1>32. CASE StreamDriver
  BY <1>11, <1>20, <1>21, <1>23, <1>24, <1>25, <1>26, <1>27, <1>28, <1>32,
     ResumedCounts DEF StreamDriver
<1> QED
  BY <1>15, <1>16, <1>17, <1>18, <1>29, <1>30, <1>31, <1>32
     DEF Next, DriverSteps

(* Until a reply crosses, one call of mongoc_change_stream_next opens its  *)
(* cursor again only as often as failures and retries at another server    *)
(* make it, and twice for cursors that time out.                           *)
THEOREM ResumesAreBounded == Spec => [](RepliesNotCrossed => ResumesBounded)
<1> DEFINE BInv == crossed \/ Bounded
<1>1. Init => BInv
  <2> SUFFICES ASSUME Init PROVE Bounded
    OBVIOUS
  <2>1. call = Idle /\ faults = 0
    BY DEF Init, CursorInit, ServerInit
  <2>2. /\ Idle.timeouts = 0 /\ Idle.resumes = 0 /\ Idle.resume = FALSE
        /\ Idle.moved = 0
    BY DEF Idle
  <2> QED
    BY <2>1, <2>2 DEF Bounded, Reopened
<1>2. IInv /\ BInv /\ [Next]_vars => BInv'
  <2> SUFFICES ASSUME IInv, BInv, [Next]_vars, ~crossed' PROVE Bounded'
    OBVIOUS
  <2>1. ~crossed
    BY NextSteps, CrossedStays
  <2> QED
    BY <2>1, NextCounts, CountsBounded
<1>3. IInv /\ BInv => (RepliesNotCrossed => ResumesBounded)
  <2> SUFFICES ASSUME IInv, Bounded
               PROVE  call.resumes <= 2 + faults + call.moved
    BY DEF RepliesNotCrossed, ResumesBounded
  <2>1. TypeOK /\ MaxFaults \in Nat
    BY CursorServerAssumption DEF IInv
  <2>2. faults \in Nat /\ call.resumes \in Nat /\ call.moved \in Nat
    BY <2>1 DEF TypeOK, Calls
  <2> QED
    BY <2>2 DEF Bounded
<1> QED
  BY <1>1, <1>2, <1>3, StreamInductive, PTL DEF Spec

(* With one find, on any number of servers and with reads retried or not,  *)
(* mongoc_cursor_destroy closes what its cursor has open, except in the    *)
(* cases that LeavesOnly lists.                                            *)
THEOREM NoneLeft == ASSUME OneFind PROVE Spec => NoCursorLeft
BY OneFind, OneFindNotCrossed, CursorsNotLeft, PTL DEF NoCursorLeft

(* And the loop of mongoc_change_stream_next opens the cursor again at     *)
(* most twice more often than there were failures, and retries of the      *)
(* stream's commands at another server.                                    *)
THEOREM ResumingEnds == ASSUME OneFind PROVE Spec => []ResumesBounded
BY OneFind, OneFindNotCrossed, ResumesAreBounded, PTL
============================================================================
