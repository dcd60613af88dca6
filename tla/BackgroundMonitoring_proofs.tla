--------------------- MODULE BackgroundMonitoring_proofs --------------------
(***************************************************************************)
(* The safety invariants of BackgroundMonitoring, for any number of        *)
(* servers and selectors.  The inductive invariant says of every monitor   *)
(* where its thread can be in each state (MonitorInv), who may modify the  *)
(* description (ModInv), what stop has done so far (StopInv), and why a    *)
(* selector that sleeps will be woken (ScanInv).                           *)
(***************************************************************************)
EXTENDS BackgroundMonitoring, FiniteSetTheorems, WellFoundedInduction, TLAPS

(* Where a thread can be, by the state of its monitor.                     *)
PlaceInv(r) ==
  /\ r.state = "running" => r.pc \notin {"none", "finish", "return", "exited"}
  /\ r.state = "shutting_down" => r.pc \notin {"none", "return", "exited"}
  /\ r.state = "joinable" => r.pc \in {"return", "exited"}
  /\ r.state = "off" => r.pc \in {"none", "exited"}
  /\ r.pc = "finish" => r.state = "shutting_down"

(* A monitor is in its set from the time it is made until it is freed, and *)
(* only a monitor that is not freed has a thread.                          *)
LifeInv(r) ==
  /\ r.life = "live" => r.listed
  /\ r.life = "none" => ~r.listed
  /\ r.life # "live" => r.pc \in {"none", "exited"}

(* Requests find the thread where it blocks, and a thread waits only after *)
(* a check that did not leave a reply to be awaited.                       *)
RequestInv(r) ==
  /\ r.pc = "sleep" /\ r.scan => r.signalled
  /\ r.pc = "sleep" /\ r.state = "shutting_down" => r.signalled
  /\ r.pc \in {"wait", "sleep"} => ~Awaits(r)
  /\ r.pc \in {"clear", "update", "lock", "holding"} /\ r.after = "wait"
       => ~Awaits(r)
  /\ r.pc = "check" /\ r.state = "shutting_down" /\ Awaits(r) => r.cancel

MonitorInv ==
  \A m \in Monitors : /\ PlaceInv(monitor[m]) /\ LifeInv(monitor[m])
                      /\ RequestInv(monitor[m])
                      /\ m[1] = "rtt" => monitor[m].link = "none"

(* The modification of the application, and the one that starts the        *)
(* monitors, which does not change the description.                        *)
ModInv ==
  /\ app \in {"start", "handshake"} <=> mod # None /\ mod.owner = App
  /\ app = "start" => mod.td = td
  /\ mod # None /\ mod.step = "add" => mod.orphans = {}

(* How far the shutdown has come: from its count on no monitor is added or *)
(* removed by a modification, and it frees the monitors one by one.        *)
StopInv ==
  /\ stop.pc \in {"count", "signal", "wait"} <=> scanner_state = "shutting_down"
  /\ stop.pc = "done" => scanner_state = "off"
  /\ stop.pc = "idle" => (scanner_state = "off" <=> app = "new")
  /\ stop.pc # "idle" => app \in {"new", "ready"}
  /\ stop.pc \in {"signal", "wait"} => (mod # None => mod.orphans = {})
  /\ stop.pc \in {"signal", "wait"} => stop.todo \subseteq Listed
  /\ stop.pc = "wait" =>
       \A m \in Listed : monitor[m].life = "freed" <=> m \notin stop.todo
  /\ stop.pc # "wait" => \A m \in Listed : monitor[m].life # "freed"
  /\ stop.joining # None => stop.pc = "wait" /\ stop.joining \in stop.todo
  /\ stop.pc = "done" => Listed = {}
  /\ app = "new" => Listed = {} /\ srv.pc = "none"
  /\ stop.pc = "done" => srv.pc \in {"none", "exited"}
  /\ scanner_state = "shutting_down" /\ srv.pc = "sleep" => srv.signalled

(* A monitor will look at its server, or has been told to, as long as a    *)
(* selector sleeps.                                                        *)
Scans(r) ==
  \/ r.scan
  \/ r.pc \in {"clear", "update", "lock", "holding"}
  \/ r.pc \in {"top", "check"} /\ ~Awaits(r)
  \/ r.pc = "sleep" /\ r.due = "short"
ScanInv ==
  scanner_state = "running" =>
    \A s \in Selectors : selector[s] = "asleep" =>
      \A m \in Listed : m[1] = "hello" /\ monitor[m].state = "running"
                        => Scans(monitor[m])

IInv ==
  /\ TypeOK /\ MonitorInv /\ ModInv /\ StopInv /\ ScanInv /\ NoMissedUpdate

----------------------------------------------------------------------------
(***************************************************************************)
(* The order of the walks over the monitors.                               *)
(***************************************************************************)
(* A set of natural numbers that has an element has a least one.           *)
LEMMA LeastId ==
  ASSUME NEW T \in SUBSET Nat, T # {}
  PROVE  \E i \in T : \A j \in T : i <= j
<1>1. IsWellFoundedOn(OpToRel(<, Nat), Nat)
  BY NatLessThanWellFounded, Zenon
<1>2. PICK i \in T : \A j \in T : ~ (<<j, i>> \in OpToRel(<, Nat))
  BY <1>1, WFMin, Zenon
<1>3. \A j \in T : ~ (j < i)
  BY <1>2 DEF OpToRel
<1>4. \A j \in T : i <= j
  BY <1>3
<1> QED
  BY <1>4

(* stop and reconcile find a next monitor as long as there is one left.    *)
LEMMA FirstIn ==
  ASSUME NEW M \in SUBSET Monitors, M # {}
  PROVE  First(M) \in M
<1> DEFINE Ids(kind) == {i \in ServerIds : <<kind, i>> \in M}
           kind == IF Ids("hello") # {} THEN "hello" ELSE "rtt"
<1>1. ServerIds \subseteq Nat
  BY InstanceAssumption DEF ServerIds
<1>2. \A m \in M : m = <<m[1], m[2]>> /\ m[1] \in {"hello", "rtt"} /\ m[2] \in ServerIds
  BY DEF Monitors
<1>3. Ids(kind) # {}
  <2>1. PICK m \in M : TRUE
    OBVIOUS
  <2>2. m[2] \in Ids(m[1])
    BY <1>2
  <2> QED
    BY <1>2, <2>2
<1>4. PICK i \in Ids(kind) : \A j \in Ids(kind) : i <= j
  BY <1>1, <1>3, LeastId
<1>5. \A n \in M \ {<<kind, i>>} : Before(<<kind, i>>, n)
  <2> SUFFICES ASSUME NEW n \in M \ {<<kind, i>>} PROVE Before(<<kind, i>>, n)
    OBVIOUS
  <2>1. n = <<n[1], n[2]>> /\ n[1] \in {"hello", "rtt"} /\ n[2] \in Ids(n[1])
    BY <1>2
  <2>2. CASE n[1] = kind
    <3>1. n[2] # i /\ i <= n[2]
      BY <1>4, <2>1, <2>2
    <3> QED
      BY <1>1, <2>1, <2>2, <3>1 DEF Before, Id
  <2>3. CASE n[1] # kind
    BY <2>1, <2>3 DEF Before
  <2> QED
    BY <2>2, <2>3
<1> QED
  BY <1>4, <1>5 DEF First

----------------------------------------------------------------------------
(***************************************************************************)
(* One monitor: what a request does to it, and what its thread does.       *)
(***************************************************************************)
Sound(r) ==
  r \in MonitorRecords /\ PlaceInv(r) /\ LifeInv(r) /\ RequestInv(r)

(* Two records of a monitor with the same structure and the same thread.   *)
SameMonitor(q, r) ==
  /\ q.life = r.life /\ q.listed = r.listed
  /\ q.pc = r.pc /\ q.desc = r.desc /\ q.link = r.link /\ q.due = r.due

(* A request to scan leaves a monitor sound.                               *)
LEMMA ScanKeeps ==
  ASSUME NEW r, Sound(r)
  PROVE  /\ Sound(RequestScan(r)) /\ SameMonitor(RequestScan(r), r)
         /\ RequestScan(r).state = r.state
         /\ RequestScan(r).scan = TRUE
<1> DEFINE q == RequestScan(r)
<1>1. /\ q \in MonitorRecords /\ q.scan = TRUE /\ q.state = r.state
      /\ q.cancel = r.cancel /\ q.after = r.after
      /\ r.pc = "sleep" => q.signalled
  BY DEF RequestScan, Signal, Sound, MonitorRecords
<1>2. SameMonitor(q, r)
  BY DEF RequestScan, Signal, Sound, MonitorRecords, SameMonitor
<1> HIDE DEF q
<1>3. PlaceInv(q) /\ LifeInv(q)
  BY <1>1, <1>2 DEF Sound, PlaceInv, LifeInv, SameMonitor
<1>4. RequestInv(q)
  BY <1>1, <1>2 DEF Sound, RequestInv, SameMonitor, Awaits, Streaming
<1> QED
  BY <1>1, <1>2, <1>3, <1>4 DEF Sound, q

(* So does a request to cancel.                                            *)
LEMMA CancelKeeps ==
  ASSUME NEW r, Sound(r)
  PROVE  /\ Sound(RequestCancel(r)) /\ SameMonitor(RequestCancel(r), r)
         /\ RequestCancel(r).state = r.state /\ RequestCancel(r).scan = r.scan
BY DEF RequestCancel, Signal, Sound, MonitorRecords, PlaceInv, LifeInv,
       RequestInv, SameMonitor, Awaits, Streaming

(* So does a request to shut down, after which the monitor is not running  *)
(* and, if it is off, without a thread.                                    *)
LEMMA ShutdownKeeps ==
  ASSUME NEW r, Sound(r), CanRequestShutdown(r)
  PROVE  /\ Sound(RequestShutdown(r)) /\ SameMonitor(RequestShutdown(r), r)
         /\ RequestShutdown(r).state # "running"
         /\ RequestShutdown(r).state = "off" =>
              RequestShutdown(r).pc \in {"none", "exited"}
<1> USE DEF Sound
<1>1. CASE r.state = "running"
  <2> DEFINE q == [r EXCEPT !.state = "shutting_down"]
  <2>1. RequestShutdown(r) = RequestCancel(q)
    BY <1>1 DEF RequestShutdown
  <2> DEFINE p == RequestCancel(q)
  <2>2. /\ p \in MonitorRecords /\ p.state = "shutting_down"
        /\ p.scan = r.scan /\ p.cancel = TRUE /\ p.after = r.after
        /\ r.pc = "sleep" => p.signalled
    BY DEF RequestCancel, Signal, MonitorRecords
  <2>3. SameMonitor(p, r)
    BY DEF RequestCancel, Signal, MonitorRecords, SameMonitor
  <2> HIDE DEF p
  <2>4. PlaceInv(p) /\ LifeInv(p)
    BY <1>1, <2>2, <2>3 DEF PlaceInv, LifeInv, SameMonitor
  <2>5. RequestInv(p)
    BY <2>2, <2>3 DEF RequestInv, SameMonitor, Awaits, Streaming
  <2> QED
    BY <2>1, <2>2, <2>3, <2>4, <2>5 DEF p
<1>2. CASE r.state = "shutting_down"
  <2>1. RequestShutdown(r) = RequestCancel(r)
    BY <1>2 DEF RequestShutdown
  <2> QED
    BY <1>2, <2>1, CancelKeeps
<1>3. CASE r.state \in {"joinable", "off"}
  <2>1. RequestShutdown(r) = [r EXCEPT !.state = "off"]
    BY <1>3 DEF RequestShutdown
  <2>2. r.pc \in {"none", "exited"}
    BY <1>3 DEF CanRequestShutdown, Joined, PlaceInv
  <2> QED
    BY <2>1, <2>2 DEF MonitorRecords, PlaceInv, LifeInv, RequestInv,
                      SameMonitor, Awaits, Streaming
<1> QED
  BY <1>1, <1>2, <1>3 DEF MonitorRecords

(* What a step of its thread may make of a monitor r: a sound one with the *)
(* same structure, that still scans for the selectors that sleep.          *)
Moved(r, q) ==
  /\ Sound(q)
  /\ q.life = r.life /\ q.listed = r.listed
  /\ q.state = "running" => r.state = "running"
  /\ q.pc = "holding" <=> r.pc = "holding"
Moves(m, q) ==
  /\ monitor' = [monitor EXCEPT ![m] = q]
  /\ Moved(monitor[m], q)
  /\ m[1] = "rtt" => q.link = "none"
  /\ scanner_state # "shutting_down" /\ m[1] = "hello" /\ q.state = "running"
     /\ Scans(monitor[m]) => Scans(q)

(* The types of the records that the steps of a thread make.               *)
LEMMA TypedMonitor ==
  ASSUME NEW r \in MonitorRecords
  PROVE  /\ \A x \in {"check", "finish", "update", "wait", "lock", "exited"} :
              [r EXCEPT !.pc = x] \in MonitorRecords
         /\ [r EXCEPT !.pc = "wait", !.cancel = FALSE, !.desc = "unknown",
                      !.link = "none"] \in MonitorRecords
         /\ \A d \in {"known", "versioned"}, l \in {"open", "more"}, x \in {"top", "wait"} :
              [r EXCEPT !.pc = "update", !.desc = d, !.link = l,
                        !.after = x] \in MonitorRecords
         /\ \A x \in {"top", "wait"} :
              [r EXCEPT !.pc = "clear", !.desc = "unknown", !.link = "none",
                        !.after = x] \in MonitorRecords
         /\ [r EXCEPT !.pc = r.after, !.after = "wait"] \in MonitorRecords
         /\ [r EXCEPT !.pc = "top", !.due = "long",
                      !.signalled = FALSE] \in MonitorRecords
         /\ \A x \in {"long", "short"} :
              [r EXCEPT !.pc = "sleep", !.scan = FALSE, !.signalled = FALSE,
                        !.due = x] \in MonitorRecords
         /\ [r EXCEPT !.pc = "return", !.state = "joinable",
                      !.desc = "unknown", !.link = "none"] \in MonitorRecords
         /\ [r EXCEPT !.pc = "holding", !.scan = FALSE] \in MonitorRecords
         /\ r.after \in {"top", "wait"} /\ r.due \in {"long", "short"}
         /\ r.state \in {"off", "running", "shutting_down", "joinable"}
<1> USE DEF MonitorRecords
<1>1. \A x \in {"check", "finish", "update", "wait", "lock", "exited"} :
        [r EXCEPT !.pc = x] \in MonitorRecords
  BY Zenon
<1>2. [r EXCEPT !.pc = "wait", !.cancel = FALSE, !.desc = "unknown",
                !.link = "none"] \in MonitorRecords
  BY Zenon
<1>3. \A d \in {"known", "versioned"}, l \in {"open", "more"}, x \in {"top", "wait"} :
        [r EXCEPT !.pc = "update", !.desc = d, !.link = l,
                  !.after = x] \in MonitorRecords
  BY Zenon
<1>4. \A x \in {"top", "wait"} :
        [r EXCEPT !.pc = "clear", !.desc = "unknown", !.link = "none",
                  !.after = x] \in MonitorRecords
  BY Zenon
<1>5. \A x \in {"top", "wait"} :
        [r EXCEPT !.pc = x, !.after = "wait"] \in MonitorRecords
  BY Zenon
<1>6. [r EXCEPT !.pc = "top", !.due = "long",
                !.signalled = FALSE] \in MonitorRecords
  BY Zenon
<1>7. \A x \in {"long", "short"} :
        [r EXCEPT !.pc = "sleep", !.scan = FALSE, !.signalled = FALSE,
                  !.due = x] \in MonitorRecords
  BY Zenon
<1>8. [r EXCEPT !.pc = "return", !.state = "joinable",
                !.desc = "unknown", !.link = "none"] \in MonitorRecords
  BY Zenon
<1>9. [r EXCEPT !.pc = "holding", !.scan = FALSE] \in MonitorRecords
  BY Zenon
<1>10. /\ r.after \in {"top", "wait"} /\ r.due \in {"long", "short"}
       /\ r.state \in {"off", "running", "shutting_down", "joinable"}
  OBVIOUS
<1> HIDE DEF MonitorRecords
<1> QED
  BY <1>1, <1>2, <1>3, <1>4, <1>5, <1>6, <1>7, <1>8, <1>9, <1>10

(* Each step of a thread that leaves the description alone moves it so.    *)
LEMMA ThreadMoves ==
  ASSUME NEW m \in Monitors, Sound(monitor[m]),
         m[1] = "rtt" => monitor[m].link = "none",
         \/ Thread(m) /\ ~UpdateCommit(m)
         \/ ThreadLocks(m) /\ ~UpdateBegin(m)
  PROVE  \E q : Moves(m, q)
<1> DEFINE r == monitor[m]
           Good(q) == /\ Moved(r, q)
                      /\ m[1] = "rtt" => q.link = "none"
                      /\ scanner_state # "shutting_down" /\ m[1] = "hello"
                         /\ q.state = "running" /\ Scans(r) => Scans(q)
<1>0. \A q : monitor' = [monitor EXCEPT ![m] = q] /\ Good(q) => Moves(m, q)
  BY DEF Moves
<1>r. Sound(r) /\ (m[1] = "rtt" => r.link = "none")
  OBVIOUS
<1>t. r \in MonitorRecords
  BY DEF Sound
<1>s. r.state \in {"off", "running", "shutting_down", "joinable"}
  BY <1>t, TypedMonitor
<1> HIDE DEF r
<1> USE DEF Moved, Sound, PlaceInv, LifeInv, RequestInv,
            Scans, Awaits, Streaming
<1>1. CASE Top(m)
  <2> DEFINE q == [r EXCEPT !.pc = IF r.state = "running" THEN "check" ELSE "finish"]
  <2>1. monitor' = [monitor EXCEPT ![m] = q]
    BY <1>1 DEF Top, SetMonitor, Step, r
  <2>2. r.pc = "top"
    BY <1>1 DEF Top, At, r
  <2>t. q \in MonitorRecords
    BY <1>t, TypedMonitor
  <2>a. /\ q.life = r.life /\ q.listed = r.listed /\ q.state = r.state
        /\ q.scan = r.scan /\ q.cancel = r.cancel /\ q.signalled = r.signalled
        /\ q.pc = (IF r.state = "running" THEN "check" ELSE "finish")
        /\ q.desc = r.desc /\ q.link = r.link /\ q.due = r.due
        /\ q.after = r.after
    BY <1>t DEF MonitorRecords
  <2> HIDE DEF q
  <2>b. PlaceInv(q) /\ LifeInv(q)
    BY <1>r, <1>s, <2>a, <2>2
  <2>c. RequestInv(q)
    BY <1>r, <2>a, <2>2
  <2>d. Good(q)
    BY <1>r, <2>a, <2>b, <2>c, <2>t, <2>2
  <2> QED
    BY <1>0, <2>1, <2>d
<1>2. CASE CheckReply(m)
  <2>0. PICK d \in Replies,
             l \in IF Awaits(r) THEN {"open", "more"} ELSE {"open"} :
          SetMonitor(m, [r EXCEPT !.pc = "update", !.desc = d, !.link = l,
            !.after = IF Streaming(d) \/ l = "more" THEN "top" ELSE "wait"])
    BY <1>2 DEF CheckReply, r
  <2> DEFINE q == [r EXCEPT !.pc = "update", !.desc = d, !.link = l,
               !.after = IF Streaming(d) \/ l = "more" THEN "top" ELSE "wait"]
  <2>1. monitor' = [monitor EXCEPT ![m] = q]
    BY <2>0 DEF SetMonitor
  <2>2. r.pc = "check" /\ m[1] = "hello" /\ l \in {"open", "more"}
    BY <1>2, <2>0 DEF CheckReply, At, r
  <2>3. d \in {"known", "versioned"}
    BY InstanceAssumption
  <2>t. q \in MonitorRecords
    BY <1>t, <2>2, <2>3, TypedMonitor
  <2>a. /\ q.life = r.life /\ q.listed = r.listed /\ q.state = r.state
        /\ q.scan = r.scan /\ q.cancel = r.cancel /\ q.signalled = r.signalled
        /\ q.pc = "update" /\ q.desc = d /\ q.link = l /\ q.due = r.due
        /\ q.after = (IF Streaming(d) \/ l = "more" THEN "top" ELSE "wait")
    BY <1>t, <2>2 DEF MonitorRecords
  <2> HIDE DEF q
  <2>b. PlaceInv(q) /\ LifeInv(q)
    BY <1>r, <1>s, <2>a, <2>2
  <2>c. RequestInv(q)
    BY <1>r, <2>a, <2>2
  <2>d. Good(q)
    BY <1>r, <2>a, <2>b, <2>c, <2>t, <2>2
  <2> QED
    BY <1>0, <2>1, <2>d
<1>3. CASE CheckCancelled(m)
  <2> DEFINE q == [r EXCEPT !.pc = "wait", !.cancel = FALSE, !.desc = "unknown",
                       !.link = "none"]
  <2>1. monitor' = [monitor EXCEPT ![m] = q]
    BY <1>3 DEF CheckCancelled, SetMonitor, Step, r
  <2>2. r.pc = "check" /\ Awaits(r)
    BY <1>3 DEF CheckCancelled, At, r
  <2>t. q \in MonitorRecords
    BY <1>t, TypedMonitor
  <2>a. /\ q.life = r.life /\ q.listed = r.listed /\ q.state = r.state
        /\ q.scan = r.scan /\ q.cancel = FALSE /\ q.signalled = r.signalled
        /\ q.pc = "wait" /\ q.desc = "unknown" /\ q.link = "none"
        /\ q.due = r.due /\ q.after = r.after
    BY <1>t DEF MonitorRecords
  <2> HIDE DEF q
  <2>b. PlaceInv(q) /\ LifeInv(q)
    BY <1>r, <1>s, <2>a, <2>2
  <2>c. RequestInv(q)
    BY <1>r, <2>a, <2>2
  <2>d. Good(q)
    BY <1>r, <2>a, <2>b, <2>c, <2>t, <2>2
  <2> QED
    BY <1>0, <2>1, <2>d
<1>4. CASE CheckFails(m)
  <2>0. PICK network \in BOOLEAN :
          SetMonitor(m, [r EXCEPT !.pc = "clear", !.desc = "unknown",
            !.link = "none",
            !.after = IF network /\ r.desc # "unknown" THEN "top" ELSE "wait"])
    BY <1>4 DEF CheckFails, r
  <2> DEFINE q == [r EXCEPT !.pc = "clear", !.desc = "unknown",
               !.link = "none",
               !.after = IF network /\ r.desc # "unknown" THEN "top" ELSE "wait"]
  <2>1. monitor' = [monitor EXCEPT ![m] = q]
    BY <2>0 DEF SetMonitor
  <2>2. r.pc = "check" /\ m[1] = "hello"
    BY <1>4 DEF CheckFails, At, r
  <2>t. q \in MonitorRecords
    BY <1>t, TypedMonitor
  <2>a. /\ q.life = r.life /\ q.listed = r.listed /\ q.state = r.state
        /\ q.scan = r.scan /\ q.cancel = r.cancel /\ q.signalled = r.signalled
        /\ q.pc = "clear" /\ q.desc = "unknown" /\ q.link = "none"
        /\ q.due = r.due
    BY <1>t DEF MonitorRecords
  <2> HIDE DEF q
  <2>b. PlaceInv(q) /\ LifeInv(q)
    BY <1>r, <1>s, <2>a, <2>2
  <2>c. RequestInv(q)
    BY <1>r, <2>a, <2>2
  <2>d. Good(q)
    BY <1>r, <2>a, <2>b, <2>c, <2>t, <2>2
  <2> QED
    BY <1>0, <2>1, <2>d
<1>5. CASE UpdateCheck(m)
  <2>1. r.pc = "update" /\ m[1] = "hello"
    BY <1>5 DEF UpdateCheck, At, r
  <2>4. r.after \in {"top", "wait"}
    BY <1>t, TypedMonitor
  <2>2. CASE scanner_state = "shutting_down"
    <3> DEFINE q == [r EXCEPT !.pc = r.after, !.after = "wait"]
    <3>1. monitor' = [monitor EXCEPT ![m] = q]
      BY <1>5, <2>2 DEF UpdateCheck, Proceed, SetMonitor, r
    <3>t. q \in MonitorRecords
      BY <1>t, TypedMonitor
    <3>a. /\ q.life = r.life /\ q.listed = r.listed /\ q.state = r.state
          /\ q.scan = r.scan /\ q.cancel = r.cancel
          /\ q.signalled = r.signalled /\ q.pc = r.after /\ q.desc = r.desc
          /\ q.link = r.link /\ q.due = r.due /\ q.after = "wait"
      BY <1>t DEF MonitorRecords
    <3> HIDE DEF q
    <3>b. PlaceInv(q) /\ LifeInv(q)
      BY <1>r, <1>s, <3>a, <2>1, <2>2, <2>4
    <3>c. RequestInv(q)
      BY <1>r, <3>a, <2>1, <2>2, <2>4
    <3>d. Good(q)
      BY <1>r, <3>a, <3>b, <3>c, <3>t, <2>1, <2>2, <2>4
    <3> QED
      BY <1>0, <3>1, <3>d
  <2>3. CASE scanner_state # "shutting_down"
    <3> DEFINE q == [r EXCEPT !.pc = "lock"]
    <3>1. monitor' = [monitor EXCEPT ![m] = q]
      BY <1>5, <2>3 DEF UpdateCheck, Step, SetMonitor, r
    <3>t. q \in MonitorRecords
      BY <1>t, TypedMonitor
    <3>a. /\ q.life = r.life /\ q.listed = r.listed /\ q.state = r.state
          /\ q.scan = r.scan /\ q.cancel = r.cancel
          /\ q.signalled = r.signalled /\ q.pc = "lock" /\ q.desc = r.desc
          /\ q.link = r.link /\ q.due = r.due /\ q.after = r.after
      BY <1>t DEF MonitorRecords
    <3> HIDE DEF q
    <3>b. PlaceInv(q) /\ LifeInv(q)
      BY <1>r, <1>s, <3>a, <2>1
    <3>c. RequestInv(q)
      BY <1>r, <3>a, <2>1
    <3>d. Good(q)
      BY <1>r, <3>a, <3>b, <3>c, <3>t, <2>1
    <3> QED
      BY <1>0, <3>1, <3>d
  <2> QED
    BY <2>2, <2>3
<1>6. CASE Ping(m)
  <2>0. PICK label \in {"update", "wait"} :
          monitor' = [monitor EXCEPT ![m] = [r EXCEPT !.pc = label]]
    BY <1>6 DEF Ping, SetMonitor, Step, r
  <2> DEFINE q == [r EXCEPT !.pc = label]
  <2>1. monitor' = [monitor EXCEPT ![m] = q]
    BY <2>0
  <2>2. r.pc = "check" /\ m[1] = "rtt"
    BY <1>6 DEF Ping, At, r
  <2>t. q \in MonitorRecords
    BY <1>t, TypedMonitor
  <2>a. /\ q.life = r.life /\ q.listed = r.listed /\ q.state = r.state
        /\ q.scan = r.scan /\ q.cancel = r.cancel /\ q.signalled = r.signalled
        /\ q.pc = label /\ q.desc = r.desc /\ q.link = r.link /\ q.due = r.due
        /\ q.after = r.after
    BY <1>t DEF MonitorRecords
  <2> HIDE DEF q
  <2>b. PlaceInv(q) /\ LifeInv(q)
    BY <1>r, <1>s, <2>a, <2>2
  <2>c. RequestInv(q)
    BY <1>r, <2>a, <2>2
  <2>d. Good(q)
    BY <1>r, <2>a, <2>b, <2>c, <2>t, <2>2
  <2> QED
    BY <1>0, <2>1, <2>d
<1>7. CASE Wait(m)
  <2>1. monitor' = [monitor EXCEPT ![m] = WaitTurn(r, "long")]
    BY <1>7 DEF Wait, SetMonitor, r
  <2>2. r.pc = "wait"
    BY <1>7 DEF Wait, At, r
  <2>3. CASE r.state # "running"
    <3> DEFINE q == [r EXCEPT !.pc = "top", !.due = "long",
                              !.signalled = FALSE]
    <3>1. monitor' = [monitor EXCEPT ![m] = q]
      BY <2>1, <2>3 DEF WaitTurn
    <3>t. q \in MonitorRecords
      BY <1>t, TypedMonitor
    <3>a. /\ q.life = r.life /\ q.listed = r.listed /\ q.state = r.state
          /\ q.scan = r.scan /\ q.cancel = r.cancel /\ q.signalled = FALSE
          /\ q.pc = "top" /\ q.desc = r.desc /\ q.link = r.link
          /\ q.due = "long" /\ q.after = r.after
      BY <1>t DEF MonitorRecords
    <3> HIDE DEF q
    <3>b. PlaceInv(q) /\ LifeInv(q)
      BY <1>r, <1>s, <3>a, <2>2, <2>3
    <3>c. RequestInv(q)
      BY <1>r, <3>a, <2>2, <2>3
    <3>d. Good(q)
      BY <1>r, <3>a, <3>b, <3>c, <3>t, <2>2, <2>3
    <3> QED
      BY <1>0, <3>1, <3>d
  <2>4. CASE r.state = "running"
    <3> DEFINE q == [r EXCEPT !.pc = "sleep", !.scan = FALSE,
                      !.signalled = FALSE,
                      !.due = IF r.scan THEN "short" ELSE "long"]
    <3>1. monitor' = [monitor EXCEPT ![m] = q]
      BY <2>1, <2>4 DEF WaitTurn
    <3>t. q \in MonitorRecords
      BY <1>t, TypedMonitor
    <3>a. /\ q.life = r.life /\ q.listed = r.listed /\ q.state = r.state
          /\ q.scan = FALSE /\ q.cancel = r.cancel /\ q.signalled = FALSE
          /\ q.pc = "sleep" /\ q.desc = r.desc /\ q.link = r.link
          /\ q.due = (IF r.scan THEN "short" ELSE "long") /\ q.after = r.after
      BY <1>t DEF MonitorRecords
    <3> HIDE DEF q
    <3>b. PlaceInv(q) /\ LifeInv(q)
      BY <1>r, <1>s, <3>a, <2>2, <2>4
    <3>c. RequestInv(q)
      BY <1>r, <3>a, <2>2, <2>4
    <3>d. Good(q)
      BY <1>r, <3>a, <3>b, <3>c, <3>t, <2>2, <2>4
    <3> QED
      BY <1>0, <3>1, <3>d
  <2> QED
    BY <2>3, <2>4
<1>8. CASE WaitSignalled(m)
  <2>1. monitor' = [monitor EXCEPT ![m] = WaitTurn(r, r.due)]
    BY <1>8 DEF WaitSignalled, SetMonitor, r
  <2>2. r.pc = "sleep"
    BY <1>8 DEF WaitSignalled, At, r
  <2>3. CASE r.state # "running"
    <3> DEFINE q == [r EXCEPT !.pc = "top", !.due = "long",
                              !.signalled = FALSE]
    <3>1. monitor' = [monitor EXCEPT ![m] = q]
      BY <2>1, <2>3 DEF WaitTurn
    <3>t. q \in MonitorRecords
      BY <1>t, TypedMonitor
    <3>a. /\ q.life = r.life /\ q.listed = r.listed /\ q.state = r.state
          /\ q.scan = r.scan /\ q.cancel = r.cancel /\ q.signalled = FALSE
          /\ q.pc = "top" /\ q.desc = r.desc /\ q.link = r.link
          /\ q.due = "long" /\ q.after = r.after
      BY <1>t DEF MonitorRecords
    <3> HIDE DEF q
    <3>b. PlaceInv(q) /\ LifeInv(q)
      BY <1>r, <1>s, <3>a, <2>2, <2>3
    <3>c. RequestInv(q)
      BY <1>r, <3>a, <2>2, <2>3
    <3>d. Good(q)
      BY <1>r, <3>a, <3>b, <3>c, <3>t, <2>2, <2>3
    <3> QED
      BY <1>0, <3>1, <3>d
  <2>4. CASE r.state = "running"
    <3> DEFINE q == [r EXCEPT !.pc = "sleep", !.scan = FALSE,
                      !.signalled = FALSE,
                      !.due = IF r.scan THEN "short" ELSE r.due]
    <3>1. monitor' = [monitor EXCEPT ![m] = q]
      BY <2>1, <2>4 DEF WaitTurn
    <3>t. q \in MonitorRecords
      BY <1>t, TypedMonitor
    <3>a. /\ q.life = r.life /\ q.listed = r.listed /\ q.state = r.state
          /\ q.scan = FALSE /\ q.cancel = r.cancel /\ q.signalled = FALSE
          /\ q.pc = "sleep" /\ q.desc = r.desc /\ q.link = r.link
          /\ q.due = (IF r.scan THEN "short" ELSE r.due) /\ q.after = r.after
      BY <1>t DEF MonitorRecords
    <3> HIDE DEF q
    <3>b. PlaceInv(q) /\ LifeInv(q)
      BY <1>r, <1>s, <3>a, <2>2, <2>4
    <3>c. RequestInv(q)
      BY <1>r, <3>a, <2>2, <2>4
    <3>d. Good(q)
      BY <1>r, <3>a, <3>b, <3>c, <3>t, <2>2, <2>4
    <3> QED
      BY <1>0, <3>1, <3>d
  <2> QED
    BY <2>3, <2>4
<1>9. CASE WaitTimeout(m)
  <2> DEFINE q == [r EXCEPT !.pc = "top", !.due = "long", !.signalled = FALSE]
  <2>1. monitor' = [monitor EXCEPT ![m] = q]
    BY <1>9 DEF WaitTimeout, SetMonitor, Step, r
  <2>2. r.pc = "sleep"
    BY <1>9 DEF WaitTimeout, At, r
  <2>t. q \in MonitorRecords
    BY <1>t, TypedMonitor
  <2>a. /\ q.life = r.life /\ q.listed = r.listed /\ q.state = r.state
        /\ q.scan = r.scan /\ q.cancel = r.cancel /\ q.signalled = FALSE
        /\ q.pc = "top" /\ q.desc = r.desc /\ q.link = r.link
        /\ q.due = "long" /\ q.after = r.after
    BY <1>t DEF MonitorRecords
  <2> HIDE DEF q
  <2>b. PlaceInv(q) /\ LifeInv(q)
    BY <1>r, <1>s, <2>a, <2>2
  <2>c. RequestInv(q)
    BY <1>r, <2>a, <2>2
  <2>d. Good(q)
    BY <1>r, <2>a, <2>b, <2>c, <2>t, <2>2
  <2> QED
    BY <1>0, <2>1, <2>d
<1>10. CASE Finish(m)
  <2> DEFINE q == [r EXCEPT !.pc = "return", !.state = "joinable",
                       !.desc = "unknown", !.link = "none"]
  <2>1. monitor' = [monitor EXCEPT ![m] = q]
    BY <1>10 DEF Finish, SetMonitor, Step, r
  <2>2. r.pc = "finish"
    BY <1>10 DEF Finish, At, r
  <2>t. q \in MonitorRecords
    BY <1>t, TypedMonitor
  <2>a. /\ q.life = r.life /\ q.listed = r.listed /\ q.state = "joinable"
        /\ q.scan = r.scan /\ q.cancel = r.cancel /\ q.signalled = r.signalled
        /\ q.pc = "return" /\ q.desc = "unknown" /\ q.link = "none"
        /\ q.due = r.due /\ q.after = r.after
    BY <1>t DEF MonitorRecords
  <2> HIDE DEF q
  <2>b. PlaceInv(q) /\ LifeInv(q)
    BY <1>r, <1>s, <2>a, <2>2
  <2>c. RequestInv(q)
    BY <1>r, <2>a, <2>2
  <2>d. Good(q)
    BY <1>r, <2>a, <2>b, <2>c, <2>t, <2>2
  <2> QED
    BY <1>0, <2>1, <2>d
<1>11. CASE Return(m)
  <2> DEFINE q == [r EXCEPT !.pc = "exited"]
  <2>1. monitor' = [monitor EXCEPT ![m] = q]
    BY <1>11 DEF Return, SetMonitor, Step, r
  <2>2. r.pc = "return"
    BY <1>11 DEF Return, At, r
  <2>t. q \in MonitorRecords
    BY <1>t, TypedMonitor
  <2>a. /\ q.life = r.life /\ q.listed = r.listed /\ q.state = r.state
        /\ q.scan = r.scan /\ q.cancel = r.cancel /\ q.signalled = r.signalled
        /\ q.pc = "exited" /\ q.desc = r.desc /\ q.link = r.link
        /\ q.due = r.due /\ q.after = r.after
    BY <1>t DEF MonitorRecords
  <2> HIDE DEF q
  <2>b. PlaceInv(q) /\ LifeInv(q)
    BY <1>r, <1>s, <2>a, <2>2
  <2>c. RequestInv(q)
    BY <1>r, <2>a, <2>2
  <2>d. Good(q)
    BY <1>r, <2>a, <2>b, <2>c, <2>t, <2>2
  <2> QED
    BY <1>0, <2>1, <2>d
<1>12. CASE ClearPool(m)
  <2> DEFINE q == [r EXCEPT !.pc = "update"]
  <2>1. monitor' = [monitor EXCEPT ![m] = q]
    BY <1>12 DEF ClearPool, SetMonitor, Step, r
  <2>2. r.pc = "clear"
    BY <1>12 DEF ClearPool, At, r
  <2>t. q \in MonitorRecords
    BY <1>t, TypedMonitor
  <2>a. /\ q.life = r.life /\ q.listed = r.listed /\ q.state = r.state
        /\ q.scan = r.scan /\ q.cancel = r.cancel /\ q.signalled = r.signalled
        /\ q.pc = "update" /\ q.desc = r.desc /\ q.link = r.link
        /\ q.due = r.due /\ q.after = r.after
    BY <1>t DEF MonitorRecords
  <2> HIDE DEF q
  <2>b. PlaceInv(q) /\ LifeInv(q)
    BY <1>r, <1>s, <2>a, <2>2
  <2>c. RequestInv(q)
    BY <1>r, <2>a, <2>2
  <2>d. Good(q)
    BY <1>r, <2>a, <2>b, <2>c, <2>t, <2>2
  <2> QED
    BY <1>0, <2>1, <2>d
<1>13. CASE RttUpdate(m)
  <2> DEFINE q == [r EXCEPT !.pc = "wait"]
  <2>1. monitor' = [monitor EXCEPT ![m] = q]
    BY <1>13 DEF RttUpdate, SetMonitor, Step, r
  <2>2. r.pc = "update" /\ m[1] = "rtt"
    BY <1>13 DEF RttUpdate, At, r
  <2>t. q \in MonitorRecords
    BY <1>t, TypedMonitor
  <2>a. /\ q.life = r.life /\ q.listed = r.listed /\ q.state = r.state
        /\ q.scan = r.scan /\ q.cancel = r.cancel /\ q.signalled = r.signalled
        /\ q.pc = "wait" /\ q.desc = r.desc /\ q.link = r.link
        /\ q.due = r.due /\ q.after = r.after
    BY <1>t DEF MonitorRecords
  <2> HIDE DEF q
  <2>b. PlaceInv(q) /\ LifeInv(q)
    BY <1>r, <1>s, <2>a, <2>2
  <2>c. RequestInv(q)
    BY <1>r, <2>a, <2>2
  <2>d. Good(q)
    BY <1>r, <2>a, <2>b, <2>c, <2>t, <2>2
  <2> QED
    BY <1>0, <2>1, <2>d
<1> QED
  BY <1>1, <1>2, <1>3, <1>4, <1>5, <1>6, <1>7, <1>8, <1>9, <1>10, <1>11, <1>12, <1>13
  DEF Thread, ThreadLocks

----------------------------------------------------------------------------
(***************************************************************************)
(* Steps that change monitors but neither make nor free one.               *)
(***************************************************************************)
Kept ==
  /\ monitor' \in [Monitors -> MonitorRecords]
  /\ \A n \in Monitors :
       /\ Sound(monitor'[n])
       /\ monitor'[n].life = monitor[n].life
       /\ monitor'[n].listed = monitor[n].listed
       /\ n[1] = "rtt" => monitor'[n].link = "none"
HoldingKept ==
  \A n \in Monitors : monitor'[n].pc = "holding" <=> monitor[n].pc = "holding"
ScansKept ==
  \A n \in Monitors : n[1] = "hello" /\ monitor'[n].state = "running" =>
    /\ monitor[n].state = "running"
    /\ Scans(monitor[n]) => Scans(monitor'[n])

(* Every monitor is sound.                                                 *)
LEMMA AllSound ==
  ASSUME TypeOK, MonitorInv
  PROVE  \A n \in Monitors : /\ Sound(monitor[n])
                             /\ n[1] = "rtt" => monitor[n].link = "none"
BY DEF TypeOK, MonitorInv, Sound

(* The sets of monitors and their invariant are kept.                      *)
LEMMA KeptMonitors ==
  ASSUME Kept
  PROVE  Listed' = Listed /\ MonitorInv'
<1>1. Listed' = Listed
  BY DEF Kept, Listed
<1>2. MonitorInv'
  BY DEF Kept, MonitorInv, Sound
<1> QED
  BY <1>1, <1>2

(* So is what stop has done.                                               *)
LEMMA KeptStop ==
  ASSUME StopInv, Kept, UNCHANGED <<scanner_state, mod, app, srv, stop>>
  PROVE  StopInv'
<1>1. Listed' = Listed
  BY KeptMonitors
<1>2. \A m \in Listed : monitor'[m].life = monitor[m].life
  BY DEF Kept, Listed
<1> QED
  BY <1>1, <1>2 DEF StopInv

(* A thread that only moves wakes and delays nobody.                       *)
LEMMA KeptScans ==
  ASSUME ScanInv, Kept, scanner_state = "running" => ScansKept,
         scanner_state' = scanner_state,
         \A s \in Selectors : selector'[s] = "asleep" => selector[s] = "asleep"
  PROVE  ScanInv'
<1>1. Listed' = Listed /\ Listed \subseteq Monitors
  BY KeptMonitors DEF Listed
<1> SUFFICES ASSUME scanner_state' = "running",
                    NEW s \in Selectors, selector'[s] = "asleep",
                    NEW m \in Listed', m[1] = "hello",
                    monitor'[m].state = "running"
             PROVE  Scans(monitor'[m])
  BY DEF ScanInv
<1>2. monitor[m].state = "running" /\ (Scans(monitor[m]) => Scans(monitor'[m]))
  BY <1>1 DEF ScansKept
<1> QED
  BY <1>1, <1>2 DEF ScanInv

(* One monitor is replaced.                                                *)
LEMMA KeptOne ==
  ASSUME TypeOK, MonitorInv, NEW m \in Monitors, NEW q,
         monitor' = [monitor EXCEPT ![m] = q], Sound(q),
         q.life = monitor[m].life, q.listed = monitor[m].listed,
         m[1] = "rtt" => q.link = "none"
  PROVE  Kept /\ monitor'[m] = q
              /\ \A n \in Monitors : n # m => monitor'[n] = monitor[n]
<1>1. /\ monitor'[m] = q
      /\ \A n \in Monitors : n # m => monitor'[n] = monitor[n]
  BY DEF TypeOK
<1>2. monitor' \in [Monitors -> MonitorRecords]
  BY DEF TypeOK, Sound
<1> QED
  BY <1>1, <1>2, AllSound DEF Kept

(* Nothing happens to the monitors.                                        *)
LEMMA KeptAll ==
  ASSUME TypeOK, MonitorInv, UNCHANGED monitor
  PROVE  Kept /\ HoldingKept /\ ScansKept
BY AllSound DEF TypeOK, Kept, HoldingKept, ScansKept

(* A step of a thread that leaves the description alone.                   *)
LEMMA ThreadStep ==
  ASSUME IInv, NEW m \in Monitors,
         \/ Thread(m) /\ ~UpdateCommit(m)
         \/ ThreadLocks(m) /\ ~UpdateBegin(m)
  PROVE  IInv'
<1> USE DEF IInv
<1>1. Sound(monitor[m]) /\ (m[1] = "rtt" => monitor[m].link = "none")
  BY AllSound
<1>2. PICK q : Moves(m, q)
  BY <1>1, ThreadMoves
<1>3. UNCHANGED <<scanner_state, td, mod, app, selector, srv, stop>>
  BY DEF Thread, ThreadLocks, Top, CheckReply, CheckCancelled, CheckFails,
         UpdateCheck, Ping, Wait, WaitSignalled, WaitTimeout, Finish, Return,
         ClearPool, RttUpdate
<1>4. /\ Kept /\ monitor'[m] = q
      /\ \A n \in Monitors : n # m => monitor'[n] = monitor[n]
  BY <1>2, KeptOne DEF Moves, Moved
<1>5. HoldingKept /\ (scanner_state = "running" => ScansKept)
  BY <1>2, <1>4 DEF Moves, Moved, HoldingKept, ScansKept
<1>6. StopInv' /\ ScanInv' /\ MonitorInv' /\ Listed' = Listed
  BY <1>3, <1>4, <1>5, KeptStop, KeptScans, KeptMonitors
<1>7. TypeOK'
  BY <1>3, <1>4, <1>5, <1>6 DEF TypeOK, Kept, HoldingKept, At
<1>8. ModInv' /\ NoMissedUpdate'
  BY <1>3 DEF ModInv, NoMissedUpdate
<1> QED
  BY <1>6, <1>7, <1>8

----------------------------------------------------------------------------
(***************************************************************************)
(* Modifications of the description.                                       *)
(***************************************************************************)
(* What a hello or an error leads to is a description.                     *)
LEMMA AfterHelloTyped ==
  ASSUME td \in Descriptions, NEW id \in ServerIds, NEW desc,
         NEW new \in AfterHello(id, desc)
  PROVE  new \in Descriptions
<1>1. CASE id \notin td.servers
  BY <1>1 DEF AfterHello
<1>2. CASE id \in td.servers /\ desc = "unknown"
  <2>1. CASE id \notin td.known
    BY <1>2, <2>1 DEF AfterHello, AfterError
  <2>2. CASE id \in td.known
    <3>1. PICK b \in BOOLEAN :
            new = [td EXCEPT !.known = @ \ {id}, !.suitable = b /\ td.known # {id}]
      BY <1>2, <2>2 DEF AfterHello, AfterError
    <3>2. (b /\ td.known # {id}) \in BOOLEAN /\ td.known \ {id} \in SUBSET ServerIds
      BY DEF Descriptions
    <3> QED
      BY <3>1, <3>2 DEF Descriptions
  <2> QED
    BY <2>1, <2>2
<1>3. CASE id \in td.servers /\ desc # "unknown"
  <2>0. new \in AfterReply(id, desc)
    BY <1>3 DEF AfterHello
  <2>1. PICK k \in SUBSET td.servers, a \in Additions, t \in TypesAfter,
             b \in BOOLEAN :
          new = Described(k, a, t, b, td.known \cup {id},
                          VersionedAfter(id, desc))
    BY <2>0 DEF AfterReply
  <2>2. td.last \in 0 .. MaxServerId /\ td.servers \subseteq ServerIds
        /\ td.type \in {"Unknown"} \cup Types
    BY DEF Descriptions
  <2>3. k \cup a \subseteq ServerIds /\ td.last + Cardinality(a) \in 0 .. MaxServerId
    <3>1. CASE a = {}
      BY <2>2, <3>1, FS_EmptySet, InstanceAssumption
    <3>2. CASE a # {}
      <4>1. a = {td.last + 1} /\ td.last + 1 <= MaxServerId
        BY <2>1, <2>2, <3>2, InstanceAssumption DEF Additions
      <4>2. Cardinality(a) = 1
        BY <4>1, FS_Singleton
      <4> QED
        BY <2>2, <4>1, <4>2, InstanceAssumption DEF ServerIds
    <3> QED
      BY <3>1, <3>2
  <2>4. /\ t \in {"Unknown"} \cup Types
        /\ VersionedAfter(id, desc) \cap k \subseteq ServerIds
        /\ (td.known \cup {id}) \cap k \subseteq ServerIds
        /\ (b /\ (td.known \cup {id}) \cap k # {}) \in BOOLEAN
    BY <2>1, <2>2 DEF TypesAfter
  <2> QED
    BY <1>3, <2>1, <2>3, <2>4 DEF Descriptions, Described
<1> QED
  BY <1>1, <1>2, <1>3

(* A modification that begins.                                             *)
LEMMA BeginTyped ==
  ASSUME NEW owner \in Monitors \cup {App}, NEW new \in Descriptions,
         Begin(owner, new)
  PROVE  /\ mod = None /\ mod' \in Modifications /\ mod' # None
         /\ mod'.owner = owner /\ mod'.td = new
         /\ mod'.step = "add" /\ mod'.orphans = {}
BY NamesAssumption DEF Begin, Modifications

(* The application begins one: nothing but app and mod changes.            *)
LEMMA AppBegins ==
  ASSUME IInv, NEW new \in Descriptions, Begin(App, new), stop.pc = "idle",
         app' \in {"start", "handshake"}, app' = "start" => new = td,
         app # "new" \/ scanner_state' = "running",
         scanner_state' = scanner_state \/ app = "new",
         scanner_state' \in {"off", "running", "shutting_down"},
         scanner_state' = "running" \/ scanner_state' = scanner_state,
         UNCHANGED <<td, monitor, selector, srv, stop>>
  PROVE  IInv'
<1> USE DEF IInv
<1>1. /\ mod = None /\ mod' \in Modifications /\ mod' # None
      /\ mod'.owner = App /\ mod'.td = new
      /\ mod'.step = "add" /\ mod'.orphans = {}
  BY BeginTyped
<1>2. Kept /\ HoldingKept /\ MonitorInv' /\ Listed' = Listed
  BY KeptAll, KeptMonitors
<1>3. TypeOK'
  BY <1>1, <1>2, NamesAssumption DEF TypeOK, At
<1>4. ModInv' /\ NoMissedUpdate'
  BY <1>1 DEF ModInv, NoMissedUpdate
<1>5. scanner_state' # "off" /\ scanner_state' # "shutting_down"
  BY DEF StopInv
<1>6. StopInv'
  BY <1>1, <1>2, <1>5 DEF StopInv
<1>7. ScanInv'
  <2>1. CASE app = "new"
    BY <1>2, <2>1 DEF StopInv, ScanInv
  <2>2. CASE app # "new"
    BY <1>2, <2>2 DEF ScanInv
  <2> QED
    BY <2>1, <2>2
<1> QED
  BY <1>2, <1>3, <1>4, <1>6, <1>7

(* The first pop of a client starts the monitoring.                        *)
LEMMA StartStep ==
  ASSUME IInv, Start
  PROVE  IInv'
<1>1. td \in Descriptions
  BY DEF IInv, TypeOK
<1> QED
  BY <1>1, AppBegins DEF Start

(* A handshake begins to publish what the server said.                     *)
LEMMA HandshakeStep ==
  ASSUME IInv, Handshake
  PROVE  IInv'
<1>1. td \in Descriptions
  BY DEF IInv, TypeOK
<1>2. PICK id \in td.servers, d \in Replies :
        \E new \in AfterHello(id, d) : Begin(App, new)
  BY DEF Handshake
<1>3. PICK new \in AfterHello(id, d) : Begin(App, new)
  BY <1>2
<1>4. id \in ServerIds
  BY <1>1 DEF Descriptions
<1>5. new \in Descriptions
  BY <1>1, <1>3, <1>4, AfterHelloTyped
<1>6. /\ app = "ready" /\ stop.pc = "idle" /\ app' = "handshake"
      /\ UNCHANGED <<scanner_state, td, monitor, selector, srv, stop>>
  BY DEF Handshake, Working
<1>7. scanner_state \in {"off", "running", "shutting_down"}
  BY DEF IInv, TypeOK
<1> QED
  BY <1>3, <1>5, <1>6, <1>7, AppBegins

(* A broadcast leaves no selector asleep.                                  *)
LEMMA BroadcastWakes ==
  ASSUME TypeOK, Broadcast
  PROVE  /\ selector' \in [Selectors -> {"idle", "select", "lock", "asleep", "woken"}]
         /\ \A s \in Selectors : selector'[s] # "asleep"
BY DEF TypeOK, Broadcast

(* The modification that started the monitors ends.                        *)
LEMMA StartCommitStep ==
  ASSUME IInv, StartCommit
  PROVE  IInv'
<1> USE DEF IInv
<1>1. /\ mod # None /\ mod.owner = App /\ td' = td /\ mod' = None
      /\ app = "start" /\ app' = "ready"
      /\ UNCHANGED <<scanner_state, monitor, selector, stop>>
  BY DEF StartCommit, Committing, Commit, ModInv
<1>2. srv' \in [pc : {"none", "top", "rescan", "query", "apply", "pause",
                      "sleep", "exited", "aborted"}, signalled : BOOLEAN]
      /\ (srv' = srv \/ srv'.pc = "top")
  BY DEF StartCommit, TypeOK
<1>3. Kept /\ HoldingKept /\ MonitorInv' /\ Listed' = Listed
  BY <1>1, KeptAll, KeptMonitors
<1>4. TypeOK'
  BY <1>1, <1>2, <1>3, NamesAssumption DEF TypeOK, At
<1>5. ModInv' /\ NoMissedUpdate' /\ ScanInv'
  BY <1>1, <1>3 DEF ModInv, NoMissedUpdate, ScanInv
<1>6. stop.pc = "idle"
  BY <1>1 DEF StopInv, TypeOK
<1>7. StopInv'
  BY <1>1, <1>2, <1>3, <1>6 DEF StopInv
<1> QED
  BY <1>3, <1>4, <1>5, <1>7

(* A handshake has published what it learnt.                               *)
LEMMA HandshakeCommitStep ==
  ASSUME IInv, HandshakeCommit
  PROVE  IInv'
<1> USE DEF IInv
<1>1. /\ mod # None /\ mod.owner = App /\ mod' = None
      /\ td' = [mod.td EXCEPT !.quiet = FALSE]
      /\ app = "handshake" /\ app' = "ready"
      /\ UNCHANGED <<scanner_state, monitor, srv, stop>>
  BY DEF HandshakeCommit, Committing, CommitBroadcast
<1>2. td' \in Descriptions
  BY <1>1 DEF TypeOK, Modifications, Descriptions
<1>3. Kept /\ HoldingKept /\ MonitorInv' /\ Listed' = Listed
  BY <1>1, KeptAll, KeptMonitors
<1>b. /\ selector' \in [Selectors -> {"idle", "select", "lock", "asleep", "woken"}]
      /\ \A s \in Selectors : selector'[s] # "asleep"
  BY BroadcastWakes DEF HandshakeCommit, CommitBroadcast
<1>4. TypeOK'
  BY <1>1, <1>2, <1>3, <1>b, NamesAssumption DEF TypeOK, At
<1>5. ModInv' /\ NoMissedUpdate' /\ ScanInv'
  BY <1>1, <1>b DEF ModInv, NoMissedUpdate, ScanInv
<1>6. stop.pc = "idle"
  BY <1>1 DEF StopInv, TypeOK
<1>7. StopInv'
  BY <1>1, <1>3, <1>6 DEF StopInv
<1> QED
  BY <1>3, <1>4, <1>5, <1>7

(* A monitor's thread begins to publish the result of its check.           *)
LEMMA UpdateBeginStep ==
  ASSUME IInv, NEW m \in Monitors, UpdateBegin(m)
  PROVE  IInv'
<1> DEFINE r == monitor[m]
           q == [r EXCEPT !.pc = "holding", !.scan = FALSE]
<1> USE DEF IInv
<1>1. td \in Descriptions /\ Id(m) \in ServerIds
  BY DEF TypeOK, Id, Monitors
<1>2. PICK new \in AfterHello(Id(m), r.desc) : Begin(m, new)
  BY DEF UpdateBegin
<1>3. new \in Descriptions
  BY <1>1, <1>2, AfterHelloTyped
<1>4. /\ mod = None /\ mod' \in Modifications /\ mod' # None
      /\ mod'.owner = m /\ mod'.step = "add" /\ mod'.orphans = {}
  BY <1>2, <1>3, BeginTyped
<1>5. /\ monitor' = [monitor EXCEPT ![m] = q] /\ r.pc = "lock"
      /\ UNCHANGED <<scanner_state, td, app, selector, srv, stop>>
  BY DEF UpdateBegin, SetMonitor, At
<1>6. Sound(r) /\ r \in MonitorRecords /\ (m[1] = "rtt" => r.link = "none")
  BY AllSound DEF Sound
<1>t. q \in MonitorRecords
  BY <1>6, TypedMonitor
<1>7. /\ q.life = r.life /\ q.listed = r.listed /\ q.state = r.state
      /\ q.cancel = r.cancel /\ q.pc = "holding"
      /\ q.desc = r.desc /\ q.link = r.link /\ q.after = r.after
  BY <1>6 DEF MonitorRecords
<1> HIDE DEF q
<1>8. Sound(q)
  BY <1>t, <1>5, <1>6, <1>7 DEF Sound, PlaceInv, LifeInv, RequestInv, Awaits, Streaming
<1>9. /\ Kept /\ monitor'[m] = q
      /\ \A n \in Monitors : n # m => monitor'[n] = monitor[n]
  BY <1>5, <1>6, <1>7, <1>8, KeptOne
<1>10. ScansKept
  BY <1>7, <1>9 DEF ScansKept, Scans
<1>11. MonitorInv' /\ Listed' = Listed /\ ScanInv'
  BY <1>5, <1>9, <1>10, KeptMonitors, KeptScans
<1>12. TypeOK'
  <2>1. \A n \in Monitors : n # m => monitor[n].pc # "holding"
    BY <1>4 DEF TypeOK, At
  <2>2. \A n \in Monitors : monitor'[n].pc = "holding" <=> n = m
    BY <1>7, <1>9, <2>1
  <2> QED
    BY <1>4, <1>5, <1>9, <2>2 DEF TypeOK, At, Kept
<1>13. ModInv' /\ NoMissedUpdate'
  BY <1>4, <1>5, NamesAssumption DEF ModInv, NoMissedUpdate
<1>14. StopInv'
  <2>1. \A n \in Listed : monitor'[n].life = monitor[n].life
    BY <1>9 DEF Kept, Listed
  <2> QED
    BY <1>4, <1>5, <1>11, <2>1 DEF StopInv
<1> QED
  BY <1>11, <1>12, <1>13, <1>14

(* It has published it and wakes the selectors.                            *)
LEMMA UpdateCommitStep ==
  ASSUME IInv, NEW m \in Monitors, UpdateCommit(m)
  PROVE  IInv'
<1> DEFINE r == monitor[m]
           q == [r EXCEPT !.pc = r.after, !.after = "wait"]
<1> USE DEF IInv
<1>1. /\ mod # None /\ mod.owner = m /\ mod' = None
      /\ td' = [mod.td EXCEPT !.quiet = FALSE]
      /\ monitor' = [monitor EXCEPT ![m] = q] /\ r.pc = "holding"
      /\ UNCHANGED <<scanner_state, app, srv, stop>>
  BY DEF UpdateCommit, Committing, CommitBroadcast, Proceed, SetMonitor, At
<1>2. td' \in Descriptions
  BY <1>1 DEF TypeOK, Modifications, Descriptions
<1>b. /\ selector' \in [Selectors -> {"idle", "select", "lock", "asleep", "woken"}]
      /\ \A s \in Selectors : selector'[s] # "asleep"
  BY BroadcastWakes DEF UpdateCommit, CommitBroadcast
<1>6. Sound(r) /\ r \in MonitorRecords /\ (m[1] = "rtt" => r.link = "none")
  BY AllSound DEF Sound
<1>t. q \in MonitorRecords
  BY <1>6, TypedMonitor
<1>7. /\ q.life = r.life /\ q.listed = r.listed /\ q.state = r.state
      /\ q.cancel = r.cancel /\ q.pc = r.after
      /\ q.desc = r.desc /\ q.link = r.link /\ q.after = "wait"
      /\ r.after \in {"top", "wait"}
  BY <1>6 DEF MonitorRecords
<1> HIDE DEF q
<1>8. Sound(q)
  BY <1>t, <1>1, <1>6, <1>7 DEF Sound, PlaceInv, LifeInv, RequestInv, Awaits, Streaming
<1>9. /\ Kept /\ monitor'[m] = q
      /\ \A n \in Monitors : n # m => monitor'[n] = monitor[n]
  BY <1>1, <1>6, <1>7, <1>8, KeptOne
<1>11. MonitorInv' /\ Listed' = Listed
  BY <1>9, KeptMonitors
<1>12. TypeOK'
  <2>1. \A n \in Monitors : n # m => monitor[n].pc # "holding"
    BY <1>1 DEF TypeOK, At
  <2>2. \A n \in Monitors : monitor'[n].pc # "holding"
    BY <1>7, <1>9, <2>1
  <2> QED
    BY <1>1, <1>2, <1>b, <1>9, <2>2 DEF TypeOK, At, Kept
<1>13. ModInv' /\ NoMissedUpdate' /\ ScanInv'
  BY <1>1, <1>b, NamesAssumption DEF ModInv, NoMissedUpdate, ScanInv
<1>14. StopInv'
  <2>1. \A n \in Listed : monitor'[n].life = monitor[n].life
    BY <1>9 DEF Kept, Listed
  <2> QED
    BY <1>1, <1>11, <2>1 DEF StopInv
<1> QED
  BY <1>11, <1>12, <1>13, <1>14

----------------------------------------------------------------------------
(***************************************************************************)
(* Errors of the application, and the requests they make.                  *)
(***************************************************************************)
(* mongoc_topology_request_scan leaves every monitor as it was but for the *)
(* request, and reaches all of them unless the scanner is shutting down.   *)
LEMMA ScanAllKeeps ==
  ASSUME TypeOK, MonitorInv, monitor' = RequestScanAll(monitor)
  PROVE  /\ Kept /\ HoldingKept /\ ScansKept
         /\ scanner_state # "shutting_down" =>
              \A n \in Listed : n[1] = "hello" => monitor'[n].scan = TRUE
<1> DEFINE Asked(n) == /\ scanner_state # "shutting_down"
                       /\ n \in Listed /\ n[1] = "hello"
<1>1. \A n \in Monitors : monitor'[n] = IF Asked(n) THEN RequestScan(monitor[n])
                                                    ELSE monitor[n]
  BY DEF RequestScanAll
<1>2. DOMAIN monitor' = Monitors /\ monitor' = [n \in Monitors |-> monitor'[n]]
  BY DEF RequestScanAll, TypeOK
<1>3. ASSUME NEW n \in Monitors
      PROVE  /\ Sound(monitor'[n]) /\ SameMonitor(monitor'[n], monitor[n])
             /\ monitor'[n].state = monitor[n].state
             /\ monitor[n].scan => monitor'[n].scan
             /\ Asked(n) => monitor'[n].scan = TRUE
  <2>1. Sound(monitor[n])
    BY AllSound
  <2>2. CASE Asked(n)
    BY <1>1, <2>1, <2>2, ScanKeeps
  <2>3. CASE ~Asked(n)
    BY <1>1, <2>1, <2>3 DEF SameMonitor
  <2> QED
    BY <2>2, <2>3
<1>4. monitor' \in [Monitors -> MonitorRecords]
  BY <1>2, <1>3 DEF Sound
<1>5. Kept
  BY <1>3, <1>4, AllSound DEF Kept, SameMonitor
<1>6. HoldingKept
  BY <1>3 DEF HoldingKept, SameMonitor
<1>7. ScansKept
  BY <1>3 DEF ScansKept, Scans, SameMonitor, Awaits, Streaming
<1>8. scanner_state # "shutting_down" =>
        \A n \in Listed : n[1] = "hello" => monitor'[n].scan = TRUE
  BY <1>3 DEF Listed
<1> QED
  BY <1>5, <1>6, <1>7, <1>8

(* A description published without a broadcast that has become suitable,   *)
(* or was so already for a selector that sleeps, is marked.                *)
LEMMA QuietlyIs ==
  ASSUME td \in Descriptions, NEW new \in Descriptions, Quietly(new)
  PROVE  /\ td' \in Descriptions
         /\ td'.suitable => td'.quiet \/ (td.suitable /\ ~td.quiet)
<1>1. (new.suitable /\ (td.quiet \/ ~td.suitable)) \in BOOLEAN
      /\ {td.quiet, td.suitable, new.suitable} \subseteq BOOLEAN
  BY DEF Descriptions
<1>2. /\ td' \in Descriptions /\ td'.suitable = new.suitable
      /\ td'.quiet = (new.suitable /\ (td.quiet \/ ~td.suitable))
  BY <1>1 DEF Quietly, Descriptions
<1> QED
  BY <1>1, <1>2

(* An error of the application leaves the selectors asleep; what it makes  *)
(* suitable is marked.                                                     *)
LEMMA Invalidated ==
  ASSUME IInv, NEW id \in td.servers, Invalidate(id), Kept, HoldingKept, ScansKept
  PROVE  IInv'
<1> USE DEF IInv
<1>1. mod = None /\ UNCHANGED <<scanner_state, mod, app, selector, srv, stop>>
  BY DEF Invalidate
<1>2. td \in Descriptions /\ id \in ServerIds
  BY DEF TypeOK, Descriptions
<1>3. PICK new \in AfterHello(id, "unknown") : Quietly(new)
  BY DEF Invalidate
<1>7. new \in Descriptions
  BY <1>2, <1>3, AfterHelloTyped
<1>8. /\ td' \in Descriptions
      /\ td'.suitable => td'.quiet \/ (td.suitable /\ ~td.quiet)
  BY <1>2, <1>3, <1>7, QuietlyIs
<1>4. StopInv' /\ ScanInv' /\ MonitorInv' /\ Listed' = Listed
  BY <1>1, KeptStop, KeptScans, KeptMonitors
<1>5. TypeOK'
  BY <1>1, <1>8, <1>4 DEF TypeOK, Kept, HoldingKept, At
<1>6. ModInv' /\ NoMissedUpdate'
  BY <1>1, <1>8 DEF ModInv, NoMissedUpdate
<1> QED
  BY <1>4, <1>5, <1>6

(* A network error: the check its monitor waits for is cancelled.          *)
LEMMA NetworkErrorStep ==
  ASSUME IInv, NetworkError
  PROVE  IInv'
<1> USE DEF IInv
<1>1. PICK id \in td.servers :
        /\ Invalidate(id)
        /\ IF <<"hello", id>> \in Listed
           THEN SetMonitor(<<"hello", id>>, RequestCancel(monitor[<<"hello", id>>]))
           ELSE UNCHANGED monitor
  BY DEF NetworkError
<1> DEFINE m == <<"hello", id>>
           q == RequestCancel(monitor[m])
<1>2. CASE m \notin Listed
  BY <1>1, <1>2, KeptAll, Invalidated
<1>3. CASE m \in Listed
  <2>1. m \in Monitors /\ m[1] = "hello" /\ monitor' = [monitor EXCEPT ![m] = q]
    BY <1>1, <1>3 DEF Listed, SetMonitor
  <2>2. /\ Sound(q) /\ SameMonitor(q, monitor[m])
        /\ q.state = monitor[m].state /\ q.scan = monitor[m].scan
    BY <2>1, AllSound, CancelKeeps
  <2> HIDE DEF q, m
  <2>3. /\ Kept /\ monitor'[m] = q
        /\ \A n \in Monitors : n # m => monitor'[n] = monitor[n]
    BY <2>1, <2>2, KeptOne DEF SameMonitor
  <2>4. HoldingKept
    BY <2>2, <2>3 DEF HoldingKept, SameMonitor
  <2>5. ScansKept
    BY <2>2, <2>3 DEF ScansKept, Scans, SameMonitor, Awaits, Streaming
  <2> QED
    BY <1>1, <2>3, <2>4, <2>5, Invalidated
<1> QED
  BY <1>2, <1>3

(* A "not primary" error: all monitors are asked to scan.                  *)
LEMMA NotPrimaryErrorStep ==
  ASSUME IInv, NotPrimaryError
  PROVE  IInv'
<1>1. PICK id \in td.servers : Invalidate(id)
  BY DEF NotPrimaryError
<1>2. Kept /\ HoldingKept /\ ScansKept
  BY ScanAllKeeps DEF NotPrimaryError, IInv
<1> QED
  BY <1>1, <1>2, Invalidated

----------------------------------------------------------------------------
(***************************************************************************)
(* Server selection.                                                       *)
(***************************************************************************)
(* A selector that moves, and does not fall asleep without having asked    *)
(* for a scan and having looked under the mutex.                           *)
LEMMA SelectorMoves ==
  ASSUME IInv, NEW s \in Selectors,
         NEW label \in {"idle", "select", "lock", "asleep", "woken"}, Goto(s, label),
         Kept, HoldingKept, ScansKept,
         label = "asleep" =>
           /\ ~td.suitable
           /\ scanner_state # "shutting_down" =>
                \A n \in Listed : n[1] = "hello" => monitor'[n].scan = TRUE,
         UNCHANGED <<scanner_state, td, mod, app, srv, stop>>
  PROVE  IInv'
<1> USE DEF IInv
<1>1. /\ selector' \in [Selectors -> {"idle", "select", "lock", "asleep", "woken"}]
      /\ selector'[s] = label
      /\ \A t \in Selectors : t # s => selector'[t] = selector[t]
  BY DEF Goto, TypeOK
<1>2. StopInv' /\ MonitorInv' /\ Listed' = Listed
  BY KeptStop, KeptMonitors
<1>3. TypeOK'
  BY <1>1, <1>2 DEF TypeOK, Kept, HoldingKept, At
<1>4. ModInv' /\ NoMissedUpdate'
  BY <1>1 DEF ModInv, NoMissedUpdate
<1>5. ScanInv'
  <2> SUFFICES ASSUME scanner_state = "running",
                      NEW t \in Selectors, selector'[t] = "asleep",
                      NEW m \in Listed, m[1] = "hello",
                      monitor'[m].state = "running"
               PROVE  Scans(monitor'[m])
    BY <1>2 DEF ScanInv
  <2>1. CASE t = s
    BY <1>1, <2>1 DEF Scans
  <2>2. CASE t # s
    <3>1. m \in Monitors /\ selector[t] = "asleep"
      BY <1>1, <2>2 DEF Listed
    <3>2. monitor[m].state = "running" /\ (Scans(monitor[m]) => Scans(monitor'[m]))
      BY <3>1 DEF ScansKept
    <3> QED
      BY <3>1, <3>2 DEF ScanInv
  <2> QED
    BY <2>1, <2>2
<1> QED
  BY <1>2, <1>3, <1>4, <1>5

(* Every step of mongoc_topology_select_server_id.                         *)
LEMMA SelectStep ==
  ASSUME IInv, NEW s \in Selectors,
         \/ SelectBegin(s) \/ Select(s) \/ SelectLocked(s)
         \/ SelectAwake(s) \/ SelectTimeout(s)
  PROVE  IInv'
<1>1. CASE SelectLocked(s) /\ ~td.suitable
  <2>1. /\ Goto(s, "asleep") /\ monitor' = RequestScanAll(monitor)
        /\ UNCHANGED <<scanner_state, td, mod, app, srv, stop>>
    BY <1>1 DEF SelectLocked
  <2>2. /\ Kept /\ HoldingKept /\ ScansKept
        /\ scanner_state # "shutting_down" =>
             \A n \in Listed : n[1] = "hello" => monitor'[n].scan = TRUE
    BY <2>1, ScanAllKeeps DEF IInv
  <2> QED
    BY <1>1, <2>1, <2>2, SelectorMoves
<1>2. CASE ~(SelectLocked(s) /\ ~td.suitable)
  <2>1. /\ Goto(s, "idle") \/ Goto(s, "select") \/ Goto(s, "lock")
        /\ UNCHANGED <<scanner_state, td, mod, monitor, app, srv, stop>>
    BY <1>2 DEF SelectBegin, Select, SelectLocked, SelectAwake, SelectTimeout
  <2>2. Kept /\ HoldingKept /\ ScansKept
    BY <2>1, KeptAll DEF IInv
  <2> QED
    BY <2>1, <2>2, SelectorMoves
<1> QED
  BY <1>1, <1>2

----------------------------------------------------------------------------
(***************************************************************************)
(* The SRV poller.                                                         *)
(***************************************************************************)
SrvPlaces == {"top", "rescan", "query", "apply", "pause", "sleep", "exited",
              "aborted"}

(* The poller moves, and goes to sleep only while the scanner runs.        *)
LEMMA SrvMoves ==
  ASSUME IInv, srv.pc \notin {"none", "exited"}, NEW label \in SrvPlaces,
         SrvGoto(label), label = "sleep" => scanner_state = "running",
         td' = td \/ mod = None, td' \in Descriptions,
         td' = td \/ (td'.suitable => td'.quiet \/ (td.suitable /\ ~td.quiet)),
         UNCHANGED <<scanner_state, mod, monitor, app, selector, stop>>
  PROVE  IInv'
<1> USE DEF IInv
<1>1. /\ srv' \in [pc : {"none", "top", "rescan", "query", "apply", "pause",
                         "sleep", "exited", "aborted"}, signalled : BOOLEAN]
      /\ srv'.pc = label
  BY DEF SrvGoto, SrvPlaces
<1>2. Kept /\ HoldingKept /\ MonitorInv' /\ Listed' = Listed
  BY KeptAll, KeptMonitors
<1>3. TypeOK'
  BY <1>1, <1>2 DEF TypeOK, At
<1>4. ModInv' /\ NoMissedUpdate' /\ ScanInv'
  BY <1>2 DEF ModInv, NoMissedUpdate, ScanInv
<1>5. app # "new" /\ stop.pc # "done"
  BY DEF StopInv
<1>6. StopInv'
  BY <1>1, <1>2, <1>5 DEF StopInv
<1> QED
  BY <1>2, <1>3, <1>4, <1>6

(* Every step of srv_polling_run that leaves the description alone.        *)
LEMMA SrvThreadStep ==
  ASSUME IInv, SrvThread
  PROVE  IInv'
<1>1. /\ td \in Descriptions /\ srv.pc \notin {"none", "exited"}
      /\ UNCHANGED <<scanner_state, td, mod, monitor, app, selector, stop>>
  BY DEF IInv, TypeOK, SrvThread, SrvTop, SrvRescan, SrvQuery, SrvPause, SrvAwake
<1>2. PICK label \in SrvPlaces :
        SrvGoto(label) /\ (label = "sleep" => scanner_state = "running")
  <2>1. CASE SrvTop
    BY <2>1 DEF SrvTop, SrvPlaces
  <2>2. CASE SrvRescan
    <3>1. \/ SrvGoto("query") \/ SrvGoto("pause") \/ SrvGoto("aborted")
      BY <2>2 DEF SrvRescan
    <3> QED
      BY <3>1 DEF SrvPlaces
  <2>3. CASE SrvQuery
    BY <2>3 DEF SrvQuery, SrvPlaces
  <2>4. CASE SrvPause
    BY <2>4 DEF SrvPause, SrvPlaces
  <2>5. CASE SrvAwake
    BY <2>5 DEF SrvAwake, SrvPlaces
  <2> QED
    BY <2>1, <2>2, <2>3, <2>4, <2>5 DEF SrvThread
<1> QED
  BY <1>1, <1>2, SrvMoves

(* New hosts are applied under the mutex, and nobody is woken.             *)
LEMMA SrvApplyStep ==
  ASSUME IInv, SrvApply
  PROVE  IInv'
<1>1. /\ srv.pc = "apply" /\ mod = None /\ SrvGoto("pause")
      /\ UNCHANGED <<scanner_state, mod, monitor, app, selector, stop>>
      /\ td \in Descriptions /\ td.last \in 0 .. MaxServerId
      /\ td.servers \subseteq ServerIds /\ td.versioned \subseteq ServerIds
      /\ td.known \subseteq ServerIds
  BY DEF SrvApply, IInv, TypeOK, Descriptions
<1>2. /\ td' \in Descriptions
      /\ td' = td \/ (td'.suitable => td'.quiet \/ (td.suitable /\ ~td.quiet))
  <2>1. CASE td' = td
    BY <1>1, <2>1
  <2>2. ASSUME NEW keep \in SUBSET td.servers, NEW n \in 0 .. MaxServerId - td.last,
               NEW b \in BOOLEAN,
               Quietly([td EXCEPT
                          !.servers = keep \cup (td.last + 1 .. td.last + n),
                          !.known = @ \cap keep, !.versioned = @ \cap keep,
                          !.last = @ + n,
                          !.suitable = b /\ td.known \cap keep # {}])
        PROVE  /\ td' \in Descriptions
               /\ td'.suitable => td'.quiet \/ (td.suitable /\ ~td.quiet)
    <3>1. /\ keep \cup (td.last + 1 .. td.last + n) \in SUBSET ServerIds
          /\ td.last + n \in 0 .. MaxServerId
      BY <1>1, <2>2, InstanceAssumption DEF ServerIds
    <3>2. /\ (b /\ td.known \cap keep # {}) \in BOOLEAN
          /\ td.versioned \cap keep \in SUBSET ServerIds
          /\ td.known \cap keep \in SUBSET ServerIds
      BY <1>1
    <3> DEFINE ss == keep \cup (td.last + 1 .. td.last + n)
               bb == b /\ td.known \cap keep # {}
               vv == td.versioned \cap keep
               kk == td.known \cap keep
               ll == td.last + n
               new == [td EXCEPT !.servers = ss, !.known = kk, !.versioned = vv,
                                 !.last = ll, !.suitable = bb]
    <3>3. Quietly(new)
      BY <2>2
    <3> HIDE DEF ss, bb, vv, kk, ll
    <3>4. /\ ss \in SUBSET ServerIds /\ vv \in SUBSET ServerIds
          /\ kk \in SUBSET ServerIds
          /\ ll \in 0 .. MaxServerId /\ bb \in BOOLEAN
      BY <3>1, <3>2 DEF ss, bb, vv, kk, ll
    <3>5. new \in Descriptions
      BY <1>1, <3>4 DEF Descriptions
    <3> QED
      BY <1>1, <3>3, <3>5, QuietlyIs
  <2>3. \/ td' = td
        \/ \E keep \in SUBSET td.servers, n \in 0 .. MaxServerId - td.last :
           \E b \in BOOLEAN :
             Quietly([td EXCEPT
                        !.servers = keep \cup (td.last + 1 .. td.last + n),
                        !.known = @ \cap keep, !.versioned = @ \cap keep,
                        !.last = @ + n,
                        !.suitable = b /\ td.known \cap keep # {}])
    <3>1. td.suitable \in BOOLEAN
      BY <1>1 DEF Descriptions
    <3> QED
      BY <3>1 DEF SrvApply
  <2> QED
    BY <2>1, <2>2, <2>3
<1>3. "pause" \in SrvPlaces
  BY DEF SrvPlaces
<1> QED
  BY <1>1, <1>2, <1>3, SrvMoves

----------------------------------------------------------------------------
(***************************************************************************)
(* Reconciling the monitors.                                               *)
(***************************************************************************)
(* A monitor that was just made: its thread is about to start its first    *)
(* check, or could not be created.                                         *)
Fresh(r) ==
  /\ Sound(r) /\ r.listed = TRUE /\ r.life = "live" /\ r.pc # "holding"
  /\ r.link = "none" /\ (r.state = "running" => r.pc = "top")

(* Reconcile makes such monitors.                                          *)
LEMMA StartedFresh ==
  ASSUME NEW m \in Monitors, NEW r \in Started(m)
  PROVE  Fresh(r)
<1> USE DEF Fresh, Sound, PlaceInv, LifeInv, RequestInv, Awaits
<1>1. PICK d \in {"unknown", "versioned"} :
        \/ r = [life |-> "live", listed |-> TRUE, state |-> "running",
                scan |-> FALSE, cancel |-> FALSE, signalled |-> FALSE,
                pc |-> "top", desc |-> d, link |-> "none",
                due |-> "long", after |-> "wait"]
        \/ r = [life |-> "live", listed |-> TRUE, state |-> "off",
                scan |-> FALSE, cancel |-> FALSE, signalled |-> FALSE,
                pc |-> "none", desc |-> "unknown", link |-> "none",
                due |-> "long", after |-> "wait"]
  BY DEF Started, Absent
<1>2. r \in MonitorRecords
  <2>1. \A e \in {"unknown", "versioned"} :
          [life |-> "live", listed |-> TRUE, state |-> "running",
           scan |-> FALSE, cancel |-> FALSE, signalled |-> FALSE,
           pc |-> "top", desc |-> e, link |-> "none",
           due |-> "long", after |-> "wait"] \in MonitorRecords
    BY DEF MonitorRecords
  <2>2. [life |-> "live", listed |-> TRUE, state |-> "off",
         scan |-> FALSE, cancel |-> FALSE, signalled |-> FALSE,
         pc |-> "none", desc |-> "unknown", link |-> "none",
         due |-> "long", after |-> "wait"] \in MonitorRecords
    BY DEF MonitorRecords
  <2> QED
    BY <1>1, <2>1, <2>2
<1> QED
  BY <1>1, <1>2

(* The monitors that are missing are made, all in one critical section,    *)
(* and only while the scanner runs.                                        *)
LEMMA ReconcileStep ==
  ASSUME IInv, Reconcile
  PROVE  IInv'
<1> USE DEF IInv
<1>0. /\ mod # None /\ mod.step = "add" /\ mod \in Modifications
      /\ mod.orphans = {}
      /\ UNCHANGED <<scanner_state, td, app, selector, srv, stop>>
  BY DEF Reconcile, TypeOK, ModInv
<1>1. CASE scanner_state = "running"
  <2>1. PICK new \in [Wanted -> UNION {Started(m) : m \in Wanted}] :
          /\ \A m \in Wanted : new[m] \in Started(m)
          /\ monitor' = [m \in Monitors |->
                           IF m \in Wanted THEN new[m] ELSE monitor[m]]
    BY <1>1 DEF Reconcile
  <2>2. mod' = [mod EXCEPT !.step = "remove", !.orphans = Orphans]
    BY <1>1 DEF Reconcile
  <2>3. Wanted \subseteq Monitors /\ Wanted \cap Listed = {} /\ Orphans \subseteq Listed
        /\ Listed \subseteq Monitors
    BY DEF Wanted, Orphans, Listed
  <2>4. /\ \A m \in Wanted : Fresh(monitor'[m])
        /\ \A m \in Monitors \ Wanted : monitor'[m] = monitor[m]
        /\ monitor' = [m \in Monitors |-> monitor'[m]]
    BY <2>1, <2>3, StartedFresh
  <2>5. Listed' = Listed \cup Wanted
    BY <2>3, <2>4 DEF Listed, Fresh
  <2>6. \A m \in Monitors : /\ Sound(monitor'[m])
                            /\ m[1] = "rtt" => monitor'[m].link = "none"
    BY <2>4, AllSound DEF Fresh
  <2>7. MonitorInv' /\ monitor' \in [Monitors -> MonitorRecords]
    BY <2>4, <2>6 DEF MonitorInv, Sound
  <2>8. \A m \in Monitors : monitor'[m].pc = "holding" <=> monitor[m].pc = "holding"
    <3>1. \A m \in Wanted : monitor[m].pc # "holding"
      BY <2>3, AllSound DEF Sound, LifeInv, Listed
    <3> QED
      BY <2>4, <3>1 DEF Fresh
  <2>9. /\ mod' \in Modifications /\ mod' # None /\ mod'.owner = mod.owner
        /\ mod'.td = mod.td /\ mod'.step = "remove" /\ mod'.orphans = Orphans
    BY <1>0, <2>2, <2>3, NamesAssumption DEF Modifications
  <2>10. TypeOK'
    BY <1>0, <2>3, <2>5, <2>7, <2>8, <2>9 DEF TypeOK, At
  <2>11. ModInv' /\ NoMissedUpdate'
    BY <1>0, <2>9 DEF ModInv, NoMissedUpdate
  <2>12. stop.pc = "idle" /\ app # "new"
    BY <1>1 DEF StopInv, TypeOK
  <2>13. StopInv'
    <3>1. \A m \in Listed' : monitor'[m].life # "freed"
      BY <2>3, <2>4, <2>5, <2>12 DEF StopInv, Fresh
    <3> QED
      BY <1>0, <2>12, <3>1 DEF StopInv
  <2>14. ScanInv'
    <3> SUFFICES ASSUME NEW s \in Selectors, selector[s] = "asleep",
                        NEW m \in Listed', m[1] = "hello",
                        monitor'[m].state = "running"
                 PROVE  Scans(monitor'[m])
      BY <1>0 DEF ScanInv
    <3>1. CASE m \in Wanted
      BY <2>4, <3>1 DEF Fresh, Scans, Awaits
    <3>2. CASE m \in Listed
      BY <1>1, <2>3, <2>4, <3>2 DEF ScanInv
    <3> QED
      BY <2>5, <3>1, <3>2
  <2> QED
    BY <2>7, <2>10, <2>11, <2>13, <2>14
<1>2. CASE scanner_state # "running"
  <2>1. mod' = [mod EXCEPT !.step = "remove"] /\ UNCHANGED monitor
    BY <1>2 DEF Reconcile
  <2>2. /\ mod' \in Modifications /\ mod' # None /\ mod'.owner = mod.owner
        /\ mod'.td = mod.td /\ mod'.step = "remove" /\ mod'.orphans = {}
    BY <1>0, <2>1, NamesAssumption DEF Modifications
  <2>3. Kept /\ HoldingKept /\ MonitorInv' /\ Listed' = Listed
    BY <2>1, KeptAll, KeptMonitors
  <2>4. TypeOK'
    BY <1>0, <2>1, <2>2, <2>3 DEF TypeOK, At
  <2>5. ModInv' /\ NoMissedUpdate' /\ ScanInv'
    BY <1>0, <1>2, <2>2 DEF ModInv, NoMissedUpdate, ScanInv
  <2>6. StopInv'
    BY <1>0, <2>1, <2>2, <2>3 DEF StopInv
  <2> QED
    BY <2>3, <2>4, <2>5, <2>6
<1> QED
  BY <1>1, <1>2

(* One monitor's server has left: it is told to shut down, and freed when  *)
(* its thread is gone.                                                     *)
LEMMA RemoveOrphanStep ==
  ASSUME IInv, RemoveOrphan
  PROVE  IInv'
<1> USE DEF IInv
<1> DEFINE m == First(mod.orphans)
           r == RequestShutdown(monitor[m])
           q == IF r.state = "off"
                THEN [r EXCEPT !.life = "freed", !.listed = FALSE] ELSE r
<1>0. /\ mod # None /\ mod.orphans # {} /\ mod \in Modifications
      /\ mod.orphans \subseteq Listed /\ Listed \subseteq Monitors
      /\ CanRequestShutdown(monitor[m])
      /\ monitor' = [monitor EXCEPT ![m] = q]
      /\ mod' = [mod EXCEPT !.orphans = @ \ {m}]
      /\ UNCHANGED <<scanner_state, td, app, selector, srv, stop>>
  BY DEF RemoveOrphan, TypeOK, Listed, SetMonitor
<1>1. m \in mod.orphans
  BY <1>0, FirstIn
<1>2. m \in Listed /\ m \in Monitors
  BY <1>0, <1>1
<1> HIDE DEF m
<1>3. Sound(monitor[m]) /\ (m[1] = "rtt" => monitor[m].link = "none")
  BY <1>2, AllSound
<1>4. /\ Sound(r) /\ SameMonitor(r, monitor[m]) /\ r.state # "running"
      /\ r.state = "off" => r.pc \in {"none", "exited"}
  BY <1>0, <1>3, ShutdownKeeps
<1> HIDE DEF r
<1>5. /\ Sound(q) /\ q.state # "running" /\ q.link = r.link /\ q.pc = r.pc
      /\ q.listed = TRUE \/ q.listed = FALSE
      /\ q.life = "freed" => (q.listed = FALSE \/ monitor[m].life = "freed")
  <2>1. CASE r.state = "off"
    <3>1. q = [r EXCEPT !.life = "freed", !.listed = FALSE]
      BY <2>1
    <3>r. r \in MonitorRecords /\ PlaceInv(r) /\ LifeInv(r) /\ RequestInv(r)
      BY <1>4 DEF Sound
    <3>t. [r EXCEPT !.life = "freed", !.listed = FALSE] \in MonitorRecords
      BY <3>r, Zenon DEF MonitorRecords
    <3>2. q \in MonitorRecords
      BY <3>1, <3>t
    <3>3. /\ q.life = "freed" /\ q.listed = FALSE /\ q.state = r.state
          /\ q.scan = r.scan /\ q.cancel = r.cancel
          /\ q.signalled = r.signalled /\ q.pc = r.pc /\ q.desc = r.desc
          /\ q.link = r.link /\ q.after = r.after
      BY <3>r, <3>1 DEF MonitorRecords
    <3> HIDE DEF q
    <3>4. PlaceInv(q) /\ LifeInv(q)
      BY <1>4, <2>1, <3>r, <3>3 DEF PlaceInv, LifeInv
    <3>5. RequestInv(q)
      BY <3>r, <3>3 DEF RequestInv, Awaits, Streaming
    <3> QED
      BY <1>4, <3>2, <3>3, <3>4, <3>5 DEF Sound
  <2>2. CASE r.state # "off"
    <3>1. q = r
      BY <2>2
    <3> QED
      BY <1>4, <3>1 DEF Sound, SameMonitor, MonitorRecords
  <2> QED
    BY <2>1, <2>2
<1> HIDE DEF q
<1>6. /\ monitor' \in [Monitors -> MonitorRecords] /\ monitor'[m] = q
      /\ \A n \in Monitors : n # m => monitor'[n] = monitor[n]
  BY <1>0, <1>2, <1>5 DEF TypeOK, Sound
<1>7. MonitorInv'
  BY <1>3, <1>4, <1>5, <1>6 DEF MonitorInv, Sound, SameMonitor
<1>8. Listed \ {m} \subseteq Listed' /\ Listed' \subseteq Listed
      /\ (m \in Listed' => q.life # "freed" \/ monitor[m].life = "freed")
  BY <1>2, <1>5, <1>6 DEF Listed
<1>9. /\ mod' \in Modifications /\ mod' # None /\ mod'.owner = mod.owner
      /\ mod'.td = mod.td /\ mod'.step = mod.step
      /\ mod'.orphans = mod.orphans \ {m}
  BY <1>0, NamesAssumption DEF Modifications
<1>10. \A n \in Monitors : monitor'[n].pc = "holding" <=> monitor[n].pc = "holding"
  BY <1>4, <1>5, <1>6 DEF SameMonitor
<1>11. TypeOK'
  BY <1>0, <1>6, <1>8, <1>9, <1>10 DEF TypeOK, At
<1>12. ModInv' /\ NoMissedUpdate'
  BY <1>0, <1>9 DEF ModInv, NoMissedUpdate
<1>13. ScanInv'
  BY <1>0, <1>2, <1>5, <1>6, <1>8 DEF ScanInv
<1>14. StopInv'
  <2>1. stop.pc \notin {"signal", "wait", "done"}
    BY <1>0 DEF StopInv
  <2>2. \A n \in Listed' : monitor'[n].life # "freed"
    BY <1>0, <1>2, <1>6, <1>8, <2>1 DEF StopInv
  <2> QED
    BY <1>0, <1>2, <1>8, <1>9, <2>1, <2>2 DEF StopInv
<1> QED
  BY <1>7, <1>11, <1>12, <1>13, <1>14

----------------------------------------------------------------------------
(***************************************************************************)
(* Stopping.                                                               *)
(***************************************************************************)
StopRecords ==
  [pc : {"idle", "count", "signal", "wait", "done"},
   todo : SUBSET Monitors, joining : Monitors \cup {None}]

(* Stop is at a new place, and nobody is being joined.                     *)
LEMMA StopAtTyped ==
  ASSUME NEW label \in {"idle", "count", "signal", "wait", "done"},
         NEW todo \in SUBSET Monitors, StopAt(label, todo)
  PROVE  /\ stop' \in StopRecords
         /\ stop'.pc = label /\ stop'.todo = todo /\ stop'.joining = None
BY DEF StopAt, StopRecords

(* The pool is destroyed: the scanner is told, and the SRV poller woken.   *)
LEMMA StopBeginStep ==
  ASSUME IInv, StopBegin
  PROVE  IInv'
<1> USE DEF IInv
<1>0. /\ stop.pc = "idle" /\ app \in {"new", "ready"}
      /\ UNCHANGED <<td, mod, monitor, app, selector>>
  BY DEF StopBegin
<1>1. Kept /\ HoldingKept /\ MonitorInv' /\ Listed' = Listed
  BY <1>0, KeptAll, KeptMonitors
<1>2. ModInv' /\ NoMissedUpdate'
  BY <1>0 DEF ModInv, NoMissedUpdate
<1>3. stop.joining = None
  BY <1>0 DEF StopInv
<1>4. CASE scanner_state = "running"
  <2>1. /\ scanner_state' = "shutting_down" /\ StopAt("count", {})
        /\ srv' = [srv EXCEPT !.signalled = (srv.pc = "sleep")]
    BY <1>4 DEF StopBegin
  <2>2. /\ stop' \in StopRecords /\ stop'.pc = "count" /\ stop'.todo = {}
        /\ stop'.joining = None
    BY <2>1, StopAtTyped
  <2>3. /\ srv' \in [pc : {"none", "top", "rescan", "query", "apply", "pause",
                           "sleep", "exited", "aborted"}, signalled : BOOLEAN]
        /\ srv'.pc = srv.pc /\ (srv.pc = "sleep" => srv'.signalled)
    BY <2>1 DEF TypeOK
  <2>4. TypeOK'
    BY <1>0, <1>1, <2>1, <2>2, <2>3 DEF TypeOK, At, StopRecords
  <2>5. StopInv'
    BY <1>0, <1>1, <2>1, <2>2, <2>3 DEF StopInv
  <2>6. ScanInv'
    BY <2>1 DEF ScanInv
  <2> QED
    BY <1>1, <1>2, <2>4, <2>5, <2>6
<1>5. CASE scanner_state # "running"
  <2>1. StopAt("done", {}) /\ UNCHANGED <<scanner_state, srv>>
    BY <1>5 DEF StopBegin
  <2>2. /\ stop' \in StopRecords /\ stop'.pc = "done" /\ stop'.todo = {}
        /\ stop'.joining = None
    BY <2>1, StopAtTyped
  <2>3. scanner_state = "off" /\ app = "new"
    BY <1>0, <1>5 DEF StopInv, TypeOK
  <2>4. TypeOK'
    BY <1>0, <1>1, <2>1, <2>2 DEF TypeOK, At, StopRecords
  <2>5. StopInv'
    BY <1>0, <1>1, <2>1, <2>2, <2>3 DEF StopInv
  <2>6. ScanInv'
    BY <1>5, <2>1 DEF ScanInv
  <2> QED
    BY <1>1, <1>2, <2>4, <2>5, <2>6
<1> QED
  BY <1>4, <1>5

(* The monitors are counted under the mutex, while no modification runs.   *)
LEMMA StopCountStep ==
  ASSUME IInv, StopCount
  PROVE  IInv'
<1> USE DEF IInv
<1>0. /\ stop.pc = "count" /\ mod = None /\ StopAt("signal", Listed)
      /\ UNCHANGED <<scanner_state, td, mod, monitor, app, selector, srv>>
      /\ Listed \in SUBSET Monitors
  BY DEF StopCount, Listed
<1>1. Kept /\ HoldingKept /\ MonitorInv' /\ Listed' = Listed
  BY <1>0, KeptAll, KeptMonitors
<1>2. /\ stop' \in StopRecords /\ stop'.pc = "signal" /\ stop'.todo = Listed
      /\ stop'.joining = None
  BY <1>0, StopAtTyped
<1>3. TypeOK'
  BY <1>0, <1>1, <1>2 DEF TypeOK, At, StopRecords
<1>4. ModInv' /\ NoMissedUpdate' /\ ScanInv'
  BY <1>0, <1>1 DEF ModInv, NoMissedUpdate, ScanInv
<1>5. StopInv'
  BY <1>0, <1>1, <1>2 DEF StopInv
<1> QED
  BY <1>1, <1>3, <1>4, <1>5

(* A step of stop that may change one listed monitor, while the scanner is *)
(* shutting down.                                                          *)
LEMMA StopMoves ==
  ASSUME IInv, scanner_state = "shutting_down", NEW m \in Listed, NEW q,
         monitor' = [monitor EXCEPT ![m] = q], Sound(q), q.listed = TRUE,
         q.link = monitor[m].link, q.pc = monitor[m].pc,
         stop' \in StopRecords,
         UNCHANGED <<scanner_state, td, mod, app, selector, srv>>
  PROVE  /\ TypeOK' /\ MonitorInv' /\ ModInv' /\ ScanInv' /\ NoMissedUpdate'
         /\ Listed' = Listed /\ monitor'[m] = q
         /\ \A n \in Listed : n # m => monitor'[n] = monitor[n]
<1> USE DEF IInv
<1>1. m \in Monitors
  BY DEF Listed
<1>2. /\ monitor' \in [Monitors -> MonitorRecords] /\ monitor'[m] = q
      /\ \A n \in Monitors : n # m => monitor'[n] = monitor[n]
  BY <1>1 DEF TypeOK, Sound
<1>3. Listed' = Listed /\ Listed \subseteq Monitors
  BY <1>2 DEF Listed
<1>4. MonitorInv'
  BY <1>1, <1>2 DEF MonitorInv, Sound
<1>5. TypeOK'
  BY <1>2, <1>3 DEF TypeOK, At, StopRecords
<1>6. ModInv' /\ ScanInv' /\ NoMissedUpdate'
  BY DEF ModInv, ScanInv, NoMissedUpdate
<1> QED
  BY <1>2, <1>3, <1>4, <1>5, <1>6

(* Stop tells the next monitor to shut down, or starts to wait.            *)
LEMMA StopSignalStep ==
  ASSUME IInv, StopSignal
  PROVE  IInv'
<1> USE DEF IInv
<1>0. /\ stop.pc = "signal" /\ scanner_state = "shutting_down"
      /\ UNCHANGED <<scanner_state, td, mod, app, selector, srv>>
      /\ stop.todo \subseteq Listed /\ Listed \in SUBSET Monitors
      /\ stop.joining = None
  BY DEF StopSignal, StopInv, Listed
<1>1. CASE stop.todo = {}
  <2>1. StopAt("wait", Listed) /\ UNCHANGED monitor
    BY <1>1 DEF StopSignal
  <2>2. /\ stop' \in StopRecords /\ stop'.pc = "wait" /\ stop'.todo = Listed
        /\ stop'.joining = None
    BY <1>0, <2>1, StopAtTyped
  <2>3. Kept /\ HoldingKept /\ MonitorInv' /\ Listed' = Listed
    BY <2>1, KeptAll, KeptMonitors
  <2>4. TypeOK'
    BY <1>0, <2>1, <2>2, <2>3 DEF TypeOK, At, StopRecords
  <2>5. ModInv' /\ NoMissedUpdate' /\ ScanInv'
    BY <1>0, <2>3 DEF ModInv, NoMissedUpdate, ScanInv
  <2>6. StopInv'
    BY <1>0, <2>1, <2>2, <2>3 DEF StopInv
  <2> QED
    BY <2>3, <2>4, <2>5, <2>6
<1>2. CASE stop.todo # {}
  <2> DEFINE m == First(stop.todo)
             r == RequestShutdown(monitor[m])
  <2>1. /\ CanRequestShutdown(monitor[m])
        /\ monitor' = [monitor EXCEPT ![m] = r]
        /\ StopAt("signal", stop.todo \ {m})
    BY <1>2 DEF StopSignal, SetMonitor
  <2>2. m \in stop.todo
    BY <1>0, <1>2, FirstIn
  <2> HIDE DEF m
  <2>3. m \in Listed /\ m \in Monitors /\ stop.todo \ {m} \in SUBSET Monitors
    BY <1>0, <2>2
  <2>4. Sound(r) /\ SameMonitor(r, monitor[m])
    BY <2>1, <2>3, AllSound, ShutdownKeeps
  <2> HIDE DEF r
  <2>5. monitor[m].listed = TRUE /\ r.listed = TRUE
    BY <2>3, <2>4 DEF Listed, SameMonitor, TypeOK, MonitorRecords
  <2>6. /\ stop' \in StopRecords /\ stop'.pc = "signal"
        /\ stop'.todo = stop.todo \ {m} /\ stop'.joining = None
    BY <2>1, <2>3, StopAtTyped
  <2>7. /\ TypeOK' /\ MonitorInv' /\ ModInv' /\ ScanInv' /\ NoMissedUpdate'
        /\ Listed' = Listed /\ monitor'[m] = r
        /\ \A n \in Listed : n # m => monitor'[n] = monitor[n]
    BY <1>0, <2>1, <2>3, <2>4, <2>5, <2>6, StopMoves DEF SameMonitor
  <2>8. \A n \in Listed : monitor'[n].life # "freed"
    BY <1>0, <2>3, <2>4, <2>7 DEF StopInv, SameMonitor
  <2>9. StopInv'
    BY <1>0, <2>6, <2>7, <2>8 DEF StopInv
  <2> QED
    BY <2>7, <2>9
<1> QED
  BY <1>1, <1>2

(* A monitor that is destroyed, its thread gone or never created.          *)
LEMMA DestroyKeeps ==
  ASSUME NEW r, Sound(r), r.pc \in {"none", "exited"}, NEW q,
         q = [r EXCEPT !.state = "off", !.life = "freed"]
  PROVE  /\ Sound(q) /\ q.life = "freed" /\ q.listed = r.listed
         /\ q.pc = r.pc /\ q.link = r.link
<1>r. r \in MonitorRecords /\ PlaceInv(r) /\ LifeInv(r) /\ RequestInv(r)
  BY DEF Sound
<1>1. q \in MonitorRecords
  BY <1>r, Zenon DEF MonitorRecords
<1>2. /\ q.life = "freed" /\ q.listed = r.listed /\ q.state = "off"
      /\ q.scan = r.scan /\ q.cancel = r.cancel
      /\ q.signalled = r.signalled /\ q.pc = r.pc /\ q.desc = r.desc
      /\ q.link = r.link /\ q.after = r.after
  BY <1>r DEF MonitorRecords
<1>3. PlaceInv(q) /\ LifeInv(q)
  BY <1>2 DEF PlaceInv, LifeInv
<1>4. RequestInv(q)
  BY <1>2 DEF RequestInv
<1> QED
  BY <1>1, <1>2, <1>3, <1>4 DEF Sound

(* The next monitor is freed, or waited for.                               *)
LEMMA StopWaitStep ==
  ASSUME IInv, StopWait
  PROVE  IInv'
<1> USE DEF IInv
<1> DEFINE m == First(stop.todo)
           r == RequestShutdown(monitor[m])
<1>0. /\ stop.pc = "wait" /\ scanner_state = "shutting_down"
      /\ UNCHANGED <<scanner_state, td, mod, app, selector, srv>>
      /\ stop.todo \subseteq Listed /\ Listed \in SUBSET Monitors
      /\ stop.joining = None /\ stop.todo # {}
      /\ CanRequestShutdown(monitor[m])
  BY DEF StopWait, StopInv, Listed
<1>1. m \in stop.todo
  BY <1>0, FirstIn
<1>2. m \in Listed /\ m \in Monitors /\ stop.todo \ {m} \in SUBSET Monitors
  BY <1>0, <1>1
<1>3. /\ Sound(r) /\ SameMonitor(r, monitor[m])
      /\ r.state = "off" => r.pc \in {"none", "exited"}
  BY <1>0, <1>2, AllSound, ShutdownKeeps
<1>4. monitor[m].listed = TRUE /\ r.listed = TRUE
  BY <1>2, <1>3 DEF Listed, SameMonitor, TypeOK, MonitorRecords
<1>5. CASE r.state = "off"
  <2> DEFINE q == [r EXCEPT !.state = "off", !.life = "freed"]
  <2>1. /\ monitor' = [monitor EXCEPT ![m] = q]
        /\ StopAt("wait", stop.todo \ {m})
    BY <1>5 DEF StopWait, Destroy, SetMonitor
  <2> HIDE DEF m, r
  <2>2. /\ Sound(q) /\ q.life = "freed" /\ q.listed = TRUE
        /\ q.pc = monitor[m].pc /\ q.link = monitor[m].link
    BY <1>3, <1>4, <1>5, DestroyKeeps DEF SameMonitor
  <2> HIDE DEF q
  <2>3. /\ stop' \in StopRecords /\ stop'.pc = "wait"
        /\ stop'.todo = stop.todo \ {m} /\ stop'.joining = None
    BY <1>2, <2>1, StopAtTyped
  <2>4. /\ TypeOK' /\ MonitorInv' /\ ModInv' /\ ScanInv' /\ NoMissedUpdate'
        /\ Listed' = Listed /\ monitor'[m] = q
        /\ \A n \in Listed : n # m => monitor'[n] = monitor[n]
    BY <1>0, <1>2, <2>1, <2>2, <2>3, StopMoves
  <2>5. \A n \in Listed : monitor'[n].life = "freed" <=> n \notin stop'.todo
    BY <1>0, <1>1, <2>2, <2>3, <2>4 DEF StopInv
  <2>6. StopInv'
    BY <1>0, <2>3, <2>4, <2>5 DEF StopInv
  <2> QED
    BY <2>4, <2>6
<1>6. CASE r.state # "off"
  <2>1. /\ monitor' = [monitor EXCEPT ![m] = r]
        /\ stop' = [stop EXCEPT !.joining = m]
    BY <1>6 DEF StopWait, SetMonitor
  <2> HIDE DEF m, r
  <2>2. /\ stop' \in StopRecords /\ stop'.pc = "wait"
        /\ stop'.todo = stop.todo /\ stop'.joining = m
    BY <1>0, <1>2, <2>1 DEF TypeOK, StopRecords
  <2>3. /\ TypeOK' /\ MonitorInv' /\ ModInv' /\ ScanInv' /\ NoMissedUpdate'
        /\ Listed' = Listed /\ monitor'[m] = r
        /\ \A n \in Listed : n # m => monitor'[n] = monitor[n]
    BY <1>0, <1>2, <1>3, <1>4, <2>1, <2>2, StopMoves DEF SameMonitor
  <2>4. \A n \in Listed : monitor'[n].life = monitor[n].life
    BY <1>3, <2>3 DEF SameMonitor
  <2>5. StopInv'
    BY <1>0, <1>1, <2>2, <2>3, <2>4 DEF StopInv
  <2> QED
    BY <2>3, <2>5
<1> QED
  BY <1>5, <1>6

(* The thread that was waited for has returned.                            *)
LEMMA StopJoinStep ==
  ASSUME IInv, StopJoin
  PROVE  IInv'
<1> USE DEF IInv
<1> DEFINE m == stop.joining
           r == monitor[m]
           q == [r EXCEPT !.state = "off", !.life = "freed"]
<1>0. /\ stop.pc = "wait" /\ scanner_state = "shutting_down"
      /\ UNCHANGED <<scanner_state, td, mod, app, selector, srv>>
      /\ stop.todo \subseteq Listed /\ Listed \in SUBSET Monitors
      /\ m \in stop.todo /\ monitor[m].pc = "exited"
      /\ monitor' = [monitor EXCEPT ![m] = q]
      /\ StopAt("wait", stop.todo \ {m})
  BY DEF StopJoin, StopInv, Listed, Joined, Destroy, SetMonitor
<1> HIDE DEF m
<1>2. m \in Listed /\ m \in Monitors /\ stop.todo \ {m} \in SUBSET Monitors
  BY <1>0
<1>3. Sound(r) /\ r.listed = TRUE /\ r.pc \in {"none", "exited"}
  BY <1>0, <1>2, AllSound DEF Listed, TypeOK, MonitorRecords
<1> HIDE DEF r
<1>4. /\ Sound(q) /\ q.life = "freed" /\ q.listed = TRUE
      /\ q.pc = r.pc /\ q.link = r.link
  BY <1>3, DestroyKeeps
<1> USE DEF r
<1> HIDE DEF q
<1>5. /\ stop' \in StopRecords /\ stop'.pc = "wait"
      /\ stop'.todo = stop.todo \ {m} /\ stop'.joining = None
  BY <1>0, <1>2, StopAtTyped
<1>6. /\ TypeOK' /\ MonitorInv' /\ ModInv' /\ ScanInv' /\ NoMissedUpdate'
      /\ Listed' = Listed /\ monitor'[m] = q
      /\ \A n \in Listed : n # m => monitor'[n] = monitor[n]
  BY <1>0, <1>2, <1>4, <1>5, StopMoves
<1>7. \A n \in Listed : monitor'[n].life = "freed" <=> n \notin stop'.todo
  BY <1>0, <1>4, <1>5, <1>6 DEF StopInv
<1>8. StopInv'
  BY <1>0, <1>5, <1>6, <1>7 DEF StopInv
<1> QED
  BY <1>6, <1>8

(* All monitors are freed: the sets are emptied and the scanner is off.    *)
LEMMA StopFinishStep ==
  ASSUME IInv, StopFinish
  PROVE  IInv'
<1> USE DEF IInv
<1>0. /\ stop.pc = "wait" /\ stop.todo = {} /\ srv.pc \in {"none", "exited"}
      /\ mod = None /\ scanner_state' = "off" /\ StopAt("done", {})
      /\ monitor' = [m \in Monitors |-> [monitor[m] EXCEPT !.listed = FALSE]]
      /\ UNCHANGED <<td, mod, app, srv>>
  BY DEF StopFinish
<1>b. /\ selector' \in [Selectors -> {"idle", "select", "lock", "asleep", "woken"}]
      /\ \A s \in Selectors : selector'[s] # "asleep"
  BY BroadcastWakes DEF StopFinish
<1>1. ASSUME NEW m \in Monitors
      PROVE  /\ Sound(monitor'[m]) /\ monitor'[m].listed = FALSE
             /\ monitor'[m].pc = monitor[m].pc
             /\ m[1] = "rtt" => monitor'[m].link = "none"
  <2> DEFINE r == monitor[m]
             q == [r EXCEPT !.listed = FALSE]
  <2>1. monitor'[m] = q
    BY <1>0
  <2>r. /\ r \in MonitorRecords /\ PlaceInv(r) /\ LifeInv(r) /\ RequestInv(r)
        /\ m[1] = "rtt" => r.link = "none"
    BY AllSound DEF Sound
  <2>2. r.life # "live"
    BY <1>0, <2>r DEF LifeInv, StopInv, Listed
  <2>3. q \in MonitorRecords
    BY <2>r, Zenon DEF MonitorRecords
  <2>4. /\ q.life = r.life /\ q.listed = FALSE /\ q.state = r.state
        /\ q.scan = r.scan /\ q.cancel = r.cancel
        /\ q.signalled = r.signalled /\ q.pc = r.pc /\ q.desc = r.desc
        /\ q.link = r.link /\ q.after = r.after
    BY <2>r DEF MonitorRecords
  <2> HIDE DEF q, r
  <2>5. PlaceInv(q) /\ LifeInv(q)
    BY <2>r, <2>2, <2>4 DEF PlaceInv, LifeInv
  <2>6. RequestInv(q)
    BY <2>r, <2>4 DEF RequestInv, Awaits, Streaming
  <2>7. Sound(q)
    BY <2>3, <2>5, <2>6 DEF Sound
  <2> QED
    BY <2>1, <2>r, <2>4, <2>7 DEF r
<1>2. MonitorInv' /\ Listed' = {}
  BY <1>1 DEF MonitorInv, Sound, Listed
<1>3. monitor' \in [Monitors -> MonitorRecords]
  BY <1>0, <1>1 DEF Sound
<1>4. /\ stop' \in StopRecords /\ stop'.pc = "done" /\ stop'.todo = {}
      /\ stop'.joining = None
  BY <1>0, StopAtTyped
<1>5. TypeOK'
  BY <1>0, <1>1, <1>3, <1>4, <1>b DEF TypeOK, At, StopRecords
<1>6. ModInv' /\ NoMissedUpdate' /\ ScanInv'
  BY <1>0, <1>b DEF ModInv, NoMissedUpdate, ScanInv
<1>7. StopInv'
  BY <1>0, <1>2, <1>4 DEF StopInv
<1> QED
  BY <1>2, <1>5, <1>6, <1>7

----------------------------------------------------------------------------
(***************************************************************************)
(* The theorems.                                                           *)
(***************************************************************************)
(* The invariant holds before the first pop of a client.                   *)
LEMMA InitIInv ==
  ASSUME Init
  PROVE  IInv
<1>1. Cardinality(FirstServers) \in 0 .. MaxServerId /\ FirstServers \subseteq ServerIds
  <2>1. Cardinality(FirstServers) \in Nat
    BY InstanceAssumption, FS_CardinalityType
  <2> QED
    BY <2>1, InstanceAssumption DEF ServerIds
<1>2. td \in Descriptions
  BY <1>1 DEF Init, Descriptions
<1>3. Absent \in MonitorRecords
  BY DEF Absent, MonitorRecords
<1>4. /\ \A m \in Monitors : monitor[m] = Absent
      /\ monitor \in [Monitors -> MonitorRecords]
  BY <1>3 DEF Init
<1>5. /\ Absent.pc = "none" /\ Absent.listed = FALSE /\ Absent.life = "none"
      /\ Absent.state = "off" /\ Absent.link = "none"
  BY DEF Absent
<1>6. PlaceInv(Absent) /\ LifeInv(Absent) /\ RequestInv(Absent)
  BY <1>5 DEF PlaceInv, LifeInv, RequestInv
<1>7. MonitorInv
  BY <1>4, <1>5, <1>6 DEF MonitorInv
<1>8. Listed = {}
  BY <1>4, <1>5 DEF Listed
<1>9. TypeOK
  BY <1>2, <1>4, <1>5, <1>8 DEF Init, TypeOK, At
<1>10. ModInv /\ ScanInv /\ NoMissedUpdate
  BY DEF Init, ModInv, ScanInv, NoMissedUpdate
<1>11. StopInv
  BY <1>8 DEF Init, StopInv
<1> QED
  BY <1>7, <1>9, <1>10, <1>11 DEF IInv

(* Every step keeps it.                                                    *)
LEMMA NextIInv ==
  ASSUME IInv, [Next]_vars
  PROVE  IInv'
<1>1. ASSUME NEW m \in Monitors, Thread(m) \/ ThreadLocks(m)
      PROVE  IInv'
  BY <1>1, ThreadStep, UpdateBeginStep, UpdateCommitStep
<1>2. ASSUME NEW s \in Selectors,
             \/ SelectBegin(s) \/ Select(s) \/ SelectLocked(s)
             \/ SelectAwake(s) \/ SelectTimeout(s)
      PROVE  IInv'
  BY <1>2, SelectStep
<1>3. CASE Stop
  BY <1>3, StopSignalStep, StopWaitStep, StopJoinStep DEF Stop
<1>4. CASE StopLocks
  BY <1>4, StopCountStep, StopFinishStep DEF StopLocks
<1>5. CASE UNCHANGED vars
  BY <1>5 DEF vars, IInv, TypeOK, MonitorInv, ModInv, StopInv, ScanInv,
              NoMissedUpdate, Listed, At
<1>6. CASE Terminated
  BY <1>5, <1>6 DEF Terminated
<1> QED
  BY <1>1, <1>2, <1>3, <1>4, <1>5, <1>6, StartStep, StartCommitStep,
     HandshakeStep, HandshakeCommitStep, NetworkErrorStep, NotPrimaryErrorStep,
     ReconcileStep, RemoveOrphanStep, SrvThreadStep, SrvApplyStep, StopBeginStep
  DEF Next

(* The inductive invariant holds in every reachable state.                 *)
THEOREM Inductive == Spec => []IInv
BY InitIInv, NextIInv, PTL DEF Spec

(* The state of the threads stays in its types, and a monitor holds        *)
(* tpld_modification_mtx exactly while its modification is in progress     *)
(* (mc_tpld_modify_begin).                                                 *)
THEOREM TypeCorrect == Spec => []TypeOK
<1>1. IInv => TypeOK
  BY DEF IInv
<1> QED
  BY <1>1, Inductive, PTL

(* mongoc_server_monitor_destroy never frees a monitor whose thread could  *)
(* still run, and a freed one is in its set only during shutdown.          *)
THEOREM DestroySafe == Spec => []NoUseAfterDestroy
<1>1. IInv => NoUseAfterDestroy
  <2> SUFFICES ASSUME IInv, NEW m \in Monitors, monitor[m].life = "freed"
               PROVE  /\ monitor[m].pc \in {"none", "exited"}
                      /\ monitor[m].listed => scanner_state = "shutting_down"
    BY DEF NoUseAfterDestroy
  <2>1. LifeInv(monitor[m])
    BY DEF IInv, MonitorInv
  <2>2. monitor[m].listed => m \in Listed
    BY DEF Listed
  <2> QED
    BY <2>1, <2>2 DEF LifeInv, IInv, StopInv
<1> QED
  BY <1>1, Inductive, PTL

(* After background_monitoring_stop no monitor and no thread is left.      *)
THEOREM StopComplete == Spec => []NoThreadOutlivesStop
<1>1. IInv => NoThreadOutlivesStop
  <2> SUFFICES ASSUME IInv, stop.pc = "done"
               PROVE  /\ \A m \in Monitors : /\ monitor[m].life # "live"
                                             /\ monitor[m].pc \in {"none", "exited"}
                      /\ srv.pc \in {"none", "exited"}
                      /\ scanner_state = "off"
    BY DEF NoThreadOutlivesStop
  <2>1. Listed = {} /\ srv.pc \in {"none", "exited"} /\ scanner_state = "off"
    BY DEF IInv, StopInv
  <2>2. \A m \in Monitors : LifeInv(monitor[m])
    BY DEF IInv, MonitorInv
  <2>3. \A m \in Monitors : ~monitor[m].listed
    BY <2>1 DEF Listed
  <2> QED
    BY <2>1, <2>2, <2>3 DEF LifeInv
<1> QED
  BY <1>1, Inductive, PTL

(* A request to shut down reaches a thread wherever it blocks.             *)
THEOREM ShutdownHeard == Spec => []NoSleepThroughShutdown
<1>1. IInv => NoSleepThroughShutdown
  <2> SUFFICES ASSUME IInv PROVE NoSleepThroughShutdown
    OBVIOUS
  <2>1. \A m \in Monitors : RequestInv(monitor[m])
    BY DEF IInv, MonitorInv
  <2>2. scanner_state = "shutting_down" /\ srv.pc = "sleep" => srv.signalled
    BY DEF IInv, StopInv
  <2> QED
    BY <2>1, <2>2 DEF NoSleepThroughShutdown, RequestInv, At
<1> QED
  BY <1>1, Inductive, PTL

(* The scan a selector asked for is pending, or under way, as long as it   *)
(* sleeps (mongoc_topology_request_scan and mongoc_server_monitor_wait).   *)
THEOREM ScanPending == Spec => []NoLostScan
<1>1. IInv => NoLostScan
  <2> SUFFICES ASSUME IInv, scanner_state = "running",
                      NEW s \in Selectors, NEW m \in Listed,
                      selector[s] = "asleep",
                      m[1] = "hello" /\ monitor[m].state = "running",
                      At(m, "sleep") /\ monitor[m].due = "long"
               PROVE  monitor[m].scan /\ monitor[m].signalled
    BY DEF NoLostScan
  <2>1. Scans(monitor[m])
    BY DEF IInv, ScanInv
  <2>2. RequestInv(monitor[m])
    BY DEF IInv, MonitorInv, Listed
  <2> QED
    BY <2>1, <2>2 DEF Scans, RequestInv, At
<1> QED
  BY <1>1, Inductive, PTL

(* No selector sleeps (mongoc_topology_select_server_id) although a        *)
(* suitable server was published with a broadcast: it is marked if it      *)
(* became so without one.                                                  *)
THEOREM UpdateSeen == Spec => []NoMissedUpdate
<1>1. IInv => NoMissedUpdate
  BY DEF IInv
<1> QED
  BY <1>1, Inductive, PTL
============================================================================
