------------------------ MODULE BackgroundMonitoring ------------------------
(***************************************************************************)
(* The threads of a client pool's topology: one monitor thread and perhaps *)
(* one round-trip-time thread per server, the SRV poller, application      *)
(* threads that wait in server selection, and the shutdown that joins and  *)
(* frees everything.                                                       *)
(*                                                                         *)
(* A modification of the description is a critical section under           *)
(* tpld_modification_mtx: the variable mod is the modification in          *)
(* progress, and so tells who holds the mutex.  The critical sections      *)
(* under a monitor's own mutex never block and are parts of one step.      *)
(* What a description says is reduced to what the threads look at: which   *)
(* servers it has, which of them have answered and which of those sent a   *)
(* topologyVersion, its type, and whether selection finds a server in it.  *)
(***************************************************************************)
EXTENDS Naturals, FiniteSets

CONSTANTS MaxServerId,    \* bound on the ids given to servers
          FirstServers,   \* the ids of the servers of the connection string
          Selectors,      \* application threads in server selection
          Replies,        \* what a hello reply makes of a server:
                          \*   "known", or "versioned" with a topologyVersion
          Types,          \* the types the topology may turn out to have
          StreamingMode,  \* serverMonitoringMode is not "poll"
          SrvUri,         \* the connection string is mongodb+srv://
          CreateFails,    \* mcommon_thread_create may fail
          ClientsWork,    \* clients are used after they were popped
          App, None

ASSUME InstanceAssumption ==
  /\ MaxServerId \in Nat
  /\ IsFiniteSet(FirstServers)
  /\ FirstServers = 1 .. Cardinality(FirstServers)
  /\ Cardinality(FirstServers) <= MaxServerId
  /\ Replies \subseteq {"known", "versioned"}
  /\ Types \subseteq {"Sharded", "ReplicaSet"}
  /\ {StreamingMode, SrvUri, CreateFails, ClientsWork} \subseteq BOOLEAN

ServerIds == 1 .. MaxServerId
Monitors == {"hello", "rtt"} \X ServerIds
Id(m) == m[2]

(* The order in which stop and reconcile walk over the two sets.           *)
Before(m, n) ==
  \/ m[1] = "hello" /\ n[1] = "rtt"
  \/ m[1] = n[1] /\ Id(m) < Id(n)
First(M) == CHOOSE m \in M : \A n \in M \ {m} : Before(m, n)

(* What the threads look at in a description, and a modification of it:    *)
(* who makes it, the new description, and how far reconcile has come.  For *)
(* the properties, quiet records that it has become suitable without a     *)
(* broadcast.                                                              *)
Descriptions ==
  [servers : SUBSET ServerIds, known : SUBSET ServerIds,
   versioned : SUBSET ServerIds, suitable : BOOLEAN, quiet : BOOLEAN,
   type : {"Unknown"} \cup Types, last : 0 .. MaxServerId]
Modifications ==
  [owner : Monitors \cup {App}, td : Descriptions,
   step : {"add", "remove"}, orphans : SUBSET Monitors]

ASSUME NamesAssumption ==
  App \notin Monitors /\ None \notin Monitors /\ None \notin Modifications

VARIABLES
  scanner_state,  \* of the topology
  td,        \* the published topology description
  mod,       \* the modification in progress, or None
  monitor,   \* monitor[m]: a mongoc_server_monitor_t and its thread
  app,       \* what the application thread that modifies td is doing
  selector,  \* selector[s]: where s is in mongoc_topology_select_server_id
  srv,       \* the SRV polling thread
  stop       \* where background_monitoring_stop is

vars == <<scanner_state, td, mod, monitor, app, selector, srv, stop>>

(* A monitor: life and listed tell of the structure (freed, and in the set *)
(* of monitors); state, scan, cancel and signalled are shared under its    *)
(* mutex; desc, link (the stream, and whether moreToCome is set), due and  *)
(* after are the thread's own.                                             *)
Absent == [life |-> "none", listed |-> FALSE, state |-> "off",
           scan |-> FALSE, cancel |-> FALSE, signalled |-> FALSE,
           pc |-> "none", desc |-> "unknown", link |-> "none",
           due |-> "long", after |-> "wait"]

Init ==
  /\ scanner_state = "off"
  /\ td = [servers |-> FirstServers, known |-> {}, versioned |-> {},
           suitable |-> FALSE, quiet |-> FALSE, type |-> "Unknown",
           last |-> Cardinality(FirstServers)]
  /\ mod = None
  /\ monitor = [m \in Monitors |-> Absent]
  /\ app = "new"
  /\ selector = [s \in Selectors |-> "idle"]
  /\ srv = [pc |-> "none", signalled |-> FALSE]
  /\ stop = [pc |-> "idle", todo |-> {}, joining |-> None]

Listed == {m \in Monitors : monitor[m].listed}
SetMonitor(m, r) == monitor' = [monitor EXCEPT ![m] = r]
Step(m, label) == SetMonitor(m, [monitor[m] EXCEPT !.pc = label])

(* mongoc_cond_broadcast (&topology->cond_client)                          *)
Broadcast ==
  selector' = [s \in Selectors |->
                 IF selector[s] = "asleep" THEN "woken" ELSE selector[s]]

----------------------------------------------------------------------------
(* Requests to a monitor, delivered under its mutex.  A signal reaches the *)
(* thread only while it sleeps.                                            *)
Signal(r) == [r EXCEPT !.signalled = (r.pc = "sleep")]
(* Mutant: the request is left for the thread to find.                     *)
RequestScanSilent(r) == [r EXCEPT !.scan = TRUE]

RequestScan(r) == Signal([r EXCEPT !.scan = TRUE])
RequestCancel(r) == Signal([r EXCEPT !.cancel = TRUE])

RequestShutdown(r) ==
  CASE r.state = "running" ->
         RequestCancel([r EXCEPT !.state = "shutting_down"])
    [] r.state = "shutting_down" -> RequestCancel(r)
    [] OTHER -> [r EXCEPT !.state = "off"]

(* mcommon_thread_join returns once the thread has.                        *)
Joined(r) == r.pc = "exited"
CanRequestShutdown(r) == r.state = "joinable" => Joined(r)

RequestScanAll(ms) ==
  IF scanner_state = "shutting_down" THEN ms
  ELSE [m \in Monitors |-> IF m \in Listed /\ m[1] = "hello"
                             THEN RequestScan(ms[m]) ELSE ms[m]]

----------------------------------------------------------------------------
(* Reconciling the monitors with the description being written.  A thread  *)
(* that cannot be created leaves its monitor in the set, in state "off".   *)
Started(m) ==
  {[Absent EXCEPT !.life = "live", !.listed = TRUE, !.state = "running",
      !.pc = "top",
      !.desc = IF Id(m) \in mod.td.versioned THEN "versioned" ELSE "unknown"]}
  \cup (IF CreateFails THEN {[Absent EXCEPT !.life = "live", !.listed = TRUE]}
        ELSE {})

Wanted ==
  {m \in Monitors \ Listed :
     Id(m) \in (IF m[1] = "hello" THEN mod.td.servers ELSE mod.td.versioned)}

Orphans == {m \in Listed : Id(m) \notin mod.td.servers}

(* Mutant: reconcile does not look whether the scanner is shutting down.   *)
ReconcileAlways ==
  /\ mod # None /\ mod.step = "add"
  /\ \E new \in [Wanted -> UNION {Started(m) : m \in Wanted}] :
       /\ \A m \in Wanted : new[m] \in Started(m)
       /\ monitor' = [m \in Monitors |->
                        IF m \in Wanted THEN new[m] ELSE monitor[m]]
  /\ mod' = [mod EXCEPT !.step = "remove", !.orphans = Orphans]
  /\ UNCHANGED <<scanner_state, td, app, selector, srv, stop>>

Reconcile ==
  /\ mod # None /\ mod.step = "add"
  /\ IF scanner_state = "running"
     THEN /\ \E new \in [Wanted -> UNION {Started(m) : m \in Wanted}] :
               /\ \A m \in Wanted : new[m] \in Started(m)
               /\ monitor' = [m \in Monitors |->
                                IF m \in Wanted THEN new[m] ELSE monitor[m]]
          /\ mod' = [mod EXCEPT !.step = "remove", !.orphans = Orphans]
     ELSE mod' = [mod EXCEPT !.step = "remove"] /\ UNCHANGED monitor
  /\ UNCHANGED <<scanner_state, td, app, selector, srv, stop>>

(* Mutant: an orphan is freed as soon as it was told to shut down.         *)
RemoveOrphanAtOnce ==
  /\ mod # None /\ mod.orphans # {}
  /\ LET m == First(mod.orphans)
     IN  /\ CanRequestShutdown(monitor[m])
         /\ SetMonitor(m, [RequestShutdown(monitor[m]) EXCEPT
                             !.life = "freed", !.listed = FALSE])
         /\ mod' = [mod EXCEPT !.orphans = @ \ {m}]
  /\ UNCHANGED <<scanner_state, td, app, selector, srv, stop>>

(* _remove_orphaned_server_monitors, one monitor: only one whose thread    *)
(* has already ended is joined and freed.                                  *)
RemoveOrphan ==
  /\ mod # None /\ mod.orphans # {}
  /\ LET m == First(mod.orphans)
         r == RequestShutdown(monitor[m])
     IN  /\ CanRequestShutdown(monitor[m])
         /\ SetMonitor(m, IF r.state = "off"
                            THEN [r EXCEPT !.life = "freed", !.listed = FALSE]
                            ELSE r)
         /\ mod' = [mod EXCEPT !.orphans = @ \ {m}]
  /\ UNCHANGED <<scanner_state, td, app, selector, srv, stop>>

Begin(owner, new) ==
  /\ mod = None
  /\ mod' = [owner |-> owner, td |-> new, step |-> "add", orphans |-> {}]

Committing(owner) ==
  mod # None /\ mod.owner = owner /\ mod.step = "remove" /\ mod.orphans = {}
Commit == td' = mod.td /\ mod' = None
CommitBroadcast ==
  td' = [mod.td EXCEPT !.quiet = FALSE] /\ mod' = None /\ Broadcast

(* A description that is published and nobody is told of.                  *)
Quietly(new) ==
  td' = [new EXCEPT !.quiet = new.suitable /\ (td.quiet \/ ~td.suitable)]

(* mongoc_topology_description_handle_hello: the descriptions a reply of   *)
(* server id can lead to, and an error ("unknown") as well.  A reply keeps *)
(* some servers, may add one and may tell the type.  The error of a server *)
(* that was known may make another one suitable: without a primary,        *)
(* staleness is judged among the secondaries, and a server that is Unknown *)
(* forces no read mode.                                                    *)
Additions == {{}} \cup {{td.last + 1} : i \in 1 .. MaxServerId - td.last}
TypesAfter == IF td.type = "Unknown" THEN {"Unknown"} \cup Types ELSE {td.type}
VersionedAfter(id, desc) ==
  (td.versioned \ {id}) \cup (IF desc = "versioned" THEN {id} ELSE {})
Described(keep, add, type, b, known, versioned) ==
  [servers |-> keep \cup add, known |-> known \cap keep,
   versioned |-> versioned \cap keep, suitable |-> b /\ known \cap keep # {},
   quiet |-> FALSE, type |-> type, last |-> td.last + Cardinality(add)]

AfterReply(id, desc) ==
  {Described(k, a, t, b, td.known \cup {id}, VersionedAfter(id, desc)) :
     k \in SUBSET td.servers, a \in Additions, t \in TypesAfter, b \in BOOLEAN}

AfterError(id) ==
  IF id \notin td.known THEN {td}
  ELSE {[td EXCEPT !.known = @ \ {id}, !.suitable = b /\ td.known # {id}] :
          b \in BOOLEAN}

AfterHello(id, desc) ==
  IF id \notin td.servers THEN {td}
  ELSE IF desc = "unknown" THEN AfterError(id) ELSE AfterReply(id, desc)

----------------------------------------------------------------------------
(* The application: the first pop of a client starts monitoring, under the *)
(* mutex of the pool.                                                      *)
ShouldRescanSrv == SrvUri /\ td.type \in {"Unknown", "Sharded"}

Start ==
  /\ app = "new"
  /\ stop.pc = "idle"
  /\ scanner_state' = "running"
  /\ Begin(App, td)
  /\ app' = "start"
  /\ UNCHANGED <<td, monitor, selector, srv, stop>>

StartCommit ==
  /\ app = "start"
  /\ Committing(App)
  /\ Commit
  /\ \/ /\ ShouldRescanSrv
        /\ srv' = [srv EXCEPT !.pc = "top"]
     \/ /\ ShouldRescanSrv => CreateFails
        /\ UNCHANGED srv
  /\ app' = "ready"
  /\ UNCHANGED <<scanner_state, monitor, selector, stop>>

(* A pool is destroyed only after its clients have come back, so a client  *)
(* works only before that; server selection below may overlap with it.     *)
Working == ClientsWork /\ app = "ready" /\ stop.pc = "idle"

Handshake ==
  /\ Working
  /\ \E id \in td.servers, d \in Replies :
       \E new \in AfterHello(id, d) : Begin(App, new)
  /\ app' = "handshake"
  /\ UNCHANGED <<scanner_state, td, monitor, selector, srv, stop>>

HandshakeCommit ==
  /\ app = "handshake"
  /\ Committing(App)
  /\ CommitBroadcast
  /\ app' = "ready"
  /\ UNCHANGED <<scanner_state, monitor, srv, stop>>

(* A network error marks the server Unknown and cancels the check its      *)
(* monitor is waiting for; a "not primary" error asks for a scan.  Neither *)
(* wakes the selectors.  An error that is stale is ignored: no step.       *)
Invalidate(id) ==
  /\ mod = None
  /\ \E new \in AfterHello(id, "unknown") : Quietly(new)
  /\ UNCHANGED <<scanner_state, mod, app, selector, srv, stop>>

NetworkError ==
  /\ Working
  /\ \E id \in td.servers :
       /\ Invalidate(id)
       /\ LET m == <<"hello", id>>
          IN  IF m \in Listed THEN SetMonitor(m, RequestCancel(monitor[m]))
                              ELSE UNCHANGED monitor

NotPrimaryError ==
  /\ Working
  /\ \E id \in td.servers : Invalidate(id)
  /\ monitor' = RequestScanAll(monitor)

----------------------------------------------------------------------------
(* The thread of a monitor.  Each round starts by looking for a shutdown.  *)
At(m, label) == monitor[m].pc = label

(* Mutant: the thread looks for a shutdown only while it waits.            *)
TopUnchecked(m) ==
  /\ At(m, "top")
  /\ Step(m, "check")
  /\ UNCHANGED <<scanner_state, td, mod, app, selector, srv, stop>>

Top(m) ==
  /\ At(m, "top")
  /\ Step(m, IF monitor[m].state = "running" THEN "check" ELSE "finish")
  /\ UNCHANGED <<scanner_state, td, mod, app, selector, srv, stop>>

(* _server_monitor_check_server: without a stream it connects, and with a  *)
(* topologyVersion or after moreToCome it awaits the next reply.           *)
Streaming(desc) == StreamingMode /\ desc = "versioned"
Awaits(r) == r.link = "more" \/ (r.link = "open" /\ Streaming(r.desc))

CheckReply(m) ==
  LET r == monitor[m] IN
  /\ m[1] = "hello" /\ At(m, "check")
  /\ Awaits(r) => ~r.cancel
  /\ \E d \in Replies, l \in IF Awaits(r) THEN {"open", "more"} ELSE {"open"} :
       SetMonitor(m, [r EXCEPT !.pc = "update", !.desc = d, !.link = l,
         !.after = IF Streaming(d) \/ l = "more" THEN "top" ELSE "wait"])
  /\ UNCHANGED <<scanner_state, td, mod, app, selector, srv, stop>>

(* _server_monitor_poll_with_interrupt meets the request to cancel.        *)
CheckCancelled(m) ==
  LET r == monitor[m] IN
  /\ m[1] = "hello" /\ At(m, "check")
  /\ Awaits(r) /\ r.cancel
  /\ SetMonitor(m, [r EXCEPT !.pc = "wait", !.cancel = FALSE,
                      !.desc = "unknown", !.link = "none"])
  /\ UNCHANGED <<scanner_state, td, mod, app, selector, srv, stop>>

(* Mutant: a check that failed is repeated at once, without an update.     *)
CheckFailsUnpublished(m) ==
  /\ m[1] = "hello" /\ At(m, "check")
  /\ SetMonitor(m, [monitor[m] EXCEPT !.pc = "top", !.desc = "unknown",
                                     !.link = "none"])
  /\ UNCHANGED <<scanner_state, td, mod, app, selector, srv, stop>>

(* A network error of a server that was known is followed by another check *)
(* at once, any other error by a wait.                                     *)
CheckFails(m) ==
  LET r == monitor[m] IN
  /\ m[1] = "hello" /\ At(m, "check")
  /\ \E network \in BOOLEAN :
       SetMonitor(m, [r EXCEPT !.pc = "clear", !.desc = "unknown",
         !.link = "none",
         !.after = IF network /\ r.desc # "unknown" THEN "top" ELSE "wait"])
  /\ UNCHANGED <<scanner_state, td, mod, app, selector, srv, stop>>

(* The connection pool is cleared; td's part of it is not modelled here.   *)
ClearPool(m) ==
  /\ At(m, "clear")
  /\ mod = None
  /\ Step(m, "update")
  /\ UNCHANGED <<scanner_state, td, mod, app, selector, srv, stop>>

(* _update_topology_description, and then the next check or a wait.        *)
Proceed(m) ==
  SetMonitor(m, [monitor[m] EXCEPT !.pc = monitor[m].after, !.after = "wait"])

UpdateCheck(m) ==
  /\ m[1] = "hello" /\ At(m, "update")
  /\ IF scanner_state = "shutting_down" THEN Proceed(m) ELSE Step(m, "lock")
  /\ UNCHANGED <<scanner_state, td, mod, app, selector, srv, stop>>

UpdateBegin(m) ==
  /\ At(m, "lock")
  /\ \E new \in AfterHello(Id(m), monitor[m].desc) : Begin(m, new)
  /\ SetMonitor(m, [monitor[m] EXCEPT !.pc = "holding", !.scan = FALSE])
  /\ UNCHANGED <<scanner_state, td, app, selector, srv, stop>>

UpdateCommit(m) ==
  /\ At(m, "holding")
  /\ Committing(m)
  /\ CommitBroadcast
  /\ Proceed(m)
  /\ UNCHANGED <<scanner_state, app, srv, stop>>

(* The round-trip-time thread: a ping, and with its result a modification  *)
(* that changes nothing but the round trip time.                           *)
Ping(m) ==
  /\ m[1] = "rtt" /\ At(m, "check")
  /\ \E label \in {"update", "wait"} : Step(m, label)
  /\ UNCHANGED <<scanner_state, td, mod, app, selector, srv, stop>>

RttUpdate(m) ==
  /\ m[1] = "rtt" /\ At(m, "update")
  /\ mod = None
  /\ Step(m, "wait")
  /\ UNCHANGED <<scanner_state, td, mod, app, selector, srv, stop>>

(* mongoc_server_monitor_wait: one turn of its loop, with the time the     *)
(* next check is due.                                                      *)
WaitTurn(r, due) ==
  IF r.state # "running"
  THEN [r EXCEPT !.pc = "top", !.due = "long", !.signalled = FALSE]
  ELSE [r EXCEPT !.pc = "sleep", !.scan = FALSE, !.signalled = FALSE,
                 !.due = IF r.scan THEN "short" ELSE due]

Wait(m) ==
  /\ At(m, "wait")
  /\ SetMonitor(m, WaitTurn(monitor[m], "long"))
  /\ UNCHANGED <<scanner_state, td, mod, app, selector, srv, stop>>

WaitSignalled(m) ==
  /\ At(m, "sleep") /\ monitor[m].signalled
  /\ SetMonitor(m, WaitTurn(monitor[m], monitor[m].due))
  /\ UNCHANGED <<scanner_state, td, mod, app, selector, srv, stop>>

WaitTimeout(m) ==
  /\ At(m, "sleep")
  /\ SetMonitor(m, [monitor[m] EXCEPT !.pc = "top", !.due = "long",
                                      !.signalled = FALSE])
  /\ UNCHANGED <<scanner_state, td, mod, app, selector, srv, stop>>

Finish(m) ==
  /\ At(m, "finish")
  /\ SetMonitor(m, [monitor[m] EXCEPT !.pc = "return", !.state = "joinable",
                      !.desc = "unknown", !.link = "none"])
  /\ UNCHANGED <<scanner_state, td, mod, app, selector, srv, stop>>

Return(m) ==
  /\ At(m, "return")
  /\ Step(m, "exited")
  /\ UNCHANGED <<scanner_state, td, mod, app, selector, srv, stop>>

----------------------------------------------------------------------------
(* mongoc_topology_select_server_id                                        *)
Goto(s, label) == selector' = [selector EXCEPT ![s] = label]

SelectBegin(s) ==
  /\ selector[s] = "idle"
  /\ Working
  /\ Goto(s, "select")
  /\ UNCHANGED <<scanner_state, td, mod, monitor, app, srv, stop>>

Select(s) ==
  /\ selector[s] = "select"
  /\ Goto(s, IF td.suitable THEN "idle" ELSE "lock")
  /\ UNCHANGED <<scanner_state, td, mod, monitor, app, srv, stop>>

(* Mutant: selection does not look again once it has the mutex.            *)
SelectLockedBlind(s) ==
  /\ selector[s] = "lock"
  /\ mod = None
  /\ Goto(s, "asleep") /\ monitor' = RequestScanAll(monitor)
  /\ UNCHANGED <<scanner_state, td, mod, app, srv, stop>>

(* With the mutex: look again, ask for a scan, and wait for cond_client.   *)
SelectLocked(s) ==
  /\ selector[s] = "lock"
  /\ mod = None
  /\ IF td.suitable
     THEN Goto(s, "idle") /\ UNCHANGED monitor
     ELSE Goto(s, "asleep") /\ monitor' = RequestScanAll(monitor)
  /\ UNCHANGED <<scanner_state, td, mod, app, srv, stop>>

SelectAwake(s) ==
  /\ selector[s] = "woken"
  /\ mod = None
  /\ Goto(s, "select")
  /\ UNCHANGED <<scanner_state, td, mod, monitor, app, srv, stop>>

SelectTimeout(s) ==
  /\ selector[s] \in {"asleep", "woken"}
  /\ mod = None
  /\ Goto(s, "idle")
  /\ UNCHANGED <<scanner_state, td, mod, monitor, app, srv, stop>>

----------------------------------------------------------------------------
(* srv_polling_run and mongoc_topology_rescan_srv                          *)
SrvGoto(label) == srv' = [pc |-> label, signalled |-> FALSE]

SrvTop ==
  /\ srv.pc = "top"
  /\ SrvGoto(IF scanner_state = "running" /\ ShouldRescanSrv THEN "rescan"
                                                             ELSE "exited")
  /\ UNCHANGED <<scanner_state, td, mod, monitor, app, selector, stop>>

(* The precondition is asserted; a scan that is not due yet is skipped.    *)
SrvRescan ==
  /\ srv.pc = "rescan"
  /\ \E next \in {"query", "pause"} :
       SrvGoto(IF ShouldRescanSrv THEN next ELSE "aborted")
  /\ UNCHANGED <<scanner_state, td, mod, monitor, app, selector, stop>>

SrvQuery ==
  /\ srv.pc = "query"
  /\ \E next \in {"apply", "pause"} : SrvGoto(next)
  /\ UNCHANGED <<scanner_state, td, mod, monitor, app, selector, stop>>

(* Servers that are no longer in DNS leave, new ones join; the monitors    *)
(* are left to the next reconcile.  With no valid host nothing changes.    *)
(* A server that leaves may make the rest suitable, since                  *)
(* mongoc_topology_compatible looks at all; the selectors are not woken.   *)
SrvApply ==
  /\ srv.pc = "apply"
  /\ mod = None
  /\ \/ UNCHANGED td
     \/ \E keep \in SUBSET td.servers, n \in 0 .. MaxServerId - td.last :
        \E b \in IF keep = td.servers THEN {td.suitable}
                                      ELSE BOOLEAN :
          /\ keep # {} \/ n > 0
          /\ Quietly([td EXCEPT
                       !.servers = keep \cup (td.last + 1 .. td.last + n),
                       !.known = @ \cap keep, !.versioned = @ \cap keep,
                       !.last = @ + n,
                       !.suitable = b /\ td.known \cap keep # {}])
  /\ SrvGoto("pause")
  /\ UNCHANGED <<scanner_state, mod, monitor, app, selector, stop>>

(* Mutant: the poller goes to sleep without looking for a shutdown.        *)
SrvPauseUnchecked ==
  /\ srv.pc = "pause"
  /\ SrvGoto("sleep")
  /\ UNCHANGED <<scanner_state, td, mod, monitor, app, selector, stop>>

SrvPause ==
  /\ srv.pc = "pause"
  /\ SrvGoto(IF scanner_state = "running" THEN "sleep" ELSE "exited")
  /\ UNCHANGED <<scanner_state, td, mod, monitor, app, selector, stop>>

SrvAwake ==
  /\ srv.pc = "sleep"
  /\ SrvGoto("top")
  /\ UNCHANGED <<scanner_state, td, mod, monitor, app, selector, stop>>

----------------------------------------------------------------------------
(* _mongoc_topology_background_monitoring_stop                             *)
StopAt(label, todo) == stop' = [pc |-> label, todo |-> todo, joining |-> None]

StopBegin ==
  /\ stop.pc = "idle"
  /\ app \in {"new", "ready"}
  /\ IF scanner_state = "running"
     THEN /\ scanner_state' = "shutting_down"
          /\ srv' = [srv EXCEPT !.signalled = (srv.pc = "sleep")]
          /\ StopAt("count", {})
     ELSE StopAt("done", {}) /\ UNCHANGED <<scanner_state, srv>>
  /\ UNCHANGED <<td, mod, monitor, app, selector>>

StopCount ==
  /\ stop.pc = "count"
  /\ mod = None
  /\ StopAt("signal", Listed)
  /\ UNCHANGED <<scanner_state, td, mod, monitor, app, selector, srv>>

StopSignal ==
  /\ stop.pc = "signal"
  /\ IF stop.todo = {}
     THEN StopAt("wait", Listed) /\ UNCHANGED monitor
     ELSE LET m == First(stop.todo)
          IN  /\ CanRequestShutdown(monitor[m])
              /\ SetMonitor(m, RequestShutdown(monitor[m]))
              /\ StopAt("signal", stop.todo \ {m})
  /\ UNCHANGED <<scanner_state, td, mod, app, selector, srv>>

(* mongoc_server_monitor_wait_for_shutdown asks again before it joins.     *)
Destroy(m, r) == SetMonitor(m, [r EXCEPT !.state = "off", !.life = "freed"])

StopWait ==
  /\ stop.pc = "wait" /\ stop.todo # {} /\ stop.joining = None
  /\ LET m == First(stop.todo)
         r == RequestShutdown(monitor[m])
     IN  /\ CanRequestShutdown(monitor[m])
         /\ IF r.state = "off"
            THEN Destroy(m, r) /\ StopAt("wait", stop.todo \ {m})
            ELSE SetMonitor(m, r) /\ stop' = [stop EXCEPT !.joining = m]
  /\ UNCHANGED <<scanner_state, td, mod, app, selector, srv>>

StopJoin ==
  /\ stop.pc = "wait" /\ stop.joining # None
  /\ Joined(monitor[stop.joining])
  /\ Destroy(stop.joining, monitor[stop.joining])
  /\ StopAt("wait", stop.todo \ {stop.joining})
  /\ UNCHANGED <<scanner_state, td, mod, app, selector, srv>>

StopFinish ==
  /\ stop.pc = "wait" /\ stop.todo = {}
  /\ srv.pc \in {"none", "exited"}
  /\ mod = None
  /\ monitor' = [m \in Monitors |-> [monitor[m] EXCEPT !.listed = FALSE]]
  /\ scanner_state' = "off"
  /\ Broadcast
  /\ StopAt("done", {})
  /\ UNCHANGED <<td, mod, app, srv>>

(* The pool is gone: nothing happens any more.                             *)
Terminated ==
  /\ stop.pc = "done"
  /\ \A s \in Selectors : selector[s] = "idle"
  /\ UNCHANGED vars

----------------------------------------------------------------------------
Thread(m) ==
  \/ Top(m) \/ CheckReply(m) \/ CheckCancelled(m) \/ CheckFails(m)
  \/ UpdateCheck(m) \/ UpdateCommit(m)
  \/ Ping(m)
  \/ Wait(m) \/ WaitSignalled(m) \/ WaitTimeout(m)
  \/ Finish(m) \/ Return(m)

ThreadLocks(m) == ClearPool(m) \/ UpdateBegin(m) \/ RttUpdate(m)

SrvThread ==
  SrvTop \/ SrvRescan \/ SrvQuery \/ SrvPause \/ SrvAwake

Stop == StopSignal \/ StopWait \/ StopJoin
StopLocks == StopCount \/ StopFinish

Next ==
  \/ Start \/ StartCommit
  \/ Handshake \/ HandshakeCommit
  \/ NetworkError \/ NotPrimaryError
  \/ Reconcile \/ RemoveOrphan
  \/ \E m \in Monitors : Thread(m) \/ ThreadLocks(m)
  \/ \E s \in Selectors : \/ SelectBegin(s) \/ Select(s) \/ SelectLocked(s)
                          \/ SelectAwake(s) \/ SelectTimeout(s)
  \/ SrvThread \/ SrvApply
  \/ StopBegin \/ Stop \/ StopLocks
  \/ Terminated

Spec == Init /\ [][Next]_vars

(* Every thread that can take a step does: the scheduler runs it, a check  *)
(* of a server ends at its timeout, and a sleep does even if signals keep  *)
(* interrupting it, for its end is a point in time.  A thread that asks    *)
(* for tpld_modification_mtx while it is free again and again gets it in   *)
(* the end.  Nothing makes the application call the driver or stop it.     *)
Fairness ==
  /\ WF_vars(StartCommit) /\ WF_vars(HandshakeCommit)
  /\ WF_vars(Reconcile) /\ WF_vars(RemoveOrphan)
  /\ \A m \in Monitors : /\ WF_vars(Thread(m)) /\ SF_vars(ThreadLocks(m))
                         /\ WF_vars(WaitTimeout(m))
  /\ WF_vars(SrvThread) /\ SF_vars(SrvApply)
  /\ WF_vars(Stop) /\ SF_vars(StopLocks)

FairSpec == Spec /\ Fairness

----------------------------------------------------------------------------
MonitorRecords ==
  [life : {"none", "live", "freed"}, listed : BOOLEAN,
   state : {"off", "running", "shutting_down", "joinable"},
   scan : BOOLEAN, cancel : BOOLEAN, signalled : BOOLEAN,
   pc : {"none", "top", "check", "clear", "update", "lock", "holding",
         "wait", "sleep", "finish", "return", "exited"},
   desc : {"unknown", "known", "versioned"}, link : {"none", "open", "more"},
   due : {"long", "short"}, after : {"top", "wait"}]

(* The type invariant; a monitor holds tpld_modification_mtx exactly while *)
(* its modification is the one in progress (mc_tpld_modify_begin).         *)
TypeOK ==
  /\ scanner_state \in {"off", "running", "shutting_down"}
  /\ td \in Descriptions
  /\ mod # None => mod \in Modifications /\ mod.orphans \subseteq Listed
  /\ monitor \in [Monitors -> MonitorRecords]
  /\ \A m \in Monitors : At(m, "holding") <=> mod # None /\ mod.owner = m
  /\ app \in {"new", "start", "handshake", "ready"}
  /\ selector \in [Selectors -> {"idle", "select", "lock", "asleep", "woken"}]
  /\ srv \in [pc : {"none", "top", "rescan", "query", "apply", "pause",
                    "sleep", "exited", "aborted"}, signalled : BOOLEAN]
  /\ stop \in [pc : {"idle", "count", "signal", "wait", "done"},
               todo : SUBSET Monitors, joining : Monitors \cup {None}]

(* mongoc_server_monitor_destroy frees a monitor whose thread has ended or *)
(* never ran (its assertion on the state), and a freed one is still in the *)
(* set only while the scanner is shutting down, when request_scan and      *)
(* reconcile keep away from it.                                            *)
NoUseAfterDestroy ==
  \A m \in Monitors : monitor[m].life = "freed" =>
    /\ monitor[m].pc \in {"none", "exited"}
    /\ monitor[m].listed => scanner_state = "shutting_down"

(* When stop returns, every thread that was ever created has been joined   *)
(* and every monitor freed: none was added after stop counted them.        *)
NoThreadOutlivesStop ==
  stop.pc = "done" =>
    /\ \A m \in Monitors : /\ monitor[m].life # "live"
                           /\ monitor[m].pc \in {"none", "exited"}
    /\ srv.pc \in {"none", "exited"}
    /\ scanner_state = "off"

(* While a selector sleeps, no running monitor sleeps for a whole          *)
(* heartbeat: the selector's request is pending and the monitor signalled, *)
(* or the monitor is on its way to a broadcast.                            *)
NoLostScan ==
  scanner_state = "running" =>
    \A s \in Selectors, m \in Listed :
      /\ selector[s] = "asleep"
      /\ m[1] = "hello" /\ monitor[m].state = "running"
      /\ At(m, "sleep") /\ monitor[m].due = "long"
      => monitor[m].scan /\ monitor[m].signalled

(* No selector sleeps although a check or a handshake has published a      *)
(* description with a server for it: it looked under the mutex that these  *)
(* broadcast under.  Only what an application error or an SRV answer makes *)
(* suitable is missed, until the scan the selector has asked for.          *)
NoMissedUpdate ==
  \A s \in Selectors : selector[s] = "asleep" /\ td.suitable => td.quiet

(* mongoc-topology.c: the wait is for "a condition variable that will be   *)
(* signalled upon topology changes", so nobody would wait with a suitable  *)
(* server in the description.                                              *)
SignalledUponChanges ==
  \A s \in Selectors : selector[s] = "asleep" => ~td.suitable

(* A request to shut down finds the thread wherever it blocks: asleep it   *)
(* is signalled, awaiting a reply it is cancelled, and the SRV poller does *)
(* not go to sleep after stop has signalled it.                            *)
NoSleepThroughShutdown ==
  /\ \A m \in Monitors : monitor[m].state = "shutting_down" =>
       /\ At(m, "sleep") => monitor[m].signalled
       /\ m[1] = "hello" /\ At(m, "check") /\ Awaits(monitor[m])
          => monitor[m].cancel
  /\ scanner_state = "shutting_down" /\ srv.pc = "sleep" => srv.signalled

(* Stop comes to an end: no thread it joins waits for a mutex or for       *)
(* another thread for ever.                                                *)
StopTerminates == (stop.pc = "count") ~> (stop.pc = "done")

(* A selector that sleeps is woken by an update, without its own timeout,  *)
(* as long as some monitor runs.                                           *)
SomeMonitorRuns ==
  \E m \in Listed : m[1] = "hello" /\ monitor[m].state = "running"
SelectorWoken ==
  \A s \in Selectors :
    selector[s] = "asleep" ~> (selector[s] # "asleep" \/ ~SomeMonitorRuns)
============================================================================
