# TLA+ models of the MongoDB C driver

This directory models the parts of libmongoc where threads, servers and failures meet: the topology of
a client pool, and the operations that go on after an error: retried commands, transactions, cursors,
change streams and bulk writes. It holds the specifications, the TLC instances that check them, and proofs that TLAPS
checks. `PROJECT.json` ties every definition to the source lines it stands for, and lists the runs,
the mutants that show each property can fail, the hazards, the findings and the theorems.
Paths below are relative to `src/libmongoc/src/mongoc/` unless they say otherwise.

## 1. Inventory

A pooled application has one `mongoc_client_pool_t`, which owns one `mongoc_topology_t`. The topology
owns the *topology description*, the monitors and the pool of server sessions. A thread pops a client,
selects a server with it, opens or reuses a connection of the client's cluster, runs commands and
pushes the client back. Monitor threads send `hello` to every server and publish new descriptions.

```
 application threads            monitor, rtt and SRV threads
   | pop / push                    | hello replies, errors, DNS answers
   v                               v
 client pool --- select server --> shared description <--- SDAM (topology description)
   | client                        ^   (copy, modify, publish under tpld_modification_mtx)
   v                               | network and state change errors, handshake replies
 cluster: connections -------------+
   | lsid                          ^
   v                               | attempts, each with a selection of its own
 server session pool <--- retry loop <--- client sessions, cursors, change streams, bulk writes
```

| part | state | operations | what is hard | what makes it correct | module |
| --- | --- | --- | --- | --- | --- |
| shared pointer and shared description (`mongoc-shared.c`, `mc_tpld_*`) | reference counts, the pointer, a reader-writer lock, `tpld_modification_mtx` | take, renew and drop a reference; begin, commit, drop a modification | memory order, the last reference, commits that race | no use after free, no leak, no lost update; a versioned register to its users | `SharedDescription`, `AtomicDescription` |
| topology and server descriptions (`mongoc-topology-description.c`, `mongoc-server-description.c`) | type, set name, greatest election, servers with their last reply | handle a hello reply or an error, invalidate a server, clear a pool, reconcile with SRV | replies in any order, of any release, from strangers and from removed servers | one primary, one replica set, no return to an old primary, ids that are never reused | `TopologyDescription`, `Sdam` |
| server selection (`mongoc-topology-description.c`, `mongoc-topology.c`) | none of its own | filter by mode, staleness, tags, round trip time, deprioritized servers | filters that depend on their order, a second pass, a description that changes between checks | what is selected is what the read preference defines | `ServerSelection` |
| cluster (`mongoc-cluster.c`, `_mongoc_topology_handle_app_error`) | connections with the generation they were opened in | fetch, connect, handshake, authenticate, use, fail, disconnect | stale errors, late replies, several failures of one cause | no command on a connection older than the last clear; one clear per cause | `ConnectionPool` |
| monitors (`mongoc-server-monitor.c`, `mongoc-topology-background-monitoring.c`, SRV polling) | a thread, a mutex, a condition and flags per server | start, reconcile, request scan, cancel, shut down, join | threads that free each other, lost signals, shutdown in every state | no use after free, no thread left over, nobody sleeps for ever | `BackgroundMonitoring` |
| client pool (`mongoc-client-pool.c`) | queue, size, limit, last known server ids | pop, try_pop, push, max_size, destroy | waiters, timeouts and the limit that changes | one owner per client, no lost wake-up, no connection to a removed server in an idle client | `ClientPool`, `PooledClients` |
| server sessions (`mongoc-ts-pool.c`, `_mongoc_client_end_sessions`) | a list under a mutex, a counter outside it | get, return, drop, end in batches | the counter lags behind the list | one holder per session, an exact count, destroy that ends | `ServerSessionPool`, `PooledClients` |
| retried commands (`mongoc-retryable-cmd.c`, `mongoc_cluster_run_retryable_write`, `mongoc-error.c`) | attempts, deprioritized servers, the reply to return | retry, select another server, keep a reply | a command applied although its reply was lost, errors that hide each other | applied once; the error returned is true of all attempts | `RetryableCommand` and its users |
| client sessions and transactions (`mongoc-client-session.c`) | transaction state and number, recovery token, pinned mongos | start, commit, abort, retry the commit, `with_transaction` | errors in every state, commits that arrive late, mongoses that do not know a transaction | a commit reported is a commit done; one transaction per `with_transaction`, which ends | `ClientSession`, `SessionServer` |
| cursors (`mongoc-cursor.c`, `mongoc-cursor-find.c`) | state, batch, cursor id, server, session, exhaust flags | prime, next, getMore, kill, destroy | several cursors on one connection, a cursor id without its server | every document once, no server cursor and no session left behind | `Cursor`, `CursorServer` |
| change streams (`mongoc-change-stream.c`) | a cursor, resume token, operation time | watch, next, resume, destroy | a resume after any error and at any point of a batch | no event lost or repeated, a token that is exact, no resume for ever | `ChangeStream` |
| bulk writes (`mongoc-bulk-operation.c`, `mongoc-write-command.c`, `mongoc-bulkwrite.c`) | commands, batch, offset, result, streams | split, send, retry, merge, stop | batches that ran in part, results of many commands | nothing applied twice, true counts and indexes, an ordered bulk stops | `BulkWrite` |
| single-threaded clients (`mongoc-topology-scanner.c`, `mongoc-async*.c`) | nodes, cooldown, an event loop | scan | timers against replies | the scan ends | not yet |
| the rest | | | | | `PROJECT.json` gives the reason for each part |

## 2. Modules

### `SharedDescription`, `AtomicDescription`

One step is one shared memory access: a lock or unlock of `g_shared_ptr_mtx` or
`tpld_modification_mtx`, one atomic add, one read or exchange of the pointer, one release. `pc[t]` is
where a thread is in `mc_tpld_take_ref`, `mc_tpld_modify_begin`, `_commit` or `_drop`; `ref`,
`oldSptr`, `newSptr`, `from`, `prev` are its `mongoc_shared_ptr` handles and `raw` a pointer it has
read but does not count. The contents of a description is the number of modifications it has.
`commits` is a history variable.

`AtomicDescription` is the promise: a version that every commit raises by one, and snapshots of it.
The refinement maps the version to `mods[shared]` and a thread's snapshot to the contents of the block
its reference points to; a load takes effect when the count is added, a commit at the exchange. As the
mapping reads the block and not a remembered number, it fails if a block changes while someone holds it.

### `TopologyDescription`, `Sdam`

`TopologyDescription` holds operators, one per function of the code, from a description to the next:
parsing of a reply down to the fields the topology uses, the transition table, the updates from a
primary, from a member with and without a primary, the stale primary rules before and since 6.0,
invalidation, the clear of a pool, `topologyVersion`. `servers[a].id` is the server id, 0 for an
address that is not in the topology. `Sdam` applies replies and failures of any server id ever given
out, in any order: an update runs under `tpld_modification_mtx`, so it is one step. `latest` and
`passed` record elections (history).

### `ServerSelection`

`FilterStale`, `FilterTags`, `FilterByRtt` and the `Filter...` operators are the functions under
`mongoc_topology_description_suitable_servers`, on sets instead of arrays with NULL holes. A pass
returns what it appended and whether it asks to be repeated without deprioritization. The actions are
the turns of the pooled loop in `mongoc_topology_select_server_id`: `Check` with a new reference,
`Lock`, `Recheck` under `tpld_modification_mtx`, the wait. `Descriptions` is any set of well-formed
descriptions. `Specified` states what the read preference asks for, by its definition: fresh with
respect to every other server, of the first tag set that some fresh server has, near every other.

### `ConnectionPool`

Extends `TopologyDescription`. Clients, a monitor per server and the server processes are actors.
`Fetch`, `Connect`, `HandshakeReply`, `HandshakeUpdate`, `AddNode`, `CommandDone`, `CommandFails` are
the path of `mongoc_cluster_stream_for_server` and of a command; `AppErrorCheck` and `AppErrorApply`
are `_mongoc_topology_handle_app_error` before and under the mutex. `opened` in a connection is the
true generation at the time of connecting (history); `generation` is what the code stored.

### `BackgroundMonitoring`

Every thread is an actor: the monitor and the round-trip-time thread of each server, the SRV poller,
selecting threads, the application, `background_monitoring_stop`. `mod` is the modification in
progress and so the owner of `tpld_modification_mtx`. Sections under a monitor's own mutex never block
and belong to one step. A description is reduced to its servers, those that are `known` (not Unknown), those
with a `topologyVersion`, its type, and whether a server suits. `AfterHello` is every description a reply may
lead to. An error of a known server (`AfterError`) may take suitability away or give it: without a primary,
`maxStalenessSeconds` is judged among the secondaries (`mongoc-server-description.c:909-947`), and a server
that is Unknown does not count when the read mode is chosen (`mongoc-topology-description.c:714`). Monitors,
handshakes and the stop broadcast `cond_client` with what they publish (`CommitBroadcast`); application errors
and SRV answers do not (`Quietly`), and `quiet` marks a description that became suitable so.

A pool is destroyed after its clients came back (documentation of `mongoc_client_pool_destroy`), so
`Working` ends with the stop. Selections that have begun may overlap with it, as the code has a path
for it: `scanner_state` is looked at in `request_scan`, and the stop broadcasts `cond_client`.

### `ClientPool`, `ServerSessionPool`, `PooledClients`

`pop`, `try_pop`, `push` and `max_size` run under the pool's mutex and are one step up to their wait; a
signal wakes one sleeper, chosen freely, and a wait may end without a signal. `ServerSessionPool` has
the two halves of `mongoc_ts_pool_get` and `_return` as separate steps, since the counter is changed
after the mutex is released. `PooledClients` composes both: a thread uses sessions only while it holds
a client, and `mongoc_client_pool_destroy` runs when every client is back. `ApplicationThreads`
declares the threads once for both.

### `RetryableCommand`

Operators for the loop of `_mongoc_retryable_cmd_run`: what makes a reply retryable for each
eligibility (`none`, `overload_only`, `retryable_read`, `retryable_write`), how many attempts are
allowed, which servers the next selection avoids, which labels the driver adds. It has no variables;
its users have the two callbacks of the loop, *execute* and *select another server*, as actions. A reply
is its `ok`, its code, its labels, and whether there was one.

### `ClientSession`, `SessionServer`

One session and its deployment. `CallWrite`, `CallStart`, `CallCommit`, `CallAbort` and `WithBegin` are
calls of the application; `FirstSend` selects, pins, assembles and sends, `Answered` and `ConnectionFails`
end an attempt, `RetrySend` is the second half of the loop, and `EndWrite`, `EndCommit`, `EndAbort` what
`_mongoc_client_command_with_opts`, `txn_commit` and `txn_abort` do with the outcome. The `With...`
actions are the labels and loops of `mongoc_client_session_with_transaction`. `SessionServer` is external:
a retryable write runs once per `txnNumber`, a transaction is known to the mongos that began it, and to
another one through its recovery token only. A command whose connection failed has run, has not, or
moves to `late` and runs at any later time.

### `CursorServer`, `Cursor`, `ChangeStream`

`Cursor` is `mongoc_cursor_next` as a machine (`Unprimed`, `InBatch`, `EndOfBatch`, `Done`) for several
cursors of one client, with `client->in_exhaust` and each cursor's own flag. One step is one exchange
with a server, so everything the deployment can do happens between any two. `ChangeStream` adds the
stream that owns a cursor: `MakeCommand` chooses between `resumeAfter`, `startAfter` and
`startAtOperationTime`, `Made` and `EndNext` keep token and time, and `Resumes`, `Resume` and `Timeouts`
are the loop of `mongoc_change_stream_next`. In `CursorServer` (external) a position in the history stands
for a resume token or an operation time. It assumes servers since 4.2, which always send a
`postBatchResumeToken`; that a server error that ends an exhaust stream closes the cursor; and it leaves
out server cursors whose id never reached the client.

A server cursor is read and killed at the server its cursor names. Two steps of the code part them: a retry of
a getMore moves the cursor (`RetrySelect`), and `Made` keeps the server picked before an aggregate that was
retried elsewhere; `call.moved` counts both within a call. `Kill` closes what is open where it goes
(`KilledBy`). `KillFails` is a killCursors that is not sent, since the client is in exhaust mode, or that may or
may not have been run. What is then `OutOfReach` stays open until the server's own timeout (`Reap`).

### `BulkWrite`

Both APIs over one state: `Select` ... `EndCommand` are the loop of `mongoc_bulk_operation_execute` over
commands, `Ship`, `Merge` the loop of `_mongoc_write_opmsg` over batches, `Ship`, `Apply` that of
`mongoc_bulkwrite_execute`. An operation is `good`, `bad` (refused by the server), `wide` (fills a message)
or `large` (cannot be sent); `BatchLast` cuts a batch by count and by size, and `Examined` keeps that the
older API looks at an operation before it asks whether it still fits. `stream` has the stream a command
began with and the one it was last sent over, as the code tests the validity of the first. The server
(external) may stop anywhere in a batch when it is interrupted or its connection fails, and runs a
statement once per `txnNumber` and place.

## 3. Runs

| run | instance | checks | distinct states |
| --- | --- | --- | --- |
| `shared` | 3 threads, 5 blocks, 2 modifications | `NoUseAfterFree`, `RefcountExact`, `NoLeak`, the refinement `AtomicSpec` | 28 k |
| `sdam` | 3 hosts, replies of every role, a foreign set, a mongos, an unparsable reply; all servers since 6.0 or all before; seeds of unknown type, a direct connection, a named set | `AtMostOnePrimary`, `ReportedByPrimary`, `NoOscillation` | 46 k |
| `pool` | 2 clients, 1 server with 2 processes, 1 clear | `ConnectionFresh`, `OneClearPerGeneration`, `TopologyVersionAdvances` | 780 k |
| `monitors` | 2 server ids and threads that cannot be created; either SRV polling, or a working client and one selecting thread | `NoUseAfterDestroy`, `NoThreadOutlivesStop`, `NoSleepThroughShutdown`, `NoMissedUpdate`, absence of deadlock | 2.9 M |
| `monitors_live` | one streaming server with its two threads, one selecting thread, a working client | `NoLostScan`, and `StopTerminates`, `SelectorWoken` under fairness | 126 k |
| `clients` | 2 threads, 2 clients, limits 1 and 2, 2 sessions, 1 session per `endSessions` | `OneOwner`, `NoLostWakeup`, `IdleConnectionsKnown`, `OneHolder`, `SizeExact`, `DestroyReturns` under fairness | 617 k |
| `selection` | up to 3 servers, 12 kinds of replica set member, 5 of mongos; every mode, 3 values of maxStaleness, 3 lists of tag sets, every deprioritized list | `SelectedAsSpecified`, `FreshestSuits` | 365 k |
| `session` | 2 mongoses, 2 transaction numbers, 2 calls, 1 late command | `WritesExactlyOnce`, `NoWritesTruthful`, `CommitTruthful`, `WithTransactionOnce`, `RoutedToItsMongos`, `WithTransactionReturns` under fairness | 227 k |
| `cursors` | a find of 2 documents, exhaust or not, beside a change stream: over 3 changes with each start option and one server in use, or over none with 2 servers; retried reads, 1 failure besides timeouts and overload | `FindExact`, `NoEventLost`, `TokenExact`, `SessionOfOpenCursor`, `ResumesBounded`, `NoCursorLeft` | 4.2 M |
| `cursors_exhaust` | two finds of one client | `RepliesNotCrossed`, violated: section 5 | |
| `bulk` | 64 bulks of 4 operations in batches of 2, both APIs, ordered or not, 1 or 2 commands, 2 servers | `AppliedOnce`, `ResultExact`, `OrderedPrefix` | 2.1 M |
| `bulk_ordered` | the same | `OrderedStops`, violated: section 5 | |

What the newer properties mean:

* `NoMissedUpdate`: a selection does not sleep when a check or a handshake has published a server for it, wherever
  the update falls between its first look and its wait. What an application error makes suitable it may miss
  (section 5).
* `WritesExactlyOnce`: a write is applied once however often it is sent and however late a copy of it
  arrives. `NoWritesTruthful`: an error with the label NoWritesPerformed is true of all its attempts.
* `CommitTruthful`: a commit reported as done is done, and if it is the repetition of one that had been
  applied, a majority has it. `WithTransactionOnce`: of the transactions one `with_transaction` starts at
  most one is ever committed. `RoutedToItsMongos`: a command of a transaction that is open goes where it is known.
* `FindExact`: a find returns a prefix of its documents in order, all of them if it ends without an
  error. `NoCursorLeft` is about steps: a server cursor goes out of the reach of its client's live cursors only when
  its getMore is retried at another server, when the aggregate that opened it was, or when its killCursors fails or is
  not sent (`LeavesOnly`); no error, timeout or resumption loses one otherwise. `SessionOfOpenCursor`: the session of an open server cursor stays with its cursor.
* `NoEventLost`: what the stream has returned is, at any time, the matching events from where it started,
  without gap or repetition. `TokenExact`: resuming elsewhere from `mongoc_change_stream_get_resume_token`
  would continue there as well. `ResumesBounded`: a call opens its cursor again at most twice more than there
  were failures and moves to a server where the cursor is not open.
* `ResultExact`: success means that every operation was applied; every write error names an operation the
  server refused, by its index in the whole bulk; counts are exact unless an error cut the bulk short,
  and then they are not too high.

**Bounds.** `MaxCommits`, `MaxServerId`, `MaxGeneration`, `MaxChanges`, `MaxProcesses`, `MaxTime`,
`MaxTxnNumber`, `MaxWrites`, `MaxCalls`, `MaxLate`, `MaxFaults`, `NumDocs` and the sets of blocks, clients
and sessions are the named bounds. Three threads are two readers and a writer, or two
writers and a reader; a third modification meets only states like those after the second. Five
blocks are enough that allocation never waits. In `sdam` five ids let every host be removed and added
again. In `pool` one clear separates the connections before and after it, and two processes separate
`topologyVersion`s that cannot be compared. In `monitors` a second id is a server that comes and goes
while the first stays. In `clients` two threads at a limit of one wait for each other, and two sessions with a
batch of one make destroy send two commands and put one session back. In `selection`, numbers
are chosen around the thresholds: a lag and a round trip time at, below and beyond the limit.
In `session` two numbers are a transaction and the next one, or a write and a transaction, so that a token
or a late command of the first meets the second. In `cursors` timeouts and overload are not bounded, as
the code's own limits end them; one more failure puts an error at every point of a call. `cursors` has two scopes
(`Scope` of `MCChangeStream`). Long histories are read from one server at a time, and states in which a server cursor is
out of reach are not explored further: what the client returns does not depend on a cursor it cannot reach. The empty
history is read from either of two servers, where one server cursor may be out of reach at a time (`MaxLeft`) and a call
may meet two moves (`MaxMoves`), so that a call resumes for a move and meets another. The servers are interchangeable
(`Symmetry`). `monitors` has two as well: while the SRV thread runs the clients are idle
(`ClientsIdle`); where it could not be created they work and select, the other threads are created, and the monitor of the second server has
not made its first check yet (`SecondMonitorSlow`), so that this server becomes known by handshakes and Unknown by errors. In `bulk`
four operations with batches of two give two batches of a command, or a command of one batch between
others, with the error in either. Proofs remove the bounds
of all passing runs from their safety properties; two of the six properties of `cursors` are proved for one find and one
change stream, and for more finds until a reply crosses (section 4).

**Fairness.** In `monitors_live` every thread that can step does. The end of a sleep is a point in time
that signals do not move (`mongoc_server_monitor_wait` recomputes the rest of the time), so
`WaitTimeout` has fairness of its own. Requests for `tpld_modification_mtx` are strongly fair: a
thread that finds it free again and again gets it. The application is not fair: nobody makes it call
the driver. In `clients` only the steps of a destroy that has been called are fair. In `session` the
driver's own steps are weakly fair; so are answers or failures of a connection, as every read has
`socketTimeoutMS`, and the clock that ends `with_transaction`. The callback of `with_transaction` is the
application's; that it returns each time is assumed (`CallbackReturns`, strongly fair, since its calls
disable it for a while), as the documentation asks. The deployment is not fair.

## 4. Proofs

Proved by TLAPS for every number of threads, blocks, clients, sessions, servers and operations and for every
limit, from the `ASSUME`s of the modules. Most of these say that sets of threads, clients, servers or addresses are
finite, that NULL values are outside of the sets they mark, and that bounds are natural numbers. The others:

* `ClientPool`: some `maxPoolSize` is positive.
* `Sdam`: seeds fit the bound on ids and a direct connection has one seed (`InitialAssumption`, as
  the connection string must have); replies have the fields of a hello and name known addresses
  (`HellosAssumption`); the primaries of one deployment order their elections in one way
  (`DeploymentAssumption`; section 5 says what happens otherwise).
* `ConnectionPool`: replies have the fields of a hello (`RepliesAssumption`).
* `ServerSelection`: `WellFormed` descriptions, with at most one primary and none unless the type says so:
  what `Sdam_proofs` proves of those that are published.
* `Cursor`, `ChangeStream`: 0 is no server id; one change stream beside any number of finds.
* `BulkWrite`: a bulk has at least one operation, its first command starts with the first one
  (`BulkAssumption`).

`Descriptions_proofs` has two parts. The first is about `SharedDescription` (`TypeCorrect`, `MemorySafe`, `CountsExact`, `NothingLeaks`, `UpdatesKept`,
`ImplementsAtomic`). The inductive invariant has four layers, each proved with the ones below it:

1. `ControlInv`: types, who holds which lock at which label (`LockInv`), and which handle is set at
   which label (`SlotInv`).
2. `MemoryInv`: counts are exact and handles point to allocated blocks. Its core is `RawInv`: a block whose
   pointer was read and is not counted yet is still published, because the reader holds
   `g_shared_ptr_mtx` or, in `mc_tpld_modify_commit`, because the modification mutex keeps every store
   out; and a block that is being released is counted by nobody.
3. `VersionInv`: the copy of a modification in progress has one more modification than the published
   description.
4. `OwnedInv`: an allocated block without a count has a thread that will publish or release it; with
   `RawInv`, which says that there is only one, this gives `NoLeak`.

Counting lemmas (`CountGain`, `CountLose`) state what an assignment to one thread's handle does to the number of handles on
a block. The refinement then needs one case per step: `LoadAdd`, `DropRef` and `StoreExchange` are
`Take`, `Drop` and `Modify`, all others stutter.

`Sdam_proofs` (`TypeCorrect`, `OnePrimary`, `MembersReported`, `NoReturn`). One lemma per operator of
`TopologyDescription` says what it does to the servers, then one per entry of the transition table shows that a
description stays `Sound`: typed, with at most one primary (`PrimaryInv`). `AtMostOnePrimary` alone is not
inductive: a description of a type without primary must have none, a direct connection one member, and the members
of a replica set with a primary must be among its hosts, since the operators that remove hosts or add a primary rely on it.
For `NoReturn`, `ElectionInv` compares elections with the order of the deployment: the greatest election the
description remembers is at least that of the last accepted primary, and every election replaced before is less.

`ConnectionPool_proofs` (`TypeCorrect`, `FreshConnections`, `ClearedOnce`, `VersionsAdvance`). A client
works with a description that others replace, so the invariant says what is left of its knowledge: as long as its
server is in the published description the generation can only have grown, and once it is gone its id never
returns (`ClientOk`, `NodeOk`). That rests on two relations every update of a description satisfies: `Evolves` (a
server keeps its id, generation and `topologyVersion`, or goes; another one comes with a new id) and `Follows` (which
also allows a `topologyVersion` that is not older, and the pool of one id cleared). `ClearsOk` says that no pool was cleared in its present generation or a later one. `VersionsAdvance` is
an action property: each step is one of those relations, or takes no update at all.

`BackgroundMonitoring_proofs` (`TypeCorrect`, `DestroySafe`, `StopComplete`, `ShutdownHeard`,
`ScanPending`, `UpdateSeen`). `MonitorInv` says of each monitor where its thread can be in which state, that it is
listed from its creation until it is freed, and that a request finds the thread awake or signalled. `ModInv` says
who may hold the modification mutex, `StopInv` how far the shutdown has come: which monitors it still has to
join, and that from its count on nobody adds or removes one. `ScanInv` says why a selector that sleeps will be
woken: every running monitor scans, will scan, or was told to. For `UpdateSeen` one case per way to publish is
enough: a broadcast leaves nobody asleep, a quiet change marks the description, and a selector goes to sleep only
under the mutex and with no server.

`PooledClients_proofs` has four parts. First lemmas on counting threads and on queues that both pools use.

Then the client pool by itself (`PoolCorrect`): from types and control, `WakeupStep` shows that
queue plus room never exceeds the woken threads while someone sleeps; a push adds one client and
wakes one sleeper, a woken thread that takes a client lowers both sides. `OwnerStep` keeps clients apart and the
size exact, `KnownStep` needs that a push prunes every idle client when the ids changed.

Then the pool of server sessions (`SessionPoolCorrect`): the counter is not the length of the list, so the
invariant is a balance: counter minus list equals the threads that have taken and not yet counted
minus those that have put and not yet counted.

Then both together (`TypeCorrect`, `ClientsHaveOneOwner`, `WakeupsAreNotLost`, `IdleClientsArePruned`,
`SessionsHaveOneHolder`, `SessionCountExact`, `DestroyNeverWaits`, `DestroyLeavesNothing`): every step is a step of
both pools or `DestroyClients` (`StepOfPools`), so the invariants of the pools carry over; `UseInv` adds what only the
composition knows: a session in the list means that a client exists, and when every client is back nobody is in the
middle of an operation.

The second part of `Descriptions_proofs` is about `ServerSelection` (`SelectionAsSpecified`, `FreshestIsSelected`,
`OldServersGetThePrimary`): for every well-formed description and every operation. One lemma per filter equates it with its
definition: `RttFilter`, `TagFilter`, `StaleFilter`. They rest on the existence of least and greatest
values: a least natural number exists because < is well-founded on them (`LeastNat`), and a function
on a finite set has its greatest value where the number of elements with a greater one is least
(`GreatestValue`). `StaleFilter` needs that `mongoc_topology_compatible` has found a write date in every
member. `CandidateFilter`, `ReplicaSetPass` and `ShardedPass` put a pass together, `TwoPasses` the second
one. `SelectionInv` says what the loop knows where it is; it is inductive as it stands. 

`UpdatesKept`, `DestroyNeverWaits`, `DestroyLeavesNothing` and `OldServersGetThePrimary` are proved and
in no run: the first follows from the refinement, the others are states of one thread.

`BulkWrite_proofs` (`TypeCorrect`, `OnceApplied`, `StopsAtFirstError`, `ResultTrue`), for every bulk and
every size of a batch. `CallOk` says where a call is: the batch within its command, and that a command
that may be sent again has a number unless it cannot have run. `NumbersOk` and `AppliedOk` say that the number of a
batch is the last one given out, so that the operations of a batch to be resent are applied exactly if the
server knows that number. That gives `AppliedOnce`. `KeptOk` relates the reply the retry loop keeps to the batch: it
is true of the batch because an attempt that does not replace it wrote nothing. With it `ResultOk` follows the
result through the merges (counts, errors by place, when the bulk was cut short), and `OrderedOk`
says that an ordered bulk goes on only while all before was applied.

`ClientSession_proofs` (`TypeCorrect`, `WritesOnce`, `NoWritesTrue`, `CommitTrue`, `OneCommit`, `Routed`), for every
topology and option and any number of calls, attempts and late commands. The deployment enters through `Contract`, what a
command that is processed may change and answer; one lemma per kind of command shows that `SessionServer` keeps it, and the
rest uses nothing else of it. The parts of the invariant:

* `ControlOk`, `LoopOk`: what a call is about in which state of the transaction, and that a reply the retry loop has kept
  is an error which says, unless the write has a number, that nothing was written.
* `NumbersOk`, `OwnerOk`, `AppliedOk`, `UntouchedOk`: a number is given out once, to one write or one transaction, and
  every command that may still arrive has one of them; by it the server knows whether the write was applied. A write
  without number has at most one copy that can arrive. That gives `WritesOnce` and `NoWritesTrue`.
* `CommitOk`, `FirstCommitOk`: until its first commit is sent nothing can commit a transaction, and a commit that
  may meet an earlier one asks for a majority. That gives `CommitTrue`.
* `WithOk`: a transaction of `with_transaction` is `Gone` if it is not committed and either the deployment has ended it or
  nobody has asked or will ask to commit it. All but the last are gone, and wherever the next may start that one is too.
  `WithTransactionOnce` alone is not inductive: it does not know which labels lead to a restart.
* `RouteOk`: while no command failed transiently, the session is pinned to the mongos of the open transaction and has its
  recovery token.

`ChangeStream_proofs` is about `Cursor` and `ChangeStream`, for any servers, finds, documents, histories and number of
failures, with or without retried reads. It has two parts. The first (`StreamTypes`, `FindsExact`, `SessionsKept`,
`EventsInOrder`, `TokensExact`) needs nothing of exhaust streams. (The model marks a reply that crosses and goes on as if
it had been the right one, so what these say of the code is meant until then.) `IInv` is inductive:

* `Distinct` and `Life`: no two cursors have the same server cursor, and a cursor with one has its session and a server.
* `FindData`: what a find has returned, followed by its batch, is a prefix of the documents, and the server
  cursor stands where that prefix ends.
* `Calling`, `StreamState`: what a call may rely on at each point, and the stream with it.
* `StreamData`: the same as `FindData` for a stream. What it has returned are the events from its start to its token (`AtToken`);
  before it has a token, nothing was returned, and no event lies between its start and the operation time it resumes from
  (`AtTime`); its batch are the next events, and the server cursor stands at their end (`Follows`). `NoEventLost` alone
  is not inductive: it says nothing about where the next aggregate begins.

The events of a history are a sequence that lists a finite set in ascending order, `InOrder`; that there is exactly one,
and that those of adjoining intervals concatenate, is proved from the cardinality of finite sets (`InOrderLists`,
`AscendingUnique`, `InOrderConcat`, `InOrderPrefix`).

The second part is about exhaust mode, server cursors left behind and resuming. `Steps` sums up what a step does to the
server cursors, so that each of the following needs one case for each kind of step and not for each action:

* `StreamsAgree`: until a reply crosses, a server streams only a cursor that is open there, and a cursor is in
  exhaust mode exactly while it is streamed (`Streaming`).
* `OneFindNotCrossed`: a client with one find reads no reply for another command (`OneStream`: the client is in exhaust
  only for that find, and every stream is its own). The run `cursors_exhaust` shows that two finds are enough to break it.
* `CursorsNotLeft`, `ResumesAreBounded`: `NoCursorLeft` and `ResumesBounded` until a reply crosses, for any number of
  servers and with reads retried or not. For the first no more is needed than that a step keeps what it does not close
  in reach (`StepLeaves`): a cursor is forgotten only after its kill, or while it streams, when the connection is closed.
  For the second, `Bounded` keeps an account: each time the cursor was opened again but the last has been paid for by a
  timeout, a failure or a move, and so has the last as soon as it is `Doomed` to be opened again, because it failed or
  is not open at the server it asks.
* `NoneLeft` and `ResumingEnds` are the same without the condition, for one find: the instance of `cursors`, with
  any number of servers, documents, events and failures.

Only model-checked: liveness (`StopTerminates`, `SelectorWoken`,
`DestroyReturns`, `WithTransactionReturns`), which stays with TLC: the prover has no support for fairness and
`ENABLED`.

## 5. Findings

* `cursors_exhaust`: `_mongoc_cursor_response_refresh` copies `client->in_exhaust` to a cursor only after a
  reply without an error (`mongoc-cursor.c:1527`). A cursor whose exhaust stream ended in a server error
  keeps its own flag, and destroying it later takes the client out of the exhaust mode of another
  cursor. The next command of the client then reads a reply that was streamed for that cursor.
* `bulk_ordered`: in an ordered bulk operation, a batch with write errors does not keep the next batches
  of the same command from being sent (`mongoc-write-command.c:746-766`), only the next command, although
  the documentation says that progress stops at the first error. `OrderedPrefix` shows that this is the
  only gap: with commands of one batch each, and in `mongoc_bulkwrite_execute`, an ordered bulk stops.

Three sentences of the repository are stated as properties and fail when a cfg asks for them. They are not runs of
their own; what does hold instead is:

* `SignalledUponChanges`, in the instance of `monitors`: the selection waits for "a condition variable that will be
  signalled upon topology changes" (comment at `mongoc-topology.c:1329`). Application errors
  (`mongoc-topology.c:1778-1964`) and SRV answers (`882-901`) change the description without signalling it. If the
  loss of a server makes another suitable, a selection that waits learns of it only at the next check. It has asked
  for one, so the delay is that of a scan. `NoMissedUpdate` and `SelectorWoken` hold.
* `CursorReleased`, in the instance of `cursors` with `MaxFaults = 0`: `mongoc_cursor_destroy.rst:22` says "If a
  server-side cursor has been allocated, it will be released as well." There are three ways to leave one open, which
  `NoCursorLeft` lists. While another cursor of the client is in exhaust mode `mongoc_cluster_run_opmsg` refuses the
  killCursors (`mongoc-cluster.c:3345`), and the refusal is only logged. The server of a change stream's getMores and
  killCursors is fixed before its aggregate (`mongoc-change-stream.c:282`), which a retry may run at another server
  (`mongoc-client.c:1683`); each getMore then fails with CursorNotFound and resumes the stream. A getMore retried
  after overload moves its cursor in the same way (`mongoc-cursor.c:783`).
* `ResumesOnce`, in the instance of `cursors`: `mongoc_change_stream_t.rst:31` says that "libmongoc only attempts to
  resume once". The code has a loop (`mongoc-change-stream.c:511`), which resumes again after a timeout of the new
  cursor and after every other resumable error of it. `ResumesBounded` holds.

Seen while modelling and not turned into a run. Topology:

* Servers before and since 6.0 are compared by two rules against the same maxima, so in an upgrade the
  driver can go back and forth between two primaries (`mongoc-topology-description.c:1932`); the instance of
  `sdam` has deployments of one kind.
* An error during authentication carries generation 0 and is taken for stale once the pool was cleared
  (`mongoc-cluster.c:2134`); a DNS error clears the pool without comparing generations (`mongoc-cluster.c:235`).
* The SRV poller asserts a condition it checked on an older description (`mongoc-topology.c:846`) and
  applies an answer to a description that may have changed its type (`mongoc-topology.c:880`).
* The second selection of the loop, under the mutex, is not preceded by the check of compatibility
  (`mongoc-topology.c:1335`); deprioritized servers leave before staleness is judged
  (`mongoc-server-description.c:926`).
* A PossiblePrimary has the wire versions of a server that never answered
  (`mongoc-topology-description.c:714`); a monitor whose thread cannot be created stays listed
  (`mongoc-server-monitor.c:1339`).
* After a primary steps down and names no successor, the topology stays `ReplicaSetWithPrimary` until the
  next reply (`mongoc-topology-description.c:2076`); selection finds no primary and waits, as it should.

Sessions:

* A network error while connecting is returned without TransientTransactionError and leaves the session
  pinned (`mongoc-cluster.c:2765-2822`; the comment at `mongoc-cluster.c:177` describes errors of a command).
* A `start_transaction` refused for its write concern has already taken a transaction number and kept its
  options, and `max_commit_time_ms` of one transaction is kept for the next (`mongoc-client-session.c:1167-1187`).
* With `retryWrites=false`, a commit that cannot connect has no UnknownTransactionCommitResult; nor has one
  whose second attempt fails with a server error without labels.
* A retryable `writeConcernError` followed by an attempt with NoWritesPerformed returns false with an empty error.

Cursors and change streams:

* Advancing a change stream while another cursor is in exhaust mode stops it with an error.

Bulk writes:

* `_mongoc_write_opmsg` clears the error when the last batch succeeded. A document that is too large after a
  batch that succeeded, or an unordered batch that failed before one that succeeded, makes
  `mongoc_bulk_operation_execute` return 0 with an empty error.
* A document that is too large discards the operations before it that were collected for the same batch,
  and the error names the first of those.
* The first error index that `mongoc_bulkwrite_execute` keeps is relative to its batch: if the first operation of
  the second batch fails, the result is NULL although a batch had succeeded
  (`mongoc-bulkwrite.c:1397`, `1962`). The index in "unable to send document at index" is always 0.
* Validity is asked of the stream a command began with, so an unordered bulk may send a batch over a retry
  stream that was closed (`mongoc-write-command.c:751`).
* If no stream is found for a later command, the results of the earlier ones are not returned
  (`mongoc-bulk-operation.c:769`).

## 6. Not modelled

Wire format, BSON, TLS, sockets, compression, authentication conversations, GridFS, option parsing,
encryption, events and logs are bytes and input or output; `PROJECT.json` lists each with its reason. Within
the modelled parts:

* topology: load balanced connection pools with a generation per service, reconciliation with SRV records
  beyond the set of servers (`srvMaxHosts`), cluster time, averaging of round trip times, the setters of
  a pool that may only be called before the first pop, the single-threaded client, and a hello of the handshake that is
  answered with a state-change error (`mongoc-cluster.c:912`), which is treated as an application error there and as a
  failed handshake here;
* sessions: several sessions of one thread, options, operation times, snapshot reads, the sleep between
  attempts, sessions behind a load balancer (also in the pool of server sessions, `mongoc-topology.c:257`, `1628`);
* cursors: cursors over an array or a given reply, clones, limits, explicit sessions,
  `mongoc_client_reset`, malformed replies, events without `_id`, the refusal of `resumeAfter` with the token
  of an invalidating event, that of exhaust cursors by old mongoses (`mongoc-cursor.c:865-879`), and that a connection
  made at the second attempt leaves a find retryable after overload only (`mongoc-cmd.c:666`). A stream that cannot be had while
  a cursor is in exhaust mode is not an action of its own: `Fetch` and `ConnectionFails` have its effect;
* bulk writes: unacknowledged writes and transactions, documents between `maxBsonObjectSize` and the size
  of a message, upserted ids and verbose results, a batch that runs after the driver gave up on it
  (`ClientSession` has that for a single write).

## 7. Plan

Done, in this order: `SharedDescription` with its proofs, `TopologyDescription` and `Sdam`,
`ConnectionPool`, `BackgroundMonitoring`, the client and session pools with their proofs,
`ServerSelection` with its proofs, `RetryableCommand`, `ClientSession`, `Cursor` and `ChangeStream`, `BulkWrite`; then the
proofs of `BackgroundMonitoring`, `Sdam`, `ConnectionPool`, `BulkWrite`, `ClientSession`, `Cursor` and `ChangeStream`.

Next modules: reconciliation with SRV records and `srvMaxHosts`, the generation map, the single-threaded
selection loop and the scanner.
