# Verification of waggle

TLA+ models of the waggle broker and its machine runtime: what the task queue,
sessions, direct messages, event streams, local delivery and the two background
processes themselves do, statement by statement, critical section by critical
section and file by file; TLC configurations that check them on small instances;
and TLAPS proofs, for every instance, of the safety properties. `src/` below is
the repository's root.

## 1. The system

waggle is a broker process per project that coding agents on one machine talk
to over a Unix socket, one JSON request per line. The broker keeps a SQLite
database and, in memory, sessions, locks and subscriptions.

| Part | State | Operations | Where |
|---|---|---|---|
| Task store | table `tasks` | create, claim, complete, fail, cancel, heartbeat, update, requeues | `internal/tasks/store.go` |
| Dependencies | `depends_on`, `blocked` | ResolveDeps after a completion, FailDependents after a failure | `internal/tasks/deps.go` |
| Lease and TTL checkers | – | two tickers that requeue, fail or cancel | `internal/tasks/lease.go`, `ttl.go` |
| Messages | table `messages`, `ackWaiters` | send (with `--await-ack`), ack, inbox, replay, expiry | `internal/messages`, `internal/broker/router.go` |
| Sessions | `sessions`, `pushTokens`, per connection a name and flags | connect, disconnect, push.reserve, push.release, cleanup | `internal/broker/session.go`, `router.go` |
| Locks | map resource to owner | acquire, release, release all | `internal/locks` |
| Event hub | channels by topic and name | subscribe, publish, unsubscribe all | `internal/events` |
| Broker lifecycle | listener, stopCh, PID and lock files | start, serve, idle timeout, shutdown, crash and restart | `internal/broker/broker.go`, `lifecycle.go` |
| Spawn manager | spawned agents by name | spawn, update PID, liveness poll, stop all | `internal/spawn` |
| Machine runtime | SQLite of watches and deliveries, one listener per watch | reconcile, deliver, retry, surface | `internal/runtime` |
| Runtime daemon | PID file, state file, start lock | start, wait for ready, stop, take over a stale lock | `internal/runtime/daemon.go`, `cmd/runtime_start.go`, `internal/adapter/bootstrap.go` |
| Client, CLI, installers | – | one request per command; edits of configuration files | `internal/client`, `cmd`, `internal/install`, `internal/adapter` |

**How the parts meet.** Each connection has a goroutine that reads a request,
runs its handler and writes the answer; tickers run beside them. All of them
share one `*sql.DB` with `SetMaxOpenConns(1)`. Handlers call stores, hub, lock
manager and each other's sessions (a push writes to the recipient's socket).
The cleanup of a session touches all of them. The runtime is a client: it
reserves a push token, connects as `<agent>-push` and is pushed the agent's
messages.

**What is hard.**

- `Store.Claim` sends `BEGIN IMMEDIATE`, `SELECT`, `UPDATE` and `COMMIT` or
  `ROLLBACK` as separate calls on the pool. Between two of them the connection
  is free, and statements of other sessions and of the checkers run *inside the
  claim's transaction*. They are answered at once and undone if the claim ends
  in `ROLLBACK` ("no eligible tasks"). `db.Begin`, which `Ack` and `Inbox` use,
  fails in that window.
- Handlers of several statements (claim, create with a key, complete with
  ResolveDeps, fail with FailDependents, send, inbox) act on what an earlier
  statement saw.
- The cleanup of a base session runs the cleanup of its push listener in its
  own goroutine, beside the listener's handler and its own cleanup.
- In the runtime a push, the replay of an inbox and the retry sweep may have the
  same message at once; records, signal file and broker are updated one after the
  other and a crash may come between; agents change the same database.
- Broker, runtime and the commands that start and stop them share PID files, a
  socket's path, a state file and a lock directory, which everyone checks first
  and removes later, by path. Processes are killed, hang, or take long to end.
- An event stream is fed by publishers that must not wait, through channels that
  are closed when a session ends, to a socket that several goroutines write to
  and whose client may not read.
- Timeouts race answers: leases and heartbeats, awaited acks, message and task
  TTLs. Crashes lose the open transaction.

**What makes each part correct.** Tasks: one holder per claim, a claim token is
never valid twice, what is finished stays finished, every claim is given back
once, waiting ends. Sessions: one session per name, nothing outlives its session
or is taken from its successor, cleanups end. Messages: an acked message stays
acked, a waiter is answered and never leaks, OK means acked. Event hub: events
arrive whole and in order or are dropped, nobody sends to a closed channel, a slow
client holds up nobody else. Lifecycle: one broker per project, whatever was
killed; commands return and a stop ends. Runtime daemon: what passes for running
runs, one start at a time. Runtime: what is acked at the broker is recorded, one
message is handled by one goroutine at a time, retries end, workers follow the
watches, Stop ends.

## 2. Modules

| Module | What it is |
|---|---|
| `TaskStore` | tasks, dependencies, both checkers, crash and restart; one step per SQL statement |
| `TaskLedger` | the abstract task queue: lifecycle and claim tokens of the committed table |
| `Sessions` | sessions, names, push tokens, locks, subscriptions and claims through cleanup; one step per critical section |
| `Messages` | messages, ackWaiters, push, inbox, expiry, next to the transaction of a task claim |
| `Runtime` | the machine runtime: workers, delivery records, retry sweep, reconcile, maintenance, commands; one step per statement, critical section, call to the broker or signal write |
| `Delivery` | abstract local delivery: the way of a message from the broker's inbox to a record that is settled or pruned |
| `RuntimeDaemon` | the runtime's process: PID file, state file and start lock under start, stop and the adapters' start; one step per access to a file or signal |
| `BrokerLife` | the broker's process: PID file, socket, Serve, Shutdown, idle monitor, and the commands that start, probe, use and stop it |
| `Events` | the event hub, its publishers, the goroutines that forward its channels, and slow clients |
| `TaskStoreProofs`, `SessionsProofs`, `MessagesProofs`, `RuntimeProofs`, `RuntimeDaemonProofs`, `BrokerLifeProofs`, `EventsProofs` | the theorems about the module of that name |
| `MCTasks`, `MCSessions`, `MCMessages`, `MCRuntime`, `MCRuntimeDaemon`, `MCBrokerLife`, `MCEvents` | instances for TLC |

### TaskStore

`db` is the table as the connection sees it, `durable` as last committed, `txn`
says that a claim's transaction is open. `Exec` is a write statement: it changes
`db`, and `durable` too unless `txn`. `ClaimRollback` and `Crash` set `db` to
`durable`, `ClaimCommit` the other way round. `pc` and `loc` are the handler of
each session: a session has one request at a time. `claimMu` is the mutex of
claims, which a claim waits for after `ClaimRequest` and keeps until it returns;
`conn` is the handler whose query has its rows open, which keeps the one
connection of the pool, so that every other statement waits (`Free`). A row is a
record; an id that is not given out is in state `absent` (AUTOINCREMENT's counter
rolls back with the row). A claim filter (type, tags) is the set of ids it
matches, chosen in `ClaimSelect`. Times are ticks. `RequeueByOwner` is the
statement that session cleanup runs; it may run for a name whether or not that
session holds tasks. Both checkers are actions that may run at any time; the lease
checker's two statements are two actions with the time of the first kept in
`lcAt`. Left out: result, failure reason and time stamps, the `Get` after a
statement that only feeds a reply, events published about tasks, SQLite I/O
errors.

### Sessions

`sess` and `tokens` are the broker's maps, `name`, `clean`, `owns` the fields of
a connection's session, `pc` where its goroutine is, `cl` how far its cleanup
(a `sync.Once`) has come, and `peer` the push listener that the cleanup tears
down. `locks`, `subs` and `claims` carry, besides the owner's name that the code
stores, the connection that was granted them, so that properties can tell a
session from a successor of the same name. A name is a base name and a kind, for
the suffix `-push`. `Claim` is one step here, `ClaimOver` everything else that
ends a claim. The event hub is one topic here; presence events and the sockets
are in `Events`.

### Messages

`db`, `durable`, `txn` as in `TaskStore`; `ClaimBegin` and `ClaimEnd` are the task
claim as the message store meets it. `waiters` is `ackWaiters`, `signalled` the
closed channels. Whether the recipient is connected, and whether the write to it
succeeds, is a choice in `Push`. The writes to the recipient's session and to its
push listener have no deadline: `stalled` are the connections whose client has
stopped reading, and a handler that writes to one waits (`Blocked`). `ackd` is
history: which acks succeeded. Bodies, priorities and the sender are left out;
order of an inbox is not a property here.

### Runtime

A key is a watch and a message. `rec` is the table of delivery records, with time
stamps reduced to whether they are set and `row` telling a pruned record from one
that never was; `watches` is the table of watches. `pc` and `loc` are the worker
of each watch and the retry sweep, `rc` the reconcile loop; `workers`, `inflight`
and `status` are the manager's maps (`status` the delivery error of a watch,
reported for an active watch or as a backlog; `pendingFailures` is the program
counter `fail`). `room` is what still fits in the signal file, a choice at every
write. Two goroutines share the steps from `Notify` on. The broker is external
here: `inbox` is its copy of a message, `Push` tries a push once and may bring an
acked message back (section 6), `Consume` is an ack of the agent itself or the
expiry. A replay or a listen may fail at any time, and has a deadline after which
it does. The ack of a replayed message has none, and no context: there a worker
may stay in step `hung` until the broker answers or ends (`AnswerAck`). `Fault` is
a failing statement of `handleDelivery`. A command reads and later marks:
`MarkRead` marks any set of records that could have been read before. Merged into
one step: a sleep and the check after it, the first reconcile of `Start`; ticks
that change nothing are left out, and so is a tick that the select prefers to a
context that is already done. Left out: the texts and the ring buffer of errors,
errors of listeners, of catch-up and of the refresh itself, backoff lengths, the
desktop notification.

`Delivery` is what all that comes to for a message: `inbox` and `sending` are the
broker's side, `log` what the machine knows (none, waiting, given up, done,
pruned), which `LogOf` reads off the record. Its actions are those of an agent who
sees neither goroutines nor files. That a message may go from given up to waiting
is the code's: the sweep counts a failure from the attempts that it queried, which
may be fewer than were recorded since.

### RuntimeDaemon

`pidFile`, `state` and `lock` are the three files; `lock` holds the command that
made the directory, `Orphan` once that command is dead and `Stale` once it is past
`RuntimeStartLockStaleThreshold`. `proc` is where each daemon is in `RunDaemon`,
`pc` where each command is; `seen` is the PID it has read. `runtime start` and
`ensureRuntimeStarted` share their steps. A command that finds the PID file gone
between the Stat and the Remove fails, as in the code. Reading the state file and
signal 0 are one step, and so are the truncation and the write of a PID file.
`up`, `gone` and `raced` are history for the properties: `raced` says that two
commands took over the same stale lock, which `LockExclusive` excludes. `Timely`
forbids deadlines to pass, for run `doc_one_runtime`. A PID is not used twice; I/O
errors of the files are left out.

### BrokerLife

`pidFile` and `sock` (the process whose socket is at the path), `main` (the main
goroutine of `start --foreground`: forked, cleared, listening, serving, left),
`down` (how far `Shutdown` is), `asked` (goroutines about to enter it: `stop` and
the idle monitor), `hung` (a broker that accepts and does not answer), `pc` and
`conn` of the commands. What a command wants is chosen where it first matters: a
request, a listener or a stop after the handshake, `start` when the broker is up.
A second close of `stopCh` is the panic that it is in Go (`StopAgain`).
`disturbed` is history: commands overlapped before they were connected, a broker
was started beside one on its way up or down, or a deadline passed on a broker
that runs. `OneBroker` excludes those, and section 6 says what the model does
there. Merged: reading the PID file and signal 0, `Listen` and `Chmod`, the close
of the listener and of the registered connections, the two removals of `Drop` and
of `CleanupStaleFiles`.

### Events

`topics` is the hub's map, `chan` each channel with its buffer and the goroutine
that forwards it (receive, lock `writeMu`, write the event, write the newline),
`readers` the publishers that hold `hub.mu`, `todo` the channels that their
Publish has still to reach, `loop` the readLoop of each client, `out` what its
socket holds and `got` what it has read. Publishers are whatever goroutine
publishes: handlers, cleanups (presence), the TTL checker. A client may stall or
hang up at any time. `replaced` are channels that a second subscribe took the
place of. The preference of an `RWMutex` for a waiting writer is left out: it only
removes behaviours. Unsubscribe has no caller.

## 3. Runs

| Run | Checks |
|---|---|
| `tasks` | coherent claims, unique tokens; durable finishes, fresh tokens; `TaskStore` implements `TaskLedger` |
| `leases` | retries charged once, running leases kept, every request gets claimMu and the connection and is answered, overdue claims released |
| `sessions` | one session per name; nothing left behind or taken from a successor; push token ownership |
| `sessions_live` | every cleanup ends, the push listener follows |
| `messages` | no waiter leaks; OK means acked; every request is answered, or waits for a recipient that does not read; a finished message is touched only by a handler that had it already |
| `runtime` | one goroutine per message; no worker left behind; a worker does not notify twice; `Runtime` implements `Delivery` |
| `runtime_live` | retries end; workers follow the watches and Stop returns, or a worker waits for a broker that does not answer an ack; reported errors go away |
| `daemon` | what passes for a running runtime is one; one start at a time; a start is not fooled by a dead daemon's state file; commands return |
| `broker` | one broker serves and both files lead to it; commands return although the broker hangs; a stop ends the process; a broker that nobody can reach ends by itself |
| `events` | no send on a closed channel; whole lines; events of a publisher in order; Publish returns; a session and its forwarders end |
| `doc_terminal`, `doc_one_runtime` | one sentence of a document each that the code does not keep (section 6) |

The type invariants are not part of the runs: they are proved (section 4), as is
every other safety property of these runs: what TLC alone decides is liveness.

**Bounds.** `tasks`: two sessions, because every race found in the code is
between two handlers; two tasks, one of which may depend on the other; three
claim tokens, so that a token is given back, the task claimed again, and a stale
holder still about; the clock stands still (leases are in `leases`). `leases`: one
task, three instants, two claims, lease of one tick: a lease can be running,
at its end, over, renewed. `sessions`: three connections for one base name and
its listener: predecessor, successor, listener. `sessions_live`: two connections,
one of each kind, no lock. `messages`: two messages between two agents (also to
oneself) with a TTL of one tick, one claim, and a session of one and a push
listener of the other that may stop reading (`Slow`); `OkMeansAcked` is stated for the
states before that claim, because a rollback frees a message's id, after which an
ack for the id means another message. `runtime`: one watch and one message, which
worker, replay, push and sweep already compete for; one failing statement
and one retry. `runtime_live`: two retries, so that one falls due later, and two
attempts to catch up. `daemon`: two terminals, because every race is between two
commands or a command and a daemon; two processes, one of which may be killed and
leave its files; three commands, so that a start meets what a start and a stop
left. `doc_one_runtime`: one terminal, start, stop, start, start. `broker`: two
commands and two processes, from a state with or without a broker that serves,
with one process killed or hanging: predecessor and successor. `events`: one
client that may subscribe twice, two publishers, three events, and room for one
in channel and socket, so that full, blocked and replaced channels all happen.
Symmetry is used for safety runs only, over model values that no action
or property singles out.

**Deadlock.** Checked in the task, message and runtime runs. In `Sessions` every
connection may be gone, and connections are not reused; in the daemon, broker and
event runs the commands or events that are allowed may be used up and everyone
done. It is off there, and that everyone does get done is what their liveness
properties say.

**Fairness.** Weak fairness of a handler's own steps: a goroutine that has a
request goes on when nothing keeps it. That `claimMu` and the connection are
released is not assumed: it is what `HandlerReturns` checks. Weak fairness is
enough for those who wait for them, because in a run `claimMu` changes hands at most
`MaxTokens` times (Go's mutex and pool hand over in turn anyway). No client is
assumed to read, and no broker to answer: `SenderAnswered`, `WorkersFollow` and
`StopEnds` of `Runtime` name the waits without a deadline as their exceptions.
Weak fairness of the checkers: they are tickers that live as long as
the broker. In `Sessions`, of cleanups, of handlers and of the read on a
connection that was closed; a client need never send anything, so `Receive` and
`Eof` of an open connection are not fair. In `Runtime`, of each worker, of the
sweep, the reconcile loop and the refresh of a reported error, which are
goroutines and tickers of a daemon that is up, and of the passing of a retry's
delay; not of the outcome of a step, nor of broker, agents and operator. In
`RuntimeDaemon`, of every command, every daemon and every deadline. In
`BrokerLife` and `Events` one weak fairness covers all goroutines, commands and
deadlines: with the number of commands and events bounded no step can be taken
for ever, so that whatever stays enabled is taken. A listener need never hang up,
a client may stop reading, and the wait of Shutdown for connections that never
registered need not end: `StopEnds` holds because Serve does not wait for it. No
fairness is assumed of clients, of the clock or of restarts.

## 4. Proofs

Every proof is for any values of the constants that satisfy the module's
`ConstantsAssumption`: any numbers of agents, connections, messages, watches,
processes and faults. Each module has a `TypeCorrect` and an inductive invariant
`IndInv` that holds initially, is kept by every action and implies the properties.
Where a property needs more (`Events`, the refinement of `Delivery`), the further
invariants are proved on top of `IndInv`, so that each argument can be read alone.

| Module | Theorems for properties of runs |
|---|---|
| `TaskStoreProofs` | `ClaimsCoherent`, `TokensUnique`, `DurableFinished`, `TokensFresh`, `ImplementsLedger`, `RetriesCharged`, `LiveLeaseKept` |
| `SessionsProofs` | `NameHeld`, `BaseHoldsLive`, `OwnerHasToken`, `HoldsUndisturbed` |
| `MessagesProofs` | `WaitersLive`, `OkMeansAcked`, `TerminalUnlessInFlight` |
| `RuntimeProofs` | `InflightExclusive`, `WorkersKnown`, `LiveNotifiesOnce`, `ImplementsDelivery`; and that nothing acked is unrecorded |
| `RuntimeDaemonProofs` | `RunningIsTrue`, `LockExclusive`, `ReadyIsReal` |
| `BrokerLifeProofs` | `OneBroker`, and that a PID file leads to a bound socket |
| `EventsProofs` | `NoSendOnClosed`, `WholeLines`, `InOrder` |

### TaskStore

`TaskStoreProofs` proves, for any sets of sessions, tasks, filters and bounds that
satisfy `ConstantsAssumption`:

- `TypeCorrect`, `ClaimsAlwaysCoherent`, `TokensAlwaysUnique`: the invariants of
  run `tasks`;
- `Refinement`: `Spec => Ledger!Spec`, every step is on the committed table one
  statement of the lifecycle, the issue of a token, the commit of a claim or a
  stutter;
- `FinishedForGood` and `TokensAlwaysFresh`: the action properties;
- `RetriesAlwaysCharged` and `LiveLeasesKept`: the safety properties of run `leases`.

None of the invariants is inductive. `IndInv` adds

- `ClaimLocked`: `claimMu` is held by the one session that is in the steps of a
  claim, the connection is kept by the one whose rows are open (`LocksHeld`, which
  `LocksNeverLeaked` states as a theorem), and the transaction is open exactly in
  four steps of a claim;
- `LocalsOK`: the token a claim holds is the last generated one, its id is an id;
- `Settled` and `Shadowed`: the two views are equal outside a transaction; inside
  one, what is committed as finished is finished in both, and a claim or token
  that is not yet committed is the open claim's;
- `TokenUnused`, `TokenBound`: the open claim's token is on no row before its
  UPDATE, and no token exceeds the last one;
- `SelectedOK`: between SELECT and UPDATE the selected row stays unblocked and
  present and is unfinished in the committed table. It may be finished in `db`
  (section 6), and `ClaimsCoherent` holds nevertheless;
- `RetriesCharged` and `Unspent`: the retries of a row and its running claim are at
  most the claims begun, and fewer until the UPDATE of the claim that is open.
  Without the second part that UPDATE, which adds one, could exceed the bound; a
  rollback brings back the committed row, for which the bound holds as well.

`LiveLeasesKept` takes one more fact, `ClockRead`: the time that the lease checker
keeps between its two statements is not ahead of the clock, so that what is overdue
for it is overdue.

The argument: `Quiet(r, q)` is what any statement other than a claim's UPDATE may
do to a row. One lemma per kind of assignment shows it `Quiet`; `QuietStep`
shows that a step in which all rows move quietly keeps `RowsOK`; one lemma per
group of actions reduces the action to that, and the four claim steps, restart
and crash are proved on their own. `LedgerStep` reads the ledger step off the
invariant.

### The other modules

- **Sessions.** The cleanup of a base session is run by its own goroutine, which
  has left its handler by then (`CleanupOwn`); only a push listener is cleaned up
  while it may be in one. So a base session in a handler still has its name, what
  is granted is granted in that name (`GrantsNamed`), and what its cleanup has
  released stays released (`Released`).
- **Messages.** The argument follows an id from the sender's row through
  `ackWaiters` to the ack that closes the channel: a waiter is that of a handler
  that waits, a closed channel is not registered any more (`SignalledOut`), and
  unless a claim rolled rows back the row under the id is still the sender's
  (`RowKnown`).
- **Runtime.** A message is handled by whoever put its key into `m.inflight`, and
  the key is there as long as it is (`Handled`); a worker handles messages of its
  own watch (`OwnKeys`), also while it waits for the answer to an ack, so the other
  goroutine that may have a key is the sweep,
  whose records are in the table since before its query (`RowKnown`). That is why
  acking a message that was only skipped is right. `Phase` says which workers run
  by where the reconcile loop is, `RetriesLeft` and the type of the locals why a
  failure counted from attempts read earlier stays within the limit.
  The refinement of `Delivery` takes one more invariant, `SentOnly`: what is on its
  way to a record, in a replay, in a push or in a worker's hand, was sent. Then
  each statement is one step of `Delivery` (`HandlerLogged`, `AckLogged`,
  `PruneLogged`, `CommandLogged`, `WorldLogged`) and everything else is none.
- **RuntimeDaemon.** The state file says "running" only of a daemon that runs or
  was killed while it did (`StateTrue`), a process that was dead at the clean-up
  does not write the PID file again (`GoneDead`), and the lock is that of the
  command that starts (`LockHeld`).
- **BrokerLife.** While nothing excluded has happened, a broker that is on its way
  up or serves is the only one that runs, and a command that is about to remove
  files or to start a broker knows that there is none (`Alone`, `NoneUp`,
  `Cleared`).
- **Events.** A Publish holds `hub.mu` from when it knows its channels to its end,
  and they are open meanwhile (`PublishHolds`); the hub knows open channels only,
  each under the name of its owner (`HubOpen`).

  `WholeLines` (`LineInv`): a forwarder that writes has `writeMu`
  (`Exclusive`), and a stream ends in an event without its newline exactly while a
  forwarder of the session is between its two writes (`MidLine`); whoever else has
  the mutex starts a new line.

  `InOrder` (`OrderInv`): an event is numbered when its Publish begins and then goes
  through a line of four places, in a publisher's hand, in the channel's buffer, in
  the forwarder's hand, in the stream. `InLine` says of one channel that whatever of
  a publisher is farther along was published earlier, and that the buffer itself is
  ordered; one lemma for each move along the line shows that it is kept (`LineBegins`,
  `LineSends`, `LineReceives`, `LineWrites`, `LineDrops`). `Chain` is `InLine` for
  every channel of a client and topic that were not subscribed twice, and `Sole` says
  that such a pair has one channel, so that two lines never end in the same events;
  `Sourced` and `Current` tie stream and hub to that channel.

Only model-checked: liveness (`HandlerReturns`, `OverdueReleased`, `CleanupEnds`,
`ListenerFollows`, `SenderAnswered`, `RetriesEnd`, `WorkersFollow`, `StopEnds`,
`StatusClears`, `CommandsReturn`, `OrphanEnds`, `PublishReturns`, `SessionEnds`),
because it rests on fairness and ENABLED, which are out of the prover's reach.

## 5. Hazards

`PROJECT.json` lists them at their lines with the properties that watch them. Where
a property leaves part of a hazard out, or none can be stated because the code does
what it should not, a note says so; section 6 describes those cases.

## 6. Where code and documents disagree

Each of these is a run with a counterexample:

- `doc_terminal`: a completion that was answered with OK is undone by the
  rollback of another session's claim.
- `doc_one_runtime`: a daemon that winds up removes the PID file of the one that
  was started meanwhile, and the next start brings up one more, although
  `README.md:140` says "one machine-local runtime process max".

Seen on the models, or when reading, and not kept as runs:

- A task blocked on a canceled task stays blocked: FailDependents is called for
  failures only.
- A lock request of a push listener that runs while its base session tears it down
  leaves a lock behind that belongs to no session.
- MarkPushed overwrites an ack that came before it; the message is replayed.
- Records whose message is over the cap of the signal file stay due and fill the
  batches of the retry sweep; later records are then never notified, although the
  test `RetrySweepDoesNotStarveLaterEligibleRecords` says otherwise of records
  that fail.
- CatchUp clears the deadline of its connection before it acks what it replayed
  (`internal/runtime/listener.go:72`): a broker that accepts and does not answer
  keeps the worker, and with it stopWatch, the reconcile loop and Stop.
- A push is written to the recipient's socket without a deadline
  (`internal/broker/router.go:708, 740`): a recipient that does not read keeps the
  sender's handler, and an awaited ack does not time out, because its timer starts
  after the pushes.
- FailDependents rewrites a dependent that was unblocked, claimed and completed
  since its query to failed.
- Two commands that auto-start a broker at once hold no lock over it: two brokers
  may serve one database, and the second one's `RequeueAllClaimed` requeues the
  claims of the first. The runtime design says "One broker per project_id"
  (`docs/superpowers/specs/2026-03-27-waggle-machine-runtime-design.md:57`).
- A broker that ends removes the socket and the PID file by path, also when its
  successor has made them; so do a command whose probe timed out and CleanupStale.
- Two stops, or a stop and the idle timeout, close `stopCh` twice; the panic leaves
  PID file and socket behind, which the next start removes.
- Two commands that both found the same stale start lock may both take it over, the
  second one removing the first one's new lock.
- A second subscribe to a topic replaces the channel without closing it: its
  goroutine stays for ever, and events still in the old channel may be written
  after later ones of the new one.
- A task canceled between SELECT and UPDATE of a claim is claimed ("Claim
  atomically claims the next eligible task", `internal/tasks/store.go:348`).
- An ack between the INSERT of a message and the registration of its waiter is not
  seen by the sender, which then times out on an acked message.
- The retry sweep notifies from the batch it queried: a record that a worker
  notified in the meantime is notified again, and the failure counter may go back
  (`TestManager_PendingRetryAndLiveDeliveryDoNotDoubleNotifySameRecord` covers the
  case where the key is still in flight).
- A message that arrives between the replay of an inbox and the connect of the
  listener is not delivered until the listener reconnects.
- A bootstrap turns an explicit watch into one that expires; `UpsertWatch`
  sanitizes the agent's name, `RemoveWatch` does not.
- After a restart of the daemon, deliveries that had been given up are not
  reported as errors.
- A task created with `depends_on` is blocked even if all of them are completed,
  and a crash between `Complete` and `ResolveDeps` leaves dependents blocked; the
  design says "Blocked if `depends_on` has incomplete tasks".
- A completion that ResolveDeps read inside an open claim may be rolled back after
  the dependent was unblocked, so a task can be claimed before its dependency is
  done.
- Disconnects and restarts requeue without regard to `max_retries`; the design
  says "Auto re-queue up to `max_retries`".
- A message that was answered with OK is lost when its INSERT ran inside a claim
  that rolls back.
- `ValidateDeps` (missing dependencies, cycles) is not called by the broker.
- A task's own `lease_duration` is stored but Claim and Heartbeat use the default.

## 7. Plan

Left, in this order:

1. Composition of `TaskStore` and `Messages` over the one connection, and of
   `Messages` and `Runtime` over push and replay.
2. Algorithms: `hasCycle`, `ValidateDeps`, order of the inbox, against reference
   definitions over bounded inputs.
3. An abstract specification of a direct message (queued, pushed, seen, acked or
   expired) that `Messages` implements.

## 8. Not modelled

The spawn manager (a map of names and PIDs behind one mutex, on which nothing else
depends; `spawn.register` and `spawn.update_pid` are its only requests), command
lines and terminals of `spawn`, the encoding of the protocol, configuration, flags
and output of the CLI, the installers. They are text and file I/O without state
that several parties share.
