------------------------------ MODULE Runtime ------------------------------
(***************************************************************************)
(* The machine runtime of waggle (internal/runtime: manager, store and     *)
(* listener): for every watch a worker replays the agent's inbox from the  *)
(* broker, then listens for pushes; each message becomes a delivery record *)
(* in SQLite and is written to a signal file; a sweep retries what was not *)
(* written; agents read the records through commands of their own.         *)
(*                                                                         *)
(* A step is one SQL statement or transaction, one critical section of     *)
(* Manager.mu, one call to the broker or one write of a signal file.       *)
(***************************************************************************)
EXTENDS Naturals, FiniteSets

CONSTANTS
    NWatches,           \* watches, in the order of (project_id, agent_name)
    NMsgs,              \* messages an agent may be sent
    Large,              \* messages that need more room in the signal file
    Rooms,              \* how full a signal file may be: as room, below
    Sources,            \* sources that register watches
    Commands,           \* commands that agents use
    Aging,              \* messages that may get older than the retention
    BatchSize,          \* config.Defaults.RuntimeNotificationRetryBatchSize
    RetryLimit,         \* config.Defaults.RuntimeNotificationRetryLimit
    CatchUpMaxRetries,  \* config.Defaults.CatchUpMaxRetries
    MaxFaults           \* bound: statements of the store that fail

Watches == 1..NWatches
Keys == Watches \X (1..NMsgs)
NoKey == <<0, 0>>
Sweep == 0                      \* the goroutine of runRetrySweepLoop
Procs == Watches \cup {Sweep}   \* and the worker of each watch

ASSUME ConstantsAssumption ==
    /\ NWatches \in Nat /\ NMsgs \in Nat /\ MaxFaults \in Nat
    /\ BatchSize \in Nat \ {0} /\ RetryLimit \in Nat \ {0}
    /\ CatchUpMaxRetries \in Nat \ {0}
    /\ Large \subseteq 1..NMsgs /\ Aging \subseteq 1..NMsgs
    /\ Commands \subseteq {"unwatch", "pull", "bootstrap", "dismiss", "ack"}
    /\ Sources \subseteq {"explicit", "session"}
    /\ Rooms \subseteq 0..2 /\ 2 \in Rooms

VARIABLES
    inbox,      \* the broker's copy of each message
    sending,    \* messages whose push the broker has still to try
    conn,       \* watches whose push listener is connected
    pushed,     \* messages on their way to a listener
    watches,    \* the watches table: the source of each watch
    rec,        \* the delivery_records table
    room,       \* how much fits in the signal file: 2 anything, 1 small, 0 nothing
    faults,     \* statements that failed so far
    mode,       \* the daemon is up, stopping or down
    workers,    \* m.workers
    inflight,   \* m.inflight
    status,     \* the delivery error that m.lastDeliveryErr has for a watch
    pc,         \* where each goroutine is
    loc,        \* its local variables
    rc          \* where the reconcile loop is, and its local variables

broker == <<inbox, sending, conn, pushed>>
store == <<watches, rec, faults>>
manager == <<mode, workers, rc>>
vars == <<broker, store, room, manager, inflight, status, pc, loc>>

-----------------------------------------------------------------------------
\* Records and locals.  A time stamp is whether it is set; "next" tells a
\* retry_next_at that is still to come from one that is not.  A row that was
\* pruned is told from one that never was.

NoRec ==
    [row |-> "never", notified |-> FALSE, attempts |-> 0, next |-> "now",
     exhausted |-> FALSE, surfaced |-> FALSE, dismissed |-> FALSE, old |-> FALSE]

Kept(k) == rec[k].row = "kept"
Of(w) == {k \in Keys : k[1] = w}

\* batch: what the replay or the sweep's query returned and is still to do;
\* ws: the watches the sweep will refresh; live: the message came by push.
Idle == [key |-> NoKey, attempts |-> 0, batch |-> {}, ws |-> {}, tries |-> 0,
         live |-> FALSE, ok |-> TRUE]

Init ==
    /\ inbox = [k \in Keys |-> "unsent"]
    /\ sending = {}
    /\ conn = {}
    /\ pushed = {}
    /\ watches = [w \in Watches |-> "none"]
    /\ rec = [k \in Keys |-> NoRec]
    /\ room = [w \in Watches |-> 2]
    /\ faults = 0
    /\ mode = "down"
    /\ workers = {}
    /\ inflight = {}
    /\ status = [w \in Watches |-> "none"]
    /\ pc = [p \in Procs |-> "none"]
    /\ loc = [p \in Procs |-> Idle]
    /\ rc = [at |-> "none", desired |-> {}, stale |-> {}, cur |-> 0]

Less(j, k) == j[1] < k[1] \/ (j[1] = k[1] /\ j[2] < k[2])

Goto(p, step, l) ==
    /\ pc' = [pc EXCEPT ![p] = step]
    /\ loc' = [loc EXCEPT ![p] = l]

\* The context of a worker: stopWatch or Stop canceled it.
Canceled(w) == rc.cur = w \/ mode = "stopping"

\* A statement fails: the file is locked by another process for too long.
Fault == faults < MaxFaults /\ faults' = faults + 1
NoFault == UNCHANGED faults

-----------------------------------------------------------------------------
\* Errors reported for a watch.

\* DeliveryFailureSummary, and m.pendingFailures.
Unresolved(w) ==
    \E k \in Of(w) : /\ Kept(k) /\ ~rec[k].notified /\ ~rec[k].dismissed
                     /\ rec[k].attempts > 0 \/ rec[k].exhausted

FailurePending(w) == \E p \in Procs : pc[p] = "fail" /\ loc[p].key[1] = w

\* refreshWatchDeliveryState.
Refresh(w) ==
    status' = [status EXCEPT ![w] =
                 IF ~Unresolved(w) /\ ~FailurePending(w) THEN "none"
                 ELSE IF w \in workers THEN "watch" ELSE "backlog"]

-----------------------------------------------------------------------------
\* handleDelivery, which workers and the sweep share from notifyRecord on.

\* beginInflight.
Begin(p, l, step, skip, skipped) ==
    \/ /\ l.key \in inflight
       /\ Goto(p, skip, skipped)
       /\ UNCHANGED inflight
    \/ /\ l.key \notin inflight
       /\ inflight' = inflight \cup {l.key}
       /\ Goto(p, step, l)

\* It returns nil or an error; then a worker refreshes the status of its watch
\* before it releases the key, the sweep does so for all its watches at the end.
Finish(p, ok) == Goto(p, "done", [loc[p] EXCEPT !.ok = ok, !.attempts = 0])
Finished(p) ==
    Goto(p, IF p = Sweep THEN "done" ELSE "refresh", [loc[p] EXCEPT !.attempts = 0])

\* AddRecordIfAbsent.
AddErrorAccepted(p) ==  \* mutant: an error is taken for a duplicate
    /\ pc[p] = "add"
    /\ \/ Fault /\ Finish(p, TRUE) /\ UNCHANGED rec
       \/ /\ NoFault
          /\ rec' = [rec EXCEPT ![loc[p].key] =
                       IF @.row = "kept" THEN @ ELSE [NoRec EXCEPT !.row = "kept"]]
          /\ Goto(p, IF Kept(loc[p].key) THEN "get" ELSE "notify", loc[p])
    /\ UNCHANGED <<broker, watches, room, manager, inflight, status>>

Add(p) ==
    /\ pc[p] = "add"
    /\ LET k == loc[p].key IN
         \/ /\ Fault
            /\ Finish(p, FALSE)
            /\ UNCHANGED rec
         \/ /\ ~Kept(k)
            /\ rec' = [rec EXCEPT ![k] = [NoRec EXCEPT !.row = "kept"]]
            /\ Goto(p, "notify", loc[p])
            /\ NoFault
         \/ /\ Kept(k)
            /\ Goto(p, "get", loc[p])
            /\ UNCHANGED rec /\ NoFault
    /\ UNCHANGED <<broker, watches, room, manager, inflight, status>>

\* GetRecord, and whether the record is still to be notified.
GetAgain(p) ==  \* mutant: notified_at is not looked at
    /\ pc[p] = "get"
    /\ LET r == rec[loc[p].key] IN
         \/ /\ r.row = "kept" /\ ~r.exhausted /\ r.next = "now"
            /\ Goto(p, "notify", [loc[p] EXCEPT !.attempts = r.attempts])
         \/ /\ r.row # "kept" \/ r.exhausted \/ r.next = "later"
            /\ Finish(p, r.row = "kept")
    /\ NoFault
    /\ UNCHANGED <<broker, watches, rec, room, manager, inflight, status>>

Get(p) ==
    /\ pc[p] = "get"
    /\ LET r == rec[loc[p].key] IN
         \/ /\ Fault \/ (r.row # "kept" /\ NoFault)
            /\ Finish(p, FALSE)
         \/ /\ r.row = "kept"
            /\ r.notified \/ r.exhausted \/ r.next = "later"
            /\ Finish(p, TRUE) /\ NoFault
         \/ /\ r.row = "kept"
            /\ ~r.notified /\ ~r.exhausted /\ r.next = "now"
            /\ Goto(p, "notify", [loc[p] EXCEPT !.attempts = r.attempts]) /\ NoFault
    /\ UNCHANGED <<broker, watches, rec, room, manager, inflight, status>>

Fits(k) == room[k[1]] >= IF k[2] \in Large THEN 2 ELSE 1

\* notifyRecord: WriteSignal appends, is over the cap, or fails.
Notify(p) ==
    /\ pc[p] = "notify"
    /\ LET k == loc[p].key IN
         \/ /\ Fits(k)
            /\ \E r \in Rooms : r <= room[k[1]] /\ room' = [room EXCEPT ![k[1]] = r]
            /\ Goto(p, "mark", loc[p])
         \/ /\ ~Fits(k)
            /\ Finished(p)
            /\ UNCHANGED room
         \/ /\ Goto(p, "fail", loc[p])
            /\ UNCHANGED room
    /\ UNCHANGED <<broker, store, manager, inflight, status>>

\* MarkNotified; the desktop notification after it is best effort.
Mark(p) ==
    /\ pc[p] = "mark"
    /\ LET k == loc[p].key IN
         \/ /\ Kept(k)
            /\ rec' = [rec EXCEPT ![k].notified = TRUE, ![k].attempts = 0,
                                  ![k].next = "now", ![k].exhausted = FALSE]
            /\ Finished(p)
            /\ NoFault
         \/ /\ Fault \/ (~Kept(k) /\ NoFault)
            /\ Goto(p, "fail", loc[p])
            /\ UNCHANGED rec
    /\ UNCHANGED <<broker, watches, room, manager, inflight, status>>

\* recordNotificationFailure, from the attempts that were read before.
FailedKeeps(r, attempts) ==  \* mutant: the attempts are not written
    [r EXCEPT !.next = IF attempts < RetryLimit THEN "later" ELSE "now",
              !.exhausted = attempts >= RetryLimit]

Failed(r, attempts) ==
    [r EXCEPT !.attempts = attempts,
              !.next = IF attempts < RetryLimit THEN "later" ELSE "now",
              !.exhausted = attempts >= RetryLimit]

RecordFailure(p) ==
    /\ pc[p] = "fail"
    /\ LET k == loc[p].key IN
         \/ /\ Kept(k)
            /\ rec' = [rec EXCEPT ![k] = Failed(@, loc[p].attempts + 1)]
            /\ Finished(p)
            /\ NoFault
         \/ /\ Fault \/ (~Kept(k) /\ NoFault)
            /\ Finish(p, FALSE)
            /\ UNCHANGED rec
    /\ UNCHANGED <<broker, watches, room, manager, inflight, status>>

RefreshOwn(w) ==
    /\ pc[w] = "refresh"
    /\ Refresh(w)
    /\ Goto(w, "done", loc[w])
    /\ UNCHANGED <<broker, store, room, manager, inflight>>

-----------------------------------------------------------------------------
\* runWatch: catch up, listen, again.

Ended(w, from) == pc[w] = from /\ Canceled(w) /\ Goto(w, "none", Idle)

quiet == <<store, room, manager, inflight, status>>

TopDeaf(w) ==  \* mutant: ctx.Err is not checked
    /\ pc[w] = "top" /\ Goto(w, "replay", [Idle EXCEPT !.tries = 1])
    /\ UNCHANGED <<broker, quiet>>

\* The end of a sleep, and the head of the loop.
Top(w) ==
    /\ \/ Ended(w, "top")
       \/ /\ pc[w] = "top" /\ ~Canceled(w)
          /\ Goto(w, "replay", [Idle EXCEPT !.tries = 1])
    /\ UNCHANGED <<broker, quiet>>

\* An attempt to catch up fails: sleep and try again, or listen all the same.
CatchUpFailed(w) ==
    IF loc[w].tries < CatchUpMaxRetries
    THEN Goto(w, "replay", [Idle EXCEPT !.tries = loc[w].tries + 1])
    ELSE Goto(w, "listen", Idle)

\* The next message of the replay, or on to listen.
CatchUpOn(w, l) ==
    IF l.batch = {} THEN Goto(w, "listen", Idle)
    ELSE Goto(w, "next", [l EXCEPT !.key = NoKey])

\* The broker answers, or not; the sleep before another attempt is interrupted.
Replay(w) ==
    /\ \/ loc[w].tries > 1 /\ Ended(w, "replay")
       \/ pc[w] = "replay" /\ CatchUpFailed(w)
       \/ /\ pc[w] = "replay"
          /\ CatchUpOn(w, [loc[w] EXCEPT !.batch =
                {[key |-> k, attempts |-> 0] : k \in {j \in Of(w) : inbox[j] = "unread"}}])
    /\ UNCHANGED <<broker, quiet>>

\* The first of the batch, and the locals once it is taken from it.
First(p) == {b \in loc[p].batch : \A c \in loc[p].batch : ~Less(c.key, b.key)}

Taken(p, b) == [loc[p] EXCEPT !.batch = @ \ {b}, !.key = b.key, !.attempts = b.attempts,
                              !.live = FALSE, !.ok = TRUE]

CatchUpNext(w) ==
    /\ pc[w] = "next"
    /\ \E b \in First(w) : Begin(w, Taken(w, b), "add", "ack", Taken(w, b))
    /\ UNCHANGED <<broker, store, room, manager, status>>

\* The broker's ack of a message.
Acked(k) == inbox' = [inbox EXCEPT ![k] = IF @ = "unread" THEN "acked" ELSE @]

\* Its answer comes, or the connection breaks with the message acked or not.
AckEnds(w) ==
    /\ \/ Acked(loc[w].key) /\ CatchUpOn(w, loc[w])
       \/ (Acked(loc[w].key) \/ UNCHANGED inbox) /\ CatchUpFailed(w)
    /\ UNCHANGED <<sending, conn, pushed, quiet>>

\* The handler accepted the message: ack it, and go on with the next.  The wait
\* for the answer has neither a deadline nor a context.
AckReplayed(w) ==
    /\ pc[w] = "ack"
    /\ \/ AckEnds(w)
       \/ Goto(w, "hung", loc[w]) /\ UNCHANGED <<broker, quiet>>

\* Listen: reserve a push token, connect as the agent's push listener.
Listen(w) ==
    /\ pc[w] = "listen"
    /\ \/ conn' = conn \cup {w} /\ Goto(w, "stream", [Idle EXCEPT !.live = TRUE])
       \/ UNCHANGED conn /\ Goto(w, "top", Idle)
    /\ UNCHANGED <<inbox, sending, pushed, quiet>>

Hangup(w) == conn' = conn \ {w} /\ pushed' = pushed \ Of(w)

Receive(w) ==
    /\ pc[w] = "stream"
    /\ \E k \in pushed \cap Of(w) :
         /\ pushed' = pushed \ {k}
         /\ Begin(w, [Idle EXCEPT !.key = k, !.live = TRUE], "add", "stream", loc[w])
    /\ UNCHANGED <<inbox, sending, conn, store, room, manager, status>>

\* The context is canceled, or the broker closes the connection.
StreamEnd(w) ==
    /\ \/ Ended(w, "stream")
       \/ pc[w] = "stream" /\ ~Canceled(w) /\ Goto(w, "top", Idle)
    /\ Hangup(w)
    /\ UNCHANGED <<inbox, sending, quiet>>

\* handleDelivery returns: the key is released.
Done(w) ==
    /\ pc[w] = "done"
    /\ inflight' = inflight \ {loc[w].key}
    /\ \/ /\ loc[w].live /\ loc[w].ok
          /\ Goto(w, "stream", [Idle EXCEPT !.live = TRUE])
          /\ UNCHANGED <<conn, pushed>>
       \/ /\ loc[w].live /\ ~loc[w].ok
          /\ Goto(w, "top", Idle)
          /\ Hangup(w)
       \/ /\ ~loc[w].live /\ loc[w].ok
          /\ Goto(w, "ack", loc[w])
          /\ UNCHANGED <<conn, pushed>>
       \/ /\ ~loc[w].live /\ ~loc[w].ok
          /\ CatchUpFailed(w)
          /\ UNCHANGED <<conn, pushed>>
    /\ UNCHANGED <<inbox, sending, store, room, manager, status>>

-----------------------------------------------------------------------------
\* retryPendingNotifications.

\* The records of PendingNotificationsBatch.
Pending(k) ==
    Kept(k) /\ ~rec[k].notified /\ ~rec[k].dismissed /\ ~rec[k].exhausted

Due == {k \in Keys : Pending(k) /\ rec[k].next = "now"}
Batch == {k \in Due : Cardinality({j \in Due : Less(j, k)}) < BatchSize}

SweepQuery ==
    /\ pc[Sweep] = "idle" /\ mode = "up"
    /\ Batch # {}
    /\ Goto(Sweep, "loop",
            [Idle EXCEPT !.batch = {[key |-> k, attempts |-> rec[k].attempts] : k \in Batch},
                         !.ws = {k[1] : k \in Batch}])
    /\ UNCHANGED <<broker, quiet>>

\* The record is notified as the query saw it.
SweepNext ==
    /\ pc[Sweep] = "loop"
    /\ \E b \in First(Sweep) :
         Begin(Sweep, Taken(Sweep, b), "notify", "loop", [loc[Sweep] EXCEPT !.batch = @ \ {b}])
    /\ UNCHANGED <<broker, store, room, manager, status>>

SweepRelease ==
    /\ pc[Sweep] = "done"
    /\ inflight' = inflight \ {loc[Sweep].key}
    /\ Goto(Sweep, "loop", [loc[Sweep] EXCEPT !.key = NoKey, !.ok = TRUE])
    /\ UNCHANGED <<broker, store, room, manager, status>>

SweepRefresh ==
    /\ pc[Sweep] = "loop"
    /\ loc[Sweep].batch = {}
    /\ \E w \in loc[Sweep].ws :
         /\ Refresh(w)
         /\ IF loc[Sweep].ws = {w} THEN Goto(Sweep, "idle", Idle)
            ELSE Goto(Sweep, "loop", [loc[Sweep] EXCEPT !.ws = @ \ {w}])
    /\ UNCHANGED <<broker, store, room, manager, inflight>>

-----------------------------------------------------------------------------
\* reconcile, Start and Stop.

Registered == {w \in Watches : watches[w] # "none"}
Rest == UNCHANGED <<broker, store, room>>

\* ListWatches.  A tick that finds its workers as they should be does nothing.
ReconcileList ==
    /\ rc.at = "idle" /\ mode = "up"
    /\ Registered # workers
    /\ rc' = [rc EXCEPT !.at = "start", !.desired = Registered]
    /\ UNCHANGED <<mode, workers, inflight, status, pc, loc>> /\ Rest

\* The stale workers that are still to be stopped, and the end of the tick.
Stopping(stale) ==
    [at |-> IF stale = {} THEN "idle" ELSE "stop", desired |-> {}, stale |-> stale, cur |-> 0]

\* startWatch for each, then the workers that are not wanted any more.
ReconcileStartOnly ==  \* mutant: stale workers are left alone
    /\ rc.at = "start"
    /\ workers' = workers \cup rc.desired
    /\ pc' = [p \in Procs |-> IF p \in rc.desired \ workers THEN "top" ELSE pc[p]]
    /\ rc' = Stopping({})
    /\ UNCHANGED <<mode, inflight, status, loc>> /\ Rest

ReconcileStart ==
    /\ rc.at = "start"
    /\ workers' = workers \cup rc.desired
    /\ pc' = [p \in Procs |-> IF p \in rc.desired \ workers THEN "top" ELSE pc[p]]
    /\ rc' = Stopping(workers \ rc.desired)
    /\ UNCHANGED <<mode, inflight, status, loc>> /\ Rest

\* stopWatch: out of the map, cancel, wait.
StopWatch ==
    /\ rc.at = "stop"
    /\ \E w \in rc.stale :
         /\ workers' = workers \ {w}
         /\ rc' = [rc EXCEPT !.at = "wait", !.stale = @ \ {w}, !.cur = w]
    /\ UNCHANGED <<mode, inflight, status, pc, loc>> /\ Rest

\* The worker has stopped: its errors are cleared and the status refreshed.
WatchStoppedEarly ==  \* mutant: stopWatch does not wait
    /\ rc.at = "wait"
    /\ Refresh(rc.cur)
    /\ rc' = Stopping(rc.stale)
    /\ UNCHANGED <<mode, workers, inflight, pc, loc>> /\ Rest

WatchStoppedClears ==  \* mutant: what is in flight for the watch is forgotten
    /\ rc.at = "wait"
    /\ pc[rc.cur] = "none"
    /\ inflight' = inflight \ Of(rc.cur)
    /\ Refresh(rc.cur)
    /\ rc' = Stopping(rc.stale)
    /\ UNCHANGED <<mode, workers, pc, loc>> /\ Rest

WatchStopped ==
    /\ rc.at = "wait"
    /\ pc[rc.cur] = "none"
    /\ Refresh(rc.cur)
    /\ rc' = Stopping(rc.stale)
    /\ UNCHANGED <<mode, workers, inflight, pc, loc>> /\ Rest

\* Start: a first reconcile, then the loops.
Start ==
    /\ mode = "down"
    /\ mode' = "up"
    /\ workers' = Registered
    /\ pc' = [p \in Procs |-> IF p = Sweep THEN "idle"
                              ELSE IF p \in Registered THEN "top" ELSE "none"]
    /\ rc' = [rc EXCEPT !.at = "idle"]
    /\ UNCHANGED <<inflight, status, loc>> /\ Rest

\* Stop: the context of everything is canceled.
Stop ==
    /\ mode = "up"
    /\ mode' = "stopping"
    /\ UNCHANGED <<workers, rc, inflight, status, pc, loc>> /\ Rest

\* stopAllWorkers, when the reconcile loop sees it.
StopAll ==
    /\ mode = "stopping" /\ rc.at = "idle"
    /\ workers' = {}
    /\ rc' = [rc EXCEPT !.at = "stopall"]
    /\ UNCHANGED <<mode, inflight, status, pc, loc>> /\ Rest

AllStopped ==
    /\ rc.at = "stopall"
    /\ \A w \in Watches : pc[w] = "none"
    /\ inflight' = {}
    /\ rc' = [rc EXCEPT !.at = "none"]
    /\ UNCHANGED <<mode, workers, status, pc, loc>> /\ Rest

\* The process is gone: only the two databases are left.
Gone ==
    /\ mode' = "down"
    /\ workers' = {} /\ inflight' = {}
    /\ status' = [w \in Watches |-> "none"]
    /\ pc' = [p \in Procs |-> "none"]
    /\ loc' = [p \in Procs |-> Idle]
    /\ rc' = [at |-> "none", desired |-> {}, stale |-> {}, cur |-> 0]
    /\ conn' = {} /\ pushed' = {}
    /\ UNCHANGED <<inbox, sending, store, room>>

\* wg.Wait, then reset.
Stopped ==
    /\ mode = "stopping" /\ rc.at = "none"
    /\ pc[Sweep] = "idle"
    /\ Gone

Crash == mode # "down" /\ Gone

-----------------------------------------------------------------------------
\* runMaintenanceLoop: three statements of a tick.

still == <<broker, room, manager, inflight, pc, loc>>

PruneExpiredWatches ==
    /\ mode = "up"
    /\ \E w \in Watches : watches[w] = "expired"
    /\ watches' = [w \in Watches |-> IF watches[w] = "expired" THEN "none" ELSE watches[w]]
    /\ UNCHANGED <<rec, faults, status, still>>

Prunable(r) ==
    r.row = "kept" /\ r.old /\ (r.dismissed \/ r.surfaced \/ r.notified \/ r.exhausted)

PruneDeliveryRecords ==
    /\ mode = "up"
    /\ \E k \in Keys : Prunable(rec[k])
    /\ rec' = [k \in Keys |-> IF Prunable(rec[k]) THEN [NoRec EXCEPT !.row = "pruned"]
                              ELSE rec[k]]
    /\ UNCHANGED <<watches, faults, status, still>>

\* refreshTrackedDeliveryStates.
RefreshTrackedActive(w) ==  \* mutant: a backlog is not looked at again
    /\ mode = "up"
    /\ status[w] = "watch"
    /\ Refresh(w)
    /\ UNCHANGED <<store, still>>

RefreshTracked(w) ==
    /\ mode = "up"
    /\ status[w] # "none"
    /\ Refresh(w)
    /\ UNCHANGED <<store, still>>

-----------------------------------------------------------------------------
\* Commands of other processes on the same database.

UpsertWatch(w, source) ==
    /\ watches' = [watches EXCEPT ![w] = source]
    /\ UNCHANGED <<rec, faults, status, still>>

RemoveWatch(w) ==
    /\ "unwatch" \in Commands
    /\ watches[w] # "none"
    /\ watches' = [watches EXCEPT ![w] = "none"]
    /\ UNCHANGED <<rec, faults, status, still>>

\* runtime pull and the adapters' bootstrap: what Unread gave some time before is
\* marked, whatever happened to it since (MarkSurfacedBatch and
\* MarkSurfacedAndDismissBatch).
MarkRead(w, command) ==
    /\ \E ids \in SUBSET {k \in Of(w) : Kept(k) /\ ~rec[k].dismissed} \ {{}} :
         rec' = [k \in Keys |-> IF k \in ids
                   THEN [rec[k] EXCEPT !.surfaced = TRUE,
                                       !.dismissed = @ \/ command = "bootstrap"]
                   ELSE rec[k]]
    /\ UNCHANGED <<watches, faults, status, still>>

DismissAllSurfaced(w) ==
    /\ "dismiss" \in Commands
    /\ \E k \in Of(w) : Kept(k) /\ rec[k].surfaced /\ ~rec[k].dismissed
    /\ rec' = [k \in Keys |-> IF k \in Of(w) /\ Kept(k) /\ rec[k].surfaced
                              THEN [rec[k] EXCEPT !.dismissed = TRUE] ELSE rec[k]]
    /\ UNCHANGED <<watches, faults, status, still>>

-----------------------------------------------------------------------------
\* The broker, the agent and time.

idle == <<store, manager, inflight, status, pc, loc>>

Send(k) ==
    /\ inbox[k] = "unsent"
    /\ inbox' = [inbox EXCEPT ![k] = "unread"]
    /\ sending' = sending \cup {k}
    /\ UNCHANGED <<conn, pushed, room, idle>>

\* The push is tried once, to the agent's session and to its listener; where one
\* of them gets it the message may be marked pushed, which makes one that was
\* acked in the meantime unread again.
Push(k) ==
    /\ k \in sending
    /\ sending' = sending \ {k}
    /\ pushed' = IF k[1] \in conn THEN pushed \cup {k} ELSE pushed
    /\ \E s \in {inbox[k], "unread"} : inbox' = [inbox EXCEPT ![k] = s]
    /\ UNCHANGED <<conn, room, idle>>

\* The agent acks the message itself, or it expires: it is not replayed any more.
Consume(k) ==
    /\ "ack" \in Commands
    /\ inbox[k] = "unread"
    /\ inbox' = [inbox EXCEPT ![k] = "gone"]
    /\ UNCHANGED <<sending, conn, pushed, room, idle>>

\* A broker that kept a worker waiting answers its ack after all, or ends.
AnswerAck(w) == pc[w] = "hung" /\ AckEnds(w)

\* The agent's shell hook empties the signal file, or maintenance removes it.
Drain(w) ==
    /\ room[w] < 2
    /\ room' = [room EXCEPT ![w] = 2]
    /\ UNCHANGED <<broker, idle>>

Expire(w) ==
    /\ watches[w] = "session"
    /\ watches' = [watches EXCEPT ![w] = "expired"]
    /\ UNCHANGED <<rec, faults, status, still>>

Later(k) ==
    /\ rec[k].next = "later"
    /\ rec' = [rec EXCEPT ![k].next = "now"]
    /\ UNCHANGED <<watches, faults, status, still>>

Age(k) ==
    /\ k[2] \in Aging
    /\ Kept(k) /\ ~rec[k].old
    /\ rec' = [rec EXCEPT ![k].old = TRUE]
    /\ UNCHANGED <<watches, faults, status, still>>

-----------------------------------------------------------------------------
Handle(p) == Notify(p) \/ Mark(p) \/ RecordFailure(p)

Worker(w) ==
    \/ Top(w) \/ Replay(w) \/ CatchUpNext(w) \/ AckReplayed(w)
    \/ Listen(w) \/ Receive(w) \/ StreamEnd(w)
    \/ Add(w) \/ Get(w) \/ Handle(w) \/ RefreshOwn(w) \/ Done(w)

Sweeper ==
    SweepQuery \/ SweepNext \/ SweepRelease \/ SweepRefresh \/ Handle(Sweep)

Reconciler ==
    \/ ReconcileList \/ ReconcileStart \/ StopWatch \/ WatchStopped
    \/ StopAll \/ AllStopped

Maintenance ==
    PruneExpiredWatches \/ PruneDeliveryRecords \/ \E w \in Watches : RefreshTracked(w)

Command ==
    \E w \in Watches :
        \/ \E source \in Sources : UpsertWatch(w, source)
        \/ RemoveWatch(w)
        \/ \E c \in Commands \cap {"pull", "bootstrap"} : MarkRead(w, c)
        \/ DismissAllSurfaced(w)

World ==
    \/ \E k \in Keys : Send(k) \/ Push(k) \/ Consume(k) \/ Later(k) \/ Age(k)
    \/ \E w \in Watches : AnswerAck(w) \/ Drain(w) \/ Expire(w)

Next ==
    \/ \E w \in Watches : Worker(w)
    \/ Sweeper \/ Reconciler \/ Maintenance \/ Command \/ World
    \/ Start \/ Stop \/ Stopped \/ Crash

Spec == Init /\ [][Next]_vars

\* The loops tick and the goroutines run while the daemon is up; a wait ends
\* and a retry falls due with time.  What agents, the broker and the operator
\* do is not forced, and neither is any outcome of a step.
FairSpec ==
    /\ Spec
    /\ \A w \in Watches : WF_vars(Worker(w)) /\ WF_vars(RefreshTracked(w))
    /\ WF_vars(Sweeper) /\ WF_vars(Reconciler \/ Stopped)
    /\ \A k \in Keys : WF_vars(Later(k))

-----------------------------------------------------------------------------
HandlerSteps == {"add", "get", "notify", "mark", "fail", "refresh", "done"}
WorkerSteps == HandlerSteps \cup {"none", "top", "replay", "next", "ack", "hung", "listen", "stream"}
SweepSteps == HandlerSteps \cup {"none", "idle", "loop"}

Records == [row : {"never", "kept", "pruned"}, notified : BOOLEAN, attempts : 0..RetryLimit,
            next : {"now", "later"}, exhausted : BOOLEAN, surfaced : BOOLEAN,
            dismissed : BOOLEAN, old : BOOLEAN]
Items == [key : Keys, attempts : 0..(RetryLimit - 1)]
Locals == [key : Keys \cup {NoKey}, attempts : 0..(RetryLimit - 1), batch : SUBSET Items,
           ws : SUBSET Watches, tries : Nat, live : BOOLEAN, ok : BOOLEAN]

\* Types; and no record counts more failures than the limit of retries, though
\* a failure is counted from attempts read some steps before.
TypeOK ==
    /\ inbox \in [Keys -> {"unsent", "unread", "acked", "gone"}]
    /\ sending \subseteq Keys /\ pushed \subseteq Keys /\ inflight \subseteq Keys
    /\ conn \subseteq Watches /\ workers \subseteq Watches
    /\ watches \in [Watches -> {"none", "explicit", "session", "expired"}]
    /\ rec \in [Keys -> Records]
    /\ room \in [Watches -> Rooms]
    /\ faults \in 0..MaxFaults
    /\ mode \in {"down", "up", "stopping"}
    /\ status \in [Watches -> {"none", "watch", "backlog"}]
    /\ pc \in [Procs -> WorkerSteps \cup SweepSteps]
    /\ (\A w \in Watches : pc[w] \in WorkerSteps) /\ pc[Sweep] \in SweepSteps
    /\ loc \in [Procs -> Locals]
    /\ rc \in [at : {"none", "idle", "start", "stop", "wait", "stopall"},
               desired : SUBSET Watches, stale : SUBSET Watches, cur : Watches \cup {0}]

\* What has become of a message, as its record says.
LogOf(r) ==
    CASE r.row = "never" -> "none"
      [] r.row = "pruned" -> "pruned"
      [] r.row = "kept" -> IF r.notified \/ r.surfaced \/ r.dismissed THEN "done"
                           ELSE IF r.exhausted THEN "givenup" ELSE "waiting"

Log == [k \in Keys |-> LogOf(rec[k])]

Promise == INSTANCE Delivery WITH log <- Log

\* The way of a message through inbox, record and signal file is that of
\* Delivery: only what was sent is recorded, it is acked once it is recorded, what
\* the agent was told or shown is not waiting again, and no record is pruned that
\* waits; through failing statements, retries from stale batches and crashes.
ImplementsDelivery == Promise!Spec

\* The runtime acks a message at the broker, which takes it out of the agent's
\* inbox for good, only once the message is in its own table (CatchUp, which
\* acks also what handleDelivery only skipped because it was in flight).
AckedRecorded ==
    \A k \in Keys : inbox[k] = "acked" => rec[k].row # "never"

\* A worker and the sweep never handle one message at the same time, also when
\* the watch is removed and added again meanwhile (beginInflight).
InflightExclusive ==
    \A w \in Watches :
        pc[w] \in HandlerSteps /\ pc[Sweep] \in HandlerSteps => loc[w].key # loc[Sweep].key

\* A worker that runs is in m.workers, or it is being waited for: reconcile never
\* starts a second listener for an agent whose old one still runs (stopWatch).
WorkersKnown ==
    \A w \in Watches :
        pc[w] # "none" => w \in workers \/ rc.cur = w \/ mode = "stopping"

\* While the daemon stays up, a record that waits for its notification is
\* notified, dismissed or given up, or its signal file has no room for it
\* (retryPendingNotifications).  Where a batch holds every record this is so;
\* with more records than a batch it is what the test RetrySweepDoesNotStarve-
\* LaterEligibleRecords says, and records without room can fill each batch.
RetriesEnd ==
    \A k \in Keys : (mode = "up" /\ Pending(k)) ~> (~Pending(k) \/ ~Fits(k) \/ mode # "up")

\* The workers follow the watches table (reconcile), whatever a worker is busy
\* with when its watch goes; but stopWatch, and with it reconcile, waits for a
\* worker whose ack the broker does not answer.
WorkersFollow ==
    \A w \in Watches :
        (mode = "up" /\ (w \in workers) # (w \in Registered))
            ~> \/ (w \in workers) = (w \in Registered) \/ mode # "up"
               \/ rc.at = "wait" /\ pc[rc.cur] = "hung"

\* Stop returns, unless a worker waits for the answer to an ack: every loop and
\* every other wait of a worker sees that the context is canceled, or ends.
StopEnds ==
    (mode = "stopping") ~> (mode = "down" \/ \E w \in Watches : pc[w] = "hung")

\* An error that is reported goes away once there is nothing unresolved, also
\* when the record was dismissed or pruned by someone else (maintenance).
StatusClears ==
    \A w \in Watches :
        (mode = "up" /\ status[w] # "none" /\ ~Unresolved(w))
            ~> (status[w] = "none" \/ Unresolved(w) \/ mode # "up")

\* A worker never writes the signal of a record that is already notified, also
\* when the sweep, the replay and a push have the message at the same time; the
\* sweep may, from a batch it queried before (handleDelivery).
LiveNotifiesOnce ==
    [][\A w \in Watches : pc[w] = "notify" /\ pc'[w] = "mark" => ~rec[loc[w].key].notified]_vars

=============================================================================
