------------------------------ MODULE Messages ------------------------------
(***************************************************************************)
(* Direct messages of the waggle broker: internal/messages (store and TTL  *)
(* checker) under the handlers send, inbox, replay and ack of              *)
(* internal/broker/router.go, with broker.ackWaiters.                      *)
(*                                                                         *)
(* A step is one SQL statement, one transaction that database/sql pins to  *)
(* the connection, or one critical section.  The store shares the broker's *)
(* single connection with the task store: a plain statement that runs      *)
(* while a task claim has its transaction open is part of that             *)
(* transaction, and db.Begin then fails.  TaskStore has the claim itself.  *)
(***************************************************************************)
EXTENDS Integers

CONSTANTS
    Agents,         \* agent names, each with one session
    NoAgent,        \* no waiter, no recipient
    MaxMsgs,        \* bound: rows the table may hold
    TTLs,           \* TTLs that senders give, 0 for none
    MaxTime,        \* bound: ticks of the clock
    MaxClaims,      \* bound: task claims that open a transaction
    Slow            \* bound: the connections whose client may stop reading

Ids == 1..MaxMsgs

\* The session of a name, and its push listener.
Conns == Agents \X {"session", "listener"}

ASSUME ConstantsAssumption ==
    /\ MaxMsgs \in Nat /\ MaxTime \in Nat /\ MaxClaims \in Nat
    /\ TTLs \subseteq Nat
    /\ NoAgent \notin Agents
    /\ Slow \subseteq Conns

VARIABLES
    db,         \* the messages table as the connection sees it
    durable,    \* the messages table as last committed
    txn,        \* a task claim has its transaction open
    claims,     \* task claims begun so far
    now,        \* the clock, in ticks
    waiters,    \* broker.ackWaiters: the sender whose channel is registered
    signalled,  \* senders whose ack channel is closed
    pc,         \* where the handler of each session is
    loc,        \* the handler's local variables
    stalled,    \* connections that take no more, because their client does not read
    ackd        \* <<id, caller>> of every ack that succeeded

vars == <<db, durable, txn, claims, now, waiters, signalled, pc, loc, stalled, ackd>>

-----------------------------------------------------------------------------
\* Rows.  Sender, body, priority and the time stamps are left out.

Absent == [state |-> "absent", to |-> NoAgent, ttl |-> 0, created |-> 0]

Terminal == {"acked", "expired"}
Present(i) == db[i].state # "absent"
InTTL(i) == db[i].ttl = 0 \/ now < db[i].created + db[i].ttl

Idle == [id |-> 0, to |-> NoAgent, await |-> FALSE, ids |-> {}]

Init ==
    /\ db = [i \in Ids |-> Absent]
    /\ durable = db
    /\ txn = FALSE
    /\ claims = 0
    /\ now = 0
    /\ waiters = [i \in Ids |-> NoAgent]
    /\ signalled = {}
    /\ pc = [a \in Agents |-> "idle"]
    /\ loc = [a \in Agents |-> Idle]
    /\ stalled = {}
    /\ ackd = {}

\* A write statement: it commits by itself unless a claim is open.
Exec(new) ==
    /\ db' = new
    /\ durable' = IF txn THEN durable ELSE new

\* UPDATE messages SET state = s WHERE, with S the rows that match.
SetState(S, s) ==
    [i \in Ids |-> IF i \in S THEN [db[i] EXCEPT !.state = s] ELSE db[i]]

Goto(a, step, l) ==
    /\ pc' = [pc EXCEPT ![a] = step]
    /\ loc' = [loc EXCEPT ![a] = l]

Return(a) == Goto(a, "idle", Idle)

table == <<db, durable>>
signals == <<waiters, signalled>>
env == <<txn, claims, now, stalled>>

-----------------------------------------------------------------------------
\* send.

\* Store.Send: AUTOINCREMENT gives the smallest id above those in the table.
Send(a, to, ttl, await) ==
    /\ pc[a] = "idle"
    /\ \E i \in Ids :
         /\ ~Present(i)
         /\ \A j \in Ids : j < i => Present(j)
         /\ Exec([db EXCEPT ![i] = [state |-> "queued", to |-> to, ttl |-> ttl,
                                    created |-> now]])
         /\ Goto(a, IF await THEN "register" ELSE "push",
                 [Idle EXCEPT !.id = i, !.to = to, !.await = await])
    /\ signalled' = signalled \ {a}
    /\ UNCHANGED <<waiters, env, ackd>>

Register(a) ==
    /\ pc[a] = "register"
    /\ waiters' = [waiters EXCEPT ![loc[a].id] = a]
    /\ Goto(a, "push", loc[a])
    /\ UNCHANGED <<table, signalled, env, ackd>>

\* The connection that the handler writes to at this step, under its writeMu and
\* without a deadline; a session is not pushed its own message.
WritesTo(a) ==
    {c \in Conns : /\ c[1] = loc[a].to /\ loc[a].to # a
                   /\ \/ pc[a] = "push" /\ c[2] = "session"
                      \/ pc[a] = "listener" /\ c[2] = "listener"}

\* It waits there until the connection takes the message.
Blocked(a) == WritesTo(a) \cap stalled # {}

\* The session of the recipient is written to, or else its push listener, or
\* neither when none is connected or Encode fails.
Push(a) ==
    /\ pc[a] = "push"
    /\ ~Blocked(a)
    /\ \/ loc[a].to # a /\ Goto(a, "mark", loc[a])
       \/ Goto(a, "listener", loc[a])
    /\ UNCHANGED <<table, signals, env, ackd>>

\* MarkPushed: UPDATE ... WHERE id = ?, whatever the state is by now.
MarkPushed(a) ==
    /\ pc[a] = "mark"
    /\ Exec(SetState({i \in {loc[a].id} : Present(i)}, "pushed"))
    /\ Goto(a, "listener", loc[a])
    /\ UNCHANGED <<signals, env, ackd>>

\* The copy for the push listener, if one is connected and was not written to in
\* place of the session; then the answer.
PushListener(a) ==
    /\ pc[a] = "listener"
    /\ ~Blocked(a)
    /\ \/ loc[a].await /\ Goto(a, "wait", loc[a])
       \/ ~loc[a].await /\ Return(a)
    /\ UNCHANGED <<table, signals, env, ackd>>

\* select: <-ackCh.
AckReceived(a) ==
    /\ pc[a] = "wait"
    /\ a \in signalled
    /\ Return(a)
    /\ UNCHANGED <<table, signals, env, ackd>>

\* Mutant: select has no timeout.
TimeoutNever(a) ==
    /\ pc[a] = "wait"
    /\ a \in signalled
    /\ Goto(a, "giveup", loc[a])
    /\ UNCHANGED <<table, signals, env, ackd>>

\* select: <-time.After(timeout) or <-stopCh, also when ackCh is ready.
Timeout(a) ==
    /\ pc[a] = "wait"
    /\ Goto(a, "giveup", loc[a])
    /\ UNCHANGED <<table, signals, env, ackd>>

\* Mutant: the entry is left in the map.
GiveUpLeaks(a) ==
    /\ pc[a] = "giveup"
    /\ Return(a)
    /\ UNCHANGED <<table, signals, env, ackd>>

\* delete(ackWaiters, msg.ID), then the error.
GiveUp(a) ==
    /\ pc[a] = "giveup"
    /\ waiters' = [waiters EXCEPT ![loc[a].id] = NoAgent]
    /\ Return(a)
    /\ UNCHANGED <<table, signalled, env, ackd>>

-----------------------------------------------------------------------------
\* ack, in the name the request gives.  While a claim is open, db.Begin fails.

\* Mutant: the caller need not be the recipient.
AckAnyone(a, i, caller) ==
    /\ pc[a] = "idle"
    /\ ~txn
    /\ Present(i)
    /\ Exec(IF db[i].state \in Terminal THEN db ELSE SetState({i}, "acked"))
    /\ ackd' = ackd \cup {<<i, caller>>}
    /\ Goto(a, "signal", [Idle EXCEPT !.id = i])
    /\ UNCHANGED <<signals, env>>

Ack(a, i, caller) ==
    /\ pc[a] = "idle"
    /\ ~txn
    /\ Present(i) /\ db[i].to = caller
    /\ Exec(IF db[i].state \in Terminal THEN db ELSE SetState({i}, "acked"))
    /\ ackd' = ackd \cup {<<i, caller>>}
    /\ Goto(a, "signal", [Idle EXCEPT !.id = i])
    /\ UNCHANGED <<signals, env>>

\* The waiter is taken out of the map and its channel closed.
Signal(a) ==
    /\ pc[a] = "signal"
    /\ signalled' = signalled \cup ({waiters[loc[a].id]} \ {NoAgent})
    /\ waiters' = [waiters EXCEPT ![loc[a].id] = NoAgent]
    /\ Return(a)
    /\ UNCHANGED <<table, env, ackd>>

-----------------------------------------------------------------------------
\* inbox: the query, then a transaction that marks as seen what it found queued
\* or pushed.  replay is the query alone.

Unread(a) == {i \in Ids : db[i].to = a /\ db[i].state \in {"queued", "pushed"}
                          /\ InTTL(i)}

Inbox(a) ==
    /\ pc[a] = "idle"
    /\ Unread(a) # {}
    /\ Goto(a, "seen", [Idle EXCEPT !.ids = Unread(a)])
    /\ UNCHANGED <<table, signals, env, ackd>>

\* The state is not tested again; with a claim open the transaction fails.
MarkSeen(a) ==
    /\ pc[a] = "seen"
    /\ \/ /\ ~txn
          /\ Exec(SetState({i \in loc[a].ids : Present(i)}, "seen"))
       \/ txn /\ UNCHANGED table
    /\ Return(a)
    /\ UNCHANGED <<signals, env, ackd>>

-----------------------------------------------------------------------------
\* Mutant: a message that was acked can still expire.
MarkExpiredAcked ==
    /\ Exec(SetState({i \in Ids : Present(i) /\ ~InTTL(i)}, "expired"))
    /\ UNCHANGED <<signals, env, pc, loc, ackd>>

MarkExpired ==
    /\ Exec(SetState({i \in Ids : Present(i) /\ db[i].state \notin Terminal
                                  /\ ~InTTL(i)}, "expired"))
    /\ UNCHANGED <<signals, env, pc, loc, ackd>>

Tick ==
    /\ now < MaxTime
    /\ now' = now + 1
    /\ UNCHANGED <<table, signals, txn, claims, pc, loc, stalled, ackd>>

\* The transaction of a task claim, as the message store meets it.
ClaimBegin ==
    /\ ~txn
    /\ claims < MaxClaims
    /\ txn' = TRUE
    /\ claims' = claims + 1
    /\ UNCHANGED <<table, now, signals, pc, loc, stalled, ackd>>

ClaimEnd ==
    /\ txn
    /\ txn' = FALSE
    /\ \/ durable' = db /\ UNCHANGED db
       \/ db' = durable /\ UNCHANGED durable
    /\ UNCHANGED <<claims, now, signals, pc, loc, stalled, ackd>>

\* The broker dies and is started again on the same database.
Crash ==
    /\ db' = durable
    /\ txn' = FALSE
    /\ waiters' = [i \in Ids |-> NoAgent]
    /\ signalled' = {}
    /\ pc' = [a \in Agents |-> "idle"]
    /\ loc' = [a \in Agents |-> Idle]
    /\ stalled' = {}
    /\ UNCHANGED <<durable, claims, now, ackd>>

\* A write finds the buffer of a client that has stopped reading full; the client
\* reads on or hangs up, and nothing makes it do either.
Stall(c) ==
    /\ c \notin stalled
    /\ \E a \in Agents : c \in WritesTo(a)
    /\ stalled' = stalled \cup {c}
    /\ UNCHANGED <<table, signals, txn, claims, now, pc, loc, ackd>>

Unstall(c) ==
    /\ c \in stalled
    /\ stalled' = stalled \ {c}
    /\ UNCHANGED <<table, signals, txn, claims, now, pc, loc, ackd>>

-----------------------------------------------------------------------------
Request(a) ==
    \/ \E to \in Agents, ttl \in TTLs, await \in BOOLEAN : Send(a, to, ttl, await)
    \/ \E i \in Ids, caller \in Agents : Ack(a, i, caller)
    \/ Inbox(a)

HandlerStep(a) ==
    \/ Register(a) \/ Push(a) \/ MarkPushed(a) \/ PushListener(a)
    \/ AckReceived(a) \/ Timeout(a) \/ GiveUp(a)
    \/ Signal(a) \/ MarkSeen(a)

Next ==
    \/ \E a \in Agents : Request(a) \/ HandlerStep(a)
    \/ MarkExpired \/ Tick
    \/ ClaimBegin \/ ClaimEnd
    \/ Crash
    \/ \E c \in Slow : Stall(c) \/ Unstall(c)

Spec == Init /\ [][Next]_vars

\* A handler that can go on does, and the timer of an await fires.  Nothing is
\* assumed of the clients: a recipient need not read, nor ever ack.
FairSpec == Spec /\ \A a \in Agents : WF_vars(HandlerStep(a))

-----------------------------------------------------------------------------
\* Properties.

Row == {Absent} \cup [state: {"queued", "pushed", "seen"} \cup Terminal, to: Agents,
                     ttl: TTLs, created: Nat]

Steps == {"idle", "register", "push", "mark", "listener", "wait", "giveup",
          "signal", "seen"}

\* The shape of the state: a row that a rollback removed stays removed.
TypeOK ==
    /\ db \in [Ids -> Row] /\ durable \in [Ids -> Row]
    /\ txn \in BOOLEAN /\ claims \in Nat /\ now \in Nat
    /\ waiters \in [Ids -> Agents \cup {NoAgent}] /\ signalled \subseteq Agents
    /\ pc \in [Agents -> Steps]
    /\ loc \in [Agents -> [id: Ids \cup {0}, to: Agents \cup {NoAgent},
                          await: BOOLEAN, ids: SUBSET Ids]]
    /\ stalled \subseteq Conns /\ ackd \subseteq Ids \X Agents

\* "No goroutine or channel leak on --await-ack timeout": an entry of ackWaiters
\* is that of a sender that is still in its handler for that message, however
\* the ack, the timeout and the reuse of an id after a rollback race.
Awaiting == {"push", "mark", "listener", "wait", "giveup"}

WaitersLive ==
    \A i \in Ids : waiters[i] # NoAgent =>
        LET a == waiters[i] IN pc[a] \in Awaiting /\ loc[a].await /\ loc[a].id = i

\* An acked or expired message changes its state only by the hand of a sender
\* or an inbox reader that had picked it up before, or when the claim in whose
\* transaction it expired is rolled back.
InFlight(i) ==
    \E a \in Agents : \/ pc[a] = "mark" /\ loc[a].id = i
                      \/ pc[a] = "seen" /\ i \in loc[a].ids

TerminalUnlessInFlight ==
    [][txn' \/ ~txn => \A i \in Ids : db[i].state \in Terminal /\ ~InFlight(i) =>
          db'[i].state = db[i].state]_vars

\* A sender that waits is let go by an ack of its recipient for its message
\* only, as long as no task claim can roll a message back and free its id.
OkMeansAcked ==
    claims = 0 =>
        \A a \in Agents : pc[a] \in Awaiting /\ a \in signalled =>
            <<loc[a].id, loc[a].to>> \in ackd

\* Every request comes to its answer, an await too when the ack never comes,
\* unless the handler is writing to a recipient that does not read: then it goes
\* on as soon as that recipient reads or hangs up, and no other handler waits.
SenderAnswered == \A a \in Agents : pc[a] # "idle" ~> (pc[a] = "idle" \/ Blocked(a))

=============================================================================
