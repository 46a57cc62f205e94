--------------------------- MODULE MessagesProofs ---------------------------
(***************************************************************************)
(* What senders that wait for an ack can rely on, for any number of        *)
(* agents, messages and task claims that may roll a message back.          *)
(*                                                                         *)
(* The argument follows an id from the sender's row through ackWaiters to  *)
(* the ack that closes the sender's channel.                               *)
(***************************************************************************)
EXTENDS Messages, TLAPS

\* Outside a claim's transaction the connection sees what is committed.
Committed == (claims = 0 => ~txn) /\ (~txn => durable = db)

\* A handler that is about to use the id of a row or of a waiter has one.
IdKnown ==
    \A a \in Agents :
        /\ pc[a] \in Awaiting \cup {"register", "signal"} => loc[a].id \in Ids
        /\ pc[a] = "register" => loc[a].await /\ a \notin signalled

\* A channel that is closed is not registered any more.
SignalledOut == \A i \in Ids : waiters[i] \notin signalled

\* Unless a claim rolled rows back, a sender's row is that of its message, and an
\* ack that is about to signal was that of the recipient.
RowKnown ==
    claims = 0 =>
        \A a \in Agents :
            /\ pc[a] \in Awaiting \cup {"register"} =>
                   Present(loc[a].id) /\ db[loc[a].id].to = loc[a].to
            /\ pc[a] = "signal" =>
                   Present(loc[a].id) /\ <<loc[a].id, db[loc[a].id].to>> \in ackd

IndInv ==
    /\ TypeOK /\ Committed /\ IdKnown /\ SignalledOut /\ WaitersLive
    /\ RowKnown /\ OkMeansAcked

-----------------------------------------------------------------------------
\* The clients that stop reading and go on.
Readers == \E c \in Slow : Stall(c) \/ Unstall(c)

\* They touch nothing that the invariant is about.
LEMMA ReadersStep ==
  ASSUME Readers
  PROVE  /\ UNCHANGED <<db, durable, txn, claims, now, waiters, signalled, pc, loc, ackd>>
         /\ stalled \subseteq Conns => stalled' \subseteq Conns
BY ConstantsAssumption DEF Readers, Stall, Unstall, table, signals

\* An update of the state column keeps rows rows, and their recipients.
LEMMA SetStateRows ==
  ASSUME db \in [Ids -> Row], NEW S \in SUBSET Ids, \A i \in S : Present(i),
         NEW s \in {"queued", "pushed", "seen"} \cup Terminal
  PROVE  /\ SetState(S, s) \in [Ids -> Row]
         /\ \A i \in Ids : /\ SetState(S, s)[i].to = db[i].to
                           /\ Present(i) => SetState(S, s)[i].state # "absent"
                           /\ i \notin S => SetState(S, s)[i] = db[i]
<1>1. ASSUME NEW i \in S
      PROVE  /\ [db[i] EXCEPT !.state = s] \in Row
             /\ [db[i] EXCEPT !.state = s].to = db[i].to
             /\ [db[i] EXCEPT !.state = s].state = s
  BY <1>1 DEF Row, Absent, Present, Terminal
<1>2. SetState(S, s) \in [Ids -> Row] BY <1>1 DEF SetState
<1>3. ASSUME NEW i \in Ids
      PROVE  /\ SetState(S, s)[i].to = db[i].to
             /\ Present(i) => SetState(S, s)[i].state # "absent"
             /\ i \notin S => SetState(S, s)[i] = db[i]
  BY <1>1, <1>3 DEF SetState, Terminal, Present
<1> QED BY <1>2, <1>3

-----------------------------------------------------------------------------
\* IndInv holds initially.
LEMMA InitInd == Init => IndInv
<1> SUFFICES ASSUME Init PROVE IndInv OBVIOUS
<1> USE ConstantsAssumption DEF Init
<1>1. TypeOK
  <2>1. db \in [Ids -> Row] /\ durable \in [Ids -> Row] BY DEF Row
  <2>2. /\ waiters \in [Ids -> Agents \cup {NoAgent}] /\ signalled \subseteq Agents
        /\ txn \in BOOLEAN /\ claims \in Nat /\ now \in Nat /\ ackd \subseteq Ids \X Agents
        /\ stalled \subseteq Conns
    OBVIOUS
  <2>3. pc \in [Agents -> Steps] BY DEF Steps
  <2>4. loc \in [Agents -> [id: Ids \cup {0}, to: Agents \cup {NoAgent},
                           await: BOOLEAN, ids: SUBSET Ids]]
    BY DEF Idle
  <2> QED BY <2>1, <2>2, <2>3, <2>4 DEF TypeOK
<1>2. Committed /\ SignalledOut /\ WaitersLive BY DEF Committed, SignalledOut, WaitersLive
<1>3. IdKnown /\ RowKnown /\ OkMeansAcked BY DEF IdKnown, RowKnown, OkMeansAcked, Awaiting
<1> QED BY <1>1, <1>2, <1>3 DEF IndInv

\* The step of the handler of agent a keeps the types.
LEMMA HandlerType ==
  ASSUME IndInv, NEW a \in Agents, HandlerStep(a)
  PROVE  TypeOK'
<1> USE ConstantsAssumption DEF IndInv, TypeOK, Steps, Idle, Goto, Return, Exec, table, signals, env
<1>1. CASE Register(a) BY <1>1 DEF Register
<1>2. CASE Push(a) BY <1>2 DEF Push
<1>3. CASE MarkPushed(a)
  BY <1>3, SetStateRows DEF MarkPushed, IdKnown, Awaiting
<1>4. CASE PushListener(a)
  <2>1. CASE loc[a].await BY <1>4, <2>1 DEF PushListener
  <2>2. CASE ~loc[a].await
    <3>1. Return(a) BY <1>4, <2>2, Zenon DEF PushListener
    <3> QED BY <1>4, <3>1 DEF PushListener
  <2> QED BY <2>1, <2>2
<1>5. CASE AckReceived(a) BY <1>5 DEF AckReceived
<1>6. CASE Timeout(a) BY <1>6 DEF Timeout
<1>7. CASE GiveUp(a) BY <1>7 DEF GiveUp
<1>8. CASE Signal(a) BY <1>8 DEF Signal, IdKnown
<1>9. CASE MarkSeen(a)
  <2>1. SetState({i \in loc[a].ids : Present(i)}, "seen") \in [Ids -> Row]
    BY SetStateRows
  <2>2. db' \in [Ids -> Row] /\ durable' \in [Ids -> Row] BY <1>9, <2>1 DEF MarkSeen
  <2> QED BY <1>9, <2>2 DEF MarkSeen
<1> QED BY <1>1, <1>2, <1>3, <1>4, <1>5, <1>6, <1>7, <1>8, <1>9 DEF HandlerStep

\* So does the beginning of a request.
LEMMA RequestType ==
  ASSUME IndInv, NEW a \in Agents, Request(a)
  PROVE  TypeOK'
<1> USE ConstantsAssumption DEF IndInv, TypeOK, Steps, Idle, Goto, Return, Exec, table, signals, env
<1>1. ASSUME NEW to \in Agents, NEW ttl \in TTLs, NEW await \in BOOLEAN, Send(a, to, ttl, await)
      PROVE  TypeOK'
  <2>1. PICK i \in Ids :
          /\ Exec([db EXCEPT ![i] = [state |-> "queued", to |-> to, ttl |-> ttl, created |-> now]])
          /\ Goto(a, IF await THEN "register" ELSE "push",
                  [Idle EXCEPT !.id = i, !.to = to, !.await = await])
    BY <1>1 DEF Send
  <2>2. [state |-> "queued", to |-> to, ttl |-> ttl, created |-> now] \in Row BY DEF Row
  <2>3. db' \in [Ids -> Row] /\ durable' \in [Ids -> Row] BY <2>1, <2>2
  <2> QED BY <1>1, <2>1, <2>3 DEF Send
<1>2. ASSUME NEW i \in Ids, NEW caller \in Agents, Ack(a, i, caller) PROVE TypeOK'
  <2>1. SetState({i}, "acked") \in [Ids -> Row]
    BY <1>2, SetStateRows DEF Ack, Terminal
  <2>2. Exec(IF db[i].state \in Terminal THEN db ELSE SetState({i}, "acked")) BY <1>2 DEF Ack
  <2>6. db' \in [Ids -> Row] /\ durable' \in [Ids -> Row] BY <2>1, <2>2
  <2>3. ackd' \subseteq Ids \X Agents BY <1>2 DEF Ack
  <2>4. [Idle EXCEPT !.id = i] \in [id: Ids \cup {0}, to: Agents \cup {NoAgent},
                                  await: BOOLEAN, ids: SUBSET Ids]
    OBVIOUS
  <2>5. pc' \in [Agents -> Steps] /\ loc' \in [Agents -> [id: Ids \cup {0},
                                    to: Agents \cup {NoAgent}, await: BOOLEAN, ids: SUBSET Ids]]
    BY <1>2, <2>4 DEF Ack
  <2> QED BY <1>2, <2>3, <2>5, <2>6 DEF Ack
<1>3. CASE Inbox(a) BY <1>3 DEF Inbox, Unread
<1> QED BY <1>1, <1>2, <1>3 DEF Request

\* And the steps of the TTL checker, the clock, the task claims and a crash.
LEMMA OtherType ==
  ASSUME IndInv, MarkExpired \/ Tick \/ ClaimBegin \/ ClaimEnd \/ Crash \/ Readers
  PROVE  TypeOK'
<1> USE ConstantsAssumption DEF IndInv, TypeOK, Steps, Idle, Exec, table, signals, env
<1>1. CASE MarkExpired
  <2>1. SetState({i \in Ids : Present(i) /\ db[i].state \notin Terminal /\ ~InTTL(i)}, "expired")
          \in [Ids -> Row]
    BY SetStateRows DEF Terminal
  <2> QED BY <1>1, <2>1 DEF MarkExpired
<1>2. CASE Tick BY <1>2 DEF Tick
<1>3. CASE ClaimBegin BY <1>3 DEF ClaimBegin
<1>4. CASE ClaimEnd BY <1>4 DEF ClaimEnd
<1>5. CASE Crash BY <1>5 DEF Crash
<1>6. CASE Readers BY <1>6, ReadersStep
<1> QED BY <1>1, <1>2, <1>3, <1>4, <1>5, <1>6

-----------------------------------------------------------------------------
\* What the connection sees is committed whenever no claim is open.
LEMMA NextCommitted ==
  ASSUME IndInv, Next
  PROVE  Committed'
<1> USE DEF IndInv, TypeOK, Committed, Exec, table, signals, env
<1>1. ASSUME NEW a \in Agents, HandlerStep(a) PROVE Committed'
  BY <1>1 DEF HandlerStep, Register, Push, MarkPushed, PushListener, AckReceived, Timeout,
     GiveUp, Signal, MarkSeen
<1>2. ASSUME NEW a \in Agents, Request(a) PROVE Committed'
  <2>1. CASE \E to \in Agents, ttl \in TTLs, await \in BOOLEAN : Send(a, to, ttl, await)
    BY <2>1 DEF Send
  <2>2. CASE \E i \in Ids, caller \in Agents : Ack(a, i, caller) BY <2>2 DEF Ack
  <2>3. CASE Inbox(a) BY <2>3 DEF Inbox
  <2> QED BY <1>2, <2>1, <2>2, <2>3 DEF Request
<1>3. CASE MarkExpired \/ Tick \/ ClaimBegin \/ ClaimEnd \/ Crash
  BY <1>3 DEF MarkExpired, Tick, ClaimBegin, ClaimEnd, Crash
<1>4. CASE Readers BY <1>4, ReadersStep
<1> QED BY <1>1, <1>2, <1>3, <1>4 DEF Next, Readers

\* The waiters: a handler that leaves the wait takes its entry with it.
LEMMA HandlerWaiters ==
  ASSUME IndInv, NEW a \in Agents, HandlerStep(a)
  PROVE  (IdKnown /\ SignalledOut /\ WaitersLive)'
<1> USE ConstantsAssumption DEF IndInv, TypeOK, Steps, Idle, Goto, Return, signals, IdKnown,
        SignalledOut, WaitersLive, Awaiting
<1>1. CASE Register(a) BY <1>1 DEF Register
<1>2. CASE Push(a) BY <1>2 DEF Push
<1>3. CASE MarkPushed(a) BY <1>3 DEF MarkPushed
<1>4. CASE PushListener(a) BY <1>4 DEF PushListener
<1>5. CASE AckReceived(a) BY <1>5 DEF AckReceived
<1>6. CASE Timeout(a) BY <1>6 DEF Timeout
<1>7. CASE GiveUp(a) BY <1>7 DEF GiveUp
<1>8. CASE Signal(a) BY <1>8 DEF Signal
<1>9. CASE MarkSeen(a) BY <1>9 DEF MarkSeen
<1> QED BY <1>1, <1>2, <1>3, <1>4, <1>5, <1>6, <1>7, <1>8, <1>9 DEF HandlerStep

\* A request begins with no entry and with a channel that is open.
LEMMA OtherWaiters ==
  ASSUME IndInv, Next, \A a \in Agents : ~HandlerStep(a)
  PROVE  (IdKnown /\ SignalledOut /\ WaitersLive)'
<1> USE ConstantsAssumption DEF IndInv, TypeOK, Steps, Idle, Goto, Return, signals, IdKnown,
        SignalledOut, WaitersLive, Awaiting
<1>1. ASSUME NEW a \in Agents, Request(a) PROVE (IdKnown /\ SignalledOut /\ WaitersLive)'
  <2>1. CASE \E to \in Agents, ttl \in TTLs, await \in BOOLEAN : Send(a, to, ttl, await)
    BY <2>1 DEF Send
  <2>2. CASE \E i \in Ids, caller \in Agents : Ack(a, i, caller) BY <2>2 DEF Ack
  <2>3. CASE Inbox(a) BY <2>3 DEF Inbox
  <2> QED BY <1>1, <2>1, <2>2, <2>3 DEF Request
<1>2. CASE MarkExpired \/ Tick \/ ClaimBegin \/ ClaimEnd
  BY <1>2 DEF MarkExpired, Tick, ClaimBegin, ClaimEnd
<1>3. CASE Crash BY <1>3 DEF Crash
<1>4. CASE Readers BY <1>4, ReadersStep
<1> QED BY <1>1, <1>2, <1>3, <1>4 DEF Next, Readers

-----------------------------------------------------------------------------
\* Without claims a row keeps its recipient once it is there.
LEMMA RowsStay ==
  ASSUME IndInv, Next, claims' = 0
  PROVE  claims = 0 /\ \A i \in Ids : Present(i) => Present(i)' /\ db'[i].to = db[i].to
<1> USE ConstantsAssumption DEF IndInv, TypeOK, Committed, Exec, table, signals, env, Present
<1>1. claims = 0
  <2>1. ASSUME NEW a \in Agents, HandlerStep(a) PROVE claims' = claims
    BY <2>1 DEF HandlerStep, Register, Push, MarkPushed, PushListener, AckReceived, Timeout,
       GiveUp, Signal, MarkSeen
  <2>2. ASSUME NEW a \in Agents, Request(a) PROVE claims' = claims
    BY <2>2 DEF Request, Send, Ack, Inbox
  <2>3. CASE MarkExpired \/ Tick \/ ClaimEnd \/ Crash
    BY <2>3 DEF MarkExpired, Tick, ClaimEnd, Crash
  <2>4. CASE ClaimBegin BY <2>4 DEF ClaimBegin
  <2>5. CASE Readers BY <2>5, ReadersStep
  <2> QED BY <2>1, <2>2, <2>3, <2>4, <2>5 DEF Next, Readers
<1>2. ASSUME NEW a \in Agents, HandlerStep(a), NEW i \in Ids, Present(i)
      PROVE  Present(i)' /\ db'[i].to = db[i].to
  <2>1. CASE MarkPushed(a)
    <3> DEFINE S == {j \in {loc[a].id} : Present(j)}
    <3>1. S \in SUBSET Ids BY <2>1 DEF MarkPushed, IdKnown, Awaiting
    <3>2. /\ SetState(S, "pushed")[i].to = db[i].to
          /\ SetState(S, "pushed")[i].state # "absent"
      BY <1>2, <3>1, SetStateRows DEF Terminal
    <3> QED BY <2>1, <3>2 DEF MarkPushed
  <2>2. CASE MarkSeen(a) BY <1>2, <2>2, SetStateRows DEF MarkSeen
  <2> QED
    BY <1>2, <2>1, <2>2 DEF HandlerStep, Register, Push, PushListener, AckReceived, Timeout,
       GiveUp, Signal
<1>3. ASSUME NEW a \in Agents, Request(a), NEW i \in Ids, Present(i)
      PROVE  Present(i)' /\ db'[i].to = db[i].to
  <2>1. ASSUME NEW j \in Ids, NEW caller \in Agents, Ack(a, j, caller)
        PROVE  Present(i)' /\ db'[i].to = db[i].to
    <3>1. /\ SetState({j}, "acked")[i].to = db[i].to
          /\ SetState({j}, "acked")[i].state # "absent"
      BY <1>3, <2>1, SetStateRows DEF Ack, Terminal
    <3> QED BY <1>3, <2>1, <3>1 DEF Ack
  <2> QED BY <1>3, <2>1 DEF Request, Send, Inbox
<1>4. ASSUME MarkExpired, NEW i \in Ids, Present(i)
      PROVE  Present(i)' /\ db'[i].to = db[i].to
  BY <1>4, SetStateRows DEF MarkExpired, Terminal
<1>5. CASE Tick \/ ClaimBegin \/ ClaimEnd \/ Crash
  BY <1>1, <1>5 DEF Tick, ClaimBegin, ClaimEnd, Crash
<1>6. CASE Readers BY <1>6, ReadersStep
<1> QED BY <1>1, <1>2, <1>3, <1>4, <1>5, <1>6 DEF Next, Readers

\* So the ack that lets a sender go is that of its recipient.
LEMMA NextAcked ==
  ASSUME IndInv, Next
  PROVE  (RowKnown /\ OkMeansAcked)'
<1> SUFFICES ASSUME claims' = 0 PROVE (RowKnown /\ OkMeansAcked)'
  BY DEF RowKnown, OkMeansAcked
<1>0. claims = 0 /\ \A i \in Ids : Present(i) => Present(i)' /\ db'[i].to = db[i].to
  BY RowsStay
<1> USE <1>0, ConstantsAssumption DEF IndInv, TypeOK, Steps, Idle, Goto, Return, signals, env,
        IdKnown, RowKnown, OkMeansAcked, Awaiting, Present
<1>1. ASSUME NEW a \in Agents, HandlerStep(a) PROVE (RowKnown /\ OkMeansAcked)'
  <2>1. CASE Register(a) BY <2>1 DEF Register
  <2>2. CASE Push(a)
    <3>1. ASSUME NEW step \in {"mark", "listener"}, Goto(a, step, loc[a])
          PROVE  loc' = loc /\ pc'[a] = step /\ \A b \in Agents : b # a => pc'[b] = pc[b]
      BY <3>1
    <3>2. UNCHANGED <<db, signalled, ackd>> /\ pc[a] = "push" BY <2>2 DEF Push, table
    <3>3. loc' = loc /\ pc'[a] \in {"mark", "listener"}
          /\ \A b \in Agents : b # a => pc'[b] = pc[b]
      BY <2>2, <3>1 DEF Push
    <3> HIDE DEF TypeOK, Goto, Return, Idle, Steps, IdKnown
    <3> QED BY <3>2, <3>3
  <2>3. CASE MarkPushed(a) BY <2>3 DEF MarkPushed
  <2>4. CASE PushListener(a)
    <3>1. Goto(a, "wait", loc[a]) \/ Return(a) BY <2>4, Zenon DEF PushListener
    <3>2. CASE Goto(a, "wait", loc[a])
      <4>1. loc' = loc /\ pc'[a] = "wait" /\ \A b \in Agents : b # a => pc'[b] = pc[b]
        BY <3>2
      <4>2. UNCHANGED <<db, signalled, ackd>> /\ pc[a] = "listener"
        BY <2>4 DEF PushListener, table
      <4> HIDE DEF TypeOK, Goto, Return, Idle, Steps, IdKnown
      <4> QED BY <4>1, <4>2
    <3>3. CASE Return(a) BY <2>4, <3>3 DEF PushListener
    <3> QED BY <3>1, <3>2, <3>3
  <2>5. CASE AckReceived(a) BY <2>5 DEF AckReceived
  <2>6. CASE Timeout(a) BY <2>6 DEF Timeout
  <2>7. CASE GiveUp(a) BY <2>7 DEF GiveUp
  <2>8. CASE Signal(a)
    <3> DEFINE w == waiters[loc[a].id]
    <3>1. RowKnown' BY <2>8 DEF Signal
    <3>2. ASSUME NEW b \in Agents, pc'[b] \in Awaiting, b \in signalled'
          PROVE  <<loc[b].id, loc[b].to>> \in ackd
      <4>1. b # a /\ pc[b] \in Awaiting BY <2>8, <3>2 DEF Signal
      <4>2. CASE b \in signalled BY <4>1, <4>2
      <4>3. CASE b = w /\ w # NoAgent
        <5>1. loc[b].id = loc[a].id BY <2>8, <4>3 DEF Signal, WaitersLive
        <5>2. db[loc[b].id].to = loc[b].to BY <4>1
        <5>3. <<loc[a].id, db[loc[a].id].to>> \in ackd BY <2>8 DEF Signal
        <5> QED BY <5>1, <5>2, <5>3
      <4> QED BY <2>8, <3>2, <4>2, <4>3 DEF Signal
    <3>3. \A b \in Agents : pc'[b] \in Awaiting => loc'[b] = loc[b]
      BY <2>8 DEF Signal
    <3>4. ackd' = ackd BY <2>8 DEF Signal
    <3>5. OkMeansAcked' BY <3>2, <3>3, <3>4
    <3> QED BY <3>1, <3>5
  <2>9. CASE MarkSeen(a) BY <2>9 DEF MarkSeen
  <2> HIDE DEF RowKnown, OkMeansAcked
  <2> QED BY <1>1, <2>1, <2>2, <2>3, <2>4, <2>5, <2>6, <2>7, <2>8, <2>9 DEF HandlerStep
<1>2. ASSUME NEW a \in Agents, Request(a) PROVE (RowKnown /\ OkMeansAcked)'
  <2>1. ASSUME NEW to \in Agents, NEW ttl \in TTLs, NEW await \in BOOLEAN,
               Send(a, to, ttl, await)
        PROVE  (RowKnown /\ OkMeansAcked)'
    <3>1. PICK i \in Ids :
            /\ ~Present(i)
            /\ db' = [db EXCEPT ![i] = [state |-> "queued", to |-> to, ttl |-> ttl,
                                       created |-> now]]
            /\ Goto(a, IF await THEN "register" ELSE "push",
                    [Idle EXCEPT !.id = i, !.to = to, !.await = await])
      BY <2>1 DEF Send, Exec
    <3>2. db'[i].state = "queued" /\ db'[i].to = to BY <3>1
    <3>3. /\ pc' = [pc EXCEPT ![a] = IF await THEN "register" ELSE "push"]
          /\ loc'[a].id = i /\ loc'[a].to = to
          /\ \A b \in Agents \ {a} : loc'[b] = loc[b]
      BY <3>1
    <3>4. signalled' = signalled \ {a} /\ ackd' = ackd BY <2>1 DEF Send
    <3>5. RowKnown'
      <4>1. ASSUME NEW b \in Agents, b # a, pc[b] \in Awaiting \cup {"register", "signal"}
            PROVE  db'[loc[b].id].state # "absent" /\ db'[loc[b].id].to = db[loc[b].id].to
        BY <4>1
      <4>2. ASSUME NEW b \in Agents, b # a PROVE pc'[b] = pc[b] /\ loc'[b] = loc[b]
        BY <3>3, <4>2
      <4>3. pc'[a] \in {"push", "register"} BY <3>3
      <4> QED BY <3>2, <3>3, <3>4, <4>1, <4>2, <4>3
    <3>6. OkMeansAcked' BY <3>3, <3>4
    <3> QED BY <3>5, <3>6
  <2>2. ASSUME NEW i \in Ids, NEW caller \in Agents, Ack(a, i, caller)
        PROVE  (RowKnown /\ OkMeansAcked)'
    BY <2>2 DEF Ack
  <2>3. CASE Inbox(a) BY <2>3 DEF Inbox
  <2> HIDE DEF RowKnown, OkMeansAcked
  <2> QED BY <1>2, <2>1, <2>2, <2>3 DEF Request
<1>3. CASE MarkExpired \/ Tick \/ ClaimBegin \/ ClaimEnd
  <2>1. pc' = pc /\ loc' = loc /\ signalled' = signalled /\ ackd' = ackd
    <3> HIDE <1>0, ConstantsAssumption
    <3> HIDE DEF IndInv, TypeOK, IdKnown, RowKnown, OkMeansAcked, Present
    <3> QED BY <1>3 DEF MarkExpired, Tick, ClaimBegin, ClaimEnd
  <2>2. RowKnown' BY <2>1
  <2>3. OkMeansAcked' BY <2>1
  <2> QED BY <2>2, <2>3
<1>4. CASE Crash BY <1>4 DEF Crash
<1>5. CASE Readers BY <1>5, ReadersStep
<1> HIDE DEF RowKnown, OkMeansAcked
<1> QED BY <1>1, <1>2, <1>3, <1>4, <1>5 DEF Next, Readers

-----------------------------------------------------------------------------
\* IndInv holds in every state.
LEMMA Inductive == Spec => []IndInv
<1>1. ASSUME IndInv, [Next]_vars PROVE IndInv'
  <2>1. CASE Next
    <3>1. TypeOK' BY <1>1, <2>1, HandlerType, RequestType, OtherType DEF Next, Readers
    <3>2. (IdKnown /\ SignalledOut /\ WaitersLive)'
      BY <1>1, <2>1, HandlerWaiters, OtherWaiters
    <3> QED BY <1>1, <2>1, <3>1, <3>2, NextCommitted, NextAcked DEF IndInv
  <2>2. CASE UNCHANGED vars
    BY <1>1, <2>2 DEF vars, IndInv, TypeOK, Committed, IdKnown, SignalledOut, WaitersLive,
       RowKnown, OkMeansAcked, Present
  <2> QED BY <1>1, <2>1, <2>2
<1> QED BY <1>1, InitInd, PTL DEF Spec

\* The tables, the handlers and the waiters have the shape that TypeOK gives them,
\* over rollbacks and crashes.
THEOREM TypeCorrect == Spec => []TypeOK
  BY Inductive, PTL DEF IndInv

\* Every entry of ackWaiters belongs to a sender that is still in handleSend for
\* that message: the entry goes with the ack or with the timeout.
THEOREM WaitersAlwaysLive == Spec => []WaitersLive
  BY Inductive, PTL DEF IndInv

\* A sender that waits is let go by an ack of its recipient for its message only,
\* while no task claim rolls messages back.
THEOREM OkAlwaysAcked == Spec => []OkMeansAcked
  BY Inductive, PTL DEF IndInv

\* Only a sender or an inbox reader that had picked a message up before, or a
\* rollback, changes the state of one that was acked or has expired.
THEOREM TerminalKept == Spec => TerminalUnlessInFlight
<1>1. ASSUME IndInv, [Next]_vars, txn' \/ ~txn, NEW i \in Ids,
             db[i].state \in Terminal, ~InFlight(i)
      PROVE  db'[i].state = db[i].state
  <2> USE <1>1, ConstantsAssumption DEF IndInv, TypeOK, Committed, Exec, table, signals, env,
          Present, Terminal
  <2>1. ASSUME NEW a \in Agents, HandlerStep(a) PROVE db'[i].state = db[i].state
    <3>1. CASE MarkPushed(a) BY <3>1 DEF MarkPushed, InFlight, SetState
    <3>2. CASE MarkSeen(a) BY <3>2 DEF MarkSeen, InFlight, SetState
    <3> QED
      BY <2>1, <3>1, <3>2 DEF HandlerStep, Register, Push, PushListener, AckReceived, Timeout,
         GiveUp, Signal
  <2>2. ASSUME NEW a \in Agents, Request(a) PROVE db'[i].state = db[i].state
    BY <2>2 DEF Request, Send, Ack, Inbox, SetState
  <2>3. CASE MarkExpired BY <2>3 DEF MarkExpired, SetState
  <2>4. CASE Tick \/ ClaimBegin \/ ClaimEnd \/ Crash \/ UNCHANGED vars
    BY <2>4 DEF Tick, ClaimBegin, ClaimEnd, Crash, vars
  <2>5. CASE Readers BY <2>5, ReadersStep
  <2> QED BY <2>1, <2>2, <2>3, <2>4, <2>5 DEF Next, Readers
<1>2. IndInv /\ [Next]_vars =>
        [txn' \/ ~txn => \A i \in Ids : db[i].state \in Terminal /\ ~InFlight(i) =>
            db'[i].state = db[i].state]_vars
  BY <1>1
<1> QED BY <1>2, Inductive, PTL DEF Spec, TerminalUnlessInFlight

=============================================================================
