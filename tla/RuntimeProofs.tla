--------------------------- MODULE RuntimeProofs ---------------------------
(***************************************************************************)
(* What the machine runtime promises about a message and its watch, for    *)
(* any number of watches, messages, sources, retries and faults.           *)
(*                                                                         *)
(* The argument: the key of a message is in m.inflight as long as one      *)
(* goroutine handles it, and only one does; a worker handles messages of   *)
(* its own watch only, so that the other one can only be the sweep, whose  *)
(* records are in the table since before it queried them.                  *)
(***************************************************************************)
EXTENDS Runtime, TLAPS

\* A record that is not given up has retries left.
RetriesLeft == \A k \in Keys : ~rec[k].exhausted => rec[k].attempts < RetryLimit

\* Which workers run, by where the reconcile loop is.
Phase ==
    /\ mode = "down" => rc.at = "none" /\ pc[Sweep] = "none"
    /\ mode = "up" => rc.at \notin {"none", "stopall"}
    /\ rc.at = "none" => \A w \in Watches : pc[w] = "none"
    /\ rc.at \in {"idle", "start", "stop"} => \A w \in Watches : pc[w] # "none" => w \in workers
    /\ rc.at = "wait" => /\ rc.cur \in Watches
                         /\ \A w \in Watches : pc[w] # "none" => w \in workers \cup {rc.cur}

\* A worker is about to ack a message, or waits for the broker's answer.
AckSteps == {"ack", "hung"}

\* A worker handles what was sent to its own watch.
OwnKeys ==
    \A w \in Watches :
        /\ pc[w] \in HandlerSteps \cup AckSteps => loc[w].key \in Of(w)
        /\ \A b \in loc[w].batch : b.key \in Of(w)

\* What is handled is in flight (or the map was cleared when everything stopped),
\* and what is in flight is handled.
Handled ==
    /\ \A p \in Procs : pc[p] \in HandlerSteps =>
          loc[p].key \in Keys /\ (loc[p].key \in inflight \/ rc.at = "none")
    /\ \A k \in inflight : \E p \in Procs : pc[p] \in HandlerSteps /\ loc[p].key = k

\* Past AddRecordIfAbsent the message has its record; the sweep only ever has
\* records.
RowKnown ==
    /\ \A w \in Watches :
          \/ pc[w] \in {"get", "notify", "mark", "fail", "refresh", "ack", "hung"}
          \/ pc[w] = "done" /\ loc[w].ok
          => rec[loc[w].key].row # "never"
    /\ pc[Sweep] \in HandlerSteps => rec[loc[Sweep].key].row # "never"
    /\ \A b \in loc[Sweep].batch : rec[b.key].row # "never"

\* A worker is about to notify what is not notified.
Unnotified == \A w \in Watches : pc[w] = "notify" => ~rec[loc[w].key].notified

IndInv ==
    /\ TypeOK /\ RetriesLeft /\ Phase /\ OwnKeys /\ Handled /\ InflightExclusive
    /\ RowKnown /\ AckedRecorded /\ Unnotified

-----------------------------------------------------------------------------
\* Constants and locals.
LEMMA Basics ==
  /\ Sweep \in Procs /\ Sweep \notin Watches /\ \A w \in Watches : w \in Procs
  /\ Idle \in Locals /\ Idle.batch = {} /\ Idle.key = NoKey
  /\ NoRec \in Records
  /\ NoKey \notin Keys
  BY ConstantsAssumption DEF Sweep, Procs, Watches, Idle, Locals, NoRec, Records, NoKey, Keys

\* IndInv holds initially.
LEMMA InitInd == Init => IndInv
<1> SUFFICES ASSUME Init PROVE IndInv OBVIOUS
<1> USE ConstantsAssumption DEF Init
<1>1. TypeOK
  <2>1. /\ inbox \in [Keys -> {"unsent", "unread", "acked", "gone"}]
        /\ watches \in [Watches -> {"none", "explicit", "session", "expired"}]
        /\ status \in [Watches -> {"none", "watch", "backlog"}]
    OBVIOUS
  <2>2. rec \in [Keys -> Records] /\ loc \in [Procs -> Locals] BY Basics
  <2>3. room \in [Watches -> Rooms] /\ faults \in 0..MaxFaults OBVIOUS
  <2>4. /\ pc \in [Procs -> WorkerSteps \cup SweepSteps]
        /\ (\A w \in Watches : pc[w] \in WorkerSteps) /\ pc[Sweep] \in SweepSteps
    BY Basics DEF WorkerSteps, SweepSteps
  <2>5. rc \in [at : {"none", "idle", "start", "stop", "wait", "stopall"},
               desired : SUBSET Watches, stale : SUBSET Watches, cur : Watches \cup {0}]
    OBVIOUS
  <2> QED BY <2>1, <2>2, <2>3, <2>4, <2>5 DEF TypeOK
<1>2. RetriesLeft /\ AckedRecorded BY DEF RetriesLeft, AckedRecorded, NoRec
<1>3. Phase BY Basics DEF Phase
<1>4. OwnKeys /\ Handled /\ RowKnown /\ InflightExclusive /\ Unnotified
  BY Basics DEF OwnKeys, Handled, RowKnown, InflightExclusive, Unnotified, HandlerSteps, AckSteps
<1> QED BY <1>1, <1>2, <1>3, <1>4 DEF IndInv

\* Goto moves one goroutine.
LEMMA Moves ==
  ASSUME TypeOK, NEW p \in Procs, NEW step, NEW l \in Locals, Goto(p, step, l),
         step \in IF p = Sweep THEN SweepSteps ELSE WorkerSteps
  PROVE  /\ pc' \in [Procs -> WorkerSteps \cup SweepSteps]
         /\ (\A w \in Watches : pc'[w] \in WorkerSteps) /\ pc'[Sweep] \in SweepSteps
         /\ loc' \in [Procs -> Locals]
         /\ pc'[p] = step /\ loc'[p] = l
         /\ \A q \in Procs \ {p} : pc'[q] = pc[q] /\ loc'[q] = loc[q]
  BY Basics DEF TypeOK, Goto

-----------------------------------------------------------------------------
\* handleDelivery between beginInflight and its end: the goroutine keeps its key.
HandlerMove(p) ==
    /\ pc[p] \in HandlerSteps /\ pc'[p] \in HandlerSteps
    /\ loc'[p].key = loc[p].key /\ loc'[p].batch = loc[p].batch
    /\ \A q \in Procs \ {p} : pc'[q] = pc[q] /\ loc'[q] = loc[q]
    /\ UNCHANGED <<inflight, rc, workers, mode, broker, watches>>

\* The locals that handleDelivery makes.
LEMMA LocalsOk ==
  ASSUME NEW l \in Locals, NEW ok \in BOOLEAN
  PROVE  LET m == [l EXCEPT !.ok = ok, !.attempts = 0] IN
           m \in Locals /\ m.key = l.key /\ m.batch = l.batch /\ m.ok = ok
<1>1. 0 \in 0..(RetryLimit - 1) BY ConstantsAssumption
<1>2. [l EXCEPT !.ok = ok, !.attempts = 0] \in Locals BY <1>1 DEF Locals
<1> QED BY <1>2 DEF Locals

\* The locals with other attempts.
LEMMA LocalsAttempts ==
  ASSUME NEW l \in Locals, NEW a \in 0..(RetryLimit - 1)
  PROVE  LET m == [l EXCEPT !.attempts = a] IN
           m \in Locals /\ m.key = l.key /\ m.batch = l.batch /\ m.ok = l.ok
<1>1. [l EXCEPT !.attempts = a] \in Locals BY DEF Locals
<1> QED BY <1>1 DEF Locals

\* A statement succeeds or fails.
LEMMA Faults ==
  ASSUME IndInv, Fault \/ NoFault
  PROVE  faults' \in 0..MaxFaults
  BY ConstantsAssumption DEF IndInv, TypeOK, Fault, NoFault

\* What a move of handleDelivery does to the locals of its goroutine.
LEMMA HandlerGoto ==
  ASSUME IndInv, NEW p \in Procs, pc[p] \in HandlerSteps, NEW step \in HandlerSteps,
         NEW l \in Locals, l.key = loc[p].key, l.batch = loc[p].batch, Goto(p, step, l),
         UNCHANGED <<inflight, rc, workers, mode, broker, watches>>
  PROVE  /\ HandlerMove(p) /\ pc'[p] = step /\ loc'[p] = l
         /\ pc' \in [Procs -> WorkerSteps \cup SweepSteps]
         /\ (\A w \in Watches : pc'[w] \in WorkerSteps) /\ pc'[Sweep] \in SweepSteps
         /\ loc' \in [Procs -> Locals]
<1>1. step \in IF p = Sweep THEN SweepSteps ELSE WorkerSteps BY DEF SweepSteps, WorkerSteps
<1> QED BY <1>1, Moves DEF IndInv, HandlerMove

\* A record after a failure that was counted from attempts below the limit.
LEMMA FailedRecord ==
  ASSUME NEW r \in Records, NEW a \in 0..(RetryLimit - 1)
  PROVE  /\ Failed(r, a + 1) \in Records
         /\ ~Failed(r, a + 1).exhausted => Failed(r, a + 1).attempts < RetryLimit
         /\ Failed(r, a + 1).row = r.row /\ Failed(r, a + 1).notified = r.notified
<1>1. a + 1 \in 0..RetryLimit /\ (a + 1 >= RetryLimit) \in BOOLEAN BY ConstantsAssumption
<1>2. Failed(r, a + 1) \in Records BY <1>1 DEF Failed, Records
<1>3. /\ Failed(r, a + 1).attempts = a + 1
      /\ Failed(r, a + 1).exhausted = (a + 1 >= RetryLimit)
      /\ Failed(r, a + 1).row = r.row /\ Failed(r, a + 1).notified = r.notified
  BY DEF Failed, Records
<1>4. CASE a + 1 < RetryLimit BY <1>2, <1>3, <1>4
<1>5. CASE a + 1 >= RetryLimit
  <2>1. (a + 1 >= RetryLimit) = TRUE BY <1>1, <1>5
  <2>2. Failed(r, a + 1).exhausted = TRUE BY <1>3, <2>1
  <2> QED BY <1>2, <1>3, <2>2
<1>6. a + 1 < RetryLimit \/ a + 1 >= RetryLimit BY ConstantsAssumption
<1> QED BY <1>4, <1>5, <1>6

\* The records after a step: none is forgotten, each has retries left, and only the
\* ones in N are notified anew.
RecordsKept(N) ==
    /\ rec' \in [Keys -> Records] /\ RetriesLeft'
    /\ \A k \in Keys : /\ rec[k].row # "never" => rec'[k].row # "never"
                       /\ rec'[k].notified => rec[k].notified \/ k \in N

\* No record changes.
LEMMA RecordsSame ==
  ASSUME IndInv, rec' = rec
  PROVE  RecordsKept({})
  BY DEF IndInv, TypeOK, RecordsKept, RetriesLeft

\* One record changes.
LEMMA RecordChanges ==
  ASSUME IndInv, NEW k \in Keys, NEW r \in Records, rec' = [rec EXCEPT ![k] = r],
         ~r.exhausted => r.attempts < RetryLimit,
         rec[k].row # "never" => r.row # "never"
  PROVE  RecordsKept({k}) /\ rec'[k] = r /\ (~r.notified => RecordsKept({}))
  BY DEF IndInv, TypeOK, RecordsKept, RetriesLeft

-----------------------------------------------------------------------------
\* handleDelivery, step by step.  A worker that comes to notify has a record that
\* is not notified; past AddRecordIfAbsent there is a record.
Handles(p) ==
    /\ HandlerMove(p)
    /\ pc' \in [Procs -> WorkerSteps \cup SweepSteps]
    /\ (\A w \in Watches : pc'[w] \in WorkerSteps) /\ pc'[Sweep] \in SweepSteps
    /\ loc' \in [Procs -> Locals]
    /\ room' \in [Watches -> Rooms] /\ faults' \in 0..MaxFaults
    /\ RecordsKept({loc[p].key}) /\ (pc[p] # "mark" => RecordsKept({}))
    /\ pc'[p] = "notify" => ~rec'[loc[p].key].notified
    /\ pc'[p] # "add" /\ (pc'[p] = "done" => loc'[p].ok) => rec'[loc[p].key].row # "never"

\* Add, Get and RefreshOwn are the worker's, and so is its status.
LEMMA Handling ==
  ASSUME IndInv, NEW p \in Procs,
         Handle(p) \/ (p \in Watches /\ (Add(p) \/ Get(p) \/ RefreshOwn(p)))
  PROVE  Handles(p)
<1> DEFINE k == loc[p].key
<1>0. pc[p] \in HandlerSteps
  BY DEF Handle, Add, Get, RefreshOwn, Notify, Mark, RecordFailure, HandlerSteps
<1>1. loc[p] \in Locals /\ k \in Keys /\ rec[k] \in Records
  BY <1>0 DEF IndInv, TypeOK, Handled
<1>2. UNCHANGED <<inflight, rc, workers, mode, broker, watches>>
  BY DEF Handle, Add, Get, RefreshOwn, Notify, Mark, RecordFailure, manager, store
<1>3. pc[p] \notin {"add", "done"} => rec[k].row # "never"
  BY <1>0, Basics DEF IndInv, RowKnown, HandlerSteps, Procs
<1>4. \A S \in SUBSET Keys : RecordsKept({}) => RecordsKept(S) BY DEF RecordsKept
<1> USE ConstantsAssumption DEF HandlerSteps
<1>5. ASSUME NEW ok \in BOOLEAN, Finish(p, ok) PROVE pc'[p] = "done" /\ loc'[p].ok = ok
             /\ HandlerMove(p) /\ pc' \in [Procs -> WorkerSteps \cup SweepSteps]
             /\ (\A w \in Watches : pc'[w] \in WorkerSteps) /\ pc'[Sweep] \in SweepSteps
             /\ loc' \in [Procs -> Locals]
  <2> DEFINE l == [loc[p] EXCEPT !.ok = ok, !.attempts = 0]
  <2>2. l \in Locals /\ l.key = k /\ l.batch = loc[p].batch /\ l.ok = ok
    BY <1>1, LocalsOk
  <2>3. Goto(p, "done", l) BY <1>5 DEF Finish
  <2> HIDE DEF l
  <2> QED BY <1>0, <1>2, <2>2, <2>3, HandlerGoto
<1>6. ASSUME Finished(p)
      PROVE  /\ pc'[p] \in {"done", "refresh"} /\ loc'[p].ok = loc[p].ok
             /\ HandlerMove(p) /\ pc' \in [Procs -> WorkerSteps \cup SweepSteps]
             /\ (\A w \in Watches : pc'[w] \in WorkerSteps) /\ pc'[Sweep] \in SweepSteps
             /\ loc' \in [Procs -> Locals]
  <2> DEFINE l == [loc[p] EXCEPT !.attempts = 0]
  <2>1. 0 \in 0..(RetryLimit - 1) OBVIOUS
  <2>2. l \in Locals /\ l.key = k /\ l.batch = loc[p].batch /\ l.ok = loc[p].ok
    BY <1>1, <2>1, LocalsAttempts
  <2>3. PICK step \in {"done", "refresh"} : Goto(p, step, l) BY <1>6 DEF Finished
  <2> HIDE DEF l
  <2> QED BY <1>0, <1>2, <2>2, <2>3, HandlerGoto
<1>7. ASSUME NEW a \in 0..(RetryLimit - 1), Goto(p, "notify", [loc[p] EXCEPT !.attempts = a])
      PROVE  /\ pc'[p] = "notify"
             /\ HandlerMove(p) /\ pc' \in [Procs -> WorkerSteps \cup SweepSteps]
             /\ (\A w \in Watches : pc'[w] \in WorkerSteps) /\ pc'[Sweep] \in SweepSteps
             /\ loc' \in [Procs -> Locals]
  <2> DEFINE l == [loc[p] EXCEPT !.attempts = a]
  <2>2. l \in Locals /\ l.key = k /\ l.batch = loc[p].batch BY <1>1, LocalsAttempts
  <2> HIDE DEF l
  <2> QED BY <1>0, <1>2, <1>7, <2>2, HandlerGoto DEF l
<1>8. ASSUME NEW step \in HandlerSteps, Goto(p, step, loc[p])
      PROVE  /\ pc'[p] = step
             /\ HandlerMove(p) /\ pc' \in [Procs -> WorkerSteps \cup SweepSteps]
             /\ (\A w \in Watches : pc'[w] \in WorkerSteps) /\ pc'[Sweep] \in SweepSteps
             /\ loc' \in [Procs -> Locals]
  BY <1>0, <1>1, <1>2, <1>8, HandlerGoto
<1> USE DEF Handles
<1>9. CASE p \in Watches /\ Add(p)
  <2>0. Fault \/ NoFault BY <1>9 DEF Add
  <2>1. faults' \in 0..MaxFaults /\ room' = room BY <1>9, <2>0, Faults DEF Add
  <2>2. CASE Finish(p, FALSE) /\ UNCHANGED rec
    BY <1>1, <1>4, <1>5, <2>1, <2>2, RecordsSame DEF IndInv, TypeOK
  <2>3. CASE ~Kept(k) /\ rec' = [rec EXCEPT ![k] = [NoRec EXCEPT !.row = "kept"]]
             /\ Goto(p, "notify", loc[p])
    <3> DEFINE r == [NoRec EXCEPT !.row = "kept"]
    <3>0. r \in Records BY Basics DEF Records
    <3>1. r \in Records /\ ~r.notified /\ r.row = "kept" /\ r.attempts < RetryLimit
      BY <3>0 DEF NoRec
    <3> HIDE DEF r
    <3>2. RecordsKept({}) /\ rec'[k] = r BY <1>1, <2>3, <3>1, RecordChanges DEF r
    <3> QED BY <1>1, <1>4, <1>8, <2>1, <2>3, <3>1, <3>2 DEF IndInv, TypeOK
  <2>4. CASE Kept(k) /\ Goto(p, "get", loc[p]) /\ UNCHANGED rec
    BY <1>1, <1>4, <1>8, <2>1, <2>4, RecordsSame DEF IndInv, TypeOK, Kept
  <2> QED BY <1>9, <2>2, <2>3, <2>4 DEF Add
<1>10. CASE p \in Watches /\ Get(p)
  <2>0. Fault \/ NoFault BY <1>10 DEF Get
  <2>1. faults' \in 0..MaxFaults /\ room' = room /\ rec' = rec /\ pc[p] = "get"
    BY <1>10, <2>0, Faults DEF Get
  <2>2. RecordsKept({}) BY <2>1, RecordsSame
  <2>3. ASSUME NEW ok \in BOOLEAN, Finish(p, ok) PROVE Handles(p)
    BY <1>1, <1>3, <1>4, <1>5, <2>1, <2>2, <2>3 DEF IndInv, TypeOK
  <2>4. CASE ~rec[k].notified /\ ~rec[k].exhausted
             /\ Goto(p, "notify", [loc[p] EXCEPT !.attempts = rec[k].attempts])
    <3>1. rec[k].attempts \in 0..(RetryLimit - 1)
      BY <1>1, <2>4 DEF IndInv, RetriesLeft, Records
    <3> QED BY <1>1, <1>3, <1>4, <1>7, <2>1, <2>2, <2>4, <3>1 DEF IndInv, TypeOK
  <2> HIDE DEF Handles
  <2> QED BY <1>10, <2>3, <2>4 DEF Get
<1>11. CASE p \in Watches /\ RefreshOwn(p)
  <2>1. UNCHANGED <<faults, room, rec>> /\ Goto(p, "done", loc[p]) /\ pc[p] = "refresh"
    BY <1>11 DEF RefreshOwn, store
  <2>2. RecordsKept({}) BY <2>1, RecordsSame
  <2> QED BY <1>1, <1>3, <1>4, <1>8, <2>1, <2>2 DEF IndInv, TypeOK
<1>12. CASE Notify(p)
  <2>1. UNCHANGED <<faults, rec>> /\ pc[p] = "notify" BY <1>12 DEF Notify, store
  <2>2. RecordsKept({}) BY <2>1, RecordsSame
  <2>3. room' \in [Watches -> Rooms] BY <1>12 DEF Notify, IndInv, TypeOK
  <2>4. ASSUME NEW step \in {"mark", "fail"}, Goto(p, step, loc[p]) PROVE Handles(p)
    BY <1>1, <1>3, <1>4, <1>8, <2>1, <2>2, <2>3, <2>4 DEF IndInv, TypeOK
  <2>5. CASE Finished(p)
    BY <1>1, <1>3, <1>4, <1>6, <2>1, <2>2, <2>3, <2>5 DEF IndInv, TypeOK
  <2> QED BY <1>12, <2>4, <2>5 DEF Notify
<1>13. CASE Mark(p)
  <2>0. Fault \/ NoFault BY <1>13 DEF Mark
  <2>1. faults' \in 0..MaxFaults /\ room' = room /\ pc[p] = "mark"
    BY <1>13, <2>0, Faults DEF Mark
  <2>2. CASE Kept(k) /\ Finished(p)
             /\ rec' = [rec EXCEPT ![k].notified = TRUE, ![k].attempts = 0,
                                  ![k].next = "now", ![k].exhausted = FALSE]
    <3> DEFINE r == [rec[k] EXCEPT !.notified = TRUE, !.attempts = 0, !.next = "now",
                                   !.exhausted = FALSE]
    <3>1. rec' = [rec EXCEPT ![k] = r] BY <1>1, <2>2 DEF IndInv, TypeOK
    <3>0. 0 \in 0..RetryLimit OBVIOUS
    <3>a. r \in Records BY <1>1, <3>0 DEF Records
    <3>b. r.row = rec[k].row /\ r.attempts = 0 BY <1>1 DEF Records
    <3> HIDE DEF r
    <3>2. r \in Records /\ r.row = "kept" /\ r.attempts < RetryLimit
      BY <2>2, <3>a, <3>b DEF Kept
    <3>3. RecordsKept({k}) /\ rec'[k] = r BY <1>1, <3>1, <3>2, RecordChanges
    <3> QED BY <1>1, <1>6, <2>1, <2>2, <3>2, <3>3 DEF IndInv, TypeOK
  <2>3. CASE Goto(p, "fail", loc[p]) /\ UNCHANGED rec
    <3>1. RecordsKept({}) BY <2>3, RecordsSame
    <3> QED BY <1>1, <1>3, <1>4, <1>8, <2>1, <2>3, <3>1 DEF IndInv, TypeOK
  <2> QED BY <1>13, <2>2, <2>3 DEF Mark
<1>14. CASE RecordFailure(p)
  <2>0. Fault \/ NoFault BY <1>14 DEF RecordFailure
  <2>1. faults' \in 0..MaxFaults /\ room' = room /\ pc[p] = "fail"
    BY <1>14, <2>0, Faults DEF RecordFailure
  <2>2. CASE Kept(k) /\ Finished(p) /\ rec' = [rec EXCEPT ![k] = Failed(@, loc[p].attempts + 1)]
    <3> DEFINE r == Failed(rec[k], loc[p].attempts + 1)
    <3>1. /\ r \in Records /\ r.row = "kept" /\ r.notified = rec[k].notified
          /\ ~r.exhausted => r.attempts < RetryLimit
      BY <1>1, <2>2, FailedRecord DEF Locals, Kept
    <3>2. rec' = [rec EXCEPT ![k] = r] BY <2>2
    <3> HIDE DEF r
    <3>3. RecordsKept({k}) /\ rec'[k] = r BY <1>1, <3>1, <3>2, RecordChanges
    <3>4. RecordsKept({}) BY <1>1, <3>1, <3>3 DEF RecordsKept
    <3> QED BY <1>1, <1>6, <2>1, <2>2, <3>1, <3>3, <3>4 DEF IndInv, TypeOK
  <2>3. CASE Finish(p, FALSE) /\ UNCHANGED rec
    <3>1. RecordsKept({}) BY <2>3, RecordsSame
    <3> QED BY <1>1, <1>4, <1>5, <2>1, <2>3, <3>1 DEF IndInv, TypeOK
  <2> QED BY <1>14, <2>2, <2>3 DEF RecordFailure
<1> HIDE DEF Handles
<1> QED BY <1>9, <1>10, <1>11, <1>12, <1>13, <1>14 DEF Handle

-----------------------------------------------------------------------------
\* The parts of TypeOK.
DataOK ==
    /\ inbox \in [Keys -> {"unsent", "unread", "acked", "gone"}]
    /\ sending \subseteq Keys /\ pushed \subseteq Keys
    /\ conn \subseteq Watches /\ workers \subseteq Watches
    /\ watches \in [Watches -> {"none", "explicit", "session", "expired"}]
    /\ room \in [Watches -> Rooms]
    /\ faults \in 0..MaxFaults
    /\ mode \in {"down", "up", "stopping"}
    /\ status \in [Watches -> {"none", "watch", "backlog"}]

StepsOK ==
    /\ pc \in [Procs -> WorkerSteps \cup SweepSteps]
    /\ (\A w \in Watches : pc[w] \in WorkerSteps) /\ pc[Sweep] \in SweepSteps
    /\ loc \in [Procs -> Locals]

ReconcileOK ==
    rc \in [at : {"none", "idle", "start", "stop", "wait", "stopall"},
            desired : SUBSET Watches, stale : SUBSET Watches, cur : Watches \cup {0}]

\* TypeOK by its parts.
LEMMA TypeParts ==
  /\ TypeOK => DataOK /\ StepsOK /\ ReconcileOK /\ rec \in [Keys -> Records]
               /\ inflight \subseteq Keys
  /\ DataOK /\ StepsOK /\ ReconcileOK /\ rec \in [Keys -> Records] /\ inflight \subseteq Keys
     => TypeOK
  BY DEF TypeOK, DataOK, StepsOK, ReconcileOK

\* TypeOK after a step, by its parts.
LEMMA TypePartsNext ==
  DataOK' /\ StepsOK' /\ ReconcileOK' /\ rec' \in [Keys -> Records] /\ inflight' \subseteq Keys
     => TypeOK'
  BY DEF TypeOK, DataOK, StepsOK, ReconcileOK

\* Two goroutines never have one key: two workers have different watches.
LEMMA KeysApart ==
  ASSUME IndInv, NEW p \in Procs, NEW q \in Procs, p # q,
         pc[p] \in HandlerSteps, pc[q] \in HandlerSteps
  PROVE  loc[p].key # loc[q].key
<1>1. CASE p \in Watches /\ q \in Watches BY <1>1 DEF IndInv, OwnKeys, Of
<1>2. CASE p = Sweep \/ q = Sweep BY <1>2 DEF IndInv, InflightExclusive, Procs
<1> QED BY <1>1, <1>2 DEF Procs

\* A step of handleDelivery keeps the invariant.
LEMMA HandlesInd ==
  ASSUME IndInv, NEW p \in Procs, Handles(p), DataOK'
  PROVE  IndInv'
<1> USE DEF Handles, HandlerMove
<1>0. loc[p].key \in Keys BY DEF IndInv, Handled
<1>1. TypeOK'
  BY TypeParts, TypePartsNext DEF IndInv, StepsOK, RecordsKept, ReconcileOK
<1>2. RetriesLeft' BY DEF RecordsKept
<1>3. \A q \in Procs : /\ loc'[q].key = loc[q].key /\ loc'[q].batch = loc[q].batch
                       /\ pc'[q] \in HandlerSteps <=> pc[q] \in HandlerSteps
                       /\ q # p => pc'[q] = pc[q] /\ loc'[q] = loc[q]
  OBVIOUS
<1>4. pc[p] # "none" /\ pc'[p] # "none" /\ pc'[p] \notin AckSteps BY DEF HandlerSteps, AckSteps
<1>5. Phase' BY <1>3, <1>4, Basics DEF IndInv, Phase
<1>6. OwnKeys' BY <1>3, <1>4, Basics DEF IndInv, OwnKeys
<1>7. Handled' /\ InflightExclusive'
  BY <1>3, Basics DEF IndInv, Handled, InflightExclusive
<1>8. RowKnown'
  <2>1. \A w \in Watches : w # p /\ (\/ pc[w] \in {"get", "notify", "mark", "fail", "refresh", "ack", "hung"}
                                     \/ pc[w] = "done" /\ loc[w].ok)
                           => loc[w].key \in Keys /\ rec'[loc[w].key].row # "never"
    BY DEF IndInv, RowKnown, RecordsKept, OwnKeys, Of, HandlerSteps, AckSteps
  <2>2. p \in Watches /\ (\/ pc'[p] \in {"get", "notify", "mark", "fail", "refresh", "ack", "hung"}
                          \/ pc'[p] = "done" /\ loc'[p].ok)
        => rec'[loc'[p].key].row # "never"
    OBVIOUS
  <2>3. pc'[Sweep] \in HandlerSteps => rec'[loc'[Sweep].key].row # "never"
    BY <1>3, Basics DEF IndInv, RowKnown, RecordsKept, Handled
  <2>4. \A b \in loc'[Sweep].batch : rec'[b.key].row # "never"
    <3>1. loc[Sweep].batch \subseteq Items BY Basics DEF IndInv, TypeOK, Locals
    <3>2. \A b \in loc[Sweep].batch : b.key \in Keys BY <3>1 DEF Items
    <3> QED BY <1>3, <3>2, Basics DEF IndInv, RowKnown, RecordsKept
  <2> QED BY <1>3, <2>1, <2>2, <2>3, <2>4, Basics DEF RowKnown
<1>9. AckedRecorded' BY DEF IndInv, AckedRecorded, RecordsKept, broker
<1>10. Unnotified'
  <2>1. ASSUME NEW w \in Watches, pc'[w] = "notify" PROVE ~rec'[loc'[w].key].notified
    <3>1. CASE w = p BY <2>1, <3>1
    <3>2. CASE w # p
      <4>1. pc[w] = "notify" /\ loc'[w].key = loc[w].key BY <2>1, <3>2, Basics
      <4>2. loc[w].key \in Keys /\ ~rec[loc[w].key].notified
        BY <4>1 DEF IndInv, Unnotified, OwnKeys, Of, HandlerSteps
      <4>3. loc[w].key # loc[p].key BY <3>2, <4>1, KeysApart, Basics DEF HandlerSteps
      <4> QED BY <4>1, <4>2, <4>3 DEF RecordsKept
    <3> QED BY <3>1, <3>2
  <2> QED BY <2>1 DEF Unnotified
<1> QED BY <1>1, <1>2, <1>5, <1>6, <1>7, <1>8, <1>9, <1>10 DEF IndInv

-----------------------------------------------------------------------------
\* A step of a goroutine outside handleDelivery, into it or out of it.
Local(p) ==
    /\ pc[p] # "none"
    /\ \A q \in Procs \ {p} : pc'[q] = pc[q] /\ loc'[q] = loc[q]
    /\ UNCHANGED <<rc, workers, mode, rec>>
    /\ p \in Watches =>
         /\ pc'[p] \in HandlerSteps \cup AckSteps => loc'[p].key \in Of(p)
         /\ \A b \in loc'[p].batch : b.key \in Of(p)
         /\ pc'[p] \in AckSteps => rec[loc'[p].key].row # "never"
    /\ p = Sweep => \A b \in loc'[p].batch : rec[b.key].row # "never"
    /\ \/ pc[p] \notin HandlerSteps /\ pc'[p] \notin HandlerSteps /\ inflight' = inflight
       \/ /\ pc[p] \notin HandlerSteps
          /\ pc'[p] = IF p = Sweep THEN "notify" ELSE "add"
          /\ loc'[p].key \in Keys \ inflight
          /\ inflight' = inflight \cup {loc'[p].key}
          /\ p = Sweep => rec[loc'[p].key].row # "never"
       \/ /\ pc[p] = "done" /\ pc'[p] \notin HandlerSteps
          /\ inflight' = inflight \ {loc[p].key}

\* Such a step keeps IndInv.
LEMMA LocalInd ==
  ASSUME IndInv, NEW p \in Procs, Local(p), DataOK', StepsOK', AckedRecorded'
  PROVE  IndInv'
<1> USE DEF Local
<1>0. inflight' \subseteq Keys BY DEF IndInv, TypeOK
<1>1. TypeOK' BY <1>0, TypeParts, TypePartsNext DEF IndInv, ReconcileOK
<1>2. RetriesLeft' BY DEF IndInv, RetriesLeft
<1>3. Phase' BY Basics DEF IndInv, Phase, Procs
<1>4. OwnKeys' BY Basics DEF IndInv, OwnKeys
<1>5. RowKnown'
  BY Basics DEF IndInv, RowKnown, HandlerSteps, AckSteps, Procs
<1>6. Unnotified'
  BY Basics DEF IndInv, Unnotified, HandlerSteps, Procs
<1>7. Handled' /\ InflightExclusive'
  <2>1. CASE pc[p] \notin HandlerSteps /\ pc'[p] \notin HandlerSteps /\ inflight' = inflight
    BY <2>1, Basics DEF IndInv, Handled, InflightExclusive
  <2>2. CASE /\ pc[p] \notin HandlerSteps /\ pc'[p] \in HandlerSteps
             /\ loc'[p].key \in Keys \ inflight
             /\ inflight' = inflight \cup {loc'[p].key}
    <3>1. \A q \in Procs \ {p} : pc[q] \in HandlerSteps => loc[q].key # loc'[p].key
      <4> SUFFICES ASSUME NEW q \in Procs \ {p}, pc[q] \in HandlerSteps, loc[q].key = loc'[p].key
                   PROVE FALSE
        OBVIOUS
      <4>1. rc.at = "none" BY <2>2 DEF IndInv, Handled
      <4>2. p \in Watches \/ q \in Watches BY DEF Procs
      <4> QED BY <4>1, <4>2 DEF IndInv, Phase, HandlerSteps
    <3>2. Handled' BY <2>2 DEF IndInv, Handled
    <3>3. InflightExclusive' BY <2>2, <3>1, Basics DEF IndInv, InflightExclusive
    <3> QED BY <3>2, <3>3
  <2>3. CASE pc[p] = "done" /\ pc'[p] \notin HandlerSteps /\ inflight' = inflight \ {loc[p].key}
    <3>1. pc[p] \in HandlerSteps BY <2>3 DEF HandlerSteps
    <3>2. \A q \in Procs \ {p} : pc[q] \in HandlerSteps => loc[q].key # loc[p].key
      BY <3>1, KeysApart
    <3>3. Handled' BY <2>3, <3>2 DEF IndInv, Handled
    <3>4. InflightExclusive' BY <2>3, Basics DEF IndInv, InflightExclusive
    <3> QED BY <3>3, <3>4
  <2> QED BY <2>1, <2>2, <2>3 DEF HandlerSteps
<1> QED BY <1>1, <1>2, <1>3, <1>4, <1>5, <1>6, <1>7 DEF IndInv

\* A step that moves no goroutine of the manager.
LEMMA QuietInd ==
  ASSUME IndInv, UNCHANGED <<pc, loc, rc, inflight, workers, mode>>, RecordsKept({}),
         DataOK', AckedRecorded'
  PROVE  IndInv'
<1>1. TypeOK'
  BY TypeParts, TypePartsNext DEF IndInv, ReconcileOK, StepsOK, RecordsKept
<1>2. RetriesLeft' BY DEF RecordsKept
<1>3. Phase' /\ OwnKeys' /\ Handled' /\ InflightExclusive'
  BY DEF IndInv, Phase, OwnKeys, Handled, InflightExclusive
<1>4. \A w \in Watches : pc[w] \in HandlerSteps \cup AckSteps => loc[w].key \in Keys
  BY DEF IndInv, OwnKeys, Of
<1>5. \A b \in loc[Sweep].batch : b.key \in Keys
  <2>1. loc[Sweep].batch \subseteq Items BY Basics DEF IndInv, TypeOK, Locals
  <2> QED BY <2>1 DEF Items
<1>6. RowKnown'
  BY <1>4, <1>5, Basics DEF IndInv, RowKnown, RecordsKept, HandlerSteps, AckSteps, Handled
<1>7. Unnotified' BY <1>4 DEF IndInv, Unnotified, RecordsKept, HandlerSteps
<1> QED BY <1>1, <1>2, <1>3, <1>6, <1>7 DEF IndInv

-----------------------------------------------------------------------------
\* The worker's loop.

\* Locals that the loop makes.
LEMMA LoopLocals ==
  ASSUME NEW n \in Nat
  PROVE  /\ [Idle EXCEPT !.tries = n] \in Locals /\ [Idle EXCEPT !.tries = n].batch = {}
         /\ [Idle EXCEPT !.live = TRUE] \in Locals /\ [Idle EXCEPT !.live = TRUE].batch = {}
  BY Basics DEF Locals, Idle

\* The worker goes on in its loop, with no more than its own messages.
Loops(w) ==
    /\ StepsOK'
    /\ \A q \in Procs \ {w} : pc'[q] = pc[q] /\ loc'[q] = loc[q]
    /\ pc'[w] \notin HandlerSteps \cup AckSteps
    /\ \A b \in loc'[w].batch : b.key \in Of(w)

\* A move inside the loop.
LEMMA GotoLoops ==
  ASSUME IndInv, NEW w \in Watches, NEW l \in Locals,
         NEW step \in {"none", "top", "replay", "next", "listen", "stream"}, Goto(w, step, l),
         \A b \in l.batch : b.key \in Of(w)
  PROVE  Loops(w)
<1>1. step \in WorkerSteps /\ step \notin HandlerSteps \cup AckSteps
  BY DEF WorkerSteps, HandlerSteps, AckSteps
<1> QED BY <1>1, Moves, Basics DEF Loops, StepsOK, IndInv

\* An attempt to catch up fails.
LEMMA FailedLoops ==
  ASSUME IndInv, NEW w \in Watches, CatchUpFailed(w)
  PROVE  Loops(w)
<1>1. loc[w].tries + 1 \in Nat BY Basics DEF IndInv, TypeOK, Locals
<1>2. CASE Goto(w, "replay", [Idle EXCEPT !.tries = loc[w].tries + 1])
  <2> DEFINE l == [Idle EXCEPT !.tries = loc[w].tries + 1]
  <2>1. l \in Locals /\ l.batch = {} BY <1>1, LoopLocals
  <2> HIDE DEF l
  <2> QED BY <1>2, <2>1, GotoLoops DEF l
<1>3. CASE Goto(w, "listen", Idle) BY <1>3, GotoLoops, Basics
<1> QED BY <1>2, <1>3 DEF CatchUpFailed

\* The next message of the replay, or on to listen.
LEMMA OnLoops ==
  ASSUME IndInv, NEW w \in Watches, NEW l \in Locals, CatchUpOn(w, l),
         \A b \in l.batch : b.key \in Of(w)
  PROVE  Loops(w)
<1>1. CASE Goto(w, "listen", Idle) BY <1>1, GotoLoops, Basics
<1>2. CASE Goto(w, "next", [l EXCEPT !.key = NoKey])
  <2> DEFINE m == [l EXCEPT !.key = NoKey]
  <2>1. m \in Locals /\ m.batch = l.batch BY DEF Locals
  <2> HIDE DEF m
  <2> QED BY <1>2, <2>1, GotoLoops DEF m
<1> QED BY <1>1, <1>2 DEF CatchUpOn

\* The messages of a replay.
LEMMA Replayed ==
  ASSUME IndInv, NEW w \in Watches, NEW S \in SUBSET Of(w)
  PROVE  LET l == [loc[w] EXCEPT !.batch = {[key |-> k, attempts |-> 0] : k \in S}] IN
           l \in Locals /\ \A b \in l.batch : b.key \in Of(w)
<1> DEFINE B == {[key |-> k, attempts |-> 0] : k \in S}
<1>1. B \subseteq Items BY ConstantsAssumption DEF Items, Of
<1>2. \A b \in B : b.key \in Of(w) OBVIOUS
<1>3. loc[w] \in Locals BY Basics DEF IndInv, TypeOK
<1> HIDE DEF B
<1>4. [loc[w] EXCEPT !.batch = B] \in Locals BY <1>1, <1>3 DEF Locals
<1>5. [loc[w] EXCEPT !.batch = B].batch = B BY <1>3 DEF Locals
<1> QED BY <1>2, <1>4, <1>5 DEF B

\* Nothing handled changes and the worker goes on: the invariant is kept.
LEMMA LoopInd ==
  ASSUME IndInv, NEW w \in Watches, pc[w] \notin HandlerSteps, pc[w] # "none", Loops(w),
         UNCHANGED <<rc, workers, mode, rec, inflight>>, DataOK', AckedRecorded'
  PROVE  IndInv'
  BY LocalInd, Basics DEF Local, Loops

\* The actions of the loop.
LEMMA LoopActions ==
  ASSUME IndInv, NEW w \in Watches,
         Top(w) \/ Replay(w) \/ Listen(w) \/ StreamEnd(w)
  PROVE  IndInv'
<1>1. /\ pc[w] \in {"top", "replay", "listen", "stream"}
      /\ UNCHANGED <<rc, workers, mode, rec, inflight, watches, room, faults, status>>
  BY DEF Top, Replay, Listen, StreamEnd, quiet, store, manager, Ended
<1>2. pc[w] \notin HandlerSteps /\ pc[w] # "none" BY <1>1 DEF HandlerSteps
<1>3. Loops(w)
  <2>2. ASSUME NEW from, Ended(w, from) PROVE Loops(w)
    BY <2>2, GotoLoops, Basics DEF Ended
  <2>3. ASSUME Goto(w, "top", Idle) PROVE Loops(w) BY <2>3, GotoLoops, Basics
  <2>5. CASE Top(w)
    <3>1. CASE Goto(w, "replay", [Idle EXCEPT !.tries = 1])
      <4> DEFINE l == [Idle EXCEPT !.tries = 1]
      <4>1. l \in Locals /\ l.batch = {} BY LoopLocals
      <4> HIDE DEF l
      <4> QED BY <3>1, <4>1, GotoLoops DEF l
    <3> QED BY <2>2, <2>5, <3>1 DEF Top
  <2>6. CASE Replay(w)
    <3> DEFINE S == {j \in Of(w) : inbox[j] = "unread"}
               l == [loc[w] EXCEPT !.batch = {[key |-> k, attempts |-> 0] : k \in S}]
    <3>1. l \in Locals /\ \A b \in l.batch : b.key \in Of(w) BY Replayed
    <3>2. CASE CatchUpOn(w, l)
      <4> HIDE DEF l
      <4> QED BY <3>1, <3>2, OnLoops
    <3> QED BY <2>2, <2>6, <3>2, FailedLoops DEF Replay
  <2>8. CASE Listen(w)
    <3>1. CASE Goto(w, "stream", [Idle EXCEPT !.live = TRUE])
      <4> DEFINE l == [Idle EXCEPT !.live = TRUE]
      <4>1. l \in Locals /\ l.batch = {} BY LoopLocals
      <4> HIDE DEF l
      <4> QED BY <3>1, <4>1, GotoLoops DEF l
    <3> QED BY <2>3, <2>8, <3>1 DEF Listen
  <2>9. CASE StreamEnd(w) BY <2>2, <2>3, <2>9 DEF StreamEnd
  <2> QED BY <2>5, <2>6, <2>8, <2>9
<1>4. CASE UNCHANGED <<inbox, sending, conn, pushed>>
  <2>1. DataOK' /\ AckedRecorded'
    BY <1>1, <1>4, TypeParts DEF DataOK, AckedRecorded, IndInv
  <2> QED BY <1>1, <1>2, <1>3, <2>1, LoopInd
<1>6. CASE Listen(w) \/ StreamEnd(w)
  <2>1. /\ inbox' = inbox /\ sending' = sending
        /\ conn' \subseteq conn \cup {w} /\ pushed' \subseteq pushed
    BY <1>6 DEF Listen, StreamEnd, Hangup
  <2>2. DataOK' /\ AckedRecorded'
    BY <1>1, <2>1, TypeParts DEF DataOK, AckedRecorded, IndInv
  <2> QED BY <1>1, <1>2, <1>3, <2>2, LoopInd
<1> QED BY <1>4, <1>6 DEF Top, Replay, broker

\* What the ack of a worker, or its late answer, does at the broker and to the worker.
LEMMA AckStep ==
  ASSUME IndInv, NEW w \in Watches, AckReplayed(w) \/ AnswerAck(w)
  PROVE  /\ pc[w] \in AckSteps
         /\ UNCHANGED <<rc, workers, mode, rec, inflight, watches, room, faults, status>>
         /\ UNCHANGED <<sending, conn, pushed>>
         /\ Acked(loc[w].key) \/ inbox' = inbox
         /\ \/ CatchUpOn(w, loc[w]) \/ CatchUpFailed(w)
            \/ Goto(w, "hung", loc[w])
  BY DEF AckReplayed, AnswerAck, AckEnds, AckSteps, quiet, store, manager, broker

\* Acking keeps IndInv: the message is recorded.
LEMMA AckInd ==
  ASSUME IndInv, NEW w \in Watches, AckReplayed(w) \/ AnswerAck(w)
  PROVE  IndInv'
<1> DEFINE k == loc[w].key
<1>1. /\ pc[w] \in AckSteps
      /\ UNCHANGED <<rc, workers, mode, rec, inflight, watches, room, faults, status>>
      /\ UNCHANGED <<sending, conn, pushed>>
      /\ Acked(k) \/ inbox' = inbox
      /\ CatchUpOn(w, loc[w]) \/ CatchUpFailed(w) \/ Goto(w, "hung", loc[w])
  BY AckStep
<1>2. pc[w] \notin HandlerSteps /\ pc[w] # "none" BY <1>1 DEF HandlerSteps, AckSteps
<1>3. /\ k \in Of(w) /\ k \in Keys /\ rec[k].row # "never" /\ loc[w] \in Locals
      /\ \A b \in loc[w].batch : b.key \in Of(w)
  BY <1>1, Basics DEF IndInv, OwnKeys, RowKnown, Of, AckSteps, TypeOK
<1>4. DataOK' BY <1>1, <1>3, TypeParts DEF DataOK, IndInv, Acked
<1>5. AckedRecorded' BY <1>1, <1>3 DEF IndInv, AckedRecorded, TypeOK, Acked
<1>6. CASE CatchUpOn(w, loc[w]) \/ CatchUpFailed(w)
  <2>1. Loops(w) BY <1>3, <1>6, OnLoops, FailedLoops
  <2> QED BY <1>1, <1>2, <1>4, <1>5, <2>1, LoopInd
<1>7. CASE Goto(w, "hung", loc[w])
  <2>1. StepsOK' /\ pc'[w] = "hung" /\ loc'[w] = loc[w]
        /\ \A q \in Procs \ {w} : pc'[q] = pc[q] /\ loc'[q] = loc[q]
    BY <1>3, <1>7, Moves, Basics DEF StepsOK, IndInv, WorkerSteps
  <2>2. Local(w) BY <1>1, <1>2, <1>3, <2>1, Basics DEF Local, HandlerSteps
  <2> QED BY <1>4, <1>5, <2>1, <2>2, LocalInd, Basics
<1> QED BY <1>1, <1>6, <1>7

-----------------------------------------------------------------------------
\* Into handleDelivery and out of it.

\* A batch is part of the types; what is taken from it is its own key.
LEMMA TakenLocals ==
  ASSUME IndInv, NEW p \in Procs, NEW b \in loc[p].batch
  PROVE  /\ Taken(p, b) \in Locals /\ Taken(p, b).key = b.key /\ b.key \in Keys
         /\ Taken(p, b).batch = loc[p].batch \ {b}
         /\ [loc[p] EXCEPT !.batch = @ \ {b}] \in Locals
         /\ [loc[p] EXCEPT !.batch = @ \ {b}].batch = loc[p].batch \ {b}
<1>1. loc[p] \in Locals BY DEF IndInv, TypeOK
<1>2. loc[p].batch \subseteq Items BY <1>1 DEF Locals
<1>3. b.key \in Keys /\ b.attempts \in 0..(RetryLimit - 1) BY <1>2 DEF Items
<1>4. Taken(p, b) \in Locals BY <1>1, <1>2, <1>3 DEF Locals, Taken
<1>5. Taken(p, b).key = b.key /\ Taken(p, b).batch = loc[p].batch \ {b} BY <1>1 DEF Locals, Taken
<1>6. [loc[p] EXCEPT !.batch = @ \ {b}] \in Locals BY <1>1, <1>2 DEF Locals
<1>7. [loc[p] EXCEPT !.batch = @ \ {b}].batch = loc[p].batch \ {b} BY <1>1 DEF Locals
<1> QED BY <1>3, <1>4, <1>5, <1>6, <1>7

\* The other goroutine that has a message of a worker in flight is the sweep.
LEMMA SkippedRecorded ==
  ASSUME IndInv, NEW w \in Watches, pc[w] \notin HandlerSteps, NEW k \in Of(w), k \in inflight
  PROVE  rec[k].row # "never"
<1>1. PICK p \in Procs : pc[p] \in HandlerSteps /\ loc[p].key = k BY DEF IndInv, Handled
<1>2. p = Sweep BY <1>1 DEF IndInv, OwnKeys, Of, Procs
<1> QED BY <1>1, <1>2 DEF IndInv, RowKnown

\* What does not touch the tables keeps their types.
LEMMA DataKept ==
  ASSUME IndInv, UNCHANGED <<inbox, sending, watches, rec, room, faults, mode, workers, status>>,
         conn' \subseteq conn, pushed' \subseteq pushed
  PROVE  DataOK' /\ AckedRecorded'
  BY TypeParts DEF DataOK, AckedRecorded, IndInv

\* A replayed message is taken in flight, or skipped and acked.
LEMMA CatchUpNextInd ==
  ASSUME IndInv, NEW w \in Watches, CatchUpNext(w)
  PROVE  IndInv'
<1>1. PICK b \in loc[w].batch : Begin(w, Taken(w, b), "add", "ack", Taken(w, b))
  BY DEF CatchUpNext, First
<1>2. UNCHANGED <<broker, store, room, manager, status>> /\ pc[w] = "next" BY DEF CatchUpNext
<1>3. DataOK' /\ AckedRecorded' BY <1>2, DataKept DEF broker, store, manager
<1> DEFINE l == Taken(w, b)
<1>4. l \in Locals /\ l.key \in Of(w) /\ \A c \in l.batch : c.key \in Of(w)
  <2>1. /\ l \in Locals /\ l.key = b.key /\ l.batch = loc[w].batch \ {b} BY TakenLocals, Basics
  <2> HIDE DEF l
  <2> QED BY <2>1 DEF IndInv, OwnKeys
<1> HIDE DEF l
<1>5. pc[w] \notin HandlerSteps /\ pc[w] # "none" BY <1>2 DEF HandlerSteps
<1>6. CASE l.key \in inflight /\ Goto(w, "ack", l) /\ UNCHANGED inflight
  <2>1. rec[l.key].row # "never" BY <1>4, <1>5, <1>6, SkippedRecorded
  <2>2. StepsOK' /\ pc'[w] = "ack" /\ loc'[w] = l
        /\ \A q \in Procs \ {w} : pc'[q] = pc[q] /\ loc'[q] = loc[q]
    BY <1>4, <1>6, Moves, Basics DEF StepsOK, IndInv, WorkerSteps
  <2>3. Local(w) BY <1>2, <1>4, <1>5, <1>6, <2>1, <2>2, Basics DEF Local, manager, store, HandlerSteps
  <2> QED BY <1>3, <2>2, <2>3, LocalInd, Basics
<1>7. CASE l.key \notin inflight /\ inflight' = inflight \cup {l.key} /\ Goto(w, "add", l)
  <2>2. StepsOK' /\ pc'[w] = "add" /\ loc'[w] = l
        /\ \A q \in Procs \ {w} : pc'[q] = pc[q] /\ loc'[q] = loc[q]
    BY <1>4, <1>7, Moves, Basics DEF StepsOK, IndInv, WorkerSteps, HandlerSteps
  <2>3. l.key \in Keys BY <1>4 DEF Of
  <2>4. Local(w)
    BY <1>2, <1>4, <1>5, <1>7, <2>2, <2>3, Basics DEF Local, manager, store, AckSteps
  <2> QED BY <1>3, <2>2, <2>4, LocalInd, Basics
<1> QED BY <1>1, <1>6, <1>7 DEF Begin, l

\* A pushed message is taken in flight, or skipped.
LEMMA ReceiveInd ==
  ASSUME IndInv, NEW w \in Watches, Receive(w)
  PROVE  IndInv'
<1>1. PICK k \in pushed \cap Of(w) :
        /\ pushed' = pushed \ {k}
        /\ Begin(w, [Idle EXCEPT !.key = k, !.live = TRUE], "add", "stream", loc[w])
  BY DEF Receive
<1>2. UNCHANGED <<inbox, sending, conn, store, room, manager, status>> /\ pc[w] = "stream"
  BY DEF Receive
<1>3. DataOK' /\ AckedRecorded' BY <1>1, <1>2, DataKept DEF store, manager
<1> DEFINE l == [Idle EXCEPT !.key = k, !.live = TRUE]
<1>4. l \in Locals /\ l.key = k /\ l.batch = {} /\ k \in Keys
  BY <1>1, Basics DEF Locals, Idle, Of
<1> HIDE DEF l
<1>5. pc[w] \notin HandlerSteps /\ pc[w] # "none" BY <1>2 DEF HandlerSteps
<1>6. CASE k \in inflight /\ Goto(w, "stream", loc[w]) /\ UNCHANGED inflight
  <2>1. loc[w] \in Locals /\ \A b \in loc[w].batch : b.key \in Of(w)
    BY Basics DEF IndInv, TypeOK, OwnKeys
  <2>2. Loops(w) BY <1>6, <2>1, GotoLoops
  <2> QED BY <1>2, <1>3, <1>5, <1>6, <2>2, LoopInd DEF manager, store
<1>7. CASE k \notin inflight /\ inflight' = inflight \cup {k} /\ Goto(w, "add", l)
  <2>2. StepsOK' /\ pc'[w] = "add" /\ loc'[w] = l
        /\ \A q \in Procs \ {w} : pc'[q] = pc[q] /\ loc'[q] = loc[q]
    BY <1>4, <1>7, Moves, Basics DEF StepsOK, IndInv, WorkerSteps, HandlerSteps
  <2>4. Local(w)
    BY <1>1, <1>2, <1>4, <1>5, <1>7, <2>2, Basics DEF Local, manager, store, AckSteps
  <2> QED BY <1>3, <2>2, <2>4, LocalInd, Basics
<1> QED BY <1>1, <1>4, <1>6, <1>7 DEF Begin, l

\* handleDelivery returns.
LEMMA DoneInd ==
  ASSUME IndInv, NEW w \in Watches, Done(w)
  PROVE  IndInv'
<1>1. /\ UNCHANGED <<inbox, sending, store, room, manager, status>> /\ pc[w] = "done"
      /\ inflight' = inflight \ {loc[w].key}
  BY DEF Done
<1>2. conn' \subseteq conn /\ pushed' \subseteq pushed BY DEF Done, Hangup
<1>3. DataOK' /\ AckedRecorded' BY <1>1, <1>2, DataKept DEF store, manager
<1>4. CASE Loops(w)
  <2>1. Local(w) BY <1>1, <1>4, Basics DEF Loops, Local, manager, store
  <2> QED BY <1>3, <1>4, <2>1, LocalInd, Basics DEF Loops
<1>5. CASE Goto(w, "stream", [Idle EXCEPT !.live = TRUE])
  <2> DEFINE l == [Idle EXCEPT !.live = TRUE]
  <2>1. l \in Locals /\ l.batch = {} BY LoopLocals
  <2> HIDE DEF l
  <2>2. Loops(w) BY <1>5, <2>1, GotoLoops DEF l
  <2> QED BY <1>4, <2>2
<1>6. CASE Goto(w, "top", Idle) BY <1>4, <1>6, GotoLoops, Basics
<1>7. CASE loc[w].ok /\ Goto(w, "ack", loc[w])
  <2>1. loc[w] \in Locals BY Basics DEF IndInv, TypeOK
  <2>2. StepsOK' /\ pc'[w] = "ack" /\ loc'[w] = loc[w]
        /\ \A q \in Procs \ {w} : pc'[q] = pc[q] /\ loc'[q] = loc[q]
    BY <1>7, <2>1, Moves, Basics DEF StepsOK, IndInv, WorkerSteps
  <2>3. /\ loc[w].key \in Of(w) /\ rec[loc[w].key].row # "never"
        /\ \A b \in loc[w].batch : b.key \in Of(w)
    BY <1>1, <1>7 DEF IndInv, OwnKeys, RowKnown, HandlerSteps
  <2>4. Local(w) BY <1>1, <2>2, <2>3, Basics DEF Local, manager, store, HandlerSteps
  <2> QED BY <1>3, <2>2, <2>4, LocalInd, Basics
<1>8. CASE CatchUpFailed(w) BY <1>4, <1>8, FailedLoops
<1> QED BY <1>5, <1>6, <1>7, <1>8 DEF Done

\* Every action of a worker.
LEMMA WorkerInd ==
  ASSUME IndInv, NEW w \in Watches, Worker(w)
  PROVE  IndInv'
<1>1. CASE Add(w) \/ Get(w) \/ Handle(w) \/ RefreshOwn(w)
  <2>1. Handles(w) BY <1>1, Handling, Basics
  <2>2. status' \in [Watches -> {"none", "watch", "backlog"}]
    BY <1>1 DEF Add, Get, Handle, Notify, Mark, RecordFailure, RefreshOwn, Refresh, IndInv, TypeOK
  <2>3. DataOK'
    BY <2>1, <2>2, TypeParts DEF DataOK, IndInv, Handles, HandlerMove, broker
  <2> QED BY <2>1, <2>3, HandlesInd, Basics
<1> QED BY <1>1, LoopActions, AckInd, CatchUpNextInd, ReceiveInd, DoneInd DEF Worker

-----------------------------------------------------------------------------
\* The sweep.

\* A move of the sweep.
LEMMA SweepGoto ==
  ASSUME IndInv, NEW step \in SweepSteps, NEW l \in Locals, Goto(Sweep, step, l)
  PROVE  /\ StepsOK' /\ pc'[Sweep] = step /\ loc'[Sweep] = l
         /\ \A q \in Procs \ {Sweep} : pc'[q] = pc[q] /\ loc'[q] = loc[q]
  BY Moves, Basics DEF StepsOK, IndInv

\* PendingNotificationsBatch returns records, with retries left.
LEMMA SweepQueryInd ==
  ASSUME IndInv, SweepQuery
  PROVE  IndInv'
<1> DEFINE B == {[key |-> k, attempts |-> rec[k].attempts] : k \in Batch}
           W == {k[1] : k \in Batch}
           l == [Idle EXCEPT !.batch = B, !.ws = W]
<1>1. Goto(Sweep, "loop", l) /\ pc[Sweep] = "idle" /\ UNCHANGED <<broker, quiet>>
  BY DEF SweepQuery
<1>2. \A k \in Batch : k \in Keys /\ rec[k].row = "kept" /\ ~rec[k].exhausted
  BY DEF Batch, Due, Pending, Kept
<1>3. \A k \in Batch : rec[k].attempts \in 0..(RetryLimit - 1)
  BY <1>2, ConstantsAssumption DEF IndInv, TypeOK, RetriesLeft, Records
<1>4. B \subseteq Items BY <1>2, <1>3 DEF Items
<1>5. W \subseteq Watches BY <1>2 DEF Keys
<1>6. \A b \in B : rec[b.key].row # "never" BY <1>2
<1> HIDE DEF B, W
<1>7. l \in Locals BY <1>4, <1>5, Basics DEF Locals, Idle
<1>8. l.batch = B BY DEF Idle
<1> HIDE DEF l
<1>9. StepsOK' /\ pc'[Sweep] = "loop" /\ loc'[Sweep] = l
      /\ \A q \in Procs \ {Sweep} : pc'[q] = pc[q] /\ loc'[q] = loc[q]
  BY <1>1, <1>7, SweepGoto DEF SweepSteps
<1>10. DataOK' /\ AckedRecorded' BY <1>1, DataKept DEF broker, quiet, store, manager
<1>11. Local(Sweep)
  BY <1>1, <1>6, <1>8, <1>9, Basics DEF Local, quiet, store, manager, HandlerSteps
<1> QED BY <1>9, <1>10, <1>11, LocalInd, Basics

\* The sweep takes a record in flight, or skips it.
LEMMA SweepNextInd ==
  ASSUME IndInv, SweepNext
  PROVE  IndInv'
<1>1. PICK b \in loc[Sweep].batch :
        Begin(Sweep, Taken(Sweep, b), "notify", "loop", [loc[Sweep] EXCEPT !.batch = @ \ {b}])
  BY DEF SweepNext, First
<1>2. UNCHANGED <<broker, store, room, manager, status>> /\ pc[Sweep] = "loop" BY DEF SweepNext
<1>3. DataOK' /\ AckedRecorded' BY <1>2, DataKept DEF broker, store, manager
<1> DEFINE l == Taken(Sweep, b)
           m == [loc[Sweep] EXCEPT !.batch = @ \ {b}]
<1>4. /\ l \in Locals /\ l.key = b.key /\ b.key \in Keys /\ l.batch = loc[Sweep].batch \ {b}
      /\ m \in Locals /\ m.batch = loc[Sweep].batch \ {b}
  BY TakenLocals, Basics
<1>5. \A c \in loc[Sweep].batch : rec[c.key].row # "never" BY DEF IndInv, RowKnown
<1> HIDE DEF l, m
<1>6. CASE Goto(Sweep, "loop", m) /\ UNCHANGED inflight
  <2>1. StepsOK' /\ pc'[Sweep] = "loop" /\ loc'[Sweep] = m
        /\ \A q \in Procs \ {Sweep} : pc'[q] = pc[q] /\ loc'[q] = loc[q]
    BY <1>4, <1>6, SweepGoto DEF SweepSteps
  <2>2. Local(Sweep)
    BY <1>2, <1>4, <1>5, <1>6, <2>1, Basics DEF Local, store, manager, HandlerSteps
  <2> QED BY <1>3, <2>1, <2>2, LocalInd, Basics
<1>7. CASE l.key \notin inflight /\ inflight' = inflight \cup {l.key} /\ Goto(Sweep, "notify", l)
  <2>1. StepsOK' /\ pc'[Sweep] = "notify" /\ loc'[Sweep] = l
        /\ \A q \in Procs \ {Sweep} : pc'[q] = pc[q] /\ loc'[q] = loc[q]
    BY <1>4, <1>7, SweepGoto DEF SweepSteps, HandlerSteps
  <2>2. Local(Sweep)
    BY <1>2, <1>4, <1>5, <1>7, <2>1, Basics DEF Local, store, manager, HandlerSteps
  <2> QED BY <1>3, <2>1, <2>2, LocalInd, Basics
<1> QED BY <1>1, <1>6, <1>7 DEF Begin, l, m

\* The sweep releases its key.
LEMMA SweepReleaseInd ==
  ASSUME IndInv, SweepRelease
  PROVE  IndInv'
<1> DEFINE l == [loc[Sweep] EXCEPT !.key = NoKey, !.ok = TRUE]
<1>1. /\ pc[Sweep] = "done" /\ inflight' = inflight \ {loc[Sweep].key} /\ Goto(Sweep, "loop", l)
      /\ UNCHANGED <<broker, store, room, manager, status>>
  BY DEF SweepRelease
<1>2. DataOK' /\ AckedRecorded' BY <1>1, DataKept DEF broker, store, manager
<1>3. l \in Locals /\ l.batch = loc[Sweep].batch BY Basics DEF IndInv, TypeOK, Locals
<1> HIDE DEF l
<1>4. StepsOK' /\ pc'[Sweep] = "loop" /\ loc'[Sweep] = l
      /\ \A q \in Procs \ {Sweep} : pc'[q] = pc[q] /\ loc'[q] = loc[q]
  BY <1>1, <1>3, SweepGoto DEF SweepSteps
<1>5. Local(Sweep)
  BY <1>1, <1>3, <1>4, Basics DEF Local, store, manager, HandlerSteps, IndInv, RowKnown
<1> QED BY <1>2, <1>4, <1>5, LocalInd, Basics

\* refreshWatchDeliveryState sets the status.
LEMMA Refreshed ==
  ASSUME IndInv, NEW w, Refresh(w)
  PROVE  status' \in [Watches -> {"none", "watch", "backlog"}]
  BY DEF Refresh, IndInv, TypeOK

\* The sweep refreshes the status of its watches.
LEMMA SweepRefreshInd ==
  ASSUME IndInv, SweepRefresh
  PROVE  IndInv'
<1>1. PICK w \in loc[Sweep].ws :
        /\ Refresh(w)
        /\ IF loc[Sweep].ws = {w} THEN Goto(Sweep, "idle", Idle)
           ELSE Goto(Sweep, "loop", [loc[Sweep] EXCEPT !.ws = @ \ {w}])
  BY DEF SweepRefresh
<1>2. UNCHANGED <<broker, store, room, manager, inflight>> /\ pc[Sweep] = "loop"
  BY DEF SweepRefresh
<1>3. DataOK' /\ AckedRecorded'
  BY <1>1, <1>2, Refreshed, TypeParts DEF DataOK, AckedRecorded, IndInv, broker, store, manager
<1> DEFINE l == [loc[Sweep] EXCEPT !.ws = @ \ {w}]
<1>4. l \in Locals /\ l.batch = loc[Sweep].batch BY Basics DEF IndInv, TypeOK, Locals
<1> HIDE DEF l
<1>5. PICK step \in {"idle", "loop"}, m \in {Idle, l} : Goto(Sweep, step, m) BY <1>1 DEF l
<1>6. m \in Locals /\ \A b \in m.batch : rec[b.key].row # "never"
  BY <1>4, Basics DEF IndInv, RowKnown
<1>7. StepsOK' /\ pc'[Sweep] = step /\ loc'[Sweep] = m
      /\ \A q \in Procs \ {Sweep} : pc'[q] = pc[q] /\ loc'[q] = loc[q]
  BY <1>5, <1>6, SweepGoto DEF SweepSteps
<1>8. Local(Sweep)
  BY <1>2, <1>6, <1>7, Basics DEF Local, store, manager, HandlerSteps
<1> QED BY <1>3, <1>7, <1>8, LocalInd, Basics

\* Every action of the sweep.
LEMMA SweeperInd ==
  ASSUME IndInv, Sweeper
  PROVE  IndInv'
<1>1. CASE Handle(Sweep)
  <2>1. Handles(Sweep) BY <1>1, Handling, Basics
  <2>2. UNCHANGED status BY <1>1 DEF Handle, Notify, Mark, RecordFailure
  <2>3. DataOK'
    BY <2>1, <2>2, TypeParts DEF DataOK, IndInv, Handles, HandlerMove, broker
  <2> QED BY <2>1, <2>3, HandlesInd, Basics
<1> QED BY <1>1, SweepQueryInd, SweepNextInd, SweepReleaseInd, SweepRefreshInd DEF Sweeper

-----------------------------------------------------------------------------
\* reconcile, Start and Stop: goroutines are started, none is moved.
LEMMA ManagerInd ==
  ASSUME IndInv, UNCHANGED <<broker, store, room, loc>>, Phase', ReconcileOK',
         workers' \subseteq Watches, mode' \in {"down", "up", "stopping"},
         status' \in [Watches -> {"none", "watch", "backlog"}],
         pc' \in [Procs -> WorkerSteps \cup SweepSteps],
         \A w \in Watches : pc'[w] = pc[w] \/ (pc[w] = "none" /\ pc'[w] = "top"),
         pc'[Sweep] = pc[Sweep] \/ (pc[Sweep] = "none" /\ pc'[Sweep] = "idle"),
         \/ inflight' = inflight /\ (rc.at = "none" => rc'.at = "none" \/ pc[Sweep] = "none")
         \/ inflight' = {} /\ rc'.at = "none"
  PROVE  IndInv'
<1>1. DataOK' BY TypeParts DEF DataOK, IndInv, broker, store
<1>2. StepsOK' BY TypeParts, Basics DEF StepsOK, IndInv, WorkerSteps, SweepSteps, HandlerSteps
<1>3. inflight' \subseteq Keys /\ rec' \in [Keys -> Records] BY DEF IndInv, TypeOK, store
<1>4. TypeOK' BY <1>1, <1>2, <1>3, TypePartsNext
<1>5. RetriesLeft' /\ AckedRecorded' BY DEF IndInv, RetriesLeft, AckedRecorded, store, broker
<1>6. \A p \in Procs : /\ pc'[p] \in HandlerSteps \cup AckSteps => pc'[p] = pc[p]
                       /\ pc[p] \in HandlerSteps \cup AckSteps => pc'[p] = pc[p]
  BY DEF Procs, HandlerSteps, AckSteps
<1>7. OwnKeys' BY <1>6, Basics DEF IndInv, OwnKeys
<1>8. InflightExclusive' BY <1>6, Basics DEF IndInv, InflightExclusive
<1>9. RowKnown' /\ Unnotified'
  BY <1>6, Basics DEF IndInv, RowKnown, Unnotified, store, HandlerSteps
<1>10. Handled'
  <2>1. rc.at = "none" => rc'.at = "none" \/ \A p \in Procs : pc[p] \notin HandlerSteps
    BY DEF IndInv, Phase, Procs, HandlerSteps
  <2> QED BY <1>6, <2>1 DEF IndInv, Handled
<1> QED BY <1>4, <1>5, <1>7, <1>8, <1>9, <1>10 DEF IndInv

\* What is registered is a watch.
LEMMA RegisteredWatches == Registered \subseteq Watches
  BY DEF Registered

\* Every action of the reconcile loop.
LEMMA ReconcilerInd ==
  ASSUME IndInv, Reconciler
  PROVE  IndInv'
<1>0. /\ workers \subseteq Watches /\ mode \in {"down", "up", "stopping"} /\ ReconcileOK
      /\ status \in [Watches -> {"none", "watch", "backlog"}]
      /\ pc \in [Procs -> WorkerSteps \cup SweepSteps]
  BY DEF IndInv, TypeOK, ReconcileOK
<1>1. /\ Rest /\ loc' = loc /\ mode' = mode
  BY DEF Reconciler, ReconcileList, ReconcileStart, StopWatch, WatchStopped, StopAll, AllStopped
<1>2. CASE ReconcileList
  <2>1. Phase' BY <1>0, <1>2 DEF ReconcileList, IndInv, Phase, ReconcileOK
  <2>2. ReconcileOK' BY <1>0, <1>2, RegisteredWatches DEF ReconcileList, ReconcileOK
  <2> QED BY <1>0, <1>1, <1>2, <2>1, <2>2, ManagerInd DEF ReconcileList, Rest
<1>3. CASE ReconcileStart
  <2> DEFINE stale == workers \ rc.desired
  <2>1. rc.desired \subseteq Watches BY <1>0 DEF ReconcileOK
  <2>2. /\ rc'.at \in {"idle", "stop"} /\ ReconcileOK'
    BY <1>0, <1>3, <2>1 DEF ReconcileStart, Stopping, ReconcileOK
  <2>3. rc.at = "start" /\ workers' = workers \cup rc.desired /\ UNCHANGED <<inflight, status>>
        /\ pc' = [p \in Procs |-> IF p \in rc.desired \ workers THEN "top" ELSE pc[p]]
    BY <1>3 DEF ReconcileStart
  <2>4. /\ \A w \in Watches : pc'[w] = pc[w] \/ (pc[w] = "none" /\ pc'[w] = "top")
        /\ pc'[Sweep] = pc[Sweep]
    BY <2>1, <2>3, Basics DEF IndInv, Phase
  <2>5. pc' \in [Procs -> WorkerSteps \cup SweepSteps] BY <1>0, <2>3 DEF WorkerSteps
  <2>6. Phase' BY <1>1, <2>1, <2>2, <2>3, <2>4, Basics DEF IndInv, Phase
  <2> QED BY <1>0, <1>1, <2>1, <2>2, <2>3, <2>4, <2>5, <2>6, ManagerInd DEF Rest
<1>4. CASE StopWatch
  <2>1. PICK w \in rc.stale : /\ workers' = workers \ {w}
                              /\ rc' = [rc EXCEPT !.at = "wait", !.stale = @ \ {w}, !.cur = w]
    BY <1>4 DEF StopWatch
  <2>2. w \in Watches /\ ReconcileOK' /\ rc'.at = "wait" /\ rc'.cur = w
    BY <1>0, <2>1 DEF ReconcileOK
  <2>3. rc.at = "stop" /\ UNCHANGED <<inflight, status, pc>> BY <1>4 DEF StopWatch
  <2>4. Phase' BY <1>1, <2>1, <2>2, <2>3 DEF IndInv, Phase
  <2> QED BY <1>0, <1>1, <2>1, <2>2, <2>3, <2>4, ManagerInd DEF Rest
<1>5. CASE WatchStopped
  <2>1. rc.at = "wait" /\ pc[rc.cur] = "none" /\ UNCHANGED <<inflight, workers, pc>>
    BY <1>5 DEF WatchStopped
  <2>2. rc'.at \in {"idle", "stop"} /\ ReconcileOK'
    BY <1>0, <1>5 DEF WatchStopped, Stopping, ReconcileOK
  <2>3. Phase' BY <1>1, <2>1, <2>2 DEF IndInv, Phase
  <2>4. status' \in [Watches -> {"none", "watch", "backlog"}] BY <1>5, Refreshed DEF WatchStopped
  <2> QED BY <1>0, <1>1, <2>1, <2>2, <2>3, <2>4, ManagerInd DEF Rest
<1>6. CASE StopAll
  <2>1. rc.at = "idle" /\ mode = "stopping" /\ workers' = {} /\ UNCHANGED <<inflight, status, pc>>
        /\ rc' = [rc EXCEPT !.at = "stopall"]
    BY <1>6 DEF StopAll
  <2>2. rc'.at = "stopall" /\ ReconcileOK' BY <1>0, <2>1 DEF ReconcileOK
  <2>3. Phase' BY <1>1, <2>1, <2>2 DEF IndInv, Phase
  <2> QED BY <1>0, <1>1, <2>1, <2>2, <2>3, ManagerInd DEF Rest
<1>7. CASE AllStopped
  <2>1. /\ rc.at = "stopall" /\ inflight' = {} /\ UNCHANGED <<workers, status, pc>>
        /\ rc' = [rc EXCEPT !.at = "none"] /\ \A w \in Watches : pc[w] = "none"
    BY <1>7 DEF AllStopped
  <2>2. rc'.at = "none" /\ ReconcileOK' BY <1>0, <2>1 DEF ReconcileOK
  <2>3. Phase' BY <1>0, <1>1, <2>1, <2>2 DEF IndInv, Phase
  <2> QED BY <1>0, <1>1, <2>1, <2>2, <2>3, ManagerInd DEF Rest
<1> QED BY <1>2, <1>3, <1>4, <1>5, <1>6, <1>7 DEF Reconciler

\* Start and Stop.
LEMMA StartStopInd ==
  ASSUME IndInv, Start \/ Stop
  PROVE  IndInv'
<1>0. /\ workers \subseteq Watches /\ ReconcileOK
      /\ status \in [Watches -> {"none", "watch", "backlog"}]
      /\ pc \in [Procs -> WorkerSteps \cup SweepSteps]
  BY DEF IndInv, TypeOK, ReconcileOK
<1>1. CASE Start
  <2>1. /\ mode = "down" /\ mode' = "up" /\ workers' = Registered /\ UNCHANGED <<inflight, status, loc>>
        /\ pc' = [p \in Procs |-> IF p = Sweep THEN "idle"
                                  ELSE IF p \in Registered THEN "top" ELSE "none"]
        /\ rc' = [rc EXCEPT !.at = "idle"] /\ Rest
    BY <1>1 DEF Start
  <2>2. rc'.at = "idle" /\ ReconcileOK' BY <1>0, <2>1 DEF ReconcileOK
  <2>3. rc.at = "none" /\ pc[Sweep] = "none" /\ \A w \in Watches : pc[w] = "none"
    BY <2>1 DEF IndInv, Phase
  <2>4. /\ pc'[Sweep] = "idle"
        /\ \A w \in Watches : pc'[w] = pc[w] \/ (pc[w] = "none" /\ pc'[w] = "top")
        /\ \A w \in Watches : pc'[w] # "none" => w \in workers'
    BY <2>1, <2>3, Basics
  <2>5. pc' \in [Procs -> WorkerSteps \cup SweepSteps] BY <2>1 DEF WorkerSteps, SweepSteps
  <2>6. Phase' BY <2>1, <2>2, <2>4 DEF Phase
  <2> QED BY <1>0, <2>1, <2>2, <2>3, <2>4, <2>5, <2>6, RegisteredWatches, ManagerInd DEF Rest
<1>2. CASE Stop
  <2>1. /\ mode = "up" /\ mode' = "stopping" /\ UNCHANGED <<workers, rc, inflight, status, pc, loc>>
        /\ Rest
    BY <1>2 DEF Stop
  <2>2. Phase' BY <2>1 DEF IndInv, Phase
  <2>3. ReconcileOK' BY <1>0, <2>1 DEF ReconcileOK
  <2> QED BY <1>0, <2>1, <2>2, <2>3, ManagerInd DEF Rest
<1> QED BY <1>1, <1>2

\* After the process is gone only the tables are left.
LEMMA GoneInd ==
  ASSUME IndInv, Gone
  PROVE  IndInv'
<1>1. /\ mode' = "down" /\ workers' = {} /\ inflight' = {} /\ conn' = {} /\ pushed' = {}
      /\ status' = [w \in Watches |-> "none"]
      /\ pc' = [p \in Procs |-> "none"] /\ loc' = [p \in Procs |-> Idle]
      /\ rc' = [at |-> "none", desired |-> {}, stale |-> {}, cur |-> 0]
      /\ UNCHANGED <<inbox, sending, watches, rec, faults, room>>
  BY DEF Gone, store
<1>2. DataOK' BY <1>1, TypeParts DEF DataOK, IndInv
<1>3. StepsOK' BY <1>1, Basics DEF StepsOK, WorkerSteps, SweepSteps
<1>4. ReconcileOK' BY <1>1 DEF ReconcileOK
<1>5. TypeOK' BY <1>1, <1>2, <1>3, <1>4, TypePartsNext DEF IndInv, TypeOK
<1>6. RetriesLeft' /\ AckedRecorded' BY <1>1 DEF IndInv, RetriesLeft, AckedRecorded
<1>7. Phase' BY <1>1, Basics DEF Phase
<1>8. OwnKeys' /\ Handled' /\ InflightExclusive' /\ RowKnown' /\ Unnotified'
  BY <1>1, Basics DEF OwnKeys, Handled, InflightExclusive, RowKnown, Unnotified, HandlerSteps,
                      AckSteps
<1> QED BY <1>5, <1>6, <1>7, <1>8 DEF IndInv

-----------------------------------------------------------------------------
\* Maintenance, the commands and the world.  Records change in place, or are
\* pruned; none of them notifies.

\* Every statement of a maintenance tick.
LEMMA MaintenanceInd ==
  ASSUME IndInv, Maintenance
  PROVE  IndInv'
<1>0. UNCHANGED <<broker, room, mode, workers, rc, inflight, pc, loc, faults>>
  BY DEF Maintenance, PruneExpiredWatches, PruneDeliveryRecords, RefreshTracked, still, manager, store
<1>1. CASE PruneExpiredWatches
  <2>1. UNCHANGED <<rec, status>> /\ watches' \in [Watches -> {"none", "explicit", "session", "expired"}]
    BY <1>1 DEF PruneExpiredWatches, IndInv, TypeOK
  <2>2. DataOK' /\ AckedRecorded'
    BY <1>0, <2>1, TypeParts DEF DataOK, IndInv, AckedRecorded, broker
  <2> QED BY <1>0, <2>1, <2>2, RecordsSame, QuietInd
<1>2. CASE PruneDeliveryRecords
  <2> DEFINE r == [NoRec EXCEPT !.row = "pruned"]
  <2>1. UNCHANGED <<watches, status>>
        /\ rec' = [k \in Keys |-> IF Prunable(rec[k]) THEN r ELSE rec[k]]
    BY <1>2 DEF PruneDeliveryRecords
  <2>2. r \in Records BY Basics DEF Records
  <2>3. r.row = "pruned" /\ ~r.notified /\ r.attempts < RetryLimit
    BY ConstantsAssumption DEF NoRec
  <2> HIDE DEF r
  <2>4. RecordsKept({})
    BY <2>1, <2>2, <2>3 DEF IndInv, TypeOK, RecordsKept, RetriesLeft
  <2>5. DataOK' BY <1>0, <2>1, TypeParts DEF DataOK, IndInv, broker
  <2>6. AckedRecorded' BY <1>0, <2>4 DEF RecordsKept, IndInv, AckedRecorded, broker
  <2> QED BY <1>0, <2>4, <2>5, <2>6, QuietInd
<1>3. ASSUME NEW w \in Watches, RefreshTracked(w) PROVE IndInv'
  <2>1. UNCHANGED <<rec, watches>> BY <1>3 DEF RefreshTracked, store
  <2>2. status' \in [Watches -> {"none", "watch", "backlog"}] BY <1>3, Refreshed DEF RefreshTracked
  <2>3. DataOK' /\ AckedRecorded'
    BY <1>0, <2>1, <2>2, TypeParts DEF DataOK, IndInv, AckedRecorded, broker
  <2> QED BY <1>0, <2>1, <2>3, RecordsSame, QuietInd
<1> QED BY <1>1, <1>2, <1>3 DEF Maintenance

\* Every record keeps its row, its notification and its count of failures.
LEMMA Touched ==
  ASSUME IndInv, rec' \in [Keys -> Records],
         \A k \in Keys : /\ rec'[k].row = rec[k].row /\ rec'[k].notified = rec[k].notified
                         /\ rec'[k].attempts = rec[k].attempts
                         /\ rec'[k].exhausted = rec[k].exhausted,
         UNCHANGED <<broker, watches, faults, status, room, mode, workers, rc, inflight, pc, loc>>
  PROVE  IndInv'
<1>1. RecordsKept({}) BY DEF IndInv, TypeOK, RecordsKept, RetriesLeft
<1>2. DataOK' BY TypeParts DEF DataOK, IndInv, broker
<1>3. AckedRecorded' BY <1>1 DEF RecordsKept, IndInv, AckedRecorded, broker
<1> QED BY <1>1, <1>2, <1>3, QuietInd

\* The watches table changes.
LEMMA Rewatched ==
  ASSUME IndInv, NEW w \in Watches, NEW s \in {"none", "explicit", "session", "expired"},
         watches' = [watches EXCEPT ![w] = s],
         UNCHANGED <<broker, rec, faults, status, room, mode, workers, rc, inflight, pc, loc>>
  PROVE  IndInv'
<1>1. DataOK' /\ AckedRecorded' BY TypeParts DEF DataOK, IndInv, AckedRecorded, broker
<1> QED BY <1>1, RecordsSame, QuietInd

\* Every command of another process.
LEMMA CommandInd ==
  ASSUME IndInv, Command
  PROVE  IndInv'
<1> USE DEF still, manager
<1>0. \A k \in Keys : rec[k] \in Records BY DEF IndInv, TypeOK
<1>1. PICK w \in Watches :
        \/ \E source \in Sources : UpsertWatch(w, source)
        \/ RemoveWatch(w)
        \/ \E c \in Commands \cap {"pull", "bootstrap"} : MarkRead(w, c)
        \/ DismissAllSurfaced(w)
  BY DEF Command
<1>2. ASSUME NEW source \in Sources, UpsertWatch(w, source) PROVE IndInv'
  BY <1>2, ConstantsAssumption, Rewatched DEF UpsertWatch
<1>3. CASE RemoveWatch(w) BY <1>3, Rewatched DEF RemoveWatch
<1>4. ASSUME NEW c, MarkRead(w, c) PROVE IndInv'
  <2>1. PICK ids \in SUBSET {k \in Of(w) : Kept(k) /\ ~rec[k].dismissed} :
          rec' = [k \in Keys |-> IF k \in ids
                   THEN [rec[k] EXCEPT !.surfaced = TRUE, !.dismissed = @ \/ c = "bootstrap"]
                   ELSE rec[k]]
    BY <1>4 DEF MarkRead
  <2>2. \A k \in Keys : /\ rec'[k] \in Records
                        /\ rec'[k].row = rec[k].row /\ rec'[k].notified = rec[k].notified
                        /\ rec'[k].attempts = rec[k].attempts
                        /\ rec'[k].exhausted = rec[k].exhausted
    BY <1>0, <2>1 DEF Records
  <2>3. rec' \in [Keys -> Records] BY <2>1, <2>2
  <2> QED BY <1>4, <2>2, <2>3, Touched DEF MarkRead
<1>5. CASE DismissAllSurfaced(w)
  <2>1. rec' = [k \in Keys |-> IF k \in Of(w) /\ Kept(k) /\ rec[k].surfaced
                              THEN [rec[k] EXCEPT !.dismissed = TRUE] ELSE rec[k]]
    BY <1>5 DEF DismissAllSurfaced
  <2>2. \A k \in Keys : /\ rec'[k] \in Records
                        /\ rec'[k].row = rec[k].row /\ rec'[k].notified = rec[k].notified
                        /\ rec'[k].attempts = rec[k].attempts
                        /\ rec'[k].exhausted = rec[k].exhausted
    BY <1>0, <2>1 DEF Records
  <2>3. rec' \in [Keys -> Records] BY <2>1, <2>2
  <2> QED BY <1>5, <2>2, <2>3, Touched DEF DismissAllSurfaced
<1> QED BY <1>1, <1>2, <1>3, <1>4, <1>5

\* The broker, the agent and time.
LEMMA WorldInd ==
  ASSUME IndInv, World
  PROVE  IndInv'
<1> USE DEF still, manager, idle, store
<1>0. \A k \in Keys : rec[k] \in Records BY DEF IndInv, TypeOK
<1>1. ASSUME NEW k \in Keys, Send(k) \/ Push(k) \/ Consume(k) PROVE IndInv'
  <2>1. UNCHANGED <<conn, room, watches, rec, faults, mode, workers, rc, inflight, status, pc, loc>>
    BY <1>1 DEF Send, Push, Consume
  <2>2. /\ sending' \subseteq Keys /\ pushed' \subseteq Keys
        /\ inbox' = inbox \/ \E s \in {"unread", "gone"} : inbox' = [inbox EXCEPT ![k] = s]
    BY <1>1 DEF Send, Push, Consume, IndInv, TypeOK
  <2>3. DataOK' BY <2>1, <2>2, TypeParts DEF DataOK, IndInv
  <2>4. AckedRecorded' BY <2>1, <2>2 DEF IndInv, AckedRecorded, TypeOK
  <2> QED BY <2>1, <2>3, <2>4, RecordsSame, QuietInd
<1>2. ASSUME NEW k \in Keys, Later(k) \/ Age(k) PROVE IndInv'
  <2>0. rec \in [Keys -> Records] BY DEF IndInv, TypeOK
  <2>1. PICK r \in {[rec[k] EXCEPT !.next = "now"], [rec[k] EXCEPT !.old = TRUE]} :
          rec' = [rec EXCEPT ![k] = r]
    BY <1>2, <2>0 DEF Later, Age
  <2>a. /\ r \in Records /\ r.row = rec[k].row /\ r.notified = rec[k].notified
        /\ r.attempts = rec[k].attempts /\ r.exhausted = rec[k].exhausted
    BY <1>0 DEF Records
  <2>2. /\ rec' \in [Keys -> Records]
        /\ \A j \in Keys : /\ rec'[j].row = rec[j].row /\ rec'[j].notified = rec[j].notified
                           /\ rec'[j].attempts = rec[j].attempts
                           /\ rec'[j].exhausted = rec[j].exhausted
    BY <2>0, <2>1, <2>a
  <2> QED BY <1>2, <2>2, Touched DEF Later, Age
<1>3. ASSUME NEW w \in Watches, Drain(w) PROVE IndInv'
  <2>1. UNCHANGED <<broker, store, mode, workers, rc, inflight, status, pc, loc>>
    BY <1>3 DEF Drain
  <2>2. room' \in [Watches -> Rooms] BY <1>3, ConstantsAssumption DEF Drain, IndInv, TypeOK
  <2>3. DataOK' /\ AckedRecorded'
    BY <2>1, <2>2, TypeParts DEF DataOK, IndInv, AckedRecorded, broker
  <2> QED BY <2>1, <2>3, RecordsSame, QuietInd
<1>4. ASSUME NEW w \in Watches, Expire(w) PROVE IndInv' BY <1>4, Rewatched DEF Expire
<1> QED BY <1>1, <1>2, <1>3, <1>4, AckInd DEF World

-----------------------------------------------------------------------------
\* The theorems.

\* Every step keeps IndInv.
LEMMA Inductive == IndInv /\ [Next]_vars => IndInv'
<1> SUFFICES ASSUME IndInv, [Next]_vars PROVE IndInv' OBVIOUS
<1>1. CASE UNCHANGED vars
  <2>1. UNCHANGED <<broker, watches, faults, status, room, mode, workers, rc, inflight, pc, loc, rec>>
    BY <1>1 DEF vars, store, manager
  <2>2. RecordsKept({}) BY <2>1, RecordsSame
  <2>3. rec' \in [Keys -> Records] BY <2>2 DEF RecordsKept
  <2> QED BY <2>1, <2>3, Touched
<1>2. CASE Stopped \/ Crash BY <1>2, GoneInd DEF Stopped, Crash
<1> QED BY <1>1, <1>2, WorkerInd, SweeperInd, ReconcilerInd, MaintenanceInd, CommandInd, WorldInd,
           StartStopInd DEF Next

\* IndInv, which all the properties below follow from, holds in every state that the
\* workers, the sweep, the reconcile loop, commands and crashes lead to.
THEOREM Invariance == Spec => []IndInv
  BY InitInd, Inductive, PTL DEF Spec

\* Every variable keeps its type, whatever the interleaving of workers, sweep,
\* reconcile loop and commands; no record counts more failures than the limit.
THEOREM TypeCorrect == Spec => []TypeOK
<1>1. IndInv => TypeOK BY DEF IndInv
<1> QED BY <1>1, Invariance, PTL

\* A message that the runtime acked at the broker is in its own table: CatchUp
\* acks after AddRecordIfAbsent, or skips what the sweep has, which is recorded.
THEOREM AckedAlwaysRecorded == Spec => []AckedRecorded
<1>1. IndInv => AckedRecorded BY DEF IndInv
<1> QED BY <1>1, Invariance, PTL

\* beginInflight keeps a worker and the sweep from handling one message at once,
\* whatever is stopped, restarted or crashes in between.
THEOREM InflightAlwaysExclusive == Spec => []InflightExclusive
<1>1. IndInv => InflightExclusive BY DEF IndInv
<1> QED BY <1>1, Invariance, PTL

\* A worker that runs is in m.workers, is waited for by stopWatch, or everything
\* stops: reconcile starts no second listener for a watch.
THEOREM WorkersAlwaysKnown == Spec => []WorkersKnown
<1>1. IndInv => WorkersKnown
  <2>1. IndInv => /\ mode \in {"down", "up", "stopping"}
                  /\ rc.at \in {"none", "idle", "start", "stop", "wait", "stopall"}
    BY DEF IndInv, TypeOK
  <2> QED BY <2>1 DEF IndInv, Phase, WorkersKnown
<1> QED BY <1>1, Invariance, PTL

\* A worker never writes the signal of a record that is notified (handleDelivery).
THEOREM LiveAlwaysNotifiesOnce == Spec => LiveNotifiesOnce
<1> DEFINE A == \A w \in Watches : pc[w] = "notify" /\ pc'[w] = "mark" => ~rec[loc[w].key].notified
<1>1. IndInv => A BY DEF IndInv, Unnotified
<1> HIDE DEF A
<1>2. Spec => [][A]_vars BY <1>1, Invariance, PTL
<1> QED BY <1>2 DEF A, LiveNotifiesOnce

-----------------------------------------------------------------------------
\* Runtime implements Delivery.  Beyond IndInv it takes that what is on its way to
\* a record was sent: by replay, by push, or in the hands of a worker.
Sent(k) == inbox[k] # "unsent"

SentOnly ==
    /\ \A k \in sending \cup pushed : Sent(k)
    /\ \A w \in Watches : /\ pc[w] = "add" => Sent(loc[w].key)
                          /\ \A b \in loc[w].batch : Sent(b.key)

\* A step after which the workers have nothing that was not sent before.
LEMMA SentStep ==
  ASSUME IndInv, IndInv', SentOnly,
         \A k \in Keys : Sent(k) => inbox'[k] # "unsent",
         \A k \in sending' : k \in sending \/ inbox'[k] # "unsent",
         pushed' \subseteq pushed \cup sending,
         \A w \in Watches : /\ pc'[w] = "add" => Sent(loc'[w].key)
                            /\ \A b \in loc'[w].batch : Sent(b.key)
  PROVE  SentOnly'
<1>1. sending \subseteq Keys /\ pushed \subseteq Keys BY DEF IndInv, TypeOK
<1>2. \A w \in Watches : /\ pc'[w] = "add" => loc'[w].key \in Keys
                         /\ \A b \in loc'[w].batch : b.key \in Keys
  BY DEF IndInv, OwnKeys, Of, HandlerSteps
<1>3. \A k \in sending' \cup pushed' : inbox'[k] # "unsent" BY <1>1 DEF SentOnly
<1> QED BY <1>2, <1>3 DEF SentOnly, Sent

\* A step that moves no worker into AddRecordIfAbsent.
LEMMA SentUnmoved ==
  ASSUME IndInv, IndInv', SentOnly,
         \A k \in Keys : Sent(k) => inbox'[k] # "unsent",
         \A k \in sending' : k \in sending \/ inbox'[k] # "unsent",
         pushed' \subseteq pushed \cup sending,
         \A w \in Watches : /\ pc'[w] = "add" => pc[w] = "add" /\ loc'[w].key = loc[w].key
                            /\ loc'[w].batch \subseteq loc[w].batch
  PROVE  SentOnly'
  BY SentStep DEF SentOnly

\* A worker that goes on with what was sent.
Goes(w) ==
    /\ pc'[w] = "add" => Sent(loc'[w].key)
    /\ \A b \in loc'[w].batch : Sent(b.key)
    /\ \A v \in Watches \ {w} : pc'[v] = pc[v] /\ loc'[v] = loc[v]

\* A move of a worker with what was sent.
LEMMA GotoSent ==
  ASSUME IndInv, NEW w \in Watches, NEW step, NEW l, Goto(w, step, l),
         step # "add" \/ Sent(l.key), \A b \in l.batch : Sent(b.key)
  PROVE  Goes(w)
<1>1. /\ pc'[w] = step /\ loc'[w] = l
      /\ \A v \in Watches \ {w} : pc'[v] = pc[v] /\ loc'[v] = loc[v]
  BY Basics DEF IndInv, TypeOK, Goto
<1> QED BY <1>1 DEF Goes

\* CatchUp gives up an attempt, or goes on.
LEMMA FailedSent ==
  ASSUME IndInv, NEW w \in Watches, CatchUpFailed(w)
  PROVE  Goes(w)
<1>1. Idle.batch = {} /\ [Idle EXCEPT !.tries = loc[w].tries + 1].batch = {} BY DEF Idle
<1> QED BY <1>1, GotoSent DEF CatchUpFailed

\* The next message of a replay.
LEMMA OnSent ==
  ASSUME IndInv, NEW w \in Watches, NEW l \in Locals, CatchUpOn(w, l),
         \A b \in l.batch : Sent(b.key)
  PROVE  Goes(w)
<1>1. Idle.batch = {} /\ [l EXCEPT !.key = NoKey].batch = l.batch BY DEF Idle, Locals
<1> QED BY <1>1, GotoSent DEF CatchUpOn

\* Every action of a worker, and the late answer that it waits for.
LEMMA WorkerSent ==
  ASSUME IndInv, IndInv', SentOnly, NEW w \in Watches, Worker(w) \/ AnswerAck(w)
  PROVE  SentOnly'
<1>1. /\ sending' = sending /\ pushed' \subseteq pushed
      /\ \A k \in Keys : Sent(k) => inbox'[k] # "unsent"
  <2>1. CASE AckReplayed(w) \/ AnswerAck(w)
    <3>1. UNCHANGED <<sending, pushed>> /\ (Acked(loc[w].key) \/ inbox' = inbox)
      BY <2>1, AckStep
    <3> QED BY <3>1 DEF Acked, IndInv, TypeOK, Sent
  <2>2. CASE ~AckReplayed(w) /\ ~AnswerAck(w)
    BY <2>2 DEF Worker, Top, Replay, CatchUpNext, Listen, Receive, StreamEnd, Add, Get, Handle,
                Notify, Mark, RecordFailure, RefreshOwn, Done, Hangup, broker, Sent
  <2> QED BY <2>1, <2>2
<1>2. \A b \in loc[w].batch : Sent(b.key) BY DEF SentOnly
<1>3. loc[w] \in Locals BY Basics DEF IndInv, TypeOK
<1>4. Idle.batch = {} BY Basics
<1>5. Goes(w)
  <2>1. CASE Add(w) \/ Get(w) \/ Handle(w) \/ RefreshOwn(w)
    <3>1. Handles(w) BY <2>1, Handling, Basics
    <3>2. pc'[w] # "add"
      <4>1. ASSUME NEW step, NEW l, step # "add", Goto(w, step, l) PROVE pc'[w] # "add"
        BY <4>1, Basics DEF Goto, IndInv, TypeOK
      <4>2. Add(w) \/ Get(w) => pc'[w] # "add" BY <4>1 DEF Add, Get, Finish
      <4>3. Notify(w) \/ RefreshOwn(w) => pc'[w] # "add" BY <4>1 DEF Notify, RefreshOwn, Finished
      <4>4. Mark(w) \/ RecordFailure(w) => pc'[w] # "add"
        BY <4>1 DEF Mark, RecordFailure, Finish, Finished
      <4> QED BY <2>1, <4>2, <4>3, <4>4 DEF Handle
    <3> QED BY <1>2, <3>1, <3>2, Basics DEF Handles, HandlerMove, Goes
  <2>2. ASSUME NEW from, Ended(w, from) PROVE Goes(w) BY <1>4, <2>2, GotoSent DEF Ended
  <2>3. ASSUME Goto(w, "top", Idle) PROVE Goes(w) BY <1>4, <2>3, GotoSent
  <2>4. [Idle EXCEPT !.tries = 1].batch = {} /\ [Idle EXCEPT !.live = TRUE].batch = {}
    BY DEF Idle
  <2>5. ASSUME Goto(w, "stream", [Idle EXCEPT !.live = TRUE]) PROVE Goes(w)
    BY <2>4, <2>5, GotoSent
  <2>6. CASE Top(w)
    <3>1. ASSUME Goto(w, "replay", [Idle EXCEPT !.tries = 1]) PROVE Goes(w)
      BY <2>4, <3>1, GotoSent
    <3> QED BY <2>2, <2>6, <3>1 DEF Top
  <2>7. CASE Replay(w)
    <3> DEFINE S == {j \in Of(w) : inbox[j] = "unread"}
               B == {[key |-> k, attempts |-> 0] : k \in S}
               l == [loc[w] EXCEPT !.batch = B]
    <3>1. l \in Locals BY Replayed
    <3>2. \A b \in B : Sent(b.key) BY DEF Sent
    <3>3. l.batch = B BY <1>3 DEF Locals
    <3>4. ASSUME CatchUpOn(w, l) PROVE Goes(w)
      <4> HIDE DEF l, B
      <4> QED BY <3>1, <3>2, <3>3, <3>4, OnSent
    <3> QED BY <2>2, <2>7, <3>4, FailedSent DEF Replay
  <2>8. CASE AckReplayed(w) \/ AnswerAck(w)
    <3>1. CatchUpOn(w, loc[w]) \/ CatchUpFailed(w) \/ Goto(w, "hung", loc[w])
      BY <2>8, AckStep
    <3>2. ASSUME Goto(w, "hung", loc[w]) PROVE Goes(w) BY <1>2, <3>2, GotoSent
    <3> QED BY <1>2, <1>3, <3>1, <3>2, OnSent, FailedSent
  <2>9. CASE Listen(w) BY <2>3, <2>5, <2>9 DEF Listen
  <2>10. CASE StreamEnd(w) BY <2>2, <2>3, <2>10 DEF StreamEnd
  <2>11. CASE CatchUpNext(w)
    <3>1. PICK b \in loc[w].batch : Begin(w, Taken(w, b), "add", "ack", Taken(w, b))
      BY <2>11 DEF CatchUpNext, First
    <3>2. Taken(w, b).key = b.key /\ Taken(w, b).batch = loc[w].batch \ {b}
      BY TakenLocals, Basics
    <3>3. Sent(Taken(w, b).key) /\ \A c \in Taken(w, b).batch : Sent(c.key) BY <1>2, <3>2
    <3> QED BY <3>1, <3>3, GotoSent DEF Begin
  <2>12. CASE Receive(w)
    <3>1. PICK k \in pushed :
            Begin(w, [Idle EXCEPT !.key = k, !.live = TRUE], "add", "stream", loc[w])
      BY <2>12 DEF Receive
    <3>2. [Idle EXCEPT !.key = k, !.live = TRUE].batch = {}
          /\ [Idle EXCEPT !.key = k, !.live = TRUE].key = k
      BY DEF Idle
    <3>3. Sent(k) BY <3>1 DEF SentOnly
    <3> QED BY <1>2, <3>1, <3>2, <3>3, GotoSent DEF Begin
  <2>13. CASE Done(w)
    <3>1. ASSUME Goto(w, "ack", loc[w]) PROVE Goes(w) BY <1>2, <3>1, GotoSent
    <3> QED BY <2>3, <2>5, <2>13, <3>1, FailedSent DEF Done
  <2> QED BY <2>1, <2>6, <2>7, <2>8, <2>9, <2>10, <2>11, <2>12, <2>13 DEF Worker
<1>6. \A v \in Watches : /\ pc'[v] = "add" => Sent(loc'[v].key)
                         /\ \A b \in loc'[v].batch : Sent(b.key)
  BY <1>5 DEF Goes, SentOnly
<1> QED BY <1>1, <1>6, SentStep

\* Every step.
LEMMA SentNext == IndInv /\ IndInv' /\ SentOnly /\ [Next]_vars => SentOnly'
<1> SUFFICES ASSUME IndInv, IndInv', SentOnly, [Next]_vars PROVE SentOnly' OBVIOUS
<1>1. CASE \E w \in Watches : Worker(w) BY <1>1, WorkerSent
<1>2. CASE Sweeper
  <2>1. broker' = broker
    BY <1>2 DEF Sweeper, SweepQuery, SweepNext, SweepRelease, SweepRefresh, Handle, Notify, Mark,
                RecordFailure
  <2>2. \E step, l : Goto(Sweep, step, l)
    BY <1>2 DEF Sweeper, SweepQuery, SweepNext, SweepRelease, SweepRefresh, Handle, Notify, Mark,
                RecordFailure, Begin, Finish, Finished
  <2>3. \A w \in Watches : pc'[w] = pc[w] /\ loc'[w] = loc[w]
    BY <2>2, Basics DEF Goto, IndInv, TypeOK
  <2> QED BY <2>1, <2>3, SentUnmoved DEF broker, Sent
<1>3. CASE Reconciler \/ Start \/ Stop
  <2>1. broker' = broker /\ loc' = loc
    BY <1>3 DEF Reconciler, ReconcileList, ReconcileStart, StopWatch, WatchStopped, StopAll,
                AllStopped, Start, Stop, Rest
  <2>2. \A w \in Watches : pc'[w] = "add" => pc[w] = "add"
    BY <1>3, Basics DEF Reconciler, ReconcileList, ReconcileStart, StopWatch, WatchStopped,
                        StopAll, AllStopped, Start, Stop
  <2> QED BY <2>1, <2>2, SentUnmoved DEF broker, Sent
<1>4. CASE Stopped \/ Crash
  <2>1. Gone BY <1>4 DEF Stopped, Crash
  <2>2. \A w \in Watches : pc'[w] # "add" /\ loc'[w].batch = {} BY <2>1, Basics DEF Gone
  <2>3. inbox' = inbox /\ sending' = sending /\ pushed' = {} BY <2>1 DEF Gone
  <2> QED BY <2>2, <2>3, SentUnmoved DEF Sent
<1>5. CASE Maintenance \/ Command \/ UNCHANGED vars
  <2>1. broker' = broker /\ pc' = pc /\ loc' = loc
    BY <1>5 DEF Maintenance, PruneExpiredWatches, PruneDeliveryRecords, RefreshTracked, Command,
                UpsertWatch, RemoveWatch, MarkRead, DismissAllSurfaced, still, vars
  <2> QED BY <2>1, SentUnmoved DEF broker, Sent
<1>6. CASE World /\ ~\E w \in Watches : AnswerAck(w)
  <2>1. pc' = pc /\ loc' = loc
    BY <1>6 DEF World, Send, Push, Consume, Later, Age, Drain, Expire, still, idle
  <2>2. pushed' \subseteq pushed \cup sending
    BY <1>6 DEF World, Send, Push, Consume, Later, Age, Drain, Expire, still, idle, broker
  <2>3. /\ \A k \in Keys : Sent(k) => inbox'[k] # "unsent"
        /\ \A k \in sending' : k \in sending \/ inbox'[k] # "unsent"
    BY <1>6 DEF World, Send, Push, Consume, Later, Age, Drain, Expire, still, idle, broker,
                Sent, IndInv, TypeOK
  <2> QED BY <2>1, <2>2, <2>3, SentUnmoved
<1>7. CASE \E w \in Watches : AnswerAck(w) BY <1>7, WorkerSent
<1> QED BY <1>1, <1>2, <1>3, <1>4, <1>5, <1>6, <1>7 DEF Next

\* Only what was sent is replayed, pushed and about to be recorded.
LEMMA SentInvariance == Spec => []SentOnly
<1>1. Init => SentOnly BY Basics DEF Init, SentOnly
<1> QED BY <1>1, Invariance, SentNext, PTL DEF Spec

-----------------------------------------------------------------------------
\* What the statements do to a record, as Delivery sees it.
LEMMA LogValues ==
  ASSUME NEW r \in Records
  PROVE  /\ LogOf(r) = "none" <=> r.row = "never"
         /\ LogOf(r) = "pruned" <=> r.row = "pruned"
         /\ r.row = "kept" => LogOf(r) = IF r.notified \/ r.surfaced \/ r.dismissed THEN "done"
                                         ELSE IF r.exhausted THEN "givenup" ELSE "waiting"
<1>1. r.row \in {"never", "kept", "pruned"} BY DEF Records
<1> QED BY <1>1 DEF LogOf

\* The log, of one record at a time.
LEMMA LogAt == /\ \A k \in Keys : Log[k] = LogOf(rec[k]) /\ Log'[k] = LogOf(rec'[k])
               /\ Log = [k \in Keys |-> Log[k]] /\ Log' = [k \in Keys |-> Log'[k]]
  BY DEF Log

\* A step that changes no message and no record's standing is no step of Delivery.
LEMMA Unlogged ==
  ASSUME inbox' = inbox, sending' = sending, \A k \in Keys : LogOf(rec'[k]) = LogOf(rec[k])
  PROVE  UNCHANGED Promise!vars
<1>1. Log' = Log BY DEF Log
<1> QED BY <1>1 DEF Promise!vars

\* The standing of one record changes.
LEMMA OneLogged ==
  ASSUME NEW k \in Keys, NEW r, rec \in [Keys -> Records], rec' = [rec EXCEPT ![k] = r]
  PROVE  Log' = [Log EXCEPT ![k] = LogOf(r)]
  BY DEF Log

\* Records are settled, or stay as they are.
LEMMA Delivers ==
  ASSUME inbox' = inbox, sending' = sending,
         \A k \in Keys : \/ LogOf(rec'[k]) = LogOf(rec[k])
                         \/ LogOf(rec[k]) \in {"waiting", "givenup"} /\ LogOf(rec'[k]) = "done"
  PROVE  [Promise!Next]_Promise!vars
<1> DEFINE S == {k \in Keys : LogOf(rec'[k]) # LogOf(rec[k])}
<1>1. \A k \in S : Log[k] \in {"waiting", "givenup"} BY LogAt
<1>2. \A k \in Keys : Log'[k] = IF k \in S THEN "done" ELSE Log[k] BY LogAt
<1>3. Log' = [k \in Keys |-> IF k \in S THEN "done" ELSE Log[k]] BY <1>2, LogAt
<1>4. S \in SUBSET Keys OBVIOUS
<1> HIDE DEF S
<1>5. Promise!Deliver(S) BY <1>1, <1>3 DEF Promise!Deliver
<1> QED BY <1>4, <1>5 DEF Promise!Next

\* handleDelivery: a record is made, its agent notified, or a failure counted.
LEMMA HandlerLogged ==
  ASSUME IndInv, SentOnly, NEW p \in Procs,
         Handle(p) \/ (p \in Watches /\ (Add(p) \/ Get(p) \/ RefreshOwn(p)))
  PROVE  [Promise!Next]_Promise!vars
<1> DEFINE k == loc[p].key
<1>1. pc[p] \in HandlerSteps
  BY DEF Handle, Add, Get, RefreshOwn, Notify, Mark, RecordFailure, HandlerSteps
<1>2. k \in Keys /\ rec \in [Keys -> Records] /\ rec[k] \in Records
  BY <1>1 DEF IndInv, TypeOK, Handled
<1>3. inbox' = inbox /\ sending' = sending
  BY DEF Handle, Add, Get, RefreshOwn, Notify, Mark, RecordFailure, broker
<1>4. CASE rec' = rec BY <1>3, <1>4, Unlogged
<1>5. CASE p \in Watches /\ Add(p) /\ rec' # rec
  <2> DEFINE r == [NoRec EXCEPT !.row = "kept"]
  <2>1. rec' = [rec EXCEPT ![k] = r] /\ ~Kept(k) /\ pc[p] = "add" BY <1>5 DEF Add
  <2>2. LogOf(r) = "waiting" BY DEF LogOf, NoRec
  <2> HIDE DEF r
  <2>3. Log' = [Log EXCEPT ![k] = "waiting"] BY <1>2, <2>1, <2>2, OneLogged
  <2>4. Log[k] \in {"none", "pruned"} BY <1>2, <2>1, LogAt, LogValues DEF Kept, Records
  <2>5. inbox[k] # "unsent" BY <1>5, <2>1 DEF SentOnly, Sent
  <2>6. Promise!Record(k) BY <1>3, <2>3, <2>4, <2>5 DEF Promise!Record
  <2> QED BY <1>2, <2>6 DEF Promise!Next
<1>6. CASE Mark(p) /\ rec' # rec
  <2> DEFINE r == [rec[k] EXCEPT !.notified = TRUE, !.attempts = 0, !.next = "now",
                                 !.exhausted = FALSE]
  <2>1. Kept(k) /\ rec' = [rec EXCEPT ![k] = r] BY <1>2, <1>6 DEF Mark
  <2>2. r.row = "kept" /\ r.notified BY <1>2, <2>1 DEF Kept, Records
  <2> HIDE DEF r
  <2>3. LogOf(r) = "done" BY <2>2 DEF LogOf
  <2>4. LogOf(rec[k]) \in {"waiting", "givenup", "done"} BY <1>2, <2>1 DEF Kept, LogOf
  <2>5. rec'[k] = r /\ \A j \in Keys : j # k => rec'[j] = rec[j] BY <1>2, <2>1
  <2> QED BY <1>3, <2>3, <2>4, <2>5, Delivers
<1>7. CASE RecordFailure(p) /\ rec' # rec
  <2> DEFINE r == Failed(rec[k], loc[p].attempts + 1)
  <2>1. Kept(k) /\ rec' = [rec EXCEPT ![k] = r] BY <1>2, <1>7 DEF RecordFailure
  <2>2. /\ r.row = "kept" /\ r.notified = rec[k].notified /\ r.surfaced = rec[k].surfaced
        /\ r.dismissed = rec[k].dismissed
    BY <1>2, <2>1 DEF Kept, Records, Failed
  <2> HIDE DEF r
  <2>3. Log' = [Log EXCEPT ![k] = LogOf(r)] BY <1>2, <2>1, OneLogged
  <2>4. CASE LogOf(rec[k]) = "done"
    <3>1. LogOf(r) = "done" BY <1>2, <2>1, <2>2, <2>4 DEF LogOf, Kept
    <3>2. \A j \in Keys : LogOf(rec'[j]) = LogOf(rec[j]) BY <1>2, <2>1, <2>4, <3>1
    <3> QED BY <1>3, <3>2, Unlogged
  <2>5. CASE LogOf(rec[k]) # "done"
    <3>1. LogOf(r) \in {"waiting", "givenup"} /\ LogOf(rec[k]) \in {"waiting", "givenup"}
      BY <1>2, <2>1, <2>2, <2>5 DEF LogOf, Kept
    <3>2. Promise!Fail(k) BY <1>2, <1>3, <2>3, <3>1, LogAt DEF Promise!Fail
    <3> QED BY <1>2, <3>2 DEF Promise!Next
  <2> QED BY <2>4, <2>5
<1> QED BY <1>4, <1>5, <1>6, <1>7 DEF Handle, Get, RefreshOwn, Notify, store

\* CatchUp acks what is recorded.
LEMMA AckLogged ==
  ASSUME IndInv, NEW w \in Watches, AckReplayed(w) \/ AnswerAck(w)
  PROVE  [Promise!Next]_Promise!vars
<1> DEFINE k == loc[w].key
<1>0. pc[w] \in AckSteps BY AckStep
<1>1. k \in Keys /\ rec[k].row # "never" /\ rec[k] \in Records
  BY <1>0 DEF IndInv, OwnKeys, RowKnown, Of, TypeOK, AckSteps
<1>2. sending' = sending /\ rec' = rec /\ (Acked(k) \/ inbox' = inbox) BY AckStep
<1>3. Log' = Log BY <1>2 DEF Log
<1>4. CASE inbox' = inbox BY <1>2, <1>4, Unlogged
<1>5. CASE inbox' # inbox
  <2>1. inbox' = [inbox EXCEPT ![k] = "acked"] /\ inbox[k] = "unread"
    BY <1>1, <1>2, <1>5 DEF Acked, IndInv, TypeOK
  <2>2. Log[k] # "none" BY <1>1, LogAt, LogValues
  <2>3. Promise!Ack(k) BY <1>2, <1>3, <2>1, <2>2 DEF Promise!Ack
  <2> QED BY <1>1, <2>3 DEF Promise!Next
<1> QED BY <1>4, <1>5

\* Maintenance prunes what is settled, or was given up.
LEMMA PruneLogged ==
  ASSUME IndInv, PruneDeliveryRecords
  PROVE  [Promise!Next]_Promise!vars
<1> DEFINE S == {k \in Keys : Prunable(rec[k])}
<1>1. /\ inbox' = inbox /\ sending' = sending
      /\ rec' = [k \in Keys |-> IF Prunable(rec[k]) THEN [NoRec EXCEPT !.row = "pruned"]
                                ELSE rec[k]]
  BY DEF PruneDeliveryRecords, still, broker
<1>2. LogOf([NoRec EXCEPT !.row = "pruned"]) = "pruned" BY DEF LogOf, NoRec
<1>3. \A k \in S : Log[k] \in {"done", "givenup"}
  <2>1. \A k \in S : LogOf(rec[k]) \in {"done", "givenup"}
    BY DEF Prunable, LogOf
  <2> QED BY <2>1, LogAt
<1>4. Log' = [k \in Keys |-> IF k \in S THEN "pruned" ELSE Log[k]]
  <2>1. \A k \in Keys : Log'[k] = IF k \in S THEN "pruned" ELSE Log[k] BY <1>1, <1>2, LogAt
  <2> QED BY <2>1, LogAt
<1>5. S \in SUBSET Keys OBVIOUS
<1> HIDE DEF S
<1>6. Promise!Prune(S) BY <1>1, <1>3, <1>4 DEF Promise!Prune
<1> QED BY <1>5, <1>6 DEF Promise!Next

\* Commands show messages to the agent and dismiss them.
LEMMA CommandLogged ==
  ASSUME IndInv, Command
  PROVE  [Promise!Next]_Promise!vars
<1>1. inbox' = inbox /\ sending' = sending
  BY DEF Command, UpsertWatch, RemoveWatch, MarkRead, DismissAllSurfaced, still, broker
<1>2. \A k \in Keys : rec[k] \in Records BY DEF IndInv, TypeOK
<1>3. CASE rec' = rec BY <1>1, <1>3, Unlogged
<1>4. ASSUME NEW w \in Watches, NEW c, MarkRead(w, c) PROVE [Promise!Next]_Promise!vars
  <2>1. PICK ids \in SUBSET {k \in Of(w) : Kept(k) /\ ~rec[k].dismissed} :
          rec' = [k \in Keys |-> IF k \in ids
                   THEN [rec[k] EXCEPT !.surfaced = TRUE, !.dismissed = @ \/ c = "bootstrap"]
                   ELSE rec[k]]
    BY <1>4 DEF MarkRead
  <2>2. \A k \in Keys : \/ rec'[k] = rec[k]
                        \/ rec[k].row = "kept" /\ rec'[k].row = "kept" /\ rec'[k].surfaced
    BY <1>2, <2>1 DEF Kept, Records
  <2>3. \A k \in Keys : \/ LogOf(rec'[k]) = LogOf(rec[k])
                        \/ LogOf(rec[k]) \in {"waiting", "givenup"} /\ LogOf(rec'[k]) = "done"
    BY <2>2 DEF LogOf
  <2> QED BY <1>1, <2>3, Delivers
<1>5. ASSUME NEW w \in Watches, DismissAllSurfaced(w) PROVE [Promise!Next]_Promise!vars
  <2>1. rec' = [k \in Keys |-> IF k \in Of(w) /\ Kept(k) /\ rec[k].surfaced
                              THEN [rec[k] EXCEPT !.dismissed = TRUE] ELSE rec[k]]
    BY <1>5 DEF DismissAllSurfaced
  <2>2. \A k \in Keys : \/ rec'[k] = rec[k]
                        \/ rec[k].row = "kept" /\ rec'[k].row = "kept" /\ rec'[k].dismissed
    BY <1>2, <2>1 DEF Kept, Records
  <2>3. \A k \in Keys : \/ LogOf(rec'[k]) = LogOf(rec[k])
                        \/ LogOf(rec[k]) \in {"waiting", "givenup"} /\ LogOf(rec'[k]) = "done"
    BY <2>2 DEF LogOf
  <2> QED BY <1>1, <2>3, Delivers
<1> QED BY <1>3, <1>4, <1>5 DEF Command, UpsertWatch, RemoveWatch

\* The broker and the agent; the passing of time does not change what is recorded.
LEMMA WorldLogged ==
  ASSUME IndInv, World
  PROVE  [Promise!Next]_Promise!vars
<1>1. ASSUME NEW k \in Keys, Send(k) \/ Push(k) \/ Consume(k) PROVE Promise!Next
  <2>1. Log' = Log BY <1>1 DEF Send, Push, Consume, idle, store, Log
  <2>2. inbox = [inbox EXCEPT ![k] = inbox[k]] BY DEF IndInv, TypeOK
  <2>3. Send(k) => Promise!Send(k) BY <2>1 DEF Send, Promise!Send
  <2>4. Push(k) => Promise!Push(k) BY <2>1, <2>2 DEF Push, Promise!Push
  <2>5. Consume(k) => Promise!Consume(k) BY <2>1 DEF Consume, Promise!Consume
  <2> QED BY <1>1, <2>3, <2>4, <2>5 DEF Promise!Next
<1>2. ASSUME NEW k \in Keys, Later(k) \/ Age(k) PROVE UNCHANGED Promise!vars
  <2>0. rec \in [Keys -> Records] /\ rec[k] \in Records BY DEF IndInv, TypeOK
  <2>1. PICK r \in {[rec[k] EXCEPT !.next = "now"], [rec[k] EXCEPT !.old = TRUE]} :
          rec' = [rec EXCEPT ![k] = r]
    BY <1>2, <2>0 DEF Later, Age
  <2>2. /\ r.row = rec[k].row /\ r.notified = rec[k].notified /\ r.surfaced = rec[k].surfaced
        /\ r.dismissed = rec[k].dismissed /\ r.exhausted = rec[k].exhausted
    BY <2>0 DEF Records
  <2>3. LogOf(r) = LogOf(rec[k]) BY <2>2 DEF LogOf
  <2>4. \A j \in Keys : LogOf(rec'[j]) = LogOf(rec[j]) BY <2>0, <2>1, <2>3
  <2>5. inbox' = inbox /\ sending' = sending BY <1>2 DEF Later, Age, still, broker
  <2> QED BY <2>4, <2>5, Unlogged
<1>3. ASSUME NEW w \in Watches, Drain(w) \/ Expire(w) PROVE UNCHANGED Promise!vars
  <2>1. UNCHANGED <<inbox, sending, rec>> BY <1>3 DEF Drain, Expire, idle, still, store, broker
  <2> QED BY <2>1, Unlogged
<1> QED BY <1>1, <1>2, <1>3, AckLogged DEF World

\* Every step of the runtime is a step of Delivery, or none.
LEMMA DeliveryStep == IndInv /\ SentOnly /\ [Next]_vars => [Promise!Next]_Promise!vars
<1> SUFFICES ASSUME IndInv, SentOnly, [Next]_vars PROVE [Promise!Next]_Promise!vars OBVIOUS
<1>1. CASE UNCHANGED <<inbox, sending, rec>> BY <1>1, Unlogged
<1>2. ASSUME NEW w \in Watches, Worker(w) PROVE [Promise!Next]_Promise!vars
  <2>1. CASE Top(w) \/ Replay(w) \/ CatchUpNext(w) \/ Listen(w) \/ Receive(w) \/ StreamEnd(w)
             \/ Done(w)
    BY <1>1, <2>1 DEF Top, Replay, CatchUpNext, Listen, Receive, StreamEnd, Done, quiet, store,
                      broker
  <2> QED BY <1>2, <2>1, AckLogged, HandlerLogged, Basics DEF Worker
<1>3. CASE Sweeper
  <2>1. CASE SweepQuery \/ SweepNext \/ SweepRelease \/ SweepRefresh
    BY <1>1, <2>1 DEF SweepQuery, SweepNext, SweepRelease, SweepRefresh, quiet, store, broker
  <2> QED BY <1>3, <2>1, HandlerLogged, Basics DEF Sweeper
<1>4. CASE Reconciler \/ Start \/ Stop \/ Stopped \/ Crash \/ UNCHANGED vars
  BY <1>1, <1>4 DEF Reconciler, ReconcileList, ReconcileStart, StopWatch, WatchStopped, StopAll,
                    AllStopped, Start, Stop, Rest, Stopped, Crash, Gone, vars, broker, store
<1>5. CASE Maintenance
  <2>1. CASE PruneExpiredWatches \/ \E w \in Watches : RefreshTracked(w)
    BY <1>1, <2>1 DEF PruneExpiredWatches, RefreshTracked, still, store, broker
  <2> QED BY <1>5, <2>1, PruneLogged DEF Maintenance
<1> QED BY <1>2, <1>3, <1>4, <1>5, CommandLogged, WorldLogged DEF Next

\* Local delivery implements Delivery, for any number of watches, messages and
\* faults: nothing is recorded that was not sent, nothing is acked that is not
\* recorded, no ack is taken back after the push, what the agent was told stays told,
\* and nothing that waits is pruned.
THEOREM DeliveryRefinement == Spec => ImplementsDelivery
<1>1. Init => Promise!Init
  <2>1. Init => Log = [k \in Keys |-> "none"] BY DEF Init, Log, LogOf, NoRec
  <2> QED BY <2>1 DEF Init, Promise!Init
<1> QED BY <1>1, DeliveryStep, Invariance, SentInvariance, PTL
        DEF Spec, ImplementsDelivery, Promise!Spec

=============================================================================
