----------------------------- MODULE TaskStore -----------------------------
(***************************************************************************)
(* The task queue of the waggle broker: internal/tasks (store, dependency  *)
(* resolution, lease and TTL checkers) under the task handlers of          *)
(* internal/broker/router.go.                                              *)
(*                                                                         *)
(* One step is one SQL statement.  The broker opens the database with      *)
(* SetMaxOpenConns(1), and Store.Claim sends BEGIN IMMEDIATE, its SELECT,  *)
(* its UPDATE and COMMIT or ROLLBACK as separate calls on that pool: the   *)
(* statements of the other sessions and of the checkers run on the same    *)
(* connection, hence inside the transaction a claim has open.  db is what  *)
(* a statement on the connection sees; durable is what a ROLLBACK or a     *)
(* crash goes back to.  A statement waits while another one's result rows  *)
(* are open, and a claim waits for claimMu.                                *)
(***************************************************************************)
EXTENDS Integers, FiniteSets

CONSTANTS
    Agents,         \* session names that send requests
    NoAgent,        \* claimed_by IS NULL
    MaxTasks,       \* bound: rows the table may hold
    Params,         \* the CreateParams that clients send
    Keys,           \* idempotency keys, NoKey among them
    NoKey,          \* idempotency_key IS NULL
    NoParams,       \* no request of a client to create a task
    Filters,        \* claim filters, each as the set of ids it matches
    Prios,          \* priorities that task update writes
    LeaseDuration,  \* config.Defaults.LeaseDuration, in ticks
    MaxTime,        \* bound: ticks of the clock
    MaxTokens       \* bound: claim tokens that are generated

Ids == 1..MaxTasks

Terminal == {"completed", "failed", "canceled"}

ASSUME ConstantsAssumption ==
    /\ MaxTasks \in Nat /\ MaxTime \in Nat /\ MaxTokens \in Nat
    /\ LeaseDuration \in Nat \ {0}
    /\ NoAgent \notin Agents
    /\ Prios \subseteq Nat \ {0}
    /\ Filters \subseteq SUBSET Ids
    /\ NoKey \in Keys
    /\ Params \subseteq [deps: SUBSET Ids, key: Keys, maxRetries: Nat, ttl: Nat,
                        prio: Nat]
    /\ NoParams \notin Params

VARIABLES
    db,         \* the tasks table as the connection sees it
    durable,    \* the tasks table as last committed
    txn,        \* a claim has its transaction open on the connection
    claimMu,    \* Store.claimMu: the session whose claim holds it, or NoAgent
    conn,       \* the session whose result rows keep the connection, or NoAgent
    lastTok,    \* the last claim token generated
    now,        \* the clock, in ticks
    up,         \* the broker process is running
    pc,         \* where the handler of each session is
    loc,        \* the handler's local variables
    lcAt,       \* the time the lease checker read for its second statement
    done        \* ids whose task.complete was answered with OK

vars == <<db, durable, txn, claimMu, conn, lastTok, now, up, pc, loc, lcAt, done>>

-----------------------------------------------------------------------------
\* Rows.  A row in state "absent" is an id that AUTOINCREMENT has not given
\* out.  NULL is 0 for claim_token, lease_expires_at and ttl.  claimed_at goes
\* with claim_token; result, failure_reason and updated_at are left out.

Absent ==
    [state |-> "absent", blocked |-> FALSE, deps |-> {}, key |-> NoKey,
     prio |-> 0, token |-> 0, owner |-> NoAgent, lease |-> 0, retries |-> 0,
     maxRetries |-> 0, created |-> 0, ttl |-> 0]

\* The row Create inserts: any depends_on, even one that is completed or does
\* not exist, starts the task blocked.
NewRow(p) ==
    [state |-> "pending", blocked |-> p.deps # {}, deps |-> p.deps,
     key |-> p.key, prio |-> p.prio, token |-> 0, owner |-> NoAgent,
     lease |-> 0, retries |-> 0, maxRetries |-> p.maxRetries,
     created |-> now, ttl |-> p.ttl]

ClaimedRow(r, a, t, l) ==
    [r EXCEPT !.state = "claimed", !.token = t, !.owner = a, !.lease = l]

\* Mutants: the lease is not reset, the state is not.
UnclaimedKeepsLease(r, s) ==
    [r EXCEPT !.state = s, !.token = 0, !.owner = NoAgent, !.retries = @ + 1]

UnclaimedKeepsState(r, s) ==
    [r EXCEPT !.token = 0, !.owner = NoAgent, !.lease = 0, !.retries = @ + 1]

\* The row with its claim given back, in the state given.
Unclaimed(r, s) ==
    [r EXCEPT !.state = s, !.token = 0, !.owner = NoAgent, !.lease = 0,
              !.retries = @ + 1]

Idle ==
    [id |-> 0, token |-> 0, lease |-> 0, todo |-> {}, cand |-> 0, need |-> {},
     par |-> NoParams]

\* Claim holds claimMu in these steps, and has its transaction open in TxSteps.
TxSteps == {"select", "update", "commit", "rollback"}
ClaimSteps == TxSteps \cup {"reply"}

\* A query has its result rows open in these.
RowSteps == {"rows", "failrows"}

Init ==
    /\ db = [i \in Ids |-> Absent]
    /\ durable = db
    /\ txn = FALSE
    /\ claimMu = NoAgent
    /\ conn = NoAgent
    /\ lastTok = 0
    /\ now = 0
    /\ up = TRUE
    /\ pc = [a \in Agents |-> "idle"]
    /\ loc = [a \in Agents |-> Idle]
    /\ lcAt = -1
    /\ done = {}

-----------------------------------------------------------------------------
\* Mutant: the statement commits even while a claim is open.
ExecCommits(new) == db' = new /\ durable' = new

\* A write statement on the one connection: it commits by itself unless a
\* claim's transaction is open.
Exec(new) ==
    /\ db' = new
    /\ durable' = IF txn THEN durable ELSE new

\* UPDATE tasks SET ... WHERE, with S the rows that match.
SetState(S, s) ==
    [i \in Ids |-> IF i \in S THEN [db[i] EXCEPT !.state = s] ELSE db[i]]

GiveBack(S, s) ==
    [i \in Ids |-> IF i \in S THEN Unclaimed(db[i], s) ELSE db[i]]

Goto(a, step, l) ==
    /\ pc' = [pc EXCEPT ![a] = step]
    /\ loc' = [loc EXCEPT ![a] = l]

Return(a) == Goto(a, "idle", Idle)

\* The process runs, and the next statement gets the connection.
Free == up /\ conn = NoAgent

Ready(a) == Free /\ pc[a] = "idle"
At(a, step) == Free /\ pc[a] = step

StayHandler == UNCHANGED <<pc, loc>>
Rest == UNCHANGED <<txn, claimMu, conn, lastTok, now, up, lcAt, done>>


-----------------------------------------------------------------------------
\* task.create.  The look-up of an idempotency key and the INSERT are two
\* statements; the UNIQUE index turns a lost race into an error.

KeyTaken(k) == k # NoKey /\ \E i \in Ids : db[i].state # "absent" /\ db[i].key = k

TableFull == \A i \in Ids : db[i].state # "absent"

CreateLookup(a, p) ==
    /\ Ready(a)
    /\ p.key # NoKey
    /\ ~KeyTaken(p.key)
    /\ Goto(a, "insert", [Idle EXCEPT !.par = p])
    /\ UNCHANGED <<db, durable>> /\ Rest

\* AUTOINCREMENT: the smallest id above every id in the table.
Insert(a, p) ==
    /\ \/ /\ ~KeyTaken(p.key)
          /\ \E i \in Ids :
                /\ db[i].state = "absent"
                /\ \A j \in Ids : j < i => db[j].state # "absent"
                /\ Exec([db EXCEPT ![i] = NewRow(p)])
       \/ /\ KeyTaken(p.key) \/ TableFull
          /\ UNCHANGED <<db, durable>>
    /\ Return(a)
    /\ Rest

Create(a, p) == Ready(a) /\ p.key = NoKey /\ ~TableFull /\ Insert(a, p)

CreateInsert(a) == At(a, "insert") /\ Insert(a, loc[a].par)

-----------------------------------------------------------------------------
\* task.claim.

\* The request comes in, and waits for claimMu.  It is taken up only while
\* MaxTokens leaves a token for every claim that waits.
ClaimRequest(a) ==
    /\ up /\ pc[a] = "idle"
    /\ lastTok + Cardinality({b \in Agents : pc[b] = "claim"}) < MaxTokens
    /\ Goto(a, "claim", Idle)
    /\ UNCHANGED <<db, durable>> /\ Rest

\* Mutants: one token for every claim; no BEGIN.
ClaimBeginSameToken(a) ==
    /\ At(a, "claim")
    /\ claimMu = NoAgent /\ claimMu' = a
    /\ lastTok' = 1
    /\ txn' = TRUE
    /\ Goto(a, "select", [Idle EXCEPT !.token = 1, !.lease = now + LeaseDuration])
    /\ UNCHANGED <<db, durable, conn, now, up, lcAt, done>>

ClaimBeginNoTxn(a) ==
    /\ At(a, "claim")
    /\ claimMu = NoAgent /\ claimMu' = a
    /\ lastTok' = lastTok + 1
    /\ Goto(a, "select", [Idle EXCEPT !.token = lastTok + 1,
                                      !.lease = now + LeaseDuration])
    /\ UNCHANGED <<db, durable, txn, conn, now, up, lcAt, done>>

\* claimMu.Lock, the random token, the lease, BEGIN IMMEDIATE.
ClaimBegin(a) ==
    /\ At(a, "claim")
    /\ claimMu = NoAgent /\ claimMu' = a
    /\ lastTok' = lastTok + 1
    /\ txn' = TRUE
    /\ Goto(a, "select", [Idle EXCEPT !.token = lastTok + 1,
                                      !.lease = now + LeaseDuration])
    /\ UNCHANGED <<db, durable, conn, now, up, lcAt, done>>

Eligible(match) == {i \in match : db[i].state = "pending" /\ ~db[i].blocked}

\* ORDER BY priority DESC, created_at ASC LIMIT 1.
Before(i, j) ==
    \/ db[i].prio > db[j].prio
    \/ db[i].prio = db[j].prio /\ db[i].created < db[j].created

ClaimSelect(a, match) ==
    /\ At(a, "select")
    /\ \/ /\ Eligible(match) = {}
          /\ Goto(a, "rollback", loc[a])
       \/ \E i \in Eligible(match) :
            /\ \A j \in Eligible(match) : ~Before(j, i)
            /\ Goto(a, "update", [loc[a] EXCEPT !.id = i])
    /\ UNCHANGED <<db, durable>> /\ Rest

\* UPDATE ... WHERE id = ?: the state the SELECT saw is not tested again.
ClaimUpdate(a) ==
    /\ At(a, "update")
    /\ LET l == loc[a] IN
         /\ Exec([db EXCEPT ![l.id] = ClaimedRow(@, a, l.token, l.lease)])
         /\ Goto(a, "commit", l)
    /\ Rest

ClaimCommit(a) ==
    /\ At(a, "commit")
    /\ durable' = db
    /\ txn' = FALSE
    /\ Goto(a, "reply", loc[a])
    /\ UNCHANGED <<db, claimMu, conn, lastTok, now, up, lcAt, done>>

\* Mutant: the return for "no eligible tasks" leaves claimMu locked.
ClaimRollbackLocked(a) ==
    /\ At(a, "rollback")
    /\ db' = durable
    /\ txn' = FALSE
    /\ Return(a)
    /\ UNCHANGED <<durable, claimMu, conn, lastTok, now, up, lcAt, done>>

\* "no eligible tasks": every statement since BEGIN is undone.
ClaimRollback(a) ==
    /\ At(a, "rollback")
    /\ db' = durable
    /\ txn' = FALSE
    /\ claimMu' = NoAgent
    /\ Return(a)
    /\ UNCHANGED <<durable, conn, lastTok, now, up, lcAt, done>>

\* The row is read back for the reply, then claimMu is unlocked.
ClaimReply(a) ==
    /\ At(a, "reply")
    /\ claimMu' = NoAgent
    /\ Return(a)
    /\ UNCHANGED <<db, durable, txn, conn, lastTok, now, up, lcAt, done>>

-----------------------------------------------------------------------------
\* Handlers that present a claim token.

HoldsClaim(i, t) == db[i].state = "claimed" /\ db[i].token = t

Complete(a, i, t) ==
    /\ Ready(a)
    /\ HoldsClaim(i, t)
    /\ Exec([db EXCEPT ![i].state = "completed"])
    /\ Goto(a, "resolve", [Idle EXCEPT !.id = i])
    /\ Rest

Fail(a, i, t) ==
    /\ Ready(a)
    /\ HoldsClaim(i, t)
    /\ Exec([db EXCEPT ![i].state = "failed"])
    /\ Goto(a, "cascade", [Idle EXCEPT !.id = i])
    /\ Rest

Heartbeat(a, i, t) ==
    /\ Ready(a)
    /\ HoldsClaim(i, t)
    /\ Exec([db EXCEPT ![i].lease = now + LeaseDuration])
    /\ StayHandler /\ Rest

\* Any session may cancel any task; no token, no cascade to dependents.
Cancel(a, i) ==
    /\ Ready(a)
    /\ db[i].state \in {"pending", "claimed"}
    /\ Exec([db EXCEPT ![i].state = "canceled"])
    /\ StayHandler /\ Rest

\* task.update writes the priority of a row in any state.
Update(a, i, p) ==
    /\ Ready(a)
    /\ db[i].state # "absent"
    /\ Exec([db EXCEPT ![i].prio = p])
    /\ StayHandler /\ Rest

-----------------------------------------------------------------------------
\* ResolveDeps, run by the handler of task.complete before it answers.

\* The pending blocked tasks that list id in depends_on, with their depends_on.
Dependents(id) ==
    {[id |-> j, deps |-> db[j].deps] :
        j \in {k \in Ids : /\ db[k].state = "pending"
                           /\ db[k].blocked
                           /\ id \in db[k].deps}}

\* db.Query: the dependents as it finds them, with the connection kept until
\* rows.Close.
OpenRows(a, step) ==
    /\ conn' = a
    /\ Goto(a, step, [loc[a] EXCEPT !.todo = Dependents(loc[a].id)])
    /\ UNCHANGED <<db, durable, txn, claimMu, lastTok, now, up, lcAt, done>>

AtRows(a, step) == up /\ conn = a /\ pc[a] = step

CloseRows(a, step) ==
    /\ conn' = NoAgent
    /\ Goto(a, step, loc[a])
    /\ UNCHANGED <<db, durable, txn, claimMu, lastTok, now, up, lcAt, done>>

ResolveQuery(a) ==
    /\ At(a, "resolve")
    /\ OpenRows(a, "rows")

\* The candidates are collected and the rows closed before any is checked.
RowsClose(a) ==
    /\ AtRows(a, "rows")
    /\ CloseRows(a, "resolving")

ResolveNext(a) ==
    /\ up /\ pc[a] = "resolving"
    /\ \E c \in loc[a].todo :
         Goto(a, "checking", [loc[a] EXCEPT !.todo = @ \ {c}, !.cand = c.id,
                                            !.need = c.deps])
    /\ UNCHANGED <<db, durable>> /\ Rest

\* Both an error from ResolveDeps and its end are answered with OK.
CompleteReply(a) ==
    /\ Return(a)
    /\ done' = done \cup {loc[a].id}
    /\ UNCHANGED <<db, durable, txn, claimMu, conn, lastTok, now, up, lcAt>>

ResolveDone(a) ==
    /\ up /\ pc[a] = "resolving"
    /\ loc[a].todo = {}
    /\ CompleteReply(a)

\* Get of one dependency: missing aborts, not completed skips the candidate.
ResolveCheck(a, d) ==
    /\ At(a, "checking")
    /\ d \in loc[a].need
    /\ \/ /\ db[d].state = "absent"
          /\ CompleteReply(a)
       \/ /\ db[d].state \notin {"absent", "completed"}
          /\ Goto(a, "resolving", [loc[a] EXCEPT !.cand = 0, !.need = {}])
          /\ UNCHANGED <<db, durable>> /\ Rest
       \/ /\ db[d].state = "completed"
          /\ Goto(a, "checking", [loc[a] EXCEPT !.need = @ \ {d}])
          /\ UNCHANGED <<db, durable>> /\ Rest

\* UPDATE tasks SET blocked = 0 WHERE id = ?.
ResolveUnblock(a) ==
    /\ At(a, "checking")
    /\ loc[a].need = {}
    /\ Exec([db EXCEPT ![loc[a].cand].blocked = FALSE])
    /\ Goto(a, "resolving", [loc[a] EXCEPT !.cand = 0])
    /\ Rest

-----------------------------------------------------------------------------
\* FailDependents, run by the handler of task.fail: direct dependents only.

FailQuery(a) ==
    /\ At(a, "cascade")
    /\ OpenRows(a, "failrows")

FailRowsClose(a) ==
    /\ AtRows(a, "failrows")
    /\ CloseRows(a, "cascading")

\* UPDATE tasks SET state = 'failed' WHERE id = ?: no test of the state.
FailDependent(a) ==
    /\ At(a, "cascading")
    /\ \E c \in loc[a].todo :
         /\ Exec(SetState({i \in {c.id} : db[i].state # "absent"}, "failed"))
         /\ Goto(a, "cascading", [loc[a] EXCEPT !.todo = @ \ {c}])
    /\ Rest

FailDone(a) ==
    /\ up /\ pc[a] = "cascading"
    /\ loc[a].todo = {}
    /\ Return(a)
    /\ UNCHANGED <<db, durable>> /\ Rest

-----------------------------------------------------------------------------
\* Session cleanup, the two checkers, the clock, crash and restart.

Claimed == {i \in Ids : db[i].state = "claimed"}

\* Mutant: WHERE claimed_by = ? without the state.
RequeueAnyState(a) ==
    /\ Ready(a)
    /\ Exec(GiveBack({i \in Ids : db[i].owner = a}, "pending"))
    /\ StayHandler /\ Rest

\* Unclean disconnect of session a: every task it has claimed goes back,
\* whatever its retry count.
RequeueByOwner(a) ==
    /\ Ready(a)
    /\ Exec(GiveBack({i \in Claimed : db[i].owner = a}, "pending"))
    /\ StayHandler /\ Rest

\* Mutant: a lease that ends now counts as expired.
ExpiredEarly(t) == {i \in Claimed : db[i].lease <= t}

Expired(t) == {i \in Claimed : db[i].lease < t}

\* Mutant: > for >=, so that a task on its last retry matches neither statement.
LeaseFailLate ==
    /\ Free /\ lcAt = -1
    /\ Exec(GiveBack({i \in Expired(now) : db[i].retries + 1 > db[i].maxRetries},
                     "failed"))
    /\ lcAt' = now
    /\ StayHandler /\ UNCHANGED <<txn, claimMu, conn, lastTok, now, up, done>>

\* RequeueExpiredLeases, first statement: out of retries.
LeaseFail ==
    /\ Free /\ lcAt = -1
    /\ Exec(GiveBack({i \in Expired(now) : db[i].retries + 1 >= db[i].maxRetries},
                     "failed"))
    /\ lcAt' = now
    /\ StayHandler /\ UNCHANGED <<txn, claimMu, conn, lastTok, now, up, done>>

\* Second statement, with the time the first one used.
LeaseRequeue ==
    /\ Free /\ lcAt # -1
    /\ Exec(GiveBack({i \in Expired(lcAt) : db[i].retries + 1 < db[i].maxRetries},
                     "pending"))
    /\ lcAt' = -1
    /\ StayHandler /\ UNCHANGED <<txn, claimMu, conn, lastTok, now, up, done>>

TTLExpired ==
    {i \in Ids : /\ db[i].state = "pending" /\ ~db[i].blocked
                 /\ db[i].ttl # 0 /\ now >= db[i].created + db[i].ttl}

CancelExpiredTTL ==
    /\ Free
    /\ Exec(SetState(TTLExpired, "canceled"))
    /\ StayHandler /\ Rest

Tick ==
    /\ now < MaxTime
    /\ now' = now + 1
    /\ UNCHANGED <<db, durable, txn, claimMu, conn, lastTok, up, pc, loc, lcAt, done>>

\* The process dies; SQLite drops the open transaction.
Crash ==
    /\ up
    /\ up' = FALSE
    /\ db' = durable
    /\ txn' = FALSE
    /\ claimMu' = NoAgent /\ conn' = NoAgent
    /\ pc' = [a \in Agents |-> "idle"]
    /\ loc' = [a \in Agents |-> Idle]
    /\ lcAt' = -1
    /\ UNCHANGED <<durable, lastTok, now, done>>

\* Serve calls RequeueAllClaimed before it accepts a connection.
Restart ==
    /\ ~up
    /\ up' = TRUE
    /\ Exec(GiveBack(Claimed, "pending"))
    /\ StayHandler /\ UNCHANGED <<txn, claimMu, conn, lastTok, now, lcAt, done>>

-----------------------------------------------------------------------------
\* A request a client sends, the handler's next step, and the broker's own.

Request(a) ==
    \/ \E p \in Params : CreateLookup(a, p) \/ Create(a, p)
    \/ ClaimRequest(a)
    \/ \E i \in Ids, t \in 1..MaxTokens :
          Complete(a, i, t) \/ Fail(a, i, t) \/ Heartbeat(a, i, t)
    \/ \E i \in Ids : Cancel(a, i)
    \/ \E i \in Ids, p \in Prios : Update(a, i, p)
    \/ RequeueByOwner(a)

HandlerStep(a) ==
    \/ CreateInsert(a)
    \/ ClaimBegin(a)
    \/ \E match \in Filters : ClaimSelect(a, match)
    \/ ClaimUpdate(a)
    \/ ClaimCommit(a)
    \/ ClaimRollback(a)
    \/ ClaimReply(a)
    \/ ResolveQuery(a)
    \/ RowsClose(a)
    \/ ResolveNext(a)
    \/ ResolveDone(a)
    \/ \E d \in Ids : ResolveCheck(a, d)
    \/ ResolveUnblock(a)
    \/ FailQuery(a)
    \/ FailRowsClose(a)
    \/ FailDependent(a)
    \/ FailDone(a)

Checker == LeaseFail \/ LeaseRequeue \/ CancelExpiredTTL

Next ==
    \/ \E a \in Agents : Request(a) \/ HandlerStep(a)
    \/ Checker
    \/ Tick
    \/ Crash
    \/ Restart

Spec == Init /\ [][Next]_vars

\* A handler that can go on does, and the checkers' tickers fire.  Weak fairness
\* is enough for the claims that wait, because claimMu changes hands at most
\* MaxTokens times; without that bound it would take sync.Mutex's promise to
\* starve nobody.
FairSpec ==
    /\ Spec
    /\ \A a \in Agents : WF_vars(HandlerStep(a))
    /\ WF_vars(LeaseFail) /\ WF_vars(LeaseRequeue) /\ WF_vars(CancelExpiredTTL)

-----------------------------------------------------------------------------
\* Types.

States == Terminal \cup {"absent", "pending", "claimed"}

Row ==
    [state: States, blocked: BOOLEAN, deps: SUBSET Ids, key: Keys, prio: Nat,
     token: Nat, owner: Agents \cup {NoAgent}, lease: Nat, retries: Nat,
     maxRetries: Nat, created: Nat, ttl: Nat]

Local ==
    [id: Ids \cup {0}, token: Nat, lease: Nat,
     todo: SUBSET [id: Ids, deps: SUBSET Ids], cand: Ids \cup {0},
     need: SUBSET Ids, par: Params \cup {NoParams}]

Steps == ClaimSteps \cup RowSteps \cup
         {"idle", "insert", "claim", "resolve", "resolving", "checking", "cascade",
          "cascading"}

\* The shape of the state.
TypeOK ==
    /\ db \in [Ids -> Row] /\ durable \in [Ids -> Row]
    /\ txn \in BOOLEAN /\ up \in BOOLEAN
    /\ claimMu \in Agents \cup {NoAgent} /\ conn \in Agents \cup {NoAgent}
    /\ lastTok \in Nat /\ now \in Nat /\ lcAt \in Nat \cup {-1}
    /\ pc \in [Agents -> Steps] /\ loc \in [Agents -> Local]
    /\ done \subseteq Ids

-----------------------------------------------------------------------------
\* Properties.

\* In either view of the table a claimed task is unblocked and names its
\* holder, its token and its lease, and a pending one names none: whatever ran
\* between a claim's SELECT and its UPDATE, and whatever a rollback undid.
CoherentRow(r) ==
    /\ r.state = "claimed" =>
          ~r.blocked /\ r.token # 0 /\ r.owner # NoAgent /\ r.lease # 0
    /\ r.state \in {"absent", "pending"} =>
          r.token = 0 /\ r.owner = NoAgent /\ r.lease = 0

ClaimsCoherent == \A i \in Ids : CoherentRow(db[i]) /\ CoherentRow(durable[i])

\* A claim token authorises work on one task only.
UniqueTokens(t) ==
    \A i, j \in Ids : t[i].token # 0 /\ t[i].token = t[j].token => i = j

TokensUnique == UniqueTokens(db) /\ UniqueTokens(durable)

\* In the committed table a finished task stays finished, and only the failure
\* of a dependency may still rewrite how it ended: a claim that selected the
\* task before it ended, a rollback, a crash or a restart never reopens it.
DurableFinished ==
    [][\A i \in Ids : durable[i].state \in Terminal =>
          durable'[i].state \in {durable[i].state, "failed"}]_vars

\* A token enters the committed table once, by the COMMIT of the claim that
\* generated it: a token that was given back never authorises anyone again.
TokensFresh ==
    [][\A i \in Ids : durable'[i].token \notin {0, durable[i].token} =>
          durable'[i].token = lastTok /\ txn /\ ~txn']_vars

\* The committed table is the ledger of TaskLedger.
Ledger == INSTANCE TaskLedger WITH
    status <- [i \in Ids |-> durable[i].state],
    token  <- [i \in Ids |-> durable[i].token],
    issued <- lastTok

\* Every step of the store is, on the committed table, one statement of the
\* lifecycle or the commit of one claim.
ImplementsLedger == Ledger!Spec

\* Each claim costs its task at most one retry, however the disconnect of its
\* holder, the lease checker and a restart race to give it back.
Cost(r) == r.retries + (IF r.state = "claimed" THEN 1 ELSE 0)

RetriesCharged == \A i \in Ids : Cost(db[i]) <= lastTok /\ Cost(durable[i]) <= lastTok

\* The lease checker takes back no claim whose lease is still running, although
\* its second statement uses the time the first one read.
LiveLeaseKept ==
    [][lcAt' # lcAt /\ up' => \A i \in Claimed :
          db'[i].state # "claimed" => db[i].lease < now]_vars

\* A session's request is answered, or the broker dies: no handler waits for
\* ever on the connection, which the rows of another handler may keep, or on
\* claimMu, which a claim holds over all its statements and early returns.
HandlerReturns == \A a \in Agents : pc[a] # "idle" ~> pc[a] = "idle"

\* A committed claim whose lease has run out is taken back or renewed.
Overdue(i) == up /\ durable[i].state = "claimed" /\ durable[i].lease < now

OverdueReleased == \A i \in Ids : Overdue(i) ~> ~Overdue(i)

-----------------------------------------------------------------------------
\* What the documents say and the code does not do.

\* README: "Completed / Failed / Canceled - terminal states".  A task whose
\* completion was answered with OK stays completed while the broker runs.
CompletedStays ==
    [][\A i \in done : db[i].state = "completed" /\ up' =>
          db'[i].state = "completed"]_vars

=============================================================================
