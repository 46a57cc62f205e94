-------------------------- MODULE TaskStoreProofs --------------------------
(***************************************************************************)
(* Proofs about TaskStore, for every set of sessions, every set of tasks   *)
(* that clients create and every bound.                                    *)
(***************************************************************************)
EXTENDS TaskStore, TLAPS

-----------------------------------------------------------------------------
\* The inductive invariant.

\* claimMu is held by the session that is in a claim and by no other, and the
\* connection is kept by the one whose rows are open: no lock is left behind.
LocksHeld ==
    \A a \in Agents : /\ claimMu = a <=> pc[a] \in ClaimSteps
                      /\ conn = a <=> pc[a] \in RowSteps

\* The open transaction is the one of the claim that holds claimMu.
ClaimLocked ==
    /\ LocksHeld
    /\ txn <=> \E a \in Agents : pc[a] \in TxSteps
    /\ ~up => ~txn

\* What the local variables of a handler hold at each of its steps.
LocalsOK ==
    \A a \in Agents :
       /\ pc[a] \in TxSteps => loc[a].token = lastTok /\ lastTok # 0
       /\ pc[a] \in {"select", "update"} => loc[a].lease # 0
       /\ pc[a] = "update" => loc[a].id \in Ids
       /\ pc[a] = "insert" => loc[a].par \in Params
       /\ pc[a] \in {"resolve", "rows", "resolving", "checking"} => loc[a].id \in Ids

\* Without an open transaction the two views agree.
Settled == ~txn => durable = db

\* With one, what is finished in the committed table is finished for everyone,
\* a claim or a token that is not committed is the open claim's, and no row that
\* is committed is gone.
Shadowed ==
    txn => \A i \in Ids :
       /\ durable[i].state \in Terminal =>
             db[i].state \in {durable[i].state, "failed"}
       /\ db[i].state = "absent" => durable[i].state = "absent"
       /\ db[i].token \in {0, durable[i].token, lastTok}
       /\ db[i].state = "claimed" /\ db[i].token # lastTok =>
             durable[i].state = "claimed"
       /\ durable[i].token # lastTok

\* The open claim's token is on no row until its UPDATE.
TokenUnused ==
    \A a \in Agents : pc[a] \in {"select", "update"} =>
       \A i \in Ids : db[i].token # lastTok

TokenBound == \A i \in Ids : db[i].token <= lastTok /\ durable[i].token <= lastTok

\* The row that a claim selected was not finished when its transaction began,
\* and is still there, unblocked, whatever ran since the SELECT.
SelectedOK ==
    \A a \in Agents : pc[a] = "update" =>
       /\ ~db[loc[a].id].blocked
       /\ db[loc[a].id].state # "absent"
       /\ durable[loc[a].id].state \notin Terminal

\* Until its UPDATE the open claim has cost no task anything yet: every row is
\* paid for by the claims before it.
Unspent ==
    \A a \in Agents : pc[a] \in {"select", "update"} =>
       \A i \in Ids : Cost(db[i]) < lastTok

RowsOK ==
    /\ Settled /\ Shadowed /\ TokenUnused /\ TokenBound /\ SelectedOK
    /\ ClaimsCoherent /\ TokensUnique /\ RetriesCharged /\ Unspent

IndInv == TypeOK /\ ClaimLocked /\ LocalsOK /\ RowsOK

-----------------------------------------------------------------------------
\* What a statement other than a claim's UPDATE does to one row.
Quiet(r, q) ==
    /\ q \in Row
    /\ q.token \in {0, r.token}
    /\ r.state # "absent" /\ ~r.blocked => ~q.blocked
    /\ q.state \in Ledger!Successors(r.state)
    /\ Cost(q) <= Cost(r)
    /\ CoherentRow(q)

\* What a row has cost is a natural number.
LEMMA CostNat == \A r \in Row : Cost(r) \in Nat /\ Cost(r) >= r.retries /\ r.retries \in Nat
BY DEF Cost, Row

\* An unchanged row is quiet.
LEMMA QuietSame ==
    ASSUME NEW r \in Row, CoherentRow(r)
    PROVE  Quiet(r, r)
BY CostNat DEF Ledger!Successors, Quiet

\* Giving back a claim.
LEMMA QuietUnclaimed ==
    ASSUME NEW r \in Row, r.state = "claimed", CoherentRow(r),
           NEW s \in {"pending", "failed"}
    PROVE  Quiet(r, Unclaimed(r, s))
<1> SUFFICES ASSUME NEW q, q = Unclaimed(r, s)
             PROVE  Quiet(r, q)
  OBVIOUS
<1>a. s \in States
  BY DEF States, Terminal
<1>b. r.retries + 1 \in Nat
  BY DEF Row
<1>1. q \in Row
  BY <1>a, <1>b DEF Unclaimed, Row
<1>2. /\ q.state = s /\ q.token = 0 /\ q.owner = NoAgent /\ q.lease = 0
      /\ q.blocked = r.blocked /\ q.retries = r.retries + 1
  BY DEF Unclaimed, Row
<1>3. Cost(q) <= Cost(r)
  BY <1>2, CostNat DEF Cost
<1> QED
  BY <1>1, <1>2, <1>3 DEF Ledger!Successors, Quiet, CoherentRow, Terminal

\* Ending a task.
LEMMA QuietEnded ==
    ASSUME NEW r \in Row, CoherentRow(r), r.state # "absent", NEW s \in Terminal,
           r.state \in Terminal => s = "failed",
           s = "completed" => r.state = "claimed"
    PROVE  Quiet(r, [r EXCEPT !.state = s])
<1> SUFFICES ASSUME NEW q, q = [r EXCEPT !.state = s]
             PROVE  Quiet(r, q)
  OBVIOUS
<1>1. q \in Row
  BY DEF Row, States
<1>2. q.state = s /\ q.token = r.token /\ q.blocked = r.blocked /\ q.retries = r.retries
  BY DEF Row
<1>3. r.state \in {"pending", "claimed"} \cup Terminal
  BY DEF Row, States
<1>4. s \in Ledger!Successors(r.state)
  BY <1>3 DEF Ledger!Successors, Terminal
<1>5. Cost(q) <= Cost(r)
  BY <1>2, CostNat DEF Cost, Terminal
<1> QED
  BY <1>1, <1>2, <1>4, <1>5 DEF Ledger!Successors, Quiet, CoherentRow, Terminal

\* Renewing a lease.
LEMMA QuietLease ==
    ASSUME NEW r \in Row, CoherentRow(r), r.state = "claimed", NEW l \in Nat \ {0}
    PROVE  Quiet(r, [r EXCEPT !.lease = l])
<1> SUFFICES ASSUME NEW q, q = [r EXCEPT !.lease = l]
             PROVE  Quiet(r, q)
  OBVIOUS
<1>1. q \in Row
  BY DEF Row
<1>2. /\ q.state = r.state /\ q.token = r.token /\ q.owner = r.owner
      /\ q.blocked = r.blocked /\ q.lease = l
      /\ q.retries = r.retries
  BY DEF Row
<1>3. Cost(q) <= Cost(r)
  BY <1>2, CostNat DEF Cost
<1> QED
  BY <1>1, <1>2, <1>3 DEF Ledger!Successors, Quiet, CoherentRow, Terminal

\* Changing a priority.
LEMMA QuietPrio ==
    ASSUME NEW r \in Row, CoherentRow(r), NEW p \in Nat
    PROVE  Quiet(r, [r EXCEPT !.prio = p])
<1> SUFFICES ASSUME NEW q, q = [r EXCEPT !.prio = p]
             PROVE  Quiet(r, q)
  OBVIOUS
<1>1. q \in Row
  BY DEF Row
<1>2. /\ q.state = r.state /\ q.token = r.token /\ q.owner = r.owner
      /\ q.blocked = r.blocked /\ q.lease = r.lease
      /\ q.retries = r.retries
  BY DEF Row
<1>3. Cost(q) <= Cost(r)
  BY <1>2, CostNat DEF Cost
<1> QED
  BY <1>1, <1>2, <1>3 DEF Ledger!Successors, Quiet, CoherentRow, Terminal

\* Unblocking a task.
LEMMA QuietUnblocked ==
    ASSUME NEW r \in Row, CoherentRow(r)
    PROVE  Quiet(r, [r EXCEPT !.blocked = FALSE])
<1> SUFFICES ASSUME NEW q, q = [r EXCEPT !.blocked = FALSE]
             PROVE  Quiet(r, q)
  OBVIOUS
<1>1. q \in Row
  BY DEF Row
<1>2. /\ q.state = r.state /\ q.token = r.token /\ q.owner = r.owner
      /\ q.blocked = FALSE /\ q.lease = r.lease
      /\ q.retries = r.retries
  BY DEF Row
<1>3. Cost(q) <= Cost(r)
  BY <1>2, CostNat DEF Cost
<1> QED
  BY <1>1, <1>2, <1>3 DEF Ledger!Successors, Quiet, CoherentRow, Terminal

\* Inserting a task.
LEMMA QuietNew ==
    ASSUME NEW r \in Row, r.state = "absent", NEW p \in Params, now \in Nat
    PROVE  Quiet(r, NewRow(p))
<1>1. NewRow(p) \in Row
  BY ConstantsAssumption DEF NewRow, Row, States, Terminal
<1>2. /\ NewRow(p).state = "pending" /\ NewRow(p).token = 0
      /\ NewRow(p).owner = NoAgent /\ NewRow(p).lease = 0 /\ NewRow(p).retries = 0
  BY DEF NewRow
<1>3. Cost(NewRow(p)) <= Cost(r)
  BY <1>2, CostNat DEF Cost
<1> QED
  BY <1>1, <1>2, <1>3 DEF Ledger!Successors, Quiet, CoherentRow, Terminal

\* The locals of a handler that has not started are well typed.
LEMMA IdleType == Idle \in Local
BY DEF Idle, Local

\* The steps of a claim are steps, and being idle is none of them.
LEMMA StepTypes ==
    /\ TxSteps \subseteq ClaimSteps /\ ClaimSteps \subseteq Steps
    /\ "idle" \in Steps /\ "idle" \notin ClaimSteps /\ "idle" \notin RowSteps
    /\ ClaimSteps \cap RowSteps = {} /\ RowSteps \subseteq Steps
BY DEF TxSteps, ClaimSteps, RowSteps, Steps

\* A statement that touches rows quietly, while no claim moves, keeps RowsOK.
LEMMA QuietStep ==
    ASSUME IndInv,
           NEW new \in [Ids -> Row], \A i \in Ids : Quiet(db[i], new[i]),
           Exec(new), txn' = txn, lastTok' = lastTok,
           pc' \in [Agents -> Steps],
           \A a \in Agents : pc[a] \in TxSteps \/ pc'[a] \in TxSteps
                                => pc'[a] = pc[a] /\ loc'[a] = loc[a]
    PROVE  RowsOK'
<1> USE DEF IndInv, RowsOK, TypeOK
<1>1. db' = new /\ durable' = IF txn THEN durable ELSE new
  BY DEF Exec
<1>2. \A i \in Ids : db[i] \in Row /\ durable[i] \in Row /\ new[i] \in Row
  OBVIOUS
<1>3. Settled'
  BY <1>1 DEF Settled
<1>4. Shadowed'
  <2>1. ASSUME NEW i \in Ids
        PROVE  /\ db[i].state \in Terminal => new[i].state \in {db[i].state, "failed"}
               /\ new[i].state = "absent" => db[i].state = "absent"
               /\ new[i].token \in {0, db[i].token}
               /\ new[i].state = "claimed" =>
                     db[i].state = "claimed" /\ new[i].token = db[i].token
    BY DEF Quiet, CoherentRow, Ledger!Successors, Terminal
  <2>2. ASSUME txn, NEW i \in Ids
        PROVE  /\ durable[i].state \in Terminal =>
                     new[i].state \in {durable[i].state, "failed"}
               /\ new[i].state = "absent" => durable[i].state = "absent"
               /\ new[i].token \in {0, durable[i].token, lastTok}
               /\ new[i].state = "claimed" /\ new[i].token # lastTok =>
                     durable[i].state = "claimed"
               /\ durable[i].token # lastTok
    BY <2>1, <2>2 DEF Shadowed, Terminal
  <2> QED
    BY <1>1, <2>2 DEF Shadowed
<1>5. TokenUnused'
  <2>1. \A i \in Ids : new[i].token \in {0, db[i].token}
    BY DEF Ledger!Successors, Quiet
  <2>2. ASSUME NEW a \in Agents, pc'[a] \in {"select", "update"}
        PROVE  /\ pc[a] \in {"select", "update"}
               /\ lastTok # 0
    BY <2>2 DEF TxSteps, LocalsOK
  <2> QED
    BY <1>1, <2>1, <2>2 DEF TokenUnused
<1>6. TokenBound'
  BY <1>1, <1>2 DEF Ledger!Successors, TokenBound, Quiet, Row
<1>7. SelectedOK'
  <2> SUFFICES ASSUME NEW a \in Agents, pc'[a] = "update"
               PROVE  /\ ~new[loc[a].id].blocked
                      /\ new[loc[a].id].state # "absent"
                      /\ durable'[loc[a].id].state \notin Terminal
    BY <1>1 DEF SelectedOK, TxSteps
  <2>1. pc[a] = "update" /\ loc[a].id \in Ids /\ txn
    BY DEF TxSteps, LocalsOK, ClaimLocked
  <2> QED
    BY <1>1, <2>1 DEF Ledger!Successors, SelectedOK, Quiet
<1>8. ClaimsCoherent'
  BY <1>1 DEF Ledger!Successors, ClaimsCoherent, Quiet
<1>9. TokensUnique'
  <2>1. UniqueTokens(new)
    BY <1>2 DEF Ledger!Successors, TokensUnique, UniqueTokens, Quiet
  <2> QED
    BY <1>1, <2>1 DEF TokensUnique
<1>10. \A i \in Ids : /\ Cost(new[i]) <= Cost(db[i])
                       /\ Cost(new[i]) \in Nat /\ Cost(db[i]) \in Nat /\ Cost(durable[i]) \in Nat
  BY <1>2, CostNat DEF Quiet
<1>11. RetriesCharged'
  BY <1>1, <1>10 DEF RetriesCharged
<1>12. Unspent'
  <2>1. \A a \in Agents : pc'[a] \in {"select", "update"} => pc[a] = pc'[a]
    BY DEF TxSteps
  <2> QED
    BY <1>1, <1>10, <2>1 DEF Unspent
<1> QED
  BY <1>3, <1>4, <1>5, <1>6, <1>7, <1>8, <1>9, <1>11, <1>12

\* On the committed table such a statement is a statement of the ledger.
LEMMA QuietLedger ==
    ASSUME IndInv,
           NEW new \in [Ids -> Row], \A i \in Ids : Quiet(db[i], new[i]),
           Exec(new), lastTok' = lastTok
    PROVE  Ledger!Statement
<1>1. ASSUME NEW i \in Ids
      PROVE  /\ durable'[i].state \in Ledger!Successors(durable[i].state)
             /\ durable'[i].token \in {0, durable[i].token}
             /\ CoherentRow(durable'[i])
  <2>1. CASE txn
    BY <2>1 DEF Exec, IndInv, RowsOK, ClaimsCoherent, Ledger!Successors
  <2>2. CASE ~txn
    BY <2>2 DEF Exec, IndInv, RowsOK, Settled, Quiet
  <2> QED
    BY <2>1, <2>2
<1> QED
  BY <1>1 DEF Ledger!Statement, Ledger!Released, CoherentRow

\* What every step that is not a claim's does.
Ordinary == IndInv' /\ Ledger!Statement

-----------------------------------------------------------------------------
\* The steps that are not a claim's.

\* A statement that only reads is one that writes the table it found.
LEMMA ReadIsQuiet ==
    ASSUME IndInv, UNCHANGED <<db, durable>>
    PROVE  Exec(db) /\ db \in [Ids -> Row] /\ \A i \in Ids : Quiet(db[i], db[i])
<1>1. Exec(db)
  BY DEF IndInv, RowsOK, Settled, Exec
<1>2. db \in [Ids -> Row]
  BY DEF IndInv, TypeOK
<1>3. \A i \in Ids : Quiet(db[i], db[i])
  BY <1>2, QuietSame DEF IndInv, RowsOK, ClaimsCoherent
<1> QED
  BY <1>1, <1>2, <1>3

\* A statement of the broker itself, or of a handler that ends with it.
LEMMA StayStep ==
    ASSUME IndInv,
           NEW new \in [Ids -> Row], \A i \in Ids : Quiet(db[i], new[i]),
           Exec(new), StayHandler, UNCHANGED <<txn, claimMu, conn, lastTok, done>>,
           up' \in BOOLEAN, ~up' => ~txn, now' \in Nat, lcAt' \in Nat \cup {-1}
    PROVE  Ordinary
<1> USE DEF StayHandler
<1>1. RowsOK'
  <2>1. pc' \in [Agents -> Steps]
    BY DEF IndInv, TypeOK
  <2> QED
    BY <2>1, QuietStep
<1>2. TypeOK'
  BY DEF IndInv, TypeOK, Exec
<1>3. ClaimLocked'
  BY DEF IndInv, ClaimLocked, LocksHeld
<1>4. LocalsOK'
  BY DEF IndInv, LocalsOK
<1> QED
  BY <1>1, <1>2, <1>3, <1>4, QuietLedger DEF IndInv, Ordinary

\* A handler that leaves a claim unlocks claimMu, and keeps the connection while
\* it is at a step with open rows.
LocksMoved(a, step) ==
    /\ \/ pc[a] \in ClaimSteps /\ claimMu' = NoAgent
       \/ pc[a] \notin ClaimSteps /\ claimMu' = claimMu
    /\ \/ pc[a] \notin RowSteps /\ step \notin RowSteps /\ conn' = conn
       \/ conn = NoAgent /\ step \in RowSteps /\ conn' = a
       \/ conn = a /\ step \notin RowSteps /\ conn' = NoAgent

\* A statement of a handler that then moves on, outside a claim's transaction.
LEMMA MoveLocks ==
    ASSUME IndInv,
           NEW new \in [Ids -> Row], \A i \in Ids : Quiet(db[i], new[i]),
           Exec(new), UNCHANGED <<txn, lastTok, now, up, lcAt>>, done' \subseteq Ids,
           NEW a \in Agents, pc[a] \notin TxSteps,
           NEW step \in Steps \ ClaimSteps, NEW l \in Local, Goto(a, step, l),
           LocksMoved(a, step),
           step = "insert" => l.par \in Params,
           step \in {"resolve", "rows", "resolving", "checking"} => l.id \in Ids
    PROVE  Ordinary
<1>1. /\ pc' = [pc EXCEPT ![a] = step] /\ loc' = [loc EXCEPT ![a] = l]
      /\ pc \in [Agents -> Steps] /\ loc \in [Agents -> Local]
  BY DEF Goto, IndInv, TypeOK
<1>2. /\ pc' \in [Agents -> Steps] /\ loc' \in [Agents -> Local]
      /\ pc'[a] = step /\ loc'[a] = l
      /\ \A b \in Agents \ {a} : pc'[b] = pc[b] /\ loc'[b] = loc[b]
  BY <1>1
<1>3. step \notin TxSteps
  BY StepTypes
<1>4. RowsOK'
  <2>1. \A b \in Agents : pc[b] \in TxSteps \/ pc'[b] \in TxSteps
                              => pc'[b] = pc[b] /\ loc'[b] = loc[b]
    BY <1>2, <1>3
  <2> QED
    BY <1>2, <2>1, QuietStep
<1>5. TypeOK'
  BY <1>2 DEF IndInv, TypeOK, Exec, LocksMoved
<1>6. ClaimLocked'
  <2>1. LocksHeld
    BY DEF IndInv, ClaimLocked
  <2>2. ASSUME NEW b \in Agents
        PROVE  claimMu' = b <=> pc'[b] \in ClaimSteps
    BY <1>2, <2>1, ConstantsAssumption DEF LocksMoved, LocksHeld
  <2>3. ASSUME NEW b \in Agents
        PROVE  conn' = b <=> pc'[b] \in RowSteps
    BY <1>2, <2>1, ConstantsAssumption DEF LocksMoved, LocksHeld
  <2>4. \A b \in Agents : pc'[b] \in TxSteps <=> pc[b] \in TxSteps
    BY <1>2, <1>3
  <2> QED
    BY <2>2, <2>3, <2>4 DEF IndInv, ClaimLocked, LocksHeld
<1>7. LocalsOK'
  <2>1. step \notin {"select", "update"}
    BY <1>3 DEF TxSteps
  <2>2. ASSUME NEW b \in Agents
        PROVE  /\ pc'[b] \in TxSteps => loc'[b].token = lastTok' /\ lastTok' # 0
               /\ pc'[b] \in {"select", "update"} => loc'[b].lease # 0
               /\ pc'[b] = "update" => loc'[b].id \in Ids
               /\ pc'[b] = "insert" => loc'[b].par \in Params
               /\ pc'[b] \in {"resolve", "rows", "resolving", "checking"} => loc'[b].id \in Ids
    <3>1. CASE b = a
      BY <3>1, <1>2, <1>3, <2>1
    <3>2. CASE b # a
      BY <3>2, <1>2 DEF IndInv, LocalsOK
    <3> QED
      BY <3>1, <3>2
  <2> QED
    BY <2>2 DEF LocalsOK
<1> QED
  BY <1>4, <1>5, <1>6, <1>7, QuietLedger DEF IndInv, Ordinary

\* The same for a handler that holds neither lock before or after.
LEMMA MoveStep ==
    ASSUME IndInv,
           NEW new \in [Ids -> Row], \A i \in Ids : Quiet(db[i], new[i]),
           Exec(new), UNCHANGED <<txn, claimMu, conn, lastTok, now, up, lcAt>>,
           done' \subseteq Ids,
           NEW a \in Agents, pc[a] \notin ClaimSteps \cup RowSteps,
           NEW step \in Steps \ (ClaimSteps \cup RowSteps),
           NEW l \in Local, Goto(a, step, l),
           step = "insert" => l.par \in Params,
           step \in {"resolve", "rows", "resolving", "checking"} => l.id \in Ids
    PROVE  Ordinary
<1>1. LocksMoved(a, step) /\ pc[a] \notin TxSteps /\ step \in Steps \ ClaimSteps
  BY StepTypes DEF LocksMoved
<1> QED
  BY <1>1, MoveLocks

\* Statements that change one row, or the rows of a set.
LEMMA OneRowQuiet ==
    ASSUME IndInv, NEW i, NEW q, i \in Ids => Quiet(db[i], q)
    PROVE  /\ [db EXCEPT ![i] = q] \in [Ids -> Row]
           /\ \A j \in Ids : Quiet(db[j], [db EXCEPT ![i] = q][j])
<1>1. db \in [Ids -> Row] /\ \A j \in Ids : Quiet(db[j], db[j])
  BY QuietSame DEF IndInv, TypeOK, RowsOK, ClaimsCoherent
<1> QED
  BY <1>1 DEF Ledger!Successors, Quiet

\* UPDATE ... SET state = s over a set of rows that exist is quiet in each row,
\* and only the failure of a dependency may rewrite how a task ended.
LEMMA SetStateQuiet ==
    ASSUME IndInv, NEW S, NEW s \in {"failed", "canceled"},
           \A i \in S \cap Ids : /\ db[i].state # "absent"
                                 /\ db[i].state \in Terminal => s = "failed"
    PROVE  /\ SetState(S, s) \in [Ids -> Row]
           /\ \A i \in Ids : Quiet(db[i], SetState(S, s)[i])
<1>1. ASSUME NEW i \in Ids
      PROVE  Quiet(db[i], IF i \in S THEN [db[i] EXCEPT !.state = s] ELSE db[i])
  <2>1. db[i] \in Row /\ CoherentRow(db[i])
    BY DEF IndInv, TypeOK, RowsOK, ClaimsCoherent
  <2> QED
    BY <2>1, QuietEnded, QuietSame DEF Terminal
<1> QED
  BY <1>1 DEF Ledger!Successors, SetState, Quiet

\* Giving back any set of claimed rows is quiet in each row.
LEMMA GiveBackQuiet ==
    ASSUME IndInv, NEW S, NEW s \in {"pending", "failed"}, S \subseteq Claimed
    PROVE  /\ GiveBack(S, s) \in [Ids -> Row]
           /\ \A i \in Ids : Quiet(db[i], GiveBack(S, s)[i])
<1>1. ASSUME NEW i \in Ids
      PROVE  Quiet(db[i], IF i \in S THEN Unclaimed(db[i], s) ELSE db[i])
  <2>1. db[i] \in Row /\ CoherentRow(db[i])
    BY DEF IndInv, TypeOK, RowsOK, ClaimsCoherent
  <2> QED
    BY <2>1, QuietUnclaimed, QuietSame DEF Claimed
<1> QED
  BY <1>1 DEF Ledger!Successors, GiveBack, Quiet

\* A handler that only reads and then moves on.
LEMMA ReadMove ==
    ASSUME IndInv, UNCHANGED <<db, durable>>,
           UNCHANGED <<txn, claimMu, conn, lastTok, now, up, lcAt>>, done' \subseteq Ids,
           NEW a \in Agents, pc[a] \notin ClaimSteps \cup RowSteps,
           NEW step \in Steps \ (ClaimSteps \cup RowSteps),
           NEW l \in Local, Goto(a, step, l),
           step = "insert" => l.par \in Params,
           step \in {"resolve", "rows", "resolving", "checking"} => l.id \in Ids
    PROVE  Ordinary
BY ReadIsQuiet, MoveStep

\* Every request of a client keeps the invariant.
LEMMA RequestStep ==
    ASSUME IndInv, NEW a \in Agents, Request(a)
    PROVE  Ordinary
<1> USE DEF Rest
<1>1. /\ db \in [Ids -> Row] /\ now \in Nat /\ done \subseteq Ids
      /\ up \in BOOLEAN /\ lcAt \in Nat \cup {-1} /\ (~up => ~txn)
  BY DEF IndInv, TypeOK, ClaimLocked
<1>2. \A i \in Ids : db[i] \in Row /\ CoherentRow(db[i])
  BY <1>1 DEF IndInv, RowsOK, ClaimsCoherent
<1>3. ASSUME NEW p \in Params, CreateLookup(a, p)
      PROVE  Ordinary
  <2>1. /\ pc[a] \notin ClaimSteps \cup RowSteps
        /\ "insert" \in Steps \ (ClaimSteps \cup RowSteps)
    BY <1>3 DEF CreateLookup, Ready, TxSteps, ClaimSteps, RowSteps, Steps
  <2>2. [Idle EXCEPT !.par = p] \in Local /\ [Idle EXCEPT !.par = p].par = p
    BY DEF Idle, Local
  <2> QED
    BY <1>1, <1>3, <2>1, <2>2, ReadIsQuiet, MoveStep DEF CreateLookup
<1>4. ASSUME NEW p \in Params, Create(a, p)
      PROVE  Ordinary
  <2>1. pc[a] \notin ClaimSteps \cup RowSteps
    BY <1>4, StepTypes DEF Create, Ready
  <2>2. PICK i \in Ids : db[i].state = "absent" /\ Exec([db EXCEPT ![i] = NewRow(p)])
    BY <1>4 DEF Create, Insert, KeyTaken
  <2>3. Quiet(db[i], NewRow(p))
    BY <1>1, <1>2, <2>2, QuietNew
  <2>4. Goto(a, "idle", Idle) /\ Rest
    BY <1>4 DEF Create, Insert, Return
  <2> QED
    BY <1>1, <2>1, <2>2, <2>3, <2>4, OneRowQuiet, MoveStep, IdleType, StepTypes
<1>5. ASSUME NEW i \in Ids, NEW t, Complete(a, i, t)
      PROVE  Ordinary
  <2>1. /\ pc[a] \notin ClaimSteps \cup RowSteps
        /\ "resolve" \in Steps \ (ClaimSteps \cup RowSteps)
    BY <1>5 DEF Complete, Ready, TxSteps, ClaimSteps, RowSteps, Steps
  <2>2. [Idle EXCEPT !.id = i] \in Local /\ [Idle EXCEPT !.id = i].id = i
    BY DEF Idle, Local
  <2>3. Quiet(db[i], [db[i] EXCEPT !.state = "completed"])
    BY <1>2, <1>5, QuietEnded DEF Complete, HoldsClaim, Terminal
  <2> DEFINE new == [db EXCEPT ![i].state = "completed"]
  <2>4. new \in [Ids -> Row] /\ \A j \in Ids : Quiet(db[j], new[j])
    BY <2>3, OneRowQuiet
  <2>5. Exec(new) /\ Rest /\ Goto(a, "resolve", [Idle EXCEPT !.id = i])
    BY <1>5 DEF Complete
  <2> HIDE DEF new
  <2> QED
    BY <1>1, <2>1, <2>2, <2>4, <2>5, MoveStep
<1>6. ASSUME NEW i \in Ids, NEW t, Fail(a, i, t)
      PROVE  Ordinary
  <2>1. /\ pc[a] \notin ClaimSteps \cup RowSteps
        /\ "cascade" \in Steps \ (ClaimSteps \cup RowSteps)
    BY <1>6 DEF Fail, Ready, TxSteps, ClaimSteps, RowSteps, Steps
  <2>2. [Idle EXCEPT !.id = i] \in Local /\ [Idle EXCEPT !.id = i].id = i
    BY DEF Idle, Local
  <2>3. Quiet(db[i], [db[i] EXCEPT !.state = "failed"])
    BY <1>2, <1>6, QuietEnded DEF Fail, HoldsClaim, Terminal
  <2> DEFINE new == [db EXCEPT ![i].state = "failed"]
  <2>4. new \in [Ids -> Row] /\ \A j \in Ids : Quiet(db[j], new[j])
    BY <2>3, OneRowQuiet
  <2>5. Exec(new) /\ Rest /\ Goto(a, "cascade", [Idle EXCEPT !.id = i])
    BY <1>6 DEF Fail
  <2> HIDE DEF new
  <2> QED
    BY <1>1, <2>1, <2>2, <2>4, <2>5, MoveStep
<1>7. ASSUME NEW i \in Ids, NEW t, Heartbeat(a, i, t)
      PROVE  Ordinary
  <2>1. Quiet(db[i], [db[i] EXCEPT !.lease = now + LeaseDuration])
    BY <1>1, <1>2, <1>7, QuietLease, ConstantsAssumption DEF Heartbeat, HoldsClaim
  <2> DEFINE new == [db EXCEPT ![i].lease = now + LeaseDuration]
  <2>2. new \in [Ids -> Row] /\ \A j \in Ids : Quiet(db[j], new[j])
    BY <2>1, OneRowQuiet
  <2>3. Exec(new) /\ StayHandler /\ Rest
    BY <1>7 DEF Heartbeat
  <2> HIDE DEF new
  <2> QED
    BY <1>1, <2>2, <2>3, StayStep
<1>8. ASSUME NEW i \in Ids, Cancel(a, i)
      PROVE  Ordinary
  <2>1. Quiet(db[i], [db[i] EXCEPT !.state = "canceled"])
    BY <1>2, <1>8, QuietEnded DEF Cancel, Terminal
  <2> DEFINE new == [db EXCEPT ![i].state = "canceled"]
  <2>2. new \in [Ids -> Row] /\ \A j \in Ids : Quiet(db[j], new[j])
    BY <2>1, OneRowQuiet
  <2>3. Exec(new) /\ StayHandler /\ Rest
    BY <1>8 DEF Cancel
  <2> HIDE DEF new
  <2> QED
    BY <1>1, <2>2, <2>3, StayStep
<1>9. ASSUME NEW i \in Ids, NEW p \in Prios, Update(a, i, p)
      PROVE  Ordinary
  <2>1. Quiet(db[i], [db[i] EXCEPT !.prio = p])
    BY <1>2, QuietPrio, ConstantsAssumption
  <2> DEFINE new == [db EXCEPT ![i].prio = p]
  <2>2. new \in [Ids -> Row] /\ \A j \in Ids : Quiet(db[j], new[j])
    BY <2>1, OneRowQuiet
  <2>3. Exec(new) /\ StayHandler /\ Rest
    BY <1>9 DEF Update
  <2> HIDE DEF new
  <2> QED
    BY <1>1, <2>2, <2>3, StayStep
<1>10. ASSUME RequeueByOwner(a)
       PROVE  Ordinary
  <2> DEFINE new == GiveBack({i \in Claimed : db[i].owner = a}, "pending")
  <2>1. {i \in Claimed : db[i].owner = a} \subseteq Claimed
    OBVIOUS
  <2>2. new \in [Ids -> Row] /\ \A j \in Ids : Quiet(db[j], new[j])
    BY <2>1, GiveBackQuiet
  <2>3. Exec(new) /\ StayHandler /\ Rest
    BY <1>10 DEF RequeueByOwner
  <2> HIDE DEF new
  <2> QED
    BY <1>1, <2>2, <2>3, StayStep
<1>11. ASSUME ClaimRequest(a)
       PROVE  Ordinary
  <2>1. /\ pc[a] \notin ClaimSteps \cup RowSteps
        /\ "claim" \in Steps \ (ClaimSteps \cup RowSteps)
    BY <1>11 DEF ClaimRequest, TxSteps, ClaimSteps, RowSteps, Steps
  <2> QED
    BY <1>1, <1>11, <2>1, ReadMove, IdleType DEF ClaimRequest
<1> QED
  BY <1>3, <1>4, <1>5, <1>6, <1>7, <1>8, <1>9, <1>10, <1>11 DEF Request

\* Every step of a handler other than a claim's keeps the invariant.
LEMMA PlainHandlerStep ==
    ASSUME IndInv, NEW a \in Agents,
           \/ CreateInsert(a) \/ ClaimReply(a)
           \/ ResolveQuery(a) \/ RowsClose(a) \/ ResolveNext(a) \/ ResolveDone(a)
           \/ \E d \in Ids : ResolveCheck(a, d)
           \/ ResolveUnblock(a)
           \/ FailQuery(a) \/ FailRowsClose(a) \/ FailDependent(a) \/ FailDone(a)
    PROVE  Ordinary
<1> USE DEF Rest
<1>1. /\ db \in [Ids -> Row] /\ now \in Nat /\ done \subseteq Ids
      /\ loc[a] \in Local /\ loc \in [Agents -> Local]
  BY DEF IndInv, TypeOK
<1>2. \A i \in Ids : db[i] \in Row /\ CoherentRow(db[i])
  BY <1>1 DEF IndInv, RowsOK, ClaimsCoherent
<1>3. /\ {"idle", "resolving", "checking", "cascading"}
            \subseteq Steps \ (ClaimSteps \cup RowSteps)
      /\ {"insert", "resolve", "resolving", "checking", "cascade", "cascading"}
            \cap (ClaimSteps \cup RowSteps) = {}
      /\ "reply" \in ClaimSteps \ TxSteps
  BY DEF Steps, ClaimSteps, TxSteps, RowSteps
<1>4. /\ pc[a] \in {"resolve", "rows", "resolving", "checking"} => loc[a].id \in Ids
      /\ pc[a] = "insert" => loc[a].par \in Params
  BY DEF IndInv, LocalsOK
<1>5. \A id : Dependents(id) \subseteq [id: Ids, deps: SUBSET Ids]
  BY <1>2 DEF Dependents, Row
<1>6. CASE CreateInsert(a)
  <2>1. pc[a] = "insert" /\ Goto(a, "idle", Idle) /\ Rest
    BY <1>6 DEF CreateInsert, At, Insert, Return
  <2>2. CASE UNCHANGED <<db, durable>>
    BY <1>1, <1>3, <2>1, <2>2, ReadMove, IdleType
  <2>3. CASE \E i \in Ids : /\ db[i].state = "absent"
                            /\ Exec([db EXCEPT ![i] = NewRow(loc[a].par)])
    <3>1. PICK i \in Ids : /\ db[i].state = "absent"
                           /\ Exec([db EXCEPT ![i] = NewRow(loc[a].par)])
      BY <2>3
    <3>2. Quiet(db[i], NewRow(loc[a].par))
      BY <1>1, <1>2, <1>4, <2>1, <3>1, QuietNew
    <3> DEFINE new == [db EXCEPT ![i] = NewRow(loc[a].par)]
    <3>3. new \in [Ids -> Row] /\ \A j \in Ids : Quiet(db[j], new[j])
      BY <3>2, OneRowQuiet
    <3>4. Exec(new)
      BY <3>1
    <3> HIDE DEF new
    <3> QED
      BY <1>1, <1>3, <2>1, <3>3, <3>4, MoveStep, IdleType
  <2> QED
    BY <1>6, <2>2, <2>3 DEF CreateInsert, Insert
<1>7. CASE FailDone(a)
  BY <1>1, <1>3, <1>7, ReadMove, IdleType DEF FailDone, Return
<1>a. ASSUME UNCHANGED <<db, durable, txn, lastTok, now, up, lcAt, done>>,
             pc[a] \notin TxSteps, NEW step \in Steps \ ClaimSteps, NEW l \in Local,
             Goto(a, step, l), LocksMoved(a, step), step # "insert",
             step \in {"resolve", "rows", "resolving", "checking"} => l.id \in Ids
      PROVE  Ordinary
  BY <1>a, <1>1, ReadIsQuiet, MoveLocks
<1>b. CASE ClaimReply(a)
  <2>1. LocksMoved(a, "idle") /\ pc[a] \notin TxSteps
    BY <1>b, <1>3, StepTypes DEF ClaimReply, At, LocksMoved
  <2> QED
    BY <1>a, <1>b, <2>1, IdleType, StepTypes DEF ClaimReply, Return
<1>c. /\ {"rows", "failrows"} \subseteq Steps \ ClaimSteps
      /\ {"rows", "failrows"} \subseteq RowSteps
      /\ {"rows", "failrows"} \cap TxSteps = {}
  BY DEF Steps, ClaimSteps, TxSteps, RowSteps
<1>d. ASSUME NEW step \in RowSteps, OpenRows(a, step), At(a, "resolve") \/ At(a, "cascade"),
             step = "rows" => pc[a] = "resolve"
      PROVE  Ordinary
  <2> DEFINE l == [loc[a] EXCEPT !.todo = Dependents(loc[a].id)]
  <2>1. l \in Local /\ l.id = loc[a].id
    BY <1>1, <1>5 DEF Local
  <2>2. /\ pc[a] \in {"resolve", "cascade"} /\ Goto(a, step, l) /\ conn = NoAgent /\ conn' = a
        /\ UNCHANGED <<db, durable, txn, claimMu, lastTok, now, up, lcAt, done>>
    BY <1>d DEF OpenRows, At, Free
  <2> HIDE DEF l
  <2>3. step \in {"rows", "failrows"}
    BY DEF RowSteps
  <2>4. pc[a] \notin TxSteps /\ LocksMoved(a, step)
    BY <1>3, <2>2, StepTypes DEF LocksMoved
  <2>5. step = "rows" => l.id \in Ids
    BY <1>4, <1>d, <2>1
  <2> QED
    BY <1>a, <1>c, <2>1, <2>2, <2>3, <2>4, <2>5
<1>e. ASSUME NEW from \in RowSteps, AtRows(a, from), NEW step \in {"resolving", "cascading"},
             CloseRows(a, step), step = "resolving" => from = "rows"
      PROVE  Ordinary
  <2>1. /\ pc[a] = from /\ Goto(a, step, loc[a]) /\ conn = a /\ conn' = NoAgent
        /\ UNCHANGED <<db, durable, txn, claimMu, lastTok, now, up, lcAt, done>>
    BY <1>e DEF AtRows, CloseRows
  <2>2. pc[a] \notin TxSteps /\ pc[a] \notin ClaimSteps /\ step \in Steps \ (ClaimSteps \cup RowSteps)
    BY <1>3, <2>1, StepTypes
  <2>3. LocksMoved(a, step)
    BY <2>1, <2>2 DEF LocksMoved
  <2>4. step = "resolving" => loc[a].id \in Ids
    BY <1>4, <1>e, <2>1
  <2> QED
    BY <1>a, <1>1, <2>1, <2>2, <2>3, <2>4
<1>8. CASE ResolveQuery(a)
  BY <1>8, <1>c, <1>d DEF ResolveQuery, At
<1>f. CASE RowsClose(a) \/ FailRowsClose(a)
  BY <1>f, <1>c, <1>e DEF RowsClose, FailRowsClose
<1>9. CASE ResolveNext(a)
  <2>1. PICK c \in loc[a].todo :
          Goto(a, "checking", [loc[a] EXCEPT !.todo = @ \ {c}, !.cand = c.id,
                                             !.need = c.deps])
    BY <1>9 DEF ResolveNext
  <2> DEFINE l == [loc[a] EXCEPT !.todo = @ \ {c}, !.cand = c.id, !.need = c.deps]
  <2>2. c \in [id: Ids, deps: SUBSET Ids]
    BY <1>1 DEF Local
  <2>3. l \in Local /\ l.id = loc[a].id
    BY <1>1, <2>2 DEF Local
  <2>4. pc[a] = "resolving" /\ Goto(a, "checking", l) /\ UNCHANGED <<db, durable>> /\ Rest
    BY <1>9, <2>1 DEF ResolveNext
  <2> HIDE DEF l
  <2> QED
    BY <1>1, <1>3, <1>4, <2>3, <2>4, ReadMove
<1>10. ASSUME CompleteReply(a), pc[a] \in {"resolving", "checking"}
       PROVE  Ordinary
  <2>1. done' \subseteq Ids
    BY <1>1, <1>4, <1>10 DEF CompleteReply
  <2> QED
    BY <1>3, <1>10, <2>1, ReadMove, IdleType DEF CompleteReply, Return
<1>11. CASE ResolveDone(a)
  BY <1>10, <1>11 DEF ResolveDone
<1>12. ASSUME NEW d \in Ids, ResolveCheck(a, d)
       PROVE  Ordinary
  <2>1. pc[a] = "checking"
    BY <1>12 DEF ResolveCheck, At
  <2>2. CASE CompleteReply(a)
    BY <1>10, <2>1, <2>2
  <2>3. CASE /\ Goto(a, "resolving", [loc[a] EXCEPT !.cand = 0, !.need = {}])
             /\ UNCHANGED <<db, durable>> /\ Rest
    <3> DEFINE l == [loc[a] EXCEPT !.cand = 0, !.need = {}]
    <3>1. l \in Local /\ l.id = loc[a].id
      BY <1>1 DEF Local
    <3> HIDE DEF l
    <3> QED
      BY <1>1, <1>3, <1>4, <2>1, <2>3, <3>1, ReadMove DEF l
  <2>4. CASE /\ Goto(a, "checking", [loc[a] EXCEPT !.need = @ \ {d}])
             /\ UNCHANGED <<db, durable>> /\ Rest
    <3> DEFINE l == [loc[a] EXCEPT !.need = @ \ {d}]
    <3>1. l \in Local /\ l.id = loc[a].id
      BY <1>1 DEF Local
    <3> HIDE DEF l
    <3> QED
      BY <1>1, <1>3, <1>4, <2>1, <2>4, <3>1, ReadMove DEF l
  <2> QED
    BY <1>12, <2>2, <2>3, <2>4 DEF ResolveCheck
<1>13. CASE ResolveUnblock(a)
  <2> DEFINE new == [db EXCEPT ![loc[a].cand].blocked = FALSE]
             l == [loc[a] EXCEPT !.cand = 0]
  <2>1. new \in [Ids -> Row] /\ \A j \in Ids : Quiet(db[j], new[j])
    BY <1>2, QuietUnblocked, OneRowQuiet
  <2>2. l \in Local /\ l.id = loc[a].id
    BY <1>1 DEF Local
  <2>3. pc[a] = "checking" /\ Exec(new) /\ Goto(a, "resolving", l) /\ Rest
    BY <1>13 DEF ResolveUnblock, At
  <2> HIDE DEF new, l
  <2> QED
    BY <1>1, <1>3, <1>4, <2>1, <2>2, <2>3, MoveStep
<1>14. CASE FailQuery(a)
  BY <1>14, <1>c, <1>d DEF FailQuery, At
<1>15. CASE FailDependent(a)
  <2>1. PICK c \in loc[a].todo :
          /\ Exec(SetState({i \in {c.id} : db[i].state # "absent"}, "failed"))
          /\ Goto(a, "cascading", [loc[a] EXCEPT !.todo = @ \ {c}])
    BY <1>15 DEF FailDependent
  <2> DEFINE new == SetState({i \in {c.id} : db[i].state # "absent"}, "failed")
             l == [loc[a] EXCEPT !.todo = @ \ {c}]
  <2>2. new \in [Ids -> Row] /\ \A j \in Ids : Quiet(db[j], new[j])
    BY SetStateQuiet DEF Terminal
  <2>3. l \in Local
    BY <1>1 DEF Local
  <2>4. pc[a] = "cascading" /\ Exec(new) /\ Goto(a, "cascading", l) /\ Rest
    BY <1>15, <2>1 DEF FailDependent, At
  <2> HIDE DEF new, l
  <2> QED
    BY <1>1, <1>3, <2>2, <2>3, <2>4, MoveStep
<1> QED
  BY <1>6, <1>7, <1>b, <1>8, <1>f, <1>9, <1>11, <1>12, <1>13, <1>14, <1>15

-----------------------------------------------------------------------------
\* The steps of a claim.

\* What Goto does to the program counters and locals.
LEMMA GotoEffect ==
    ASSUME TypeOK, NEW a \in Agents, NEW step \in Steps, NEW l \in Local,
           Goto(a, step, l)
    PROVE  /\ pc' \in [Agents -> Steps] /\ loc' \in [Agents -> Local]
           /\ pc'[a] = step /\ loc'[a] = l
           /\ \A b \in Agents \ {a} : pc'[b] = pc[b] /\ loc'[b] = loc[b]
BY DEF Goto, TypeOK

\* BEGIN IMMEDIATE.
LEMMA ClaimBeginStep ==
    ASSUME IndInv, NEW a \in Agents, ClaimBegin(a)
    PROVE  IndInv'
<1> DEFINE l == [Idle EXCEPT !.token = lastTok + 1, !.lease = now + LeaseDuration]
<1>1. /\ TypeOK /\ lastTok \in Nat /\ now \in Nat
      /\ lastTok' = lastTok + 1 /\ txn' = TRUE /\ up
      /\ UNCHANGED <<db, durable, conn, now, up, lcAt, done>>
      /\ claimMu = NoAgent /\ claimMu' = a /\ pc[a] = "claim"
      /\ Goto(a, "select", l)
  BY DEF ClaimBegin, At, Free, IndInv, TypeOK
<1>a. \A b \in Agents : pc[b] \notin ClaimSteps
  BY <1>1, ConstantsAssumption DEF IndInv, ClaimLocked, LocksHeld
<1>b. "claim" \notin RowSteps /\ "select" \notin RowSteps
  BY DEF RowSteps
<1>2. /\ l \in Local /\ l.token = lastTok + 1 /\ l.lease # 0
  <2>1. lastTok + 1 \in Nat /\ now + LeaseDuration \in Nat \ {0}
    BY <1>1, ConstantsAssumption
  <2>2. /\ l \in Local /\ l.token = lastTok + 1 /\ l.lease = now + LeaseDuration
    BY <2>1, IdleType DEF Local
  <2> QED
    BY <2>1, <2>2
<1> HIDE DEF l
<1>3. "select" \in Steps /\ "select" \in TxSteps /\ "select" \in ClaimSteps
  BY DEF Steps, ClaimSteps, TxSteps
<1>4. /\ pc' \in [Agents -> Steps] /\ loc' \in [Agents -> Local]
      /\ pc'[a] = "select" /\ loc'[a] = l
      /\ \A b \in Agents \ {a} : pc'[b] = pc[b] /\ loc'[b] = loc[b]
  BY <1>1, <1>2, <1>3, GotoEffect
<1>5. \A b \in Agents \ {a} : pc'[b] \notin ClaimSteps /\ pc'[b] \notin TxSteps
  BY <1>a, <1>4, StepTypes
<1>6. ~txn /\ durable = db
  BY <1>a, StepTypes DEF IndInv, ClaimLocked, RowsOK, Settled
<1>7. TypeOK'
  BY <1>1, <1>4 DEF TypeOK
<1>c. LocksHeld'
  BY <1>1, <1>b, <1>3, <1>4, <1>5 DEF IndInv, ClaimLocked, LocksHeld
<1>8. ClaimLocked'
  BY <1>c, <1>1, <1>3, <1>4, <1>5 DEF ClaimLocked
<1>9. LocalsOK'
  BY <1>1, <1>2, <1>4, <1>5 DEF IndInv, LocalsOK, TxSteps
<1>10. \A i \in Ids : db[i].token \in Nat /\ db[i].token <= lastTok
  BY <1>1 DEF IndInv, RowsOK, TokenBound, TypeOK, Row
<1>11. Settled' /\ Shadowed' /\ TokenUnused' /\ TokenBound'
  BY <1>1, <1>6, <1>10 DEF Settled, Shadowed, TokenUnused, TokenBound
<1>12. SelectedOK'
  BY <1>4, <1>5 DEF SelectedOK, TxSteps
<1>13. ClaimsCoherent' /\ TokensUnique'
  BY <1>1 DEF IndInv, RowsOK, ClaimsCoherent, TokensUnique
<1>14. RetriesCharged' /\ Unspent'
  <2>1. \A i \in Ids : Cost(db[i]) \in Nat /\ Cost(db[i]) <= lastTok
    BY <1>1, CostNat DEF IndInv, RowsOK, RetriesCharged, TypeOK
  <2> QED
    BY <1>1, <1>6, <2>1 DEF RetriesCharged, Unspent
<1> QED
  BY <1>7, <1>8, <1>9, <1>11, <1>12, <1>13, <1>14 DEF IndInv, RowsOK

\* SELECT.
LEMMA ClaimSelectStep ==
    ASSUME IndInv, NEW a \in Agents, NEW match \in Filters, ClaimSelect(a, match)
    PROVE  IndInv'
<1>1. /\ TypeOK /\ pc[a] = "select" /\ loc[a] \in Local /\ up
      /\ UNCHANGED <<db, durable, txn, claimMu, conn, lastTok, now, up, lcAt, done>>
  BY DEF ClaimSelect, At, Free, Rest, IndInv, TypeOK
<1>2. \E step \in {"rollback", "update"}, l \in Local :
         /\ Goto(a, step, l)
         /\ l.token = loc[a].token /\ l.lease = loc[a].lease
         /\ step = "update" => l.id \in Ids /\ db[l.id].state = "pending"
                                           /\ ~db[l.id].blocked
  <2>1. CASE Goto(a, "rollback", loc[a])
    BY <1>1, <2>1
  <2>2. CASE \E i \in Eligible(match) : Goto(a, "update", [loc[a] EXCEPT !.id = i])
    <3>1. PICK i \in Eligible(match) : Goto(a, "update", [loc[a] EXCEPT !.id = i])
      BY <2>2
    <3>2. i \in Ids /\ db[i].state = "pending" /\ ~db[i].blocked
      BY ConstantsAssumption DEF Eligible
    <3>3. /\ [loc[a] EXCEPT !.id = i] \in Local /\ [loc[a] EXCEPT !.id = i].id = i
          /\ [loc[a] EXCEPT !.id = i].token = loc[a].token
          /\ [loc[a] EXCEPT !.id = i].lease = loc[a].lease
      BY <1>1, <3>2 DEF Local
    <3> QED
      BY <3>1, <3>2, <3>3
  <2> QED
    BY <2>1, <2>2 DEF ClaimSelect
<1>3. PICK step \in {"rollback", "update"}, l \in Local :
         /\ Goto(a, step, l)
         /\ l.token = loc[a].token /\ l.lease = loc[a].lease
         /\ step = "update" => l.id \in Ids /\ db[l.id].state = "pending"
                                           /\ ~db[l.id].blocked
  BY <1>2
<1>4. step \in Steps /\ step \in TxSteps /\ step \in ClaimSteps
  BY DEF Steps, ClaimSteps, TxSteps
<1>5. /\ pc' \in [Agents -> Steps] /\ loc' \in [Agents -> Local]
      /\ pc'[a] = step /\ loc'[a] = l
      /\ \A b \in Agents \ {a} : pc'[b] = pc[b] /\ loc'[b] = loc[b]
  BY <1>1, <1>3, <1>4, GotoEffect
<1>6. "select" \in TxSteps /\ "select" \in ClaimSteps
  BY DEF ClaimSteps, TxSteps
<1>7. \A b \in Agents \ {a} : pc'[b] \notin ClaimSteps /\ pc'[b] \notin TxSteps
  BY <1>1, <1>5, <1>6, StepTypes DEF IndInv, ClaimLocked, LocksHeld
<1>8. TypeOK'
  BY <1>1, <1>5 DEF TypeOK
<1>9. txn /\ loc[a].token = lastTok /\ lastTok # 0 /\ loc[a].lease # 0
  BY <1>1, <1>6 DEF IndInv, ClaimLocked, LocalsOK
<1>a. "select" \notin RowSteps /\ step \notin RowSteps
  BY DEF RowSteps
<1>b. LocksHeld'
  BY <1>1, <1>4, <1>5, <1>6, <1>7, <1>a DEF IndInv, ClaimLocked, LocksHeld
<1>10. ClaimLocked'
  BY <1>b, <1>1, <1>4, <1>5, <1>7, <1>9 DEF ClaimLocked
<1>11. LocalsOK'
  BY <1>1, <1>3, <1>5, <1>7, <1>9 DEF IndInv, LocalsOK, TxSteps
<1>12. /\ Settled' /\ Shadowed' /\ TokenBound' /\ ClaimsCoherent' /\ TokensUnique'
       /\ RetriesCharged'
  BY <1>1 DEF IndInv, RowsOK, Settled, Shadowed, TokenBound, ClaimsCoherent,
              TokensUnique, RetriesCharged
<1>13. TokenUnused' /\ Unspent'
  BY <1>1 DEF IndInv, RowsOK, TokenUnused, Unspent
<1>14. SelectedOK'
  <2> SUFFICES ASSUME step = "update"
               PROVE  /\ ~db[l.id].blocked /\ db[l.id].state # "absent"
                      /\ durable[l.id].state \notin Terminal
    BY <1>1, <1>5, <1>7 DEF SelectedOK, TxSteps
  <2> QED
    BY <1>3, <1>9 DEF IndInv, RowsOK, Shadowed, Terminal
<1> QED
  BY <1>8, <1>10, <1>11, <1>12, <1>13, <1>14 DEF IndInv, RowsOK

\* UPDATE: the row is claimed whatever became of it since the SELECT.
LEMMA ClaimUpdateStep ==
    ASSUME IndInv, NEW a \in Agents, ClaimUpdate(a)
    PROVE  IndInv'
<1> DEFINE l == loc[a]
           q == ClaimedRow(db[l.id], a, l.token, l.lease)
<1>1. /\ TypeOK /\ pc[a] = "update" /\ l \in Local /\ up
      /\ db \in [Ids -> Row] /\ durable \in [Ids -> Row] /\ lastTok \in Nat
      /\ Exec([db EXCEPT ![l.id] = q])
      /\ Goto(a, "commit", l)
      /\ UNCHANGED <<txn, claimMu, conn, lastTok, now, up, lcAt, done>>
  BY DEF ClaimUpdate, At, Free, Rest, IndInv, TypeOK
<1>2. /\ {"update", "commit"} \subseteq TxSteps /\ {"update", "commit"} \subseteq ClaimSteps
      /\ "commit" \in Steps
  BY DEF Steps, ClaimSteps, TxSteps
<1>3. txn /\ l.token = lastTok /\ lastTok # 0 /\ l.lease # 0 /\ l.id \in Ids
  BY <1>1, <1>2 DEF IndInv, ClaimLocked, LocalsOK
<1>4. /\ pc' \in [Agents -> Steps] /\ loc' \in [Agents -> Local]
      /\ pc'[a] = "commit" /\ loc'[a] = l
      /\ \A b \in Agents \ {a} : pc'[b] = pc[b] /\ loc'[b] = loc[b]
  BY <1>1, <1>2, GotoEffect
<1>5. \A b \in Agents \ {a} : pc'[b] \notin ClaimSteps /\ pc'[b] \notin TxSteps
  BY <1>1, <1>2, <1>4, StepTypes DEF IndInv, ClaimLocked, LocksHeld
<1>6. /\ q \in Row /\ q.state = "claimed" /\ q.token = lastTok /\ q.owner = a
      /\ q.lease = l.lease /\ q.blocked = db[l.id].blocked
      /\ q.retries = db[l.id].retries
  <2>1. db[l.id] \in Row /\ l.lease \in Nat /\ "claimed" \in States
    BY <1>1, <1>3 DEF Local, States
  <2> QED
    BY <1>1, <1>3, <2>1 DEF ClaimedRow, Row
<1>7. CoherentRow(q)
  BY <1>1, <1>3, <1>6, ConstantsAssumption DEF CoherentRow, IndInv, RowsOK, SelectedOK
<1> HIDE DEF q
<1>8. /\ db' \in [Ids -> Row] /\ db'[l.id] = q /\ durable' = durable
      /\ \A i \in Ids \ {l.id} : db'[i] = db[i]
  BY <1>1, <1>3, <1>6 DEF Exec
<1>9. TypeOK'
  BY <1>1, <1>4, <1>8 DEF TypeOK
<1>a. "update" \notin RowSteps /\ "commit" \notin RowSteps
  BY DEF RowSteps
<1>b. LocksHeld'
  BY <1>1, <1>2, <1>4, <1>5, <1>a DEF IndInv, ClaimLocked, LocksHeld
<1>10. ClaimLocked'
  BY <1>b, <1>1, <1>2, <1>3, <1>4, <1>5 DEF ClaimLocked
<1>11. LocalsOK'
  BY <1>1, <1>3, <1>4, <1>5 DEF IndInv, LocalsOK, TxSteps
<1>12. Settled'
  BY <1>1, <1>3 DEF Settled
<1>13. Shadowed'
  <2>1. durable[l.id].state \notin Terminal
    BY <1>1 DEF IndInv, RowsOK, SelectedOK
  <2> QED
    BY <1>1, <1>3, <1>6, <1>8, <2>1 DEF IndInv, RowsOK, Shadowed
<1>14. TokenUnused' /\ SelectedOK'
  BY <1>4, <1>5 DEF TokenUnused, SelectedOK, TxSteps
<1>15. TokenBound'
  BY <1>1, <1>3, <1>6, <1>8 DEF IndInv, RowsOK, TokenBound
<1>16. ClaimsCoherent'
  BY <1>7, <1>8 DEF IndInv, RowsOK, ClaimsCoherent
<1>17. TokensUnique'
  <2>1. \A i \in Ids : db[i].token # lastTok
    BY <1>1 DEF IndInv, RowsOK, TokenUnused
  <2> QED
    BY <1>6, <1>8, <2>1 DEF IndInv, RowsOK, TokensUnique, UniqueTokens
<1>18. RetriesCharged'
  <2>1. Cost(db[l.id]) < lastTok /\ Cost(db[l.id]) \in Nat /\ db[l.id] \in Row
    BY <1>1, <1>3, CostNat DEF IndInv, RowsOK, Unspent
  <2>2. Cost(q) <= lastTok
    BY <1>1, <1>6, <2>1, CostNat DEF Cost
  <2> QED
    BY <1>1, <1>8, <2>2 DEF IndInv, RowsOK, RetriesCharged
<1>19. Unspent'
  BY <1>4, <1>5 DEF Unspent, TxSteps
<1> QED
  BY <1>9, <1>10, <1>11, <1>12, <1>13, <1>14, <1>15, <1>16, <1>17, <1>18, <1>19
     DEF IndInv, RowsOK

\* COMMIT and ROLLBACK: the two views agree again.
LEMMA ClaimEndStep ==
    ASSUME IndInv, NEW a \in Agents, ClaimCommit(a) \/ ClaimRollback(a)
    PROVE  IndInv'
<1>1. /\ TypeOK /\ pc[a] \in {"commit", "rollback"} /\ loc[a] \in Local /\ up
      /\ txn' = FALSE /\ db' = durable'
      /\ (db' = db \/ db' = durable)
      /\ UNCHANGED <<conn, lastTok, now, up, lcAt, done>>
  BY DEF ClaimCommit, ClaimRollback, At, Free, IndInv, TypeOK
<1>2. PICK step \in {"reply", "idle"}, l \in Local :
         /\ Goto(a, step, l)
         /\ claimMu' = IF step = "reply" THEN claimMu ELSE NoAgent
  BY <1>1, IdleType DEF ClaimCommit, ClaimRollback, Return
<1>3. /\ pc[a] \in ClaimSteps /\ step \in Steps /\ step \notin TxSteps
      /\ step \notin {"insert", "resolve", "rows", "resolving", "checking", "select", "update"}
      /\ step \notin RowSteps /\ pc[a] \notin RowSteps
      /\ step \in ClaimSteps <=> step = "reply"
  BY <1>1 DEF Steps, ClaimSteps, TxSteps, RowSteps
<1>4. /\ pc' \in [Agents -> Steps] /\ loc' \in [Agents -> Local]
      /\ pc'[a] = step /\ loc'[a] = l
      /\ \A b \in Agents \ {a} : pc'[b] = pc[b] /\ loc'[b] = loc[b]
  BY <1>1, <1>2, <1>3, GotoEffect
<1>5. \A b \in Agents \ {a} : pc'[b] \notin ClaimSteps /\ pc'[b] \notin TxSteps
  BY <1>3, <1>4, StepTypes DEF IndInv, ClaimLocked, LocksHeld
<1>6. TypeOK'
  BY <1>1, <1>2, <1>4 DEF TypeOK
<1>a. LocksHeld'
  BY <1>1, <1>2, <1>3, <1>4, <1>5, ConstantsAssumption DEF IndInv, ClaimLocked, LocksHeld
<1>7. ClaimLocked'
  BY <1>a, <1>1, <1>3, <1>4, <1>5 DEF ClaimLocked
<1>8. LocalsOK'
  BY <1>3, <1>4, <1>5 DEF IndInv, LocalsOK, TxSteps
<1>9. Settled' /\ Shadowed'
  BY <1>1 DEF Settled, Shadowed
<1>10. TokenUnused' /\ SelectedOK' /\ Unspent'
  BY <1>3, <1>4, <1>5 DEF TokenUnused, SelectedOK, Unspent, TxSteps
<1>11. TokenBound' /\ ClaimsCoherent' /\ TokensUnique' /\ RetriesCharged'
  BY <1>1 DEF IndInv, RowsOK, TokenBound, ClaimsCoherent, TokensUnique, UniqueTokens,
              RetriesCharged
<1> QED
  BY <1>6, <1>7, <1>8, <1>9, <1>10, <1>11 DEF IndInv, RowsOK

-----------------------------------------------------------------------------
\* The broker's own steps.

\* A statement of the lease checker or of the TTL checker keeps the invariant.
LEMMA CheckerStep ==
    ASSUME IndInv, Checker
    PROVE  Ordinary
<1>1. /\ now \in Nat /\ up \in BOOLEAN /\ lcAt \in Nat \cup {-1} /\ (~up => ~txn)
  BY DEF IndInv, TypeOK, ClaimLocked
<1>2. CASE LeaseFail
  <2> DEFINE S == {i \in Expired(now) : db[i].retries + 1 >= db[i].maxRetries}
             new == GiveBack(S, "failed")
  <2>1. S \subseteq Claimed
    BY DEF Expired
  <2>2. new \in [Ids -> Row] /\ \A j \in Ids : Quiet(db[j], new[j])
    BY <2>1, GiveBackQuiet
  <2>3. /\ Exec(new) /\ StayHandler /\ UNCHANGED <<txn, claimMu, conn, lastTok, now, up, done>>
        /\ lcAt' = now
    BY <1>2 DEF LeaseFail
  <2> HIDE DEF new
  <2> QED
    BY <1>1, <2>2, <2>3, StayStep
<1>3. CASE LeaseRequeue
  <2> DEFINE S == {i \in Expired(lcAt) : db[i].retries + 1 < db[i].maxRetries}
             new == GiveBack(S, "pending")
  <2>1. S \subseteq Claimed
    BY DEF Expired
  <2>2. new \in [Ids -> Row] /\ \A j \in Ids : Quiet(db[j], new[j])
    BY <2>1, GiveBackQuiet
  <2>3. /\ Exec(new) /\ StayHandler /\ UNCHANGED <<txn, claimMu, conn, lastTok, now, up, done>>
        /\ lcAt' = -1
    BY <1>3 DEF LeaseRequeue
  <2> HIDE DEF new
  <2> QED
    BY <1>1, <2>2, <2>3, StayStep
<1>4. CASE CancelExpiredTTL
  <2> DEFINE new == SetState(TTLExpired, "canceled")
  <2>1. new \in [Ids -> Row] /\ \A j \in Ids : Quiet(db[j], new[j])
    BY SetStateQuiet DEF TTLExpired, Terminal
  <2>2. Exec(new) /\ StayHandler /\ Rest
    BY <1>4 DEF CancelExpiredTTL
  <2> HIDE DEF new
  <2> QED
    BY <1>1, <2>1, <2>2, StayStep DEF Rest
<1> QED
  BY <1>2, <1>3, <1>4 DEF Checker

\* So does the clock.
LEMMA TickStep ==
    ASSUME IndInv, Tick
    PROVE  Ordinary
<1>1. /\ now' \in Nat /\ up \in BOOLEAN /\ lcAt \in Nat \cup {-1} /\ (~up => ~txn)
  BY DEF IndInv, TypeOK, ClaimLocked, Tick
<1> QED
  BY <1>1, ReadIsQuiet, StayStep DEF Tick, StayHandler

\* RequeueAllClaimed at the start of Serve keeps the invariant.
LEMMA RestartStep ==
    ASSUME IndInv, Restart
    PROVE  Ordinary
<1>1. /\ now \in Nat /\ lcAt \in Nat \cup {-1}
  BY DEF IndInv, TypeOK
<1> DEFINE new == GiveBack(Claimed, "pending")
<1>2. new \in [Ids -> Row] /\ \A j \in Ids : Quiet(db[j], new[j])
  BY GiveBackQuiet
<1>3. /\ Exec(new) /\ StayHandler /\ up' = TRUE
      /\ UNCHANGED <<txn, claimMu, conn, lastTok, now, lcAt, done>>
  BY DEF Restart
<1> HIDE DEF new
<1> QED
  BY <1>1, <1>2, <1>3, StayStep

\* A crash, in which the connection goes back to the committed table, keeps it.
LEMMA CrashStep ==
    ASSUME IndInv, Crash
    PROVE  IndInv'
<1>1. /\ TypeOK /\ up' = FALSE /\ db' = durable /\ durable' = durable /\ txn' = FALSE
      /\ pc' = [a \in Agents |-> "idle"] /\ loc' = [a \in Agents |-> Idle] /\ lcAt' = -1
      /\ claimMu' = NoAgent /\ conn' = NoAgent
      /\ UNCHANGED <<lastTok, now, done>>
  BY DEF Crash, IndInv
<1>2. \A a \in Agents : pc'[a] = "idle"
  BY <1>1
<1>3. /\ "idle" \notin ClaimSteps /\ "idle" \notin TxSteps /\ "idle" \notin RowSteps
      /\ "idle" \in Steps
  BY StepTypes
<1>4. TypeOK'
  BY <1>1, <1>3, IdleType DEF TypeOK
<1>5. ClaimLocked'
  BY <1>1, <1>2, <1>3, ConstantsAssumption DEF ClaimLocked, LocksHeld
<1>6. LocalsOK'
  BY <1>2, <1>3 DEF LocalsOK
<1>7. Settled' /\ Shadowed'
  BY <1>1 DEF Settled, Shadowed
<1>8. TokenUnused' /\ SelectedOK' /\ Unspent'
  BY <1>2 DEF TokenUnused, SelectedOK, Unspent
<1>9. TokenBound' /\ ClaimsCoherent' /\ TokensUnique' /\ RetriesCharged'
  BY <1>1 DEF IndInv, RowsOK, TokenBound, ClaimsCoherent, TokensUnique, UniqueTokens,
              RetriesCharged
<1> QED
  BY <1>4, <1>5, <1>6, <1>7, <1>8, <1>9 DEF IndInv, RowsOK

-----------------------------------------------------------------------------
\* The theorems.

\* The empty database of a first start satisfies the invariant.
LEMMA InitInv == Init => IndInv
<1> SUFFICES ASSUME Init PROVE IndInv
  OBVIOUS
<1>1. Absent \in Row /\ CoherentRow(Absent) /\ Absent.token = 0 /\ Absent.state = "absent"
  BY ConstantsAssumption DEF Absent, Row, States, Terminal, CoherentRow
<1>2. \A i \in Ids : db[i] = Absent /\ durable[i] = Absent
  BY DEF Init
<1>3. \A a \in Agents : pc[a] = "idle"
  BY DEF Init
<1>4. TypeOK
  BY <1>1, IdleType, StepTypes DEF Init, TypeOK
<1>5. ClaimLocked
  BY <1>3, StepTypes, ConstantsAssumption DEF Init, ClaimLocked, LocksHeld
<1>6. LocalsOK
  BY <1>3, StepTypes DEF LocalsOK
<1>7. Settled /\ Shadowed /\ TokenBound
  BY <1>1, <1>2 DEF Init, Settled, Shadowed, TokenBound
<1>8. TokenUnused /\ SelectedOK /\ Unspent
  BY <1>3 DEF TokenUnused, SelectedOK, Unspent
<1>9. ClaimsCoherent /\ TokensUnique
  BY <1>1, <1>2 DEF ClaimsCoherent, TokensUnique, UniqueTokens
<1>10. RetriesCharged
  BY <1>2 DEF Init, RetriesCharged, Cost, Absent
<1> QED
  BY <1>4, <1>5, <1>6, <1>7, <1>8, <1>9, <1>10 DEF IndInv, RowsOK

\* Every step keeps the invariant.
LEMMA NextInv == IndInv /\ [Next]_vars => IndInv'
<1> SUFFICES ASSUME IndInv, [Next]_vars PROVE IndInv'
  OBVIOUS
<1>1. ASSUME NEW a \in Agents, Request(a) PROVE IndInv'
  BY <1>1, RequestStep DEF Ordinary
<1>2. ASSUME NEW a \in Agents, HandlerStep(a) PROVE IndInv'
  BY <1>2, PlainHandlerStep, ClaimBeginStep, ClaimSelectStep, ClaimUpdateStep, ClaimEndStep
     DEF HandlerStep, Ordinary
<1>3. CASE UNCHANGED vars
  BY <1>3 DEF vars, IndInv, TypeOK, ClaimLocked, LocksHeld, LocalsOK, RowsOK, Settled, Shadowed,
              TokenUnused, TokenBound, SelectedOK, ClaimsCoherent, TokensUnique,
              RetriesCharged, Unspent
<1> QED
  BY <1>1, <1>2, <1>3, CheckerStep, TickStep, CrashStep, RestartStep DEF Next, Ordinary

\* The invariant holds in every reachable state.
THEOREM Invariance == Spec => []IndInv
BY InitInv, NextInv, PTL DEF Spec

\* The state has its type in every reachable state.
THEOREM TypeCorrect == Spec => []TypeOK
<1>1. IndInv => TypeOK
  BY DEF IndInv
<1> QED
  BY <1>1, Invariance, PTL

\* claimMu is held only by a session that is in a claim, and the connection kept
\* only by one that has rows to read: no way out of a handler leaves a lock
\* behind on which the others would wait for ever.
THEOREM LocksNeverLeaked == Spec => []LocksHeld
<1>1. IndInv => LocksHeld
  BY DEF IndInv, ClaimLocked
<1> QED
  BY <1>1, Invariance, PTL

\* A claimed row names its holder and a pending one names none, in what the
\* connection sees and in what is committed, for any number of sessions
\* whose statements land inside one another's claims.
THEOREM ClaimsAlwaysCoherent == Spec => []ClaimsCoherent
<1>1. IndInv => ClaimsCoherent
  BY DEF IndInv, RowsOK
<1> QED
  BY <1>1, Invariance, PTL

\* No claim token is ever on two tasks.
THEOREM TokensAlwaysUnique == Spec => []TokensUnique
<1>1. IndInv => TokensUnique
  BY DEF IndInv, RowsOK
<1> QED
  BY <1>1, Invariance, PTL

\* On the committed table every step is a step of the ledger: a claim's BEGIN
\* issues a token, its COMMIT is the ledger's, and what a ROLLBACK or a crash
\* drops was never in the ledger.
OnLedger ==
    \/ UNCHANGED <<durable, lastTok>>
    \/ Ledger!Issue
    \/ Ledger!Statement
    \/ Ledger!Commit /\ txn /\ ~txn'

\* Every step of the store is one of these.
LEMMA LedgerStep == IndInv /\ [Next]_vars => OnLedger
<1> SUFFICES ASSUME IndInv, [Next]_vars PROVE OnLedger
  OBVIOUS
<1>1. ASSUME UNCHANGED <<durable, lastTok>> PROVE OnLedger
  BY <1>1 DEF OnLedger
<1>2. ASSUME Ordinary PROVE OnLedger
  BY <1>2 DEF Ordinary, OnLedger
<1>3. ASSUME NEW a \in Agents, ClaimBegin(a) PROVE OnLedger
  BY <1>3 DEF ClaimBegin, OnLedger, Ledger!Issue
<1>4. ASSUME NEW a \in Agents, ClaimCommit(a) PROVE OnLedger
  <2>1. durable' = db /\ lastTok' = lastTok /\ txn /\ ~txn'
    BY <1>4 DEF ClaimCommit, At, IndInv, ClaimLocked, TxSteps
  <2>2. ASSUME NEW i \in Ids
        PROVE  /\ db[i].state \in Ledger!Reachable(durable[i].state)
               /\ db[i].token \in {0, durable[i].token, lastTok}
               /\ db[i].state = "claimed" /\ db[i].token # lastTok
                     => durable[i].state = "claimed" /\ db[i].token = durable[i].token
               /\ durable[i].token # lastTok
               /\ db[i].state \in {"absent", "pending"} => db[i].token = 0
    <3>1. db[i] \in Row /\ durable[i] \in Row /\ CoherentRow(db[i])
      BY DEF IndInv, TypeOK, RowsOK, ClaimsCoherent
    <3>2. db[i].state \in States /\ durable[i].state \in States
      BY <3>1 DEF Row
    <3>3. db[i].state \in Ledger!Reachable(durable[i].state)
      BY <2>1, <3>2 DEF IndInv, RowsOK, Shadowed, Ledger!Reachable, Ledger!Finished,
                        States, Terminal
    <3> QED
      BY <2>1, <3>1, <3>3 DEF IndInv, RowsOK, Shadowed, CoherentRow
  <2>3. \A i, j \in Ids : db[i].token = lastTok /\ db[j].token = lastTok => i = j
    <3>1. lastTok # 0
      BY <1>4 DEF ClaimCommit, At, IndInv, LocalsOK, TxSteps
    <3> QED
      BY <3>1 DEF IndInv, RowsOK, TokensUnique, UniqueTokens
  <2>4. Ledger!Commit
    BY <2>1, <2>2, <2>3 DEF Ledger!Commit, Ledger!Released
  <2> QED
    BY <2>1, <2>4 DEF OnLedger
<1>5. ASSUME NEW a \in Agents, Request(a) PROVE OnLedger
  BY <1>2, <1>5, RequestStep
<1>6. ASSUME NEW a \in Agents, HandlerStep(a) PROVE OnLedger
  <2>1. CASE \/ \E match \in Filters : ClaimSelect(a, match)
             \/ ClaimRollback(a)
    BY <1>1, <2>1 DEF ClaimSelect, ClaimRollback, Rest
  <2>2. CASE ClaimUpdate(a)
    <3>1. txn
      BY <2>2 DEF ClaimUpdate, At, IndInv, ClaimLocked, TxSteps
    <3> QED
      BY <1>1, <2>2, <3>1 DEF ClaimUpdate, Exec, Rest
  <2> QED
    BY <1>2, <1>3, <1>4, <1>6, <2>1, <2>2, PlainHandlerStep DEF HandlerStep
<1>7. CASE Crash \/ UNCHANGED vars
  BY <1>1, <1>7 DEF Crash, vars
<1> QED
  BY <1>2, <1>5, <1>6, <1>7, CheckerStep, TickStep, RestartStep DEF Next

\* The task store implements the ledger: whatever statements land inside a
\* claim's transaction, and whatever is rolled back or lost in a crash, the
\* committed table moves by single lifecycle statements and whole claims.
THEOREM Refinement == Spec => ImplementsLedger
<1>1. Init => Ledger!Init
  BY DEF Init, Ledger!Init, Absent
<1>2. OnLedger => [Ledger!Next]_(Ledger!vars)
  BY DEF OnLedger, Ledger!Next, Ledger!vars
<1> QED
  BY <1>1, <1>2, LedgerStep, Invariance, PTL DEF Spec, ImplementsLedger, Ledger!Spec

\* A task that is finished in the committed table stays finished, for any number
\* of sessions, claims, rollbacks, crashes and restarts.
THEOREM FinishedForGood == Spec => DurableFinished
<1>1. OnLedger => \A i \in Ids : durable[i].state \in Terminal =>
                     durable'[i].state \in {durable[i].state, "failed"}
  BY DEF OnLedger, Terminal, Ledger!Issue, Ledger!Statement, Ledger!Commit,
         Ledger!Successors, Ledger!Reachable, Ledger!Finished
<1> QED
  BY <1>1, LedgerStep, Invariance, PTL DEF Spec, DurableFinished

\* A token enters the committed table only with the COMMIT of its own claim.
THEOREM TokensAlwaysFresh == Spec => TokensFresh
<1>1. OnLedger => \A i \in Ids : durable'[i].token \notin {0, durable[i].token} =>
                     durable'[i].token = lastTok /\ txn /\ ~txn'
  BY DEF OnLedger, Ledger!Issue, Ledger!Statement, Ledger!Commit
<1> QED
  BY <1>1, LedgerStep, Invariance, PTL DEF Spec, TokensFresh

\* However often the disconnect of its holder, the lease checker and a restart
\* race to give a task back, each claim costs it at most one retry.
THEOREM RetriesAlwaysCharged == Spec => []RetriesCharged
<1>1. IndInv => RetriesCharged
  BY DEF IndInv, RowsOK
<1> QED
  BY <1>1, Invariance, PTL

\* The time that the lease checker keeps for its second statement is past.
ClockRead == lcAt <= now

\* Nothing but its first statement sets that time.
LEMMA ClockStep == IndInv /\ ClockRead /\ [Next]_vars => ClockRead'
<1> SUFFICES ASSUME IndInv, ClockRead, [Next]_vars PROVE ClockRead'
  OBVIOUS
<1>1. now \in Nat /\ lcAt \in Nat \cup {-1}
  BY DEF IndInv, TypeOK
<1>2. ASSUME UNCHANGED <<now, lcAt>> PROVE ClockRead'
  BY <1>2 DEF ClockRead
<1>3. ASSUME NEW a \in Agents, Request(a) PROVE ClockRead'
  BY <1>2, <1>3 DEF Request, CreateLookup, Create, Insert, ClaimRequest, Complete, Fail, Heartbeat,
     Cancel, Update, RequeueByOwner, Rest
<1>4. ASSUME NEW a \in Agents, HandlerStep(a) PROVE ClockRead'
  BY <1>2, <1>4 DEF HandlerStep, CreateInsert, Insert, ClaimBegin, ClaimSelect, ClaimUpdate, ClaimCommit,
     ClaimRollback, ClaimReply, ResolveQuery, ResolveNext, ResolveDone, ResolveCheck,
     ResolveUnblock, CompleteReply, FailQuery, FailRowsClose, FailDependent, FailDone,
     RowsClose, OpenRows, CloseRows, Rest
<1>5. CASE Checker
  BY <1>1, <1>2, <1>5 DEF Checker, LeaseFail, LeaseRequeue, CancelExpiredTTL, Rest, ClockRead
<1>6. CASE Tick \/ Crash
  BY <1>1, <1>6 DEF Tick, Crash, ClockRead
<1>7. CASE Restart \/ UNCHANGED vars
  BY <1>2, <1>7 DEF Restart, vars
<1> QED
  BY <1>3, <1>4, <1>5, <1>6, <1>7 DEF Next

\* A statement that gives back the rows of S ends no other claim.
LEMMA GiveBackOnly ==
    ASSUME IndInv, NEW S, NEW s, Exec(GiveBack(S, s)), NEW i \in Claimed,
           db'[i].state # "claimed"
    PROVE  i \in S
BY DEF Exec, GiveBack, Claimed

\* The lease checker takes back no claim whose lease still runs: neither with the
\* time its first statement read, nor with the same time in its second one, by
\* when the holder may have renewed.
THEOREM LiveLeasesKept == Spec => LiveLeaseKept
<1>1. Init => ClockRead
  BY DEF Init, ClockRead
<1>2. ASSUME IndInv, ClockRead, Next, lcAt' # lcAt, up', NEW i \in Claimed,
             db'[i].state # "claimed"
      PROVE  db[i].lease < now
  <2>1. /\ now \in Nat /\ lcAt \in Nat \cup {-1} /\ lcAt <= now
        /\ db[i].lease \in Nat
    BY <1>2 DEF IndInv, TypeOK, ClockRead, Claimed, Row
  <2>2. CASE LeaseFail
    <3>1. i \in Expired(now)
      BY <1>2, <2>2, GiveBackOnly DEF LeaseFail
    <3> QED
      BY <3>1 DEF Expired
  <2>3. CASE LeaseRequeue
    <3>1. i \in Expired(lcAt)
      BY <1>2, <2>3, GiveBackOnly DEF LeaseRequeue
    <3> QED
      BY <2>1, <3>1 DEF Expired
  <2>4. ASSUME NEW a \in Agents PROVE ~Request(a)
    BY <1>2 DEF Request, CreateLookup, Create, Insert, ClaimRequest, Complete, Fail, Heartbeat,
       Cancel, Update, RequeueByOwner, Rest
  <2>5. ASSUME NEW a \in Agents PROVE ~HandlerStep(a)
    BY <1>2 DEF HandlerStep, CreateInsert, Insert, ClaimBegin, ClaimSelect, ClaimUpdate, ClaimCommit,
       ClaimRollback, ClaimReply, ResolveQuery, ResolveNext, ResolveDone, ResolveCheck,
       ResolveUnblock, CompleteReply, FailQuery, FailRowsClose, FailDependent, FailDone,
     RowsClose, OpenRows, CloseRows, Rest
  <2>6. ~CancelExpiredTTL /\ ~Tick /\ ~Crash /\ ~Restart
    BY <1>2 DEF CancelExpiredTTL, Tick, Crash, Restart, Rest
  <2> QED
    BY <1>2, <2>2, <2>3, <2>4, <2>5, <2>6 DEF Next, Checker
<1>3. IndInv /\ ClockRead /\ [Next]_vars =>
         [lcAt' # lcAt /\ up' => \A i \in Claimed :
             db'[i].state # "claimed" => db[i].lease < now]_vars
  BY <1>2 DEF vars
<1> QED
  BY <1>1, <1>3, ClockStep, Invariance, PTL DEF Spec, LiveLeaseKept

=============================================================================
