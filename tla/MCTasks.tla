------------------------------ MODULE MCTasks ------------------------------
(***************************************************************************)
(* TaskStore for TLC: the tasks that clients create in each run.           *)
(***************************************************************************)
EXTENDS TaskStore, TLC

Task(deps, key, maxRetries, ttl) ==
    [deps |-> deps, key |-> key, maxRetries |-> maxRetries, ttl |-> ttl, prio |-> 0]

\* A free task, and one that waits for task 1.
DepParams == {Task({}, NoKey, 1, 0), Task({1}, NoKey, 1, 0)}

\* A task that may be retried once, without and with a time to live.
LeaseParams == {Task({}, NoKey, 2, 0), Task({}, NoKey, 2, 1)}

\* The same, and a task with an idempotency key.
KeyParams == DepParams \cup {Task({}, k, 1, 0) : k \in Keys}

AnyFilter == SUBSET Ids
NoFilter == {Ids}

AgentSymmetry == Permutations(Agents)

=============================================================================
