----------------------------- MODULE TaskLedger -----------------------------
(***************************************************************************)
(* What the task queue promises of its committed table: the lifecycle of   *)
(* each task and who may work on it, without sessions, transactions or a   *)
(* clock.  TaskStore implements it.                                        *)
(***************************************************************************)
EXTENDS Naturals

CONSTANT Ids

VARIABLES
    status,     \* the committed state of each task
    token,      \* the committed claim token of each task, 0 for none
    issued      \* the number of claim tokens generated so far

vars == <<status, token, issued>>

Finished == {"completed", "failed", "canceled"}

Init ==
    /\ status = [i \in Ids |-> "absent"]
    /\ token = [i \in Ids |-> 0]
    /\ issued = 0

\* Where one statement may take a task.
Successors(s) ==
    {s} \cup (IF s = "absent" THEN {"pending"} ELSE {"failed"})
        \cup (IF s \in {"pending", "claimed"} THEN {"canceled"} ELSE {})
        \cup (IF s = "claimed" THEN {"pending", "completed"} ELSE {})

\* Where the statements committed together may take a task.
Reachable(s) ==
    IF s \in Finished THEN {s, "failed"} ELSE {s, "pending", "claimed"} \cup Finished

\* A task that is not held has no token.
Released(S, t) == \A i \in Ids : S[i] \in {"absent", "pending"} => t[i] = 0

\* A claim starts: a token nobody has seen.
Issue ==
    /\ issued' = issued + 1
    /\ UNCHANGED <<status, token>>

\* A statement that commits by itself hands out no claim.
Statement ==
    /\ \A i \in Ids : /\ status'[i] \in Successors(status[i])
                      /\ token'[i] \in {0, token[i]}
    /\ Released(status', token')
    /\ UNCHANGED issued

\* A claim commits: at most one task takes the token last issued, and whatever
\* other sessions wrote in the meantime is committed with it.
Commit ==
    /\ \A i \in Ids : /\ status'[i] \in Reachable(status[i])
                      /\ token'[i] \in {0, token[i], issued}
                      /\ status'[i] = "claimed" /\ token'[i] # issued
                            => status[i] = "claimed" /\ token'[i] = token[i]
    /\ \A i, j \in Ids : token'[i] = issued /\ token'[j] = issued => i = j
    /\ \A i \in Ids : token[i] # issued
    /\ Released(status', token')
    /\ UNCHANGED issued

Next == Issue \/ Statement \/ Commit

Spec == Init /\ [][Next]_vars

=============================================================================
