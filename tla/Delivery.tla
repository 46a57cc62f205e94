------------------------------ MODULE Delivery ------------------------------
(***************************************************************************)
(* What local delivery promises of each message: from the broker's inbox   *)
(* to a record of the machine, without workers, sweeps, retries, signal    *)
(* files or restarts.  Runtime implements it.                              *)
(***************************************************************************)

CONSTANT Keys       \* the messages

VARIABLES
    inbox,      \* the broker's copy of each message
    sending,    \* messages whose push the broker has still to try
    log         \* what the machine knows of each message

vars == <<inbox, sending, log>>

Init ==
    /\ inbox = [k \in Keys |-> "unsent"]
    /\ sending = {}
    /\ log = [k \in Keys |-> "none"]

Send(k) ==
    /\ inbox[k] = "unsent"
    /\ inbox' = [inbox EXCEPT ![k] = "unread"]
    /\ sending' = sending \cup {k}
    /\ UNCHANGED log

\* The one push of a message: after it nothing takes an ack back.
Push(k) ==
    /\ k \in sending
    /\ sending' = sending \ {k}
    /\ \E s \in {inbox[k], "unread"} : inbox' = [inbox EXCEPT ![k] = s]
    /\ UNCHANGED log

\* The agent acks the message itself, or it expires at the broker.
Consume(k) ==
    /\ inbox[k] = "unread"
    /\ inbox' = [inbox EXCEPT ![k] = "gone"]
    /\ UNCHANGED <<sending, log>>

\* The machine takes the message over: not before it has it.
Ack(k) ==
    /\ inbox[k] = "unread"
    /\ log[k] # "none"
    /\ inbox' = [inbox EXCEPT ![k] = "acked"]
    /\ UNCHANGED <<sending, log>>

\* A message is recorded that was sent and has no record, or none any more.
Record(k) ==
    /\ inbox[k] # "unsent"
    /\ log[k] \in {"none", "pruned"}
    /\ log' = [log EXCEPT ![k] = "waiting"]
    /\ UNCHANGED <<inbox, sending>>

\* Notifying the agent fails: it is given up, or is to be tried (again).
Fail(k) ==
    /\ log[k] \in {"waiting", "givenup"}
    /\ \E s \in {"waiting", "givenup"} : log' = [log EXCEPT ![k] = s]
    /\ UNCHANGED <<inbox, sending>>

\* The agent is notified of messages, is shown or dismisses them: for good.
Deliver(S) ==
    /\ \A k \in S : log[k] \in {"waiting", "givenup"}
    /\ log' = [k \in Keys |-> IF k \in S THEN "done" ELSE log[k]]
    /\ UNCHANGED <<inbox, sending>>

\* Records are forgotten: never one that waits.
Prune(S) ==
    /\ \A k \in S : log[k] \in {"done", "givenup"}
    /\ log' = [k \in Keys |-> IF k \in S THEN "pruned" ELSE log[k]]
    /\ UNCHANGED <<inbox, sending>>

Next ==
    \/ \E k \in Keys : Send(k) \/ Push(k) \/ Consume(k) \/ Ack(k) \/ Record(k) \/ Fail(k)
    \/ \E S \in SUBSET Keys : Deliver(S) \/ Prune(S)

Spec == Init /\ [][Next]_vars

=============================================================================
