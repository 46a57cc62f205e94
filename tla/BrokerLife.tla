----------------------------- MODULE BrokerLife -----------------------------
(***************************************************************************)
(* The life of a project's broker process: internal/broker/broker.go (New, *)
(* Serve, Shutdown, the idle monitor) and lifecycle.go, under the commands *)
(* that start it, use it and stop it (cmd/root.go, start.go, stop.go and   *)
(* internal/client).                                                       *)
(*                                                                         *)
(* Commands and brokers meet in the PID file and in the socket's path,     *)
(* both of which anyone may remove, and over connections.  A step is one   *)
(* access to a file, one dial, or one request and its answer.  What the    *)
(* requests do is in modules Sessions, TaskStore, Messages and Events.     *)
(***************************************************************************)
EXTENDS Naturals

CONSTANTS
    Cmds,           \* terminals and hooks that run commands
    Pids,           \* processes that may be started as brokers
    NoPid,          \* no PID file, no socket, no connection
    MaxCommands,    \* bound: commands that are run
    MaxFaults       \* bound: processes that are killed or hang

ASSUME ConstantsAssumption ==
    Pids # {} /\ NoPid \notin Pids /\ MaxCommands \in Nat /\ MaxFaults \in Nat

VARIABLES
    pidFile,        \* the PID in the PID file
    sock,           \* the process whose socket is at the socket's path
    main,           \* where the main goroutine of each broker is
    down,           \* how far Shutdown has come
    asked,          \* goroutines that are about to enter Shutdown
    fired,          \* brokers whose idle monitor has had its say
    hung,           \* brokers that listen and do nothing
    pc,             \* where each command is
    conn,           \* the broker that a command is connected to
    launched, faults,
    disturbed       \* for the properties: what they exclude has happened

files == <<pidFile, sock>>
brokers == <<main, down, asked, fired, hung>>
commands == <<pc, conn, launched>>
vars == <<files, brokers, commands, faults, disturbed>>

\* No broker has been started yet, or one serves.
Init ==
    /\ pidFile \in {NoPid, CHOOSE p \in Pids : TRUE} /\ sock = pidFile
    /\ main = [p \in Pids |-> IF p = pidFile THEN "serving" ELSE "unborn"]
    /\ down = [p \in Pids |-> "no"]
    /\ asked = [p \in Pids |-> 0]
    /\ fired = {} /\ hung = {}
    /\ pc = [c \in Cmds |-> "idle"]
    /\ conn = [c \in Cmds |-> NoPid]
    /\ launched = 0 /\ faults = 0
    /\ disturbed = FALSE

Alive(p) == main[p] \notin {"unborn", "dead"}

Starting(p) == main[p] \in {"forked", "cleared", "listening"}

\* A broker runs on unless it hangs.
Runs(p) == Alive(p) /\ p \notin hung

\* The listener takes connections from net.Listen to its Close.
Listens(p) ==
    /\ main[p] \in {"listening", "serving"}
    /\ down[p] \in {"no", "stopped"}

\* The process goes, and with it all that it held.
Dies(p) ==
    /\ main' = [main EXCEPT ![p] = "dead"]
    /\ down' = [down EXCEPT ![p] = "no"]
    /\ asked' = [asked EXCEPT ![p] = 0]
    /\ fired' = fired \ {p}
    /\ hung' = hung \ {p}

\* The PID file names a process that lives.  Reading the file and signal 0 are
\* one step: a process that lives after the read lived at the read.
IsRunning == pidFile # NoPid /\ Alive(pidFile)

\* What a command is after is chosen when it first matters: a request, a listener
\* or a stop once it is registered, a start when the broker is up.
Requests == {"request", "listen", "stop"}

Registered(p) == {c \in Cmds : conn[c] = p /\ pc[c] \in Requests}

Goto(c, step) ==
    /\ pc' = [pc EXCEPT ![c] = step]
    /\ UNCHANGED launched

\* A command ends: the broker sees the end of its connection.
Return(c) ==
    /\ conn' = [conn EXCEPT ![c] = NoPid]
    /\ Goto(c, "idle")

Here(c, step) == pc[c] = step /\ UNCHANGED <<brokers, faults>>

-----------------------------------------------------------------------------
\* Commands before they connect: PersistentPreRunE and `waggle start`.

\* Commands that are on their way to the broker at once, and a broker on its way
\* up without the command that started it, are among what the properties exclude.
\* (`waggle start` does nothing when a broker runs.)
Begin(c) ==
    /\ pc[c] = "idle" /\ launched < MaxCommands
    /\ launched' = launched + 1
    /\ \/ ~IsRunning /\ pc' = [pc EXCEPT ![c] = "clean"]
       \/ IsRunning /\ pc' = [pc EXCEPT ![c] = "probe"]
       \/ pc' = [pc EXCEPT ![c] = "dial"]    \* --no-auto-start
    /\ disturbed' = (\/ disturbed
                     \/ \E d \in Cmds : pc[d] \notin Requests \cup {"idle"}
                     \/ \E p \in Pids : Starting(p))
    /\ UNCHANGED <<files, brokers, conn, faults>>

\* IsResponding: dial, ask for the status, read an answer, all with a deadline.
Probe(c) ==
    /\ Here(c, "probe") /\ UNCHANGED <<files, disturbed>>
    /\ \/ /\ sock # NoPid /\ Listens(sock)
          /\ conn' = [conn EXCEPT ![c] = sock]
          /\ Goto(c, "probing")
       \/ /\ ~(sock # NoPid /\ Listens(sock))
          /\ Goto(c, "drop") /\ UNCHANGED conn

\* The broker reads a request and answers.  One that has closed its listener
\* may have accepted the connection before.
Answers(c) == Runs(conn[c]) /\ main[conn[c]] \in {"serving", "left"}

\* The connection is closed: by the end of the process, by the listener that
\* had not accepted it, or by Shutdown when it was registered.
Lost(c) == ~Alive(conn[c]) \/ down[conn[c]] \in {"closed", "done"}

\* Mutant: an answer is taken for none.
ProbedUnread(c) ==
    /\ Here(c, "probing") /\ UNCHANGED <<files, disturbed>>
    /\ conn' = [conn EXCEPT ![c] = NoPid]
    /\ Answers(c) \/ Lost(c)
    /\ Goto(c, "drop")

Probed(c) ==
    /\ Here(c, "probing") /\ UNCHANGED <<files, disturbed>>
    /\ conn' = [conn EXCEPT ![c] = NoPid]
    /\ \/ Answers(c) /\ Goto(c, "dial")
       \/ Lost(c) /\ Goto(c, "drop")

\* An unresponsive broker: its socket and its PID file are removed.
Drop(c) ==
    /\ Here(c, "drop") /\ UNCHANGED <<conn, disturbed>>
    /\ sock' = NoPid /\ pidFile' = NoPid
    /\ Goto(c, "clean")

\* CleanupStale: an error if a broker runs by now ...
Cleanup(c) ==
    /\ Here(c, "clean") /\ UNCHANGED <<files, disturbed>>
    /\ \/ IsRunning /\ Return(c)
       \/ ~IsRunning /\ Goto(c, "rmpid") /\ UNCHANGED conn

\* ... and both files go, whoever made them by now.  A file that is gone after
\* the Stat that found it is an error.
CleanupPID(c) ==
    /\ Here(c, "rmpid") /\ UNCHANGED <<sock, disturbed>>
    /\ \/ pidFile' = NoPid /\ Goto(c, "rmsock") /\ UNCHANGED conn
       \/ pidFile = NoPid /\ Return(c) /\ UNCHANGED pidFile

CleanupSocket(c) ==
    /\ Here(c, "rmsock") /\ UNCHANGED <<pidFile, disturbed>>
    /\ \/ sock' = NoPid /\ Goto(c, "fork") /\ UNCHANGED conn
       \/ sock = NoPid /\ Return(c) /\ UNCHANGED sock

\* StartDaemon, which may fail.  A start beside a broker on its way up or down is
\* among what the properties exclude.
StartDaemon(c) ==
    /\ pc[c] = "fork" /\ UNCHANGED <<files, down, asked, fired, hung, faults>>
    /\ \/ /\ \E p \in Pids : main[p] = "unborn"
          /\ LET p == CHOOSE q \in Pids : main[q] = "unborn"
             IN  main' = [main EXCEPT ![p] = "forked"]
          /\ disturbed' = (disturbed \/ \E p \in Pids : Starting(p) \/ (Alive(p) /\ down[p] # "no"))
          /\ Goto(c, "wait") /\ UNCHANGED conn
       \/ Return(c) /\ UNCHANGED <<main, disturbed>>

\* `waggle start` reports the broker and is done.
Started(c) == Return(c)

\* A broker runs; commands other than `waggle start` go on and connect.
WaitForReady(c) ==
    /\ Here(c, "wait") /\ UNCHANGED <<files, disturbed>>
    /\ IsRunning
    /\ \/ Goto(c, "dial") /\ UNCHANGED conn
       \/ Started(c)

-----------------------------------------------------------------------------
\* Commands that use the broker: connectToBroker, Send.

Dial(c) ==
    /\ Here(c, "dial") /\ UNCHANGED <<files, disturbed>>
    /\ \/ /\ sock # NoPid /\ Listens(sock)
          /\ conn' = [conn EXCEPT ![c] = sock]
          /\ Goto(c, "handshake")
       \/ ~(sock # NoPid /\ Listens(sock)) /\ Return(c)

Handshake(c) ==
    /\ Here(c, "handshake") /\ UNCHANGED <<files, disturbed>>
    /\ \/ Answers(c) /\ UNCHANGED conn /\ \E k \in Requests : Goto(c, k)
       \/ Lost(c) /\ Return(c)

\* stop has Shutdown run in a goroutine of its own.
HandleStop(c) ==
    asked' = IF pc[c] = "stop" THEN [asked EXCEPT ![conn[c]] = @ + 1] ELSE asked

\* A request is answered.  What comes of the disconnect, which has a deadline,
\* does not matter.  A listener stays until it is hung up or loses its connection.
Send(c) ==
    /\ pc[c] \in Requests /\ UNCHANGED <<files, main, down, fired, hung, faults, disturbed>>
    /\ \/ /\ Answers(c) /\ pc[c] # "listen"
          /\ HandleStop(c)
       \/ Lost(c) /\ UNCHANGED asked
    /\ Return(c)

HangUp(c) ==
    /\ Here(c, "listen") /\ UNCHANGED <<files, disturbed>>
    /\ Return(c)

\* A handshake that timed out: the two files go, and the command with an error.
CleanupStaleFiles(c) ==
    /\ Here(c, "stale") /\ UNCHANGED disturbed
    /\ sock' = NoPid /\ pidFile' = NoPid
    /\ Return(c)

-----------------------------------------------------------------------------
\* Deadlines.  One that passes on a broker that runs is among what the
\* properties exclude.  A lost connection is an error at once.

TakesOver(c, step) ==
    /\ Goto(c, step)
    /\ conn' = [conn EXCEPT ![c] = NoPid]
    /\ disturbed' = (disturbed \/ Runs(conn[c]))

ProbeTimeout(c) ==
    /\ Here(c, "probing") /\ UNCHANGED files
    /\ ~Lost(c)
    /\ TakesOver(c, "drop")

\* Mutant: the handshake has no deadline.
HandshakeTimeoutNot(c) == FALSE /\ UNCHANGED vars

HandshakeTimeout(c) ==
    /\ Here(c, "handshake") /\ UNCHANGED files
    /\ ~Lost(c)
    /\ TakesOver(c, "stale")

WaitTimeout(c) ==
    /\ Here(c, "wait") /\ UNCHANGED files
    /\ disturbed' = (disturbed \/ \E p \in Pids : Starting(p))
    /\ Return(c)

-----------------------------------------------------------------------------
\* The broker's main goroutine: start --foreground.

Ends(p, from) ==
    /\ Runs(p) /\ main[p] = from
    /\ Dies(p)
    /\ UNCHANGED <<commands, faults, disturbed>>

Step(p, from, to) ==
    /\ Runs(p) /\ main[p] = from
    /\ main' = [main EXCEPT ![p] = to]
    /\ UNCHANGED <<down, asked, fired, hung, commands, faults, disturbed>>

\* The database cannot be opened.
OpenFails(p) == Ends(p, "forked") /\ UNCHANGED files

\* New removes the socket that is there, whoever listens on it.  One that is
\* gone after the Stat that found it is an error.
RemoveStaleSocket(p) ==
    /\ UNCHANGED pidFile
    /\ \/ Step(p, "forked", "cleared") /\ sock' = NoPid
       \/ sock = NoPid /\ Ends(p, "forked") /\ UNCHANGED sock

\* A socket that someone else made meanwhile, or a path that someone removes
\* before os.Chmod, is an error.
Listen(p) ==
    /\ UNCHANGED pidFile
    /\ \/ sock = NoPid /\ Step(p, "cleared", "listening") /\ sock' = p
       \/ Ends(p, "cleared") /\ UNCHANGED sock

\* WritePID, and Serve begins: RequeueAllClaimed, the background checkers and
\* the accept loop.
Serve(p) ==
    /\ Step(p, "listening", "serving") /\ UNCHANGED sock
    /\ pidFile' = p

\* Mutant: Serve waits for its connections.
ServeReturnsLast(p) ==
    /\ down[p] = "done"
    /\ Step(p, "serving", "left") /\ UNCHANGED sock
    /\ pidFile' = NoPid

\* Accept fails and stopCh is closed: Serve returns although Shutdown goes on,
\* and RemovePID removes the file whoever wrote it.
ServeReturns(p) ==
    /\ down[p] \in {"closed", "done"}
    /\ Step(p, "serving", "left") /\ UNCHANGED sock
    /\ pidFile' = NoPid

\* The process ends, wherever Shutdown is.
Exit(p) == Ends(p, "left") /\ UNCHANGED files

-----------------------------------------------------------------------------
\* Shutdown, in a goroutine of its own.

Shut(p, from, to) ==
    /\ Runs(p) /\ down[p] = from
    /\ down' = [down EXCEPT ![p] = to]
    /\ UNCHANGED <<main, fired, hung, commands, faults, disturbed, pidFile>>

Stop(p) ==
    /\ asked[p] > 0 /\ asked' = [asked EXCEPT ![p] = @ - 1]
    /\ Shut(p, "no", "stopped") /\ UNCHANGED sock

\* A second Shutdown closes stopCh again: the process panics and leaves its
\* files.
StopAgain(p) ==
    /\ Runs(p) /\ asked[p] > 0 /\ down[p] # "no"
    /\ Dies(p)
    /\ UNCHANGED <<files, commands, faults, disturbed>>

\* The listener's Close unlinks the path, whoever listens there; then the
\* connections of registered sessions are closed.
CloseListener(p) ==
    /\ Shut(p, "stopped", "closed") /\ UNCHANGED asked
    /\ sock' = NoPid

\* wg.Wait, store.Close, and the path is removed again.  Nobody closes a
\* connection that never registered: the wait may not end.
RemoveSocket(p) ==
    /\ Shut(p, "closed", "done") /\ UNCHANGED asked
    /\ sock' = NoPid

\* Mutant: a broker without its PID file is not looked after.
IdleTimeoutNamed(p) ==
    /\ Runs(p) /\ main[p] = "serving" /\ p \notin fired
    /\ Registered(p) = {} /\ pidFile = p
    /\ fired' = fired \cup {p}
    /\ asked' = [asked EXCEPT ![p] = @ + 1]
    /\ UNCHANGED <<files, main, down, hung, commands, faults, disturbed>>

\* monitorIdleTimeout: no session has been registered for IdleTimeout.  It may
\* fire beside a stop: select may take the tick although stopCh is closed.
IdleTimeout(p) ==
    /\ Runs(p) /\ main[p] = "serving" /\ p \notin fired
    /\ Registered(p) = {}
    /\ fired' = fired \cup {p}
    /\ asked' = [asked EXCEPT ![p] = @ + 1]
    /\ UNCHANGED <<files, main, down, hung, commands, faults, disturbed>>

-----------------------------------------------------------------------------
\* Faults.

Kill(p) ==
    /\ faults < MaxFaults /\ Alive(p)
    /\ faults' = faults + 1
    /\ Dies(p)
    /\ UNCHANGED <<files, commands, disturbed>>

\* A broker that listens and does not answer.
Hang(p) ==
    /\ faults < MaxFaults /\ Runs(p) /\ main[p] = "serving"
    /\ faults' = faults + 1
    /\ hung' = hung \cup {p}
    /\ UNCHANGED <<files, main, down, asked, fired, commands, disturbed>>

Interrupt(c) ==
    /\ faults < MaxFaults /\ pc[c] # "idle"
    /\ faults' = faults + 1
    /\ Return(c)
    /\ UNCHANGED <<files, brokers, disturbed>>

-----------------------------------------------------------------------------
CommandStep(c) ==
    \/ Probe(c) \/ Probed(c) \/ Drop(c)
    \/ Cleanup(c) \/ CleanupPID(c) \/ CleanupSocket(c) \/ StartDaemon(c) \/ WaitForReady(c)
    \/ Dial(c) \/ Handshake(c) \/ Send(c) \/ CleanupStaleFiles(c)

DeadlinePasses(c) ==
    ProbeTimeout(c) \/ HandshakeTimeout(c) \/ WaitTimeout(c)

MainStep(p) ==
    \/ OpenFails(p) \/ RemoveStaleSocket(p) \/ Listen(p) \/ Serve(p)
    \/ ServeReturns(p) \/ Exit(p)

ShutdownStep(p) == Stop(p) \/ StopAgain(p) \/ CloseListener(p)

Next ==
    \/ \E c \in Cmds : Begin(c)
    \/ \E c \in Cmds : CommandStep(c) \/ DeadlinePasses(c) \/ HangUp(c) \/ Interrupt(c)
    \/ \E p \in Pids : MainStep(p) \/ ShutdownStep(p) \/ RemoveSocket(p) \/ IdleTimeout(p)
    \/ \E p \in Pids : Kill(p) \/ Hang(p)

Spec == Init /\ [][Next]_vars

\* Commands, goroutines and clocks run on.  Nothing is assumed of who runs
\* commands, of when a listener hangs up, of the wait for connections, nor of
\* faults.  No step can be taken for ever, so that fairness to all of them
\* together is fairness to each.
Progress ==
    \/ \E c \in Cmds : CommandStep(c) \/ DeadlinePasses(c)
    \/ \E p \in Pids : MainStep(p) \/ ShutdownStep(p) \/ IdleTimeout(p)

FairSpec == Spec /\ WF_vars(Progress)

-----------------------------------------------------------------------------
\* Properties.

Steps == {"idle", "probe", "probing", "drop", "clean", "rmpid", "rmsock",
          "fork", "wait", "dial", "handshake", "stale"} \cup Requests
Phases == {"unborn", "forked", "cleared", "listening", "serving", "left", "dead"}
Downs == {"no", "stopped", "closed", "done"}

\* The shape of the state.
TypeOK ==
    /\ {pidFile, sock} \subseteq Pids \cup {NoPid}
    /\ main \in [Pids -> Phases] /\ down \in [Pids -> Downs]
    /\ asked \in [Pids -> Nat] /\ fired \subseteq Pids /\ hung \subseteq Pids
    /\ pc \in [Cmds -> Steps]
    /\ conn \in [Cmds -> Pids \cup {NoPid}]
    /\ launched \in 0..MaxCommands /\ faults \in 0..MaxFaults /\ disturbed \in BOOLEAN

Serves(p) == Runs(p) /\ main[p] = "serving" /\ down[p] = "no"

\* One broker serves a project, and both the PID file and the socket's path lead
\* to it, whatever was killed or hangs and whatever it left in the two files:
\* unless commands overlap before they are connected, a broker is started beside
\* one on its way up or down, or a deadline passes on a broker that runs.
OneBroker == disturbed \/ \A p \in Pids : Serves(p) => pidFile = p /\ sock = p

\* Who finds a process behind the PID file finds a broker that has bound its
\* socket: WaitForReady need not look at the socket.
ReadyIsBound == IsRunning => ~Starting(pidFile)

\* Every command returns, also when the broker hangs, except one that a broker
\* took up before it hung, and a listener.
CommandsReturn ==
    \A c \in Cmds : pc[c] # "idle" ~>
        \/ pc[c] = "idle"
        \/ pc[c] = "listen"
        \/ pc[c] \in Requests /\ conn[c] \in hung

\* A broker that was told to stop ends, however many connections it has and
\* however often it is told.
StopEnds == \A p \in Pids : asked[p] > 0 ~> ~Runs(p)

\* A broker whose socket was taken from it, which nobody can reach to stop it,
\* ends by itself once no listener is registered with it.
OrphanEnds ==
    \A p \in Pids : main[p] = "serving" /\ sock # p ~>
        \/ ~Runs(p)
        \/ \E c \in Registered(p) : pc[c] = "listen"

=============================================================================
