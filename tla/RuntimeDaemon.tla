--------------------------- MODULE RuntimeDaemon ---------------------------
(***************************************************************************)
(* The life of the machine runtime's process: internal/runtime/daemon.go   *)
(* under `waggle runtime start` and `stop` (cmd/runtime_start.go) and the  *)
(* start by an adapter (internal/adapter/bootstrap.go).                    *)
(*                                                                         *)
(* Processes meet only in the file system: the PID file, the state file    *)
(* and the directory that is the start lock.  A step is one read, write or *)
(* removal of one of them, or one signal.  What a daemon does between      *)
(* Start and Stop of its manager is module Runtime.  A PID is not used     *)
(* twice.                                                                  *)
(***************************************************************************)
EXTENDS Naturals, FiniteSets

CONSTANTS
    Cmds,           \* terminals and hooks that run commands
    Pids,           \* processes that may be started as daemons
    NoPid,          \* no PID file, a state file without a PID
    Free, Orphan, Stale, \* start lock: none, of a dead command, and past its age
    MaxCommands,    \* bound: commands that are run
    MaxCrashes,     \* bound: commands and daemons that are killed
    Timely          \* no deadline passes before what it waits for happens

ASSUME ConstantsAssumption ==
    /\ NoPid \notin Pids
    /\ {Free, Orphan, Stale} \cap Cmds = {}
    /\ Free # Orphan /\ Free # Stale /\ Orphan # Stale
    /\ MaxCommands \in Nat /\ MaxCrashes \in Nat /\ Timely \in BOOLEAN

VARIABLES
    pidFile,        \* the PID in the PID file
    state,          \* PID and Running of the state file
    lock,           \* the start lock directory: who made it
    proc,           \* where each daemon is
    signalled,      \* daemons that were sent SIGTERM
    pc,             \* where each command is
    seen,           \* the PID a command has read
    launched, crashes,
    \* for the properties only:
    up,             \* daemons whose manager has started
    gone,           \* daemons that were dead when the command removed the PID file
    raced           \* two commands were about to remove the same stale lock

files == <<pidFile, state, lock>>
daemons == <<proc, signalled, up>>
commands == <<pc, seen, launched, gone, raced>>
vars == <<files, daemons, commands, crashes>>

Init ==
    /\ pidFile = NoPid
    /\ state = [pid |-> NoPid, running |-> FALSE]
    /\ lock = Free
    /\ proc = [p \in Pids |-> "unborn"]
    /\ signalled = {}
    /\ pc = [c \in Cmds |-> "idle"]
    /\ seen = [c \in Cmds |-> NoPid]
    /\ launched = 0 /\ crashes = 0
    /\ up = {}
    /\ gone = [c \in Cmds |-> {}]
    /\ raced = FALSE

Alive(p) == proc[p] \notin {"unborn", "dead"}

\* IsRunning from the PID on that was read before.  Reading the state file and
\* signal 0 are one step: a process that lives after the read lived at the read.
IsRunning(p) == p # NoPid /\ state = [pid |-> p, running |-> TRUE] /\ Alive(p)

Goto(c, step) ==
    /\ pc' = [pc EXCEPT ![c] = step]
    /\ UNCHANGED <<launched, gone, raced>>

\* ... with the PID that was read used up.
Forget(c, step) ==
    /\ seen' = [seen EXCEPT ![c] = NoPid]
    /\ Goto(c, step)

Return(c) ==
    /\ seen' = [seen EXCEPT ![c] = NoPid]
    /\ gone' = [gone EXCEPT ![c] = {}]
    /\ pc' = [pc EXCEPT ![c] = "idle"]
    /\ UNCHANGED <<launched, raced>>

\* broker.ReadPID of the PID file.
ReadPID(c, step) ==
    /\ seen' = [seen EXCEPT ![c] = pidFile]
    /\ Goto(c, step)
    /\ UNCHANGED <<files, daemons, crashes>>

Here(c, step) == pc[c] = step /\ UNCHANGED <<daemons, crashes>>

-----------------------------------------------------------------------------
\* The start of the runtime: the command, and ensureRuntimeStarted.

Begin(c, kind) ==
    /\ pc[c] = "idle" /\ launched < MaxCommands
    /\ launched' = launched + 1
    /\ pc' = [pc EXCEPT ![c] = kind]
    /\ seen' = [seen EXCEPT ![c] = pidFile]
    /\ UNCHANGED <<files, daemons, crashes, gone, raced>>

\* "runtime already running" is a success.
StartCheck(c) ==
    /\ Here(c, "start") /\ UNCHANGED files
    /\ \/ IsRunning(seen[c]) /\ Return(c)
       \/ ~IsRunning(seen[c]) /\ Forget(c, "clean")

\* CleanupStale asks IsRunning again, now with an error if it is.
CleanupRead(c) == pc[c] = "clean" /\ ReadPID(c, "recheck")

CleanupCheck(c) ==
    /\ Here(c, "recheck") /\ UNCHANGED files
    /\ \/ IsRunning(seen[c]) /\ Return(c)
       \/ ~IsRunning(seen[c]) /\ Forget(c, "unlink")

\* ... and removes the PID file, whoever wrote it by now.  The file may be gone
\* after the Stat that found it; that is an error.
CleanupUnlink(c) ==
    /\ Here(c, "unlink") /\ UNCHANGED <<state, lock>>
    /\ \/ /\ pidFile' = NoPid
          /\ gone' = [gone EXCEPT ![c] = {p \in Pids : proc[p] = "dead"}]
          /\ pc' = [pc EXCEPT ![c] = "mkdir"]
          /\ UNCHANGED <<seen, launched, raced>>
       \/ pidFile = NoPid /\ Return(c) /\ UNCHANGED pidFile

\* AcquireStartLock: a directory that can be made once.
LockMkdir(c) ==
    /\ Here(c, "mkdir") /\ UNCHANGED <<pidFile, state, seen>>
    /\ \/ lock = Free /\ lock' = c /\ Goto(c, "fork")
       \/ lock # Free /\ Goto(c, "stat") /\ UNCHANGED lock

\* Mutant: the age of the lock is not looked at.
LockStatAnyAge(c) ==
    /\ Here(c, "stat") /\ UNCHANGED files
    /\ Forget(c, IF lock = Free THEN "mkdir" ELSE "takeover")

\* Stat of the lock that is in the way: gone, too old, or "start already in
\* progress".
LockStat(c) ==
    /\ Here(c, "stat") /\ UNCHANGED files
    /\ \/ lock = Free /\ Goto(c, "mkdir") /\ UNCHANGED seen
       \/ lock = Stale /\ Goto(c, "takeover") /\ UNCHANGED seen
       \/ lock \notin {Free, Stale} /\ Return(c)

LockTakeover(c) ==
    /\ Here(c, "takeover") /\ UNCHANGED <<pidFile, state>>
    /\ lock' = Free
    /\ pc' = [pc EXCEPT ![c] = "mkdir"]
    /\ raced' = (raced \/ \E d \in Cmds \ {c} : pc[d] = "takeover")
    /\ UNCHANGED <<seen, launched, gone>>

\* StartDaemon; when os.StartProcess fails the command gives up.
StartDaemon(c) ==
    /\ pc[c] = "fork"
    /\ \/ \E p \in Pids : /\ proc[p] = "unborn"
                          /\ proc' = [proc EXCEPT ![p] = "forked"]
                          /\ Goto(c, "wait")
       \/ Goto(c, "release") /\ UNCHANGED proc
    /\ UNCHANGED <<files, signalled, up, crashes, seen>>

\* WaitForReady: the state file must say that its PID runs, and the PID file
\* must name the same PID.
WaitState(c) ==
    /\ Here(c, "wait") /\ UNCHANGED files
    /\ state.running
    /\ seen' = [seen EXCEPT ![c] = state.pid]
    /\ Goto(c, "ready")

\* Mutant: the PID of the state file is not compared.
WaitPIDAny(c) == Here(c, "ready") /\ UNCHANGED <<files, seen>> /\ Goto(c, "report")

WaitPID(c) ==
    /\ Here(c, "ready") /\ UNCHANGED files
    /\ Forget(c, IF pidFile = seen[c] THEN "report" ELSE "wait")

\* Mutant: the deadline is not looked at while no runtime is ready.
WaitTimeoutLate(c) ==
    /\ ~Timely
    /\ pc[c] = "ready" /\ pidFile # seen[c]
    /\ Forget(c, "release")
    /\ UNCHANGED <<files, daemons, crashes>>

WaitTimeout(c) ==
    /\ ~Timely
    /\ \/ pc[c] = "wait"
       \/ pc[c] = "ready" /\ pidFile # seen[c]
    /\ Forget(c, "release")
    /\ UNCHANGED <<files, daemons, crashes>>

\* The PID is read once more, for the answer.
Report(c) == Here(c, "report") /\ Forget(c, "release") /\ UNCHANGED files

\* The deferred releaseLock removes the directory, whoever made it.
Release(c) ==
    /\ Here(c, "release") /\ UNCHANGED <<pidFile, state>>
    /\ lock' = Free
    /\ Return(c)

-----------------------------------------------------------------------------
\* waggle runtime stop.

StopCheck(c) ==
    /\ Here(c, "stop") /\ UNCHANGED files
    /\ \/ ~IsRunning(seen[c]) /\ Return(c)
       \/ IsRunning(seen[c]) /\ Forget(c, "whom")

StopRead(c) ==
    /\ pc[c] = "whom"
    /\ \/ pidFile # NoPid /\ ReadPID(c, "kill")
       \/ pidFile = NoPid /\ Return(c) /\ UNCHANGED <<files, daemons, crashes>>

StopKill(c) ==
    /\ pc[c] = "kill"
    /\ UNCHANGED <<files, proc, up, crashes>>
    /\ \/ Alive(seen[c]) /\ signalled' = signalled \cup {seen[c]} /\ Forget(c, "poll")
       \/ ~Alive(seen[c]) /\ Return(c) /\ UNCHANGED signalled

StopPoll(c) == pc[c] = "poll" /\ ReadPID(c, "polled")

StopPolled(c) ==
    /\ Here(c, "polled") /\ UNCHANGED files
    /\ \/ ~IsRunning(seen[c]) /\ Return(c)
       \/ IsRunning(seen[c]) /\ Forget(c, "poll")

StopTimeout(c) ==
    /\ ~Timely
    /\ pc[c] \in {"poll", "polled"}
    /\ Return(c)
    /\ UNCHANGED <<files, daemons, crashes>>

-----------------------------------------------------------------------------
\* The daemon: runtime start --foreground, then RunDaemon.

Step(p, from, to) ==
    /\ proc[p] = from
    /\ proc' = [proc EXCEPT ![p] = to]
    /\ UNCHANGED <<commands, crashes, signalled, lock>>

\* SaveState writes a new file and renames it.
SaveState(p, running) == state' = [pid |-> p, running |-> running]

\* The runtime's store cannot be opened.
OpenStoreFails(p) == Step(p, "forked", "dead") /\ UNCHANGED <<pidFile, state, up>>

WritePID(p) ==
    /\ Step(p, "forked", "pid") /\ UNCHANGED <<state, up>>
    /\ pidFile' = p

SaveStarting(p) ==
    /\ Step(p, "pid", "starting") /\ UNCHANGED <<pidFile, up>>
    /\ SaveState(p, FALSE)

ManagerStart(p) ==
    /\ Step(p, "starting", "started") /\ UNCHANGED <<pidFile, state>>
    /\ up' = up \cup {p}

ManagerStartFails(p) ==
    /\ Step(p, "starting", "leaving") /\ UNCHANGED <<pidFile, up>>
    /\ SaveState(p, FALSE)

SaveRunning(p) ==
    /\ Step(p, "started", "running") /\ UNCHANGED <<pidFile, up>>
    /\ SaveState(p, TRUE)

\* The watch count or the errors have changed: the state is saved again.
Refresh(p) ==
    /\ Step(p, "running", "running") /\ UNCHANGED <<pidFile, up>>
    /\ SaveState(p, TRUE)

\* Mutant: the stopped state is not saved.
SaveStoppedNot(p) ==
    /\ p \in signalled
    /\ Step(p, "running", "stopping") /\ UNCHANGED <<pidFile, state, up>>

SaveStopped(p) ==
    /\ p \in signalled
    /\ Step(p, "running", "stopping") /\ UNCHANGED <<pidFile, up>>
    /\ SaveState(p, FALSE)

\* The deferred calls: manager.Stop, which waits for the workers, and RemovePID,
\* which removes the file whoever wrote it.
ManagerStop(p) ==
    Step(p, "stopping", "leaving") /\ UNCHANGED <<pidFile, state, up>>

RemovePID(p) ==
    /\ Step(p, "leaving", "dead") /\ UNCHANGED <<state, up>>
    /\ pidFile' = NoPid

-----------------------------------------------------------------------------
\* Faults and time.

Kill(p) ==
    /\ crashes < MaxCrashes /\ Alive(p)
    /\ crashes' = crashes + 1
    /\ proc' = [proc EXCEPT ![p] = "dead"]
    /\ UNCHANGED <<files, signalled, up, commands>>

\* A command is interrupted: its deferred calls do not run.
Interrupt(c) ==
    /\ crashes < MaxCrashes /\ pc[c] # "idle"
    /\ crashes' = crashes + 1
    /\ lock' = IF lock = c THEN Orphan ELSE lock
    /\ Return(c)
    /\ UNCHANGED <<pidFile, state, daemons>>

\* RuntimeStartLockStaleThreshold (10s) passes.  A command that lives holds the
\* lock for at most StartupTimeout (2s).
LockAges ==
    /\ lock = Orphan /\ lock' = Stale
    /\ UNCHANGED <<pidFile, state, daemons, commands, crashes>>

-----------------------------------------------------------------------------
CommandStep(c) ==
    \/ StartCheck(c) \/ CleanupRead(c) \/ CleanupCheck(c) \/ CleanupUnlink(c)
    \/ LockMkdir(c) \/ LockStat(c) \/ LockTakeover(c) \/ StartDaemon(c)
    \/ WaitState(c) \/ WaitPID(c) \/ Report(c) \/ Release(c)
    \/ StopCheck(c) \/ StopRead(c) \/ StopKill(c) \/ StopPoll(c) \/ StopPolled(c)

DeadlinePasses(c) == WaitTimeout(c) \/ StopTimeout(c)

DaemonStep(p) ==
    \/ OpenStoreFails(p) \/ WritePID(p) \/ SaveStarting(p)
    \/ ManagerStart(p) \/ ManagerStartFails(p) \/ SaveRunning(p)
    \/ SaveStopped(p) \/ ManagerStop(p) \/ RemovePID(p)

Next ==
    \/ \E c \in Cmds, kind \in {"start", "stop"} : Begin(c, kind)
    \/ \E c \in Cmds : CommandStep(c) \/ DeadlinePasses(c) \/ Interrupt(c)
    \/ \E p \in Pids : DaemonStep(p) \/ Refresh(p) \/ Kill(p)
    \/ LockAges

Spec == Init /\ [][Next]_vars

\* Commands and daemons run on; a deadline passes although the poll around it
\* goes on.  Nothing is assumed of who runs commands, nor of faults.
FairSpec ==
    /\ Spec
    /\ \A c \in Cmds : WF_vars(CommandStep(c)) /\ WF_vars(DeadlinePasses(c))
    /\ \A p \in Pids : WF_vars(DaemonStep(p))

-----------------------------------------------------------------------------
\* Properties.

Steps == {"idle", "start", "clean", "recheck", "unlink", "mkdir", "stat", "takeover",
          "fork", "wait", "ready", "report", "release", "stop", "whom", "kill", "poll", "polled"}
Phases == {"unborn", "forked", "pid", "starting", "started", "running", "stopping",
           "leaving", "dead"}

\* The shape of the state.
TypeOK ==
    /\ pidFile \in Pids \cup {NoPid}
    /\ state \in [pid: Pids \cup {NoPid}, running: BOOLEAN]
    /\ lock \in Cmds \cup {Free, Orphan, Stale}
    /\ proc \in [Pids -> Phases] /\ signalled \subseteq Pids /\ up \subseteq Pids
    /\ pc \in [Cmds -> Steps] /\ seen \in [Cmds -> Pids \cup {NoPid}]
    /\ launched \in 0..MaxCommands /\ crashes \in 0..MaxCrashes
    /\ gone \in [Cmds -> SUBSET Pids] /\ raced \in BOOLEAN

\* What IsRunning takes for a running runtime is one: not a process that is
\* still starting, nor one that winds up, however many daemons write the two
\* files, and whatever crashed ones left in them.
RunningIsTrue == IsRunning(pidFile) => proc[pidFile] = "running"

\* A start that reports a ready runtime has seen one that started its manager
\* and that was not dead when this start cleaned up: a state file that a killed
\* daemon left behind is not taken for the new one.
ReadyIsReal ==
    [][\A c \in Cmds : pc[c] = "ready" /\ pc'[c] = "report" =>
          seen[c] \in up \ gone[c]]_vars

\* The start lock lets one command at a time start a daemon, also after the lock
\* of an interrupted command was taken over, unless two commands were about to
\* remove that lock at once.
InStart(c) == pc[c] \in {"fork", "wait", "ready", "report", "release"}

LockExclusive ==
    ~raced => \A c, d \in Cmds : InStart(c) /\ InStart(d) => c = d

\* Every command returns, whatever becomes of the daemon it waits for and of the
\* commands it competes with.
CommandsReturn == \A c \in Cmds : pc[c] # "idle" ~> pc[c] = "idle"

-----------------------------------------------------------------------------
\* What the documents say and the code does not do.

\* README: "one machine-local runtime process max".
OneRuntime == Cardinality({p \in Pids : proc[p] = "running"}) <= 1

=============================================================================
