------------------------ MODULE RuntimeDaemonProofs ------------------------
(***************************************************************************)
(* What commands and daemons can rely on in the three files of the machine *)
(* runtime, for any number of commands, processes and crashes.             *)
(*                                                                         *)
(* None of the properties is inductive by itself; IndInv says what makes   *)
(* them true: which PIDs can stand in the state file, which processes a    *)
(* command knows to be dead, and whose the start lock is.                  *)
(***************************************************************************)
EXTENDS RuntimeDaemon, TLAPS

\* `runtime stop` signals a PID that it has read.
KillKnown == \A c \in Cmds : pc[c] = "kill" => seen[c] \in Pids

\* A manager that runs has been started.
Started == \A p \in Pids : proc[p] \in {"started", "running"} => p \in up

\* The state file says "running" of a daemon that does, or was killed while it
\* did.
StateTrue ==
    state.running => state.pid \in up /\ proc[state.pid] \in {"running", "dead"}

\* What WaitForReady has read from it is a daemon that had started.
ReadyKnown == \A c \in Cmds : pc[c] = "ready" => seen[c] \in up

\* A dead process does not write the PID file again.
GoneDead ==
    \A c \in Cmds : /\ \A p \in gone[c] : proc[p] = "dead"
                    /\ pidFile \notin gone[c]

\* The start lock is that of the command that starts a daemon; one that a command
\* is about to take over is still the stale one.
LockHeld ==
    ~raced => \A c \in Cmds : /\ InStart(c) => lock = c
                              /\ pc[c] = "takeover" => lock = Stale

IndInv ==
    TypeOK /\ KillKnown /\ Started /\ StateTrue /\ ReadyKnown /\ GoneDead /\ LockHeld

-----------------------------------------------------------------------------
\* No daemon has been started.
LEMMA InitInd == Init => IndInv
<1> SUFFICES ASSUME Init PROVE IndInv OBVIOUS
<1> USE ConstantsAssumption DEF Init
<1>1. TypeOK
  <2>1. proc \in [Pids -> Phases] /\ pc \in [Cmds -> Steps] BY DEF Steps, Phases
  <2>2. state \in [pid: Pids \cup {NoPid}, running: BOOLEAN] OBVIOUS
  <2>3. launched \in 0..MaxCommands /\ crashes \in 0..MaxCrashes OBVIOUS
  <2>4. gone \in [Cmds -> SUBSET Pids] /\ seen \in [Cmds -> Pids \cup {NoPid}] OBVIOUS
  <2>5. raced \in BOOLEAN /\ signalled \subseteq Pids /\ up \subseteq Pids
        /\ pidFile \in Pids \cup {NoPid} /\ lock \in Cmds \cup {Free, Orphan, Stale}
    OBVIOUS
  <2> QED BY <2>1, <2>2, <2>3, <2>4, <2>5 DEF TypeOK
<1>2. KillKnown /\ Started /\ StateTrue /\ ReadyKnown
  BY DEF KillKnown, Started, StateTrue, ReadyKnown
<1>3. GoneDead BY DEF GoneDead
<1>4. LockHeld BY DEF LockHeld, InStart
<1> QED BY <1>1, <1>2, <1>3, <1>4 DEF IndInv

\* The steps of a command keep the types.
LEMMA CommandType ==
  ASSUME IndInv, NEW c \in Cmds, CommandStep(c) \/ DeadlinePasses(c)
  PROVE  TypeOK'
<1> USE ConstantsAssumption DEF IndInv, TypeOK, Steps, Phases, KillKnown, Here, Goto, Forget, Return,
        files, daemons, Alive
<1>1. CASE StartCheck(c) BY <1>1 DEF StartCheck
<1>2. CASE CleanupRead(c) BY <1>2 DEF CleanupRead, ReadPID
<1>3. CASE CleanupCheck(c) BY <1>3 DEF CleanupCheck
<1>4. CASE CleanupUnlink(c) BY <1>4 DEF CleanupUnlink
<1>5. CASE LockMkdir(c) BY <1>5 DEF LockMkdir
<1>6. CASE LockStat(c) BY <1>6 DEF LockStat
<1>7. CASE LockTakeover(c) BY <1>7 DEF LockTakeover
<1>8. CASE StartDaemon(c) BY <1>8 DEF StartDaemon
<1>9. CASE WaitState(c) BY <1>9 DEF WaitState
<1>10. CASE WaitPID(c) BY <1>10 DEF WaitPID
<1>11. CASE WaitTimeout(c) BY <1>11 DEF WaitTimeout
<1>12. CASE Report(c) BY <1>12 DEF Report
<1>13. CASE Release(c) BY <1>13 DEF Release
<1>14. CASE StopCheck(c) BY <1>14 DEF StopCheck
<1>15. CASE StopRead(c) BY <1>15 DEF StopRead, ReadPID
<1>16. CASE StopKill(c) BY <1>16 DEF StopKill
<1>17. CASE StopPoll(c) BY <1>17 DEF StopPoll, ReadPID
<1>18. CASE StopPolled(c) BY <1>18 DEF StopPolled
<1>19. CASE StopTimeout(c) BY <1>19 DEF StopTimeout
<1> QED
  BY <1>1, <1>2, <1>3, <1>4, <1>5, <1>6, <1>7, <1>8, <1>9, <1>10, <1>11,
     <1>12, <1>13, <1>14, <1>15, <1>16, <1>17, <1>18, <1>19 DEF CommandStep,
     DeadlinePasses

\* ... and what it knows of daemons: it changes none but the one it forks.
LEMMA CommandDaemons ==
  ASSUME IndInv, NEW c \in Cmds, CommandStep(c) \/ DeadlinePasses(c)
  PROVE  KillKnown' /\ Started' /\ StateTrue' /\ ReadyKnown'
<1> USE ConstantsAssumption DEF IndInv, TypeOK, Steps, Phases, KillKnown, Started, StateTrue, ReadyKnown,
        Here, Goto, Forget, Return,
        files, daemons, Alive
<1>1. CASE StartCheck(c) BY <1>1 DEF StartCheck
<1>2. CASE CleanupRead(c) BY <1>2 DEF CleanupRead, ReadPID
<1>3. CASE CleanupCheck(c) BY <1>3 DEF CleanupCheck
<1>4. CASE CleanupUnlink(c) BY <1>4 DEF CleanupUnlink
<1>5. CASE LockMkdir(c) BY <1>5 DEF LockMkdir
<1>6. CASE LockStat(c) BY <1>6 DEF LockStat
<1>7. CASE LockTakeover(c) BY <1>7 DEF LockTakeover
<1>8. CASE StartDaemon(c) BY <1>8 DEF StartDaemon
<1>9. CASE WaitState(c) BY <1>9 DEF WaitState
<1>10. CASE WaitPID(c) BY <1>10 DEF WaitPID
<1>11. CASE WaitTimeout(c) BY <1>11 DEF WaitTimeout
<1>12. CASE Report(c) BY <1>12 DEF Report
<1>13. CASE Release(c) BY <1>13 DEF Release
<1>14. CASE StopCheck(c) BY <1>14 DEF StopCheck
<1>15. CASE StopRead(c) BY <1>15 DEF StopRead, ReadPID
<1>16. CASE StopKill(c) BY <1>16 DEF StopKill
<1>17. CASE StopPoll(c) BY <1>17 DEF StopPoll, ReadPID
<1>18. CASE StopPolled(c) BY <1>18 DEF StopPolled
<1>19. CASE StopTimeout(c) BY <1>19 DEF StopTimeout
<1> QED
  BY <1>1, <1>2, <1>3, <1>4, <1>5, <1>6, <1>7, <1>8, <1>9, <1>10, <1>11,
     <1>12, <1>13, <1>14, <1>15, <1>16, <1>17, <1>18, <1>19 DEF CommandStep,
     DeadlinePasses

\* ... and whom it knows to be dead.
LEMMA CommandGone ==
  ASSUME IndInv, NEW c \in Cmds, CommandStep(c) \/ DeadlinePasses(c)
  PROVE  GoneDead'
<1> USE ConstantsAssumption DEF IndInv, TypeOK, Steps, Phases, GoneDead,
        Here, Goto, Forget, Return,
        files, daemons, Alive
<1>1. CASE StartCheck(c) BY <1>1 DEF StartCheck
<1>2. CASE CleanupRead(c) BY <1>2 DEF CleanupRead, ReadPID
<1>3. CASE CleanupCheck(c) BY <1>3 DEF CleanupCheck
<1>4. CASE CleanupUnlink(c) BY <1>4 DEF CleanupUnlink
<1>5. CASE LockMkdir(c) BY <1>5 DEF LockMkdir
<1>6. CASE LockStat(c) BY <1>6 DEF LockStat
<1>7. CASE LockTakeover(c) BY <1>7 DEF LockTakeover
<1>8. CASE StartDaemon(c) BY <1>8 DEF StartDaemon
<1>9. CASE WaitState(c) BY <1>9 DEF WaitState
<1>10. CASE WaitPID(c) BY <1>10 DEF WaitPID
<1>11. CASE WaitTimeout(c) BY <1>11 DEF WaitTimeout
<1>12. CASE Report(c) BY <1>12 DEF Report
<1>13. CASE Release(c) BY <1>13 DEF Release
<1>14. CASE StopCheck(c) BY <1>14 DEF StopCheck
<1>15. CASE StopRead(c) BY <1>15 DEF StopRead, ReadPID
<1>16. CASE StopKill(c) BY <1>16 DEF StopKill
<1>17. CASE StopPoll(c) BY <1>17 DEF StopPoll, ReadPID
<1>18. CASE StopPolled(c) BY <1>18 DEF StopPolled
<1>19. CASE StopTimeout(c) BY <1>19 DEF StopTimeout
<1> QED
  BY <1>1, <1>2, <1>3, <1>4, <1>5, <1>6, <1>7, <1>8, <1>9, <1>10, <1>11,
     <1>12, <1>13, <1>14, <1>15, <1>16, <1>17, <1>18, <1>19 DEF CommandStep,
     DeadlinePasses

\* ... and the lock: only a takeover that races another breaks it.
LEMMA CommandLock ==
  ASSUME IndInv, NEW c \in Cmds, CommandStep(c) \/ DeadlinePasses(c)
  PROVE  LockHeld'
<1> USE ConstantsAssumption DEF IndInv, TypeOK, Steps, Phases, LockHeld, InStart,
        Here, Goto, Forget, Return,
        files, daemons, Alive
<1>1. CASE StartCheck(c) BY <1>1 DEF StartCheck
<1>2. CASE CleanupRead(c) BY <1>2 DEF CleanupRead, ReadPID
<1>3. CASE CleanupCheck(c) BY <1>3 DEF CleanupCheck
<1>4. CASE CleanupUnlink(c) BY <1>4 DEF CleanupUnlink
<1>5. CASE LockMkdir(c) BY <1>5 DEF LockMkdir
<1>6. CASE LockStat(c) BY <1>6 DEF LockStat
<1>7. CASE LockTakeover(c) BY <1>7 DEF LockTakeover
<1>8. CASE StartDaemon(c) BY <1>8 DEF StartDaemon
<1>9. CASE WaitState(c) BY <1>9 DEF WaitState
<1>10. CASE WaitPID(c) BY <1>10 DEF WaitPID
<1>11. CASE WaitTimeout(c) BY <1>11 DEF WaitTimeout
<1>12. CASE Report(c) BY <1>12 DEF Report
<1>13. CASE Release(c) BY <1>13 DEF Release
<1>14. CASE StopCheck(c) BY <1>14 DEF StopCheck
<1>15. CASE StopRead(c) BY <1>15 DEF StopRead, ReadPID
<1>16. CASE StopKill(c) BY <1>16 DEF StopKill
<1>17. CASE StopPoll(c) BY <1>17 DEF StopPoll, ReadPID
<1>18. CASE StopPolled(c) BY <1>18 DEF StopPolled
<1>19. CASE StopTimeout(c) BY <1>19 DEF StopTimeout
<1> QED
  BY <1>1, <1>2, <1>3, <1>4, <1>5, <1>6, <1>7, <1>8, <1>9, <1>10, <1>11,
     <1>12, <1>13, <1>14, <1>15, <1>16, <1>17, <1>18, <1>19 DEF CommandStep,
     DeadlinePasses

\* The steps of a daemon.
LEMMA DaemonType ==
  ASSUME IndInv, NEW p \in Pids, DaemonStep(p) \/ Refresh(p)
  PROVE  TypeOK'
<1> USE ConstantsAssumption DEF IndInv, TypeOK, Steps, Phases, Step, SaveState, commands
<1>1. CASE OpenStoreFails(p) BY <1>1 DEF OpenStoreFails
<1>2. CASE WritePID(p) BY <1>2 DEF WritePID
<1>3. CASE SaveStarting(p) BY <1>3 DEF SaveStarting
<1>4. CASE ManagerStart(p) BY <1>4 DEF ManagerStart
<1>5. CASE ManagerStartFails(p) BY <1>5 DEF ManagerStartFails
<1>6. CASE SaveRunning(p) BY <1>6 DEF SaveRunning
<1>7. CASE SaveStopped(p) BY <1>7 DEF SaveStopped
<1>8. CASE ManagerStop(p) BY <1>8 DEF ManagerStop
<1>9. CASE RemovePID(p) BY <1>9 DEF RemovePID
<1>10. CASE Refresh(p) BY <1>10 DEF Refresh
<1> QED
  BY <1>1, <1>2, <1>3, <1>4, <1>5, <1>6, <1>7, <1>8, <1>9, <1>10 DEF
     DaemonStep

\* Only a daemon whose manager runs writes that it runs, and it takes it back.
LEMMA DaemonState ==
  ASSUME IndInv, NEW p \in Pids, DaemonStep(p) \/ Refresh(p)
  PROVE  KillKnown' /\ Started' /\ StateTrue' /\ ReadyKnown'
<1> USE ConstantsAssumption DEF IndInv, TypeOK, Steps, Phases, KillKnown, Started, StateTrue, ReadyKnown,
        Step, SaveState, commands
<1>1. CASE OpenStoreFails(p) BY <1>1 DEF OpenStoreFails
<1>2. CASE WritePID(p) BY <1>2 DEF WritePID
<1>3. CASE SaveStarting(p) BY <1>3 DEF SaveStarting
<1>4. CASE ManagerStart(p) BY <1>4 DEF ManagerStart
<1>5. CASE ManagerStartFails(p) BY <1>5 DEF ManagerStartFails
<1>6. CASE SaveRunning(p) BY <1>6 DEF SaveRunning
<1>7. CASE SaveStopped(p) BY <1>7 DEF SaveStopped
<1>8. CASE ManagerStop(p) BY <1>8 DEF ManagerStop
<1>9. CASE RemovePID(p) BY <1>9 DEF RemovePID
<1>10. CASE Refresh(p) BY <1>10 DEF Refresh
<1> QED
  BY <1>1, <1>2, <1>3, <1>4, <1>5, <1>6, <1>7, <1>8, <1>9, <1>10 DEF
     DaemonStep

\* A daemon that is dead takes no step.
LEMMA DaemonGone ==
  ASSUME IndInv, NEW p \in Pids, DaemonStep(p) \/ Refresh(p)
  PROVE  GoneDead' /\ LockHeld'
<1> USE ConstantsAssumption DEF IndInv, TypeOK, Steps, Phases, GoneDead, LockHeld, InStart,
        Step, SaveState, commands
<1>1. CASE OpenStoreFails(p) BY <1>1 DEF OpenStoreFails
<1>2. CASE WritePID(p) BY <1>2 DEF WritePID
<1>3. CASE SaveStarting(p) BY <1>3 DEF SaveStarting
<1>4. CASE ManagerStart(p) BY <1>4 DEF ManagerStart
<1>5. CASE ManagerStartFails(p) BY <1>5 DEF ManagerStartFails
<1>6. CASE SaveRunning(p) BY <1>6 DEF SaveRunning
<1>7. CASE SaveStopped(p) BY <1>7 DEF SaveStopped
<1>8. CASE ManagerStop(p) BY <1>8 DEF ManagerStop
<1>9. CASE RemovePID(p) BY <1>9 DEF RemovePID
<1>10. CASE Refresh(p) BY <1>10 DEF Refresh
<1> QED
  BY <1>1, <1>2, <1>3, <1>4, <1>5, <1>6, <1>7, <1>8, <1>9, <1>10 DEF
     DaemonStep

\* Every step keeps the invariant.
LEMMA NextInd == IndInv /\ [Next]_vars => IndInv'
<1> SUFFICES ASSUME IndInv, [Next]_vars PROVE IndInv' OBVIOUS
<1> USE ConstantsAssumption
<1>1. ASSUME NEW c \in Cmds, NEW kind \in {"start", "stop"}, Begin(c, kind) PROVE IndInv'
  <2> USE <1>1 DEF Begin, IndInv, files, daemons
  <2>1. TypeOK' BY DEF TypeOK, Steps, Phases
  <2>2. KillKnown' /\ Started' /\ StateTrue' /\ ReadyKnown'
    BY DEF TypeOK, KillKnown, Started, StateTrue, ReadyKnown
  <2>3. GoneDead' /\ LockHeld' BY DEF TypeOK, GoneDead, LockHeld, InStart
  <2> QED BY <2>1, <2>2, <2>3
<1>2. ASSUME NEW c \in Cmds, CommandStep(c) \/ DeadlinePasses(c) PROVE IndInv'
  BY <1>2, CommandType, CommandDaemons, CommandGone, CommandLock DEF IndInv
<1>3. ASSUME NEW c \in Cmds, Interrupt(c) PROVE IndInv'
  <2> USE <1>3 DEF Interrupt, Return, IndInv, daemons
  <2>1. TypeOK' BY DEF TypeOK, Steps, Phases
  <2>2. KillKnown' /\ Started' /\ StateTrue' /\ ReadyKnown'
    BY DEF TypeOK, KillKnown, Started, StateTrue, ReadyKnown
  <2>3. GoneDead' BY DEF TypeOK, GoneDead
  <2>4. LockHeld' BY DEF TypeOK, LockHeld, InStart
  <2> QED BY <2>1, <2>2, <2>3, <2>4
<1>4. ASSUME NEW p \in Pids, DaemonStep(p) \/ Refresh(p) PROVE IndInv'
  BY <1>4, DaemonType, DaemonState, DaemonGone DEF IndInv
<1>5. ASSUME NEW p \in Pids, Kill(p) PROVE IndInv'
  <2> USE <1>5 DEF Kill, IndInv, files, commands
  <2>1. TypeOK' BY DEF TypeOK, Steps, Phases
  <2>2. KillKnown' /\ Started' /\ StateTrue' /\ ReadyKnown'
    BY DEF TypeOK, KillKnown, Started, StateTrue, ReadyKnown, Phases
  <2>3. GoneDead' /\ LockHeld' BY DEF TypeOK, GoneDead, LockHeld, InStart, Phases
  <2> QED BY <2>1, <2>2, <2>3
<1>6. CASE LockAges
  BY <1>6 DEF LockAges, daemons, commands, IndInv, TypeOK, KillKnown, Started, StateTrue,
     ReadyKnown, GoneDead, LockHeld, InStart
<1>7. CASE UNCHANGED vars
  BY <1>7 DEF vars, files, daemons, commands, IndInv, TypeOK, KillKnown, Started,
     StateTrue, ReadyKnown, GoneDead, LockHeld, InStart
<1> QED BY <1>1, <1>2, <1>3, <1>4, <1>5, <1>6, <1>7 DEF Next

\* The invariant holds in every reachable state.
LEMMA Inductive == Spec => []IndInv
  BY InitInd, NextInd, PTL DEF Spec

-----------------------------------------------------------------------------
\* The state has its type, however many commands and daemons there are.
THEOREM TypeCorrect == Spec => []TypeOK
  BY Inductive, PTL DEF IndInv

\* Whatever crashed daemons left in the PID file and the state file, IsRunning
\* takes for a running runtime only a process that is one.
THEOREM RunningAlwaysTrue == Spec => []RunningIsTrue
<1>1. IndInv => RunningIsTrue
  BY ConstantsAssumption DEF IndInv, TypeOK, StateTrue, RunningIsTrue, IsRunning, Alive
<1> QED BY <1>1, Inductive, PTL

\* AcquireStartLock lets one command at a time start a daemon, also over
\* interrupted commands, unless two remove the same stale lock at once.
THEOREM LockAlwaysExclusive == Spec => []LockExclusive
<1>1. IndInv => LockExclusive
  BY DEF IndInv, LockHeld, LockExclusive
<1> QED BY <1>1, Inductive, PTL

\* WaitForReady reports a daemon that has started and that was not dead when the
\* command cleaned up.
THEOREM ReadyAlwaysReal == Spec => ReadyIsReal
<1>1. ASSUME IndInv, [Next]_vars, NEW c \in Cmds, pc[c] = "ready", pc'[c] = "report"
      PROVE  seen[c] \in up \ gone[c]
  <2>1. PICK d \in Cmds : CommandStep(d) \/ DeadlinePasses(d) \/ Interrupt(d)
                          \/ \E kind \in {"start", "stop"} : Begin(d, kind)
    BY <1>1 DEF Next, vars, files, daemons, commands, DaemonStep, Step, Refresh, Kill, LockAges,
       OpenStoreFails, WritePID, SaveStarting, ManagerStart, ManagerStartFails, SaveRunning,
       SaveStopped, ManagerStop, RemovePID
  <2>2. WaitPID(c)
    BY <1>1, <2>1 DEF IndInv, TypeOK, CommandStep, DeadlinePasses, Interrupt, Begin, Here, Goto,
       Forget, Return, ReadPID, StartCheck, CleanupRead, CleanupCheck, CleanupUnlink, LockMkdir,
       LockStat, LockTakeover, StartDaemon, WaitState, WaitPID, WaitTimeout, Report, Release,
       StopCheck, StopRead, StopKill, StopPoll, StopPolled, StopTimeout
  <2>3. pidFile = seen[c]
    BY <1>1, <2>2 DEF WaitPID, Forget, Goto, IndInv, TypeOK
  <2> QED BY <1>1, <2>3 DEF IndInv, ReadyKnown, GoneDead
<1>2. IndInv /\ [Next]_vars => [\A c \in Cmds : pc[c] = "ready" /\ pc'[c] = "report" =>
                                  seen[c] \in up \ gone[c]]_vars
  BY <1>1
<1> QED BY <1>2, Inductive, PTL DEF Spec, ReadyIsReal

=============================================================================
