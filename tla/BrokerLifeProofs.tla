-------------------------- MODULE BrokerLifeProofs --------------------------
(***************************************************************************)
(* One broker serves a project and both files lead to it, for any number   *)
(* of commands, processes and faults, as long as nothing happens that the  *)
(* properties exclude (variable disturbed).                                *)
(*                                                                         *)
(* The argument: a broker that is on its way up or serves is the only one  *)
(* that runs, and a command that is about to remove files or to start a    *)
(* broker knows that there is none.                                        *)
(***************************************************************************)
EXTENDS BrokerLife, TLAPS

Up(p) == Starting(p) \/ Serves(p)

\* A command that has not reached the broker yet.
Active(c) == pc[c] \notin Requests \cup {"idle"}

\* The PID file holds the PID of a broker that had bound its socket.
PidBound == pidFile # NoPid => main[pidFile] \in {"serving", "left", "dead"}

\* Nobody stops or hangs a broker that does not serve yet; Serve returns only
\* once the listener is closed.
Quiet ==
    \A p \in Pids :
        /\ main[p] \notin {"serving", "left"} => asked[p] = 0 /\ down[p] = "no" /\ p \notin hung
        /\ main[p] = "left" => down[p] \in {"closed", "done"}

\* A command that waits for an answer has a connection.
HasConn == \A c \in Cmds : pc[c] \in {"probing", "handshake"} \cup Requests => conn[c] \in Pids

\* Whoever is up is alone.
Alone == \A p, q \in Pids : Up(p) /\ Runs(q) => p = q
OneActive == \A c, d \in Cmds : Active(c) /\ Active(d) => c = d

\* What a command that has not reached the broker yet knows of it.
NoneUp ==
    \A c \in Cmds : pc[c] \in {"drop", "clean", "rmpid", "rmsock", "fork", "stale"} =>
        \A p \in Pids : ~Up(p)
NoneStarts ==
    \A c \in Cmds : pc[c] \in {"probe", "probing", "dial", "handshake"} =>
        \A p \in Pids : ~Starting(p)
ToUp ==
    \A c \in Cmds, p \in Pids : pc[c] \in {"probing", "handshake"} /\ Serves(p) => conn[c] = p

\* The files of a broker on its way up.
Cleared ==
    /\ \A p \in Pids : Starting(p) => pidFile = NoPid
    /\ \A c \in Cmds : pc[c] \in {"rmsock", "fork"} => pidFile = NoPid
Bind == \A p \in Pids : main[p] = "listening" => sock = p

Undisturbed ==
    /\ Alone /\ OneActive /\ NoneUp /\ NoneStarts /\ ToUp /\ Cleared /\ Bind
    /\ \A p \in Pids : Serves(p) => pidFile = p /\ sock = p

IndInv ==
    TypeOK /\ PidBound /\ Quiet /\ HasConn /\ (disturbed \/ Undisturbed)

-----------------------------------------------------------------------------
\* No broker, or one that serves and has both files.
LEMMA InitInd == Init => IndInv
<1> SUFFICES ASSUME Init PROVE IndInv OBVIOUS
<1> USE ConstantsAssumption DEF Init
<1>1. pidFile \in Pids \cup {NoPid} /\ sock = pidFile BY DEF Init
<1>2. TypeOK
  <2>1. main \in [Pids -> Phases] /\ down \in [Pids -> Downs] /\ pc \in [Cmds -> Steps]
    BY DEF Phases, Downs, Steps
  <2>2. /\ asked \in [Pids -> Nat] /\ fired \subseteq Pids /\ hung \subseteq Pids
        /\ conn \in [Cmds -> Pids \cup {NoPid}] /\ disturbed \in BOOLEAN
    OBVIOUS
  <2>3. launched \in 0..MaxCommands /\ faults \in 0..MaxFaults OBVIOUS
  <2> QED BY <1>1, <2>1, <2>2, <2>3 DEF TypeOK
<1>3. PidBound BY <1>1 DEF PidBound
<1>4. Quiet /\ HasConn BY DEF Quiet, HasConn, Requests
<1>5. Alone BY DEF Alone, Up, Starting, Serves, Runs, Alive
<1>6. OneActive /\ NoneUp /\ NoneStarts /\ ToUp BY DEF OneActive, Active, NoneUp, NoneStarts, ToUp
<1>7. Cleared /\ Bind BY DEF Cleared, Starting, Bind
<1>8. \A p \in Pids : Serves(p) => pidFile = p /\ sock = p BY DEF Serves, Runs, Alive
<1> QED BY <1>2, <1>3, <1>4, <1>5, <1>6, <1>7, <1>8 DEF IndInv, Undisturbed

Steady == TypeOK /\ PidBound /\ Quiet /\ HasConn

\* StartDaemon fails, or a process is there that was not.
LEMMA Forks ==
  ASSUME NEW c \in Cmds, StartDaemon(c)
  PROVE  \/ Return(c) /\ UNCHANGED <<main, disturbed>>
         \/ \E p \in Pids :
              /\ main[p] = "unborn" /\ main' = [main EXCEPT ![p] = "forked"]
              /\ disturbed' = (disturbed \/ \E q \in Pids : Starting(q) \/ (Alive(q) /\ down[q] # "no"))
              /\ Goto(c, "wait") /\ UNCHANGED conn
<1>1. CASE \E p \in Pids : main[p] = "unborn"
  <2>1. (CHOOSE q \in Pids : main[q] = "unborn") \in {q \in Pids : main[q] = "unborn"}
    BY <1>1
  <2> QED BY <2>1 DEF StartDaemon
<1> QED BY <1>1 DEF StartDaemon

\* The steps of commands keep the types and what holds in any case.
LEMMA CommandSteady ==
  ASSUME IndInv, NEW c \in Cmds,
         Begin(c) \/ CommandStep(c) \/ DeadlinePasses(c) \/ HangUp(c) \/ Interrupt(c)
  PROVE  Steady'
<1> USE ConstantsAssumption DEF IndInv, Steady, TypeOK, PidBound, Quiet, HasConn, Steps, Phases, Downs,
        Requests, Here, Goto, Return, brokers, files, commands
<1>1. CASE Begin(c) BY <1>1 DEF Begin
<1>2. CASE Probe(c) BY <1>2 DEF Probe, Listens
<1>3. CASE Probed(c) BY <1>3 DEF Probed
<1>4. CASE Drop(c) BY <1>4 DEF Drop
<1>5. CASE Cleanup(c) BY <1>5 DEF Cleanup
<1>6. CASE CleanupPID(c) BY <1>6 DEF CleanupPID
<1>7. CASE CleanupSocket(c) BY <1>7 DEF CleanupSocket
<1>8. CASE StartDaemon(c)
  <2>1. UNCHANGED <<files, down, asked, fired, hung, faults>> BY <1>8 DEF StartDaemon
  <2>2. CASE Return(c) /\ UNCHANGED <<main, disturbed>> BY <2>1, <2>2
  <2>3. ASSUME NEW p \in Pids, main[p] = "unborn", main' = [main EXCEPT ![p] = "forked"],
               Goto(c, "wait") /\ UNCHANGED conn, disturbed' \in BOOLEAN
        PROVE  Steady'
    BY <2>1, <2>3
  <2> QED BY <1>8, <2>2, <2>3, Forks
<1>9. CASE WaitForReady(c) BY <1>9 DEF WaitForReady, Started
<1>10. CASE Dial(c) BY <1>10 DEF Dial
<1>11. CASE Handshake(c) BY <1>11 DEF Handshake
<1>12. CASE Send(c) BY <1>12 DEF Send, HandleStop, Answers, Runs, Alive
<1>13. CASE CleanupStaleFiles(c) BY <1>13 DEF CleanupStaleFiles
<1>14. CASE ProbeTimeout(c) BY <1>14 DEF ProbeTimeout, TakesOver
<1>15. CASE HandshakeTimeout(c) BY <1>15 DEF HandshakeTimeout, TakesOver
<1>16. CASE WaitTimeout(c) BY <1>16 DEF WaitTimeout
<1>17. CASE HangUp(c) \/ Interrupt(c) BY <1>17 DEF HangUp, Interrupt
<1> QED
  BY <1>1, <1>2, <1>3, <1>4, <1>5, <1>6, <1>7, <1>8, <1>9, <1>10, <1>11, <1>12, <1>13, <1>14,
     <1>15, <1>16, <1>17 DEF CommandStep, DeadlinePasses

\* So do those of brokers, and faults.
LEMMA BrokerSteady ==
  ASSUME IndInv, NEW p \in Pids,
         MainStep(p) \/ ShutdownStep(p) \/ RemoveSocket(p) \/ IdleTimeout(p) \/ Kill(p) \/ Hang(p)
  PROVE  Steady'
<1> USE ConstantsAssumption DEF IndInv, Steady, TypeOK, PidBound, Quiet, HasConn, Steps, Phases, Downs,
        Requests, brokers, files, commands, Dies, Ends, Step, Shut, Runs, Alive
<1>1. CASE OpenFails(p) BY <1>1 DEF OpenFails
<1>2. CASE RemoveStaleSocket(p) BY <1>2 DEF RemoveStaleSocket
<1>3. CASE Listen(p) BY <1>3 DEF Listen
<1>4. CASE Serve(p) BY <1>4 DEF Serve
<1>5. CASE ServeReturns(p) BY <1>5 DEF ServeReturns
<1>6. CASE Exit(p) BY <1>6 DEF Exit
<1>7. CASE Stop(p) BY <1>7 DEF Stop
<1>8. CASE StopAgain(p) BY <1>8 DEF StopAgain
<1>9. CASE CloseListener(p) BY <1>9 DEF CloseListener
<1>10. CASE RemoveSocket(p) BY <1>10 DEF RemoveSocket
<1>11. CASE IdleTimeout(p) BY <1>11 DEF IdleTimeout
<1>12. CASE Kill(p) BY <1>12 DEF Kill
<1>13. CASE Hang(p) BY <1>13 DEF Hang
<1> QED
  BY <1>1, <1>2, <1>3, <1>4, <1>5, <1>6, <1>7, <1>8, <1>9, <1>10, <1>11, <1>12, <1>13
     DEF MainStep, ShutdownStep

-----------------------------------------------------------------------------
\* Commands, other than one that starts a broker.
LEMMA CommandUndisturbed ==
  ASSUME IndInv, NEW c \in Cmds,
         Begin(c) \/ CommandStep(c) \/ DeadlinePasses(c) \/ HangUp(c) \/ Interrupt(c),
         ~StartDaemon(c), ~disturbed'
  PROVE  Undisturbed'
<1>1. main' = main /\ down' = down /\ hung' = hung
  BY DEF Begin, CommandStep, DeadlinePasses, HangUp, Interrupt, Here, brokers, Probe, Probed, Drop,
     Cleanup, CleanupPID, CleanupSocket, WaitForReady, Dial, Handshake, Send, CleanupStaleFiles,
     ProbeTimeout, HandshakeTimeout, WaitTimeout
<1>2. \A p \in Pids : /\ Starting(p)' = Starting(p) /\ Serves(p)' = Serves(p)
                      /\ Runs(p)' = Runs(p) /\ Up(p)' = Up(p)
  BY <1>1 DEF Up, Starting, Serves, Runs, Alive
<1>3. ~disturbed
  BY DEF Begin, CommandStep, DeadlinePasses, HangUp, Interrupt, Here, Probe, Probed, Drop,
     Cleanup, CleanupPID, CleanupSocket, WaitForReady, Dial, Handshake, Send, CleanupStaleFiles,
     ProbeTimeout, HandshakeTimeout, WaitTimeout, TakesOver
<1>4. Alone' BY <1>2, <1>3 DEF IndInv, Undisturbed, Alone
<1> USE <1>1, <1>2, <1>3, <1>4, ConstantsAssumption DEF IndInv, Undisturbed, TypeOK, Steps, Requests,
        OneActive, Active, NoneUp, NoneStarts, ToUp, Cleared, Bind, Here, Goto, Return, files
<1>5. CASE Begin(c)
  <2>1. pc[c] = "idle" /\ UNCHANGED <<files, conn>>
        /\ pc' = [pc EXCEPT ![c] = pc'[c]] /\ pc'[c] \in {"clean", "probe", "dial"}
    BY <1>5 DEF Begin
  <2>2. \A d \in Cmds : pc[d] \in Requests \cup {"idle"} BY <1>5 DEF Begin
  <2>3. \A p \in Pids : ~Starting(p) BY <1>5 DEF Begin
  <2>4. pc'[c] = "clean" => \A p \in Pids : ~Up(p)
    BY <1>5, <2>1, <2>3 DEF Begin, IsRunning, Up, Serves, Runs
  <2> QED BY <2>1, <2>2, <2>3, <2>4
<1>6. CASE Probe(c)
  <2>1. CASE sock # NoPid /\ Listens(sock) BY <1>6, <2>1 DEF Probe
  <2>2. CASE ~(sock # NoPid /\ Listens(sock))
    <3>1. \A p \in Pids : ~Up(p) BY <1>6, <2>2 DEF Probe, Up, Serves, Runs, Listens
    <3> QED BY <1>6, <2>2, <3>1 DEF Probe
  <2> QED BY <2>1, <2>2
<1>7. CASE Probed(c)
  <2>1. CASE Goto(c, "dial") BY <1>7, <2>1 DEF Probed
  <2>2. CASE Lost(c) /\ Goto(c, "drop")
    <3>1. \A p \in Pids : ~Up(p) BY <1>7, <2>2 DEF Probed, Up, Serves, Runs, Lost
    <3> QED BY <1>7, <2>2, <3>1 DEF Probed
  <2> QED BY <1>7, <2>1, <2>2 DEF Probed
<1>8. CASE Drop(c)
  <2>1. \A p \in Pids : ~Up(p) BY <1>8 DEF Drop
  <2> QED BY <1>8, <2>1 DEF Drop, Up, Starting
<1>9. CASE Cleanup(c) BY <1>9 DEF Cleanup
<1>10. CASE CleanupPID(c)
  <2>1. \A p \in Pids : ~Up(p) BY <1>10 DEF CleanupPID
  <2> QED BY <1>10, <2>1 DEF CleanupPID, Up, Starting
<1>11. CASE CleanupSocket(c)
  <2>1. \A p \in Pids : ~Up(p) BY <1>11 DEF CleanupSocket
  <2> QED BY <1>11, <2>1 DEF CleanupSocket, Up, Starting
<1>12. CASE WaitForReady(c)
  <2>1. \A p \in Pids : ~Starting(p) BY <1>12 DEF WaitForReady, IsRunning
  <2> QED BY <1>12, <2>1 DEF WaitForReady, Started
<1>13. CASE Dial(c)
  <2>1. CASE sock # NoPid /\ Listens(sock) BY <1>13, <2>1 DEF Dial
  <2>2. CASE Return(c) BY <1>13, <2>2 DEF Dial
  <2> QED BY <1>13, <2>1, <2>2 DEF Dial
<1>14. CASE Handshake(c) BY <1>14 DEF Handshake
<1>15. CASE Send(c) BY <1>15 DEF Send
<1>16. CASE CleanupStaleFiles(c)
  <2>1. \A p \in Pids : ~Up(p) BY <1>16 DEF CleanupStaleFiles
  <2> QED BY <1>16, <2>1 DEF CleanupStaleFiles, Up, Starting
<1>17. CASE ProbeTimeout(c) \/ HandshakeTimeout(c)
  <2>1. /\ pc[c] \in {"probing", "handshake"} /\ ~Runs(conn[c]) /\ UNCHANGED files
        /\ conn' = [conn EXCEPT ![c] = NoPid]
        /\ pc' = [pc EXCEPT ![c] = pc'[c]] /\ pc'[c] \in {"drop", "stale"}
    BY <1>17 DEF ProbeTimeout, HandshakeTimeout, TakesOver
  <2>2. \A p \in Pids : ~Up(p) BY <2>1 DEF Up, Serves
  <2> QED BY <2>1, <2>2
<1>18. CASE WaitTimeout(c) BY <1>18 DEF WaitTimeout
<1>19. CASE HangUp(c) \/ Interrupt(c) BY <1>19 DEF HangUp, Interrupt
<1> HIDE DEF Undisturbed
<1> QED
  BY <1>5, <1>6, <1>7, <1>8, <1>9, <1>10, <1>11, <1>12, <1>13, <1>14, <1>15, <1>16, <1>17, <1>18,
     <1>19 DEF CommandStep, DeadlinePasses

\* A broker is started when none is on its way up and none runs: it is alone.
LEMMA StartUndisturbed ==
  ASSUME IndInv, NEW c \in Cmds, StartDaemon(c), ~disturbed'
  PROVE  Undisturbed'
<1> USE ConstantsAssumption DEF IndInv, Undisturbed, TypeOK, Steps, Requests, Alone, OneActive, Active,
        NoneUp, NoneStarts, ToUp, Cleared, Bind, Goto, Return, files
<1>1. pc[c] = "fork" /\ UNCHANGED <<files, down, hung>> BY DEF StartDaemon
<1>2. CASE Return(c) /\ UNCHANGED <<main, disturbed>>
  BY <1>1, <1>2 DEF Up, Starting, Serves, Runs, Alive
<1>3. ASSUME NEW p \in Pids, main[p] = "unborn", main' = [main EXCEPT ![p] = "forked"],
             disturbed' = (disturbed \/ \E q \in Pids : Starting(q) \/ (Alive(q) /\ down[q] # "no")),
             Goto(c, "wait") /\ UNCHANGED conn
      PROVE  Undisturbed'
  <2>1. ~disturbed /\ \A q \in Pids : Alive(q) => down[q] = "no" BY <1>3
  <2>2. \A q \in Pids : ~Up(q) BY <1>1, <2>1
  <2>3. \A q \in Pids : ~Runs(q)
    BY <2>1, <2>2 DEF Up, Runs, Serves, Starting, Alive, Quiet, Phases
  <2>4. \A q \in Pids \ {p} : ~Starting(q)' /\ ~Serves(q)' /\ ~Runs(q)'
    BY <1>1, <1>3, <2>2, <2>3 DEF Up, Runs, Serves, Starting, Alive
  <2>5. ~Serves(p)' /\ main'[p] = "forked" BY <1>3 DEF Serves
  <2>6. \A q \in Pids : ~Serves(q)' /\ (Up(q)' => q = p) /\ (Runs(q)' => q = p)
    BY <2>4, <2>5 DEF Up
  <2>7. \A d \in Cmds : d # c => pc'[d] = pc[d] /\ ~Active(d) BY <1>1, <1>3, <2>1
  <2>8. pc'[c] = "wait" BY <1>3
  <2>9. Bind' BY <1>3, <2>2 DEF Up, Starting
  <2> QED BY <1>1, <2>1, <2>4, <2>6, <2>7, <2>8, <2>9
<1> QED BY <1>2, <1>3, Forks

\* The steps of a broker: what a broker does to the files it does to its own, since
\* no other is up.
LEMMA BrokerUndisturbed ==
  ASSUME IndInv, NEW p \in Pids,
         MainStep(p) \/ ShutdownStep(p) \/ RemoveSocket(p) \/ IdleTimeout(p) \/ Kill(p) \/ Hang(p),
         ~disturbed'
  PROVE  Undisturbed'
<1>1. ~disturbed /\ UNCHANGED commands
  BY DEF MainStep, ShutdownStep, OpenFails, RemoveStaleSocket, Listen, Serve, ServeReturns, Exit,
     Stop, StopAgain, CloseListener, RemoveSocket, IdleTimeout, Kill, Hang, Ends, Step, Shut
<1>2. OneActive' BY <1>1 DEF IndInv, Undisturbed, OneActive, Active, commands
<1> USE <1>1, <1>2, ConstantsAssumption DEF IndInv, Undisturbed, TypeOK, Phases, Downs, commands, files,
        Dies, Ends, Step, Shut
<1> DEFINE Others == \A q \in Pids : q # p => /\ main'[q] = main[q] /\ down'[q] = down[q]
                                              /\ (q \in hung') = (q \in hung)
<1>3. ASSUME Others
      PROVE  \A q \in Pids : q # p => /\ Starting(q)' = Starting(q) /\ Serves(q)' = Serves(q)
                                      /\ Runs(q)' = Runs(q) /\ Up(q)' = Up(q)
  BY <1>3 DEF Up, Starting, Serves, Runs, Alive
\* A broker that is not up after the step has removed no file of one that is.
<1>4. ASSUME Others, ~Up(p)', Runs(p)' => Runs(p), Runs(p) \/ UNCHANGED files,
             pidFile' \in {pidFile, NoPid}
      PROVE  Undisturbed'
  <2>1. \A q \in Pids : Up(q)' => q # p /\ Up(q) BY <1>3, <1>4
  <2>2. (\E q \in Pids : Up(q)') => ~Runs(p) /\ UNCHANGED files BY <1>4, <2>1 DEF Alone
  <2>3. Alone' BY <1>3, <1>4, <2>1, <2>2 DEF Alone
  <2>4. NoneUp' BY <2>1 DEF NoneUp
  <2>5. NoneStarts' BY <2>1, <1>3, <1>4 DEF NoneStarts, Up
  <2>6. ToUp' BY <2>1, <1>3, <1>4 DEF ToUp, Up
  <2>7. Cleared' BY <2>1, <1>3, <1>4 DEF Cleared, Up
  <2>8. Bind' BY <2>1, <2>2, <1>4 DEF Bind, Up, Starting
  <2>9. (\A q \in Pids : Serves(q) => pidFile = q /\ sock = q)'
    BY <2>1, <2>2, <1>3, <1>4 DEF Up
  <2> QED BY <2>3, <2>4, <2>5, <2>6, <2>7, <2>8, <2>9
<1>5. CASE OpenFails(p) \/ Exit(p) \/ StopAgain(p) \/ Kill(p)
  <2>1. Others /\ UNCHANGED files /\ main'[p] = "dead"
    BY <1>5 DEF OpenFails, Exit, StopAgain, Kill
  <2> QED BY <1>4, <2>1 DEF Up, Starting, Serves, Runs, Alive
<1>6. CASE ServeReturns(p)
  <2>1. Others /\ pidFile' = NoPid /\ main'[p] = "left" /\ Runs(p) BY <1>6 DEF ServeReturns
  <2> QED BY <1>4, <2>1 DEF Up, Starting, Serves
<1>7. CASE Stop(p) \/ CloseListener(p) \/ RemoveSocket(p)
  <2>1. /\ Others /\ pidFile' = pidFile /\ main' = main /\ Runs(p) /\ down'[p] # "no"
        /\ main[p] \in {"serving", "left"}
    BY <1>7 DEF Stop, CloseListener, RemoveSocket, Quiet
  <2> QED BY <1>4, <2>1 DEF Up, Starting, Serves
<1>8. CASE Hang(p)
  <2>1. /\ Others /\ UNCHANGED files /\ main' = main /\ main[p] = "serving" /\ p \in hung'
    BY <1>8 DEF Hang
  <2> QED BY <1>4, <2>1 DEF Up, Starting, Serves, Runs
<1>9. CASE IdleTimeout(p)
  <2>1. UNCHANGED <<main, down, hung, files>> BY <1>9 DEF IdleTimeout
  <2> QED
    BY <2>1 DEF Alone, NoneUp, NoneStarts, ToUp, Cleared, Bind, Up, Starting, Serves, Runs, Alive
\* A broker on its way up is alone, and no command removes files.
<1>10. ASSUME Starting(p), Runs(p), Others, main'[p] \in {"cleared", "listening", "serving"},
              main'[p] = "listening" => sock' = p,
              main'[p] = "serving" => pidFile' = p /\ sock' = p,
              main'[p] # "serving" => pidFile' = pidFile
       PROVE  Undisturbed'
  <2>1. Up(p) BY <1>10 DEF Up
  <2>2. \A q \in Pids : q # p => ~Up(q) /\ ~Runs(q) BY <1>10, <2>1 DEF Alone
  <2>3. \A q \in Pids : q # p => ~Starting(q)' /\ ~Serves(q)' /\ ~Runs(q)' /\ ~Up(q)'
    BY <1>3, <1>10, <2>2 DEF Up
  <2>4. \A c \in Cmds : pc[c] \notin {"drop", "clean", "rmpid", "rmsock", "fork", "stale",
                                     "probe", "probing", "dial", "handshake"}
    BY <1>10, <2>1 DEF NoneUp, NoneStarts
  <2>5. Alone' BY <2>3 DEF Alone
  <2>6. NoneUp' /\ NoneStarts' /\ ToUp' BY <2>4 DEF NoneUp, NoneStarts, ToUp
  <2>7. Cleared' BY <1>10, <2>3, <2>4 DEF Cleared, Starting
  <2>8. Bind' BY <1>10, <2>3 DEF Bind, Starting
  <2>9. (\A q \in Pids : Serves(q) => pidFile = q /\ sock = q)' BY <1>10, <2>3 DEF Serves
  <2> QED BY <2>5, <2>6, <2>7, <2>8, <2>9
<1>11. CASE RemoveStaleSocket(p) \/ Listen(p)
  <2>1. CASE main'[p] = "dead"
    <3>1. Others /\ UNCHANGED files BY <1>11, <2>1 DEF RemoveStaleSocket, Listen
    <3> QED BY <1>4, <2>1, <3>1 DEF Up, Starting, Serves, Runs, Alive
  <2>2. CASE main'[p] # "dead"
    <3>1. /\ Starting(p) /\ Runs(p) /\ Others /\ pidFile' = pidFile
          /\ main'[p] = "cleared" \/ (main'[p] = "listening" /\ sock' = p)
      BY <1>11, <2>2 DEF RemoveStaleSocket, Listen, Starting
    <3> QED BY <1>10, <3>1
  <2> QED BY <2>1, <2>2
<1>12. CASE Serve(p)
  <2>1. /\ Starting(p) /\ Runs(p) /\ Others /\ pidFile' = p /\ sock' = sock
        /\ main[p] = "listening" /\ main'[p] = "serving"
    BY <1>12 DEF Serve, Starting
  <2> QED BY <1>10, <2>1 DEF Bind
<1> HIDE DEF Undisturbed
<1> QED
  BY <1>5, <1>6, <1>7, <1>8, <1>9, <1>11, <1>12 DEF MainStep, ShutdownStep

-----------------------------------------------------------------------------
\* IndInv holds in every state.
LEMMA Inductive == Spec => []IndInv
<1>1. ASSUME IndInv, [Next]_vars PROVE IndInv'
  <2>1. CASE Next
    <3>1. Steady' BY <1>1, <2>1, CommandSteady, BrokerSteady DEF Next
    <3>2. disturbed' \/ Undisturbed'
      BY <1>1, <2>1, CommandUndisturbed, StartUndisturbed, BrokerUndisturbed DEF Next
    <3> QED BY <3>1, <3>2 DEF IndInv, Steady
  <2>2. CASE UNCHANGED vars
    BY <1>1, <2>2 DEF vars, files, brokers, commands, IndInv, TypeOK, PidBound, Quiet, HasConn,
       Undisturbed, Alone, OneActive, Active, NoneUp, NoneStarts, ToUp, Cleared, Bind, Up, Starting,
       Serves, Runs, Alive
  <2> QED BY <1>1, <2>1, <2>2
<1> QED BY <1>1, InitInd, PTL DEF Spec

\* The two files, the processes and the commands have the shape that TypeOK gives
\* them.
THEOREM TypeCorrect == Spec => []TypeOK
  BY Inductive, PTL DEF IndInv

\* WaitForReady takes the PID file for the sign that a broker is ready, and
\* rightly: New has bound the socket before WritePID.
THEOREM ReadyAlwaysBound == Spec => []ReadyIsBound
<1>1. IndInv => ReadyIsBound
  BY DEF IndInv, PidBound, ReadyIsBound, IsRunning, Alive, Starting
<1> QED BY <1>1, Inductive, PTL

\* One broker serves the project, and both the PID file and the socket lead to it,
\* over kills, hangs, takeovers and shutdowns, unless what `disturbed` stands for
\* happens.
THEOREM AlwaysOneBroker == Spec => []OneBroker
<1>1. IndInv => OneBroker BY DEF IndInv, Undisturbed, OneBroker
<1> QED BY <1>1, Inductive, PTL

=============================================================================
