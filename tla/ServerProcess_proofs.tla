----------------------- MODULE ServerProcess_proofs -----------------------
(* The inductive invariant of ServerProcess and what follows from it.      *)
EXTENDS ServerProcess, TLAPS

Active(r) == server[r] \in {"spawned", "alive", "exited", "failed"}

\* Only the command in sp.cmd can be under way, and only while IsRunning says so.
ActiveIsCurrent == \A r \in Runs : Active(r) => r = cmd /\ IsRunning

\* loop only tears down the current command, after its goroutine reported.
StoppingReaped == loop.pc = "stopping" => IsRunning /\ cmd \in Runs /\ server[cmd] = "reaped"

\* Where loop is about to start an event or to report a stop, or is locked up, no event
\* is set.
QuietLoop == loop.pc \in {"starting", "notify", "lockedUp"} => ~IsRunning

\* A caller between taking and releasing startMutex, outside Stop, holds it.
MutexHeld == \A c \in Callers : pc[c] \in {"check", "send", "await"} => startMutex = c

Requested == loop.pc \in {"starting", "started"} =>
                \E c \in Callers : pc[c] = "await" /\ arg[c] = loop.event

\* A waiter belongs to a Stop that is past its selects.
WaiterInStop == \A c \in Callers :
    waiter[c] # "none" => pc[c] \in {"signal", "termWait", "killWait", "cancel"}

\* A Start that is about to hand over its event has seen the server stopped; so has
\* one whose Stop is on its way to report success, and nobody else can start meanwhile.
StartAfterStop == \A c \in Callers :
    startMutex = c /\ \/ pc[c] = "send"
                      \/ waiter[c] = "stopped"
                      \/ pc[c] = "cancel" /\ result[c] = "stopped"
        => ~IsRunning

FreshResult == \A c \in Callers : pc[c] \in {"lock", "check", "stopCheck"} => result[c] = "none"

\* Stop only reaches sp.cfn() with an outcome of its own.
CancelResult == \A c \in Callers : pc[c] = "cancel" => result[c] # "notRunning"

EntryBuilt == \A c \in Callers : entry[c] # 0 =>
    entry[c] \in Runs /\ entry[c] <= cmd /\ (Active(entry[c]) \/ server[entry[c]] = "reaped")

Ended(r) == r # 0 => /\ server[r] = "reaped"
                     /\ ~(loop.pc \in {"stopping", "lockedUp"} /\ cmd = r)

StopSeen == \A c \in Callers :
    result[c] = "stopped" \/ waiter[c] = "stopped" => Ended(entry[c])

IInv == /\ TypeOK
        /\ ActiveIsCurrent /\ RunningHasRunner /\ StoppingReaped /\ QuietLoop
        /\ MutexHeld /\ Requested /\ WaiterInStop /\ StartAfterStop
        /\ FreshResult /\ CancelResult /\ EntryBuilt /\ StopSeen

USE NilAssumption, BoundAssumption, ConfigAssumption

\* What a return of Stop does to the types of the variables it touches.
LEMMA StopReturnsType ==
    ASSUME TypeOK, NEW c \in Callers, NEW res \in Results, StopReturns(c, res)
    PROVE  /\ pc' \in [Callers -> CallerStates]
           /\ startMutex' \in Callers \cup {NoCaller}
           /\ result' \in [Callers -> Results]
           /\ leaked' \in Nat
           /\ waiter' \in [Callers -> {"none", "spawned", "waiting", "stopped", "error"}]
<1>1. AfterStop(c, res) \in CallerStates
  BY DEF AfterStop, CallerStates
<1> QED
  BY <1>1 DEF TypeOK, StopReturns

\* Every variable keeps its type in every run, whatever the bounds and the callers.
THEOREM TypeCorrect == Spec => []TypeOK
<1> USE DEF TypeOK, RunStates, LoopStates, CallerStates, Results, Runs
<1>1. Init => TypeOK
  BY DEF Init
<1>2. ASSUME TypeOK, [Next]_vars PROVE TypeOK'
  <2> USE TypeOK DEF Goto, Process, Caller, Call, Started
  <2>1. ASSUME NEW c \in Callers, CallStep(c) PROVE TypeOK'
    <3>1. CASE CallStop(c)
      BY <2>1, <3>1 DEF CallStop
    <3>2. ASSUME NEW e \in Events \cup {NoEvent}, CallStart(c, e) PROVE TypeOK'
      BY <2>1, <3>2 DEF CallStart
    <3> QED
      BY <2>1, <3>1, <3>2 DEF CallStep, CallRestart
  <2>2. ASSUME NEW c \in Callers, StartLock(c) PROVE TypeOK'
    BY <2>2 DEF StartLock
  <2>3. ASSUME NEW c \in Callers, StartCheck(c) PROVE TypeOK'
    BY <2>3 DEF StartCheck
  <2>4. ASSUME NEW c \in Callers, StartSend(c) PROVE TypeOK'
    BY <2>4 DEF StartSend
  <2>5. ASSUME NEW c \in Callers, StartReturn(c) PROVE TypeOK'
    BY <2>5 DEF StartReturn
  <2>6. ASSUME NEW c \in Callers, StopCheck(c) PROVE TypeOK'
    <3>1. CASE IsRunning
      <4>1. entry' = [entry EXCEPT ![c] = cmd] /\ pc' = [pc EXCEPT ![c] = "prepare"]
        BY <2>6, <3>1, Zenon DEF StopCheck
      <4>2. UNCHANGED <<Process, arg, victim, calls, startMutex, result, leaked, waiter>>
        BY <2>6, <3>1, Zenon DEF StopCheck
      <4> QED
        BY <4>1, <4>2
    <3>2. CASE ~IsRunning
      BY <2>6, <3>2, StopReturnsType DEF StopCheck
    <3> QED
      BY <3>1, <3>2
  <2>7. ASSUME NEW c \in Callers, Prepare(c) PROVE TypeOK'
    BY <2>7 DEF Prepare
  <2>8. ASSUME NEW c \in Callers, PersistDone(c) PROVE TypeOK'
    BY <2>8 DEF PersistDone
  <2>9. ASSUME NEW c \in Callers, WaiterListens(c) PROVE TypeOK'
    BY <2>9 DEF WaiterListens
  <2>10. ASSUME NEW c \in Callers, Signal(c) PROVE TypeOK'
    <3>1. CASE HasProcess(cmd)
      BY <2>10, <3>1 DEF Signal
    <3>2. CASE ~HasProcess(cmd)
      BY <2>10, <3>2, StopReturnsType DEF Signal
    <3> QED
      BY <3>1, <3>2
  <2>11. ASSUME NEW c \in Callers, Reported(c) PROVE TypeOK'
    BY <2>11 DEF Reported
  <2>12. ASSUME NEW c \in Callers, TermTimeout(c) PROVE TypeOK'
    BY <2>12 DEF TermTimeout
  <2>13. ASSUME NEW c \in Callers, KillTimeout(c) PROVE TypeOK'
    BY <2>13 DEF KillTimeout
  <2>14. ASSUME NEW c \in Callers, Cancel(c) PROVE TypeOK'
    <3>1. result[c] \in Results /\ cancelled' \subseteq 0..MaxRuns
      BY <2>14 DEF Cancel
    <3> QED
      BY <2>14, <3>1, StopReturnsType DEF Cancel
  <2>15. ASSUME NEW r \in Runs, Launch(r) PROVE TypeOK'
    <3>1. PICK s \in {"alive", "failed"} : server' = [server EXCEPT ![cmd] = s]
      BY <2>15 DEF Launch
    <3> QED
      BY <2>15, <3>1 DEF Launch
  <2>16. ASSUME NEW r \in Runs, Exit(r) PROVE TypeOK'
    BY <2>16 DEF Exit
  <2>17. ASSUME NEW r \in Runs, LoopReceiveRun(r) PROVE TypeOK'
    BY <2>17 DEF LoopReceiveRun
  <2>18. CASE OnStop
    BY <2>18 DEF OnStop
  <2>19. CASE Notify
    <3> DEFINE report == IF loop.err THEN "error" ELSE "stopped"
    <3>1. /\ loop' \in [pc : LoopStates, event : Events \cup {NoEvent}, err : BOOLEAN]
          /\ UNCHANGED <<raceEvent, cmd, server, cancelled, arg, victim, entry, calls>>
      BY <2>19 DEF Notify
    <3>2. ASSUME NEW c \in Receiving, pc[c] = "persist", StopReturns(c, report)
          PROVE  TypeOK'
      BY <3>1, <3>2, StopReturnsType DEF Receiving
    <3>3. ASSUME NEW c \in Receiving, waiter' = [waiter EXCEPT ![c] = report],
                 UNCHANGED <<startMutex, pc, result, leaked>>
          PROVE  TypeOK'
      BY <3>1, <3>3 DEF Receiving
    <3>4. CASE /\ leaked > 0 /\ leaked' = leaked - 1
               /\ UNCHANGED <<startMutex, pc, result, waiter>>
      BY <3>1, <3>4
    <3>5. CASE UNCHANGED <<startMutex, pc, result, waiter, leaked>>
      BY <3>1, <3>5
    <3> QED
      BY <2>19, <3>2, <3>3, <3>4, <3>5 DEF Notify
  <2>20. CASE StartNilEvent
    BY <2>20 DEF StartNilEvent
  <2>21. CASE StartFailsEarly
    BY <2>21 DEF StartFailsEarly
  <2>22. CASE StartFailsBuilt
    <3>1. cmd + 1 \in Runs /\ cmd + 1 \in 0..MaxRuns
      BY <2>22 DEF StartFailsBuilt
    <3> QED
      BY <2>22, <3>1 DEF StartFailsBuilt
  <2>23. CASE StartLaunches
    <3>1. cmd + 1 \in Runs /\ cmd + 1 \in 0..MaxRuns
      BY <2>23 DEF StartLaunches
    <3>2. PICK f \in BOOLEAN : Started(f)
      BY <2>23 DEF StartLaunches
    <3> QED
      BY <2>23, <3>1, <3>2 DEF StartLaunches
  <2>24. CASE LeakedTimeout
    BY <2>24 DEF LeakedTimeout
  <2>25. CASE UNCHANGED vars
    BY <2>25 DEF vars
  <2> QED
    BY <1>2, <2>1, <2>2, <2>3, <2>4, <2>5, <2>6, <2>7, <2>8, <2>9, <2>10, <2>11, <2>12, <2>13, <2>14, <2>15, <2>16, <2>17, <2>18, <2>19, <2>20, <2>21, <2>22, <2>23, <2>24, <2>25
    DEF Next, StartStep, StopStep, LoopStep
<1> QED
  BY <1>1, <1>2, PTL DEF Spec

\* A Stop may return wherever what it reports is true: the invariant survives.
LEMMA StopReturnsInv ==
    ASSUME IInv, TypeOK', NEW c \in Callers, NEW res, StopReturns(c, res),
           pc[c] \in {"stopCheck", "persist", "signal", "cancel"},
           UNCHANGED <<raceEvent, cmd, server, arg, entry>>,
           \/ UNCHANGED loop
           \/ loop.pc = "notify" /\ loop' = [loop EXCEPT !.pc = "select"],
           res = "stopped" => Ended(entry[c]),
           res \in {"stopped", "notRunning"} /\ startMutex = c => ~IsRunning
    PROVE  IInv'
<1> USE DEF IInv, TypeOK, Active, IsRunning, Ended
<1>0. /\ pc' = [pc EXCEPT ![c] = AfterStop(c, res)]
      /\ startMutex' = IF startMutex = c /\ AfterStop(c, res) = "idle" THEN NoCaller
                       ELSE startMutex
      /\ result' = [result EXCEPT ![c] = res]
      /\ waiter' = [waiter EXCEPT ![c] = "none"]
  BY DEF StopReturns
<1>00. /\ loop'.pc = loop.pc \/ (loop.pc = "notify" /\ loop'.pc = "select")
       /\ loop'.event = loop.event
  OBVIOUS
<1>1. AfterStop(c, res) \in {"send", "idle"}
  BY DEF AfterStop
<1>2. AfterStop(c, res) = "send" => startMutex = c /\ ~IsRunning
  BY DEF AfterStop
<1>3. ActiveIsCurrent' /\ RunningHasRunner' /\ StoppingReaped' /\ QuietLoop'
  BY <1>0, <1>00 DEF ActiveIsCurrent, RunningHasRunner, StoppingReaped, QuietLoop
<1>4. MutexHeld' /\ WaiterInStop' /\ FreshResult' /\ CancelResult'
  BY <1>0, <1>1, <1>2 DEF MutexHeld, WaiterInStop, FreshResult, CancelResult
<1>5. Requested'
  BY <1>0, <1>00, <1>1 DEF Requested
<1>6. StartAfterStop'
  BY <1>0, <1>1, <1>2 DEF StartAfterStop
<1>7. EntryBuilt' /\ StopSeen'
  BY <1>0, <1>00 DEF EntryBuilt, StopSeen
<1> QED
  BY <1>3, <1>4, <1>5, <1>6, <1>7

\* onStop is left for the report to whoever waits for it, or not at all.
LEMMA OnStopEnds ==
    ASSUME TypeOK, OnStop
    PROVE  /\ loop.pc = "stopping" /\ loop'.event = loop.event
           /\ loop'.pc \in {"notify", "lockedUp"}
  BY DEF TypeOK, OnStop

\* The strengthening holds in every reachable state.
THEOREM Invariance == Spec => []IInv
<1> USE DEF IInv, ActiveIsCurrent, RunningHasRunner, StoppingReaped, QuietLoop, MutexHeld,
            Requested, WaiterInStop, StartAfterStop, FreshResult, CancelResult, EntryBuilt,
            StopSeen, Ended, Active, IsRunning
<1>1. Init => IInv
  BY DEF Init, TypeOK, RunStates, LoopStates, CallerStates, Results, Runs
<1>2. ASSUME IInv, TypeOK', [Next]_vars PROVE IInv'
  <2> USE IInv, TypeOK' DEF TypeOK, Goto, Process, Caller, Call, Started, Runs
  <2>1. ASSUME NEW c \in Callers, CallStep(c) PROVE IInv'
    <3>1. CASE CallStop(c)
      BY <2>1, <3>1 DEF CallStop
    <3>2. ASSUME NEW e \in Events \cup {NoEvent}, CallStart(c, e) PROVE IInv'
      BY <2>1, <3>2 DEF CallStart
    <3> QED
      BY <2>1, <3>1, <3>2 DEF CallStep, CallRestart
  <2>2. ASSUME NEW c \in Callers, StartLock(c) PROVE IInv'
    BY <2>2 DEF StartLock
  <2>3. ASSUME NEW c \in Callers, StartCheck(c) PROVE IInv'
    BY <2>3 DEF StartCheck
  <2>4. ASSUME NEW c \in Callers, StartSend(c) PROVE IInv'
    BY <2>4 DEF StartSend
  <2>5. ASSUME NEW c \in Callers, StartReturn(c) PROVE IInv'
    BY <2>5 DEF StartReturn
  <2>6. ASSUME NEW c \in Callers, StopCheck(c) PROVE IInv'
    <3>1. CASE IsRunning
      <4>1. entry' = [entry EXCEPT ![c] = cmd] /\ pc' = [pc EXCEPT ![c] = "prepare"]
        BY <2>6, <3>1 DEF StopCheck
      <4>2. UNCHANGED <<raceEvent, cmd, server, loop, arg, startMutex, result, waiter>>
        BY <2>6, <3>1 DEF StopCheck
      <4>3. pc[c] = "stopCheck" /\ cmd # 0 /\ Ended(0)
        BY <2>6, <3>1 DEF StopCheck
      <4> QED
        <5>1. result[c] = "none" /\ waiter[c] = "none"
          BY <4>3
        <5>2. EntryBuilt'
          BY <4>1, <4>2, <3>1
        <5>3. StopSeen'
          BY <4>1, <4>2, <5>1
        <5> QED
          BY <4>1, <4>2, <4>3, <5>1, <5>2, <5>3
    <3>2. CASE ~IsRunning
      BY <2>6, <3>2, StopReturnsInv DEF StopCheck
    <3> QED
      BY <3>1, <3>2
  <2>7. ASSUME NEW c \in Callers, Prepare(c) PROVE IInv'
    BY <2>7 DEF Prepare
  <2>8. ASSUME NEW c \in Callers, PersistDone(c) PROVE IInv'
    BY <2>8 DEF PersistDone
  <2>9. ASSUME NEW c \in Callers, WaiterListens(c) PROVE IInv'
    BY <2>9 DEF WaiterListens
  <2>10. ASSUME NEW c \in Callers, Signal(c) PROVE IInv'
    <3>1. CASE HasProcess(cmd)
      <4>1. /\ UNCHANGED <<Process, arg, entry, startMutex, waiter>>
            /\ pc[c] = "signal"
        BY <2>10, <3>1 DEF Signal
      <4>2. PICK to \in {"termWait", "cancel"}, res \in {"none", "error"} :
               pc' = [pc EXCEPT ![c] = to] /\ result' = [result EXCEPT ![c] = res]
        BY <2>10, <3>1 DEF Signal
      <4> QED
        BY <4>1, <4>2
    <3>2. CASE ~HasProcess(cmd)
      BY <2>10, <3>2, StopReturnsInv DEF Signal
    <3> QED
      BY <3>1, <3>2
  <2>11. ASSUME NEW c \in Callers, Reported(c) PROVE IInv'
    BY <2>11 DEF Reported
  <2>12. ASSUME NEW c \in Callers, TermTimeout(c) PROVE IInv'
    BY <2>12 DEF TermTimeout
  <2>13. ASSUME NEW c \in Callers, KillTimeout(c) PROVE IInv'
    BY <2>13 DEF KillTimeout
  <2>14. ASSUME NEW c \in Callers, Cancel(c) PROVE IInv'
    <3>1. result[c] = "stopped" => Ended(entry[c])
      OBVIOUS
    <3>2. result[c] \in {"stopped", "notRunning"} /\ startMutex = c => ~IsRunning
      BY <2>14 DEF Cancel
    <3> QED
      BY <2>14, <3>1, <3>2, StopReturnsInv DEF Cancel
  <2>15. ASSUME NEW r \in Runs, Launch(r) PROVE IInv'
    BY <2>15 DEF Launch
  <2>16. ASSUME NEW r \in Runs, Exit(r) PROVE IInv'
    BY <2>16 DEF Exit
  <2>17. ASSUME NEW r \in Runs, LoopReceiveRun(r) PROVE IInv'
    BY <2>17 DEF LoopReceiveRun
  <2>18. CASE OnStop
    <3>1. /\ loop.pc = "stopping" /\ loop'.event = loop.event
          /\ loop'.pc \in {"notify", "lockedUp"}
      BY <2>18, OnStopEnds, Zenon
    <3>2. raceEvent' = NoEvent /\ UNCHANGED <<cmd, server, cancelled, Caller>>
      BY <2>18 DEF OnStop
    <3>3. IsRunning /\ cmd \in Runs /\ server[cmd] = "reaped" /\ ~IsRunning'
      BY <3>1, <3>2
    <3>4. ActiveIsCurrent' /\ RunningHasRunner' /\ StoppingReaped' /\ QuietLoop' /\ Requested'
      BY <3>1, <3>2, <3>3
    <3>5. MutexHeld' /\ WaiterInStop' /\ StartAfterStop' /\ FreshResult' /\ CancelResult'
      BY <3>2, <3>3
    <3>6. EntryBuilt' /\ StopSeen'
      BY <3>1, <3>2, <3>3
    <3> QED
      BY <3>4, <3>5, <3>6
  <2>19. CASE Notify
    <3> DEFINE report == IF loop.err THEN "error" ELSE "stopped"
    <3>1. /\ loop.pc = "notify" /\ loop' = [loop EXCEPT !.pc = "select"]
          /\ UNCHANGED <<raceEvent, cmd, server, cancelled, arg, victim, entry, calls>>
      BY <2>19 DEF Notify
    <3>2. \A c \in Callers : Ended(entry[c])
      BY <3>1
    <3>3. ASSUME NEW c \in Receiving, pc[c] = "persist", StopReturns(c, report)
          PROVE  IInv'
      <4>1. c \in Callers /\ UNCHANGED <<raceEvent, cmd, server, arg, entry>>
        BY <3>1 DEF Receiving
      <4>2. ~IsRunning /\ Ended(entry[c])
        BY <3>1, <3>2, <4>1
      <4> HIDE DEF Ended, IsRunning, report
      <4> QED
        BY <3>1, <3>3, <4>1, <4>2, StopReturnsInv
    <3>4. ASSUME NEW c \in Receiving, pc[c] # "persist",
                 waiter' = [waiter EXCEPT ![c] = report],
                 UNCHANGED <<startMutex, pc, result, leaked>>
          PROVE  IInv'
      BY <3>1, <3>2, <3>4 DEF Receiving
    <3>5. CASE UNCHANGED <<startMutex, pc, result, waiter>>
      BY <3>1, <3>5
    <3> QED
      BY <2>19, <3>3, <3>4, <3>5 DEF Notify
  <2>20. CASE StartNilEvent
    BY <2>20 DEF StartNilEvent
  <2>21. CASE StartFailsEarly
    BY <2>21 DEF StartFailsEarly
  <2>22. CASE StartFailsBuilt
    BY <2>22 DEF StartFailsBuilt
  <2>23. CASE StartLaunches
    <3>1. /\ cmd + 1 \in Runs /\ cmd' = cmd + 1 /\ raceEvent' = loop.event
          /\ server' = [server EXCEPT ![cmd + 1] = "spawned"]
          /\ loop.pc = "starting" /\ loop'.pc = "started" /\ loop'.event = loop.event
          /\ UNCHANGED Caller
      BY <2>23 DEF StartLaunches
    <3>2. ~IsRunning /\ loop.event # NoEvent /\ loop.event \in Events
      BY <2>23 DEF StartLaunches
    <3>3. ActiveIsCurrent' /\ RunningHasRunner' /\ StoppingReaped' /\ QuietLoop' /\ Requested'
      BY <3>1, <3>2
    <3>4. MutexHeld' /\ WaiterInStop' /\ FreshResult' /\ CancelResult'
      BY <3>1
    <3>5. PICK d \in Callers : pc[d] = "await" /\ startMutex = d
      BY <3>1
    <3>6. StartAfterStop'
      BY <3>1, <3>5
    <3>7. EntryBuilt' /\ StopSeen'
      BY <3>1, <3>2
    <3> QED
      BY <3>3, <3>4, <3>6, <3>7
  <2>24. CASE LeakedTimeout
    BY <2>24 DEF LeakedTimeout
  <2>25. CASE UNCHANGED vars
    BY <2>25 DEF vars
  <2> QED
    BY <1>2, <2>1, <2>2, <2>3, <2>4, <2>5, <2>6, <2>7, <2>8, <2>9, <2>10, <2>11, <2>12, <2>13, <2>14, <2>15, <2>16, <2>17, <2>18, <2>19, <2>20, <2>21, <2>22, <2>23, <2>24, <2>25
    DEF Next, StartStep, StopStep, LoopStep
<1> QED
  BY <1>1, <1>2, TypeCorrect, PTL DEF Spec

\* startMutex and Stop together keep a second acServer from being started.
THEOREM SingleServer == Spec => []AtMostOneServer
<1>1. IInv => AtMostOneServer
  BY DEF IInv, ActiveIsCurrent, Active, AtMostOneServer
<1> QED
  BY <1>1, Invariance, PTL

\* `sp.cmd.Run()` is evaluated outside sp.mutex, on the right command all the same.
THEOREM OwnCommand == Spec => []LaunchesOwnCommand
<1>1. IInv => LaunchesOwnCommand
  BY DEF IInv, ActiveIsCurrent, Active, LaunchesOwnCommand
<1> QED
  BY <1>1, Invariance, PTL

\* While IsRunning is true somebody is left to make it false.
THEOREM NeverStuckRunning == Spec => []RunningHasRunner
<1>1. IInv => RunningHasRunner
  BY DEF IInv
<1> QED
  BY <1>1, Invariance, PTL

\* A successful Stop is never mistaken about the run it was asked to stop.
THEOREM StopIsTruthful == Spec => []StoppedMeansStopped
<1>1. IInv => StoppedMeansStopped
  BY DEF IInv, StopSeen, Ended, StoppedMeansStopped
<1> QED
  BY <1>1, Invariance, PTL

\* The safety half of ImplementsLifecycle: Init maps to the stopped server, and every
\* step of the goroutines is a step of ServerLifecycle or leaves it unchanged.
THEOREM LifecycleRefined == Spec => Lifecycle!SafeSpec
<1> USE DEF LockedUp
<1> DEFINE phase == IF LockedUp THEN "lockedUp"
                    ELSE IF ~IsRunning THEN "stopped"
                    ELSE IF server[cmd] = "spawned" THEN "launching"
                    ELSE IF server[cmd] = "alive" THEN "running"
                    ELSE "ended"
<1>1. Init => Lifecycle!Init
  BY DEF Init, Lifecycle!Init, IsRunning
<1>2. ASSUME IInv, [Next]_vars
      PROVE  [Lifecycle!Next]_<<raceEvent, phase>>
  <2> USE IInv DEF IInv, TypeOK, IsRunning, Runs, Goto, Process, Caller, Call, Started
  <2>1. CASE UNCHANGED <<raceEvent, cmd, server>> /\ (LockedUp' <=> LockedUp)
    <3>1. UNCHANGED <<raceEvent, phase>>
      BY <2>1
    <3> QED
      BY <3>1
  <2>2. ASSUME NEW r \in Runs, Launch(r) PROVE Lifecycle!Run
    <3>1. r = cmd /\ IsRunning /\ ~LockedUp
      BY <2>2 DEF Launch, ActiveIsCurrent, Active, QuietLoop
    <3> QED
      BY <2>2, <3>1 DEF Launch, Lifecycle!Run
  <2>3. ASSUME NEW r \in Runs, Exit(r) PROVE Lifecycle!End
    <3>1. r = cmd /\ IsRunning /\ ~LockedUp
      BY <2>3 DEF Exit, ActiveIsCurrent, Active, QuietLoop
    <3> QED
      BY <2>3, <3>1 DEF Exit, Lifecycle!End
  <2>4. ASSUME NEW r \in Runs, LoopReceiveRun(r) PROVE UNCHANGED <<raceEvent, phase>>
    <3>1. r = cmd /\ IsRunning
      BY <2>4 DEF LoopReceiveRun, ActiveIsCurrent, Active
    <3> QED
      BY <2>4, <3>1 DEF LoopReceiveRun
  <2>5. CASE OnStop
    <3>1. phase = "ended" /\ raceEvent' = NoEvent
      BY <2>5 DEF OnStop, StoppingReaped
    <3>2. CASE \E e \in BOOLEAN : loop' = [loop EXCEPT !.pc = "notify", !.err = e]
      BY <3>1, <3>2 DEF Lifecycle!Next, Lifecycle!TearDown
    <3>3. CASE loop' = [loop EXCEPT !.pc = "lockedUp"]
      BY <3>1, <3>3 DEF Lifecycle!Next, Lifecycle!LockUp
    <3> QED
      BY <2>5, <3>2, <3>3 DEF OnStop
  <2>6. CASE StartFailsBuilt
    BY <2>6 DEF StartFailsBuilt, QuietLoop
  <2>7. CASE StartLaunches
    <3>1. loop.event \in Events /\ raceEvent' = loop.event /\ ~IsRunning
      BY <2>7 DEF StartLaunches, QuietLoop
    <3>2. server'[cmd'] = "spawned"
      BY <2>7 DEF StartLaunches
    <3>3. phase = "stopped" /\ phase' = "launching"
      <4>1. ~LockedUp /\ ~LockedUp'
        BY <2>7 DEF StartLaunches
      <4> QED
        BY <3>1, <3>2, <4>1, NilAssumption
    <3>4. Lifecycle!Start(loop.event)
      BY <3>1, <3>3 DEF Lifecycle!Start
    <3> QED
      BY <3>1, <3>4 DEF Lifecycle!Next
  <2>8. ASSUME NEW c \in Callers, CallStep(c) \/ StartStep(c)
        PROVE  UNCHANGED <<raceEvent, cmd, server>> /\ (LockedUp' <=> LockedUp)
    BY <2>8 DEF CallStep, CallStart, CallStop, CallRestart, StartStep, StartLock, StartCheck,
                StartSend, StartReturn
  <2>9. ASSUME NEW c \in Callers, StopStep(c)
        PROVE  UNCHANGED <<raceEvent, cmd, server>> /\ (LockedUp' <=> LockedUp)
    BY <2>9 DEF StopStep, StopCheck, Prepare, PersistDone, WaiterListens, Signal, Reported,
                TermTimeout, KillTimeout, Cancel
  <2>10. CASE Notify \/ StartNilEvent \/ StartFailsEarly \/ LeakedTimeout
    BY <2>1, <2>10 DEF Notify, StartNilEvent, StartFailsEarly, LeakedTimeout
  <2>11. CASE UNCHANGED vars
    BY <2>1, <2>11 DEF vars
  <2> QED
    BY <1>2, <2>1, <2>2, <2>3, <2>4, <2>5, <2>6, <2>7, <2>8, <2>9, <2>10, <2>11
    DEF Next, LoopStep, Lifecycle!Next
<1> QED
  BY <1>1, <1>2, Invariance, PTL DEF Spec, Lifecycle!SafeSpec
=============================================================================
