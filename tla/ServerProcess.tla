--------------------------- MODULE ServerProcess ---------------------------
(***************************************************************************)
(* AssettoServerProcess (server_process.go): the goroutine loop() owns the *)
(* life of the acServer process; HTTP handlers, timers and the UDP callback *)
(* call Start, Stop and Restart on it concurrently.                        *)
(*                                                                         *)
(* Every critical section of sp.mutex is one step.  What the code reads    *)
(* WITHOUT that mutex (sp.cmd and sp.cfn in Stop, sp.cmd in the goroutine  *)
(* that runs the process, the window between IsRunning and a channel       *)
(* operation) is a step of its own.                                        *)
(***************************************************************************)
EXTENDS Naturals, FiniteSets

CONSTANTS
    Callers,                  \* goroutines that call Start, Stop and Restart
    Events,                   \* race events a caller may start
    NoEvent, NoCaller,        \* nil
    MaxRuns,                  \* bound: commands built in a behaviour
    MaxCalls,                 \* bound: calls made in a behaviour
    PersistMidSessionResults  \* config.Server.PersistMidSessionResults

ASSUME NilAssumption == NoEvent \notin Events /\ NoCaller \notin Callers
ASSUME BoundAssumption == MaxRuns \in Nat \ {0} /\ MaxCalls \in Nat
ASSUME ConfigAssumption == PersistMidSessionResults \in BOOLEAN

VARIABLES
    raceEvent,    \* sp.raceEvent
    cmd,          \* sp.cmd and sp.cfn, as the index of the run they belong to (0: nil)
    server,       \* per run: its command, its OS process and the goroutine running it
    cancelled,    \* the runs whose context was cancelled
    loop,         \* loop(): its control state, the event received, the error to report
    startMutex,   \* holder of sp.startMutex
    pc,           \* per caller: control state
    arg,          \* per caller: the event given to Start
    victim,       \* per caller: the command Stop hands to stopCommand
    result,       \* per caller: outcome of the last Stop or Start
    waiter,       \* per caller: the goroutine Stop spawned to wait for sp.stopped
    leaked,       \* waiters still listening on sp.stopped after their Stop returned
    entry,        \* history: the run that was current when Stop saw IsRunning
    calls         \* calls made so far

vars == <<raceEvent, cmd, server, cancelled, loop, startMutex, pc, arg, victim,
          result, waiter, leaked, entry, calls>>

Runs == 1..MaxRuns

\* "spawned": `go func() { sp.run <- sp.cmd.Run() }()` exists but has not run yet;
\* "exited" and "failed": Run returned and the goroutine is sending on sp.run.
RunStates == {"unbuilt", "built", "spawned", "alive", "exited", "failed", "reaped"}
LoopStates == {"select", "starting", "started", "stopping", "notify", "lockedUp", "dead"}
CallerStates == {"idle", "lock", "check", "stopCheck", "prepare", "persist", "signal",
                 "termWait", "killWait", "cancel", "send", "await", "dead"}
Results == {"none", "started", "notRunning", "stopped", "error", "unstoppable", "panic"}

\* exec.Cmd.Process is set by a successful Start of the command, never before.
HasProcess(r) == server[r] \in {"alive", "exited", "reaped"}
IsRunning == raceEvent # NoEvent

\* onStop waits for ever with sp.mutex held: whoever asks for that mutex waits as well.
LockedUp == loop.pc = "lockedUp"

Init ==
    /\ raceEvent = NoEvent
    /\ cmd = 0
    /\ server = [r \in Runs |-> "unbuilt"]
    /\ cancelled = {}
    /\ loop = [pc |-> "select", event |-> NoEvent, err |-> FALSE]
    /\ startMutex = NoCaller
    /\ pc = [c \in Callers |-> "idle"]
    /\ arg = [c \in Callers |-> NoEvent]
    /\ victim = [c \in Callers |-> 0]
    /\ result = [c \in Callers |-> "none"]
    /\ waiter = [c \in Callers |-> "none"]
    /\ leaked = 0
    /\ entry = [c \in Callers |-> 0]
    /\ calls = 0

Goto(c, from, to) == pc[c] = from /\ pc' = [pc EXCEPT ![c] = to]

Process == <<raceEvent, cmd, server, cancelled, loop>>

----------------------------------------------------------------------------
(* Calls.  Stop nested in Start is told apart by Start holding startMutex. *)

Call(c) == calls < MaxCalls /\ calls' = calls + 1

CallStart(c, e) ==
    /\ Call(c) /\ Goto(c, "idle", "lock")
    /\ arg' = [arg EXCEPT ![c] = e]
    /\ result' = [result EXCEPT ![c] = "none"]
    /\ entry' = [entry EXCEPT ![c] = 0]
    /\ UNCHANGED <<Process, startMutex, victim, waiter, leaked>>

\* Restart reads the current event under the mutex, releases it, and calls Start.
CallRestart(c) == ~LockedUp /\ CallStart(c, raceEvent)

CallStop(c) ==
    /\ Call(c) /\ Goto(c, "idle", "stopCheck")
    /\ result' = [result EXCEPT ![c] = "none"]
    /\ entry' = [entry EXCEPT ![c] = 0]
    /\ UNCHANGED <<Process, startMutex, arg, victim, waiter, leaked>>

\* Mutant: Start does not take startMutex.
StartLockMut(c) ==
    /\ Goto(c, "lock", "check")
    /\ UNCHANGED <<Process, startMutex, arg, victim, result, waiter, leaked, entry, calls>>

StartLock(c) ==
    /\ Goto(c, "lock", "check")
    /\ startMutex = NoCaller
    /\ startMutex' = c
    /\ UNCHANGED <<Process, arg, victim, result, waiter, leaked, entry, calls>>

StartCheck(c) ==
    /\ ~LockedUp
    /\ Goto(c, "check", IF IsRunning THEN "stopCheck" ELSE "send")
    /\ UNCHANGED <<Process, startMutex, arg, victim, result, waiter, leaked, entry, calls>>

\* `sp.start <- event` meets loop's select.
StartSend(c) ==
    /\ loop.pc = "select"
    /\ Goto(c, "send", "await")
    /\ loop' = [loop EXCEPT !.pc = "starting", !.event = arg[c]]
    /\ UNCHANGED <<raceEvent, cmd, server, cancelled, startMutex, arg, victim, result,
                   waiter, leaked, entry, calls>>

\* `return <-sp.started` meets loop's reply.
StartReturn(c) ==
    /\ loop.pc = "started"
    /\ Goto(c, "await", "idle")
    /\ loop' = [loop EXCEPT !.pc = "select"]
    /\ startMutex' = NoCaller
    /\ result' = [result EXCEPT ![c] = IF loop.err THEN "error" ELSE "started"]
    /\ UNCHANGED <<raceEvent, cmd, server, cancelled, arg, victim, waiter, leaked, entry,
                   calls>>

----------------------------------------------------------------------------
(* Stop                                                                    *)

\* Mutant: Start goes on although its Stop failed.
AfterStopMut(c, res) == IF startMutex = c THEN "send" ELSE "idle"

\* Where a call to Stop that ends with res leaves its caller.
AfterStop(c, res) ==
    IF startMutex = c /\ res \in {"stopped", "notRunning"} THEN "send" ELSE "idle"

\* Stop returns: its waiter, if it still listens on sp.stopped, outlives it; a
\* waiter that already holds a value stays blocked on errCh for ever.
StopReturns(c, res) ==
    /\ pc' = [pc EXCEPT ![c] = AfterStop(c, res)]
    /\ startMutex' = IF startMutex = c /\ AfterStop(c, res) = "idle" THEN NoCaller ELSE startMutex
    /\ result' = [result EXCEPT ![c] = res]
    /\ leaked' = leaked + (IF waiter[c] \in {"spawned", "waiting"} THEN 1 ELSE 0)
    /\ waiter' = [waiter EXCEPT ![c] = "none"]

StopCheck(c) ==
    /\ pc[c] = "stopCheck" /\ ~LockedUp
    /\ IF IsRunning
         THEN /\ Goto(c, "stopCheck", "prepare")
              /\ entry' = [entry EXCEPT ![c] = cmd]
              /\ UNCHANGED <<startMutex, result, leaked, waiter>>
         ELSE StopReturns(c, "notRunning") /\ UNCHANGED entry
    /\ UNCHANGED <<Process, arg, victim, calls>>

\* Entering the select on sessionStartedChan, the 2s timer and sp.stopped, or, with
\* persistence off, spawning the goroutine that waits for sp.stopped.
Prepare(c) ==
    /\ Goto(c, "prepare", IF PersistMidSessionResults THEN "persist" ELSE "signal")
    /\ waiter' = [waiter EXCEPT ![c] = IF PersistMidSessionResults THEN "none" ELSE "spawned"]
    /\ UNCHANGED <<Process, startMutex, arg, victim, result, leaked, entry, calls>>

\* A new session was announced, or two seconds passed without one.
PersistDone(c) ==
    /\ Goto(c, "persist", "signal")
    /\ waiter' = [waiter EXCEPT ![c] = "spawned"]
    /\ UNCHANGED <<Process, startMutex, arg, victim, result, leaked, entry, calls>>

WaiterListens(c) ==
    /\ waiter[c] = "spawned"
    /\ waiter' = [waiter EXCEPT ![c] = "waiting"]
    /\ UNCHANGED <<Process, startMutex, pc, arg, victim, result, leaked, entry, calls>>

\* Mutant: a process that cannot be signalled counts as stopped.
SignalMut(c) ==
    /\ pc[c] = "signal" /\ HasProcess(cmd)
    /\ victim' = [victim EXCEPT ![c] = cmd]
    /\ pc' = [pc EXCEPT ![c] = IF server[cmd] = "alive" THEN "termWait" ELSE "cancel"]
    /\ result' = [result EXCEPT ![c] = IF server[cmd] = "alive" THEN "none" ELSE "stopped"]
    /\ UNCHANGED <<Process, startMutex, arg, waiter, leaked, entry, calls>>

\* stopCommand(sp.cmd, ...): sp.cmd is read without sp.mutex; a command that never
\* started has a nil Process, one that ended cannot be signalled (ESRCH).
Signal(c) ==
    /\ pc[c] = "signal"
    /\ victim' = [victim EXCEPT ![c] = cmd]
    /\ IF ~HasProcess(cmd)
         THEN StopReturns(c, "panic")
         ELSE /\ pc' = [pc EXCEPT ![c] = IF server[cmd] = "alive" THEN "termWait" ELSE "cancel"]
              /\ result' = [result EXCEPT ![c] = IF server[cmd] = "alive" THEN "none" ELSE "error"]
              /\ UNCHANGED <<startMutex, leaked, waiter>>
    /\ UNCHANGED <<Process, arg, entry, calls>>

\* The waiter hands loop's report over on errCh.
Reported(c) ==
    /\ pc[c] \in {"termWait", "killWait"} /\ waiter[c] \in {"stopped", "error"}
    /\ pc' = [pc EXCEPT ![c] = "cancel"]
    /\ result' = [result EXCEPT ![c] = waiter[c]]
    /\ waiter' = [waiter EXCEPT ![c] = "none"]
    /\ UNCHANGED <<Process, startMutex, arg, victim, leaked, entry, calls>>

\* 15 seconds after the interrupt: kill the process group.
TermTimeout(c) ==
    /\ Goto(c, "termWait", IF server[victim[c]] = "alive" THEN "killWait" ELSE "cancel")
    /\ result' = [result EXCEPT ![c] = IF server[victim[c]] = "alive" THEN "none" ELSE "error"]
    /\ UNCHANGED <<Process, startMutex, arg, victim, waiter, leaked, entry, calls>>

\* 15 seconds after the kill: ErrCommandUnstoppable.
KillTimeout(c) ==
    /\ Goto(c, "killWait", "cancel")
    /\ result' = [result EXCEPT ![c] = "unstoppable"]
    /\ UNCHANGED <<Process, startMutex, arg, victim, waiter, leaked, entry, calls>>

\* sp.cfn() cancels the context of whatever run is current NOW, then Stop returns.
Cancel(c) ==
    /\ pc[c] = "cancel"
    /\ cancelled' = cancelled \cup {cmd}
    /\ StopReturns(c, result[c])
    /\ UNCHANGED <<raceEvent, cmd, server, loop, arg, victim, entry, calls>>

\* Mutant: the timer also fires for waiters that are gone.
LeakedTimeoutMut ==
    /\ leaked' = leaked - 1
    /\ UNCHANGED <<Process, startMutex, pc, arg, victim, result, waiter, entry, calls>>

\* The 60s timer of a waiter outlasts the at most 30s of its stopCommand, so it only
\* ever fires once Stop has returned.
LeakedTimeout ==
    /\ leaked > 0
    /\ leaked' = leaked - 1
    /\ UNCHANGED <<Process, startMutex, pc, arg, victim, result, waiter, entry, calls>>

----------------------------------------------------------------------------
(* The goroutine running the command, and the process itself               *)

Caller == <<startMutex, pc, arg, victim, result, waiter, leaked, entry, calls>>

\* sp.cmd.Run() of the goroutine spawned for run r: sp.cmd is read here.  A missing
\* executable or a cancelled context means no process.
Launch(r) ==
    /\ server[r] = "spawned"
    /\ \E s \in IF cmd \in cancelled THEN {"failed"} ELSE {"alive", "failed"} :
          server' = [server EXCEPT ![cmd] = s]
    /\ UNCHANGED <<raceEvent, cmd, cancelled, loop, Caller>>

\* acServer exits: of its own accord, interrupted, killed, or crashed.
Exit(r) ==
    /\ server[r] = "alive"
    /\ server' = [server EXCEPT ![r] = "exited"]
    /\ UNCHANGED <<raceEvent, cmd, cancelled, loop, Caller>>

----------------------------------------------------------------------------
(* loop()                                                                  *)

\* Mutant: a command that could not be started is not reported to loop.
LoopReceiveRunMut(r) ==
    /\ loop.pc = "select" /\ server[r] = "exited"
    /\ loop' = [loop EXCEPT !.pc = "stopping"]
    /\ server' = [server EXCEPT ![r] = "reaped"]
    /\ UNCHANGED <<raceEvent, cmd, cancelled, Caller>>

LoopReceiveRun(r) ==
    /\ loop.pc = "select" /\ server[r] \in {"exited", "failed"}
    /\ loop' = [loop EXCEPT !.pc = "stopping"]
    /\ server' = [server EXCEPT ![r] = "reaped"]
    /\ UNCHANGED <<raceEvent, cmd, cancelled, Caller>>

\* onStop(), under sp.mutex: the event is cleared, the UDP listener and the plugins are
\* shut down, and closing a log file may fail.  contentManagerWrapper.Stop() in between
\* asks for cmw.mutex and waits in Shutdown without a deadline: where the wrapper is
\* locked up (ContentManagerWrapper, WrapperLockedUp), onStop never ends.
OnStop ==
    /\ loop.pc = "stopping"
    /\ raceEvent' = NoEvent
    /\ \/ \E e \in BOOLEAN : loop' = [loop EXCEPT !.pc = "notify", !.err = e]
       \/ loop' = [loop EXCEPT !.pc = "lockedUp"]
    /\ UNCHANGED <<cmd, server, cancelled, Caller>>

\* Everyone who is receiving from sp.stopped right now.
Receiving == {c \in Callers : pc[c] = "persist" \/ waiter[c] = "waiting"}

\* Mutant: loop blocks until somebody receives (no default case).
NotifyMut ==
    /\ loop.pc = "notify"
    /\ loop' = [loop EXCEPT !.pc = "select"]
    /\ LET report == IF loop.err THEN "error" ELSE "stopped"
       IN \E c \in Receiving :
               IF pc[c] = "persist"
                 THEN StopReturns(c, report)
                 ELSE /\ waiter' = [waiter EXCEPT ![c] = report]
                      /\ UNCHANGED <<startMutex, pc, result, leaked>>
    /\ UNCHANGED <<raceEvent, cmd, server, cancelled, arg, victim, entry, calls>>

\* `case sp.stopped <- err: default:` hands the report to one receiver, or drops it.
Notify ==
    /\ loop.pc = "notify"
    /\ loop' = [loop EXCEPT !.pc = "select"]
    /\ LET report == IF loop.err THEN "error" ELSE "stopped"
       IN \/ \E c \in Receiving :
               IF pc[c] = "persist"
                 THEN StopReturns(c, report)
                 ELSE /\ waiter' = [waiter EXCEPT ![c] = report]
                      /\ UNCHANGED <<startMutex, pc, result, leaked>>
          \/ /\ leaked > 0 /\ leaked' = leaked - 1
             /\ UNCHANGED <<startMutex, pc, result, waiter>>
          \/ /\ leaked = 0 /\ Receiving = {}
             /\ UNCHANGED <<startMutex, pc, result, waiter, leaked>>
    /\ UNCHANGED <<raceEvent, cmd, server, cancelled, arg, victim, entry, calls>>

Started(err) == loop' = [loop EXCEPT !.pc = "started", !.err = err]

\* describeRaceEvent(nil) panics in loop's goroutine, which nothing recovers: the
\* program ends, and every goroutine with it.
StartNilEvent ==
    /\ loop.pc = "starting" /\ loop.event = NoEvent
    /\ loop' = [loop EXCEPT !.pc = "dead"]
    /\ pc' = [c \in Callers |-> "dead"]
    /\ waiter' = [c \in Callers |-> "none"]
    /\ leaked' = 0
    /\ UNCHANGED <<raceEvent, cmd, server, cancelled, startMutex, arg, victim, result,
                   entry, calls>>

\* LoadServerOptions fails: nothing has been touched.
StartFailsEarly ==
    /\ loop.pc = "starting" /\ loop.event # NoEvent
    /\ Started(TRUE)
    /\ UNCHANGED <<raceEvent, cmd, server, cancelled, Caller>>

\* Mutant: sp.raceEvent is set before the listeners are up.
StartFailsBuiltMut ==
    /\ loop.pc = "starting" /\ loop.event # NoEvent /\ cmd < MaxRuns
    /\ cmd' = cmd + 1
    /\ server' = [server EXCEPT ![cmd + 1] = "built"]
    /\ raceEvent' = loop.event
    /\ Started(TRUE)
    /\ UNCHANGED <<cancelled, Caller>>

\* Log directories, log files or the UDP listener fail: sp.cmd is already replaced.
StartFailsBuilt ==
    /\ loop.pc = "starting" /\ loop.event # NoEvent /\ cmd < MaxRuns
    /\ cmd' = cmd + 1
    /\ server' = [server EXCEPT ![cmd + 1] = "built"]
    /\ Started(TRUE)
    /\ UNCHANGED <<raceEvent, cancelled, Caller>>

\* The command is handed to its goroutine; a plugin that cannot be configured or
\* started afterwards makes Start fail with the server running.
StartLaunches ==
    /\ loop.pc = "starting" /\ loop.event # NoEvent /\ cmd < MaxRuns
    /\ cmd' = cmd + 1
    /\ server' = [server EXCEPT ![cmd + 1] = "spawned"]
    /\ raceEvent' = loop.event
    /\ \E pluginFails \in BOOLEAN : Started(pluginFails)
    /\ UNCHANGED <<cancelled, Caller>>

----------------------------------------------------------------------------
StopStep(c) == StopCheck(c) \/ Prepare(c) \/ PersistDone(c) \/ WaiterListens(c) \/ Signal(c)
               \/ Reported(c) \/ TermTimeout(c) \/ KillTimeout(c) \/ Cancel(c)
StartStep(c) == StartLock(c) \/ StartCheck(c) \/ StartSend(c) \/ StartReturn(c)
LoopStep == \/ \E r \in Runs : LoopReceiveRun(r)
            \/ OnStop \/ Notify
            \/ StartNilEvent \/ StartFailsEarly \/ StartFailsBuilt \/ StartLaunches
CallStep(c) == CallStop(c) \/ CallRestart(c) \/ \E e \in Events : CallStart(c, e)

Next ==
    \/ \E c \in Callers : CallStep(c) \/ StartStep(c) \/ StopStep(c)
    \/ \E r \in Runs : Launch(r) \/ Exit(r)
    \/ LoopStep
    \/ LeakedTimeout

Spec == Init /\ [][Next]_vars

\* Goroutines are scheduled, timers fire and sync.Mutex does not starve.  Nothing
\* obliges a caller to call, acServer to exit, or the teardown to end.
Fairness ==
    /\ WF_vars(LoopStep)
    /\ \A r \in Runs : WF_vars(Launch(r))
    /\ \A c \in Callers : /\ WF_vars(StopStep(c))
                          /\ WF_vars(StartCheck(c) \/ StartReturn(c))
                          /\ SF_vars(StartLock(c) \/ StartSend(c))

FairSpec == Spec /\ Fairness

----------------------------------------------------------------------------
(* Properties                                                              *)

TypeOK ==
    /\ raceEvent \in Events \cup {NoEvent}
    /\ cmd \in 0..MaxRuns
    /\ server \in [Runs -> RunStates]
    /\ cancelled \subseteq 0..MaxRuns
    /\ loop \in [pc : LoopStates, event : Events \cup {NoEvent}, err : BOOLEAN]
    /\ startMutex \in Callers \cup {NoCaller}
    /\ pc \in [Callers -> CallerStates]
    /\ arg \in [Callers -> Events \cup {NoEvent}]
    /\ victim \in [Callers -> 0..MaxRuns]
    /\ result \in [Callers -> Results]
    /\ waiter \in [Callers -> {"none", "spawned", "waiting", "stopped", "error"}]
    /\ leaked \in Nat
    /\ entry \in [Callers -> 0..MaxRuns]
    /\ calls \in Nat

\* However Start, Stop and Restart overlap, there are never two acServer processes.
AtMostOneServer ==
    \A r, s \in Runs : server[r] = "alive" /\ server[s] = "alive" => r = s

\* The goroutine of startRaceEvent reads sp.cmd after sp.mutex was released; it still
\* finds the command it was spawned for.
LaunchesOwnCommand == \A r \in Runs : server[r] = "spawned" => cmd = r

\* IsRunning never gets stuck: while it says true, a goroutine is still going to report
\* the end of the process to loop, or loop is clearing the event.
RunningHasRunner ==
    IsRunning => /\ cmd \in Runs
                 /\ \/ server[cmd] \in {"spawned", "alive", "exited", "failed"}
                    \/ server[cmd] = "reaped" /\ loop.pc = "stopping"

\* A Stop that reports success has seen the run it was asked to stop end, and
\* everything onStop tears down is down.
StoppedMeansStopped ==
    \A c \in Callers : result[c] = "stopped" /\ entry[c] # 0 =>
        /\ server[entry[c]] = "reaped"
        /\ ~(loop.pc \in {"stopping", "lockedUp"} /\ cmd = entry[c])

\* Every Start, Stop and Restart returns, whatever acServer does, unless the Content
\* Manager wrapper locks onStop up; a Stop that is past its look at IsRunning comes back
\* (to its caller, or to the Start around it) even then.
EveryCallReturns == \A c \in Callers :
    /\ pc[c] # "idle" ~> pc[c] \in {"idle", "dead"} \/ LockedUp
    /\ pc[c] \in {"prepare", "persist", "signal", "termWait", "killWait", "cancel"}
            ~> pc[c] \in {"idle", "send", "dead"}

\* The server is used as ServerLifecycle says: the next event only starts from a
\* completely stopped server, and a process that ended is torn down, or else its
\* teardown is locked up and nothing starts any more.
Lifecycle == INSTANCE ServerLifecycle WITH
    event <- raceEvent,
    phase <- IF LockedUp THEN "lockedUp"
             ELSE IF ~IsRunning THEN "stopped"
             ELSE IF server[cmd] = "spawned" THEN "launching"
             ELSE IF server[cmd] = "alive" THEN "running"
             ELSE "ended"

ImplementsLifecycle == Lifecycle!Spec

\* Restarting a server that stops meanwhile does not end the program (refuted).
NeverCrashes == loop.pc # "dead"
=============================================================================
