---------------------------- MODULE RaceManager ----------------------------
(***************************************************************************)
(* RaceManager (race_manager.go): starting an event, looping over the      *)
(* custom races that are marked for it, and the force stop timer.          *)
(*                                                                         *)
(* Requests of users (handlers and timers of scheduled races), the         *)
(* goroutine LoopRaces, the callbacks of force stop timers, and the        *)
(* goroutine that handles messages of acServer share one RaceManager and   *)
(* one server process.  rm.mutex covers applyConfigAndStart and nothing    *)
(* else: the looped session types, the flag for the second race and the    *)
(* time attack event are read and written without it.                      *)
(*                                                                         *)
(* The server process is the abstract one: Start stops what is running,    *)
(* then launches, and either may fail (module ServerProcess has the rest). *)
(***************************************************************************)
EXTENDS Naturals, Sequences, FiniteSets, SequencesExt

CONSTANTS
    Users,      \* goroutines of requests and of timers of scheduled races
    Looper,     \* the goroutine LoopRaces
    Races,      \* custom races
    Setup,      \* per race: sessions, reversed, loopMode, timeAttack, forceStop
    NoRace,     \* nil
    MaxEvents   \* bound: requests and failures in a behaviour

SessionTypes == <<"booking", "practice", "qualifying", "race">>
SetupType == [sessions : SUBSET ToSet(SessionTypes), reversed : BOOLEAN,
              loopMode : BOOLEAN, timeAttack : BOOLEAN,
              forceStop : {"no", "ifEmpty", "always"}]

ASSUME CallersAssumption == Looper \notin Users /\ NoRace \notin Races \union Users \union {Looper}
ASSUME RacesAssumption == IsFiniteSet(Races)
ASSUME SetupAssumption == Setup \in [Races -> SetupType]
ASSUME EventBoundAssumption == MaxEvents \in Nat

VARIABLES
    order,      \* the store: the races, the one updated last first
    loop,       \* the store: races with LoopServer[serverID]
    mutex,      \* holder of rm.mutex
    startMutex, \* holder of sp.startMutex
    call,       \* per caller: its call in progress
    run,        \* what acServer runs
    current,    \* rm.currentRace
    types,      \* rm.loopedRaceSessionTypes
    wait,       \* rm.loopedRaceWaitForSecondRace
    timeAttack, \* raceControl.currentTimeAttackEvent
    armed,      \* the force stop timer: "no", or its event: "own", "stale", "kept"
    fired,      \* callbacks of force stop timers that were launched
    index,      \* LoopRaces: i
    inbox,      \* the session end acServer reported that is not handled yet
    callback,   \* LoopCallback: about to stop the process, and for which run
    budget,     \* requests and failures left
    notes       \* history: what the properties name as exceptions

vars == <<order, loop, mutex, startMutex, call, run, current, types, wait, timeAttack,
          armed, fired, index, inbox, callback, budget, notes>>

store == <<order, loop>>
server == <<run, inbox, callback, armed>>
looped == <<types, wait>>

Callers == Users \union {Looper}
NoRun == [race |-> NoRace, looping |-> FALSE, at |-> 0, races |-> 0,
          leftover |-> FALSE, lost |-> FALSE]
NoTypes == {"nil"}
Idle == [pc |-> "idle", race |-> NoRace, looping |-> FALSE, kind |-> "start"]
NoMessage == "none"
IsRunning == run # NoRun

\* What acServer runs for a race; a reversed grid makes it run the race twice.
Configured(r, s) == IF s \in Setup[r].sessions THEN <<s>> ELSE <<>>
Sessions(r) ==
    Configured(r, "booking") \o Configured(r, "practice") \o Configured(r, "qualifying")
      \o Configured(r, "race") \o (IF Setup[r].reversed THEN Configured(r, "race") ELSE <<>>)

\* What LoopRaces stores of them.
LoopedTypes(r) ==
    Setup[r].sessions \union (IF Setup[r].reversed THEN {"secondRace"} ELSE {})

Init ==
    /\ \E stored \in SUBSET Races : order = SetToSeq(stored) /\ loop \in SUBSET stored
    /\ mutex = NoRace /\ startMutex = NoRace
    /\ call = [c \in Callers |-> Idle]
    /\ run = NoRun /\ current = NoRace
    /\ types = NoTypes /\ wait = FALSE /\ timeAttack = NoRace
    /\ armed = "no" /\ fired = {} /\ index = 1
    /\ inbox = NoMessage /\ callback = "idle"
    /\ budget = MaxEvents
    /\ notes = [overtaken |-> FALSE, robbed |-> FALSE, misled |-> FALSE, failed |-> FALSE,
                overlap |-> FALSE, announced |-> FALSE]

Request == budget > 0 /\ budget' = budget - 1
Fault == budget > 0 /\ budget' = budget - 1
Goto(c, pc) == call' = [call EXCEPT ![c].pc = pc]
Busy(c) == call[c].pc \notin {"idle", "ended", "list"}
Without(s, r) ==
    IF r \in ToSet(s) THEN RemoveAt(s, CHOOSE i \in DOMAIN s : s[i] = r) ELSE s
ToFront(s, r) == <<r>> \o Without(s, r)

\* The run ends: a message that is still on its way is late from now on.
EndsRun ==
    /\ run' = NoRun
    /\ inbox' = IF inbox = NoMessage THEN inbox ELSE "late"
    /\ callback' = IF callback = "idle" THEN callback ELSE "late"

----------------------------------------------------------------------------
(* The custom races of the store                                           *)

\* ToggleLoopCustomRace; UpsertCustomRace sets Updated.
ToggleLoopCustomRace(r) ==
    /\ Request /\ r \in ToSet(order)
    /\ loop' = IF r \in loop THEN loop \ {r} ELSE loop \union {r}
    /\ order' = ToFront(order, r)
    /\ UNCHANGED <<mutex, startMutex, call, server, current, looped, timeAttack, fired, index,
                   notes>>

DeleteCustomRace(r) ==
    /\ Request /\ r \in ToSet(order)
    /\ order' = Without(order, r)
    /\ loop' = loop \ {r}
    /\ UNCHANGED <<mutex, startMutex, call, server, current, looped, timeAttack, fired, index,
                   notes>>

----------------------------------------------------------------------------
(* StartCustomRace and applyConfigAndStart                                 *)

\* StartCustomRace up to rm.mutex; forceRestart is what makes the event a looped one.
\* A time attack is announced to race control before the event is started.
StartCustomRace(c, r, forceRestart, kind) ==
    /\ call' = [call EXCEPT ![c] = [pc |-> "want", race |-> r, looping |-> forceRestart,
                                    kind |-> kind]]
    /\ timeAttack' = IF Setup[r].timeAttack THEN r ELSE timeAttack
    /\ notes' = [notes EXCEPT !.overlap = \E d \in Callers \ {c} : Busy(d), !.announced = FALSE]

UserStarts(u, r, kind) ==
    /\ Request /\ call[u].pc = "idle" /\ r \in ToSet(order)
    /\ kind \in {"start", "scheduled"}
    /\ StartCustomRace(u, r, FALSE, kind)
    /\ UNCHANGED <<store, mutex, startMutex, server, current, looped, fired, index>>

\* SetupCustomRace saves a new race, then starts it, schedules it (its timer is a user of
\* its own) or leaves it: one that is only saved is announced to race control all the
\* same, whatever runs.
SetupCustomRace(u, r, action) ==
    /\ Request /\ call[u].pc = "idle" /\ r \notin ToSet(order)
    /\ order' = <<r>> \o order
    /\ \/ action = "start" /\ StartCustomRace(u, r, FALSE, "start")
       \/ /\ action = "justSave"
          /\ timeAttack' = IF Setup[r].timeAttack THEN r ELSE timeAttack
          /\ notes' = [notes EXCEPT !.announced = @ \/ Setup[r].timeAttack]
          /\ UNCHANGED call
       \/ action = "schedule" /\ UNCHANGED <<call, timeAttack, notes>>
    /\ UNCHANGED <<loop, mutex, startMutex, server, current, looped, fired, index>>

\* The step takes the session types from a looped event, or from one about to start,
\* for an event that is not looped.
Robs(c) == ~call[c].looping /\ types' # types /\ (run.looping \/ call[Looper].pc \in {"find", "want"})

\* An error is returned: LoopRaces returns for ever on any.
Fails(c, from) ==
    /\ call' = [call EXCEPT ![c] = [Idle EXCEPT !.pc = IF c = Looper THEN "ended" ELSE "idle"]]
    /\ mutex' = IF mutex = c THEN NoRace ELSE mutex
    /\ startMutex' = IF startMutex = c THEN NoRace ELSE startMutex
    /\ notes' = [notes EXCEPT
                  !.overlap = TRUE,
                  !.failed = @ \/ from = "launched",
                  !.overtaken = @ \/ from = "launched",
                  !.misled = @ \/ from = "stop" \/ (from = "launched" /\ current # call[c].race),
                  !.robbed = @ \/ c = Looper \/ (from = "want" /\ Robs(c))
                               \/ (from = "launched" /\ call[c].kind = "restart")]

\* Mutant: a looped event resets the session types as well.
TypesAfterMut(c) == NoTypes

\* Reset the stored session types if this isn't a looped race.
TypesAfter(c) == IF call[c].looping THEN types ELSE NoTypes

\* Mutant: rm.mutex is not taken.
FreeMut(c) == TRUE

Free(c) == mutex = NoRace

\* applyConfigAndStart up to process.Start.  Options that cannot be loaded, an entry
\* list that is too big and files that cannot be written end it with an error.
ApplyConfig(c) ==
    /\ call[c].pc = "want" /\ Free(c)
    /\ types' = TypesAfter(c)
    /\ timeAttack' = IF Setup[call[c].race].timeAttack THEN timeAttack ELSE NoRace
    /\ \/ /\ mutex' = c /\ current' = call[c].race
          /\ notes' = [notes EXCEPT !.robbed = @ \/ Robs(c)]
          /\ Goto(c, "stop")
          /\ UNCHANGED <<startMutex, budget>>
       \/ Fault /\ Fails(c, "want") /\ UNCHANGED current
    /\ UNCHANGED <<store, server, wait, fired, index>>

\* process.Start stops the running event, whoever started it; an error leaves it running.
StopOld(c) ==
    /\ call[c].pc = "stop" /\ startMutex = NoRace
    /\ \/ /\ startMutex' = c /\ Goto(c, "launch")
          /\ IF IsRunning
             THEN EndsRun
             ELSE UNCHANGED <<run, inbox, callback>>
          /\ UNCHANGED <<mutex, budget, notes>>
       \/ /\ IsRunning /\ Fault /\ Fails(c, "stop")
          /\ UNCHANGED <<run, inbox, callback>>
    /\ UNCHANGED <<store, current, looped, timeAttack, armed, fired, index>>

\* The new run, and what its launch makes of the timers that were made for earlier ones.
Launches(c) ==
    /\ run' = [race |-> call[c].race, looping |-> call[c].looping, at |-> 1, races |-> 0,
               leftover |-> wait, lost |-> FALSE]
    /\ armed' = IF armed = "no" THEN "no"
                ELSE IF call[c].kind # "restart" THEN "stale"
                ELSE IF armed = "own" /\ current = call[c].race THEN "own" ELSE "kept"
    /\ fired' = IF "own" \in fired THEN (fired \ {"own"}) \union {"late"} ELSE fired

\* Then it launches; a plugin that fails to start makes that an error although acServer
\* runs.  Restart goes through process.Start alone.
Launch(c) ==
    /\ call[c].pc = "launch"
    /\ \/ /\ Launches(c)
          /\ startMutex' = NoRace
          /\ call' = [call EXCEPT ![c] = IF @.kind = "restart" THEN Idle
                                         ELSE [@ EXCEPT !.pc = "finish"]]
          /\ notes' = [notes EXCEPT
                        !.overtaken = @ \/ c # Looper,
                        !.robbed = @ \/ (/\ call[c].kind = "restart"
                                           /\ types # LoopedTypes(call[c].race)),
                        !.misled = call[c].kind = "restart" /\ current # call[c].race]
          /\ UNCHANGED <<mutex, budget>>
       \/ Fault /\ Fails(c, "launch") /\ UNCHANGED <<run, armed, fired>>
       \/ Fault /\ Launches(c) /\ Fails(c, "launched")
    /\ UNCHANGED <<store, current, looped, timeAttack, index, inbox, callback>>

\* Mutant: the timer of the event before is stopped only if there is a new one.
ForceStopTimerMut(r) == IF Setup[r].forceStop # "no" THEN "own" ELSE armed

\* "existing timer needs to be stopped in all cases"
ForceStopTimer(r) == IF Setup[r].forceStop # "no" THEN "own" ELSE "no"

\* Mutant: the index grows twice.
NextIndexMut(c) == IF c = Looper THEN index + 2 ELSE index

NextIndex(c) == IF c = Looper THEN index + 1 ELSE index

\* The rest of applyConfigAndStart, and of LoopRaces for its own start.
Finish(c) ==
    /\ call[c].pc = "finish"
    /\ armed' = ForceStopTimer(call[c].race)
    /\ mutex' = NoRace
    /\ call' = [call EXCEPT ![c] = IF @.kind = "scheduled" THEN [@ EXCEPT !.pc = "save"] ELSE Idle]
    /\ index' = NextIndex(c)
    /\ notes' = [notes EXCEPT !.failed = FALSE]
    /\ UNCHANGED <<store, startMutex, run, current, looped, timeAttack, fired, inbox, callback,
                   budget>>

\* StartScheduledRace saves the race it has started: no longer one of the loop, and
\* stored again if it was deleted meanwhile.
SaveStarted(u) ==
    /\ call[u].pc = "save"
    /\ order' = ToFront(order, call[u].race)
    /\ loop' = loop \ {call[u].race}
    /\ call' = [call EXCEPT ![u] = Idle]
    /\ UNCHANGED <<mutex, startMutex, server, current, looped, timeAttack, fired, index, budget,
                   notes>>

\* The restart and stop buttons.
Restart(u) ==
    /\ Request /\ call[u].pc = "idle" /\ IsRunning
    /\ call' = [call EXCEPT ![u] = [pc |-> "stop", race |-> run.race, looping |-> run.looping,
                                    kind |-> "restart"]]
    /\ notes' = [notes EXCEPT !.overlap = TRUE]
    /\ UNCHANGED <<store, mutex, startMutex, server, current, looped, timeAttack, fired, index>>

Stop ==
    /\ Request /\ IsRunning /\ EndsRun
    /\ UNCHANGED <<store, mutex, startMutex, call, current, looped, timeAttack, armed, fired,
                   index, notes>>

----------------------------------------------------------------------------
(* LoopRaces                                                               *)

\* Mutant: the running race is not looked at.
NothingRunsMut == TRUE

NothingRuns == ~IsRunning

\* The ticker, and CurrentRace under rm.mutex.
Tick ==
    /\ call[Looper].pc = "idle" /\ mutex = NoRace /\ NothingRuns
    /\ call' = [call EXCEPT ![Looper] = [Idle EXCEPT !.pc = "list"]]
    /\ notes' = [notes EXCEPT !.overtaken = FALSE]
    /\ UNCHANGED <<store, mutex, startMutex, server, current, looped, timeAttack, fired, index,
                   budget>>

\* The places of the races of the loop in the list of all, and the place of the i-th.
LoopedPlaces == {k \in DOMAIN order : order[k] \in loop}
Turn(i) == {k \in LoopedPlaces : Cardinality({j \in LoopedPlaces : j <= k}) = i}

\* Lists the races and stores the session types of the one whose turn it is.
ListLooped ==
    /\ call[Looper].pc = "list"
    /\ IF LoopedPlaces = {}
       THEN /\ call' = [call EXCEPT ![Looper] = Idle]
            /\ UNCHANGED <<types, index, notes>>
       ELSE /\ index' = IF index > Cardinality(LoopedPlaces) THEN 1 ELSE index
            /\ \E k \in Turn(index') :
                  /\ types' = LoopedTypes(order[k])
                  /\ call' = [call EXCEPT ![Looper].pc = "find", ![Looper].race = order[k]]
            /\ notes' = [notes EXCEPT !.robbed = FALSE]
    /\ UNCHANGED <<store, mutex, startMutex, server, current, wait, timeAttack, fired, budget>>

ListFails ==
    /\ call[Looper].pc = "list" /\ Fault /\ Fails(Looper, "list")
    /\ UNCHANGED <<store, server, current, looped, timeAttack, fired, index>>

\* StartCustomRace loads the race again: it may be gone.
LooperStarts ==
    LET r == call[Looper].race IN
    /\ call[Looper].pc = "find"
    /\ IF r \in ToSet(order)
       THEN /\ StartCustomRace(Looper, r, TRUE, "start")
            /\ UNCHANGED <<mutex, startMutex>>
       ELSE Fails(Looper, "find") /\ UNCHANGED timeAttack
    /\ UNCHANGED <<store, server, current, looped, fired, index, budget>>

----------------------------------------------------------------------------
(* acServer and LoopCallback                                               *)

\* A session ends and is reported; after the last one acServer exits, or starts over
\* when it is to loop (StartCustomRace sets LoopMode for looped events).  races counts to two.
EndSession ==
    LET all == Sessions(run.race)
        again == run.looping \/ Setup[run.race].loopMode
    IN  /\ IsRunning /\ inbox = NoMessage /\ Len(all) > 0
        /\ IF run.at < Len(all) \/ again
           THEN /\ run' = [run EXCEPT !.at = IF @ < Len(all) THEN @ + 1 ELSE 1,
                                      !.races = IF all[run.at] = "race" /\ @ < 2 THEN @ + 1 ELSE @]
                /\ inbox' = all[run.at]
                /\ UNCHANGED callback
           ELSE /\ run' = NoRun
                /\ inbox' = "late"
                /\ callback' = IF callback = "idle" THEN callback ELSE "late"
    /\ UNCHANGED <<store, mutex, startMutex, call, current, looped, timeAttack, armed, fired,
                   index, budget, notes>>

\* The result file cannot be read, or the connection was closed before the message.
Lost ==
    /\ inbox # NoMessage /\ IF inbox = "late" THEN UNCHANGED budget ELSE Fault
    /\ inbox' = NoMessage
    /\ run' = IF inbox = "late" THEN run ELSE [run EXCEPT !.lost = TRUE]
    /\ UNCHANGED <<store, mutex, startMutex, call, current, looped, timeAttack, armed, fired,
                   index, callback, notes>>

\* The session that ends a looped event, of the ones stored.
LastSession ==
    LET stored == {i \in DOMAIN SessionTypes : SessionTypes[i] \in types}
    IN  IF stored = {} THEN "none" ELSE SessionTypes[CHOOSE i \in stored : \A j \in stored : j <= i]

\* Mutant: the first race already ends the event.
AwaitsSecondMut(type) == FALSE

AwaitsSecond(type) == type = "race" /\ "secondRace" \in types /\ ~wait

\* LoopCallback on a session end: of this run, or (type is then any) of an earlier one.
LoopCallback(type) ==
    /\ callback = "idle" /\ inbox # NoMessage
    /\ inbox \in {type, "late"}
    /\ inbox' = NoMessage
    /\ IF types = NoTypes THEN UNCHANGED <<looped, callback>>
       ELSE IF AwaitsSecond(type)
       THEN wait' = TRUE /\ UNCHANGED <<types, callback>>
       ELSE /\ wait' = (wait /\ ~(type = "race" /\ "secondRace" \in types))
            /\ IF type = LastSession
               THEN types' = NoTypes /\ callback' = IF inbox = "late" THEN "late" ELSE "own"
               ELSE UNCHANGED <<types, callback>>
    /\ notes' = [notes EXCEPT !.robbed = @ \/ (/\ types' # types
                                              /\ \/ inbox = "late" \/ ~run.looping
                                                 \/ call[Looper].pc \in {"find", "want", "stop"})]
    /\ run' = IF inbox = "late" /\ wait' # wait /\ IsRunning THEN [run EXCEPT !.leftover = TRUE] ELSE run
    /\ UNCHANGED <<store, mutex, startMutex, call, current, timeAttack, armed, fired, index,
                   budget>>

\* process.Stop at its end: whatever runs by then.
CallbackStop ==
    /\ callback # "idle"
    /\ IF IsRunning
       THEN /\ run' = NoRun
            /\ inbox' = IF inbox = NoMessage THEN inbox ELSE "late"
       ELSE UNCHANGED <<run, inbox>>
    /\ callback' = "idle"
    /\ UNCHANGED <<store, mutex, startMutex, call, current, looped, timeAttack, armed, fired,
                   index, budget, notes>>

----------------------------------------------------------------------------
(* The force stop timer                                                    *)

\* A timer of an earlier event is "late" if it fires while the start of this one is in
\* progress, after that has failed or when this is a restart, and "astray" otherwise.
FireTimer ==
    /\ armed # "no" /\ fired = {} /\ armed' = "no"
    /\ fired' = {IF armed = "own" THEN "own"
                 ELSE IF armed = "kept" \/ mutex # NoRace \/ notes.failed THEN "late"
                 ELSE "astray"}
    /\ UNCHANGED <<store, mutex, startMutex, call, run, current, looped, timeAttack, index, inbox,
                   callback, budget, notes>>

\* The callback: it stops whatever runs, unless drivers keep it from doing so.
ForceStop(f) ==
    /\ f \in fired /\ fired' = fired \ {f}
    /\ \/ IsRunning /\ EndsRun
       \/ /\ IsRunning /\ f = "own" => Setup[run.race].forceStop # "always"
          /\ UNCHANGED <<run, inbox, callback>>
    /\ UNCHANGED <<store, mutex, startMutex, call, current, looped, timeAttack, armed, index,
                   budget, notes>>

----------------------------------------------------------------------------
Looping == Tick \/ ListLooped \/ LooperStarts
Starting(c) == ApplyConfig(c) \/ StopOld(c) \/ Launch(c) \/ Finish(c)
Handling == CallbackStop \/ \E type \in ToSet(SessionTypes) : LoopCallback(type)

Next ==
    \/ \E r \in Races : ToggleLoopCustomRace(r) \/ DeleteCustomRace(r)
    \/ \E u \in Users, r \in Races, k \in {"start", "scheduled"} : UserStarts(u, r, k)
    \/ \E u \in Users, r \in Races, a \in {"start", "justSave", "schedule"} : SetupCustomRace(u, r, a)
    \/ \E u \in Users : Restart(u) \/ SaveStarted(u)
    \/ Stop
    \/ \E c \in Callers : Starting(c)
    \/ Looping \/ ListFails
    \/ EndSession \/ Handling \/ Lost
    \/ FireTimer \/ \E f \in fired : ForceStop(f)

\* The ticker of LoopRaces, sp.Start, the end of sessions and the goroutine that handles
\* messages go on by themselves.
Fairness ==
    /\ WF_vars(Looping)
    /\ \A c \in Callers : WF_vars(Starting(c))
    /\ \A u \in Users : WF_vars(SaveStarted(u))
    /\ WF_vars(EndSession) /\ WF_vars(Handling)

Spec == Init /\ [][Next]_vars /\ Fairness

----------------------------------------------------------------------------
(* Properties                                                              *)

Ends == IsRunning /\ run' = NoRun
EndsAtLastSession == Ends /\ callback = "own" /\ callback' = "idle"

\* An event is stopped by a request, by its own force stop timer or at its own end.
\* LoopRaces stops one only if it was started after LoopRaces had found nothing running;
\* a timer of an earlier event only if it fired before the start of this one was over, or
\* that failed or was a restart, which leaves timers alone;
\* and LoopCallback one that is not looped only in the first of these cases.
KeptRunning ==
    [][Ends => /\ startMutex' = Looper => notes.overtaken
               /\ "astray" \in fired => fired' = fired
               /\ EndsAtLastSession => run.looping \/ notes.overtaken]_vars

\* A looped event that runs has its session types stored, so that its last session ends
\* it; acServer would repeat it for ever.  It does not when a start that is not a looped
\* one came between the store of the types and the end of the event, or when a start of
\* LoopRaces failed, or when a restart launches an event that was about to end or over, or
\* when the end of a session of another event took its types.
LoopedRaceEnds ==
    (run.looping /\ call[Looper].pc \notin {"find", "want", "stop"}) =>
        (types = LoopedTypes(run.race) \/ callback # "idle" \/ notes.robbed)

\* A looped event with a reversed grid ends after both races, unless the flag was left
\* set by an event that was stopped between its races or by a late message of one, or a
\* result was lost, or LoopRaces stored other types while it was being restarted.
SecondRaceRuns ==
    [][(EndsAtLastSession /\ run.looping /\ Setup[run.race].reversed /\ run.races = 1) =>
          run.leftover \/ run.lost \/ notes.overtaken]_vars

\* What CurrentRace and race control take for the running event is it, unless stopping
\* the one before failed or a restart overtook a start; the time attack may also be
\* wrong after starts that overlap or fail, and is whenever a time attack was only saved
\* since the last start began (announced): race control then combines the results of the
\* event that runs with those of the saved one.
CurrentRaceRuns ==
    (IsRunning /\ mutex = NoRace) =>
        /\ current = run.race \/ notes.misled
        /\ ((\A c \in Callers : ~Busy(c)) /\ ~notes.overlap /\ ~notes.misled /\ ~notes.announced) =>
              timeAttack = IF Setup[run.race].timeAttack THEN run.race ELSE NoRace

\* Nothing is going to happen for the loop: LoopRaces has returned, or an event runs that
\* nothing ends.
LoopStands ==
    \/ call[Looper].pc = "ended"
    \/ IsRunning /\ Sessions(run.race) = <<>>
    \/ /\ IsRunning /\ (run.looping \/ Setup[run.race].loopMode)
       /\ types # LoopedTypes(run.race)

\* Every race of the loop has its turn again and again, unless the loop stands.
LoopGoesOn ==
    \A r \in Races : <>[](r \in loop) => ([]<>(run.race = r) \/ <>[]LoopStands)

\* Events run as long as they should: looped ones to their end, all others until somebody
\* ends them.
EventsRunTheirTime == []LoopedRaceEnds /\ KeptRunning /\ SecondRaceRuns
=============================================================================
