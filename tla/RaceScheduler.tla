--------------------------- MODULE RaceScheduler ---------------------------
(***************************************************************************)
(* The schedule of a custom race (race_manager.go, pkg/when/when.go): what *)
(* the store says, the timers of package when, and the map that remembers  *)
(* the last start timer of each race.  HTTP handlers, the callbacks of     *)
(* timers and the loop that checks for new scheduled events load a copy of *)
(* the race, work on it and save it; nothing makes load and save one step. *)
(* Server Manager may end at any moment and be started again later.        *)
(*                                                                         *)
(* One race is modelled: files, timers and map entries of two races have   *)
(* nothing in common.  Reminder timers, plugins and store errors are left  *)
(* out, and so are the entries that other servers make in the same store.  *)
(***************************************************************************)
EXTENDS Naturals, FiniteSets

CONSTANTS
    Handlers,    \* goroutines of HTTP requests
    Callbacks,   \* goroutines for the callbacks of timers
    Until,       \* the last occurrence of a recurrence rule, and the bound of the clock
    Week,        \* the days CommandSchedule looks ahead
    CheckLoop,   \* config.Store.ScheduledEventCheckLoop is set
    MaxTimers,   \* bound: timers made
    MaxScheduleCalls,\* bound: requests
    MaxRestarts  \* bound: times Server Manager ends

ASSUME SchedulerAssumption ==
    Until \in Nat \ {0} /\ {Week, MaxTimers, MaxScheduleCalls, MaxRestarts} \subseteq Nat
ASSUME CheckLoopAssumption == CheckLoop \in BOOLEAN

VARIABLES
    now,       \* the time, 0 is the zero time.Time
    phase,     \* Server Manager is "down", in "init" or "up"
    store,     \* the race in the store
    startTimers,\* timers of package when that are to be fired
    slot,      \* customRaceStartTimers: the number of the last timer, 0 for nil
    made,      \* timers made so far
    th,        \* what each goroutine is doing
    wanted,    \* history: the user wants the race started "no" more, "once", "recurring"
    disturbed, \* history: what happened that the properties make an exception for
    asks, restarts

schedulerVars == <<now, phase, store, startTimers, slot, made, th, wanted, disturbed, asks, restarts>>

Time == 0..Until
NoEntry == [sched |-> 0, recur |-> FALSE]
Race == [sched : Time, recur : BOOLEAN, entry : [sched : Time, recur : BOOLEAN],
         deleted : BOOLEAN]
Unscheduled == [sched |-> 0, recur |-> FALSE, entry |-> NoEntry, deleted |-> FALSE]

Threads == Handlers \cup Callbacks \cup {"init"}
NoTask == [pc |-> "idle"]

\* Loading the race, to set its schedule to date in the way said by how; stale means that
\* the race was saved since.  Deleting it goes on with outer, the copy loaded before.
ScheduleFor(date, how, outer) ==
    [pc |-> "load", date |-> date, how |-> how, outer |-> outer, stale |-> FALSE]

SchedulerInit ==
    /\ now = 1 /\ phase = "down"
    /\ store = Unscheduled
    /\ startTimers = {} /\ slot = 0 /\ made = 0
    /\ th = [t \in Threads |-> NoTask]
    /\ wanted = "no" /\ disturbed = {} /\ asks = 0 /\ restarts = 0

Become(t, s) == th' = [th EXCEPT ![t] = s]

Aged(s) == IF s = NoTask THEN NoTask ELSE [s EXCEPT !.stale = TRUE]

\* UpsertCustomRace writes the whole race: a stale copy undoes what was saved since.
Upsert(t, race, s) ==
    /\ store' = race
    /\ th' = [o \in Threads |-> IF o = t THEN s ELSE Aged(th[o])]

Lost(t) == IF th[t].stale THEN {"overtaken"} ELSE {}

\* A goroutine acts between another one's change of the timer and the save of its reason.
Between ==
    IF \E t \in Threads :
          th[t].pc = "save" /\ th[t].how \in {"once", "recurring", "already", "remove", "delete"}
      THEN {"overtaken"} ELSE {}

\* timer.Stop() of the timer the map remembers.
Running == {tm \in startTimers : tm.no # slot}

\* when.When in the future.
When(others, date) ==
    /\ made < MaxTimers
    /\ made' = made + 1 /\ slot' = made + 1
    /\ startTimers' = others \cup {[no |-> made + 1, at |-> date]}

\* FindNextRecurrence: the first occurrence after both, 0 once the rule is exhausted.
NextOccurrence(from) ==
    LET next == (IF from > now THEN from ELSE now) + 1
    IN IF next <= Until THEN next ELSE 0

----------------------------------------------------------------------------
(* Requests                                                                *)

ScheduleRequest(h) == phase = "up" /\ th[h] = NoTask /\ ~store.deleted /\ asks < MaxScheduleCalls /\ asks' = asks + 1

CallSchedule(h) ==
    /\ ScheduleRequest(h)
    /\ \E date \in 1..Until, how \in {"once", "recurring"} : Become(h, ScheduleFor(date, how, Unscheduled))
    /\ UNCHANGED <<now, phase, store, startTimers, slot, made, wanted, disturbed, restarts>>

CallRemove(h) ==
    /\ ScheduleRequest(h) /\ Become(h, ScheduleFor(0, "remove", Unscheduled))
    /\ UNCHANGED <<now, phase, store, startTimers, slot, made, wanted, disturbed, restarts>>

\* DeleteCustomRace unschedules the race first and then marks the copy it loaded before.
CallDelete(h) ==
    /\ ScheduleRequest(h)
    /\ Become(h, IF store.sched # 0
                   THEN ScheduleFor(0, "delete", store)
                   ELSE [pc |-> "delete", copy |-> store, stale |-> FALSE])
    /\ UNCHANGED <<now, phase, store, startTimers, slot, made, wanted, disturbed, restarts>>

\* Starring, looping, or any other change of the race.
CallEdit(h) ==
    /\ ScheduleRequest(h)
    /\ Become(h, [pc |-> "save", copy |-> store, how |-> "edit", stale |-> FALSE])
    /\ UNCHANGED <<now, phase, store, startTimers, slot, made, wanted, disturbed, restarts>>

Delete(h) ==
    /\ th[h].pc = "delete"
    /\ Upsert(h, [th[h].copy EXCEPT !.deleted = TRUE], NoTask)
    /\ disturbed' = disturbed \cup Lost(h)
    /\ wanted' = "no"
    /\ UNCHANGED <<now, phase, startTimers, slot, made, asks, restarts>>

----------------------------------------------------------------------------
(* ScheduleRace                                                            *)

\* Nothing looks at whether the race was deleted meanwhile.
Load(t) ==
    /\ th[t].pc = "load"
    /\ Become(t, [pc |-> "arm", date |-> th[t].date, how |-> th[t].how, outer |-> th[t].outer,
                  copy |-> store, stale |-> FALSE])
    /\ disturbed' = disturbed \cup (IF store.deleted THEN {"afterDeletion"} ELSE {})
                              \cup (IF th[t].how \in {"already", "delete"} THEN Lost(t) ELSE {})
    /\ UNCHANGED <<now, phase, store, startTimers, slot, made, wanted, asks, restarts>>

\* The entry for this server is made before the recurrence rule is set or cleared.
ScheduledRaces(copy, date, how) ==
    [copy EXCEPT !.sched = date,
                 !.entry = [sched |-> date, recur |-> copy.recur],
                 !.recur = how = "recurring" \/ (how = "already" /\ copy.recur)]

Saving(t) ==
    Become(t, [th[t] EXCEPT !.pc = "save", !.copy = ScheduledRaces(@, th[t].date, th[t].how)])

\* Mutant: the timer of the earlier schedule is left alone.
ArmMut(t) ==
    /\ th[t].pc = "arm" /\ th[t].how \in {"once", "recurring", "already"} /\ th[t].date > now
    /\ When(startTimers, th[t].date)
    /\ Saving(t)
    /\ UNCHANGED <<now, phase, store, wanted, disturbed, asks, restarts>>

Arm(t) ==
    /\ th[t].pc = "arm" /\ th[t].how \in {"once", "recurring", "already"} /\ th[t].date > now
    /\ When(Running, th[t].date)
    /\ Saving(t)
    /\ UNCHANGED <<now, phase, store, wanted, disturbed, asks, restarts>>

\* A date in the past, or a rule that cannot be parsed, ends the request after the timer
\* of the earlier schedule was stopped.
ArmFails(t) ==
    /\ th[t].pc = "arm" /\ th[t].how \in {"once", "recurring", "already"}
    /\ \/ th[t].date <= now /\ slot' = 0
       \/ th[t].how = "recurring" /\ UNCHANGED slot
    /\ startTimers' = Running
    /\ disturbed' = disturbed \cup {"failedSchedule"}
    /\ Become(t, NoTask)
    /\ UNCHANGED <<now, phase, store, made, wanted, asks, restarts>>

Disarm(t) ==
    /\ th[t].pc = "arm" /\ th[t].how \in {"remove", "delete"}
    /\ startTimers' = Running
    /\ Saving(t)
    /\ UNCHANGED <<now, phase, store, slot, made, wanted, disturbed, asks, restarts>>

\* What the user wants once the race is saved in the way said by how.
AskedAfter(how) ==
    CASE how \in {"once", "recurring"} -> how
      [] how \in {"remove", "delete", "exhausted"} -> "no"
      [] how \in {"started", "missed"} /\ (wanted = "once" \/ "staleEntry" \in disturbed) -> "no"
      [] OTHER -> wanted

Save(t) ==
    /\ th[t].pc = "save"
    /\ disturbed' = (disturbed \ (IF th[t].how \in {"once", "recurring", "remove", "delete"}
                                    THEN {"staleEntry", "failedStart"} ELSE {}))
                    \cup Lost(t)
    /\ wanted' = IF th[t].copy.deleted THEN "no" ELSE AskedAfter(th[t].how)
    /\ Upsert(t, th[t].copy,
              IF th[t].how = "delete"
                THEN [pc |-> "delete", copy |-> th[t].outer, stale |-> FALSE]
                ELSE NoTask)
    /\ UNCHANGED <<now, phase, startTimers, slot, made, asks, restarts>>

----------------------------------------------------------------------------
(* Timers                                                                  *)

Fire(cb) ==
    /\ th[cb] = NoTask
    /\ \E tm \in startTimers : tm.at <= now /\ startTimers' = startTimers \ {tm}
    /\ Become(cb, [pc |-> "begin", stale |-> FALSE])
    /\ UNCHANGED <<now, phase, store, slot, made, wanted, disturbed, asks, restarts>>

\* StartCustomRace loads the race and starts acServer, which takes its time.
Begin(cb) ==
    /\ th[cb].pc = "begin"
    /\ Become(cb, [pc |-> "run", copy |-> store, stale |-> FALSE])
    /\ disturbed' = disturbed \cup Between \cup Lost(cb)
    /\ UNCHANGED <<now, phase, store, startTimers, slot, made, wanted, asks, restarts>>

StartFails(cb) ==
    /\ th[cb].pc = "run"
    /\ disturbed' = disturbed \cup {"failedStart"}
    /\ Become(cb, NoTask)
    /\ UNCHANGED <<now, phase, store, startTimers, slot, made, wanted, asks, restarts>>

\* Saving a changed copy, as stale as the copy itself.
SaveRace(t, copy, how) == [pc |-> "save", copy |-> copy, how |-> how, stale |-> th[t].stale]

\* ScheduleNextFromRecurrence
FromRecurrence(t, copy) ==
    IF NextOccurrence(copy.sched) # 0
      THEN [ScheduleFor(NextOccurrence(copy.sched), "already", Unscheduled) EXCEPT !.stale = th[t].stale]
      ELSE SaveRace(t, [copy EXCEPT !.recur = FALSE], "exhausted")

\* Mutant: recurring races are scheduled once.
StartedMut(cb) ==
    /\ th[cb].pc = "run"
    /\ Become(cb, SaveRace(cb, [th[cb].copy EXCEPT !.sched = 0], "started"))
    /\ UNCHANGED <<now, phase, store, startTimers, slot, made, wanted, disturbed, asks, restarts>>

Started(cb) ==
    /\ th[cb].pc = "run"
    /\ Become(cb, IF th[cb].copy.recur THEN FromRecurrence(cb, th[cb].copy)
                  ELSE SaveRace(cb, [th[cb].copy EXCEPT !.sched = 0], "started"))
    /\ UNCHANGED <<now, phase, store, startTimers, slot, made, wanted, disturbed, asks, restarts>>

----------------------------------------------------------------------------
(* InitScheduledRaces, at the start and from the check loop                *)

Boot ==
    /\ phase = "down" /\ phase' = "init"
    /\ Become("init", IF store.deleted THEN NoTask ELSE [pc |-> "scan", copy |-> store, stale |-> FALSE])
    /\ UNCHANGED <<now, store, startTimers, slot, made, wanted, disturbed, asks, restarts>>

Check ==
    /\ CheckLoop /\ phase = "up" /\ th["init"] = NoTask /\ ~store.deleted
    /\ Become("init", [pc |-> "scan", copy |-> store, stale |-> FALSE])
    /\ UNCHANGED <<now, phase, store, startTimers, slot, made, wanted, disturbed, asks, restarts>>

\* The entry for this server, if there is one, overrides the fields of the race.
Entered(copy) ==
    IF copy.entry.sched = 0 THEN copy
    ELSE [copy EXCEPT !.sched = copy.entry.sched, !.recur = copy.entry.recur]

\* getScheduledRaces: the race as the calendar shows it.
Shown == Entered(store)

\* Mutant: the rule has no beginning ("dtstart ... must be reinitiated").
RuleBetweenMut(start, end) == {t \in Time : t \in start..end /\ Shown.recur}

\* GetRecurrenceRule: the occurrences from the date that is shown on.
RuleBetween(start, end) == {t \in Time : t \in start..end /\ Shown.recur /\ t >= Shown.sched}

\* buildCalendar: the date of the race, and those of its rule between two dates.
BuildCalendar(start, end) ==
    IF store.deleted \/ Shown.sched = 0 THEN {} ELSE {Shown.sched} \cup RuleBetween(start, end)

\* The message on Discord: the date of the race, whenever that is, and those of its rule
\* within a week.
CommandSchedule ==
    IF store.deleted \/ Shown.sched = 0 THEN {}
    ELSE {Shown.sched} \cup RuleBetween(now, now + Week)

Scanning == th["init"].pc = "scan"

\* Mutant: only a race that was not armed before gets a new timer.
ScanFutureMut ==
    /\ Scanning
    /\ LET copy == th["init"].copy
           race == Entered(copy)
       IN /\ race.sched > now
          /\ \/ slot = 0 /\ When(Running, race.sched)
             \/ slot # 0 /\ startTimers' = Running /\ slot' = 0 /\ UNCHANGED made
          /\ disturbed' = disturbed \cup Lost("init") \cup Between
                \cup (IF race.sched # copy.sched THEN {"staleEntry"} ELSE {})
    /\ Become("init", NoTask)
    /\ UNCHANGED <<now, phase, store, wanted, asks, restarts>>

ScanFuture ==
    /\ Scanning
    /\ LET copy == th["init"].copy
           race == Entered(copy)
       IN /\ race.sched > now /\ When(Running, race.sched)
          /\ disturbed' = disturbed \cup Lost("init") \cup Between
                \cup (IF race.sched # copy.sched THEN {"staleEntry"} ELSE {})
    /\ Become("init", NoTask)
    /\ UNCHANGED <<now, phase, store, wanted, asks, restarts>>

\* A schedule in the past: on to the next recurrence, or the schedule is cleared.
ScanPast ==
    /\ Scanning
    /\ LET copy == th["init"].copy
           race == Entered(copy)
       IN /\ race.sched <= now
          /\ disturbed' = disturbed \cup Lost("init") \cup Between
                \cup (IF race.recur # copy.recur THEN {"staleEntry"} ELSE {})
          /\ Become("init",
                IF race.recur THEN FromRecurrence("init", race)
                ELSE IF race.sched # 0
                  THEN SaveRace("init", [race EXCEPT !.sched = 0, !.entry = NoEntry], "missed")
                ELSE NoTask)
    /\ startTimers' = Running /\ slot' = 0
    /\ UNCHANGED <<now, phase, store, made, wanted, asks, restarts>>

Serve ==
    /\ phase = "init" /\ th["init"] = NoTask
    /\ phase' = "up"
    /\ UNCHANGED <<now, store, startTimers, slot, made, th, wanted, disturbed, asks, restarts>>

----------------------------------------------------------------------------
\* Timers that are due are fired within a second.
Tick ==
    /\ now < Until /\ \A tm \in startTimers : tm.at > now
    /\ now' = now + 1
    /\ UNCHANGED <<phase, store, startTimers, slot, made, th, wanted, disturbed, asks, restarts>>

\* Server Manager ends; what is in the store is all that is left.  After a lost update
\* the user can only expect what the store says.
Exit ==
    /\ phase # "down" /\ restarts < MaxRestarts
    /\ phase' = "down" /\ restarts' = restarts + 1
    /\ startTimers' = {} /\ slot' = 0 /\ th' = [t \in Threads |-> NoTask]
    /\ wanted' = IF "overtaken" \notin disturbed THEN wanted
                ELSE IF store.deleted THEN "no" ELSE IF store.recur THEN "recurring" ELSE IF store.sched # 0 THEN "once" ELSE "no"
    /\ disturbed' = disturbed \cap {"staleEntry"}
    /\ UNCHANGED <<now, store, made, asks>>

SchedulerNext ==
    \/ \E h \in Handlers : CallSchedule(h) \/ CallRemove(h) \/ CallDelete(h) \/ CallEdit(h) \/ Delete(h)
    \/ \E t \in Threads : Load(t) \/ Arm(t) \/ ArmFails(t) \/ Disarm(t) \/ Save(t)
    \/ \E cb \in Callbacks : Fire(cb) \/ Begin(cb) \/ StartFails(cb) \/ Started(cb)
    \/ Boot \/ Check \/ ScanFuture \/ ScanPast \/ Serve \/ Tick \/ Exit

SchedulerSpec == SchedulerInit /\ [][SchedulerNext]_schedulerVars

----------------------------------------------------------------------------
(* Properties                                                              *)

TypeOK ==
    /\ now \in Time /\ phase \in {"down", "init", "up"}
    /\ store \in Race
    /\ startTimers \subseteq [no : 1..MaxTimers, at : Time] /\ slot \in 0..MaxTimers /\ made \in 0..MaxTimers
    /\ \A t \in Threads : th[t].pc \in {"idle", "load", "arm", "save", "delete", "begin", "run", "scan"}
    /\ \A t \in Threads : th[t].pc \in {"load", "arm"} => th[t].date \in Time
    /\ wanted \in {"no", "once", "recurring"}
    /\ disturbed \subseteq {"overtaken", "failedSchedule", "failedStart", "staleEntry", "afterDeletion"}
    /\ phase = "down" => startTimers = {}

Quiet == phase = "up" /\ \A t \in Threads : th[t] = NoTask

\* A race whose schedule lies ahead has its timer, however requests, timers, the check
\* loop and restarts followed each other, unless a request that failed stopped the timer,
\* or one goroutine overtook another: it saved a stale copy, or acted between the change
\* of the timer and the save.
FutureRaceArmed ==
    Quiet /\ disturbed \cap {"overtaken", "failedSchedule"} = {} /\ ~store.deleted /\ store.sched > now
        => \E tm \in startTimers : tm.no = slot /\ tm.at = store.sched

\* A race that was moved, unscheduled or deleted is not started by an earlier timer,
\* unless one goroutine overtook another, the entry for this server is not what the race
\* itself says, or the race was scheduled after it was deleted.
NoOrphanTimers ==
    Quiet /\ disturbed \cap {"overtaken", "staleEntry", "afterDeletion"} = {}
        => \A tm \in startTimers : tm.no = slot /\ tm.at = store.sched /\ ~store.deleted

\* The log message at race_manager.go:1722, "the next recurrence time has been set": a
\* recurring race always has its next occurrence scheduled, through restarts and missed
\* occurrences, unless a start or a request failed, one goroutine overtook another, or
\* the rule in the entry for this server is not the rule of the race.
RecurrenceContinues ==
    Quiet /\ disturbed = {} /\ wanted = "recurring"
        => store.recur /\ (store.sched > now \/ \E tm \in startTimers : tm.at <= now)

\* Once due timers have fired, the calendar shows the date the race is going to be started
\* at, none before it, and none after it for a race without a rule, and the message on
\* Discord shows the same for a week; with the same exceptions, and unless the entry holds
\* the rule of before.
CalendarTruthful ==
    Quiet /\ disturbed = {} /\ store.entry.recur = store.recur /\ (\A tm \in startTimers : tm.at > now)
        => LET ahead == {t \in BuildCalendar(1, Until) : t > now}
               armed == {tm.at : tm \in startTimers}
           IN /\ armed \subseteq ahead
              /\ \A t \in ahead : \E at \in armed : at = t \/ (at < t /\ store.recur)
              /\ CommandSchedule \cap ((now + 1)..(now + Week)) = ahead \cap (now..(now + Week))

\* A race is started at its dates, at no others, and recurs, apart from the exceptions of each.
ScheduleKept == FutureRaceArmed /\ NoOrphanTimers /\ RecurrenceContinues

\* CHANGELOG.md:520, "Custom Races are now unscheduled when they are deleted": once all
\* is done, a deleted race has no timer.
DeletedStaysUnscheduled == Quiet /\ store.deleted => startTimers = {}
=============================================================================
