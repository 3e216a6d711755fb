------------------------ MODULE ChampionshipSchedule ------------------------
(***************************************************************************)
(* The schedule of the events of one championship                          *)
(* (championship_manager.go).  Other than a custom race, a championship is *)
(* one file for many events, a recurring event is copied before it is      *)
(* started, and the timer of an event keeps the copy of the championship   *)
(* that was loaded when the event was scheduled.                           *)
(*                                                                         *)
(* A request is one step here: what happens when load and save of two      *)
(* requests overlap is the subject of RaceScheduler.  The callback of a    *)
(* timer takes several steps, and Server Manager may end between them.     *)
(* Reminder timers, plugins and race weekends are left out.                *)
(***************************************************************************)
EXTENDS Naturals, FiniteSets

CONSTANTS
    Callbacks,   \* goroutines for the callbacks of timers
    Until,       \* the last occurrence of a recurrence rule, and the bound of the clock
    MaxEvents,   \* bound: events made, copies included
    MaxTimers,   \* bound: timers made
    MaxCalls,    \* bound: requests
    MaxBoots     \* bound: starts of Server Manager

ASSUME ScheduleAssumption ==
    /\ {Until, MaxEvents} \subseteq Nat \ {0}
    /\ {MaxTimers, MaxCalls, MaxBoots} \subseteq Nat

VARIABLES
    now,       \* the time, 0 is the zero time.Time
    phase,     \* Server Manager is "down" or "up"
    store,     \* the championship in the store
    timers,    \* timers of package when that are to be fired
    slot,      \* championshipEventStartTimers: for each event the number of its timer, or 0
    made,      \* timers made so far
    ids,       \* events made so far
    th,        \* what the callbacks are doing
    asked,     \* history: the championship as the requests and the callbacks mean it to be
    unarmed,   \* history: events whose timer was stopped, or not made, with their schedule kept
    disturbed, \* history: what happened that NothingLost makes an exception for
    calls, boots

scheduleVars == <<now, phase, store, timers, slot, made, ids, th, asked, unarmed, disturbed, calls, boots>>

Time == 0..Until
Ids == 1..MaxEvents
NoChampionshipEvent == [sched |-> 0, recur |-> FALSE, in |-> FALSE]
New == [sched |-> 0, recur |-> FALSE, in |-> TRUE]
Event == [sched : Time, recur : BOOLEAN, in : BOOLEAN]

\* A championship: its events in the order they were added, and the changes of anything
\* else that were saved (sign ups, penalties, results).
Championship == [events : [Ids -> Event], saved : SUBSET (1..MaxCalls)]
Timer == [no : 1..MaxTimers, ev : Ids, at : Time, copy : Championship]

Idle == [pc |-> "idle"]

ScheduleInit ==
    /\ now = 1 /\ phase = "down"
    /\ ids = 1
    /\ store = [events |-> [e \in Ids |-> IF e = 1 THEN New ELSE NoChampionshipEvent], saved |-> {}]
    /\ asked = store
    /\ timers = {} /\ slot = [e \in Ids |-> 0] /\ made = 0
    /\ th = [cb \in Callbacks |-> Idle]
    /\ unarmed = {} /\ disturbed = {} /\ calls = 0 /\ boots = 0

SetEvent(c, e, ev) == [c EXCEPT !.events[e] = ev]
SetSchedule(c, e, date, recur) == SetEvent(c, e, [sched |-> date, recur |-> recur, in |-> TRUE])

Become(cb, s) == th' = [th EXCEPT ![cb] = s]

\* timer.Stop() of the timer the map remembers for an event.
Stopped(e) == {tm \in timers : ~(tm.ev = e /\ tm.no = slot[e])}

\* The start timer of an event, which keeps the copy c of the championship.
When(others, e, date, c) ==
    /\ made < MaxTimers
    /\ made' = made + 1 /\ slot' = [slot EXCEPT ![e] = made + 1]
    /\ timers' = others \cup {[no |-> made + 1, ev |-> e, at |-> date, copy |-> c]}

\* Mutant: the end of the rule is not looked at.
NextOccurrenceMut(from) == (IF from > now THEN from ELSE now) + 1

\* FindNextEventRecurrence, 0 once the rule is exhausted.
NextOccurrence(from) ==
    LET next == (IF from > now THEN from ELSE now) + 1
    IN IF next <= Until THEN next ELSE 0

----------------------------------------------------------------------------
(* Requests                                                                *)

ScheduleRequest == phase = "up" /\ calls < MaxCalls /\ calls' = calls + 1

\* Mutant: the timer of the earlier schedule is left alone.
ScheduleMut(e) ==
    /\ ScheduleRequest /\ store.events[e].in
    /\ \E date \in (now + 1)..Until, recur \in BOOLEAN :
          /\ store' = SetSchedule(store, e, date, recur)
          /\ asked' = SetSchedule(asked, e, date, recur)
          /\ When(timers, e, date, store')
    /\ unarmed' = unarmed \ {e}
    /\ UNCHANGED <<now, phase, ids, th, disturbed, boots>>

Schedule(e) ==
    /\ ScheduleRequest /\ store.events[e].in
    /\ \E date \in (now + 1)..Until, recur \in BOOLEAN :
          /\ store' = SetSchedule(store, e, date, recur)
          /\ asked' = SetSchedule(asked, e, date, recur)
          /\ When(Stopped(e), e, date, store')
    /\ unarmed' = unarmed \ {e}
    /\ UNCHANGED <<now, phase, ids, th, disturbed, boots>>

\* A date in the past or a rule that cannot be parsed is noticed after the timer of the
\* earlier schedule was stopped.
ScheduleFails(e) ==
    /\ ScheduleRequest /\ store.events[e].in
    /\ timers' = Stopped(e) /\ unarmed' = unarmed \cup {e}
    /\ slot' \in {slot, [slot EXCEPT ![e] = 0]}
    /\ UNCHANGED <<now, phase, store, made, ids, th, asked, disturbed, boots>>

Unschedule(e) ==
    /\ ScheduleRequest /\ store.events[e].in
    /\ store' = SetSchedule(store, e, 0, FALSE) /\ asked' = SetSchedule(asked, e, 0, FALSE)
    /\ timers' = Stopped(e)
    /\ UNCHANGED <<now, phase, slot, made, ids, th, unarmed, disturbed, boots>>

\* DeleteEvent stops the timer of an event that the store says is scheduled.
DeleteEvent(e) ==
    /\ ScheduleRequest /\ store.events[e].in
    /\ store' = SetEvent(store, e, NoChampionshipEvent) /\ asked' = SetEvent(asked, e, NoChampionshipEvent)
    /\ timers' = IF store.events[e].sched # 0 THEN Stopped(e) ELSE timers
    /\ UNCHANGED <<now, phase, slot, made, ids, th, unarmed, disturbed, boots>>

AddChampionshipEvent ==
    /\ ScheduleRequest /\ ids < MaxEvents /\ ids' = ids + 1
    /\ store' = SetEvent(store, ids', New) /\ asked' = SetEvent(asked, ids', New)
    /\ UNCHANGED <<now, phase, timers, slot, made, th, unarmed, disturbed, boots>>

\* Any other change of the championship, a sign up for instance.
Change ==
    /\ ScheduleRequest
    /\ store' = [store EXCEPT !.saved = @ \cup {calls'}]
    /\ asked' = [asked EXCEPT !.saved = @ \cup {calls'}]
    /\ UNCHANGED <<now, phase, timers, slot, made, ids, th, unarmed, disturbed, boots>>

----------------------------------------------------------------------------
(* Timers                                                                  *)

Fire(cb) ==
    /\ phase = "up" /\ th[cb] = Idle
    /\ \E tm \in timers :
          /\ tm.at <= now /\ timers' = timers \ {tm}
          /\ Become(cb, [pc |-> IF tm.copy.events[tm.ev].recur THEN "copy" ELSE "clear",
                         ev |-> tm.ev, at |-> tm.at, copy |-> tm.copy])
    /\ UNCHANGED <<now, phase, store, slot, made, ids, asked, unarmed, disturbed, calls, boots>>

\* A request came between the launch of the callback and this step.
Overtaken(cb) == IF store.events[th[cb].ev].sched = th[cb].at THEN {} ELSE {"overtaken"}

\* Mutant: the copy that the timer keeps is saved.
ClearMut(cb) ==
    /\ th[cb].pc = "clear"
    /\ store' = SetSchedule(th[cb].copy, th[cb].ev, 0, FALSE)
    /\ asked' = SetSchedule(asked, th[cb].ev, 0, FALSE)
    /\ disturbed' = disturbed \cup Overtaken(cb)
    /\ Become(cb, Idle)
    /\ UNCHANGED <<now, phase, timers, slot, made, ids, unarmed, calls, boots>>

\* An event that was scheduled once: the championship is loaded again, the schedule of the
\* event cleared and the event started, which changes nothing more in the store.
Clear(cb) ==
    /\ th[cb].pc = "clear"
    /\ LET e == th[cb].ev
       IN /\ store' = IF store.events[e].in THEN SetSchedule(store, e, 0, store.events[e].recur) ELSE store
          /\ asked' = IF asked.events[e].in THEN SetSchedule(asked, e, 0, asked.events[e].recur) ELSE asked
    /\ disturbed' = disturbed \cup Overtaken(cb)
    /\ Become(cb, Idle)
    /\ UNCHANGED <<now, phase, timers, slot, made, ids, unarmed, calls, boots>>

\* A recurring event is copied, in the copy of the championship that the timer keeps, and
\* that copy is saved.  What is meant: one more event, scheduled for the next occurrence.
CopyEvent(cb) ==
    /\ th[cb].pc = "copy" /\ ids < MaxEvents /\ ids' = ids + 1
    /\ LET ev == th[cb].copy.events[th[cb].ev]
       IN /\ store' = SetEvent(th[cb].copy, ids', ev)
          /\ asked' = SetSchedule(asked, ids', NextOccurrence(ev.sched), TRUE)
    /\ disturbed' = disturbed \cup Overtaken(cb) \cup (IF store = th[cb].copy THEN {} ELSE {"outdated"})
    /\ Become(cb, [pc |-> "schedule", ev |-> ids', at |-> th[cb].at])
    /\ UNCHANGED <<now, phase, timers, slot, made, unarmed, calls, boots>>

\* Mutant: the schedule of the copy is saved without a timer.
ScheduleCopyMut(cb) ==
    /\ th[cb].pc = "schedule" /\ NextOccurrence(th[cb].at) # 0 /\ store.events[th[cb].ev].in
    /\ store' = SetSchedule(store, th[cb].ev, NextOccurrence(th[cb].at), TRUE)
    /\ Become(cb, Idle)
    /\ UNCHANGED <<now, phase, timers, slot, made, ids, asked, unarmed, disturbed, calls, boots>>

\* ScheduleEvent for the copied event, unless it is gone.
ScheduleCopy(cb) ==
    /\ th[cb].pc = "schedule" /\ NextOccurrence(th[cb].at) # 0
    /\ LET e == th[cb].ev
           next == NextOccurrence(th[cb].at)
       IN IF store.events[e].in
            THEN /\ store' = SetSchedule(store, e, next, store.events[e].recur)
                 /\ When(Stopped(e), e, next, store')
            ELSE UNCHANGED <<store, timers, slot, made>>
    /\ disturbed' = disturbed \cup Overtaken(cb)
    /\ unarmed' = unarmed \ {th[cb].ev}
    /\ Become(cb, Idle)
    /\ UNCHANGED <<now, phase, ids, asked, calls, boots>>

\* What is left when Server Manager ends is the store.
Down ==
    /\ phase' = "down"
    /\ timers' = {} /\ slot' = [e \in Ids |-> 0] /\ th' = [cb \in Callbacks |-> Idle]

\* FindNextEventRecurrence starts over with the zero time when the rule is exhausted, and
\* so calls itself until the stack is.
Exhausted(cb) ==
    /\ th[cb].pc = "schedule" /\ NextOccurrence(th[cb].at) = 0
    /\ Down
    /\ disturbed' = disturbed \cup {"halfway"}
    /\ UNCHANGED <<now, store, made, ids, asked, unarmed, calls, boots>>

----------------------------------------------------------------------------
(* Server Manager starts and ends                                          *)

Scheduled == {e \in Ids : store.events[e].sched # 0}
First == CHOOSE e \in Scheduled : \A f \in Scheduled : e <= f
Ahead(c) == {e \in Ids : c.events[e].sched > now}

\* InitScheduledChampionships: the first event that is scheduled gets its timer, or has
\* its schedule cleared if that is in the past, and the function returns.
Boot ==
    /\ phase = "down" /\ boots < MaxBoots
    /\ phase' = "up" /\ boots' = boots + 1
    /\ IF Scheduled # {} /\ First \in Ahead(store)
         THEN UNCHANGED store /\ When({}, First, store.events[First].sched, store)
       ELSE /\ store' = IF Scheduled = {} THEN store
                        ELSE SetSchedule(store, First, 0, store.events[First].recur)
            /\ UNCHANGED <<timers, slot, made>>
    /\ unarmed' = Ahead(store) \ {e \in Scheduled : e = First}
    /\ asked' = IF disturbed # {} THEN store'
                ELSE IF store' = store THEN asked ELSE SetSchedule(asked, First, 0, asked.events[First].recur)
    /\ disturbed' = {}
    /\ UNCHANGED <<now, ids, th, calls>>

Exit ==
    /\ phase = "up" /\ Down
    /\ disturbed' = disturbed \cup
          (IF \E cb \in Callbacks : th[cb].pc = "schedule" THEN {"halfway"} ELSE {})
    /\ UNCHANGED <<now, store, made, ids, asked, unarmed, calls, boots>>

\* The callbacks of timers that are due have done their part within a second.
Tick ==
    /\ now < Until /\ (\A tm \in timers : tm.at > now) /\ (\A cb \in Callbacks : th[cb] = Idle)
    /\ now' = now + 1
    /\ UNCHANGED <<phase, store, timers, slot, made, ids, th, asked, unarmed, disturbed, calls, boots>>

ScheduleNext ==
    \/ \E e \in Ids : Schedule(e) \/ ScheduleFails(e) \/ Unschedule(e) \/ DeleteEvent(e)
    \/ AddChampionshipEvent \/ Change
    \/ \E cb \in Callbacks : Fire(cb) \/ Clear(cb) \/ CopyEvent(cb) \/ ScheduleCopy(cb) \/ Exhausted(cb)
    \/ Boot \/ Exit \/ Tick

ScheduleSpec == ScheduleInit /\ [][ScheduleNext]_scheduleVars

----------------------------------------------------------------------------
(* Properties                                                              *)

ScheduleTypeOK ==
    /\ now \in Time /\ phase \in {"down", "up"}
    /\ store \in Championship /\ asked \in Championship
    /\ timers \subseteq Timer
    /\ slot \in [Ids -> 0..MaxTimers] /\ made \in 0..MaxTimers /\ ids \in Ids
    /\ \A cb \in Callbacks : th[cb].pc \in {"idle", "clear", "copy", "schedule"}
    /\ unarmed \subseteq Ids
    /\ disturbed \subseteq {"overtaken", "outdated", "halfway"}
    /\ \A e \in Ids : e > ids => store.events[e] = NoChampionshipEvent
    /\ phase = "down" => timers = {} /\ \A cb \in Callbacks : th[cb] = Idle

\* An event whose schedule lies ahead has its timer, unless Server Manager was started
\* since, which arms one event only, or a request for the event failed, or the store was
\* overwritten with an outdated copy.
ScheduledArmed ==
    phase = "up" /\ disturbed = {}
        => \A e \in Ahead(store) \ unarmed :
              \E tm \in timers : tm.ev = e /\ tm.no = slot[e] /\ tm.at = store.events[e].sched

\* An event that was moved, unscheduled or deleted is not started by an earlier timer.
TimersScheduled ==
    phase = "up" /\ disturbed = {}
        => \A tm \in timers : tm.no = slot[tm.ev] /\ tm.at = store.events[tm.ev].sched

\* The comment at championship_manager.go:937, "our copy of the championship is outdated,
\* get the latest version": starting events does not undo what was saved since they were
\* scheduled, unless a recurring event is started from an outdated copy.  With every start
\* of a recurring event the championship gains one event, scheduled for the next
\* occurrence (CHANGELOG.md:568).
NothingLost ==
    disturbed = {} /\ (\A cb \in Callbacks : th[cb].pc # "schedule") => store = asked

\* CHANGELOG.md:481, "Fixed an issue with scheduled Championship events that could clear
\* all of the other scheduled events on the Championship when they started": events that
\* are to be started later keep their schedule in the store.
OthersStayScheduled ==
    phase = "up" /\ (\A cb \in Callbacks : th[cb].pc # "schedule") /\ "overtaken" \notin disturbed
        => \A e \in Ahead(asked) : store.events[e].sched = asked.events[e].sched

\* The timers of a running Server Manager are the schedule in the store.
TimersFollowSchedule == ScheduledArmed /\ TimersScheduled
=============================================================================
