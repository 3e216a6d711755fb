------------------------ MODULE Championship_proofs ------------------------
(* A championship, for any number of callbacks, drivers, slots and events, and any *)
(* bounds: the timers follow the schedule in the store, what was saved is not lost  *)
(* when events start, and nobody has two places or the settings of somebody else.   *)
EXTENDS ChampionshipEntrants, ChampionshipSchedule, FiniteSetTheorems, WellFoundedInduction, TLAPS

----------------------------------------------------------------------------
(* The inductive invariant                                                 *)

Waiting == {Idle}
Starting == [pc : {"clear", "copy"}, ev : Ids, at : Time, copy : Championship]
Copying == [pc : {"schedule"}, ev : Ids, at : Time]

StoreTyped == store \in Championship /\ asked \in Championship
ClockTyped ==
    /\ now \in Time /\ phase \in {"down", "up"} /\ ids \in Ids
    /\ calls \in 0..MaxCalls /\ boots \in 0..MaxBoots
TimersTyped ==
    /\ timers \subseteq Timer /\ slot \in [Ids -> 0..MaxTimers] /\ made \in 0..MaxTimers
CallbacksTyped == th \in [Callbacks -> Waiting \union Starting \union Copying]
HistoryTyped == unarmed \subseteq Ids /\ disturbed \subseteq {"overtaken", "outdated", "halfway"}
DownSound == phase = "down" => timers = {} /\ \A cb \in Callbacks : th[cb] = Idle

\* Events that were deleted, or are not made yet, have no schedule.
Sound(c, n) ==
    \A e \in Ids : ~c.events[e].in \/ e > n => c.events[e] = NoChampionshipEvent

\* Every timer has its number and a date; its copy was the store once.
TimersNumbered ==
    /\ \A tm \in timers : tm.at # 0 /\ tm.no <= made /\ Sound(tm.copy, ids)
    /\ \A tm, other \in timers : tm.no = other.no => tm = other

\* What callbacks know.
CallbacksSound ==
    \A cb \in Callbacks :
        /\ th[cb].pc # "idle" => th[cb].at # 0 /\ th[cb].at <= now
        /\ th[cb].pc \in {"clear", "copy"} => Sound(th[cb].copy, ids)
        /\ th[cb].pc = "copy" => th[cb].copy.events[th[cb].ev].recur
        /\ th[cb].pc = "schedule" => th[cb].ev <= ids
CopiesDiffer ==
    \A cb, other \in Callbacks :
        th[cb].pc = "schedule" /\ th[other].pc = "schedule" /\ th[cb].ev = th[other].ev => cb = other

\* The timer that was fired was the only one of its event for that date.
FiredOnce ==
    disturbed = {} => \A cb \in Callbacks : th[cb].pc = "clear" =>
        \A tm \in timers : tm.ev = th[cb].ev => tm.at # th[cb].at

\* The store is what it is meant to be, but for copied events that are to be scheduled.
Pending(cb) == th[cb].pc = "schedule" /\ store.events[th[cb].ev].sched = th[cb].at
Behind ==
    disturbed = {} =>
        /\ store.saved = asked.saved
        /\ \A e \in Ids : (\A cb \in Callbacks : Pending(cb) => th[cb].ev # e) =>
              store.events[e] = asked.events[e]
        /\ \A cb \in Callbacks : Pending(cb) =>
              /\ store.events[th[cb].ev] = [sched |-> th[cb].at, recur |-> TRUE, in |-> TRUE]
              /\ asked.events[th[cb].ev] = [sched |-> NextOccurrence(th[cb].at), recur |-> TRUE, in |-> TRUE]

Typed == StoreTyped /\ ClockTyped /\ TimersTyped /\ CallbacksTyped /\ HistoryTyped
IInv == /\ Typed /\ DownSound /\ Sound(store, ids) /\ TimersNumbered /\ CallbacksSound /\ CopiesDiffer
        /\ FiredOnce /\ Behind /\ TimersFollowSchedule

USE ScheduleAssumption

----------------------------------------------------------------------------
(* Lemmas on championships, dates and the first event                      *)

LEMMA Bounds ==
    /\ Until \in Nat /\ MaxEvents \in Nat /\ MaxTimers \in Nat /\ MaxCalls \in Nat /\ MaxBoots \in Nat
    /\ Until >= 1 /\ MaxEvents >= 1 /\ Ids \subseteq Nat /\ Time \subseteq Nat /\ 0 \in Time
BY DEF Ids, Time

LEMMA EventsTyped ==
    /\ NoChampionshipEvent \in Event /\ New \in Event /\ NoChampionshipEvent.sched = 0 /\ New.sched = 0
    /\ New.in /\ ~NoChampionshipEvent.in
BY Bounds DEF NoChampionshipEvent, New, Event

LEMMA SetEventSets ==
    ASSUME NEW c \in Championship, NEW e \in Ids, NEW ev \in Event
    PROVE  LET s == SetEvent(c, e, ev)
           IN  /\ s \in Championship /\ s.saved = c.saved /\ s.events[e] = ev
               /\ \A f \in Ids \ {e} : s.events[f] = c.events[f]
BY DEF SetEvent, Championship

LEMMA SameChampionship ==
    ASSUME NEW c \in Championship, NEW d \in Championship, c.saved = d.saved,
           \A e \in Ids : c.events[e] = d.events[e]
    PROVE  c = d
BY DEF Championship

LEMMA ChampionshipEvents ==
    ASSUME NEW c \in Championship, NEW e \in Ids
    PROVE  /\ c.events[e] \in Event /\ c.events[e].sched \in Time
           /\ c.events[e].recur \in BOOLEAN /\ c.events[e].in \in BOOLEAN
           /\ c.events[e] = [sched |-> c.events[e].sched, recur |-> c.events[e].recur, in |-> c.events[e].in]
BY DEF Championship, Event

LEMMA NextIsLater ==
    ASSUME NEW from \in Time, now \in Time
    PROVE  NextOccurrence(from) \in Time /\ (NextOccurrence(from) # 0 => NextOccurrence(from) > now)
BY DEF NextOccurrence, Time

Less == {ss \in Nat \X Nat : ss[1] < ss[2]}

LEMMA LessIsWellFounded == IsWellFoundedOn(Less, Nat)
<1>1. Less = OpToRel(<, Nat)
  BY Zenon DEF OpToRel, Less
<1> QED
  BY <1>1, NatLessThanWellFounded, Zenon

LEMMA LeastNumber ==
    ASSUME NEW S \in SUBSET Nat, S # {}
    PROVE  \E m \in S : \A n \in S : m <= n
<1>1. \E m \in S : \A n \in S : <<n, m>> \notin Less
  BY LessIsWellFounded, WFMin
<1>2. \A m, n \in S : <<n, m>> \notin Less => m <= n
  BY DEF Less
<1> QED
  BY <1>1, <1>2

LEMMA FirstIsScheduled ==
    ASSUME Scheduled # {}
    PROVE  First \in Scheduled
<1>1. Scheduled \subseteq Nat
  BY Bounds DEF Scheduled
<1>2. \E e \in Scheduled : \A f \in Scheduled : e <= f
  BY <1>1, LeastNumber
<1> QED
  BY <1>2 DEF First

LEMMA SoundGrows ==
    ASSUME NEW c, NEW m \in Nat, NEW n \in Nat, m <= n, Sound(c, m)
    PROVE  Sound(c, n)
BY Bounds DEF Sound

\* c takes a step, and no other callback does.
Moves(cb, s) == th' \in [Callbacks -> Waiting \union Starting \union Copying] /\ th'[cb] = s
                /\ \A other \in Callbacks \ {cb} : th'[other] = th[other]

LEMMA CallbackMoves ==
    ASSUME CallbacksTyped, NEW cb \in Callbacks, NEW s \in Waiting \union Starting \union Copying, Become(cb, s)
    PROVE  Moves(cb, s)
BY DEF CallbacksTyped, Become, Moves

LEMMA CallbackTypes ==
    ASSUME CallbacksTyped, NEW cb \in Callbacks
    PROVE  /\ th[cb].pc \in {"idle", "clear", "copy", "schedule"}
           /\ th[cb].pc = "idle" <=> th[cb] = Idle
           /\ th[cb].pc # "idle" => th[cb].ev \in Ids /\ th[cb].at \in Time
           /\ th[cb].pc \in {"clear", "copy"} => th[cb].copy \in Championship
BY DEF CallbacksTyped, Waiting, Starting, Copying, Idle

----------------------------------------------------------------------------
(* What a step leaves alone                                                *)

LEMMA Framed ==
    ASSUME IInv
    PROVE  /\ UNCHANGED <<store, asked>> => StoreTyped'
           /\ UNCHANGED <<now, phase, ids, calls, boots>> => ClockTyped'
           /\ UNCHANGED <<timers, slot, made>> => TimersTyped'
           /\ UNCHANGED th => CallbacksTyped' /\ CopiesDiffer'
           /\ UNCHANGED <<unarmed, disturbed>> => HistoryTyped'
           /\ UNCHANGED <<phase, timers, th>> => DownSound'
           /\ UNCHANGED <<store, ids>> => Sound(store, ids)'
           /\ UNCHANGED <<timers, made, ids>> => TimersNumbered'
           /\ UNCHANGED <<th, now, ids>> => CallbacksSound'
           /\ UNCHANGED <<disturbed, th, timers>> => FiredOnce'
           /\ UNCHANGED <<disturbed, store, asked, th, now>> => Behind'
           /\ UNCHANGED <<phase, disturbed, store, unarmed, timers, slot, now>> => TimersFollowSchedule'
<1> USE DEF IInv, Typed
<1>1. UNCHANGED <<store, asked>> => StoreTyped'
  BY DEF StoreTyped
<1>2. UNCHANGED <<now, phase, ids, calls, boots>> => ClockTyped'
  BY DEF ClockTyped
<1>3. UNCHANGED <<timers, slot, made>> => TimersTyped'
  BY DEF TimersTyped
<1>4. UNCHANGED th => CallbacksTyped' /\ CopiesDiffer'
  BY DEF CallbacksTyped, CopiesDiffer
<1>5. UNCHANGED <<unarmed, disturbed>> => HistoryTyped'
  BY DEF HistoryTyped
<1>6. UNCHANGED <<phase, timers, th>> => DownSound'
  BY DEF DownSound
<1>7. UNCHANGED <<store, ids>> => Sound(store, ids)'
  BY DEF Sound
<1>8. UNCHANGED <<timers, made, ids>> => TimersNumbered'
  BY DEF TimersNumbered, Sound
<1>9. UNCHANGED <<th, now, ids>> => CallbacksSound'
  BY DEF CallbacksSound, Sound
<1>10. UNCHANGED <<disturbed, th, timers>> => FiredOnce'
  BY DEF FiredOnce
<1>11. UNCHANGED <<disturbed, store, asked, th, now>> => Behind'
  BY DEF Behind, Pending, NextOccurrence
<1>12. UNCHANGED <<phase, disturbed, store, unarmed, timers, slot, now>> => TimersFollowSchedule'
  BY DEF TimersFollowSchedule, ScheduledArmed, TimersScheduled, Ahead
<1> QED
  BY <1>1, <1>2, <1>3, <1>4, <1>5, <1>6, <1>7, <1>8, <1>9, <1>10, <1>11, <1>12

----------------------------------------------------------------------------
(* What requests do to the store, and what is done to the timer of an event *)

\* One event gets another value, in the store as it is and as it is meant to be.
LEMMA EventChanges ==
    ASSUME IInv, NEW e \in Ids, NEW ev \in Event,
           store' = SetEvent(store, e, ev), asked' = SetEvent(asked, e, ev),
           ids' \in Ids, ids <= ids', e <= ids', ev.in \/ ev = NoChampionshipEvent,
           \A cb \in Callbacks : th[cb].pc = "schedule" /\ th[cb].ev = e => th[cb].at # ev.sched,
           UNCHANGED <<now, th, disturbed>>
    PROVE  /\ StoreTyped' /\ Sound(store, ids)' /\ Behind'
           /\ store'.events[e] = ev /\ \A f \in Ids \ {e} : store'.events[f] = store.events[f]
<1>1. /\ store' \in Championship /\ store'.saved = store.saved /\ store'.events[e] = ev
      /\ \A f \in Ids \ {e} : store'.events[f] = store.events[f]
  BY SetEventSets DEF IInv, Typed, StoreTyped
<1>2. /\ asked' \in Championship /\ asked'.saved = asked.saved /\ asked'.events[e] = ev
      /\ \A f \in Ids \ {e} : asked'.events[f] = asked.events[f]
  BY SetEventSets DEF IInv, Typed, StoreTyped
<1>3. StoreTyped'
  BY <1>1, <1>2 DEF StoreTyped
<1>4. ids \in Nat /\ ids' \in Nat
  BY Bounds DEF IInv, Typed, ClockTyped
<1>5. Sound(store, ids)'
  <2>1. Sound(store, ids) /\ e \in Nat
    BY Bounds DEF IInv
  <2>2. \A f \in Ids \ {e} : f \in Nat /\ (f > ids' => f > ids)
    BY <1>4, Bounds
  <2>3. ~(e > ids')
    BY <1>4, <2>1
  <2> QED
    BY <1>1, <2>1, <2>2, <2>3 DEF Sound
<1>6. Behind'
  <2> SUFFICES ASSUME disturbed = {}
               PROVE  /\ store'.saved = asked'.saved
                      /\ \A f \in Ids : (\A cb \in Callbacks : Pending(cb)' => th[cb].ev # f) =>
                            store'.events[f] = asked'.events[f]
                      /\ \A cb \in Callbacks : Pending(cb)' =>
                            /\ store'.events[th[cb].ev] = [sched |-> th[cb].at, recur |-> TRUE, in |-> TRUE]
                            /\ asked'.events[th[cb].ev]
                                  = [sched |-> NextOccurrence(th[cb].at), recur |-> TRUE, in |-> TRUE]
    BY DEF Behind, NextOccurrence
  <2>1. \A cb \in Callbacks : th[cb].pc = "schedule" => th[cb].ev \in Ids
    BY CallbackTypes DEF IInv, Typed
  <2>2. \A cb \in Callbacks : Pending(cb)' <=> Pending(cb) /\ th[cb].ev # e
    BY <1>1, <2>1 DEF Pending
  <2>3. \A f \in Ids \ {e} : (\A cb \in Callbacks : Pending(cb)' => th[cb].ev # f) =>
           store.events[f] = asked.events[f]
    BY <2>2 DEF IInv, Behind
  <2>4. \A cb \in Callbacks : Pending(cb)' => th[cb].ev \in Ids \ {e}
    BY <2>1, <2>2 DEF Pending
  <2> QED
    BY <1>1, <1>2, <2>2, <2>3, <2>4 DEF IInv, Behind
<1> QED
  BY <1>1, <1>3, <1>5, <1>6

\* Pending copies were due before now, and have a date.
LEMMA DuePending ==
    ASSUME IInv, NEW date \in Time, date = 0 \/ date > now, NEW cb \in Callbacks, th[cb].pc # "idle"
    PROVE  th[cb].at # date
<1>1. th[cb].at \in Time /\ th[cb].at # 0 /\ th[cb].at <= now
  BY CallbackTypes DEF IInv, Typed, CallbacksSound
<1>2. th[cb].at \in Nat /\ date \in Nat /\ now \in Nat
  BY <1>1, Bounds DEF IInv, Typed, ClockTyped
<1> QED
  BY <1>1, <1>2

\* The timers that are known are all there are of an event.
LEMMA StoppedAll ==
    ASSUME IInv, phase = "up", disturbed = {}, NEW e \in Ids
    PROVE  Stopped(e) = {tm \in timers : tm.ev # e}
BY DEF IInv, TimersFollowSchedule, TimersScheduled, Stopped

\* The timer of an event is stopped.
LEMMA StopMoves ==
    ASSUME IInv, NEW e \in Ids, timers' = Stopped(e),
           slot' = slot \/ slot' = [slot EXCEPT ![e] = 0],
           UNCHANGED <<phase, now, made, ids, th, disturbed>>,
           \A f \in Ids \ {e} : store'.events[f] = store.events[f],
           unarmed \subseteq unarmed', e \in unarmed' \/ store'.events[e].sched = 0
    PROVE  TimersTyped' /\ TimersNumbered' /\ FiredOnce' /\ DownSound' /\ TimersFollowSchedule'
<1>1. timers' \subseteq timers
  BY DEF Stopped
<1>2. TimersTyped'
  BY <1>1, Bounds DEF IInv, Typed, TimersTyped
<1>3. TimersNumbered'
  BY <1>1 DEF IInv, TimersNumbered, Sound
<1>4. FiredOnce' /\ DownSound'
  BY <1>1 DEF IInv, FiredOnce, DownSound
<1>5. TimersFollowSchedule'
  <2> SUFFICES ASSUME phase = "up", disturbed = {}
               PROVE  /\ \A f \in Ahead(store)' \ unarmed' :
                            \E tm \in timers' : tm.ev = f /\ tm.no = slot'[f] /\ tm.at = store'.events[f].sched
                      /\ \A tm \in timers' : tm.no = slot'[tm.ev] /\ tm.at = store'.events[tm.ev].sched
    BY DEF TimersFollowSchedule, ScheduledArmed, TimersScheduled
  <2>1. timers' = {tm \in timers : tm.ev # e}
    BY StoppedAll
  <2>2. \A f \in Ids \ {e} : slot'[f] = slot[f] /\ store'.events[f] = store.events[f]
    BY DEF IInv, Typed, TimersTyped
  <2>3. \A tm \in timers : tm.ev \in Ids
    BY DEF IInv, Typed, TimersTyped, Timer
  <2>4. /\ \A f \in Ahead(store) \ unarmed :
              \E tm \in timers : tm.ev = f /\ tm.no = slot[f] /\ tm.at = store.events[f].sched
        /\ \A tm \in timers : tm.no = slot[tm.ev] /\ tm.at = store.events[tm.ev].sched
    BY DEF IInv, TimersFollowSchedule, ScheduledArmed, TimersScheduled
  <2>5. ~(0 > now)
    BY Bounds DEF IInv, Typed, ClockTyped
  <2>6. \A f \in Ahead(store)' \ unarmed' : f \in (Ahead(store) \ unarmed) \ {e}
    BY <2>2, <2>5 DEF Ahead
  <2>7. \A f \in Ahead(store)' \ unarmed' :
              \E tm \in timers' : tm.ev = f /\ tm.no = slot'[f] /\ tm.at = store'.events[f].sched
    BY <2>1, <2>2, <2>4, <2>6 DEF Ahead
  <2>8. \A tm \in timers' : tm.no = slot'[tm.ev] /\ tm.at = store'.events[tm.ev].sched
    BY <2>1, <2>2, <2>3, <2>4
  <2> QED
    BY <2>7, <2>8
<1> QED
  BY <1>2, <1>3, <1>4, <1>5

\* The timer of an event is made anew.
LEMMA WhenMoves ==
    ASSUME IInv, NEW e \in Ids, NEW date \in Time, date > now, When(Stopped(e), e, date, store'),
           store' \in Championship, Sound(store, ids)', ids' = ids,
           phase = "up", UNCHANGED <<phase, now>>, disturbed' = {} => disturbed = {},
           store'.events[e].sched = date,
           disturbed' = {} => \A f \in Ids \ {e} : store'.events[f] = store.events[f],
           unarmed' = unarmed \ {e},
           \A cb \in Callbacks : th'[cb].pc = "clear" => th'[cb] = th[cb]
    PROVE  TimersTyped' /\ TimersNumbered' /\ FiredOnce' /\ DownSound' /\ TimersFollowSchedule'
<1> DEFINE new == [no |-> made + 1, ev |-> e, at |-> date, copy |-> store']
<1>1. /\ made \in 0..MaxTimers /\ made < MaxTimers /\ made' = made + 1
      /\ slot \in [Ids -> 0..MaxTimers] /\ slot' = [slot EXCEPT ![e] = made + 1]
      /\ timers \subseteq Timer /\ timers' = Stopped(e) \union {new}
      /\ now \in Nat /\ date # 0
  BY Bounds DEF When, IInv, Typed, TimersTyped, ClockTyped
<1>2. Stopped(e) \subseteq timers
  BY DEF Stopped
<1>3. new \in Timer /\ new.no = made + 1 /\ new.ev = e /\ new.at = date /\ new.copy = store'
  BY <1>1, Bounds DEF Timer
<1> HIDE DEF new
<1>4. TimersTyped'
  BY <1>1, <1>2, <1>3, Bounds DEF TimersTyped
<1>5. TimersNumbered'
  <2>1. \A tm \in timers : tm.at # 0 /\ tm.no <= made /\ Sound(tm.copy, ids) /\ tm.no \in Nat
    BY <1>1, Bounds DEF IInv, TimersNumbered, Timer
  <2>2. \A tm \in timers : Sound(tm.copy, ids')
    BY <2>1
  <2>3. Sound(new.copy, ids')
    BY <1>3
  <2>4. \A tm \in timers : tm.no <= made' /\ tm.no # new.no
    <3>1. made \in Nat /\ made' = made + 1 /\ new.no = made + 1
      BY <1>1, <1>3, Bounds
    <3> QED
      BY <2>1, <3>1
  <2>5. new.no <= made' /\ new.at # 0
    BY <1>1, <1>3
  <2>6. \A tm, other \in timers : tm.no = other.no => tm = other
    BY DEF IInv, TimersNumbered
  <2>7. \A tm \in timers' : tm = new \/ tm \in timers
    BY <1>1, <1>2
  <2>8. \A tm \in timers' : tm.at # 0 /\ tm.no <= made' /\ Sound(tm.copy, ids')
    BY <2>1, <2>2, <2>3, <2>4, <2>5, <2>7
  <2>9. \A tm, other \in timers' : tm.no = other.no => tm = other
    <3> TAKE tm, other \in timers'
    <3>1. CASE tm = new \/ other = new
      BY <2>4, <2>7, <3>1
    <3>2. CASE tm \in timers /\ other \in timers
      BY <2>6, <3>2
    <3> QED
      BY <2>7, <3>1, <3>2
  <2> QED
    BY <2>8, <2>9 DEF TimersNumbered
<1>6. FiredOnce'
  <2> SUFFICES ASSUME disturbed' = {}, NEW cb \in Callbacks, th'[cb].pc = "clear",
                      NEW tm \in timers', tm.ev = th'[cb].ev
               PROVE  tm.at # th'[cb].at
    BY DEF FiredOnce
  <2>1. th'[cb] = th[cb]
    OBVIOUS
  <2>2. CASE tm \in timers
    BY <2>1, <2>2 DEF IInv, FiredOnce
  <2>3. CASE tm = new
    BY <1>3, <2>1, <2>3, DuePending
  <2> QED
    BY <1>1, <1>2, <2>2, <2>3
<1>7. DownSound'
  BY DEF DownSound
<1>8. TimersFollowSchedule'
  <2> SUFFICES ASSUME disturbed' = {}
               PROVE  /\ \A f \in Ahead(store)' \ unarmed' :
                            \E tm \in timers' : tm.ev = f /\ tm.no = slot'[f] /\ tm.at = store'.events[f].sched
                      /\ \A tm \in timers' : tm.no = slot'[tm.ev] /\ tm.at = store'.events[tm.ev].sched
    BY DEF TimersFollowSchedule, ScheduledArmed, TimersScheduled
  <2>1. timers' = {tm \in timers : tm.ev # e} \union {new}
    BY <1>1, StoppedAll
  <2>2. \A f \in Ids \ {e} : slot'[f] = slot[f] /\ store'.events[f] = store.events[f]
    BY <1>1
  <2>3. \A tm \in timers : tm.ev \in Ids
    BY DEF IInv, Typed, TimersTyped, Timer
  <2>4. /\ \A f \in Ahead(store) \ unarmed :
              \E tm \in timers : tm.ev = f /\ tm.no = slot[f] /\ tm.at = store.events[f].sched
        /\ \A tm \in timers : tm.no = slot[tm.ev] /\ tm.at = store.events[tm.ev].sched
    BY DEF IInv, TimersFollowSchedule, ScheduledArmed, TimersScheduled
  <2>5. new.no = slot'[e] /\ new.at = store'.events[e].sched /\ new.ev = e
    BY <1>1, <1>3
  <2>6. \A f \in Ahead(store)' \ unarmed' : f # e => f \in Ahead(store) \ unarmed
    BY <2>2 DEF Ahead
  <2>7. \A f \in Ahead(store)' \ unarmed' :
              \E tm \in timers' : tm.ev = f /\ tm.no = slot'[f] /\ tm.at = store'.events[f].sched
    <3> TAKE f \in Ahead(store)' \ unarmed'
    <3>1. CASE f = e
      BY <2>1, <2>5, <3>1
    <3>2. CASE f # e
      <4>1. PICK tm \in timers : tm.ev = f /\ tm.no = slot[f] /\ tm.at = store.events[f].sched
        BY <2>4, <2>6, <3>2
      <4>2. tm \in timers' /\ f \in Ids
        BY <2>1, <3>2, <4>1 DEF Ahead
      <4> QED
        BY <2>2, <3>2, <4>1, <4>2
    <3> QED
      BY <3>1, <3>2
  <2>8. \A tm \in timers' : tm.no = slot'[tm.ev] /\ tm.at = store'.events[tm.ev].sched
    BY <2>1, <2>2, <2>3, <2>4, <2>5
  <2> QED
    BY <2>7, <2>8
<1> QED
  BY <1>4, <1>5, <1>6, <1>7, <1>8

----------------------------------------------------------------------------
(* Every action preserves the invariant: requests                          *)

LEMMA RequestTyped ==
    ASSUME IInv, ScheduleRequest, UNCHANGED <<now, phase, boots>>, ids' \in Ids
    PROVE  ClockTyped'
BY Bounds DEF IInv, Typed, ClockTyped, ScheduleRequest

LEMMA KnownIsMade ==
    ASSUME IInv, NEW e \in Ids, store.events[e].in
    PROVE  e <= ids /\ ids \in Ids /\ ids \in Nat /\ e \in Nat
<1>1. ids \in Ids /\ ids \in Nat /\ e \in Nat
  BY Bounds DEF IInv, Typed, ClockTyped
<1>2. e > ids => ~store.events[e].in
  BY EventsTyped DEF IInv, Sound
<1> QED
  BY <1>1, <1>2

LEMMA SchedulePreserves ==
    ASSUME IInv, NEW e \in Ids, Schedule(e)
    PROVE  IInv'
<1>1. /\ ScheduleRequest /\ phase = "up" /\ store.events[e].in /\ unarmed' = unarmed \ {e}
      /\ UNCHANGED <<now, phase, ids, th, disturbed, boots>>
  BY DEF Schedule, ScheduleRequest
<1>2. PICK date \in (now + 1)..Until, recur \in BOOLEAN :
          /\ store' = SetSchedule(store, e, date, recur)
          /\ asked' = SetSchedule(asked, e, date, recur)
          /\ When(Stopped(e), e, date, store')
  BY DEF Schedule
<1> DEFINE ev == [sched |-> date, recur |-> recur, in |-> TRUE]
<1>3. date \in Time /\ date > now /\ now \in Nat
  BY Bounds DEF Time, IInv, Typed, ClockTyped
<1>4. ev \in Event /\ ev.in /\ ev.sched = date
  BY <1>3 DEF Event
<1>5. store' = SetEvent(store, e, ev) /\ asked' = SetEvent(asked, e, ev)
  BY <1>2 DEF SetSchedule
<1> HIDE DEF ev
<1>6. \A cb \in Callbacks : th[cb].pc = "schedule" /\ th[cb].ev = e => th[cb].at # ev.sched
  BY <1>3, <1>4, DuePending
<1>7. e <= ids /\ ids \in Ids /\ ids \in Nat /\ e \in Nat
  BY <1>1, KnownIsMade
<1>8. /\ StoreTyped' /\ Sound(store, ids)' /\ Behind'
      /\ store'.events[e] = ev /\ \A f \in Ids \ {e} : store'.events[f] = store.events[f]
  BY <1>1, <1>4, <1>5, <1>6, <1>7, EventChanges
<1>9. TimersTyped' /\ TimersNumbered' /\ FiredOnce' /\ DownSound' /\ TimersFollowSchedule'
  <2>1. store' \in Championship /\ store'.events[e].sched = date /\ ids' = ids
    BY <1>1, <1>4, <1>8 DEF StoreTyped
  <2> QED
    BY <1>1, <1>2, <1>3, <1>8, <2>1, WhenMoves
<1>10. ClockTyped'
  BY <1>1, <1>7, RequestTyped
<1>11. HistoryTyped'
  BY <1>1 DEF IInv, Typed, HistoryTyped
<1> QED
  BY <1>1, <1>8, <1>9, <1>10, <1>11, Framed DEF IInv, Typed

LEMMA ScheduleFailsPreserves ==
    ASSUME IInv, NEW e \in Ids, ScheduleFails(e)
    PROVE  IInv'
<1>1. /\ ScheduleRequest /\ timers' = Stopped(e) /\ unarmed' = unarmed \cup {e}
      /\ slot' = slot \/ slot' = [slot EXCEPT ![e] = 0]
      /\ UNCHANGED <<now, phase, store, made, ids, th, asked, disturbed, boots>>
  BY DEF ScheduleFails
<1>2. TimersTyped' /\ TimersNumbered' /\ FiredOnce' /\ DownSound' /\ TimersFollowSchedule'
  BY <1>1, StopMoves
<1>3. ClockTyped'
  BY <1>1, RequestTyped DEF IInv, Typed, ClockTyped
<1>4. HistoryTyped'
  BY <1>1 DEF IInv, Typed, HistoryTyped
<1> QED
  BY <1>1, <1>2, <1>3, <1>4, Framed DEF IInv, Typed

\* The schedule of an event goes, and so does its timer.
LEMMA UnschedulePreserves ==
    ASSUME IInv, NEW e \in Ids, Unschedule(e)
    PROVE  IInv'
<1> DEFINE ev == [sched |-> 0, recur |-> FALSE, in |-> TRUE]
<1>1. /\ ScheduleRequest /\ store.events[e].in /\ timers' = Stopped(e)
      /\ store' = SetEvent(store, e, ev) /\ asked' = SetEvent(asked, e, ev)
      /\ UNCHANGED <<now, phase, slot, made, ids, th, unarmed, disturbed, boots>>
  BY DEF Unschedule, SetSchedule
<1>2. ev \in Event /\ ev.in /\ ev.sched = 0
  BY Bounds DEF Event
<1> HIDE DEF ev
<1>3. \A cb \in Callbacks : th[cb].pc = "schedule" /\ th[cb].ev = e => th[cb].at # ev.sched
  BY <1>2, Bounds, DuePending
<1>4. e <= ids /\ ids \in Ids /\ ids \in Nat /\ e \in Nat
  BY <1>1, KnownIsMade
<1>5. /\ StoreTyped' /\ Sound(store, ids)' /\ Behind'
      /\ store'.events[e] = ev /\ \A f \in Ids \ {e} : store'.events[f] = store.events[f]
  BY <1>1, <1>2, <1>3, <1>4, EventChanges
<1>6. TimersTyped' /\ TimersNumbered' /\ FiredOnce' /\ DownSound' /\ TimersFollowSchedule'
  BY <1>1, <1>2, <1>5, StopMoves
<1>7. ClockTyped'
  BY <1>1, <1>4, RequestTyped
<1> QED
  BY <1>1, <1>5, <1>6, <1>7, Framed DEF IInv, Typed

LEMMA DeleteEventPreserves ==
    ASSUME IInv, NEW e \in Ids, DeleteEvent(e)
    PROVE  IInv'
<1> DEFINE ev == NoChampionshipEvent
<1>1. /\ ScheduleRequest /\ store.events[e].in /\ phase = "up"
      /\ timers' = IF store.events[e].sched # 0 THEN Stopped(e) ELSE timers
      /\ store' = SetEvent(store, e, ev) /\ asked' = SetEvent(asked, e, ev)
      /\ UNCHANGED <<now, phase, slot, made, ids, th, unarmed, disturbed, boots>>
  BY DEF DeleteEvent, ScheduleRequest
<1>2. ev \in Event /\ ev.sched = 0 /\ 0 \in Time
  BY EventsTyped, Bounds
<1>3. \A cb \in Callbacks : th[cb].pc = "schedule" /\ th[cb].ev = e => th[cb].at # ev.sched
  BY <1>2, DuePending
<1>4. e <= ids /\ ids \in Ids /\ ids \in Nat /\ e \in Nat
  BY <1>1, KnownIsMade
<1>5. /\ StoreTyped' /\ Sound(store, ids)' /\ Behind'
      /\ store'.events[e] = ev /\ \A f \in Ids \ {e} : store'.events[f] = store.events[f]
  BY <1>1, <1>2, <1>3, <1>4, EventChanges
<1>6. CASE timers' = Stopped(e)
  <2>1. TimersTyped' /\ TimersNumbered' /\ FiredOnce' /\ DownSound' /\ TimersFollowSchedule'
    BY <1>1, <1>2, <1>5, <1>6, StopMoves
  <2>2. ClockTyped'
    BY <1>1, <1>4, RequestTyped
  <2> QED
    BY <1>1, <1>5, <2>1, <2>2, Framed DEF IInv, Typed
<1>7. CASE store.events[e].sched = 0 /\ timers' = timers
  <2>1. TimersFollowSchedule'
    <3> SUFFICES ASSUME disturbed = {}
                 PROVE  /\ \A f \in Ahead(store)' \ unarmed :
                              \E tm \in timers : tm.ev = f /\ tm.no = slot[f] /\ tm.at = store'.events[f].sched
                        /\ \A tm \in timers : tm.no = slot[tm.ev] /\ tm.at = store'.events[tm.ev].sched
      BY <1>1, <1>7 DEF TimersFollowSchedule, ScheduledArmed, TimersScheduled
    <3>1. \A f \in Ids : store'.events[f].sched = store.events[f].sched
      BY <1>2, <1>5, <1>7
    <3>2. Ahead(store)' = Ahead(store)
      BY <1>1, <3>1 DEF Ahead
    <3>3. \A tm \in timers : tm.ev \in Ids
      BY DEF IInv, Typed, TimersTyped, Timer
    <3> QED
      BY <1>1, <3>1, <3>2, <3>3 DEF IInv, TimersFollowSchedule, ScheduledArmed, TimersScheduled, Ahead
  <2>2. ClockTyped'
    BY <1>1, <1>4, RequestTyped
  <2> QED
    BY <1>1, <1>5, <1>7, <2>1, <2>2, Framed DEF IInv, Typed
<1> QED
  BY <1>1, <1>6, <1>7

LEMMA AddChampionshipEventPreserves ==
    ASSUME IInv, AddChampionshipEvent
    PROVE  IInv'
<1>1. /\ ScheduleRequest /\ ids < MaxEvents /\ ids' = ids + 1
      /\ store' = SetEvent(store, ids', New) /\ asked' = SetEvent(asked, ids', New)
      /\ UNCHANGED <<now, phase, timers, slot, made, th, unarmed, disturbed, boots>>
  BY DEF AddChampionshipEvent
<1> DEFINE e == ids + 1
<1>2. e \in Ids /\ ids \in Nat /\ e \in Nat /\ ids < e
  BY <1>1, Bounds DEF IInv, Typed, ClockTyped, Ids
<1>3. New \in Event /\ New.sched = 0 /\ New.in /\ NoChampionshipEvent.sched = 0 /\ 0 \in Time
  BY EventsTyped, Bounds
<1>4. store.events[e] = NoChampionshipEvent
  <2>1. e > ids
    BY <1>2
  <2> QED
    BY <1>2, <2>1 DEF IInv, Sound
<1>5. /\ store' = SetEvent(store, e, New) /\ asked' = SetEvent(asked, e, New) /\ ids' = e
  BY <1>1
<1> HIDE DEF e
<1>6. \A cb \in Callbacks : th[cb].pc = "schedule" /\ th[cb].ev = e => th[cb].at # New.sched
  BY <1>3, DuePending
<1>7. /\ StoreTyped' /\ Sound(store, ids)' /\ Behind'
      /\ store'.events[e] = New /\ \A f \in Ids \ {e} : store'.events[f] = store.events[f]
  <2>1. ids' \in Ids /\ ids <= ids' /\ e <= ids' /\ e \in Ids
    BY <1>2, <1>5
  <2> QED
    BY <1>1, <1>3, <1>5, <1>6, <2>1, EventChanges
<1>8. TimersFollowSchedule'
  <2> SUFFICES ASSUME disturbed = {}, phase = "up"
               PROVE  /\ \A f \in Ahead(store)' \ unarmed :
                            \E tm \in timers : tm.ev = f /\ tm.no = slot[f] /\ tm.at = store'.events[f].sched
                      /\ \A tm \in timers : tm.no = slot[tm.ev] /\ tm.at = store'.events[tm.ev].sched
    BY <1>1 DEF TimersFollowSchedule, ScheduledArmed, TimersScheduled
  <2>1. \A f \in Ids : store'.events[f].sched = store.events[f].sched
    BY <1>3, <1>4, <1>7
  <2>2. Ahead(store)' = Ahead(store)
    BY <1>1, <2>1 DEF Ahead
  <2>3. \A tm \in timers : tm.ev \in Ids
    BY DEF IInv, Typed, TimersTyped, Timer
  <2> QED
    BY <1>1, <2>1, <2>2, <2>3 DEF IInv, TimersFollowSchedule, ScheduledArmed, TimersScheduled, Ahead
<1>9. ClockTyped'
  BY <1>1, <1>2, <1>5, RequestTyped
<1>10. TimersNumbered' /\ CallbacksSound'
  <2>1. \A tm \in timers : Sound(tm.copy, ids')
    BY <1>2, <1>5, SoundGrows DEF IInv, TimersNumbered
  <2>2. \A cb \in Callbacks : th[cb].pc \in {"clear", "copy"} => Sound(th[cb].copy, ids')
    BY <1>2, <1>5, SoundGrows DEF IInv, CallbacksSound
  <2>3. \A cb \in Callbacks : th[cb].pc = "schedule" => th[cb].ev \in Nat /\ th[cb].ev <= ids'
    <3> TAKE cb \in Callbacks
    <3>1. th[cb].pc = "schedule" => th[cb].ev \in Nat /\ th[cb].ev <= ids
      BY Bounds, CallbackTypes DEF IInv, Typed, CallbacksSound
    <3> QED
      BY <1>2, <1>5, <3>1
  <2>4. TimersNumbered'
    BY <1>1, <2>1 DEF IInv, TimersNumbered
  <2>5. CallbacksSound'
    BY <1>1, <2>2, <2>3 DEF IInv, CallbacksSound
  <2> QED
    BY <2>4, <2>5
<1> QED
  BY <1>1, <1>7, <1>8, <1>9, <1>10, Framed DEF IInv, Typed

LEMMA ChangePreserves ==
    ASSUME IInv, Change
    PROVE  IInv'
<1>1. /\ ScheduleRequest /\ UNCHANGED <<now, phase, timers, slot, made, ids, th, unarmed, disturbed, boots>>
      /\ store' = [store EXCEPT !.saved = @ \cup {calls'}] /\ asked' = [asked EXCEPT !.saved = @ \cup {calls'}]
  BY DEF Change
<1>2. calls' \in 1..MaxCalls /\ ids \in Ids
  BY <1>1, Bounds DEF ScheduleRequest, IInv, Typed, ClockTyped
<1>3. store \in Championship /\ asked \in Championship
  BY DEF IInv, Typed, StoreTyped
<1>4. /\ store' \in Championship /\ store'.events = store.events /\ store'.saved = store.saved \union {calls'}
      /\ asked' \in Championship /\ asked'.events = asked.events /\ asked'.saved = asked.saved \union {calls'}
  BY <1>1, <1>2, <1>3 DEF Championship
<1>5. StoreTyped' /\ Sound(store, ids)'
  BY <1>1, <1>4 DEF StoreTyped, IInv, Sound
<1>6. Behind'
  BY <1>1, <1>4 DEF IInv, Behind, Pending, NextOccurrence
<1>7. TimersFollowSchedule'
  BY <1>1, <1>4 DEF IInv, TimersFollowSchedule, ScheduledArmed, TimersScheduled, Ahead
<1>8. ClockTyped'
  BY <1>1, <1>2, RequestTyped
<1> QED
  BY <1>1, <1>5, <1>6, <1>7, <1>8, Framed DEF IInv, Typed

----------------------------------------------------------------------------
(* Every action preserves the invariant: callbacks of timers               *)

LEMMA FirePreserves ==
    ASSUME IInv, NEW cb \in Callbacks, Fire(cb)
    PROVE  IInv'
<1>1. /\ phase = "up" /\ th[cb] = Idle
      /\ UNCHANGED <<now, phase, store, slot, made, ids, asked, unarmed, disturbed, calls, boots>>
  BY DEF Fire
<1>2. PICK tm \in timers :
          /\ tm.at <= now /\ timers' = timers \ {tm}
          /\ Become(cb, [pc |-> IF tm.copy.events[tm.ev].recur THEN "copy" ELSE "clear",
                         ev |-> tm.ev, at |-> tm.at, copy |-> tm.copy])
  BY DEF Fire
<1> DEFINE s == [pc |-> IF tm.copy.events[tm.ev].recur THEN "copy" ELSE "clear",
                 ev |-> tm.ev, at |-> tm.at, copy |-> tm.copy]
<1>3. tm \in Timer
  BY DEF IInv, Typed, TimersTyped
<1>4. tm.ev \in Ids /\ tm.at \in Nat /\ tm.at # 0 /\ Sound(tm.copy, ids) /\ tm.at \in Time /\ tm.copy \in Championship
  BY <1>3, Bounds DEF Timer, IInv, TimersNumbered
<1>5. /\ s.pc \in {"clear", "copy"} /\ s.ev = tm.ev /\ s.at = tm.at /\ s.copy = tm.copy
      /\ s.pc = "copy" => tm.copy.events[tm.ev].recur
  OBVIOUS
<1>6. s \in Starting
  BY <1>4 DEF Starting
<1> HIDE DEF s
<1>7. Moves(cb, s)
  <2>1. Become(cb, s)
    BY <1>2 DEF s
  <2> QED
    BY <1>6, <2>1, CallbackMoves DEF IInv, Typed
<1>8. \A c \in Callbacks : th'[c].pc = "schedule" \/ th[c].pc = "schedule" => c # cb /\ th'[c] = th[c]
  BY <1>1, <1>5, <1>7 DEF Moves, Idle
<1>9. CallbacksTyped'
  BY <1>7 DEF Moves, CallbacksTyped
<1>10. TimersTyped' /\ TimersNumbered' /\ DownSound'
  BY <1>1, <1>2 DEF IInv, Typed, TimersTyped, TimersNumbered, DownSound, Sound
<1>11. CallbacksSound'
  <2>1. \A c \in Callbacks \ {cb} : th'[c] = th[c]
    BY <1>7 DEF Moves
  <2>2. th'[cb] = s
    BY <1>7 DEF Moves
  <2>3. Sound(s.copy, ids')
    BY <1>1, <1>4, <1>5
  <2>4. /\ th'[cb].pc # "idle" => th'[cb].at # 0 /\ th'[cb].at <= now'
        /\ th'[cb].pc \in {"clear", "copy"} => Sound(th'[cb].copy, ids')
        /\ th'[cb].pc = "copy" => th'[cb].copy.events[th'[cb].ev].recur
        /\ th'[cb].pc = "schedule" => th'[cb].ev <= ids'
    BY <1>1, <1>2, <1>4, <1>5, <2>2, <2>3
  <2>5. \A c \in Callbacks \ {cb} :
        /\ th'[c].pc # "idle" => th'[c].at # 0 /\ th'[c].at <= now'
        /\ th'[c].pc \in {"clear", "copy"} => Sound(th'[c].copy, ids')
        /\ th'[c].pc = "copy" => th'[c].copy.events[th'[c].ev].recur
        /\ th'[c].pc = "schedule" => th'[c].ev <= ids'
    BY <1>1, <2>1 DEF IInv, CallbacksSound
  <2>6. \A c \in Callbacks :
        /\ th'[c].pc # "idle" => th'[c].at # 0 /\ th'[c].at <= now'
        /\ th'[c].pc \in {"clear", "copy"} => Sound(th'[c].copy, ids')
        /\ th'[c].pc = "copy" => th'[c].copy.events[th'[c].ev].recur
        /\ th'[c].pc = "schedule" => th'[c].ev <= ids'
    BY <2>4, <2>5
  <2> QED
    BY <2>6 DEF CallbacksSound
<1>12. CopiesDiffer'
  BY <1>8 DEF IInv, CopiesDiffer
<1>13. FiredOnce'
  <2> SUFFICES ASSUME disturbed = {}, NEW c \in Callbacks, th'[c].pc = "clear",
                      NEW other \in timers', other.ev = th'[c].ev
               PROVE  other.at # th'[c].at
    BY <1>1 DEF FiredOnce
  <2>1. CASE c = cb
    <3>1. other \in timers /\ other # tm /\ other.ev = tm.ev
      BY <1>2, <1>5, <1>7, <2>1 DEF Moves
    <3>2. other.no = slot[tm.ev] /\ tm.no = slot[tm.ev]
      BY <1>1, <3>1 DEF IInv, TimersFollowSchedule, TimersScheduled
    <3> QED
      BY <3>1, <3>2 DEF IInv, TimersNumbered
  <2>2. CASE c # cb
    BY <1>2, <1>7, <2>2 DEF Moves, IInv, FiredOnce
  <2> QED
    BY <2>1, <2>2
<1>14. Behind'
  <2>1. \A c \in Callbacks : Pending(c)' <=> Pending(c)
    BY <1>1, <1>8 DEF Pending
  <2>2. \A c \in Callbacks : Pending(c) => th'[c] = th[c]
    BY <1>8 DEF Pending
  <2>3. \A d \in Time : NextOccurrence(d)' = NextOccurrence(d)
    BY <1>1 DEF NextOccurrence
  <2>4. \A c \in Callbacks : Pending(c) => th[c].at \in Time
    BY CallbackTypes DEF Pending, IInv, Typed
  <2> SUFFICES ASSUME disturbed = {}
               PROVE  /\ store.saved = asked.saved
                      /\ \A e \in Ids : (\A c \in Callbacks : Pending(c)' => th'[c].ev # e) =>
                            store.events[e] = asked.events[e]
                      /\ \A c \in Callbacks : Pending(c)' =>
                            /\ store.events[th'[c].ev] = [sched |-> th'[c].at, recur |-> TRUE, in |-> TRUE]
                            /\ asked.events[th'[c].ev]
                                  = [sched |-> NextOccurrence(th'[c].at), recur |-> TRUE, in |-> TRUE]
    BY <1>1 DEF Behind, NextOccurrence
  <2> QED
    BY <2>1, <2>2 DEF IInv, Behind
<1>15. TimersFollowSchedule'
  <2> SUFFICES ASSUME disturbed = {}
               PROVE  /\ \A e \in Ahead(store) \ unarmed :
                            \E t \in timers' : t.ev = e /\ t.no = slot[e] /\ t.at = store.events[e].sched
                      /\ \A t \in timers' : t.no = slot[t.ev] /\ t.at = store.events[t.ev].sched
    BY <1>1 DEF TimersFollowSchedule, ScheduledArmed, TimersScheduled, Ahead
  <2>1. /\ \A e \in Ahead(store) \ unarmed :
              \E t \in timers : t.ev = e /\ t.no = slot[e] /\ t.at = store.events[e].sched
        /\ \A t \in timers : t.no = slot[t.ev] /\ t.at = store.events[t.ev].sched
    BY <1>1 DEF IInv, TimersFollowSchedule, ScheduledArmed, TimersScheduled
  <2>2. \A e \in Ahead(store) : ~(store.events[e].sched <= now)
    <3>1. \A e \in Ahead(store) : e \in Ids /\ store.events[e].sched \in Nat /\ store.events[e].sched > now
      BY ChampionshipEvents, Bounds DEF Ahead, IInv, Typed, StoreTyped
    <3>2. now \in Nat
      BY Bounds DEF IInv, Typed, ClockTyped
    <3> QED
      BY <3>1, <3>2
  <2>3. \A e \in Ahead(store) \ unarmed :
              \E t \in timers' : t.ev = e /\ t.no = slot[e] /\ t.at = store.events[e].sched
    <3> TAKE e \in Ahead(store) \ unarmed
    <3>1. PICK t \in timers : t.ev = e /\ t.no = slot[e] /\ t.at = store.events[e].sched
      BY <2>1
    <3>2. t # tm
      BY <1>2, <2>2, <3>1
    <3> QED
      BY <1>2, <3>1, <3>2
  <2> QED
    BY <1>2, <2>1, <2>3
<1> QED
  BY <1>1, <1>9, <1>10, <1>11, <1>12, <1>13, <1>14, <1>15, Framed DEF IInv, Typed
\* A callback that is doing something runs in a Server Manager that is up.
LEMMA CallbackRuns ==
    ASSUME IInv, NEW cb \in Callbacks, th[cb].pc # "idle"
    PROVE  /\ phase = "up" /\ th[cb].ev \in Ids /\ th[cb].at \in Time /\ th[cb].at \in Nat
           /\ th[cb].at # 0 /\ th[cb].at <= now /\ now \in Nat /\ now \in Time
<1>1. phase = "up"
  BY DEF IInv, DownSound, Typed, ClockTyped, Idle
<1>2. th[cb].ev \in Ids /\ th[cb].at \in Time /\ th[cb].at # 0 /\ th[cb].at <= now
  BY CallbackTypes DEF IInv, Typed, CallbacksSound
<1> QED
  BY <1>1, <1>2, Bounds DEF IInv, Typed, ClockTyped

\* An event with a schedule is one of the championship.
LEMMA ScheduledIsIn ==
    ASSUME NEW c \in Championship, NEW n \in Nat, Sound(c, n), NEW e \in Ids, c.events[e].sched # 0
    PROVE  c.events[e].in /\ ~(e > n)
BY EventsTyped DEF Sound

\* The schedule of an event of the championship is cleared.
Cleared(c, e) == IF c.events[e].in THEN SetSchedule(c, e, 0, c.events[e].recur) ELSE c

LEMMA ClearedEvent ==
    ASSUME NEW c \in Championship, NEW e \in Ids
    PROVE  LET d == Cleared(c, e)
           IN  /\ d \in Championship /\ d.saved = c.saved
               /\ \A f \in Ids \ {e} : d.events[f] = c.events[f]
               /\ c.events[e].in => d.events[e] = [sched |-> 0, recur |-> c.events[e].recur, in |-> TRUE]
               /\ ~c.events[e].in => d.events[e] = c.events[e]
<1> DEFINE ev == [sched |-> 0, recur |-> c.events[e].recur, in |-> TRUE]
<1>1. ev \in Event
  BY ChampionshipEvents, Bounds DEF Event
<1>2. CASE c.events[e].in
  <2>1. Cleared(c, e) = SetEvent(c, e, ev)
    BY <1>2 DEF Cleared, SetSchedule
  <2> HIDE DEF ev
  <2>2. LET d == SetEvent(c, e, ev)
        IN  d \in Championship /\ d.saved = c.saved /\ d.events[e] = ev /\ \A f \in Ids \ {e} : d.events[f] = c.events[f]
    BY <1>1, SetEventSets
  <2> QED
    BY <1>2, <2>1, <2>2 DEF ev
<1>3. CASE ~c.events[e].in
  BY <1>3 DEF Cleared
<1> QED
  BY <1>2, <1>3

LEMMA ClearPreserves ==
    ASSUME IInv, NEW cb \in Callbacks, Clear(cb)
    PROVE  IInv'
<1> DEFINE e == th[cb].ev
           at == th[cb].at
<1>1. /\ th[cb].pc = "clear" /\ store' = Cleared(store, e) /\ asked' = Cleared(asked, e)
      /\ disturbed' = disturbed \cup Overtaken(cb) /\ Become(cb, Idle)
      /\ UNCHANGED <<now, phase, timers, slot, made, ids, unarmed, calls, boots>>
  BY DEF Clear, Cleared
<1>2. /\ phase = "up" /\ e \in Ids /\ at \in Time /\ at \in Nat /\ at # 0 /\ at <= now /\ now \in Nat
  BY <1>1, CallbackRuns
<1>3. Moves(cb, Idle)
  BY <1>1, CallbackMoves DEF IInv, Typed, Waiting
<1>4. CallbacksTyped' /\ HistoryTyped' /\ DownSound' /\ CopiesDiffer' /\ CallbacksSound' /\ FiredOnce'
  <2>1. CallbacksTyped' /\ HistoryTyped' /\ DownSound' /\ CopiesDiffer'
    BY <1>1, <1>2, <1>3 DEF IInv, Typed, Moves, CallbacksTyped, HistoryTyped, Overtaken, DownSound, CopiesDiffer, Idle
  <2>2. CallbacksSound'
    BY <1>1, <1>3 DEF IInv, CallbacksSound, Moves, Idle, Sound
  <2>3. FiredOnce'
    BY <1>1, <1>3 DEF IInv, FiredOnce, Moves, Idle
  <2> QED
    BY <2>1, <2>2, <2>3
<1>5. store \in Championship /\ asked \in Championship
  BY DEF IInv, Typed, StoreTyped
<1>6. /\ store' \in Championship /\ store'.saved = store.saved
      /\ \A f \in Ids \ {e} : store'.events[f] = store.events[f]
      /\ store.events[e].in => store'.events[e] = [sched |-> 0, recur |-> store.events[e].recur, in |-> TRUE]
      /\ ~store.events[e].in => store'.events[e] = store.events[e]
  BY <1>1, <1>2, <1>5, ClearedEvent
<1>7. /\ asked' \in Championship /\ asked'.saved = asked.saved
      /\ \A f \in Ids \ {e} : asked'.events[f] = asked.events[f]
      /\ asked.events[e].in => asked'.events[e] = [sched |-> 0, recur |-> asked.events[e].recur, in |-> TRUE]
      /\ ~asked.events[e].in => asked'.events[e] = asked.events[e]
  BY <1>1, <1>2, <1>5, ClearedEvent
<1>8. StoreTyped' /\ Sound(store, ids)'
  <2>1. ids \in Nat
    BY Bounds DEF IInv, Typed, ClockTyped
  <2>2. store.events[e].in => ~(e > ids)
    BY <1>2, EventsTyped DEF IInv, Sound
  <2>3. Sound(store, ids)'
    BY <1>1, <1>2, <1>6, <2>2 DEF IInv, Sound
  <2> QED
    BY <1>6, <1>7, <2>3 DEF StoreTyped
<1> HIDE DEF e, at
<1>9. disturbed' = {} =>
        /\ disturbed = {} /\ store.events[e].sched = at /\ store.events[e].in
        /\ store'.events[e] = [sched |-> 0, recur |-> store.events[e].recur, in |-> TRUE]
        /\ \A tm \in timers : tm.ev # e
  <2> SUFFICES ASSUME disturbed' = {}
               PROVE  /\ disturbed = {} /\ store.events[e].sched = at /\ store.events[e].in
                      /\ \A tm \in timers : tm.ev # e
    BY <1>6
  <2>1. disturbed = {} /\ store.events[e].sched = at
    BY <1>1 DEF Overtaken, e, at
  <2>2. store.events[e].in
    BY <1>2, <2>1, EventsTyped DEF IInv, Sound
  <2>3. \A tm \in timers : tm.ev # e
    <3>1. \A tm \in timers : tm.at = store.events[tm.ev].sched
      BY <1>2, <2>1 DEF IInv, TimersFollowSchedule, TimersScheduled
    <3>2. \A tm \in timers : tm.ev = e => tm.at # at
      BY <1>1, <2>1 DEF IInv, FiredOnce, e, at
    <3> QED
      BY <2>1, <3>1, <3>2
  <2> QED
    BY <2>1, <2>2, <2>3
<1>10. TimersFollowSchedule'
  <2> SUFFICES ASSUME disturbed' = {}
               PROVE  /\ \A f \in Ahead(store)' \ unarmed :
                            \E tm \in timers : tm.ev = f /\ tm.no = slot[f] /\ tm.at = store'.events[f].sched
                      /\ \A tm \in timers : tm.no = slot[tm.ev] /\ tm.at = store'.events[tm.ev].sched
    BY <1>1 DEF TimersFollowSchedule, ScheduledArmed, TimersScheduled
  <2>1. /\ \A f \in Ahead(store) \ unarmed :
              \E tm \in timers : tm.ev = f /\ tm.no = slot[f] /\ tm.at = store.events[f].sched
        /\ \A tm \in timers : tm.no = slot[tm.ev] /\ tm.at = store.events[tm.ev].sched
    BY <1>2, <1>9 DEF IInv, TimersFollowSchedule, ScheduledArmed, TimersScheduled
  <2>2. \A tm \in timers : tm.ev \in Ids \ {e}
    BY <1>9 DEF IInv, Typed, TimersTyped, Timer
  <2>3. ~(0 > now)
    BY <1>2
  <2>4. \A f \in Ahead(store)' : f \in Ahead(store) /\ f \in Ids \ {e}
    BY <1>1, <1>6, <1>9, <2>3 DEF Ahead
  <2> QED
    BY <1>6, <2>1, <2>2, <2>4
<1>11. Behind'
  <2> SUFFICES ASSUME disturbed' = {}
               PROVE  /\ store'.saved = asked'.saved
                      /\ \A f \in Ids : (\A c \in Callbacks : Pending(c)' => th'[c].ev # f) =>
                            store'.events[f] = asked'.events[f]
                      /\ \A c \in Callbacks : Pending(c)' =>
                            /\ store'.events[th'[c].ev] = [sched |-> th'[c].at, recur |-> TRUE, in |-> TRUE]
                            /\ asked'.events[th'[c].ev]
                                  = [sched |-> NextOccurrence(th'[c].at), recur |-> TRUE, in |-> TRUE]
    BY <1>1 DEF Behind, NextOccurrence
  <2>1. /\ store.saved = asked.saved
        /\ \A f \in Ids : (\A c \in Callbacks : Pending(c) => th[c].ev # f) => store.events[f] = asked.events[f]
        /\ \A c \in Callbacks : Pending(c) =>
              /\ store.events[th[c].ev] = [sched |-> th[c].at, recur |-> TRUE, in |-> TRUE]
              /\ asked.events[th[c].ev] = [sched |-> NextOccurrence(th[c].at), recur |-> TRUE, in |-> TRUE]
    BY <1>9 DEF IInv, Behind
  <2>2. \A c \in Callbacks : th'[c].pc = "schedule" \/ th[c].pc = "schedule" => th'[c] = th[c] /\ th[c].pc = "schedule"
    BY <1>1, <1>3 DEF Moves, Idle
  <2>3. \A c \in Callbacks : th[c].pc = "schedule" => th[c].ev \in Ids /\ th[c].at # 0
    BY CallbackRuns
  <2>4. \A c \in Callbacks : Pending(c)' <=> Pending(c) /\ th[c].ev # e
    <3> TAKE c \in Callbacks
    <3>1. CASE th[c].pc = "schedule"
      <4>1. CASE th[c].ev = e
        BY <1>9, <2>2, <2>3, <3>1, <4>1 DEF Pending
      <4>2. CASE th[c].ev # e
        BY <1>6, <2>2, <2>3, <3>1, <4>2 DEF Pending
      <4> QED
        BY <4>1, <4>2
    <3>2. CASE th[c].pc # "schedule"
      BY <2>2, <3>2 DEF Pending
    <3> QED
      BY <3>1, <3>2
  <2>5. \A c \in Callbacks : Pending(c)' => th'[c] = th[c] /\ th[c].ev \in Ids \ {e}
    BY <2>2, <2>3, <2>4 DEF Pending
  <2>6. \A f \in Ids \ {e} : (\A c \in Callbacks : Pending(c)' => th'[c].ev # f) => store'.events[f] = asked'.events[f]
    BY <1>6, <1>7, <2>1, <2>4, <2>5
  <2>7. store'.events[e] = asked'.events[e]
    <3>1. store.events[e].recur = asked.events[e].recur /\ store.events[e].in = asked.events[e].in
      <4>1. CASE \E c \in Callbacks : Pending(c) /\ th[c].ev = e
        <5>1. PICK c \in Callbacks : Pending(c) /\ th[c].ev = e
          BY <4>1
        <5>2. /\ store.events[e] = [sched |-> th[c].at, recur |-> TRUE, in |-> TRUE]
              /\ asked.events[e] = [sched |-> NextOccurrence(th[c].at), recur |-> TRUE, in |-> TRUE]
          BY <2>1, <5>1
        <5> QED
          BY <5>2
      <4>2. CASE \A c \in Callbacks : Pending(c) => th[c].ev # e
        BY <1>2, <2>1, <4>2
      <4> QED
        BY <4>1, <4>2
    <3> QED
      BY <1>6, <1>7, <1>9, <3>1
  <2>8. \A c \in Callbacks : Pending(c)' =>
              /\ store'.events[th'[c].ev] = [sched |-> th'[c].at, recur |-> TRUE, in |-> TRUE]
              /\ asked'.events[th'[c].ev] = [sched |-> NextOccurrence(th'[c].at), recur |-> TRUE, in |-> TRUE]
    BY <1>6, <1>7, <2>1, <2>4, <2>5
  <2> QED
    BY <1>6, <1>7, <2>1, <2>6, <2>7, <2>8
<1> QED
  BY <1>1, <1>4, <1>8, <1>10, <1>11, Framed DEF IInv, Typed

LEMMA CopyEventPreserves ==
    ASSUME IInv, NEW cb \in Callbacks, CopyEvent(cb)
    PROVE  IInv'
<1> DEFINE copy == th[cb].copy
           at == th[cb].at
           ev == copy.events[th[cb].ev]
           n == ids + 1
           s == [pc |-> "schedule", ev |-> n, at |-> at]
<1>1. /\ th[cb].pc = "copy" /\ ids < MaxEvents /\ ids' = n
      /\ store' = SetEvent(copy, n, ev) /\ asked' = SetSchedule(asked, n, NextOccurrence(ev.sched), TRUE)
      /\ disturbed' = disturbed \cup Overtaken(cb) \cup (IF store = copy THEN {} ELSE {"outdated"})
      /\ Become(cb, s)
      /\ UNCHANGED <<now, phase, timers, slot, made, unarmed, calls, boots>>
  BY DEF CopyEvent
<1>2. /\ phase = "up" /\ th[cb].ev \in Ids /\ at \in Time /\ at \in Nat /\ at # 0 /\ at <= now
      /\ now \in Nat /\ now \in Time
  BY <1>1, CallbackRuns
<1>3. copy \in Championship /\ Sound(copy, ids) /\ ev.recur
  BY <1>1, CallbackTypes DEF IInv, Typed, CallbacksSound
<1>4. ev \in Event /\ ev.sched \in Time /\ ev = [sched |-> ev.sched, recur |-> ev.recur, in |-> ev.in] /\ ev.in \in BOOLEAN
  BY <1>2, <1>3, ChampionshipEvents
<1>5. ids \in Nat /\ n \in Ids /\ n \in Nat /\ n > ids
  BY <1>1, Bounds DEF IInv, Typed, ClockTyped, Ids
<1>6. ev.in
  BY <1>2, <1>3 DEF Sound, NoChampionshipEvent
<1>7. s \in Copying /\ s.pc = "schedule" /\ s.ev = n /\ s.at = at
  BY <1>2, <1>5 DEF Copying
<1> HIDE DEF s
<1>8. Moves(cb, s)
  BY <1>1, <1>7, CallbackMoves DEF IInv, Typed
<1> HIDE DEF n
<1> DEFINE next == [sched |-> NextOccurrence(ev.sched), recur |-> TRUE, in |-> TRUE]
<1>9. next \in Event
  BY <1>2, <1>4, NextIsLater DEF Event
<1>10. asked' = SetEvent(asked, n, next)
  BY <1>1 DEF SetSchedule
<1> HIDE DEF next
<1> HIDE DEF ev
<1>11. /\ store' \in Championship /\ store'.saved = copy.saved /\ store'.events[n] = ev
       /\ \A f \in Ids \ {n} : store'.events[f] = copy.events[f]
  <2>1. LET d == SetEvent(copy, n, ev)
        IN  d \in Championship /\ d.saved = copy.saved /\ d.events[n] = ev /\ \A f \in Ids \ {n} : d.events[f] = copy.events[f]
    BY <1>3, <1>4, <1>5, SetEventSets
  <2> QED
    BY <1>1, <2>1
<1>12. /\ asked' \in Championship /\ asked'.saved = asked.saved /\ asked'.events[n] = next
       /\ \A f \in Ids \ {n} : asked'.events[f] = asked.events[f]
  BY <1>9, <1>10, <1>5, SetEventSets DEF IInv, Typed, StoreTyped
<1>13. StoreTyped' /\ Sound(store, ids)'
  <2>1. Sound(copy, n)
    BY <1>3, <1>5, SoundGrows
  <2>2. ~(n > n)
    BY <1>5
  <2>3. Sound(store', n)
    BY <1>6, <1>11, <2>1, <2>2 DEF Sound
  <2>4. Sound(store', ids')
    BY <1>1, <2>3
  <2> QED
    BY <1>11, <1>12, <2>4 DEF StoreTyped, Sound
<1>14. ClockTyped' /\ CallbacksTyped' /\ HistoryTyped' /\ DownSound'
  BY <1>1, <1>2, <1>5, <1>8 DEF IInv, Typed, ClockTyped, Moves, CallbacksTyped, HistoryTyped, Overtaken, DownSound
<1>15. TimersNumbered'
  <2>1. \A tm \in timers : Sound(tm.copy, n)
    BY <1>5, SoundGrows DEF IInv, TimersNumbered
  <2> QED
    BY <1>1, <2>1 DEF IInv, TimersNumbered
<1>16. \A c \in Callbacks : th[c].pc = "schedule" => th[c].ev \in Ids \ {n} /\ ~(th[c].ev > n)
  <2> TAKE c \in Callbacks
  <2>1. th[c].pc = "schedule" => th[c].ev \in Ids /\ th[c].ev \in Nat /\ th[c].ev <= ids
    BY Bounds, CallbackTypes DEF IInv, Typed, CallbacksSound
  <2> QED
    BY <1>5, <2>1
<1>17. \A c \in Callbacks \ {cb} : th'[c] = th[c]
  BY <1>8 DEF Moves
<1>18. th'[cb] = s
  BY <1>8 DEF Moves
<1>19. CallbacksSound'
  <2>1. \A c \in Callbacks : th[c].pc \in {"clear", "copy"} => Sound(th[c].copy, n)
    BY <1>5, SoundGrows DEF IInv, CallbacksSound
  <2>2. \A c \in Callbacks : th[c].pc = "schedule" => th[c].ev <= n
    <3> TAKE c \in Callbacks
    <3>1. th[c].pc = "schedule" => th[c].ev \in Nat /\ ~(th[c].ev > n)
      BY <1>16, Bounds
    <3> QED
      BY <1>5, <3>1
  <2>3. n <= n
    BY <1>5
  <2>4. \A c \in Callbacks \ {cb} :
        /\ th[c].pc # "idle" => th[c].at # 0 /\ th[c].at <= now
        /\ th[c].pc = "copy" => th[c].copy.events[th[c].ev].recur
    BY DEF IInv, CallbacksSound
  <2> SUFFICES ASSUME NEW c \in Callbacks
               PROVE  /\ th'[c].pc # "idle" => th'[c].at # 0 /\ th'[c].at <= now
                      /\ th'[c].pc \in {"clear", "copy"} => Sound(th'[c].copy, n)
                      /\ th'[c].pc = "copy" => th'[c].copy.events[th'[c].ev].recur
                      /\ th'[c].pc = "schedule" => th'[c].ev <= n
    BY <1>1 DEF CallbacksSound
  <2>5. CASE c = cb
    BY <1>2, <1>7, <1>18, <2>3, <2>5
  <2>6. CASE c # cb
    BY <1>17, <2>1, <2>2, <2>4, <2>6
  <2> QED
    BY <2>5, <2>6
<1>20. CopiesDiffer'
  BY <1>7, <1>16, <1>17, <1>18 DEF IInv, CopiesDiffer
<1>21. FiredOnce'
  <2>1. \A c \in Callbacks : th'[c].pc = "clear" => th'[c] = th[c]
    BY <1>7, <1>17, <1>18
  <2>2. disturbed' = {} => disturbed = {}
    BY <1>1
  <2> QED
    BY <1>1, <2>1, <2>2 DEF IInv, FiredOnce
<1>22. disturbed' = {} => disturbed = {} /\ store = copy /\ ev = [sched |-> at, recur |-> TRUE, in |-> TRUE]
  <2> SUFFICES ASSUME disturbed' = {}
               PROVE  disturbed = {} /\ store = copy /\ ev.sched = at
    <3>1. ev.recur = TRUE /\ ev.in = TRUE
      <4>1. ev.recur \in BOOLEAN
        BY <1>4 DEF Event
      <4> QED
        BY <1>3, <1>4, <1>6, <4>1
    <3> QED
      BY <1>4, <3>1
  <2>1. Overtaken(cb) = {} /\ disturbed = {} /\ store = copy
    BY <1>1
  <2>2. store.events[th[cb].ev].sched = th[cb].at
    BY <2>1 DEF Overtaken
  <2> QED
    BY <2>1, <2>2 DEF ev
<1> HIDE DEF copy, at
<1>23. TimersFollowSchedule'
  <2> SUFFICES ASSUME disturbed' = {}
               PROVE  /\ \A f \in Ahead(store)' \ unarmed :
                            \E tm \in timers : tm.ev = f /\ tm.no = slot[f] /\ tm.at = store'.events[f].sched
                      /\ \A tm \in timers : tm.no = slot[tm.ev] /\ tm.at = store'.events[tm.ev].sched
    BY <1>1 DEF TimersFollowSchedule, ScheduledArmed, TimersScheduled
  <2>1. /\ \A f \in Ahead(store) \ unarmed :
              \E tm \in timers : tm.ev = f /\ tm.no = slot[f] /\ tm.at = store.events[f].sched
        /\ \A tm \in timers : tm.no = slot[tm.ev] /\ tm.at = store.events[tm.ev].sched
    BY <1>2, <1>22 DEF IInv, TimersFollowSchedule, ScheduledArmed, TimersScheduled
  <2>2. store.events[n].sched = 0
    BY <1>5, EventsTyped DEF IInv, Sound
  <2>3. \A tm \in timers : tm.ev \in Ids \ {n}
    BY <2>1, <2>2 DEF IInv, Typed, TimersTyped, Timer, TimersNumbered
  <2>4. ~(at > now)
    BY <1>2
  <2>5. ev.sched = at /\ store = copy
    BY <1>22
  <2>6. \A f \in Ahead(store)' : f \in Ahead(store) /\ f \in Ids \ {n}
    BY <1>1, <1>11, <2>4, <2>5 DEF Ahead
  <2> QED
    BY <1>11, <2>1, <2>3, <2>5, <2>6
<1>24. Behind'
  <2> SUFFICES ASSUME disturbed' = {}
               PROVE  /\ store'.saved = asked'.saved
                      /\ \A f \in Ids : (\A c \in Callbacks : Pending(c)' => th'[c].ev # f) =>
                            store'.events[f] = asked'.events[f]
                      /\ \A c \in Callbacks : Pending(c)' =>
                            /\ store'.events[th'[c].ev] = [sched |-> th'[c].at, recur |-> TRUE, in |-> TRUE]
                            /\ asked'.events[th'[c].ev]
                                  = [sched |-> NextOccurrence(th'[c].at), recur |-> TRUE, in |-> TRUE]
    BY <1>1 DEF Behind, NextOccurrence
  <2>1. /\ store.saved = asked.saved
        /\ \A f \in Ids : (\A c \in Callbacks : Pending(c) => th[c].ev # f) => store.events[f] = asked.events[f]
        /\ \A c \in Callbacks : Pending(c) =>
              /\ store.events[th[c].ev] = [sched |-> th[c].at, recur |-> TRUE, in |-> TRUE]
              /\ asked.events[th[c].ev] = [sched |-> NextOccurrence(th[c].at), recur |-> TRUE, in |-> TRUE]
    BY <1>22 DEF IInv, Behind
  <2>2. store = copy /\ ev.sched = at /\ ev = [sched |-> at, recur |-> TRUE, in |-> TRUE]
    BY <1>22
  <2>3. Pending(cb)' /\ ~Pending(cb) /\ th'[cb].ev = n /\ th'[cb].at = at
    BY <1>1, <1>7, <1>11, <1>18, <2>2 DEF Pending
  <2>4. \A c \in Callbacks \ {cb} : Pending(c)' <=> Pending(c)
    BY <1>11, <1>16, <1>17, <2>2 DEF Pending
  <2>5. \A c \in Callbacks \ {cb} : Pending(c) => th[c].ev \in Ids \ {n}
    BY <1>16 DEF Pending
  <2>6. \A f \in Ids : (\A c \in Callbacks : Pending(c)' => th'[c].ev # f) => store'.events[f] = asked'.events[f]
    BY <1>11, <1>12, <1>17, <2>1, <2>2, <2>3, <2>4
  <2>7. \A c \in Callbacks \ {cb} : Pending(c)' =>
              /\ store'.events[th'[c].ev] = [sched |-> th'[c].at, recur |-> TRUE, in |-> TRUE]
              /\ asked'.events[th'[c].ev] = [sched |-> NextOccurrence(th'[c].at), recur |-> TRUE, in |-> TRUE]
    BY <1>11, <1>12, <1>17, <2>1, <2>2, <2>4, <2>5
  <2>8. /\ store'.events[n] = [sched |-> at, recur |-> TRUE, in |-> TRUE]
        /\ asked'.events[n] = [sched |-> NextOccurrence(at), recur |-> TRUE, in |-> TRUE]
    BY <1>11, <1>12, <2>2 DEF next
  <2>9. store'.saved = asked'.saved
    BY <1>11, <1>12, <2>1, <2>2
  <2> QED
    BY <2>3, <2>6, <2>7, <2>8, <2>9
<1> QED
  BY <1>1, <1>13, <1>14, <1>15, <1>19, <1>20, <1>21, <1>23, <1>24, Framed DEF IInv, Typed
LEMMA ScheduleCopyPreserves ==
    ASSUME IInv, NEW cb \in Callbacks, ScheduleCopy(cb)
    PROVE  IInv'
<1> DEFINE e == th[cb].ev
           at == th[cb].at
           next == NextOccurrence(at)
           ev == [sched |-> next, recur |-> store.events[e].recur, in |-> TRUE]
<1>1. /\ th[cb].pc = "schedule" /\ next # 0
      /\ store.events[e].in => store' = SetEvent(store, e, ev) /\ When(Stopped(e), e, next, store')
      /\ ~store.events[e].in => UNCHANGED <<store, timers, slot, made>>
      /\ disturbed' = disturbed \cup Overtaken(cb) /\ unarmed' = unarmed \ {e} /\ Become(cb, Idle)
      /\ UNCHANGED <<now, phase, ids, asked, calls, boots>>
  BY DEF ScheduleCopy, SetSchedule
<1>2. /\ phase = "up" /\ e \in Ids /\ at \in Time /\ at \in Nat /\ at # 0 /\ at <= now
      /\ now \in Nat /\ now \in Time
  BY <1>1, CallbackRuns
<1>3. next \in Time /\ next > now
  BY <1>1, <1>2, NextIsLater
<1>4. Moves(cb, Idle)
  BY <1>1, CallbackMoves DEF IInv, Typed, Waiting
<1>5. CallbacksTyped' /\ HistoryTyped' /\ CopiesDiffer' /\ CallbacksSound'
  <2>1. CallbacksTyped' /\ HistoryTyped' /\ CopiesDiffer'
    BY <1>1, <1>4 DEF IInv, Typed, Moves, CallbacksTyped, HistoryTyped, Overtaken, CopiesDiffer, Idle
  <2>2. CallbacksSound'
    BY <1>1, <1>4 DEF IInv, CallbacksSound, Moves, Idle, Sound
  <2> QED
    BY <2>1, <2>2
<1>6. store \in Championship /\ asked \in Championship /\ ids \in Nat
  BY Bounds DEF IInv, Typed, StoreTyped, ClockTyped
<1>7. disturbed' = {} => disturbed = {} /\ store.events[e].sched = at /\ store.events[e].in
  <2>1. disturbed' = {} => disturbed = {} /\ store.events[e].sched = at
    BY <1>1 DEF Overtaken
  <2> QED
    BY <1>2, <2>1, EventsTyped DEF IInv, Sound
<1>8. CASE ~store.events[e].in
  <2>1. disturbed' # {}
    BY <1>7, <1>8
  <2>2. FiredOnce' /\ Behind' /\ TimersFollowSchedule'
    BY <2>1 DEF FiredOnce, Behind, TimersFollowSchedule, ScheduledArmed, TimersScheduled
  <2>3. DownSound'
    BY <1>1, <1>2 DEF DownSound
  <2> QED
    BY <1>1, <1>5, <1>8, <2>2, <2>3, Framed DEF IInv, Typed
<1>9. CASE store.events[e].in
  <2>1. store' = SetEvent(store, e, ev) /\ When(Stopped(e), e, next, store')
    BY <1>1, <1>9
  <2>2. ev \in Event /\ ev.in /\ ev.sched = next /\ ev.recur = store.events[e].recur
    BY <1>2, <1>3, <1>6, ChampionshipEvents DEF Event
  <2> HIDE DEF ev
  <2>3. /\ store' \in Championship /\ store'.saved = store.saved /\ store'.events[e] = ev
        /\ \A f \in Ids \ {e} : store'.events[f] = store.events[f]
    BY <1>2, <1>6, <2>1, <2>2, SetEventSets
  <2>4. StoreTyped' /\ Sound(store, ids)'
    <3>1. e <= ids /\ e \in Nat
      BY <1>2, <1>9, KnownIsMade
    <3>2. ~(e > ids)
      BY <1>6, <3>1
    <3> QED
      BY <1>1, <1>2, <1>6, <2>2, <2>3, <3>2 DEF StoreTyped, IInv, Sound
  <2> HIDE DEF next
  <2>5. TimersTyped' /\ TimersNumbered' /\ FiredOnce' /\ DownSound' /\ TimersFollowSchedule'
    <3>1. \A c \in Callbacks : th'[c].pc = "clear" => th'[c] = th[c]
      BY <1>4 DEF Moves, Idle
    <3>2. ids' = ids /\ UNCHANGED <<phase, now>> /\ (disturbed' = {} => disturbed = {})
      BY <1>1, <1>7
    <3>3. store'.events[e].sched = next /\ unarmed' = unarmed \ {e}
      BY <1>1, <2>2, <2>3
    <3> HIDE DEF e
    <3> QED
      BY <1>2, <1>3, <2>1, <2>3, <2>4, <3>1, <3>2, <3>3, WhenMoves
  <2>6. Behind'
    <3> SUFFICES ASSUME disturbed' = {}
                 PROVE  /\ store'.saved = asked'.saved
                        /\ \A f \in Ids : (\A c \in Callbacks : Pending(c)' => th'[c].ev # f) =>
                              store'.events[f] = asked'.events[f]
                        /\ \A c \in Callbacks : Pending(c)' =>
                              /\ store'.events[th'[c].ev] = [sched |-> th'[c].at, recur |-> TRUE, in |-> TRUE]
                              /\ asked'.events[th'[c].ev]
                                    = [sched |-> NextOccurrence(th'[c].at), recur |-> TRUE, in |-> TRUE]
      BY <1>1 DEF Behind, NextOccurrence
    <3>1. /\ store.saved = asked.saved
          /\ \A f \in Ids : (\A c \in Callbacks : Pending(c) => th[c].ev # f) => store.events[f] = asked.events[f]
          /\ \A c \in Callbacks : Pending(c) =>
                /\ store.events[th[c].ev] = [sched |-> th[c].at, recur |-> TRUE, in |-> TRUE]
                /\ asked.events[th[c].ev] = [sched |-> NextOccurrence(th[c].at), recur |-> TRUE, in |-> TRUE]
      BY <1>7 DEF IInv, Behind
    <3>2. Pending(cb)
      BY <1>1, <1>7 DEF Pending
    <3>3. ~Pending(cb)'
      BY <1>4 DEF Pending, Moves, Idle
    <3>4. \A c \in Callbacks \ {cb} : th[c].pc = "schedule" => th[c].ev \in Ids \ {e}
      BY <1>1, CallbackRuns DEF IInv, CopiesDiffer
    <3>5. \A c \in Callbacks \ {cb} : Pending(c)' <=> Pending(c)
      BY <1>4, <2>3, <3>4 DEF Pending, Moves
    <3>6. /\ store.events[e] = [sched |-> at, recur |-> TRUE, in |-> TRUE]
          /\ asked.events[e] = [sched |-> next, recur |-> TRUE, in |-> TRUE]
      BY <3>1, <3>2 DEF next
    <3>7. store'.events[e] = asked'.events[e]
      <4>1. ev = [sched |-> next, recur |-> TRUE, in |-> TRUE]
        BY <3>6 DEF ev
      <4> QED
        BY <1>1, <2>3, <3>6, <4>1
    <3>8. \A f \in Ids \ {e} : (\A c \in Callbacks : Pending(c)' => th'[c].ev # f) => store'.events[f] = asked'.events[f]
      BY <1>1, <1>4, <2>3, <3>1, <3>5 DEF Moves
    <3>9. \A c \in Callbacks \ {cb} : Pending(c)' =>
                /\ store'.events[th'[c].ev] = [sched |-> th'[c].at, recur |-> TRUE, in |-> TRUE]
                /\ asked'.events[th'[c].ev] = [sched |-> NextOccurrence(th'[c].at), recur |-> TRUE, in |-> TRUE]
      <4> SUFFICES ASSUME NEW c \in Callbacks \ {cb}, Pending(c)'
                   PROVE  /\ store'.events[th'[c].ev] = [sched |-> th'[c].at, recur |-> TRUE, in |-> TRUE]
                          /\ asked'.events[th'[c].ev] = [sched |-> NextOccurrence(th'[c].at), recur |-> TRUE, in |-> TRUE]
        OBVIOUS
      <4>1. Pending(c) /\ th'[c] = th[c]
        BY <1>4, <3>5 DEF Moves
      <4>2. th[c].ev \in Ids \ {e}
        BY <3>4, <4>1 DEF Pending
      <4> QED
        BY <1>1, <2>3, <3>1, <4>1, <4>2
    <3>10. store'.saved = asked'.saved
      BY <1>1, <2>3, <3>1
    <3> QED
      BY <3>3, <3>7, <3>8, <3>9, <3>10
  <2> QED
    BY <1>1, <1>5, <2>4, <2>5, <2>6, Framed DEF IInv, Typed
<1> QED
  BY <1>8, <1>9

----------------------------------------------------------------------------
(* Every action preserves the invariant: Server Manager starts and ends    *)

LEMMA DownMoves ==
    ASSUME IInv, Down, made' = made
    PROVE  /\ \A cb \in Callbacks : th'[cb] = Idle /\ th'[cb].pc = "idle"
           /\ TimersTyped' /\ CallbacksTyped' /\ DownSound' /\ TimersNumbered' /\ CallbacksSound' /\ CopiesDiffer'
           /\ FiredOnce' /\ TimersFollowSchedule'
<1>1. \A cb \in Callbacks : th'[cb] = Idle /\ th'[cb].pc = "idle"
  BY DEF Down, Idle
<1>2. timers' = {} /\ slot' = [e \in Ids |-> 0] /\ phase' = "down"
  BY DEF Down
<1>3. TimersTyped' /\ CallbacksTyped'
  BY <1>2, Bounds DEF IInv, Typed, TimersTyped, CallbacksTyped, Down, Waiting
<1>4. DownSound' /\ TimersNumbered' /\ CallbacksSound' /\ CopiesDiffer' /\ FiredOnce'
  BY <1>1, <1>2 DEF DownSound, TimersNumbered, CallbacksSound, CopiesDiffer, FiredOnce
<1>5. TimersFollowSchedule'
  BY <1>2 DEF TimersFollowSchedule, ScheduledArmed, TimersScheduled
<1> QED
  BY <1>1, <1>3, <1>4, <1>5

LEMMA ExhaustedPreserves ==
    ASSUME IInv, NEW cb \in Callbacks, Exhausted(cb)
    PROVE  IInv'
<1>1. /\ Down /\ disturbed' = disturbed \cup {"halfway"}
      /\ UNCHANGED <<now, store, made, ids, asked, unarmed, calls, boots>>
  BY DEF Exhausted
<1>2. ClockTyped' /\ HistoryTyped'
  BY <1>1 DEF IInv, Typed, ClockTyped, HistoryTyped, Down
<1>3. Behind'
  BY <1>1 DEF Behind
<1> QED
  BY <1>1, <1>2, <1>3, DownMoves, Framed DEF IInv, Typed

LEMMA ExitPreserves ==
    ASSUME IInv, Exit
    PROVE  IInv'
<1>1. /\ Down
      /\ disturbed' = disturbed \cup (IF \E cb \in Callbacks : th[cb].pc = "schedule" THEN {"halfway"} ELSE {})
      /\ UNCHANGED <<now, store, made, ids, asked, unarmed, calls, boots>>
  BY DEF Exit
<1>2. ClockTyped' /\ HistoryTyped'
  BY <1>1 DEF IInv, Typed, ClockTyped, HistoryTyped, Down
<1>3. Behind'
  <2> SUFFICES ASSUME disturbed' = {}
               PROVE  /\ store.saved = asked.saved
                      /\ \A e \in Ids : store.events[e] = asked.events[e]
    <3>1. \A cb \in Callbacks : ~Pending(cb)'
      BY <1>1, DownMoves DEF Pending
    <3> QED
      BY <1>1, <3>1 DEF Behind
  <2>1. disturbed = {} /\ \A cb \in Callbacks : ~Pending(cb)
    BY <1>1 DEF Pending
  <2> QED
    BY <2>1 DEF IInv, Behind
<1> QED
  BY <1>1, <1>2, <1>3, DownMoves, Framed DEF IInv, Typed

\* Nobody is at work: the store is what it is meant to be.
LEMMA QuietIsSame ==
    ASSUME IInv, disturbed = {}, \A cb \in Callbacks : th[cb].pc # "schedule"
    PROVE  store = asked
<1>1. store \in Championship /\ asked \in Championship
  BY DEF IInv, Typed, StoreTyped
<1>2. store.saved = asked.saved /\ \A e \in Ids : store.events[e] = asked.events[e]
  BY DEF IInv, Behind, Pending
<1> QED
  BY <1>1, <1>2, SameChampionship

LEMMA BootPreserves ==
    ASSUME IInv, Boot
    PROVE  IInv'
<1>1. /\ phase = "down" /\ boots < MaxBoots /\ phase' = "up" /\ boots' = boots + 1
      /\ unarmed' = Ahead(store) \ {e \in Scheduled : e = First}
      /\ disturbed' = {}
      /\ UNCHANGED <<now, ids, th, calls>>
  BY DEF Boot
<1>2. timers = {} /\ \A cb \in Callbacks : th[cb] = Idle /\ th[cb].pc = "idle"
  BY <1>1 DEF IInv, DownSound, Idle
<1>3. store \in Championship /\ asked \in Championship /\ ids \in Nat /\ now \in Nat
  BY Bounds DEF IInv, Typed, StoreTyped, ClockTyped
<1>4. Scheduled # {} => First \in Scheduled /\ First \in Ids /\ store.events[First].sched # 0
  BY FirstIsScheduled DEF Scheduled
<1>5. /\ ClockTyped' /\ CallbacksTyped' /\ HistoryTyped' /\ DownSound' /\ CallbacksSound' /\ CopiesDiffer' /\ FiredOnce'
  <2>1. ClockTyped'
    BY <1>1, Bounds DEF IInv, Typed, ClockTyped
  <2>2. HistoryTyped' /\ DownSound'
    BY <1>1 DEF HistoryTyped, DownSound, Ahead
  <2>3. FiredOnce'
    BY <1>1, <1>2 DEF FiredOnce
  <2> QED
    BY <1>1, <2>1, <2>2, <2>3, Framed DEF IInv, Typed
<1>6. disturbed = {} => store = asked
  BY <1>2, QuietIsSame
<1>7. ASSUME store' \in Championship, Sound(store', ids), asked' = store'
      PROVE  StoreTyped' /\ Sound(store, ids)' /\ Behind'
  <2>1. \A cb \in Callbacks : ~Pending(cb)'
    BY <1>1, <1>2 DEF Pending
  <2> QED
    BY <1>1, <1>7, <2>1 DEF StoreTyped, Behind, Sound
<1>8. CASE Scheduled # {} /\ First \in Ahead(store)
  <2>1. store' = store /\ When({}, First, store.events[First].sched, store)
    BY <1>8 DEF Boot
  <2>2. asked' = store'
    BY <1>6, <2>1 DEF Boot
  <2>3. StoreTyped' /\ Sound(store, ids)' /\ Behind'
    BY <1>3, <1>7, <2>1, <2>2 DEF IInv
  <2> DEFINE new == [no |-> made + 1, ev |-> First, at |-> store.events[First].sched, copy |-> store]
  <2>4. /\ made \in 0..MaxTimers /\ made < MaxTimers /\ made' = made + 1
        /\ slot \in [Ids -> 0..MaxTimers] /\ slot' = [slot EXCEPT ![First] = made + 1]
        /\ timers' = {new} /\ store.events[First].sched \in Time /\ First \in Ids
        /\ store.events[First].sched # 0
    BY <1>3, <1>4, <1>8, <2>1, ChampionshipEvents DEF When, IInv, Typed, TimersTyped
  <2>5. new \in Timer /\ new.no = made + 1 /\ new.ev = First /\ new.at = store.events[First].sched /\ new.copy = store
    BY <1>3, <2>4, Bounds DEF Timer
  <2> HIDE DEF new
  <2>6. TimersTyped'
    BY <2>4, <2>5, Bounds DEF TimersTyped
  <2>7. TimersNumbered'
    <3>1. Sound(new.copy, ids') /\ new.no <= made' /\ new.at # 0
      <4>1. Sound(store, ids') /\ made + 1 <= made'
        BY <1>1, <2>4, Bounds DEF IInv, Sound
      <4> QED
        BY <2>4, <2>5, <4>1
    <3> QED
      BY <2>4, <3>1 DEF TimersNumbered
  <2>8. TimersFollowSchedule'
    <3>1. Ahead(store)' \ unarmed' \subseteq {First}
      BY <1>1, <2>1 DEF Ahead
    <3>2. new.no = slot'[First] /\ new.at = store'.events[First].sched /\ new.ev = First
      BY <2>1, <2>4, <2>5
    <3> QED
      BY <2>4, <3>1, <3>2 DEF TimersFollowSchedule, ScheduledArmed, TimersScheduled
  <2> QED
    BY <1>5, <2>3, <2>6, <2>7, <2>8 DEF IInv, Typed
<1>9. CASE ~(Scheduled # {} /\ First \in Ahead(store))
  <2> DEFINE ev == [sched |-> 0, recur |-> store.events[First].recur, in |-> TRUE]
  <2>1. /\ store' = IF Scheduled = {} THEN store ELSE SetEvent(store, First, ev)
        /\ UNCHANGED <<timers, slot, made>>
    BY <1>9 DEF Boot, SetSchedule
  <2>2. Scheduled # {} => ev \in Event /\ ev.sched = 0 /\ ev.in
    BY <1>3, <1>4, ChampionshipEvents, Bounds DEF Event
  <2>3. asked' = store'
    <3>1. CASE disturbed # {}
      BY <3>1 DEF Boot
    <3>2. CASE disturbed = {}
      <4>1. store = asked
        BY <1>6, <3>2
      <4>2. asked' = IF store' = store THEN asked ELSE SetSchedule(asked, First, 0, asked.events[First].recur)
        BY <3>2 DEF Boot
      <4>3. store' = IF Scheduled = {} THEN store ELSE SetSchedule(store, First, 0, store.events[First].recur)
        BY <2>1 DEF SetSchedule
      <4> QED
        BY <4>1, <4>2, <4>3
    <3> QED
      BY <3>1, <3>2
  <2> HIDE DEF ev
  <2>4. /\ store' \in Championship
        /\ \A e \in Ids : store'.events[e] = store.events[e] \/ (Scheduled # {} /\ e = First /\ store'.events[e] = ev)
    <3>1. CASE Scheduled = {}
      BY <1>3, <2>1, <3>1
    <3>2. CASE Scheduled # {}
      <4>1. LET d == SetEvent(store, First, ev)
            IN  d \in Championship /\ d.events[First] = ev /\ \A f \in Ids \ {First} : d.events[f] = store.events[f]
        BY <1>3, <1>4, <2>2, <3>2, SetEventSets
      <4> QED
        BY <2>1, <3>2, <4>1
    <3> QED
      BY <3>1, <3>2
  <2>5. Sound(store', ids)
    <3>1. Scheduled # {} => ~(First > ids)
      BY <1>3, <1>4, ScheduledIsIn DEF IInv
    <3> QED
      BY <2>2, <2>4, <3>1 DEF IInv, Sound
  <2>6. StoreTyped' /\ Sound(store, ids)' /\ Behind'
    BY <1>7, <2>3, <2>4, <2>5
  <2>7. TimersTyped' /\ TimersNumbered'
    BY <1>1, <2>1, Framed DEF IInv, Typed
  <2>8. TimersFollowSchedule'
    <3>1. ~(0 > now)
      BY <1>3
    <3>2. Ahead(store)' \subseteq Ahead(store)
      BY <1>1, <2>2, <2>4, <3>1 DEF Ahead
    <3>3. \A e \in Ahead(store) : e \in Scheduled
      BY <3>1 DEF Ahead, Scheduled
    <3>4. First \notin Ahead(store) \/ Scheduled = {}
      BY <1>9
    <3>5. Ahead(store)' \subseteq unarmed'
      BY <1>1, <3>2, <3>3, <3>4
    <3> QED
      BY <1>2, <2>1, <3>5 DEF TimersFollowSchedule, ScheduledArmed, TimersScheduled
  <2> QED
    BY <1>5, <2>6, <2>7, <2>8 DEF IInv, Typed
<1> QED
  BY <1>8, <1>9

LEMMA TickPreserves ==
    ASSUME IInv, Tick
    PROVE  IInv'
<1>1. /\ now < Until /\ now' = now + 1
      /\ UNCHANGED <<phase, store, timers, slot, made, ids, th, asked, unarmed, disturbed, calls, boots>>
  BY DEF Tick
<1>2. \A cb \in Callbacks : th[cb].pc = "idle"
  BY DEF Tick, Idle
<1>3. ClockTyped'
  BY <1>1, Bounds DEF IInv, Typed, ClockTyped, Time
<1>4. CallbacksSound'
  BY <1>1, <1>2 DEF CallbacksSound
<1>5. Behind'
  <2>1. \A cb \in Callbacks : ~Pending(cb) /\ ~Pending(cb)'
    BY <1>1, <1>2 DEF Pending
  <2>2. UNCHANGED <<store, asked, disturbed>>
    BY <1>1
  <2> QED
    BY <2>1, <2>2 DEF IInv, Behind
<1>6. TimersFollowSchedule'
  <2>1. Ahead(store)' \subseteq Ahead(store)
    <3>1. \A e \in Ids : store.events[e].sched \in Nat
      BY ChampionshipEvents, Bounds DEF IInv, Typed, StoreTyped
    <3>2. now \in Nat
      BY Bounds DEF IInv, Typed, ClockTyped
    <3>3. \A d \in Nat : d > now + 1 => d > now
      BY <3>2
    <3> QED
      BY <1>1, <3>1, <3>3 DEF Ahead
  <2> QED
    BY <1>1, <2>1 DEF IInv, TimersFollowSchedule, ScheduledArmed, TimersScheduled
<1> QED
  BY <1>1, <1>3, <1>4, <1>5, <1>6, Framed DEF IInv, Typed
----------------------------------------------------------------------------
(* The invariant holds in every state                                      *)

LEMMA InitSound == ScheduleInit => IInv
<1> SUFFICES ASSUME ScheduleInit
             PROVE  IInv
  OBVIOUS
<1>1. /\ now = 1 /\ phase = "down" /\ ids = 1 /\ asked = store /\ timers = {} /\ made = 0
      /\ store = [events |-> [e \in Ids |-> IF e = 1 THEN New ELSE NoChampionshipEvent], saved |-> {}]
      /\ slot = [e \in Ids |-> 0] /\ th = [cb \in Callbacks |-> Idle]
      /\ unarmed = {} /\ disturbed = {} /\ calls = 0 /\ boots = 0
  BY DEF ScheduleInit
<1>2. StoreTyped
  BY <1>1, EventsTyped DEF StoreTyped, Championship
<1>3. ClockTyped
  BY <1>1, Bounds DEF ClockTyped, Time, Ids
<1>4. TimersTyped /\ CallbacksTyped /\ HistoryTyped /\ DownSound
  BY <1>1, Bounds DEF TimersTyped, CallbacksTyped, Waiting, HistoryTyped, DownSound
<1>5. Sound(store, ids)
  BY <1>1, Bounds, EventsTyped DEF Sound
<1>6. \A cb \in Callbacks : th[cb].pc = "idle"
  BY <1>1 DEF Idle
<1>7. TimersNumbered /\ CallbacksSound /\ CopiesDiffer /\ FiredOnce
  BY <1>1, <1>6 DEF TimersNumbered, CallbacksSound, CopiesDiffer, FiredOnce
<1>8. Behind
  BY <1>1, <1>6 DEF Behind, Pending
<1>9. TimersFollowSchedule
  BY <1>1 DEF TimersFollowSchedule, ScheduledArmed, TimersScheduled
<1> QED
  BY <1>2, <1>3, <1>4, <1>5, <1>7, <1>8, <1>9 DEF IInv, Typed

LEMMA StepPreserves == IInv /\ [ScheduleNext]_scheduleVars => IInv'
<1> SUFFICES ASSUME IInv, [ScheduleNext]_scheduleVars
             PROVE  IInv'
  OBVIOUS
<1>1. CASE \E e \in Ids : Schedule(e) \/ ScheduleFails(e) \/ Unschedule(e) \/ DeleteEvent(e)
  BY <1>1, SchedulePreserves, ScheduleFailsPreserves, UnschedulePreserves, DeleteEventPreserves
<1>2. CASE AddChampionshipEvent \/ Change
  BY <1>2, AddChampionshipEventPreserves, ChangePreserves
<1>3. CASE \E cb \in Callbacks : Fire(cb) \/ Clear(cb) \/ CopyEvent(cb) \/ ScheduleCopy(cb) \/ Exhausted(cb)
  BY <1>3, FirePreserves, ClearPreserves, CopyEventPreserves, ScheduleCopyPreserves, ExhaustedPreserves
<1>4. CASE Boot \/ Exit \/ Tick
  BY <1>4, BootPreserves, ExitPreserves, TickPreserves
<1>5. CASE UNCHANGED scheduleVars
  BY <1>5, Framed DEF scheduleVars, IInv, Typed
<1> QED
  BY <1>1, <1>2, <1>3, <1>4, <1>5 DEF ScheduleNext

\* What is proved by induction: the history of the schedule, its timers and callbacks fits
\* together in every reachable state.
THEOREM ScheduleInvariant == ScheduleSpec => []IInv
<1>1. ScheduleInit => IInv
  BY InitSound
<1>2. IInv /\ [ScheduleNext]_scheduleVars => IInv'
  BY StepPreserves
<1> QED
  BY <1>1, <1>2, PTL DEF ScheduleSpec

\* Type correctness of the schedule of a championship (championship_manager.go): events
\* that are not made have no schedule, and no timer survives Server Manager.
THEOREM ScheduleTypeCorrect == ScheduleSpec => []ScheduleTypeOK
<1>1. IInv => ScheduleTypeOK
  <2> SUFFICES ASSUME IInv
               PROVE  ScheduleTypeOK
    OBVIOUS
  <2>1. \A cb \in Callbacks : th[cb].pc \in {"idle", "clear", "copy", "schedule"}
    BY CallbackTypes DEF IInv, Typed
  <2> QED
    BY <2>1 DEF ScheduleTypeOK, IInv, Typed, StoreTyped, ClockTyped, TimersTyped, HistoryTyped, Sound, DownSound
<1> QED
  BY <1>1, ScheduleInvariant, PTL

\* Whatever requests, callbacks and restarts do, and in whatever order, the timers of a
\* running Server Manager are the schedule in the store: an event that lies ahead has its
\* timer, and no timer is left of one that was moved, unscheduled or deleted, but for
\* the exceptions the history variables name.
THEOREM TimersAreTheSchedule == ScheduleSpec => []TimersFollowSchedule
<1>1. IInv => TimersFollowSchedule
  BY DEF IInv
<1> QED
  BY <1>1, ScheduleInvariant, PTL

\* The callbacks that start events save nothing older than what they found: the store is
\* what requests and callbacks mean it to be, unless a recurring event was started from an
\* outdated copy, a request came in between or Server Manager ended halfway.
THEOREM StartsLoseNothing == ScheduleSpec => []NothingLost
<1>1. IInv => NothingLost
  BY QuietIsSame DEF NothingLost
<1> QED
  BY <1>1, ScheduleInvariant, PTL

----------------------------------------------------------------------------
(* The places of entrants                                                  *)

Answer == [status : {"Pending", "Accepted", "Rejected"}, car : Models, team : TeamNames]

\* Slots as a championship may have them.
Places(s) ==
    /\ s \in [DOMAIN Slots -> Slot]
    /\ \A j, k \in DOMAIN Slots :
          s[j].uuid = s[k].uuid \/ (s[j].guid = s[k].guid /\ s[j].guid # Free) => j = k

\* What the events have for those who were there when they were added is where their uuid leads.
GivenOnLists ==
    \A e \in Events : \A d \in DOMAIN given[e] :
        /\ d \in HasSlot(slots)
        /\ \A k \in Placed(slots, d) :
              slots[k].uuid \in DOMAIN lists[e] /\ lists[e][slots[k].uuid] = given[e][d]

EntrantsTyped ==
    /\ answers \in [Drivers -> Answer \cup {NoAnswer}] /\ DOMAIN lists = Events /\ DOMAIN given = Events

PlacesInv ==
    /\ EntrantsTyped /\ Places(slots) /\ (page # NoPage => Places(page))
    /\ AnswersMatchPlaces /\ GivenOnLists

\* Driver d has found a place, changed his or lost it; the others are where they were, and
\* a uuid stays with its driver.
OneMoved(s, t, d) ==
    /\ Places(t)
    /\ \A k \in DOMAIN Slots :
          /\ s[k].guid \notin {d, Free} => t[k].guid = s[k].guid /\ t[k].uuid = s[k].uuid
          /\ t[k].guid \notin {d, Free} => s[k].guid = t[k].guid
    /\ \A j, k \in DOMAIN Slots : s[j].guid = d /\ t[k].guid = d => t[k].uuid = s[j].uuid

LEMMA SlotChanges ==
    ASSUME NEW x \in Slot
    PROVE  /\ \A v \in Drivers \cup {Free} :
                LET y == [x EXCEPT !.guid = v]
                IN  y \in Slot /\ y.guid = v /\ y.uuid = x.uuid /\ y.class = x.class
           /\ \A v \in AllTeams :
                LET y == [x EXCEPT !.team = v]
                IN  y \in Slot /\ y.guid = x.guid /\ y.uuid = x.uuid /\ y.class = x.class
           /\ \A v \in AllModels :
                LET y == [x EXCEPT !.model = v]
                IN  y \in Slot /\ y.guid = x.guid /\ y.uuid = x.uuid /\ y.class = x.class
           /\ \A v \in Values("ballast") :
                LET y == [x EXCEPT !.ballast = v]
                IN  y \in Slot /\ y.guid = x.guid /\ y.uuid = x.uuid /\ y.class = x.class
           /\ \A v \in Values("uuid") :
                LET y == [x EXCEPT !.uuid = v]
                IN  y \in Slot /\ y.guid = x.guid /\ y.uuid = v /\ y.class = x.class
           /\ x.guid \in Drivers \cup {Free} /\ x.team \in AllTeams
           /\ x.model \in AllModels /\ x.ballast \in Values("ballast")
           /\ x.uuid \in Values("uuid")
BY DEF Slot

LEMMA ClearedFacts ==
    ASSUME NEW s, Places(s), NEW K \in SUBSET DOMAIN Slots
    PROVE  LET t == ClearedSlots(s, K)
           IN  /\ Places(t)
               /\ \A k \in DOMAIN Slots : /\ t[k].uuid = s[k].uuid
                                          /\ t[k].guid = IF k \in K THEN Free ELSE s[k].guid
<1> DEFINE t == ClearedSlots(s, K)
<1>1. s \in [DOMAIN Slots -> Slot] /\ \A k \in DOMAIN Slots : s[k] \in Slot
  BY DEF Places
<1>2. /\ t = [k \in DOMAIN Slots |-> IF k \in K THEN [s[k] EXCEPT !.guid = Free] ELSE s[k]]
      /\ \A k \in DOMAIN Slots : t[k] = IF k \in K THEN [s[k] EXCEPT !.guid = Free] ELSE s[k]
  BY <1>1 DEF ClearedSlots
<1> HIDE DEF t
<1>3. ASSUME NEW k \in DOMAIN Slots
      PROVE  t[k] \in Slot /\ t[k].uuid = s[k].uuid /\ t[k].guid = IF k \in K THEN Free ELSE s[k].guid
  <2>1. CASE k \in K
    <3>1. t[k] = [s[k] EXCEPT !.guid = Free] /\ s[k] \in Slot
      BY <1>1, <1>2, <2>1
    <3> QED
      BY <2>1, <3>1, SlotChanges
  <2> QED
    BY <1>1, <1>2, <2>1
<1>4. t \in [DOMAIN Slots -> Slot]
  BY <1>2, <1>3
<1>5. \A j, k \in DOMAIN Slots :
         t[j].uuid = t[k].uuid \/ (t[j].guid = t[k].guid /\ t[j].guid # Free) => j = k
  BY <1>3 DEF Places
<1> QED
  BY <1>3, <1>4, <1>5 DEF Places, t

LEMMA SwapFacts ==
    ASSUME NEW s, Places(s), NEW o \in DOMAIN Slots, NEW k \in DOMAIN Slots
    PROVE  LET t == SwapProperties(s, o, k)
           IN  /\ t \in [DOMAIN Slots -> Slot]
               /\ \A j \in DOMAIN Slots : t[j].guid = s[j].guid /\ t[j].class = s[j].class
               /\ t[o].uuid = s[k].uuid /\ t[k].uuid = s[o].uuid
               /\ \A j \in DOMAIN Slots \ {o, k} : t[j] = s[j]
<1> DEFINE stays == s[o].class = s[k].class
           take(x, y) == [x EXCEPT !.team = y.team, !.uuid = y.uuid,
                              !.model = IF stays THEN y.model ELSE @,
                              !.ballast = IF stays THEN y.ballast ELSE @]
<1>1. ASSUME NEW x \in Slot, NEW y \in Slot
      PROVE  take(x, y) \in Slot /\ take(x, y).guid = x.guid
                /\ take(x, y).class = x.class /\ take(x, y).uuid = y.uuid
  <2> DEFINE a == [x EXCEPT !.team = y.team]
             b == [a EXCEPT !.uuid = y.uuid]
             m == IF stays THEN y.model ELSE x.model
             c == [b EXCEPT !.model = m]
             w == IF stays THEN y.ballast ELSE x.ballast
             z == [c EXCEPT !.ballast = w]
  <2>1. take(x, y) = z
    OBVIOUS
  <2>2. a \in Slot /\ a.guid = x.guid /\ a.class = x.class
    BY SlotChanges
  <2>3. b \in Slot /\ b.guid = x.guid /\ b.class = x.class /\ b.uuid = y.uuid
    BY <2>2, SlotChanges
  <2>4. m \in AllModels /\ w \in Values("ballast")
    BY SlotChanges
  <2> HIDE DEF a, b, m, w, take
  <2>5. c \in Slot /\ c.guid = x.guid /\ c.class = x.class /\ c.uuid = y.uuid
    BY <2>3, <2>4, SlotChanges
  <2>6. z \in Slot /\ z.guid = x.guid /\ z.class = x.class /\ z.uuid = y.uuid
    BY <2>4, <2>5, SlotChanges DEF z
  <2> QED
    BY <2>1, <2>6
<1>2. SwapProperties(s, o, k) = [[s EXCEPT ![o] = take(@, s[k])] EXCEPT ![k] = take(@, s[o])]
  BY DEF SwapProperties
<1>3. s \in [DOMAIN Slots -> Slot] /\ s[o] \in Slot /\ s[k] \in Slot
  BY DEF Places
<1> HIDE DEF take
<1>4. CASE o = k
  <2>1. [s EXCEPT ![o] = take(@, s[k])][k] = take(s[o], s[o])
    BY <1>3, <1>4
  <2>2. /\ SwapProperties(s, o, k)[o] \in {take(s[o], s[o]), take(take(s[o], s[o]), s[o])}
        /\ DOMAIN SwapProperties(s, o, k) = DOMAIN Slots
        /\ \A j \in DOMAIN Slots \ {o} : SwapProperties(s, o, k)[j] = s[j]
        /\ SwapProperties(s, o, k) = [j \in DOMAIN Slots |-> SwapProperties(s, o, k)[j]]
    BY <1>2, <1>3, <1>4, <2>1
  <2>3. take(s[o], s[o]) \in Slot /\ take(take(s[o], s[o]), s[o]) \in Slot
    BY <1>1, <1>3
  <2>4. /\ SwapProperties(s, o, k)[o] \in Slot
        /\ SwapProperties(s, o, k)[o].guid = s[o].guid
        /\ SwapProperties(s, o, k)[o].class = s[o].class
        /\ SwapProperties(s, o, k)[o].uuid = s[o].uuid
    BY <1>1, <1>3, <2>2, <2>3
  <2> QED
    BY <1>3, <1>4, <2>2, <2>4
<1>5. CASE o # k
  <2>1. SwapProperties(s, o, k) = [[s EXCEPT ![o] = take(s[o], s[k])] EXCEPT ![k] = take(s[k], s[o])]
    BY <1>2, <1>3, <1>5
  <2>2. /\ take(s[o], s[k]) \in Slot /\ take(s[k], s[o]) \in Slot
        /\ take(s[o], s[k]).guid = s[o].guid /\ take(s[k], s[o]).guid = s[k].guid
        /\ take(s[o], s[k]).class = s[o].class /\ take(s[k], s[o]).class = s[k].class
        /\ take(s[o], s[k]).uuid = s[k].uuid /\ take(s[k], s[o]).uuid = s[o].uuid
    BY <1>1, <1>3
  <2>3. /\ SwapProperties(s, o, k)[o] = take(s[o], s[k]) /\ SwapProperties(s, o, k)[k] = take(s[k], s[o])
        /\ \A j \in DOMAIN Slots \ {o, k} : SwapProperties(s, o, k)[j] = s[j]
        /\ SwapProperties(s, o, k) \in [DOMAIN Slots -> Slot]
    BY <1>3, <1>5, <2>1, <2>2
  <2> QED
    BY <1>3, <1>5, <2>2, <2>3
<1> QED
  BY <1>4, <1>5

LEMMA AssignedFacts ==
    ASSUME NEW s \in [DOMAIN Slots -> Slot], NEW k \in DOMAIN Slots, NEW d \in Drivers,
           NEW car \in Models, NEW team \in AllTeams
    PROVE  LET t == Assigned(s, k, d, car, team)
           IN  /\ t \in [DOMAIN Slots -> Slot]
               /\ \A j \in DOMAIN Slots : /\ t[j].uuid = s[j].uuid
                                          /\ t[j].guid = IF j = k THEN d ELSE s[j].guid
<1> DEFINE named == IF team = "" THEN s[k].team ELSE team
           a == [s[k] EXCEPT !.guid = d]
           b == [a EXCEPT !.model = car]
           c == [b EXCEPT !.team = named]
<1>1. s[k] \in Slot
  OBVIOUS
<1>2. a \in Slot /\ a.guid = d /\ a.uuid = s[k].uuid /\ a.team = s[k].team
  BY <1>1, SlotChanges DEF Slot
<1>3. Assigned(s, k, d, car, team) = [s EXCEPT ![k] = c]
  BY <1>1 DEF Assigned
<1>4. named \in AllTeams
  BY <1>1, SlotChanges
<1>5. car \in AllModels
  BY DEF AllModels
<1> HIDE DEF a, named
<1>6. b \in Slot /\ b.guid = d /\ b.uuid = s[k].uuid
  BY <1>2, <1>5, SlotChanges
<1>7. c \in Slot /\ c.guid = d /\ c.uuid = s[k].uuid
  BY <1>4, <1>6, SlotChanges
<1> HIDE DEF c
<1> QED
  BY <1>3, <1>7

\* What AddEntrantFromSession and AddEntrantInFirstFreeSlot answer.
Outcome(s, o, d) ==
    OneMoved(s, o.slots, d) /\ o.found \in BOOLEAN /\ (o.found <=> d \in HasSlot(o.slots))

LEMMA PlacedOnce ==
    ASSUME NEW s, Places(s), NEW d \in Drivers
    PROVE  /\ \A k \in DOMAIN Slots : k \in Placed(s, d) <=> s[k].guid = d
           /\ Placed(s, d) \subseteq DOMAIN Slots
           /\ \A j, k \in Placed(s, d) : j = k
           /\ d \in HasSlot(s) <=> \E k \in DOMAIN Slots : s[k].guid = d
BY EntrantsAssumption DEF Places, Placed, HasSlot

LEMMA SessionOutcome ==
    ASSUME NEW s, Places(s), NEW d \in Drivers, NEW car \in Models, NEW team \in AllTeams,
           NEW o \in AddEntrantFromSession(s, d, car, team)
    PROVE  Outcome(s, o, d)
<1> DEFINE own == Placed(s, d)
           s1 == ClearedSlots(s, own)
           free(m) == {k \in DOMAIN s : /\ s[k].class = FindClassForCarModel(s, car)
                                        /\ s1[k].guid = Free /\ s1[k].model = m}
           to == IF free(car) # {} THEN free(car) ELSE free(AnyCarModel)
           moved(k) == IF own = {} THEN {s1} ELSE {SwapProperties(s1, j, k) : j \in own}
<1>1. own \subseteq DOMAIN Slots /\ DOMAIN s = DOMAIN Slots /\ s \in [DOMAIN Slots -> Slot]
  BY PlacedOnce DEF Places
<1>2. /\ Places(s1)
      /\ \A k \in DOMAIN Slots : s1[k].uuid = s[k].uuid /\ s1[k].guid = IF k \in own THEN Free ELSE s[k].guid
  BY <1>1, ClearedFacts
<1>3. \A k \in DOMAIN Slots : s1[k].uuid = s[k].uuid /\ s1[k].guid = IF s[k].guid = d THEN Free ELSE s[k].guid
  BY <1>2, PlacedOnce
<1>4. to \subseteq {k \in DOMAIN Slots : s1[k].guid = Free}
  BY <1>1
<1>5. /\ to = {} => o = [found |-> FALSE, slots |-> s1]
      /\ to # {} => \E k \in to : \E t \in moved(k) :
                       o = [found |-> TRUE, slots |-> Assigned(t, k, d, car, team)]
  BY DEF AddEntrantFromSession
<1>6. /\ d # Free
      /\ \A k \in DOMAIN Slots : k \in own <=> s[k].guid = d
      /\ \A j, k \in own : j = k
  BY PlacedOnce, EntrantsAssumption
<1>7. \A k \in to : \A t \in moved(k) : (t = s1 /\ own = {}) \/ \E i \in own : t = SwapProperties(s1, i, k)
  OBVIOUS
<1> HIDE DEF own, s1, to, moved
<1>8. CASE to = {}
  <2>1. d \notin HasSlot(s1)
    BY <1>2, <1>3, <1>6, PlacedOnce
  <2>2. OneMoved(s, s1, d)
    BY <1>2, <1>3, <1>6 DEF OneMoved
  <2>3. o = [found |-> FALSE, slots |-> s1]
    BY <1>5, <1>8
  <2>4. o.found = FALSE /\ o.slots = s1
    BY <2>3
  <2> QED
    BY <2>1, <2>2, <2>4 DEF Outcome
<1>9. ASSUME NEW k \in to, NEW t \in moved(k), o = [found |-> TRUE, slots |-> Assigned(t, k, d, car, team)]
      PROVE  Outcome(s, o, d)
  <2> DEFINE new == Assigned(t, k, d, car, team)
  <2>1. k \in DOMAIN Slots /\ s1[k].guid = Free /\ s[k].guid \in {d, Free}
    BY <1>3, <1>4, <1>9
  <2>2. /\ t \in [DOMAIN Slots -> Slot]
        /\ \A j \in DOMAIN Slots : t[j].guid = s1[j].guid
        /\ \A j \in DOMAIN Slots : s1[j].guid \notin {d, Free} => t[j].uuid = s1[j].uuid
        /\ \A j, l \in DOMAIN Slots : t[l].uuid = t[j].uuid => l = j
        /\ \A j \in own : t[k].uuid = s1[j].uuid
    <3>1. CASE t = s1 /\ own = {}
      BY <1>2, <3>1 DEF Places
    <3>2. ASSUME NEW i \in own, t = SwapProperties(s1, i, k) PROVE <2>2!1 /\ <2>2!2 /\ <2>2!3 /\ <2>2!4 /\ <2>2!5
      <4>1. i \in DOMAIN Slots /\ s1[i].guid = Free /\ own = {i}
        BY <1>1, <1>2, <1>6
      <4>2. /\ t \in [DOMAIN Slots -> Slot]
            /\ \A j \in DOMAIN Slots : t[j].guid = s1[j].guid
            /\ t[i].uuid = s1[k].uuid /\ t[k].uuid = s1[i].uuid
            /\ \A j \in DOMAIN Slots \ {i, k} : t[j] = s1[j]
        BY <1>2, <2>1, <3>2, <4>1, SwapFacts
      <4>3. \A j, l \in DOMAIN Slots : s1[j].uuid = s1[l].uuid => j = l
        BY <1>2 DEF Places
      <4>4. \A j \in DOMAIN Slots : t[j].uuid = IF j = i THEN s1[k].uuid ELSE IF j = k THEN s1[i].uuid ELSE s1[j].uuid
        BY <4>2
      <4>5. \A j, l \in DOMAIN Slots : t[l].uuid = t[j].uuid => l = j
        BY <2>1, <4>1, <4>3, <4>4
      <4> QED
        BY <2>1, <4>1, <4>2, <4>5
    <3> QED
      BY <1>7, <1>9, <3>1, <3>2
  <2>3. /\ new \in [DOMAIN Slots -> Slot]
        /\ \A j \in DOMAIN Slots : new[j].uuid = t[j].uuid
        /\ \A j \in DOMAIN Slots : new[j].guid = IF j = k THEN d ELSE t[j].guid
    BY <2>1, <2>2, AssignedFacts
  <2> HIDE DEF new
  <2>4. \A j \in DOMAIN Slots : /\ new[j].guid = IF j = k THEN d ELSE IF s[j].guid = d THEN Free ELSE s[j].guid
                                /\ s[j].guid \notin {d, Free} => new[j].uuid = s[j].uuid
    <3> TAKE j \in DOMAIN Slots
    <3> QED
      BY <1>3, <2>2, <2>3
  <2>5. \A j, l \in DOMAIN Slots :
           new[j].uuid = new[l].uuid \/ (new[j].guid = new[l].guid /\ new[j].guid # Free) => j = l
    <3> TAKE j, l \in DOMAIN Slots
    <3>1. s[j].guid = s[l].guid /\ s[j].guid # Free => j = l
      BY DEF Places
    <3> QED
      BY <1>6, <2>1, <2>2, <2>3, <2>4, <3>1
  <2>6. Places(new)
    BY <2>3, <2>5 DEF Places
  <2>7. \A j, l \in DOMAIN Slots : s[j].guid = d /\ new[l].guid = d => new[l].uuid = s[j].uuid
    <3> TAKE j, l \in DOMAIN Slots
    <3>1. s[j].guid = d /\ new[l].guid = d => l = k /\ j \in own
      BY <1>6, <2>4
    <3> QED
      BY <1>3, <2>2, <2>3, <3>1
  <2>8. OneMoved(s, new, d)
    BY <1>6, <2>1, <2>4, <2>6, <2>7 DEF OneMoved
  <2>9. d \in HasSlot(new)
    BY <2>1, <2>4, <2>6, PlacedOnce
  <2> QED
    BY <1>9, <2>8, <2>9 DEF Outcome, new
<1> QED
  BY <1>5, <1>8, <1>9

LEMMA FirstFreeOutcome ==
    ASSUME NEW s, Places(s), NEW d \in Drivers, NEW team \in AllTeams,
           NEW o \in AddEntrantInFirstFreeSlot(s, d, team)
    PROVE  Outcome(s, o, d)
<1> DEFINE own == FirstClass(s, Placed(s, d))
           to == IF own # {} THEN own ELSE FirstClass(s, Placed(s, Free))
<1>1. PICK k \in to : o = [found |-> TRUE, slots |-> [s EXCEPT ![k].guid = d, ![k].team = team]]
  BY DEF AddEntrantInFirstFreeSlot
<1>2. s \in [DOMAIN Slots -> Slot] /\ d # Free
  BY EntrantsAssumption DEF Places
<1>3. k \in DOMAIN Slots /\ s[k].guid \in {d, Free} /\ (s[k].guid = Free => own = {})
  BY <1>2 DEF FirstClass, Placed
<1>4. own = {} => \A j \in DOMAIN Slots : s[j].guid # d
  <2>1. ASSUME NEW j \in DOMAIN Slots, s[j].guid = d PROVE own = {j}
    <3>1. Placed(s, d) = {j}
      BY <2>1, PlacedOnce
    <3>2. s[j].class \in Nat
      BY <1>2, EntrantsAssumption DEF Slot
    <3> QED
      BY <3>1, <3>2 DEF FirstClass
  <2> QED
    BY <2>1
<1> HIDE DEF own, to
<1> DEFINE a == [s[k] EXCEPT !.guid = d]
           b == [a EXCEPT !.team = team]
           new == [s EXCEPT ![k] = b]
<1>5. o = [found |-> TRUE, slots |-> new]
  BY <1>1, <1>2, <1>3
<1>6. a \in Slot /\ a.guid = d /\ a.uuid = s[k].uuid
  BY <1>2, <1>3, SlotChanges
<1> HIDE DEF a
<1>7. b \in Slot /\ b.guid = d /\ b.uuid = s[k].uuid
  BY <1>6, SlotChanges
<1> HIDE DEF b
<1>8. /\ new \in [DOMAIN Slots -> Slot]
      /\ \A j \in DOMAIN Slots : /\ new[j].uuid = s[j].uuid
                                 /\ new[j].guid = IF j = k THEN d ELSE s[j].guid
  BY <1>2, <1>3, <1>7
<1> HIDE DEF new
<1>9. \A j, l \in DOMAIN Slots :
         new[j].uuid = new[l].uuid \/ (new[j].guid = new[l].guid /\ new[j].guid # Free) => j = l
  <2> TAKE j, l \in DOMAIN Slots
  <2>1. s[j].uuid = s[l].uuid \/ (s[j].guid = s[l].guid /\ s[j].guid # Free) => j = l
    BY DEF Places
  <2>2. s[j].guid = d => j = k
    BY <1>2, <1>3, <1>4 DEF Places
  <2>3. s[l].guid = d => l = k
    BY <1>2, <1>3, <1>4 DEF Places
  <2> QED
    BY <1>8, <2>1, <2>2, <2>3
<1>10. Places(new)
  BY <1>8, <1>9 DEF Places
<1>11. \A j, l \in DOMAIN Slots : s[j].guid = d /\ new[l].guid = d => new[l].uuid = s[j].uuid
  <2> TAKE j, l \in DOMAIN Slots
  <2>1. s[j].guid = d => j = k
    BY <1>2, <1>3, <1>4 DEF Places
  <2>2. s[l].guid = d => l = k
    BY <1>2, <1>3, <1>4 DEF Places
  <2> QED
    BY <1>8, <2>1, <2>2
<1>12. OneMoved(s, new, d)
  BY <1>3, <1>8, <1>10, <1>11 DEF OneMoved
<1>13. d \in HasSlot(new)
  BY <1>3, <1>8, <1>10, PlacedOnce
<1> QED
  BY <1>5, <1>12, <1>13 DEF Outcome

LEMMA EntrantOutcome ==
    ASSUME NEW s, Places(s), NEW d \in Drivers, NEW car \in Models, NEW team \in AllTeams,
           NEW firstFree, NEW o \in AddEntrantFromSessionData(s, d, car, team, firstFree)
    PROVE  Outcome(s, o, d)
BY SessionOutcome, FirstFreeOutcome DEF AddEntrantFromSessionData

LEMMA ClearOutcome ==
    ASSUME NEW s, Places(s), NEW d \in Drivers, NEW t \in ClearEntrant(s, d)
    PROVE  OneMoved(s, t, d) /\ d \notin HasSlot(t)
<1> DEFINE own == FirstClass(s, Placed(s, d))
<1>1. s \in [DOMAIN Slots -> Slot] /\ d # Free
  BY EntrantsAssumption DEF Places
<1>2. CASE own = {}
  <2>1. Placed(s, d) = {}
    <3>1. SUFFICES ASSUME NEW j \in Placed(s, d) PROVE FALSE
      OBVIOUS
    <3>2. Placed(s, d) = {j} /\ j \in DOMAIN Slots
      BY <3>1, PlacedOnce
    <3>3. s[j].class \in Nat
      BY <1>1, <3>2, EntrantsAssumption DEF Slot
    <3> QED
      BY <1>2, <3>2, <3>3 DEF FirstClass
  <2>2. t = s
    BY <1>2 DEF ClearEntrant
  <2> QED
    BY <1>1, <2>1, <2>2, PlacedOnce DEF OneMoved
<1>3. CASE own # {}
  <2>1. PICK k \in own : t = [s EXCEPT ![k].guid = Free, ![k].team = ""]
    BY <1>3 DEF ClearEntrant
  <2>2. k \in DOMAIN Slots /\ s[k].guid = d
    BY PlacedOnce DEF FirstClass
  <2> DEFINE a == [s[k] EXCEPT !.guid = Free]
             b == [a EXCEPT !.team = ""]
  <2>3. t = [s EXCEPT ![k] = b]
    BY <1>1, <2>1, <2>2
  <2>4. a \in Slot /\ a.guid = Free /\ a.uuid = s[k].uuid
    BY <1>1, <2>2, SlotChanges
  <2>5. "" \in AllTeams
    BY DEF AllTeams
  <2> HIDE DEF a
  <2>6. \A v \in AllTeams : LET y == [a EXCEPT !.team = v] IN y \in Slot /\ y.guid = Free /\ y.uuid = s[k].uuid
    BY <2>4, SlotChanges
  <2>7. b \in Slot /\ b.guid = Free /\ b.uuid = s[k].uuid
    BY <2>5, <2>6
  <2> HIDE DEF b
  <2>8. /\ t \in [DOMAIN Slots -> Slot]
        /\ \A j \in DOMAIN Slots : /\ t[j].uuid = s[j].uuid
                                   /\ t[j].guid = IF j = k THEN Free ELSE s[j].guid
    BY <1>1, <2>2, <2>3, <2>7
  <2>9. \A j, l \in DOMAIN Slots :
           t[j].uuid = t[l].uuid \/ (t[j].guid = t[l].guid /\ t[j].guid # Free) => j = l
    <3> TAKE j, l \in DOMAIN Slots
    <3>1. s[j].uuid = s[l].uuid \/ (s[j].guid = s[l].guid /\ s[j].guid # Free) => j = l
      BY DEF Places
    <3> QED
      BY <2>8, <3>1
  <2>10. Places(t)
    BY <2>8, <2>9 DEF Places
  <2>11. \A j \in DOMAIN Slots : t[j].guid # d
    <3> TAKE j \in DOMAIN Slots
    <3>1. s[j].guid = d => j = k
      BY <1>1, <2>2 DEF Places
    <3> QED
      BY <1>1, <2>8, <3>1
  <2>12. OneMoved(s, t, d)
    BY <2>2, <2>8, <2>10, <2>11 DEF OneMoved
  <2> QED
    BY <2>10, <2>11, <2>12, PlacedOnce
<1> QED
  BY <1>2, <1>3

LEMMA OthersStay ==
    ASSUME NEW s, Places(s), NEW d \in Drivers, NEW t, OneMoved(s, t, d), NEW x \in Drivers \ {d}
    PROVE  x \in HasSlot(t) <=> x \in HasSlot(s)
<1>1. Places(t) /\ x # Free
  BY EntrantsAssumption DEF OneMoved
<1>2. \A k \in DOMAIN Slots : t[k].guid = x <=> s[k].guid = x
  BY <1>1 DEF OneMoved
<1> QED
  BY <1>1, <1>2, PlacedOnce

LEMMA Unmoved == ASSUME NEW s, Places(s), NEW d \in Drivers PROVE OneMoved(s, s, d)
BY EntrantsAssumption DEF OneMoved, Places

LEMMA SavedKeeps ==
    ASSUME PlacesInv, NEW d \in Drivers, NEW s, OneMoved(slots, s, d), Saved(s), UNCHANGED lists
    PROVE  Places(slots)' /\ GivenOnLists' /\ DOMAIN given' = Events /\ slots' = s
<1>1. Places(slots) /\ Places(s) /\ slots' = s /\ lists' = lists
  BY DEF PlacesInv, OneMoved, Saved
<1>2. given' = [e \in Events |-> Restrict(given[e], DOMAIN given[e] \cap HasSlot(s))]
  BY DEF Saved
<1>3. ASSUME NEW e \in Events, NEW x \in DOMAIN given'[e]
      PROVE  /\ x \in HasSlot(s)
             /\ \A k \in Placed(s, x) : s[k].uuid \in DOMAIN lists[e] /\ lists[e][s[k].uuid] = given'[e][x]
  <2>1. x \in DOMAIN given[e] /\ x \in HasSlot(s) /\ given'[e][x] = given[e][x]
    BY <1>2, <1>3 DEF Restrict
  <2>2. x \in Drivers /\ x # Free
    BY <2>1, EntrantsAssumption DEF HasSlot
  <2>3. /\ x \in HasSlot(slots)
        /\ \A k \in Placed(slots, x) :
              slots[k].uuid \in DOMAIN lists[e] /\ lists[e][slots[k].uuid] = given[e][x]
    BY <2>1 DEF PlacesInv, GivenOnLists
  <2>4. PICK j \in DOMAIN Slots : slots[j].guid = x /\ j \in Placed(slots, x)
    BY <1>1, <2>2, <2>3, PlacedOnce
  <2>5. ASSUME NEW k \in Placed(s, x) PROVE s[k].uuid = slots[j].uuid
    <3>1. k \in DOMAIN Slots /\ s[k].guid = x
      BY <1>1, <2>2, <2>5, PlacedOnce
    <3>2. CASE x = d
      BY <2>4, <3>1, <3>2 DEF OneMoved
    <3>3. CASE x # d
      <4>1. slots[k].guid = x /\ s[k].uuid = slots[k].uuid
        BY <2>2, <3>1, <3>3 DEF OneMoved
      <4> QED
        BY <1>1, <2>2, <2>4, <3>1, <4>1 DEF Places
    <3> QED
      BY <3>2, <3>3
  <2> QED
    BY <2>1, <2>3, <2>4, <2>5
<1>4. GivenOnLists'
  BY <1>1, <1>3 DEF GivenOnLists
<1> QED
  BY <1>1, <1>2, <1>4 DEF Places

LEMMA NoAnswerStatus == NoAnswer.status = "none"
BY DEF NoAnswer

\* Places are kept by a request that moves one driver and answers him, or leaves his answer.
LEMMA SignUpStep ==
    ASSUME PlacesInv, NEW d \in Drivers, NEW car \in Models, NEW team \in TeamNames, SignUp(d, car, team)
    PROVE  PlacesInv'
<1>1. /\ UNCHANGED <<setting, lists, page, dropped, joined>> /\ Places(slots) /\ team \in AllTeams
      /\ answers \in [Drivers -> Answer \cup {NoAnswer}]
  BY DEF SignUp, PlacesInv, EntrantsTyped, AllTeams
<1>2. CASE setting.approval
  <2>1. /\ answers' = [answers EXCEPT ![d] = [status |-> "Pending", car |-> car, team |-> team]]
        /\ Saved(slots)
    BY <1>2 DEF SignUp
  <2>2. Places(slots)' /\ GivenOnLists' /\ DOMAIN given' = Events /\ slots' = slots
    BY <1>1, <2>1, SavedKeeps, Unmoved
  <2>3. answers' \in [Drivers -> Answer \cup {NoAnswer}]
    BY <1>1, <2>1 DEF Answer
  <2>4. AnswersMatchPlaces'
    BY <1>1, <2>1, <2>2 DEF PlacesInv, AnswersMatchPlaces
  <2> QED
    BY <1>1, <2>2, <2>3, <2>4 DEF PlacesInv, EntrantsTyped
<1>3. CASE ~setting.approval
  <2>1. PICK o \in AddEntrantFromSessionData(slots, d, car, team, setting.firstFree) :
           /\ answers' = [answers EXCEPT ![d] = [status |-> Status(o.found), car |-> car, team |-> team]]
           /\ Saved(o.slots)
    BY <1>3 DEF SignUp
  <2>2. Outcome(slots, o, d)
    BY <1>1, EntrantOutcome
  <2>3. Places(slots)' /\ GivenOnLists' /\ DOMAIN given' = Events /\ slots' = o.slots
    BY <1>1, <2>1, <2>2, SavedKeeps DEF Outcome
  <2>4. answers' \in [Drivers -> Answer \cup {NoAnswer}]
    BY <1>1, <2>1, <2>2 DEF Answer, Status, Outcome
  <2>5. AnswersMatchPlaces'
    <3>1. ASSUME NEW x \in Drivers
          PROVE  /\ answers'[x].status = "Accepted" => x \in HasSlot(o.slots) \cup dropped
                 /\ answers'[x].status = "Rejected" => x \notin HasSlot(o.slots) \/ x \in joined
      <4>1. CASE x = d
        <5>1. answers'[x].status = Status(o.found)
          BY <1>1, <2>1, <4>1
        <5> QED
          BY <2>2, <4>1, <5>1 DEF Outcome, Status
      <4>2. CASE x # d
        <5>1. answers'[x] = answers[x]
          BY <1>1, <2>1, <4>2
        <5>2. x \in HasSlot(o.slots) <=> x \in HasSlot(slots)
          BY <1>1, <2>2, <4>2, OthersStay DEF Outcome
        <5> QED
          BY <5>1, <5>2 DEF PlacesInv, AnswersMatchPlaces
      <4> QED
        BY <4>1, <4>2
    <3> QED
      BY <1>1, <2>3, <3>1 DEF AnswersMatchPlaces
  <2> QED
    BY <1>1, <2>3, <2>4, <2>5 DEF PlacesInv, EntrantsTyped
<1> QED
  BY <1>2, <1>3

LEMMA AcceptStep ==
    ASSUME PlacesInv, NEW d \in Drivers, Accept(d)
    PROVE  PlacesInv'
<1>1. /\ UNCHANGED <<setting, lists, page, dropped, joined>> /\ Places(slots)
      /\ answers \in [Drivers -> Answer \cup {NoAnswer}] /\ answers[d].status \in {"Pending", "Rejected"}
  BY DEF Accept, PlacesInv, EntrantsTyped
<1>2. answers[d] \in Answer
  BY <1>1, NoAnswerStatus
<1>3. answers[d].car \in Models /\ answers[d].team \in TeamNames
  BY <1>2 DEF Answer
<1>4. answers[d].team \in AllTeams
  BY <1>3 DEF AllTeams
<1>5. PICK o \in AddEntrantFromSessionData(slots, d, answers[d].car, answers[d].team, setting.firstFree) :
         /\ Saved(o.slots)
         /\ answers' = [answers EXCEPT ![d].status = IF o.found THEN "Accepted" ELSE @]
  BY DEF Accept
<1>6. Outcome(slots, o, d)
  BY <1>1, <1>3, <1>4, EntrantOutcome
<1>7. Places(slots)' /\ GivenOnLists' /\ DOMAIN given' = Events /\ slots' = o.slots
  BY <1>1, <1>5, <1>6, SavedKeeps DEF Outcome
<1>8. answers' = [answers EXCEPT ![d] = [answers[d] EXCEPT !.status = IF o.found THEN "Accepted" ELSE answers[d].status]]
  BY <1>1, <1>5
<1>9. answers'[d] \in Answer /\ answers'[d].status = IF o.found THEN "Accepted" ELSE answers[d].status
  BY <1>1, <1>2, <1>8 DEF Answer
<1>10. answers' \in [Drivers -> Answer \cup {NoAnswer}] /\ \A x \in Drivers \ {d} : answers'[x] = answers[x]
  BY <1>1, <1>8, <1>9
<1>11. ASSUME NEW x \in Drivers
       PROVE  /\ answers'[x].status = "Accepted" => x \in HasSlot(o.slots) \cup dropped
              /\ answers'[x].status = "Rejected" => x \notin HasSlot(o.slots) \/ x \in joined
  <2>1. CASE x = d
    BY <1>1, <1>6, <1>9, <2>1 DEF Outcome
  <2>2. CASE x # d
    <3>1. x \in HasSlot(o.slots) <=> x \in HasSlot(slots)
      BY <1>1, <1>6, <2>2, OthersStay DEF Outcome
    <3> QED
      BY <1>10, <2>2, <3>1 DEF PlacesInv, AnswersMatchPlaces
  <2> QED
    BY <2>1, <2>2
<1>12. AnswersMatchPlaces'
  BY <1>1, <1>7, <1>11 DEF AnswersMatchPlaces
<1> QED
  BY <1>1, <1>7, <1>10, <1>12 DEF PlacesInv, EntrantsTyped

LEMMA RejectStep ==
    ASSUME PlacesInv, NEW d \in Drivers, RejectOrDelete(d)
    PROVE  PlacesInv'
<1>1. /\ UNCHANGED <<setting, lists, page, dropped>> /\ joined' = joined \ {d} /\ Places(slots)
      /\ answers \in [Drivers -> Answer \cup {NoAnswer}] /\ answers[d].status # "none"
  BY DEF RejectOrDelete, PlacesInv, EntrantsTyped
<1>2. answers[d] \in Answer
  BY <1>1, NoAnswerStatus
<1>3. PICK s \in ClearEntrant(slots, d) : Saved(s)
  BY DEF RejectOrDelete
<1>4. PICK a \in {NoAnswer, [answers[d] EXCEPT !.status = "Rejected"]} : answers' = [answers EXCEPT ![d] = a]
  BY DEF RejectOrDelete
<1>5. OneMoved(slots, s, d) /\ d \notin HasSlot(s)
  BY <1>1, ClearOutcome
<1>6. Places(slots)' /\ GivenOnLists' /\ DOMAIN given' = Events /\ slots' = s
  BY <1>1, <1>3, <1>5, SavedKeeps
<1>7. a \in Answer \cup {NoAnswer} /\ a.status \in {"none", "Rejected"}
  <2>1. CASE a = NoAnswer
    BY <2>1, NoAnswerStatus
  <2>2. CASE a = [answers[d] EXCEPT !.status = "Rejected"]
    BY <1>2, <2>2 DEF Answer
  <2> QED
    BY <1>4, <2>1, <2>2
<1>8. /\ answers' \in [Drivers -> Answer \cup {NoAnswer}] /\ answers'[d] = a
      /\ \A x \in Drivers \ {d} : answers'[x] = answers[x]
  BY <1>1, <1>4, <1>7
<1>9. ASSUME NEW x \in Drivers
      PROVE  /\ answers'[x].status = "Accepted" => x \in HasSlot(s) \cup dropped
             /\ answers'[x].status = "Rejected" => x \notin HasSlot(s) \/ x \in joined'
  <2>1. CASE x = d
    BY <1>5, <1>7, <1>8, <2>1
  <2>2. CASE x # d
    <3>1. x \in HasSlot(s) <=> x \in HasSlot(slots)
      BY <1>1, <1>5, <2>2, OthersStay
    <3> QED
      BY <1>1, <1>8, <2>2, <3>1 DEF PlacesInv, AnswersMatchPlaces
  <2> QED
    BY <2>1, <2>2
<1>10. AnswersMatchPlaces'
  BY <1>1, <1>6, <1>9 DEF AnswersMatchPlaces
<1> QED
  BY <1>1, <1>6, <1>8, <1>10 DEF PlacesInv, EntrantsTyped

LEMMA JoinSteps ==
    ASSUME PlacesInv, NEW d \in Drivers, NEW car \in Models, Connect(d, car) \/ Import(d, car)
    PROVE  PlacesInv'
<1>1. /\ UNCHANGED <<setting, answers, lists, page>> /\ Places(slots)
      /\ answers \in [Drivers -> Answer \cup {NoAnswer}]
  BY DEF Connect, Import, PlacesInv, EntrantsTyped
<1>2. "" \in AllTeams
  BY DEF AllTeams
<1>4. PICK o \in AddEntrantFromSessionData(slots, d, car, "", FALSE) :
         /\ Saved(o.slots)
         /\ o.found => joined' = joined \cup {d}
         /\ ~o.found => joined' = joined
         /\ \/ dropped' = dropped /\ o.found
            \/ dropped' = dropped \cup (HasSlot(slots) \ HasSlot(o.slots))
  BY DEF Connect, Import
<1>5. Outcome(slots, o, d)
  BY <1>1, <1>2, EntrantOutcome
<1>6. Places(slots)' /\ GivenOnLists' /\ DOMAIN given' = Events /\ slots' = o.slots
  BY <1>1, <1>4, <1>5, SavedKeeps DEF Outcome
<1>7. ASSUME NEW x \in Drivers
      PROVE  /\ answers[x].status = "Accepted" => x \in HasSlot(o.slots) \cup dropped'
             /\ answers[x].status = "Rejected" => x \notin HasSlot(o.slots) \/ x \in joined'
  <2>1. CASE x = d
    BY <1>1, <1>4, <1>5, <2>1 DEF Outcome, PlacesInv, AnswersMatchPlaces
  <2>2. CASE x # d
    <3>1. x \in HasSlot(o.slots) <=> x \in HasSlot(slots)
      BY <1>1, <1>5, <2>2, OthersStay DEF Outcome
    <3> QED
      BY <1>4, <1>5, <3>1 DEF Outcome, PlacesInv, AnswersMatchPlaces
  <2> QED
    BY <2>1, <2>2
<1>8. AnswersMatchPlaces'
  BY <1>1, <1>6, <1>7 DEF AnswersMatchPlaces
<1> QED
  BY <1>1, <1>6, <1>8 DEF PlacesInv, EntrantsTyped

LEMMA EditedPlaces == ASSUME page # NoPage, Places(page), NEW s \in PageEdits PROVE Places(s)
<1>1. CASE s = page
  BY <1>1
<1>2. ASSUME NEW k \in DOMAIN page, s = ClearedSlots(page, {k}) PROVE Places(s)
  <2>1. {k} \in SUBSET DOMAIN Slots
    BY <1>2 DEF Places
  <2> QED
    BY <1>2, <2>1, ClearedFacts
<1>3. ASSUME NEW k \in Placed(page, Free), NEW d \in Drivers \ HasSlot(page), s = [page EXCEPT ![k].guid = d]
      PROVE  Places(s)
  <2>1. /\ page \in [DOMAIN Slots -> Slot] /\ k \in DOMAIN Slots /\ page[k].guid = Free /\ page[k] \in Slot
        /\ \A j \in DOMAIN Slots : page[j].guid # d
    BY <1>3 DEF Places, Placed, HasSlot
  <2> DEFINE a == [page[k] EXCEPT !.guid = d]
  <2>2. a \in Slot /\ a.guid = d /\ a.uuid = page[k].uuid
    BY <2>1, SlotChanges
  <2>3. s = [page EXCEPT ![k] = a]
    BY <1>3, <2>1
  <2> HIDE DEF a
  <2>4. /\ s \in [DOMAIN Slots -> Slot]
        /\ \A j \in DOMAIN Slots : /\ s[j].uuid = page[j].uuid
                                   /\ s[j].guid = IF j = k THEN d ELSE page[j].guid
    BY <2>1, <2>2, <2>3
  <2>5. \A j, l \in DOMAIN Slots :
           s[j].uuid = s[l].uuid \/ (s[j].guid = s[l].guid /\ s[j].guid # Free) => j = l
    <3> TAKE j, l \in DOMAIN Slots
    <3>1. page[j].uuid = page[l].uuid \/ (page[j].guid = page[l].guid /\ page[j].guid # Free) => j = l
      BY DEF Places
    <3> QED
      BY <2>1, <2>4, <3>1
  <2> QED
    BY <2>4, <2>5 DEF Places
<1>4. \/ s = page
      \/ \E k \in DOMAIN page : s = ClearedSlots(page, {k})
      \/ \E k \in Placed(page, Free), d \in Drivers \ HasSlot(page) : s = [page EXCEPT ![k].guid = d]
  BY DEF PageEdits
<1> QED
  BY <1>1, <1>2, <1>3, <1>4

LEMMA PageStep == ASSUME PlacesInv, SubmitPage PROVE PlacesInv'
<1>1. /\ UNCHANGED <<setting, answers>> /\ page' = NoPage /\ page # NoPage /\ Places(page) /\ Places(slots)
      /\ answers \in [Drivers -> Answer \cup {NoAnswer}] /\ DOMAIN lists = Events /\ DOMAIN given = Events
  BY DEF SubmitPage, PlacesInv, EntrantsTyped
<1> DEFINE k0 == CHOOSE k \in DOMAIN page : TRUE
           gone(s, overwrite) == IF overwrite THEN {s[k0].guid} ELSE {}
<1>2. PICK s \in PageEdits, overwrite \in BOOLEAN :
        /\ slots' = s
        /\ dropped' = dropped \cup (HasSlot(slots) \ HasSlot(s))
        /\ joined' = joined \cup (HasSlot(s) \ HasSlot(slots))
        /\ lists' = [e \in Events |-> IF overwrite THEN Overwritten(lists[e], s[k0]) ELSE lists[e]]
        /\ given' = [e \in Events |-> Restrict(given[e],
             {d \in DOMAIN given[e] \cap HasSlot(s) :
                d \notin gone(s, overwrite)
                  /\ {s[k].uuid : k \in Placed(s, d)} = {slots[k].uuid : k \in Placed(slots, d)}})]
  BY DEF SubmitPage
<1>3. Places(s)
  BY <1>1, EditedPlaces
<1>4. ASSUME NEW e \in Events, NEW x \in DOMAIN given'[e]
      PROVE  /\ x \in HasSlot(s)
             /\ \A k \in Placed(s, x) : s[k].uuid \in DOMAIN lists'[e] /\ lists'[e][s[k].uuid] = given'[e][x]
  <2>1. /\ x \in DOMAIN given[e] /\ x \in HasSlot(s) /\ given'[e][x] = given[e][x]
        /\ x \notin gone(s, overwrite)
        /\ {s[k].uuid : k \in Placed(s, x)} = {slots[k].uuid : k \in Placed(slots, x)}
    BY <1>2, <1>4 DEF Restrict
  <2>2. ASSUME NEW k \in Placed(s, x)
        PROVE  s[k].uuid \in DOMAIN lists'[e] /\ lists'[e][s[k].uuid] = given'[e][x]
    <3>1. k \in DOMAIN Slots /\ s[k].guid = x
      BY <1>3 DEF Placed, Places
    <3>2. PICK j \in Placed(slots, x) : s[k].uuid = slots[j].uuid
      BY <2>1, <2>2
    <3>3. s[k].uuid \in DOMAIN lists[e] /\ lists[e][s[k].uuid] = given[e][x]
      BY <2>1, <3>2 DEF PlacesInv, GivenOnLists
    <3>4. CASE ~overwrite
      BY <1>2, <2>1, <3>3, <3>4
    <3>5. CASE overwrite
      <4>1. k0 \in DOMAIN Slots
        BY <1>1, <3>1 DEF Places
      <4>2. s[k0].uuid # s[k].uuid
        BY <1>3, <2>1, <3>1, <3>5, <4>1 DEF Places
      <4>3. lists'[e] = Overwritten(lists[e], s[k0])
        BY <1>2, <3>5
      <4>4. DOMAIN lists'[e] = DOMAIN lists[e] /\ lists'[e][s[k].uuid] = lists[e][s[k].uuid]
        BY <3>3, <4>2, <4>3 DEF Overwritten
      <4> QED
        BY <2>1, <3>3, <4>4
    <3> QED
      BY <3>4, <3>5
  <2> QED
    BY <2>1, <2>2
<1>5. slots' = s
  BY <1>2
<1>6. GivenOnLists'
  BY <1>4, <1>5 DEF GivenOnLists
<1>7. AnswersMatchPlaces'
  BY <1>1, <1>2 DEF PlacesInv, AnswersMatchPlaces, HasSlot
<1> QED
  BY <1>1, <1>2, <1>3, <1>6, <1>7 DEF PlacesInv, EntrantsTyped, Places

LEMMA EventStep == ASSUME PlacesInv, NEW e \in Events, AddEvent(e) PROVE PlacesInv'
<1>1. /\ UNCHANGED <<setting, slots, answers, page, dropped, joined>> /\ Places(slots)
      /\ DOMAIN lists = Events /\ DOMAIN given = Events
  BY DEF AddEvent, PlacesInv, EntrantsTyped
<1>2. /\ lists' = [lists EXCEPT ![e] = [u \in {slots[k].uuid : k \in DOMAIN slots} |->
                 LET k == CHOOSE j \in DOMAIN slots : slots[j].uuid = u
                 IN  [model |-> slots[k].model, ballast |-> u]]]
      /\ given' = [given EXCEPT ![e] = [d \in HasSlot(slots) |->
                 LET k == CHOOSE j \in Placed(slots, d) : TRUE
                 IN  [model |-> slots[k].model, ballast |-> slots[k].uuid]]]
  BY DEF AddEvent
<1>3. ASSUME NEW d \in HasSlot(slots), NEW k \in Placed(slots, d)
      PROVE  slots[k].uuid \in DOMAIN lists'[e] /\ lists'[e][slots[k].uuid] = given'[e][d]
  <2>1. k \in DOMAIN Slots /\ d \in Drivers /\ DOMAIN slots = DOMAIN Slots
    BY <1>1, <1>3 DEF Placed, HasSlot, Places
  <2>2. (CHOOSE j \in Placed(slots, d) : TRUE) = k
    BY <1>1, <2>1, PlacedOnce
  <2>3. (CHOOSE j \in DOMAIN slots : slots[j].uuid = slots[k].uuid) = k
    BY <1>1, <2>1 DEF Places
  <2>4. given'[e][d] = [model |-> slots[k].model, ballast |-> slots[k].uuid]
    BY <1>1, <1>2, <1>3, <2>2
  <2>5. /\ slots[k].uuid \in DOMAIN lists'[e]
        /\ lists'[e][slots[k].uuid] = [model |-> slots[k].model, ballast |-> slots[k].uuid]
    BY <1>1, <1>2, <2>1, <2>3
  <2> QED
    BY <2>4, <2>5
<1>4. DOMAIN given'[e] = HasSlot(slots)
  BY <1>1, <1>2
<1>5. \A f \in Events \ {e} : lists'[f] = lists[f] /\ given'[f] = given[f]
  BY <1>1, <1>2
<1>6. GivenOnLists'
  BY <1>1, <1>3, <1>4, <1>5 DEF PlacesInv, GivenOnLists
<1>7. DOMAIN lists' = Events /\ DOMAIN given' = Events
  BY <1>1, <1>2
<1> QED
  BY <1>1, <1>6, <1>7 DEF PlacesInv, EntrantsTyped, AnswersMatchPlaces, Places, HasSlot, Placed

LEMMA EntrantsInitInv == EntrantsInit => PlacesInv
<1> SUFFICES ASSUME EntrantsInit PROVE PlacesInv
  OBVIOUS
<1>1. Places(slots)
  BY EntrantsAssumption DEF EntrantsInit, Places
<1>2. \A e \in Events : DOMAIN given[e] = {}
  BY DEF EntrantsInit, NoList
<1>3. \A d \in Drivers : answers[d].status = "none"
  BY NoAnswerStatus DEF EntrantsInit
<1> QED
  BY <1>1, <1>2, <1>3 DEF EntrantsInit, PlacesInv, EntrantsTyped, AnswersMatchPlaces, GivenOnLists

LEMMA EntrantsStepInv == PlacesInv /\ [EntrantsNext]_evars => PlacesInv'
<1> SUFFICES ASSUME PlacesInv, [EntrantsNext]_evars PROVE PlacesInv'
  OBVIOUS
<1>1. ASSUME NEW d \in Drivers, NEW car \in Models,
             (\E team \in TeamNames : SignUp(d, car, team)) \/ Connect(d, car) \/ Import(d, car)
      PROVE  PlacesInv'
  BY <1>1, SignUpStep, JoinSteps
<1>2. ASSUME NEW d \in Drivers, Accept(d) \/ RejectOrDelete(d) PROVE PlacesInv'
  BY <1>2, AcceptStep, RejectStep
<1>3. CASE OpenPage
  <2>1. Places(page)'
    BY <1>3 DEF OpenPage, PlacesInv, Places
  <2> QED
    BY <1>3, <2>1 DEF OpenPage, PlacesInv, EntrantsTyped, Places, AnswersMatchPlaces, GivenOnLists, HasSlot, Placed
<1>4. CASE SubmitPage
  BY <1>4, PageStep
<1>5. ASSUME NEW e \in Events, AddEvent(e) PROVE PlacesInv'
  BY <1>5, EventStep
<1>6. CASE UNCHANGED evars
  BY <1>6 DEF evars, PlacesInv, EntrantsTyped, Places, AnswersMatchPlaces, GivenOnLists, HasSlot, Placed
<1> QED
  BY <1>1, <1>2, <1>3, <1>4, <1>5, <1>6 DEF EntrantsNext

LEMMA PlacesInvKept == PlacesInv => PlacesKept
<1> SUFFICES ASSUME PlacesInv PROVE PlacesKept
  OBVIOUS
<1>1. Places(slots)
  BY DEF PlacesInv
<1>2. PlacesUnique
  <2>1. ASSUME NEW d \in Drivers PROVE Cardinality(Placed(slots, d)) <= 1
    <3>1. CASE Placed(slots, d) = {}
      BY <3>1, FS_EmptySet
    <3>2. ASSUME NEW k \in Placed(slots, d) PROVE Cardinality(Placed(slots, d)) <= 1
      <4>1. Placed(slots, d) = {k}
        BY <1>1, <3>2, PlacedOnce
      <4>2. Cardinality({k}) = 1
        BY FS_Singleton
      <4> QED
        BY <4>1, <4>2
    <3> QED
      BY <3>1, <3>2
  <2>2. \A j, k \in DOMAIN slots : slots[j].uuid = slots[k].uuid => j = k
    BY <1>1 DEF Places
  <2> QED
    BY <2>1, <2>2 DEF PlacesUnique
<1>3. EventSettingsKept
  <2>1. SUFFICES ASSUME NEW e \in Events, NEW d \in DOMAIN given[e], NEW k \in Placed(slots, d),
                        slots[k].model = given[e][d].model
                 PROVE  FinalEntryList(e, FALSE)[k].ballast = given[e][d].ballast
    BY DEF EventSettingsKept
  <2>2. d \in HasSlot(slots) /\ slots[k].uuid \in DOMAIN lists[e] /\ lists[e][slots[k].uuid] = given[e][d]
    BY DEF PlacesInv, GivenOnLists
  <2>3. k \in DOMAIN slots /\ slots[k].guid # Free /\ slots[k] \in Slot
    BY <1>1, <2>2, EntrantsAssumption DEF Placed, HasSlot, Places
  <2>4. FinalEntryList(e, FALSE)[k] = OverwriteProperties(slots[k], lists[e])
    BY <2>3 DEF FinalEntryList, Restrict, CombineEntryLists
  <2>5. OverwriteProperties(slots[k], lists[e]) = [slots[k] EXCEPT !.ballast = lists[e][slots[k].uuid].ballast]
    BY <2>1, <2>2 DEF OverwriteProperties
  <2>6. OverwriteProperties(slots[k], lists[e]).ballast = lists[e][slots[k].uuid].ballast
    BY <2>3, <2>5 DEF Slot
  <2> QED
    BY <2>2, <2>4, <2>6
<1> QED
  BY <1>2, <1>3 DEF PlacesKept, PlacesInv

\* However drivers sign up, join, are accepted, rejected, imported or edited by an
\* administrator: nobody has two places, the answers agree with the places, and whoever
\* keeps a place gets the ballast an event gave him, whatever slots he went through
\* (championships.go, championship_manager.go).
THEOREM EntrantsKeepPlaces == EntrantsSpec => []PlacesKept
BY EntrantsInitInv, EntrantsStepInv, PlacesInvKept, PTL DEF EntrantsSpec
=============================================================================
