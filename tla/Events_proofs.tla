----------------------------- MODULE Events_proofs -----------------------------
(* The parts of an event that run beside it.  For any goroutines, timers, requests and   *)
(* restarts: a race that lies ahead has its timer, no other timer is left, and a         *)
(* recurring race recurs.  For any ports: the plugins of acServer are chained.  For any  *)
(* drivers: a driver swap punishes only who leaves his box too early.  For any forms and  *)
(* requests: acServer runs the files of its own event, the presets stay what was asked   *)
(* for, and results are combined with those of the time attack they were driven in.  For  *)
(* any leads: reminders are sent when, and only when, they are due.                      *)
EXTENDS RaceScheduler, Plugins, DriverSwaps, RaceSetup, Reminders, FiniteSetTheorems, TLAPS

------------------------------------------------------------------------------
(* The inductive invariant.                                                     *)

Armers == {"once", "recurring", "already", "remove", "delete"}
Others == {"edit", "started", "missed", "exhausted"}

Loading == [pc : {"load"}, date : Time, how : Armers, outer : Race, stale : BOOLEAN]
Arming == [pc : {"arm", "save"}, date : Time, how : Armers, outer : Race, copy : Race, stale : BOOLEAN]
Saves == [pc : {"save"}, copy : Race, how : Others, stale : BOOLEAN]
Copying == [pc : {"delete", "run", "scan"}, copy : Race, stale : BOOLEAN]
Beginning == [pc : {"begin"}, stale : BOOLEAN]
Task == {NoTask} \cup Loading \cup Arming \cup Saves \cup Copying \cup Beginning

Armed(t) == th[t].pc = "save" /\ th[t].how \in Armers
Holding == \E t \in Threads : Armed(t)
Doomed == \E t \in Threads : th[t].pc = "save" /\ th[t].stale
Excused == "overtaken" \in disturbed \/ Doomed

\* The entry is the one of the schedule, but for a race that was started.
EntryFits(c) == c.sched # 0 => c.entry.sched = c.sched

WorldFits ==
  /\ now \in 1 .. Until /\ phase \in {"down", "init", "up"}
  /\ startTimers \subseteq [no : 1 .. MaxTimers, at : 1 .. Until]
  /\ slot \in 0 .. MaxTimers /\ made \in 0 .. MaxTimers
  /\ wanted \in {"no", "once", "recurring"}
  /\ disturbed \subseteq {"overtaken", "failedSchedule", "failedStart", "staleEntry", "afterDeletion"}
  /\ store \in Race /\ EntryFits(store)
OneTimer ==
  /\ \A tm \in startTimers : tm.no = slot
  /\ \A a, b \in startTimers : a = b
  /\ phase = "down" => startTimers = {} /\ \A t \in Threads : th[t] = NoTask
TaskFits(t) ==
  /\ th[t] \in Task
  /\ th[t].pc \in {"load", "arm"} \/ Armed(t) =>
        (th[t].how \in {"remove", "delete"} <=> th[t].date = 0) /\ EntryFits(th[t].outer)
  /\ th[t].pc \in {"arm", "save", "delete", "run", "scan"} => EntryFits(th[t].copy)
  /\ Armed(t) => /\ th[t].copy.sched = th[t].date /\ th[t].copy.entry.sched = th[t].date
                 /\ th[t].how = "recurring" => th[t].copy.recur
                 /\ th[t].how \notin {"recurring", "already"} => ~th[t].copy.recur
  /\ (th[t].pc = "arm" \/ Armed(t)) /\ th[t].copy.deleted => "afterDeletion" \in disturbed
  /\ th[t].pc = "scan" => ~th[t].copy.deleted
CopyFresh(t) ==
  th[t].pc # "idle" /\ ~th[t].stale =>
    /\ th[t].pc \in {"arm", "run", "scan"} => th[t].copy = store
    /\ th[t].pc = "save" => /\ th[t].copy.deleted = store.deleted
                            /\ th[t].how = "already" => th[t].copy.recur = store.recur
                            /\ th[t].how = "edit" => th[t].copy = store
                            /\ th[t].how = "started" => ~store.recur /\ th[t].copy = [store EXCEPT !.sched = 0]
                            /\ th[t].how = "missed" =>
                                 /\ th[t].copy.sched = 0 /\ th[t].copy.entry = NoEntry /\ ~th[t].copy.recur
                                 /\ store.recur => "staleEntry" \in disturbed
                            /\ th[t].how = "exhausted" =>
                                 /\ th[t].copy.entry = store.entry /\ ~th[t].copy.recur
                                 /\ store.sched # 0 => th[t].copy.sched = store.sched
                                 /\ store.sched = 0 => th[t].copy.sched <= now
                                 /\ Entered(th[t].copy).sched = Entered(store).sched

WantedFits ==
  /\ "overtaken" \notin disturbed /\ wanted = "recurring" => store.recur /\ ~store.deleted
  /\ "overtaken" \notin disturbed /\ store.recur /\ ~store.deleted => wanted = "recurring"
TimerOfHolder ==
  ~Excused /\ Holding => \A tm \in startTimers : \E t \in Threads : Armed(t) /\ tm.at = th[t].copy.sched
TimerOfStore ==
  ~Excused /\ ~Holding => \A tm \in startTimers :
     /\ tm.at = Entered(store).sched
     /\ "staleEntry" \notin disturbed => store.sched # 0
     /\ disturbed \cap {"staleEntry", "afterDeletion"} = {} => ~store.deleted
Firing(t) == /\ \/ th[t].pc \in {"begin", "run"}
                \/ th[t].pc = "save" /\ th[t].how \in {"started", "missed"}
             /\ ~th[t].stale
FiredTimers ==
  ~Excused /\ ~Holding => \A t \in Threads : Firing(t) => startTimers = {} /\ Entered(store).sched <= now
DeletedTimers ==
  ~Excused /\ ~Holding => \A t \in Threads : th[t].pc = "delete" /\ ~th[t].stale =>
     \/ startTimers = {} /\ Entered(store).sched = 0
     \/ th[t].copy = store /\ store.sched = 0
Serving == phase = "up" \/ (phase = "init" /\ ~Scanning)
FutureTimers ==
  ~Excused /\ ~Holding /\ "failedSchedule" \notin disturbed /\ Serving /\ ~store.deleted /\ store.sched > now
     => startTimers # {}
Cleared ==
  ~Excused /\ ~Holding /\ "staleEntry" \notin disturbed /\ Serving /\ ~store.deleted /\ store.sched = 0
     => Entered(store).sched <= now
HolderTimers ==
  ~Excused /\ "failedSchedule" \notin disturbed => \A t \in Threads :
     Armed(t) /\ th[t].how \in {"once", "recurring", "already"} =>
       \/ startTimers # {} \/ \E o \in Threads \ {t} : Armed(o)
       \/ (\E o \in Threads : th[o].pc = "begin") /\ th[t].copy.sched <= now
Late(t) == /\ \/ th[t].pc \in {"begin", "run", "arm", "save"}
              \/ th[t].pc = "load" /\ th[t].how = "already"
           /\ th[t].stale
Carries(t) == \/ th[t].pc \in {"begin", "run"}
              \/ th[t].pc \in {"load", "arm"} /\ th[t].how = "already"
              \/ th[t].pc = "save" /\ th[t].how = "exhausted"
RecurrenceTimers ==
  disturbed = {} /\ wanted = "recurring" /\ Serving /\ ~Holding /\ (\A t \in Threads : ~Late(t) /\ ~Carries(t))
     => startTimers # {}
TasksFit == th \in [Threads -> Task] /\ \A t \in Threads : TaskFits(t)
CopiesFresh == \A t \in Threads : CopyFresh(t)
SInv ==
  /\ WorldFits /\ OneTimer /\ TasksFit /\ CopiesFresh /\ WantedFits
  /\ TimerOfHolder /\ TimerOfStore /\ FiredTimers /\ DeletedTimers
  /\ Cleared /\ FutureTimers /\ HolderTimers /\ RecurrenceTimers

------------------------------------------------------------------------------
(* Lemmas on races, tasks and timers.                                           *)

LEMMA Numbers ==
  /\ Until \in Nat /\ Until >= 1 /\ MaxTimers \in Nat /\ MaxRestarts \in Nat
  /\ Time = 0 .. Until /\ 0 \in Time
<1>1. Until \in Nat /\ Until # 0 /\ MaxTimers \in Nat /\ MaxRestarts \in Nat
  BY SchedulerAssumption
<1>2. 0 \in 0 .. Until
  BY <1>1
<1> QED
  BY <1>1, <1>2 DEF Time

\* The updates of a race, one by one.
WithSched(c, d) == [c EXCEPT !.sched = d]
WithRecur(c, b) == [c EXCEPT !.recur = b]
WithEntry(c, e) == [c EXCEPT !.entry = e]
WithDeleted(c, b) == [c EXCEPT !.deleted = b]

LEMMA RaceFields ==
  ASSUME NEW c \in Race
  PROVE  /\ c.sched \in Time /\ c.recur \in BOOLEAN /\ c.deleted \in BOOLEAN
         /\ c.entry \in [sched : Time, recur : BOOLEAN]
         /\ c.entry.sched \in Time /\ c.entry.recur \in BOOLEAN
BY DEF Race

LEMMA RaceUpdated ==
  ASSUME NEW c \in Race
  PROVE  /\ \A d \in Time : /\ WithSched(c, d) \in Race /\ WithSched(c, d).sched = d
                            /\ WithSched(c, d).recur = c.recur /\ WithSched(c, d).entry = c.entry
                            /\ WithSched(c, d).deleted = c.deleted
         /\ \A b \in BOOLEAN :
              /\ WithRecur(c, b) \in Race /\ WithRecur(c, b).sched = c.sched
              /\ WithRecur(c, b).recur = b /\ WithRecur(c, b).entry = c.entry
              /\ WithRecur(c, b).deleted = c.deleted
              /\ WithDeleted(c, b) \in Race /\ WithDeleted(c, b).sched = c.sched
              /\ WithDeleted(c, b).recur = c.recur /\ WithDeleted(c, b).entry = c.entry
              /\ WithDeleted(c, b).deleted = b
         /\ \A e \in [sched : Time, recur : BOOLEAN] :
              /\ WithEntry(c, e) \in Race /\ WithEntry(c, e).sched = c.sched
              /\ WithEntry(c, e).recur = c.recur /\ WithEntry(c, e).entry = e
              /\ WithEntry(c, e).deleted = c.deleted
BY DEF WithSched, WithRecur, WithEntry, WithDeleted, Race

LEMMA EnteredIs ==
  ASSUME NEW c \in Race
  PROVE  /\ Entered(c) \in Race /\ Entered(c).entry = c.entry /\ Entered(c).deleted = c.deleted
         /\ c.entry.sched = 0 => Entered(c) = c
         /\ c.entry.sched # 0 => Entered(c).sched = c.entry.sched /\ Entered(c).recur = c.entry.recur
         /\ Entered(c).sched = IF c.entry.sched = 0 THEN c.sched ELSE c.entry.sched
         /\ EntryFits(c) /\ c.sched # 0 => Entered(c).sched = c.sched
         /\ EntryFits(c) => EntryFits(Entered(c))
<1>1. CASE c.entry.sched = 0
  <2>1. Entered(c) = c
    BY <1>1 DEF Entered
  <2>2. EntryFits(c) /\ c.sched # 0 => FALSE
    BY <1>1 DEF EntryFits
  <2>3. EntryFits(c) \/ ~EntryFits(c)
    OBVIOUS
  <2> QED
    BY <1>1, <2>1, <2>2
<1>2. CASE c.entry.sched # 0
  <2>1. PICK d \in Time : d = c.entry.sched
    BY RaceFields
  <2>2. PICK b \in BOOLEAN : b = c.entry.recur
    BY RaceFields
  <2>3. PICK c1 : c1 = WithSched(c, d)
    OBVIOUS
  <2>4. PICK c2 : c2 = WithRecur(c1, b)
    OBVIOUS
  <2>5. c1 \in Race /\ c1.sched = d /\ c1.entry = c.entry /\ c1.deleted = c.deleted
    BY <2>3, RaceUpdated
  <2>6. Entered(c) = c2
    BY <1>2, <2>1, <2>2, <2>3, <2>4, <2>5, Zenon DEF Entered, WithSched, WithRecur
  <2>7. c2 \in Race /\ c2.sched = d /\ c2.entry = c.entry /\ c2.deleted = c.deleted /\ c2.recur = b
    BY <2>4, <2>5, RaceUpdated
  <2> QED
    BY <1>2, <2>1, <2>2, <2>6, <2>7 DEF EntryFits
<1> QED
  BY <1>1, <1>2

\* What a task has, by its step.
LEMMA TaskIs ==
  ASSUME NEW x \in Task
  PROVE  /\ x.pc \in {"idle", "load", "arm", "save", "delete", "begin", "run", "scan"}
         /\ x.pc = "idle" <=> x = NoTask
         /\ x.pc # "idle" => x.stale \in BOOLEAN
         /\ x.pc = "load" => x \in Loading
         /\ x.pc = "arm" => x \in Arming
         /\ x.pc = "save" => x \in Arming \cup Saves /\ x.how \in Armers \cup Others /\ x.copy \in Race
         /\ x.pc = "save" /\ x.how \in Armers => x \in Arming
         /\ x.pc = "save" /\ x.how \notin Armers => x \in Saves
         /\ x.pc \in {"delete", "run", "scan"} => x \in Copying
         /\ x.pc = "begin" => x \in Beginning
         /\ x.pc \in {"arm", "save", "delete", "run", "scan"} => x.copy \in Race
         /\ x.pc \in {"load", "arm"} => x.how \in Armers /\ x.date \in Time /\ x.outer \in Race
<1>1. CASE x = NoTask
  BY <1>1 DEF NoTask
<1>2. CASE x \in Loading
  BY <1>2 DEF Loading, NoTask
<1>3. CASE x \in Arming
  BY <1>3 DEF Arming, NoTask
<1>4. CASE x \in Saves
  BY <1>4 DEF Saves, NoTask, Armers, Others
<1>5. CASE x \in Copying
  BY <1>5 DEF Copying, NoTask
<1>6. CASE x \in Beginning
  BY <1>6 DEF Beginning, NoTask
<1> QED
  BY <1>1, <1>2, <1>3, <1>4, <1>5, <1>6 DEF Task

LEMMA AgedIs ==
  ASSUME NEW x \in Task
  PROVE  /\ Aged(x) \in Task /\ Aged(x).pc = x.pc
         /\ x.pc # "idle" => Aged(x).stale
         /\ x.pc = "idle" => Aged(x) = NoTask
         /\ x.pc \in {"load", "arm"} => /\ Aged(x).how = x.how /\ Aged(x).date = x.date
                                        /\ Aged(x).outer = x.outer
         /\ x.pc = "save" => Aged(x).how = x.how
         /\ x.pc = "save" /\ x.how \in Armers => Aged(x).date = x.date /\ Aged(x).outer = x.outer
         /\ x.pc \in {"arm", "save", "delete", "run", "scan"} => Aged(x).copy = x.copy
<1>1. CASE x = NoTask
  BY <1>1 DEF NoTask, Aged, Task
<1>2. CASE x \in Loading
  <2>1. Aged(x) = [x EXCEPT !.stale = TRUE]
    BY <1>2 DEF Aged, Loading, NoTask
  <2>2. x.pc = "load"
    BY <1>2 DEF Loading
  <2> QED
    BY <1>2, <2>1, <2>2 DEF Loading, Task
<1>3. CASE x \in Arming
  <2>1. Aged(x) = [x EXCEPT !.stale = TRUE]
    BY <1>3 DEF Aged, Arming, NoTask
  <2>2. x.pc \in {"arm", "save"}
    BY <1>3 DEF Arming
  <2> QED
    BY <1>3, <2>1, <2>2 DEF Arming, Task
<1>4. CASE x \in Saves
  <2>1. Aged(x) = [x EXCEPT !.stale = TRUE]
    BY <1>4 DEF Aged, Saves, NoTask
  <2>2. x.pc = "save" /\ x.how \notin Armers
    BY <1>4 DEF Saves, Armers, Others
  <2> QED
    BY <1>4, <2>1, <2>2 DEF Saves, Task
<1>5. CASE x \in Copying
  <2>1. Aged(x) = [x EXCEPT !.stale = TRUE]
    BY <1>5 DEF Aged, Copying, NoTask
  <2>2. x.pc \in {"delete", "run", "scan"}
    BY <1>5 DEF Copying
  <2> QED
    BY <1>5, <2>1, <2>2 DEF Copying, Task
<1>6. CASE x \in Beginning
  <2>1. Aged(x) = [x EXCEPT !.stale = TRUE]
    BY <1>6 DEF Aged, Beginning, NoTask
  <2>2. x.pc = "begin"
    BY <1>6 DEF Beginning
  <2> QED
    BY <1>6, <2>1, <2>2 DEF Beginning, Task
<1> QED
  BY <1>1, <1>2, <1>3, <1>4, <1>5, <1>6 DEF Task

LEMMA NoneRunning ==
  ASSUME OneTimer
  PROVE  Running = {}
BY DEF OneTimer, Running

LEMMA NextIs ==
  ASSUME WorldFits, NEW from \in Time
  PROVE  NextOccurrence(from) \in Time
<1>1. now \in 1 .. Until
  BY DEF WorldFits
<1>2. PICK u : u = Until
  OBVIOUS
<1>3. u \in Nat /\ now \in 1 .. u /\ from \in 0 .. u
  BY <1>1, <1>2, Numbers
<1>4. NextOccurrence(from) \in 0 .. u
  BY <1>2, <1>3 DEF NextOccurrence
<1> QED
  BY <1>2, <1>4, Numbers

------------------------------------------------------------------------------
(* A thread goes on and the race is not saved.                                  *)

LEMMA RaceMoved ==
  ASSUME SInv, NEW t \in Threads, NEW s \in Task, Become(t, s), UNCHANGED <<store, now>>,
         disturbed \subseteq disturbed', TaskFits(t)', CopyFresh(t)'
  PROVE  /\ th' \in [Threads -> Task] /\ th'[t] = s
         /\ \A o \in Threads \ {t} : th'[o] = th[o]
         /\ TasksFit' /\ CopiesFresh'
<1>1. th \in [Threads -> Task] /\ th' = [th EXCEPT ![t] = s]
  BY DEF SInv, TasksFit, Become
<1>2. /\ th' \in [Threads -> Task] /\ th'[t] = s
      /\ \A o \in Threads \ {t} : th'[o] = th[o]
  BY <1>1
<1>3. \A o \in Threads \ {t} : TaskFits(o)'
  <2> SUFFICES ASSUME NEW o \in Threads \ {t}
               PROVE  TaskFits(o)'
    OBVIOUS
  <2>1. TaskFits(o) /\ th'[o] = th[o]
    BY <1>2 DEF SInv, TasksFit
  <2> QED
    BY <2>1 DEF TaskFits, Armed
<1>4. \A o \in Threads \ {t} : CopyFresh(o)'
  <2> SUFFICES ASSUME NEW o \in Threads \ {t}
               PROVE  CopyFresh(o)'
    OBVIOUS
  <2>1. CopyFresh(o) /\ th'[o] = th[o]
    BY <1>2 DEF SInv, CopiesFresh
  <2> QED
    BY <2>1 DEF CopyFresh
<1> QED
  BY <1>2, <1>3, <1>4 DEF TasksFit, CopiesFresh

\* It changes no timers, does not hold one and holds none then.
LEMMA Turn ==
  ASSUME SInv, NEW t \in Threads, NEW s \in Task, Become(t, s),
         UNCHANGED <<now, phase, store, startTimers, slot, made, wanted>>, phase # "down",
         disturbed \subseteq disturbed',
         disturbed' \subseteq {"overtaken", "failedSchedule", "failedStart", "staleEntry", "afterDeletion"},
         th[t].pc # "save", ~Armed(t)', TaskFits(t)', CopyFresh(t)',
         th[t].pc = "begin" /\ Holding => "overtaken" \in disturbed',
         Firing(t)' /\ ~Excused' /\ ~Holding => startTimers = {} /\ Entered(store).sched <= now,
         th'[t].pc = "delete" /\ ~th'[t].stale /\ ~Excused' /\ ~Holding =>
           \/ startTimers = {} /\ Entered(store).sched = 0
           \/ th'[t].copy = store /\ store.sched = 0,
         Serving' => Serving,
         disturbed' = {} /\ wanted = "recurring" /\ (Late(t) \/ Carries(t)) => Late(t)' \/ Carries(t)'
  PROVE  SInv'
<1>1. /\ th'[t] = s /\ \A o \in Threads \ {t} : th'[o] = th[o]
      /\ TasksFit' /\ CopiesFresh'
  BY RaceMoved
<1>2. \A o \in Threads : Armed(o)' <=> Armed(o)
  BY <1>1 DEF Armed
<1>3. Holding' <=> Holding
  BY <1>2 DEF Holding
<1>4. Excused => Excused'
  BY <1>1 DEF Excused, Doomed
<1>5. WorldFits' /\ OneTimer'
  BY DEF SInv, WorldFits, OneTimer
<1>6. WantedFits'
  BY DEF SInv, WantedFits
<1>7. TimerOfHolder'
  <2>1. \A o \in Threads : Armed(o) => th'[o] = th[o]
    BY <1>1 DEF Armed
  <2> QED
    BY <1>2, <1>3, <1>4, <2>1 DEF SInv, TimerOfHolder
<1>8. TimerOfStore'
  BY <1>3, <1>4 DEF SInv, TimerOfStore
<1>9. FiredTimers'
  <2>1. \A o \in Threads \ {t} : Firing(o)' <=> Firing(o)
    BY <1>1 DEF Firing
  <2> QED
    BY <1>3, <1>4, <2>1 DEF SInv, FiredTimers
<1>10. DeletedTimers'
  BY <1>1, <1>3, <1>4 DEF SInv, DeletedTimers
<1>11. FutureTimers'
  BY <1>3, <1>4 DEF SInv, FutureTimers
<1>12. HolderTimers'
  <2> SUFFICES ASSUME ~Excused', "failedSchedule" \notin disturbed', NEW o \in Threads, Armed(o)',
                      th'[o].how \in {"once", "recurring", "already"}
               PROVE  \/ startTimers # {} \/ \E u \in Threads \ {o} : Armed(u)'
                      \/ (\E u \in Threads : th'[u].pc = "begin") /\ th'[o].copy.sched <= now
    BY DEF HolderTimers
  <2>1. Armed(o) /\ th'[o] = th[o] /\ Holding
    BY <1>1, <1>2 DEF Armed, Holding
  <2>2. \/ startTimers # {} \/ \E u \in Threads \ {o} : Armed(u)
        \/ (\E u \in Threads : th[u].pc = "begin") /\ th[o].copy.sched <= now
    BY <1>4, <2>1 DEF SInv, HolderTimers
  <2>3. th[t].pc # "begin"
    BY <2>1 DEF Excused
  <2> QED
    BY <1>1, <1>2, <2>1, <2>2, <2>3
<1>13. RecurrenceTimers'
  <2>1. \A o \in Threads \ {t} : (Late(o)' <=> Late(o)) /\ (Carries(o)' <=> Carries(o))
    BY <1>1 DEF Late, Carries
  <2>2. disturbed' = {} => disturbed = {}
    OBVIOUS
  <2> QED
    BY <1>3, <2>1, <2>2 DEF SInv, RecurrenceTimers
<1>14. Cleared'
  BY <1>3, <1>4 DEF SInv, Cleared
<1> QED
  BY <1>1, <1>5, <1>6, <1>7, <1>8, <1>9, <1>10, <1>11, <1>12, <1>13, <1>14 DEF SInv

------------------------------------------------------------------------------
(* Requests, and the callbacks of timers.                                       *)

\* What holds whenever a thread is at some step.
LEMMA Now ==
  ASSUME SInv, NEW t \in Threads
  PROVE  /\ th[t] \in Task /\ store \in Race /\ EntryFits(store) /\ TaskFits(t) /\ CopyFresh(t)
         /\ th[t] # NoTask => phase # "down"
         /\ disturbed \subseteq {"overtaken", "failedSchedule", "failedStart", "staleEntry", "afterDeletion"}
         /\ now \in 1 .. Until
BY DEF SInv, TasksFit, CopiesFresh, WorldFits, OneTimer

LEMMA Unscheduled0 ==
  Unscheduled \in Race /\ EntryFits(Unscheduled)
<1>1. NoEntry \in [sched : Time, recur : BOOLEAN]
  BY Numbers DEF NoEntry
<1>2. Unscheduled \in Race
  BY <1>1, Numbers DEF Unscheduled, Race
<1>3. Unscheduled.sched = 0
  BY DEF Unscheduled
<1> QED
  BY <1>2, <1>3 DEF EntryFits

LEMMA ScheduleForIs ==
  ASSUME NEW day \in Time, NEW how \in Armers, NEW outer \in Race, NEW x, x = ScheduleFor(day, how, outer)
  PROVE  /\ x \in Task /\ x \in Loading /\ x.pc = "load" /\ x.date = day /\ x.how = how
         /\ x.outer = outer /\ ~x.stale
BY DEF ScheduleFor, Loading, Task

\* The race is to be loaded.
LEMMA LoadingTurn ==
  ASSUME SInv, NEW t \in Threads, th[t] = NoTask, phase = "up", NEW day \in Time, NEW how \in Armers,
         NEW outer \in Race, EntryFits(outer), how \in {"remove", "delete"} <=> day = 0,
         Become(t, ScheduleFor(day, how, outer)),
         UNCHANGED <<now, phase, store, startTimers, slot, made, wanted, disturbed>>
  PROVE  SInv'
<1>1. PICK x : x = ScheduleFor(day, how, outer)
  OBVIOUS
<1>2. x \in Task /\ x.pc = "load" /\ x.date = day /\ x.how = how /\ x.outer = outer /\ ~x.stale
  BY <1>1, ScheduleForIs
<1>3. th'[t] = x /\ th[t].pc = "idle"
  BY <1>1 DEF Become, SInv, TasksFit, NoTask
<1>4. TaskFits(t)'
  BY <1>2, <1>3 DEF TaskFits, Armed
<1>5. CopyFresh(t)'
  BY <1>2, <1>3 DEF CopyFresh
<1>6. ~Armed(t)' /\ ~Firing(t)' /\ ~Late(t) /\ ~Carries(t)
  BY <1>2, <1>3 DEF Armed, Firing, Late, Carries
<1>7. Serving
  BY DEF Serving
<1>8. Become(t, x)
  BY <1>1
<1>9. disturbed' \subseteq {"overtaken", "failedSchedule", "failedStart", "staleEntry", "afterDeletion"}
  BY Now
<1> QED
  BY <1>2, <1>3, <1>4, <1>5, <1>6, <1>7, <1>8, <1>9, Turn

\* A copy of the race is loaded, to be changed, deleted or scanned.
LEMMA CopyingTurn ==
  ASSUME SInv, NEW t \in Threads, th[t] = NoTask, phase = "up", NEW x \in Task, Become(t, x),
         x.copy = store, ~x.stale, (x.pc \in {"delete", "scan"} \/ (x.pc = "save" /\ x.how = "edit")),
         x.pc = "delete" => store.sched = 0, x.pc = "scan" => ~store.deleted,
         UNCHANGED <<now, phase, store, startTimers, slot, made, wanted, disturbed>>
  PROVE  SInv'
<1>1. th'[t] = x /\ th[t].pc = "idle"
  BY DEF Become, SInv, TasksFit, NoTask
<1>2. ~Armed(t)' /\ ~Firing(t)' /\ ~Late(t) /\ ~Carries(t)
  BY <1>1 DEF Armed, Armers, Firing, Late, Carries
<1>3. TaskFits(t)'
  BY <1>1, <1>2, Now DEF TaskFits
<1>4. CopyFresh(t)'
  BY <1>1 DEF CopyFresh
<1>5. Serving
  BY DEF Serving
<1>6. disturbed' \subseteq {"overtaken", "failedSchedule", "failedStart", "staleEntry", "afterDeletion"}
  BY Now
<1> QED
  BY <1>1, <1>2, <1>3, <1>4, <1>5, <1>6, Turn

LEMMA CallScheduleStep ==
  ASSUME SInv, NEW h \in Handlers, CallSchedule(h)
  PROVE  SInv'
<1>1. h \in Threads /\ th[h] = NoTask /\ phase = "up"
  BY DEF CallSchedule, ScheduleRequest, Threads
<1>2. UNCHANGED <<now, phase, store, startTimers, slot, made, wanted, disturbed>>
  BY DEF CallSchedule
<1>3. PICK day \in 1 .. Until, how \in {"once", "recurring"} : Become(h, ScheduleFor(day, how, Unscheduled))
  BY DEF CallSchedule
<1>4. day \in Time /\ day # 0
  <2>1. Until \in Nat
    BY Numbers
  <2> QED
    BY <1>3, <2>1 DEF Time
<1>5. how \in Armers /\ how \notin {"remove", "delete"}
  BY <1>3 DEF Armers
<1> QED
  BY <1>1, <1>2, <1>3, <1>4, <1>5, Unscheduled0, LoadingTurn

LEMMA CallRemoveStep ==
  ASSUME SInv, NEW h \in Handlers, CallRemove(h)
  PROVE  SInv'
<1>1. h \in Threads /\ th[h] = NoTask /\ phase = "up"
  BY DEF CallRemove, ScheduleRequest, Threads
<1>2. /\ UNCHANGED <<now, phase, store, startTimers, slot, made, wanted, disturbed>>
      /\ Become(h, ScheduleFor(0, "remove", Unscheduled))
  BY DEF CallRemove
<1>3. "remove" \in Armers
  BY DEF Armers
<1> QED
  BY <1>1, <1>2, <1>3, Unscheduled0, Numbers, LoadingTurn

LEMMA CallDeleteStep ==
  ASSUME SInv, NEW h \in Handlers, CallDelete(h)
  PROVE  SInv'
<1>1. h \in Threads /\ th[h] = NoTask /\ phase = "up"
  BY DEF CallDelete, ScheduleRequest, Threads
<1>2. UNCHANGED <<now, phase, store, startTimers, slot, made, wanted, disturbed>>
  BY DEF CallDelete
<1>3. store \in Race /\ EntryFits(store)
  BY <1>1, Now
<1>4. CASE store.sched # 0
  <2>1. Become(h, ScheduleFor(0, "delete", store)) /\ "delete" \in Armers
    BY <1>4 DEF CallDelete, Armers
  <2> QED
    BY <1>1, <1>2, <1>3, <2>1, Numbers, LoadingTurn
<1>5. CASE store.sched = 0
  <2>1. PICK x : x = [pc |-> "delete", copy |-> store, stale |-> FALSE]
    OBVIOUS
  <2>2. x \in Copying /\ x.pc = "delete" /\ x.copy = store /\ ~x.stale
    BY <1>3, <2>1 DEF Copying
  <2>3. x \in Task
    BY <2>2 DEF Task
  <2>4. Become(h, x)
    BY <1>5, <2>1 DEF CallDelete
  <2> QED
    BY <1>1, <1>2, <1>5, <2>2, <2>3, <2>4, CopyingTurn
<1> QED
  BY <1>4, <1>5

LEMMA CallEditStep ==
  ASSUME SInv, NEW h \in Handlers, CallEdit(h)
  PROVE  SInv'
<1>1. h \in Threads /\ th[h] = NoTask /\ phase = "up"
  BY DEF CallEdit, ScheduleRequest, Threads
<1>2. UNCHANGED <<now, phase, store, startTimers, slot, made, wanted, disturbed>>
  BY DEF CallEdit
<1>3. PICK x : x = [pc |-> "save", copy |-> store, how |-> "edit", stale |-> FALSE]
  OBVIOUS
<1>4. x \in Saves /\ x.pc = "save" /\ x.copy = store /\ ~x.stale /\ x.how = "edit"
  BY <1>1, <1>3, Now DEF Saves, Others
<1>5. x \in Task
  BY <1>4 DEF Task
<1>6. Become(h, x)
  BY <1>3 DEF CallEdit
<1> QED
  BY <1>1, <1>2, <1>4, <1>5, <1>6, CopyingTurn

LEMMA CheckStep ==
  ASSUME SInv, Check
  PROVE  SInv'
<1>1. "init" \in Threads /\ th["init"] = NoTask /\ phase = "up" /\ ~store.deleted
  BY DEF Check, Threads
<1>2. UNCHANGED <<now, phase, store, startTimers, slot, made, wanted, disturbed>>
  BY DEF Check
<1>3. PICK x : x = [pc |-> "scan", copy |-> store, stale |-> FALSE]
  OBVIOUS
<1>4. x \in Copying /\ x.pc = "scan" /\ x.copy = store /\ ~x.stale
  BY <1>1, <1>3, Now DEF Copying
<1>5. x \in Task
  BY <1>4 DEF Task
<1>6. Become("init", x)
  BY <1>3 DEF Check
<1> QED
  BY <1>1, <1>2, <1>4, <1>5, <1>6, CopyingTurn

\* A step that neither begins nor ends a scan.
LEMMA StillServing ==
  ASSUME SInv, NEW t \in Threads, NEW s, Become(t, s), th[t].pc # "scan", s.pc # "scan", phase' = phase
  PROVE  Serving' <=> Serving
<1>1. th'[t] = s /\ \A o \in Threads \ {t} : th'[o] = th[o]
  BY DEF SInv, TasksFit, Become
<1>2. "init" \in Threads
  BY DEF Threads
<1> QED
  BY <1>1, <1>2 DEF Serving, Scanning

LEMMA LoadStep ==
  ASSUME SInv, NEW t \in Threads, Load(t)
  PROVE  SInv'
<1>1. th[t].pc = "load" /\ th[t] \in Loading /\ phase # "down"
  <2>1. th[t].pc = "load" /\ th[t] # NoTask
    BY DEF Load, NoTask
  <2> QED
    BY <2>1, Now, TaskIs
<1>2. PICK x : x = [pc |-> "arm", date |-> th[t].date, how |-> th[t].how, outer |-> th[t].outer,
                    copy |-> store, stale |-> FALSE]
  OBVIOUS
<1>3. /\ x \in Arming /\ x.pc = "arm" /\ x.date = th[t].date /\ x.how = th[t].how /\ x.outer = th[t].outer
      /\ x.copy = store /\ ~x.stale
  BY <1>1, <1>2, Now DEF Arming, Loading
<1>4. x \in Task
  BY <1>3 DEF Task
<1>5. Become(t, x) /\ UNCHANGED <<now, phase, store, startTimers, slot, made, wanted>>
  BY <1>2 DEF Load
<1>6. th'[t] = x
  BY <1>5 DEF Become, SInv, TasksFit
<1>7. /\ disturbed \subseteq disturbed'
      /\ store.deleted => "afterDeletion" \in disturbed'
      /\ disturbed' \subseteq {"overtaken", "failedSchedule", "failedStart", "staleEntry", "afterDeletion"}
  BY Now DEF Load, Lost
<1>8. TaskFits(t)'
  BY <1>1, <1>3, <1>4, <1>6, <1>7, Now DEF TaskFits, Armed
<1>9. CopyFresh(t)'
  BY <1>3, <1>5, <1>6 DEF CopyFresh
<1>10. ~Armed(t)' /\ ~Firing(t)' /\ (Late(t) \/ Carries(t) => Carries(t)')
  BY <1>1, <1>3, <1>6 DEF Armed, Firing, Late, Carries
<1>11. Serving' <=> Serving
  BY <1>1, <1>3, <1>5, StillServing
<1> QED
  BY <1>1, <1>3, <1>4, <1>5, <1>6, <1>7, <1>8, <1>9, <1>10, <1>11, Turn

LEMMA BetweenHeld ==
  Holding => Between = {"overtaken"}
BY DEF Holding, Armed, Armers, Between

LEMMA BeginStep ==
  ASSUME SInv, NEW cb \in Callbacks, Begin(cb)
  PROVE  SInv'
<1>1. cb \in Threads /\ th[cb].pc = "begin" /\ phase # "down" /\ th[cb].stale \in BOOLEAN
  <2>1. cb \in Threads /\ th[cb].pc = "begin" /\ th[cb] # NoTask
    BY DEF Begin, Threads, NoTask
  <2> QED
    BY <2>1, Now, TaskIs
<1>2. PICK x : x = [pc |-> "run", copy |-> store, stale |-> FALSE]
  OBVIOUS
<1>3. x \in Copying /\ x.pc = "run" /\ x.copy = store /\ ~x.stale
  BY <1>1, <1>2, Now DEF Copying
<1>4. x \in Task
  BY <1>3 DEF Task
<1>5. Become(cb, x) /\ UNCHANGED <<now, phase, store, startTimers, slot, made, wanted>>
  BY <1>2 DEF Begin
<1>6. th'[cb] = x
  BY <1>1, <1>5 DEF Become, SInv, TasksFit
<1>7. /\ disturbed \subseteq disturbed'
      /\ Holding => "overtaken" \in disturbed'
      /\ th[cb].stale => "overtaken" \in disturbed'
      /\ disturbed' \subseteq {"overtaken", "failedSchedule", "failedStart", "staleEntry", "afterDeletion"}
  BY <1>1, Now, BetweenHeld DEF Begin, Lost, Between
<1>8. TaskFits(cb)'
  BY <1>1, <1>3, <1>4, <1>6, Now DEF TaskFits, Armed
<1>9. CopyFresh(cb)'
  BY <1>3, <1>5, <1>6 DEF CopyFresh
<1>10. ~Armed(cb)' /\ Carries(cb)'
  BY <1>3, <1>6 DEF Armed, Carries
<1>11. ~Excused' /\ ~Holding => startTimers = {} /\ Entered(store).sched <= now
  <2> SUFFICES ASSUME ~Excused', ~Holding
               PROVE  startTimers = {} /\ Entered(store).sched <= now
    OBVIOUS
  <2>1. "overtaken" \notin disturbed' /\ "overtaken" \notin disturbed /\ ~Doomed'
    BY <1>7 DEF Excused
  <2>2. ~Doomed
    <3>1. \A o \in Threads : th[o].pc = "save" => th'[o] = th[o]
      BY <1>1, <1>5 DEF Become, SInv, TasksFit
    <3> QED
      BY <2>1, <3>1 DEF Doomed
  <2>3. Firing(cb)
    BY <1>1, <1>7, <2>1 DEF Firing
  <2> QED
    BY <1>1, <2>1, <2>2, <2>3 DEF Excused, SInv, FiredTimers
<1>12. Serving' <=> Serving
  BY <1>1, <1>3, <1>5, StillServing
<1> QED
  BY <1>1, <1>3, <1>4, <1>5, <1>6, <1>7, <1>8, <1>9, <1>10, <1>11, <1>12, Turn

LEMMA StartFailsStep ==
  ASSUME SInv, NEW cb \in Callbacks, StartFails(cb)
  PROVE  SInv'
<1>1. cb \in Threads /\ th[cb].pc = "run" /\ phase # "down"
  <2>1. cb \in Threads /\ th[cb].pc = "run" /\ th[cb] # NoTask
    BY DEF StartFails, Threads, NoTask
  <2> QED
    BY <2>1, Now
<1>2. NoTask \in Task /\ NoTask.pc = "idle"
  BY DEF Task, NoTask
<1>3. Become(cb, NoTask) /\ UNCHANGED <<now, phase, store, startTimers, slot, made, wanted>>
  BY DEF StartFails
<1>4. th'[cb] = NoTask
  BY <1>1, <1>3 DEF Become, SInv, TasksFit
<1>5. /\ disturbed \subseteq disturbed' /\ disturbed' # {}
      /\ disturbed' \subseteq {"overtaken", "failedSchedule", "failedStart", "staleEntry", "afterDeletion"}
  BY <1>1, Now DEF StartFails
<1>6. TaskFits(cb)'
  BY <1>2, <1>4 DEF TaskFits, Armed
<1>7. CopyFresh(cb)'
  BY <1>2, <1>4 DEF CopyFresh
<1>8. ~Armed(cb)' /\ ~Firing(cb)'
  BY <1>2, <1>4 DEF Armed, Firing
<1>9. Serving' <=> Serving
  BY <1>1, <1>2, <1>3, StillServing
<1> QED
  BY <1>1, <1>2, <1>3, <1>4, <1>5, <1>6, <1>7, <1>8, <1>9, Turn

------------------------------------------------------------------------------
(* Steps that change the timers.                                                *)

\* What the move of a thread that was not saving leaves as it was.
LEMMA Elsewhere ==
  ASSUME SInv, NEW t \in Threads, NEW s \in Task, Become(t, s), UNCHANGED <<store, now>>,
         disturbed \subseteq disturbed', th[t].pc # "save", TaskFits(t)', CopyFresh(t)'
  PROVE  /\ th'[t] = s /\ \A o \in Threads \ {t} : th'[o] = th[o]
         /\ TasksFit' /\ CopiesFresh'
         /\ ~Armed(t) /\ \A o \in Threads \ {t} : Armed(o)' <=> Armed(o)
         /\ Holding' <=> Holding \/ Armed(t)'
         /\ Excused => Excused'
         /\ \A o \in Threads \ {t} : Firing(o)' <=> Firing(o)
<1>1. /\ th'[t] = s /\ \A o \in Threads \ {t} : th'[o] = th[o]
      /\ TasksFit' /\ CopiesFresh'
  BY RaceMoved
<1>2. ~Armed(t) /\ \A o \in Threads \ {t} : Armed(o)' <=> Armed(o)
  BY <1>1 DEF Armed
<1>3. Holding' <=> Holding \/ Armed(t)'
  BY <1>2 DEF Holding
<1>4. Excused => Excused'
  BY <1>1 DEF Excused, Doomed
<1>5. \A o \in Threads \ {t} : Firing(o)' <=> Firing(o)
  BY <1>1 DEF Firing
<1> QED
  BY <1>1, <1>2, <1>3, <1>4, <1>5

\* The race without its rule.
RuleOver(c) == WithRecur(c, FALSE)

LEMMA RuleOverIs ==
  ASSUME NEW c \in Race
  PROVE  /\ RuleOver(c) \in Race /\ RuleOver(c).sched = c.sched /\ RuleOver(c).entry = c.entry
         /\ RuleOver(c).deleted = c.deleted
         /\ ~RuleOver(c).recur
<1>1. PICK no \in BOOLEAN : no = FALSE
  OBVIOUS
<1>2. PICK e : e = WithRecur(c, no)
  OBVIOUS
<1>3. e \in Race /\ e.sched = c.sched /\ e.entry = c.entry /\ e.deleted = c.deleted
  BY <1>2, RaceUpdated
<1>4. e.recur = no
  BY <1>2, RaceUpdated
<1>5. e = RuleOver(c)
  BY <1>1, <1>2, Zenon DEF RuleOver
<1>6. ~e.recur
  BY <1>1, <1>4
<1> QED
  BY <1>3, <1>5, <1>6

LEMMA FromRecurrenceIs ==
  ASSUME SInv, NEW t \in Threads, th[t].stale \in BOOLEAN, NEW c \in Race, EntryFits(c),
         NEW x, x = FromRecurrence(t, c)
  PROVE  /\ x \in Task /\ (x.stale <=> th[t].stale) /\ x.pc \in {"load", "save"}
         /\ x.pc = "load" => x.how = "already" /\ x.date # 0 /\ EntryFits(x.outer)
         /\ x.pc = "save" => x.how = "exhausted" /\ x.copy = RuleOver(c)
<1>1. PICK d : d = NextOccurrence(c.sched)
  OBVIOUS
<1>2. d \in Time
  BY <1>1, NextIs, RaceFields DEF SInv
<1>3. CASE d # 0
  <2>1. PICK y : y = ScheduleFor(d, "already", Unscheduled)
    OBVIOUS
  <2>2. "already" \in Armers
    BY DEF Armers
  <2>3. y \in Loading /\ y.pc = "load" /\ y.how = "already" /\ y.date = d /\ y.outer = Unscheduled
    BY <1>2, <2>1, <2>2, Unscheduled0, ScheduleForIs
  <2>4. PICK b \in BOOLEAN : b = th[t].stale
    OBVIOUS
  <2>5. x = [y EXCEPT !.stale = b]
    BY <1>1, <1>3, <2>1, <2>4, Zenon DEF FromRecurrence
  <2>6. /\ x \in Loading /\ x.pc = "load" /\ x.how = "already" /\ x.date = d
        /\ x.outer = Unscheduled /\ x.stale = b
    BY <2>3, <2>5 DEF Loading
  <2> QED
    BY <1>3, <2>4, <2>6, Unscheduled0 DEF Task
<1>4. CASE d = 0
  <2>1. PICK c1 : c1 = RuleOver(c)
    OBVIOUS
  <2>2. c1 \in Race
    BY <2>1, RuleOverIs
  <2>3. x = SaveRace(t, c1, "exhausted")
    BY <1>1, <1>4, <2>1, Zenon DEF FromRecurrence, RuleOver, WithRecur
  <2>4. PICK b \in BOOLEAN : b = th[t].stale
    OBVIOUS
  <2>5. x = [pc |-> "save", copy |-> c1, how |-> "exhausted", stale |-> b]
    BY <2>3, <2>4, Zenon DEF SaveRace
  <2>6. x \in Saves /\ x.pc = "save" /\ x.how = "exhausted" /\ x.copy = c1 /\ x.stale = b
    BY <2>2, <2>5 DEF Saves, Others
  <2> QED
    BY <2>1, <2>4, <2>6 DEF Task
<1> QED
  BY <1>3, <1>4

\* The rule of a fresh copy of the race is exhausted.
LEMMA ExhaustedFresh ==
  ASSUME NEW c \in Race, EntryFits(c), now \in 1 .. Until,
         NEW d \in Race, d = c \/ (d = Entered(c) /\ Entered(c).sched <= now),
         NEW e, e = RuleOver(d)
  PROVE  /\ e \in Race /\ EntryFits(e) /\ e.deleted = c.deleted /\ e.entry = c.entry /\ ~e.recur
         /\ c.sched # 0 => e.sched = c.sched
         /\ c.sched = 0 => e.sched <= now
         /\ Entered(e).sched = Entered(c).sched
<1>1. e \in Race /\ e.deleted = d.deleted /\ e.entry = d.entry /\ e.sched = d.sched
  BY RuleOverIs
<1>2. ~e.recur
  BY RuleOverIs
<1>3. e.entry.sched = c.entry.sched
  BY <1>1, EnteredIs
<1>4. d.entry = c.entry /\ d.deleted = c.deleted /\ EntryFits(d)
  BY EnteredIs
<1>5. /\ c.sched # 0 => d.sched = c.sched
      /\ d.sched = c.sched \/ d.sched <= now
  BY EnteredIs
<1>6. 0 <= now
  <2>1. Until \in Nat
    BY Numbers
  <2> QED
    BY <2>1
<1>7. Entered(e).sched = Entered(c).sched
  <2>1. CASE c.entry.sched = 0
    <3>1. Entered(c) = c
      BY <2>1, EnteredIs
    <3>2. Entered(e) = e
      BY <1>1, <1>3, <2>1, EnteredIs
    <3> QED
      BY <1>1, <3>1, <3>2
  <2>2. CASE c.entry.sched # 0
    <3>1. Entered(c).sched = c.entry.sched
      BY <2>2, EnteredIs
    <3>2. Entered(e).sched = e.entry.sched
      BY <1>1, <1>3, <2>2, EnteredIs
    <3> QED
      BY <1>3, <3>1, <3>2
  <2> QED
    BY <2>1, <2>2
<1>8. EntryFits(e)
  BY <1>1, <1>4 DEF EntryFits
<1> QED
  BY <1>1, <1>2, <1>4, <1>5, <1>6, <1>7, <1>8

LEMMA StartedStep ==
  ASSUME SInv, NEW cb \in Callbacks, Started(cb)
  PROVE  SInv'
<1>1. cb \in Threads /\ th[cb].pc = "run" /\ phase # "down" /\ th[cb] \in Copying /\ th[cb].stale \in BOOLEAN
  <2>1. cb \in Threads /\ th[cb].pc = "run" /\ th[cb] # NoTask
    BY DEF Started, Threads, NoTask
  <2> QED
    BY <2>1, Now, TaskIs
<1>2. PICK c : c = th[cb].copy
  OBVIOUS
<1>3. c \in Race /\ EntryFits(c)
  BY <1>1, <1>2, Now DEF Copying, TaskFits
<1>4. UNCHANGED <<now, phase, store, startTimers, slot, made, wanted, disturbed>>
  BY DEF Started
<1>5. ~th[cb].stale => c = store
  BY <1>1, <1>2, Now DEF CopyFresh
<1>6. /\ now \in 1 .. Until /\ store \in Race /\ EntryFits(store)
      /\ disturbed' \subseteq {"overtaken", "failedSchedule", "failedStart", "staleEntry", "afterDeletion"}
  BY <1>1, <1>4, Now
<1>7. PICK x : x = IF c.recur THEN FromRecurrence(cb, c) ELSE SaveRace(cb, [c EXCEPT !.sched = 0], "started")
  OBVIOUS
<1>8. Become(cb, x)
  BY <1>2, <1>7, Zenon DEF Started
<1>9. th'[cb] = x
  BY <1>1, <1>8 DEF Become, SInv, TasksFit
<1>10. ~Excused /\ ~Holding /\ ~th[cb].stale => startTimers = {} /\ Entered(store).sched <= now
  <2>1. ~th[cb].stale => Firing(cb)
    BY <1>1 DEF Firing
  <2> QED
    BY <1>1, <2>1 DEF SInv, FiredTimers
<1>11. ASSUME x \in Task, x.pc # "scan" PROVE (Excused => Excused') /\ (Serving' <=> Serving)
  <2>1. \A o \in Threads \ {cb} : th'[o] = th[o]
    BY <1>1, <1>8 DEF Become, SInv, TasksFit
  <2>2. Excused => Excused'
    BY <1>1, <1>4, <2>1 DEF Excused, Doomed
  <2>3. Serving' <=> Serving
    BY <1>1, <1>4, <1>8, <1>11, StillServing
  <2> QED
    BY <2>2, <2>3
<1>12. CASE c.recur
  <2>1. x = FromRecurrence(cb, c)
    BY <1>7, <1>12
  <2>2. /\ x \in Task /\ (x.stale <=> th[cb].stale) /\ x.pc \in {"load", "save"}
        /\ x.pc = "load" => x.how = "already" /\ x.date # 0 /\ EntryFits(x.outer)
        /\ x.pc = "save" => x.how = "exhausted" /\ x.copy = RuleOver(c)
    BY <1>1, <1>3, <2>1, FromRecurrenceIs
  <2>3. x.pc = "save" => EntryFits(x.copy)
    <3>1. RuleOver(c).sched = c.sched /\ RuleOver(c).entry = c.entry
      BY <1>3, RuleOverIs
    <3> QED
      BY <1>3, <2>2, <3>1 DEF EntryFits
  <2>4. ~Armed(cb)' /\ ~Firing(cb)' /\ Carries(cb)'
    BY <1>9, <2>2 DEF Armed, Armers, Firing, Carries
  <2>5. TaskFits(cb)'
    BY <1>9, <2>2, <2>3, <2>4 DEF TaskFits
  <2>6. CopyFresh(cb)'
    <3>1. CASE x.pc = "load"
      BY <1>9, <3>1 DEF CopyFresh
    <3>2. CASE x.pc = "save" /\ x.stale
      BY <1>9, <3>2 DEF CopyFresh
    <3>3. CASE x.pc = "save" /\ ~x.stale
      <4>1. c = store /\ x.copy = RuleOver(store)
        BY <1>5, <2>2, <3>3
      <4>2. ~x.stale /\ x.how = "exhausted"
        BY <2>2, <3>3
      <4>3. x.copy.deleted = store.deleted /\ x.copy.entry = store.entry /\ ~x.copy.recur
        BY <1>6, <4>1, ExhaustedFresh
      <4>4. /\ store.sched # 0 => x.copy.sched = store.sched
            /\ store.sched = 0 => x.copy.sched <= now
            /\ Entered(x.copy).sched = Entered(store).sched
        BY <1>6, <4>1, ExhaustedFresh
      <4> QED
        BY <1>4, <1>9, <3>3, <4>2, <4>3, <4>4 DEF CopyFresh, Entered
    <3> QED
      BY <2>2, <3>1, <3>2, <3>3
  <2> QED
    BY <1>1, <1>4, <1>6, <1>8, <1>9, <1>11, <2>2, <2>4, <2>5, <2>6, Turn
<1>13. CASE ~c.recur
  <2>1. PICK z \in Time : z = 0
    BY Numbers
  <2>2. PICK c1 : c1 = WithSched(c, z)
    OBVIOUS
  <2>3. c1 \in Race /\ c1.sched = 0
    BY <1>3, <2>1, <2>2, RaceUpdated
  <2>4. c1 = [c EXCEPT !.sched = 0]
    BY <2>1, <2>2 DEF WithSched
  <2>5. PICK b \in BOOLEAN : b = th[cb].stale
    BY <1>1
  <2>6. x = [pc |-> "save", copy |-> c1, how |-> "started", stale |-> b]
    BY <1>7, <1>13, <2>4, <2>5, Zenon DEF SaveRace
  <2>7. x \in Saves /\ x.pc = "save" /\ x.how = "started" /\ x.copy = c1 /\ x.stale = b
    BY <2>3, <2>6 DEF Saves, Others
  <2>8. x \in Task
    BY <2>7 DEF Task
  <2>9. ~Armed(cb)'
    BY <1>9, <2>7 DEF Armed, Armers
  <2>10. TaskFits(cb)'
    BY <1>9, <2>3, <2>7, <2>8, <2>9 DEF TaskFits, EntryFits
  <2>11. CopyFresh(cb)'
    <3>1. CASE b
      BY <1>9, <2>7, <3>1 DEF CopyFresh
    <3>2. CASE ~b
      <4>1. c = store
        BY <1>5, <2>5, <3>2
      <4>2. c1.deleted = store.deleted
        BY <1>3, <2>1, <2>2, <4>1, RaceUpdated
      <4>3. ~store.recur /\ c1 = [store EXCEPT !.sched = 0]
        BY <1>13, <2>4, <4>1
      <4> QED
        BY <1>4, <1>9, <2>7, <4>2, <4>3, Zenon DEF CopyFresh
    <3> QED
      BY <3>1, <3>2
  <2>12. Firing(cb)' /\ ~Excused' /\ ~Holding => startTimers = {} /\ Entered(store).sched <= now
    <3>1. Firing(cb)' => ~th[cb].stale
      BY <1>9, <2>5, <2>7 DEF Firing
    <3> QED
      BY <1>10, <1>11, <2>7, <2>8, <3>1
  <2>13. disturbed' = {} /\ wanted = "recurring" => Late(cb)'
    <3>1. CASE b
      BY <1>9, <2>7, <3>1 DEF Late
    <3>2. CASE ~b
      <4>1. ~store.recur
        BY <1>5, <1>13, <2>5, <3>2
      <4> QED
        BY <1>4, <4>1 DEF SInv, WantedFits
    <3> QED
      BY <3>1, <3>2
  <2> QED
    BY <1>1, <1>4, <1>6, <1>8, <1>9, <1>11, <2>7, <2>8, <2>9, <2>10, <2>11, <2>12, <2>13, Turn
<1> QED
  BY <1>12, <1>13

\* The race is about to be saved with its new schedule.
LEMMA EntryUpdated ==
  ASSUME NEW c \in Race, NEW e \in [sched : Time, recur : BOOLEAN], NEW x, x = WithEntry(c, e)
  PROVE  x \in Race /\ x.sched = c.sched /\ x.entry = e /\ x.deleted = c.deleted
BY DEF WithEntry, Race

LEMMA SchedUpdated ==
  ASSUME NEW c \in Race, NEW d \in Time, NEW x, x = WithSched(c, d)
  PROVE  x \in Race /\ x.sched = d /\ x.deleted = c.deleted
BY RaceUpdated

LEMMA RecurUpdated ==
  ASSUME NEW c \in Race, NEW r \in BOOLEAN, NEW x, x = WithRecur(c, r)
  PROVE  x \in Race /\ x.sched = c.sched /\ x.entry = c.entry /\ x.deleted = c.deleted /\ x.recur = r
BY RaceUpdated

LEMMA ThreeUpdates ==
  ASSUME NEW c \in Race, NEW day \in Time, NEW e \in [sched : Time, recur : BOOLEAN], NEW r \in BOOLEAN,
         NEW x, x = WithRecur(WithEntry(WithSched(c, day), e), r)
  PROVE  x \in Race /\ x.sched = day /\ x.entry = e /\ x.deleted = c.deleted /\ x.recur = r
<1>1. PICK c1 : c1 = WithSched(c, day)
  OBVIOUS
<1>2. c1 \in Race /\ c1.sched = day /\ c1.deleted = c.deleted
  BY <1>1, SchedUpdated
<1>3. PICK c2 : c2 = WithEntry(c1, e)
  OBVIOUS
<1>4. c2 \in Race /\ c2.sched = day /\ c2.entry = e /\ c2.deleted = c.deleted
  BY <1>2, <1>3, EntryUpdated
<1>5. x = WithRecur(c2, r)
  BY <1>1, <1>3
<1>6. x \in Race /\ x.sched = day /\ x.entry = e /\ x.deleted = c.deleted
  BY <1>4, <1>5, RecurUpdated
<1>7. x.recur = r
  BY <1>4, <1>5, RecurUpdated
<1> QED
  BY <1>6, <1>7

LEMMA ScheduledIs ==
  ASSUME NEW c \in Race, NEW day \in Time, NEW how
  PROVE  /\ ScheduledRaces(c, day, how) \in Race
         /\ ScheduledRaces(c, day, how).sched = day /\ ScheduledRaces(c, day, how).entry.sched = day
         /\ ScheduledRaces(c, day, how).deleted = c.deleted
         /\ how = "recurring" => ScheduledRaces(c, day, how).recur
         /\ how = "already" => ScheduledRaces(c, day, how).recur = c.recur
         /\ how \notin {"recurring", "already"} => ~ScheduledRaces(c, day, how).recur
<1>1. PICK b \in BOOLEAN : b = c.recur
  BY RaceFields
<1>2. PICK r \in BOOLEAN : r = (how = "recurring" \/ (how = "already" /\ b))
  OBVIOUS
<1>3. PICK e : e = [sched |-> day, recur |-> b]
  OBVIOUS
<1>4. e \in [sched : Time, recur : BOOLEAN] /\ e.sched = day
  BY <1>3
<1>5. PICK x : x = WithRecur(WithEntry(WithSched(c, day), e), r)
  OBVIOUS
<1>6. x \in Race /\ x.sched = day /\ x.entry = e /\ x.deleted = c.deleted
  BY <1>4, <1>5, ThreeUpdates
<1>7. x.recur = r
  BY <1>4, <1>5, ThreeUpdates
<1>8. ScheduledRaces(c, day, how) = x
  BY <1>1, <1>2, <1>3, <1>5, Zenon DEF ScheduledRaces, WithSched, WithEntry, WithRecur
<1>9. /\ how = "recurring" => r
      /\ how = "already" => r = b
      /\ how \notin {"recurring", "already"} => ~r
  BY <1>2
<1>10. how = "recurring" => x.recur
  BY <1>7, <1>9
<1>11. how = "already" => x.recur = c.recur
  BY <1>1, <1>7, <1>9
<1>12. how \notin {"recurring", "already"} => ~x.recur
  BY <1>7, <1>9
<1> QED
  BY <1>4, <1>6, <1>8, <1>10, <1>11, <1>12

LEMMA SavingIs ==
  ASSUME SInv, NEW t \in Threads, th[t].pc = "arm", Saving(t), UNCHANGED <<store, now, disturbed>>
  PROVE  \E y \in Task : /\ Become(t, y) /\ th'[t] = y
                         /\ y.pc = "save" /\ y.how = th[t].how /\ y.copy.sched = th[t].date
                         /\ Armed(t)' /\ TaskFits(t)' /\ CopyFresh(t)'
<1>1. /\ th[t] \in Arming /\ th[t].date \in Time /\ th[t].how \in Armers /\ th[t].outer \in Race
      /\ th[t].copy \in Race /\ TaskFits(t) /\ CopyFresh(t)
  BY Now, TaskIs
<1>2. PICK x : x = th[t]
  OBVIOUS
<1>3. PICK c : c = ScheduledRaces(x.copy, x.date, x.how)
  OBVIOUS
<1>4. /\ c \in Race /\ c.sched = x.date /\ c.entry.sched = x.date /\ c.deleted = x.copy.deleted
      /\ x.how = "recurring" => c.recur
      /\ x.how = "already" => c.recur = x.copy.recur
      /\ x.how \notin {"recurring", "already"} => ~c.recur
  BY <1>1, <1>2, <1>3, ScheduledIs
<1>5. PICK y : y = [x EXCEPT !.pc = "save", !.copy = c]
  OBVIOUS
<1>6. /\ y \in Arming /\ y.pc = "save" /\ y.how = x.how /\ y.date = x.date /\ y.outer = x.outer
      /\ y.copy = c /\ y.stale = x.stale
  BY <1>1, <1>2, <1>4, <1>5 DEF Arming
<1>7. Become(t, y)
  <2>1. [x EXCEPT !.pc = "save", !.copy = ScheduledRaces(@, x.date, x.how)] = y
    BY <1>1, <1>2, <1>3, <1>5 DEF Arming
  <2> QED
    BY <1>2, <2>1 DEF Saving
<1>8. th'[t] = y
  BY <1>7 DEF Become, SInv, TasksFit
<1>9. y \in Task
  BY <1>6 DEF Task
<1>10. Armed(t)'
  BY <1>1, <1>2, <1>6, <1>8 DEF Armed
<1>11. TaskFits(t)'
  <2>1. (x.how \in {"remove", "delete"} <=> x.date = 0) /\ EntryFits(x.outer)
    BY <1>1, <1>2 DEF TaskFits
  <2>2. EntryFits(c)
    BY <1>4 DEF EntryFits
  <2>3. c.deleted => "afterDeletion" \in disturbed'
    BY <1>1, <1>2, <1>4 DEF TaskFits
  <2> QED
    BY <1>4, <1>6, <1>8, <1>9, <1>10, <2>1, <2>2, <2>3 DEF TaskFits
<1>12. CopyFresh(t)'
  <2>1. ~x.stale => x.copy = store
    BY <1>1, <1>2 DEF CopyFresh
  <2>2. ~x.stale => c.deleted = store.deleted
    BY <1>4, <2>1
  <2>3. ~x.stale /\ x.how = "already" => c.recur = store.recur
    BY <1>4, <2>1
  <2> QED
    BY <1>1, <1>2, <1>6, <1>8, <2>2, <2>3 DEF CopyFresh, Armers
<1> QED
  BY <1>2, <1>4, <1>6, <1>7, <1>8, <1>9, <1>10, <1>11, <1>12

LEMMA Timer ==
  ASSUME SInv, NEW others, others = {}, NEW day \in 1 .. Until, When(others, day)
  PROVE  /\ startTimers' = {[no |-> made + 1, at |-> day]} /\ slot' = made + 1 /\ made' = made + 1
         /\ made + 1 \in 1 .. MaxTimers /\ startTimers' # {}
         /\ \A tm \in startTimers' : tm \in [no : 1 .. MaxTimers, at : 1 .. Until]
                                     /\ tm.no = slot' /\ tm.at = day
         /\ \A a, b \in startTimers' : a = b
<1>1. made \in 0 .. MaxTimers /\ MaxTimers \in Nat
  BY Numbers DEF SInv, WorldFits
<1>2. made + 1 \in 1 .. MaxTimers
  BY <1>1 DEF When
<1>3. startTimers' = {[no |-> made + 1, at |-> day]} /\ slot' = made + 1 /\ made' = made + 1
  BY DEF When
<1> QED
  BY <1>2, <1>3

LEMMA ArmStep ==
  ASSUME SInv, NEW t \in Threads, Arm(t)
  PROVE  SInv'
<1>1. th[t].pc = "arm" /\ th[t].how \in {"once", "recurring", "already"} /\ th[t].date > now
  BY DEF Arm
<1>2. UNCHANGED <<now, phase, store, wanted, disturbed>> /\ Saving(t) /\ When(Running, th[t].date)
  BY DEF Arm
<1>3. th[t].date \in 1 .. Until /\ now \in 1 .. Until /\ phase # "down"
  <2>1. th[t] # NoTask
    BY <1>1 DEF NoTask
  <2>2. th[t].date \in Time /\ now \in 1 .. Until /\ phase # "down"
    BY <1>1, <2>1, Now, TaskIs
  <2>3. Until \in Nat
    BY Numbers
  <2> QED
    BY <1>1, <2>2, <2>3 DEF Time
<1>4. PICK y \in Task : /\ Become(t, y) /\ th'[t] = y
                        /\ y.pc = "save" /\ y.how = th[t].how /\ y.copy.sched = th[t].date
                        /\ Armed(t)' /\ TaskFits(t)' /\ CopyFresh(t)'
  BY <1>1, <1>2, SavingIs
<1>5. TasksFit' /\ CopiesFresh'
  BY <1>1, <1>2, <1>4, Elsewhere
<1>6. Running = {}
  BY NoneRunning DEF SInv
<1>7. /\ slot' = made + 1 /\ made' = made + 1 /\ made + 1 \in 1 .. MaxTimers /\ startTimers' # {}
      /\ \A tm \in startTimers' : tm \in [no : 1 .. MaxTimers, at : 1 .. Until]
                                  /\ tm.no = slot' /\ tm.at = th[t].date
      /\ \A a, b \in startTimers' : a = b
  BY <1>2, <1>3, <1>6, Timer
<1>8. WorldFits'
  <2>1. MaxTimers \in Nat
    BY Numbers
  <2>2. slot' \in 0 .. MaxTimers /\ made' \in 0 .. MaxTimers
    BY <1>7, <2>1
  <2> QED
    BY <1>2, <1>7, <2>2 DEF SInv, WorldFits
<1>9. OneTimer'
  BY <1>2, <1>3, <1>7 DEF OneTimer
<1>10. Holding'
  BY <1>4 DEF Holding
<1>11. TimerOfHolder'
  BY <1>4, <1>7 DEF TimerOfHolder
<1>12. HolderTimers'
  BY <1>7 DEF HolderTimers
<1>13. WantedFits'
  BY <1>2 DEF SInv, WantedFits
<1>14. TimerOfStore' /\ FiredTimers' /\ DeletedTimers' /\ Cleared' /\ FutureTimers' /\ RecurrenceTimers'
  BY <1>10 DEF TimerOfStore, FiredTimers, DeletedTimers, Cleared, FutureTimers, RecurrenceTimers
<1> QED
  BY <1>5, <1>8, <1>9, <1>11, <1>12, <1>13, <1>14 DEF SInv

\* The timers are stopped.
LEMMA NoTimers ==
  ASSUME SInv, startTimers' = {}, UNCHANGED <<now, store, wanted>>, phase' # "down", slot' \in 0 .. MaxTimers,
         phase' \in {"init", "up"}, made' = made,
         disturbed' \subseteq {"overtaken", "failedSchedule", "failedStart", "staleEntry", "afterDeletion"}
  PROVE  WorldFits' /\ OneTimer' /\ TimerOfHolder' /\ TimerOfStore'
BY DEF SInv, WorldFits, OneTimer, TimerOfHolder, TimerOfStore

LEMMA DisarmStep ==
  ASSUME SInv, NEW t \in Threads, Disarm(t)
  PROVE  SInv'
<1>1. th[t].pc = "arm" /\ th[t].how \in {"remove", "delete"}
  BY DEF Disarm
<1>2. /\ UNCHANGED <<now, phase, store, slot, made, wanted, disturbed>> /\ Saving(t)
      /\ startTimers' = Running
  BY DEF Disarm
<1>3. phase # "down"
  <2>1. th[t] # NoTask
    BY <1>1 DEF NoTask
  <2> QED
    BY <2>1, Now
<1>4. PICK y \in Task : /\ Become(t, y) /\ th'[t] = y
                        /\ y.pc = "save" /\ y.how = th[t].how
                        /\ Armed(t)' /\ TaskFits(t)' /\ CopyFresh(t)'
  BY <1>1, <1>2, SavingIs
<1>5. TasksFit' /\ CopiesFresh'
  BY <1>1, <1>2, <1>4, Elsewhere
<1>6. startTimers' = {}
  BY <1>2, NoneRunning DEF SInv
<1>7. WorldFits' /\ OneTimer' /\ TimerOfHolder' /\ TimerOfStore'
  <2>1. /\ slot \in 0 .. MaxTimers /\ phase \in {"down", "init", "up"}
        /\ disturbed \subseteq {"overtaken", "failedSchedule", "failedStart", "staleEntry", "afterDeletion"}
    BY DEF SInv, WorldFits
  <2> QED
    BY <1>2, <1>3, <1>6, <2>1, NoTimers
<1>8. Holding'
  BY <1>4 DEF Holding
<1>9. HolderTimers'
  <2> SUFFICES ASSUME NEW o \in Threads, Armed(o)', th'[o].how \in {"once", "recurring", "already"}
               PROVE  \E u \in Threads \ {o} : Armed(u)'
    BY DEF HolderTimers
  <2>1. o # t
    BY <1>1, <1>4
  <2> QED
    BY <1>4, <2>1
<1>10. WantedFits'
  BY <1>2 DEF SInv, WantedFits
<1>11. FiredTimers' /\ DeletedTimers' /\ Cleared' /\ FutureTimers' /\ RecurrenceTimers'
  BY <1>8 DEF FiredTimers, DeletedTimers, Cleared, FutureTimers, RecurrenceTimers
<1> QED
  BY <1>5, <1>7, <1>9, <1>10, <1>11 DEF SInv

LEMMA ArmFailsStep ==
  ASSUME SInv, NEW t \in Threads, ArmFails(t)
  PROVE  SInv'
<1>1. th[t].pc = "arm" /\ startTimers' = Running /\ Become(t, NoTask)
  BY DEF ArmFails
<1>2. /\ UNCHANGED <<now, phase, store, made, wanted>>
      /\ disturbed' = disturbed \cup {"failedSchedule"}
  BY DEF ArmFails
<1>3. phase # "down"
  <2>1. th[t] # NoTask
    BY <1>1 DEF NoTask
  <2> QED
    BY <2>1, Now
<1>4. NoTask \in Task /\ NoTask.pc = "idle"
  BY DEF Task, NoTask
<1>5. th'[t] = NoTask
  BY <1>1 DEF Become, SInv, TasksFit
<1>6. TaskFits(t)' /\ CopyFresh(t)' /\ ~Armed(t)' /\ ~Firing(t)'
  BY <1>4, <1>5 DEF TaskFits, CopyFresh, Armed, Firing
<1>7. /\ \A o \in Threads \ {t} : th'[o] = th[o]
      /\ TasksFit' /\ CopiesFresh'
      /\ Holding' <=> Holding
      /\ Excused => Excused'
      /\ \A o \in Threads \ {t} : Firing(o)' <=> Firing(o)
  BY <1>1, <1>2, <1>4, <1>6, Elsewhere
<1>8. startTimers' = {}
  BY <1>1, NoneRunning DEF SInv
<1>9. WorldFits' /\ OneTimer' /\ TimerOfHolder' /\ TimerOfStore'
  <2>1. /\ slot \in 0 .. MaxTimers /\ phase \in {"down", "init", "up"} /\ 0 \in 0 .. MaxTimers
        /\ disturbed \subseteq {"overtaken", "failedSchedule", "failedStart", "staleEntry", "afterDeletion"}
    BY Numbers DEF SInv, WorldFits
  <2>2. slot' \in 0 .. MaxTimers
    BY <2>1 DEF ArmFails
  <2> QED
    BY <1>2, <1>3, <1>8, <2>1, <2>2, NoTimers
<1>10. WantedFits'
  BY <1>2 DEF SInv, WantedFits
<1>11. FiredTimers'
  BY <1>2, <1>6, <1>7, <1>8 DEF SInv, FiredTimers
<1>12. DeletedTimers'
  BY <1>2, <1>4, <1>5, <1>7, <1>8 DEF SInv, DeletedTimers
<1>13. FutureTimers' /\ HolderTimers' /\ RecurrenceTimers'
  BY <1>2 DEF FutureTimers, HolderTimers, RecurrenceTimers
<1>14. Serving' <=> Serving
  BY <1>1, <1>2, <1>4, StillServing
<1>15. Cleared'
  BY <1>2, <1>7, <1>14 DEF SInv, Cleared
<1> QED
  BY <1>7, <1>9, <1>10, <1>11, <1>12, <1>13, <1>15 DEF SInv

LEMMA FireStep ==
  ASSUME SInv, NEW cb \in Callbacks, Fire(cb)
  PROVE  SInv'
<1>1. cb \in Threads /\ th[cb] = NoTask /\ th[cb].pc = "idle"
  BY DEF Fire, Threads, NoTask
<1>2. PICK tm \in startTimers : tm.at <= now /\ startTimers' = startTimers \ {tm}
  BY DEF Fire
<1>3. UNCHANGED <<now, phase, store, slot, made, wanted, disturbed>>
  BY DEF Fire
<1>4. PICK x : x = [pc |-> "begin", stale |-> FALSE]
  OBVIOUS
<1>5. x \in Beginning /\ x.pc = "begin" /\ ~x.stale
  BY <1>4 DEF Beginning
<1>6. x \in Task
  BY <1>5 DEF Task
<1>7. Become(cb, x)
  BY <1>4 DEF Fire
<1>8. th'[cb] = x
  BY <1>1, <1>7 DEF Become, SInv, TasksFit
<1>9. TaskFits(cb)' /\ CopyFresh(cb)' /\ ~Armed(cb)' /\ Carries(cb)'
  BY <1>5, <1>6, <1>8 DEF TaskFits, CopyFresh, Armed, Carries
<1>10. /\ \A o \in Threads \ {cb} : th'[o] = th[o]
       /\ TasksFit' /\ CopiesFresh'
       /\ ~Armed(cb) /\ \A o \in Threads \ {cb} : Armed(o)' <=> Armed(o)
       /\ Holding' <=> Holding
       /\ Excused => Excused'
  BY <1>1, <1>3, <1>6, <1>7, <1>9, Elsewhere
<1>11. startTimers' = {} /\ phase # "down" /\ phase \in {"init", "up"}
  BY <1>2 DEF SInv, OneTimer, WorldFits
<1>12. WorldFits' /\ OneTimer' /\ TimerOfHolder' /\ TimerOfStore'
  <2>1. /\ slot \in 0 .. MaxTimers
        /\ disturbed \subseteq {"overtaken", "failedSchedule", "failedStart", "staleEntry", "afterDeletion"}
    BY DEF SInv, WorldFits
  <2> QED
    BY <1>3, <1>11, <2>1, NoTimers
<1>13. WantedFits'
  BY <1>3 DEF SInv, WantedFits
<1>14. ~Excused' /\ ~Holding' => ~Excused /\ ~Holding /\ tm.at = Entered(store).sched
  BY <1>10 DEF SInv, TimerOfStore
<1>15. FiredTimers'
  BY <1>2, <1>3, <1>11, <1>14 DEF FiredTimers
<1>16. DeletedTimers'
  <2> SUFFICES ASSUME ~Excused', ~Holding', NEW o \in Threads, th'[o].pc = "delete", ~th'[o].stale
               PROVE  th'[o].copy = store /\ store.sched = 0
    BY <1>3 DEF DeletedTimers
  <2>1. o # cb /\ th'[o] = th[o]
    BY <1>5, <1>8, <1>10
  <2> QED
    BY <1>2, <1>14, <2>1 DEF SInv, DeletedTimers
<1>17. FutureTimers'
  <2> SUFFICES ASSUME ~Excused', ~Holding', store.sched > now
               PROVE  FALSE
    BY <1>3 DEF FutureTimers
  <2>1. store \in Race /\ EntryFits(store) /\ now \in 1 .. Until /\ Until \in Nat /\ store.sched \in 0 .. Until
    BY <1>1, Now, RaceFields, Numbers
  <2>2. store.sched # 0
    BY <2>1
  <2>3. Entered(store).sched = store.sched
    BY <2>1, <2>2, EnteredIs
  <2>4. tm.at = store.sched /\ tm.at <= now
    BY <1>2, <1>14, <2>3
  <2> QED
    BY <2>1, <2>4
<1>18. HolderTimers'
  <2> SUFFICES ASSUME ~Excused', NEW o \in Threads, Armed(o)'
               PROVE  \/ \E u \in Threads \ {o} : Armed(u)'
                      \/ (\E u \in Threads : th'[u].pc = "begin") /\ th'[o].copy.sched <= now
    BY <1>3 DEF HolderTimers
  <2>1. o # cb /\ Armed(o) /\ th'[o] = th[o] /\ Holding
    BY <1>9, <1>10 DEF Holding
  <2>2. PICK u \in Threads : Armed(u) /\ tm.at = th[u].copy.sched
    BY <1>2, <1>10, <2>1 DEF SInv, TimerOfHolder
  <2>3. CASE u = o
    BY <1>1, <1>2, <1>5, <1>8, <2>1, <2>2, <2>3
  <2>4. CASE u # o
    BY <1>10, <2>2, <2>4
  <2> QED
    BY <2>3, <2>4
<1>19. RecurrenceTimers'
  BY <1>1, <1>9 DEF RecurrenceTimers
<1>20. Serving' <=> Serving
  BY <1>1, <1>3, <1>5, <1>7, StillServing
<1>21. Cleared'
  BY <1>3, <1>14, <1>20 DEF SInv, Cleared
<1> QED
  BY <1>10, <1>12, <1>13, <1>15, <1>16, <1>17, <1>18, <1>19, <1>21 DEF SInv

------------------------------------------------------------------------------
(* Scans.                                                                       *)

\* What the thread that scans knows, whatever it finds.
LEMMA ScanTurn ==
  ASSUME SInv, Scanning
  PROVE  /\ "init" \in Threads /\ th["init"].pc = "scan" /\ th["init"] \in Copying
         /\ th["init"].stale \in BOOLEAN /\ th["init"].copy \in Race /\ EntryFits(th["init"].copy)
         /\ ~th["init"].copy.deleted
         /\ ~th["init"].stale => th["init"].copy = store
         /\ store \in Race /\ EntryFits(store) /\ phase \in {"init", "up"} /\ now \in 1 .. Until
         /\ disturbed \subseteq {"overtaken", "failedSchedule", "failedStart", "staleEntry", "afterDeletion"}
<1>1. "init" \in Threads /\ th["init"].pc = "scan"
  BY DEF Scanning, Threads
<1>2. th["init"] # NoTask
  BY <1>1 DEF NoTask
<1>3. /\ th["init"] \in Task /\ TaskFits("init") /\ CopyFresh("init") /\ phase # "down"
      /\ store \in Race /\ EntryFits(store) /\ now \in 1 .. Until
      /\ disturbed \subseteq {"overtaken", "failedSchedule", "failedStart", "staleEntry", "afterDeletion"}
  BY <1>1, <1>2, Now
<1>4. th["init"] \in Copying /\ th["init"].stale \in BOOLEAN /\ th["init"].copy \in Race
  BY <1>1, <1>3, TaskIs
<1>5. EntryFits(th["init"].copy) /\ ~th["init"].copy.deleted
  BY <1>1, <1>3 DEF TaskFits
<1>6. ~th["init"].stale => th["init"].copy = store
  BY <1>1, <1>3 DEF CopyFresh
<1>7. phase \in {"init", "up"}
  BY <1>3 DEF SInv, WorldFits
<1> QED
  BY <1>1, <1>3, <1>4, <1>5, <1>6, <1>7

\* A scan that is not to be excused sees the race as it is, and no other goroutine is
\* between its timer and the save.
LEMMA ScanSees ==
  ASSUME SInv, Scanning, NEW x \in Task, Become("init", x), UNCHANGED <<store, now>>, ~Armed("init")',
         disturbed \cup Lost("init") \cup Between \subseteq disturbed', TaskFits("init")', CopyFresh("init")'
  PROVE  /\ TasksFit' /\ CopiesFresh' /\ th'["init"] = x
         /\ \A o \in Threads \ {"init"} : th'[o] = th[o] /\ (Firing(o)' <=> Firing(o))
         /\ ~Firing("init")
         /\ Holding' => "overtaken" \in disturbed'
         /\ ~Excused' => ~Excused /\ ~Holding /\ ~th["init"].stale /\ th["init"].copy = store
<1>1. "init" \in Threads /\ th["init"].pc = "scan" /\ (~th["init"].stale => th["init"].copy = store)
  BY ScanTurn
<1>2. /\ TasksFit' /\ CopiesFresh' /\ th'["init"] = x
      /\ \A o \in Threads \ {"init"} : th'[o] = th[o]
      /\ Holding' <=> Holding
      /\ Excused => Excused'
      /\ \A o \in Threads \ {"init"} : Firing(o)' <=> Firing(o)
  BY <1>1, Elsewhere
<1>3. Holding => "overtaken" \in disturbed'
  BY BetweenHeld
<1>4. th["init"].stale => "overtaken" \in disturbed'
  BY DEF Lost
<1>5. "overtaken" \in disturbed' => Excused'
  BY DEF Excused
<1>6. ~Firing("init")
  BY <1>1 DEF Firing
<1> QED
  BY <1>1, <1>2, <1>3, <1>4, <1>5, <1>6

LEMMA ScanFutureStep ==
  ASSUME SInv, ScanFuture
  PROVE  SInv'
<1>1. PICK c : c = th["init"].copy
  OBVIOUS
<1>2. PICK race : race = Entered(c)
  OBVIOUS
<1>3. /\ Scanning /\ race.sched > now /\ When(Running, race.sched) /\ Become("init", NoTask)
      /\ UNCHANGED <<now, phase, store, wanted>>
  BY <1>1, <1>2 DEF ScanFuture
<1>4. disturbed' = disturbed \cup Lost("init") \cup Between
                    \cup (IF race.sched # c.sched THEN {"staleEntry"} ELSE {})
  BY <1>1, <1>2 DEF ScanFuture
<1>5. /\ "init" \in Threads /\ th["init"].pc = "scan" /\ c \in Race /\ EntryFits(c) /\ ~c.deleted
      /\ store \in Race /\ EntryFits(store) /\ phase \in {"init", "up"} /\ now \in 1 .. Until
      /\ disturbed \subseteq {"overtaken", "failedSchedule", "failedStart", "staleEntry", "afterDeletion"}
  BY <1>1, <1>3, ScanTurn
<1>6. NoTask \in Task /\ NoTask.pc = "idle"
  BY DEF Task, NoTask
<1>7. th'["init"] = NoTask
  BY <1>3, <1>5 DEF Become, SInv, TasksFit
<1>8. TaskFits("init")' /\ CopyFresh("init")' /\ ~Armed("init")' /\ ~Firing("init")'
  BY <1>6, <1>7 DEF TaskFits, CopyFresh, Armed, Firing
<1>9. disturbed \cup Lost("init") \cup Between \subseteq disturbed'
  BY <1>4
<1>10. /\ TasksFit' /\ CopiesFresh'
       /\ \A o \in Threads \ {"init"} : th'[o] = th[o] /\ (Firing(o)' <=> Firing(o))
       /\ Holding' => "overtaken" \in disturbed'
       /\ ~Excused' => ~Excused /\ ~Holding /\ c = store
  BY <1>1, <1>3, <1>6, <1>8, <1>9, ScanSees
<1>11. race \in Race /\ race.sched \in 1 .. Until /\ race.sched # 0
  <2>1. race \in Race /\ race.sched \in Time
    BY <1>2, <1>5, EnteredIs, RaceFields
  <2>2. Until \in Nat
    BY Numbers
  <2> QED
    BY <1>3, <1>5, <2>1, <2>2 DEF Time
<1>12. Running = {}
  BY NoneRunning DEF SInv
<1>13. /\ slot' = made + 1 /\ made' = made + 1 /\ made + 1 \in 1 .. MaxTimers /\ startTimers' # {}
       /\ \A tm \in startTimers' : tm \in [no : 1 .. MaxTimers, at : 1 .. Until]
                                   /\ tm.no = slot' /\ tm.at = race.sched
       /\ \A a, b \in startTimers' : a = b
  BY <1>3, <1>11, <1>12, Timer
<1>14. WorldFits'
  <2>1. MaxTimers \in Nat
    BY Numbers
  <2>2. slot' \in 0 .. MaxTimers /\ made' \in 0 .. MaxTimers
    BY <1>13, <2>1
  <2>3. disturbed' \subseteq {"overtaken", "failedSchedule", "failedStart", "staleEntry", "afterDeletion"}
    BY <1>4, <1>5 DEF Lost, Between
  <2> QED
    BY <1>3, <1>13, <2>2, <2>3 DEF SInv, WorldFits
<1>15. OneTimer'
  BY <1>3, <1>5, <1>13 DEF OneTimer
<1>16. WantedFits'
  BY <1>3, <1>9 DEF SInv, WantedFits
<1>17. TimerOfHolder'
  BY <1>10 DEF TimerOfHolder, Excused
<1>18. TimerOfStore'
  <2> SUFFICES ASSUME ~Excused', NEW tm \in startTimers'
               PROVE  /\ tm.at = Entered(store).sched
                      /\ "staleEntry" \notin disturbed' => store.sched # 0
                      /\ ~store.deleted
    BY <1>3 DEF TimerOfStore
  <2>1. c = store
    BY <1>10
  <2>2. tm.at = Entered(store).sched
    BY <1>2, <1>13, <2>1
  <2>3. "staleEntry" \notin disturbed' => store.sched # 0
    BY <1>4, <1>11, <2>1
  <2> QED
    BY <1>5, <2>1, <2>2, <2>3
<1>19. ~Excused' => Entered(store).sched > now /\ Entered(store).sched # 0 /\ Entered(store).sched \in Time
  <2>1. ~Excused' => race = Entered(store)
    BY <1>2, <1>10
  <2>2. race.sched \in Time
    BY <1>11, RaceFields
  <2> QED
    BY <1>3, <1>11, <2>1, <2>2
<1>20. FiredTimers'
  <2> SUFFICES ASSUME ~Excused', NEW o \in Threads, Firing(o)'
               PROVE  FALSE
    BY DEF FiredTimers
  <2>1. Firing(o)
    BY <1>8, <1>10
  <2>2. Entered(store).sched <= now
    BY <1>10, <2>1 DEF SInv, FiredTimers
  <2>3. now \in Nat /\ Entered(store).sched \in Nat /\ Entered(store).sched > now
    <3>1. Until \in Nat
      BY Numbers
    <3> QED
      BY <1>5, <1>19, <3>1 DEF Time
  <2> QED
    BY <2>2, <2>3
<1>21. DeletedTimers'
  <2> SUFFICES ASSUME ~Excused', NEW o \in Threads, th'[o].pc = "delete", ~th'[o].stale
               PROVE  th'[o].copy = store /\ store.sched = 0
    BY <1>3 DEF DeletedTimers
  <2>1. o # "init" /\ th'[o] = th[o]
    BY <1>6, <1>7, <1>10
  <2> QED
    BY <1>10, <1>19, <2>1 DEF SInv, DeletedTimers
<1>22. FutureTimers' /\ HolderTimers' /\ RecurrenceTimers'
  BY <1>13 DEF FutureTimers, HolderTimers, RecurrenceTimers
<1>23. Cleared'
  <2> SUFFICES ASSUME ~Excused', "staleEntry" \notin disturbed', store.sched = 0
               PROVE  FALSE
    BY <1>3 DEF Cleared
  <2>1. c = store
    BY <1>10
  <2> QED
    BY <1>4, <1>11, <2>1
<1> QED
  BY <1>10, <1>14, <1>15, <1>16, <1>17, <1>18, <1>20, <1>21, <1>22, <1>23 DEF SInv

\* What the scan goes on to do with a race that is in the past.
PastTask(race) ==
  IF race.recur THEN FromRecurrence("init", race)
  ELSE IF race.sched # 0
    THEN SaveRace("init", [race EXCEPT !.sched = 0, !.entry = NoEntry], "missed")
  ELSE NoTask

\* The race that was missed.
LEMMA MissedIs ==
  ASSUME NEW c \in Race
  PROVE  \E m \in Race : /\ m = [c EXCEPT !.sched = 0, !.entry = NoEntry]
                         /\ m.sched = 0 /\ m.entry = NoEntry /\ m.deleted = c.deleted /\ m.recur = c.recur
<1>1. NoEntry \in [sched : Time, recur : BOOLEAN] /\ 0 \in Time
  BY Numbers DEF NoEntry
<1>2. PICK m : m = [c EXCEPT !.sched = 0, !.entry = NoEntry]
  OBVIOUS
<1>3. m \in Race /\ m.sched = 0 /\ m.entry = NoEntry /\ m.deleted = c.deleted /\ m.recur = c.recur
  BY <1>1, <1>2 DEF Race
<1> QED
  BY <1>2, <1>3

LEMMA PastTaskIs ==
  ASSUME SInv, Scanning, NEW c, c = th["init"].copy, NEW race, race = Entered(c), race.sched <= now,
         NEW x, x = PastTask(race)
  PROVE  /\ x \in Task /\ x.pc \in {"idle", "load", "save"}
         /\ x.pc # "idle" => (x.stale <=> th["init"].stale)
         /\ x.pc = "load" => x.how = "already" /\ x.date # 0 /\ EntryFits(x.outer)
         /\ x.pc = "save" => x.how \in {"exhausted", "missed"} /\ EntryFits(x.copy)
         /\ race.recur => x.pc = "load" \/ (x.pc = "save" /\ x.how = "exhausted")
         /\ x.pc = "save" /\ x.how = "exhausted" => x.copy = RuleOver(race)
         /\ x.pc = "save" /\ x.how = "missed" =>
              /\ x.copy.sched = 0 /\ x.copy.entry = NoEntry /\ ~x.copy.recur
              /\ x.copy.deleted = race.deleted /\ ~race.recur
<1>1. /\ c \in Race /\ EntryFits(c) /\ th["init"].stale \in BOOLEAN /\ "init" \in Threads
  BY ScanTurn
<1>2. race \in Race /\ EntryFits(race)
  BY <1>1, EnteredIs
<1>3. CASE race.recur
  <2>1. x = FromRecurrence("init", race)
    BY <1>3 DEF PastTask
  <2>2. /\ x \in Task /\ (x.stale <=> th["init"].stale) /\ x.pc \in {"load", "save"}
        /\ x.pc = "load" => x.how = "already" /\ x.date # 0 /\ EntryFits(x.outer)
        /\ x.pc = "save" => x.how = "exhausted" /\ x.copy = RuleOver(race)
    BY <1>1, <1>2, <2>1, FromRecurrenceIs
  <2>3. RuleOver(race).sched = race.sched /\ RuleOver(race).entry = race.entry
    BY <1>2, RuleOverIs
  <2>4. EntryFits(RuleOver(race))
    BY <1>2, <2>3 DEF EntryFits
  <2> QED
    BY <2>2, <2>4
<1>4. CASE ~race.recur /\ race.sched # 0
  <2>1. PICK m \in Race : /\ m = [race EXCEPT !.sched = 0, !.entry = NoEntry]
                          /\ m.sched = 0 /\ m.entry = NoEntry /\ m.deleted = race.deleted
                          /\ m.recur = race.recur
    BY <1>2, MissedIs
  <2>2. ~m.recur
    BY <1>4, <2>1
  <2>3. PICK b \in BOOLEAN : b = th["init"].stale
    BY <1>1
  <2>4. x = [pc |-> "save", copy |-> m, how |-> "missed", stale |-> b]
    BY <1>4, <2>1, <2>3, Zenon DEF PastTask, SaveRace
  <2>5. x \in Saves /\ x.pc = "save" /\ x.how = "missed" /\ x.copy = m /\ x.stale = b
    BY <2>4 DEF Saves, Others
  <2>6. x \in Task
    BY <2>5 DEF Task
  <2>7. EntryFits(m)
    BY <2>1 DEF EntryFits
  <2>8. x.stale <=> th["init"].stale
    BY <2>3, <2>5
  <2>9. m.sched = 0 /\ m.entry = NoEntry /\ m.deleted = race.deleted
    BY <2>1
  <2> QED
    BY <1>4, <2>2, <2>5, <2>6, <2>7, <2>8, <2>9
<1>5. CASE ~race.recur /\ race.sched = 0
  <2>1. x = NoTask
    BY <1>5 DEF PastTask
  <2>2. x \in Task /\ x.pc = "idle"
    BY <2>1 DEF Task, NoTask
  <2> QED
    BY <1>5, <2>2
<1> QED
  BY <1>3, <1>4, <1>5

LEMMA ScanPastStep ==
  ASSUME SInv, ScanPast
  PROVE  SInv'
<1>1. PICK c : c = th["init"].copy
  OBVIOUS
<1>2. PICK race : race = Entered(c)
  OBVIOUS
<1>3. PICK x : x = PastTask(race)
  OBVIOUS
<1>4. /\ Scanning /\ race.sched <= now /\ UNCHANGED <<now, phase, store, made, wanted>>
      /\ startTimers' = Running /\ slot' = 0
  BY <1>1, <1>2 DEF ScanPast
<1>5. Become("init", x)
  BY <1>1, <1>2, <1>3, Zenon DEF ScanPast, PastTask
<1>6. disturbed' = disturbed \cup Lost("init") \cup Between
                    \cup (IF race.recur # c.recur THEN {"staleEntry"} ELSE {})
  BY <1>1, <1>2, Zenon DEF ScanPast
<1>7. /\ "init" \in Threads /\ th["init"].pc = "scan" /\ c \in Race /\ EntryFits(c) /\ ~c.deleted
      /\ ~th["init"].stale => c = store
      /\ store \in Race /\ EntryFits(store) /\ phase \in {"init", "up"} /\ now \in 1 .. Until
      /\ disturbed \subseteq {"overtaken", "failedSchedule", "failedStart", "staleEntry", "afterDeletion"}
  BY <1>1, <1>4, ScanTurn
<1>8. /\ x \in Task /\ x.pc \in {"idle", "load", "save"}
      /\ x.pc # "idle" => (x.stale <=> th["init"].stale)
      /\ x.pc = "load" => x.how = "already" /\ x.date # 0 /\ EntryFits(x.outer)
      /\ x.pc = "save" => x.how \in {"exhausted", "missed"} /\ EntryFits(x.copy)
      /\ race.recur => x.pc = "load" \/ (x.pc = "save" /\ x.how = "exhausted")
      /\ x.pc = "save" /\ x.how = "exhausted" => x.copy = RuleOver(race)
      /\ x.pc = "save" /\ x.how = "missed" =>
           /\ x.copy.sched = 0 /\ x.copy.entry = NoEntry /\ ~x.copy.recur
           /\ x.copy.deleted = race.deleted /\ ~race.recur
  BY <1>1, <1>2, <1>3, <1>4, PastTaskIs
<1>9. th'["init"] = x
  BY <1>5, <1>7 DEF Become, SInv, TasksFit
<1>10. ~Armed("init")'
  BY <1>8, <1>9 DEF Armed, Armers
<1>11. TaskFits("init")'
  BY <1>8, <1>9, <1>10 DEF TaskFits
<1>12. race.recur # c.recur => "staleEntry" \in disturbed'
  BY <1>6
<1>13. disturbed \cup Lost("init") \cup Between \subseteq disturbed'
  BY <1>6
<1>14. race \in Race /\ race.deleted = c.deleted /\ Entered(c).sched <= now
  BY <1>2, <1>4, <1>7, EnteredIs
<1>15. CopyFresh("init")'
  <2>1. CASE x.pc # "save" \/ x.stale
    BY <1>8, <1>9, <2>1 DEF CopyFresh
  <2>2. CASE x.pc = "save" /\ ~x.stale /\ x.how = "exhausted"
    <3>1. c = store /\ x.copy = RuleOver(race)
      BY <1>7, <1>8, <2>2
    <3>2. x.copy.deleted = store.deleted /\ x.copy.entry = store.entry /\ ~x.copy.recur
      BY <1>2, <1>7, <1>14, <3>1, ExhaustedFresh
    <3>3. /\ store.sched # 0 => x.copy.sched = store.sched
          /\ store.sched = 0 => x.copy.sched <= now
          /\ Entered(x.copy).sched = Entered(store).sched
      BY <1>2, <1>7, <1>14, <3>1, ExhaustedFresh
    <3> QED
      BY <1>4, <1>9, <2>2, <3>2, <3>3 DEF CopyFresh, Entered
  <2>3. CASE x.pc = "save" /\ ~x.stale /\ x.how = "missed"
    <3>1. c = store
      BY <1>7, <1>8, <2>3
    <3>2. x.copy.sched = 0 /\ x.copy.entry = NoEntry /\ ~x.copy.recur /\ ~race.recur
      BY <1>8, <2>3
    <3>3. x.copy.deleted = store.deleted
      BY <1>8, <1>14, <2>3, <3>1
    <3>4. c.recur => "staleEntry" \in disturbed'
      BY <1>12, <3>2
    <3> QED
      BY <1>4, <1>9, <2>3, <3>1, <3>2, <3>3, <3>4 DEF CopyFresh
  <2> QED
    BY <1>8, <2>1, <2>2, <2>3
<1>16. /\ TasksFit' /\ CopiesFresh'
       /\ \A o \in Threads \ {"init"} : th'[o] = th[o] /\ (Firing(o)' <=> Firing(o))
       /\ Holding' => "overtaken" \in disturbed'
       /\ ~Excused' => ~Excused /\ ~Holding /\ ~th["init"].stale /\ c = store
  BY <1>1, <1>4, <1>5, <1>8, <1>10, <1>11, <1>13, <1>15, ScanSees
<1>17. startTimers' = {}
  BY <1>4, NoneRunning DEF SInv
<1>18. WorldFits' /\ OneTimer' /\ TimerOfHolder' /\ TimerOfStore'
  <2>1. 0 \in 0 .. MaxTimers
    BY Numbers
  <2>2. disturbed' \subseteq {"overtaken", "failedSchedule", "failedStart", "staleEntry", "afterDeletion"}
    BY <1>6, <1>7 DEF Lost, Between
  <2> QED
    BY <1>4, <1>7, <1>17, <2>1, <2>2, NoTimers
<1>19. WantedFits'
  BY <1>4, <1>13 DEF SInv, WantedFits
<1>20. ~Excused' => Entered(store).sched <= now
  BY <1>14, <1>16
<1>21. FiredTimers'
  BY <1>4, <1>17, <1>20 DEF FiredTimers, Entered
<1>22. DeletedTimers'
  <2> SUFFICES ASSUME ~Excused', NEW o \in Threads, th'[o].pc = "delete", ~th'[o].stale
               PROVE  Entered(store).sched = 0 \/ (th'[o].copy = store /\ store.sched = 0)
    BY <1>4, <1>17 DEF DeletedTimers, Entered
  <2>1. o # "init" /\ th'[o] = th[o]
    BY <1>8, <1>9, <1>16
  <2> QED
    BY <1>16, <2>1 DEF SInv, DeletedTimers
<1>23. FutureTimers'
  <2> SUFFICES ASSUME ~Excused', store.sched > now
               PROVE  FALSE
    BY <1>4 DEF FutureTimers
  <2>1. store.sched \in 0 .. Until /\ Until \in Nat
    BY <1>7, RaceFields, Numbers
  <2>2. store.sched # 0
    BY <1>7, <2>1
  <2>3. Entered(store).sched = store.sched
    BY <1>7, <2>2, EnteredIs
  <2> QED
    BY <1>7, <1>20, <2>1, <2>3
<1>24. HolderTimers'
  <2>1. Holding' => Excused'
    BY <1>16 DEF Excused
  <2> QED
    BY <2>1 DEF HolderTimers, Holding
<1>25. RecurrenceTimers'
  <2> SUFFICES ASSUME disturbed' = {}, wanted = "recurring", \A o \in Threads : ~Late(o)' /\ ~Carries(o)'
               PROVE  FALSE
    BY <1>4 DEF RecurrenceTimers
  <2>1. disturbed = {} /\ ~th["init"].stale
    BY <1>13 DEF Lost
  <2>2. c = store /\ store.recur
    BY <1>7, <2>1 DEF SInv, WantedFits
  <2>3. race.recur = c.recur
    BY <1>12
  <2>4. race.recur
    BY <2>2, <2>3
  <2>5. Carries("init")'
    BY <1>8, <1>9, <2>4 DEF Carries
  <2> QED
    BY <1>7, <2>5
<1>26. Cleared'
  BY <1>4, <1>20 DEF Cleared
<1> QED
  BY <1>16, <1>18, <1>19, <1>21, <1>22, <1>23, <1>24, <1>25, <1>26 DEF SInv

------------------------------------------------------------------------------
(* The race is saved: every other copy of it is stale from now on.              *)

LEMMA Upserted ==
  ASSUME SInv, NEW t \in Threads, th[t].pc \in {"save", "delete"}, NEW race \in Race, EntryFits(race),
         NEW s \in Task, Upsert(t, race, s), s.pc \in {"idle", "delete"},
         UNCHANGED <<now, phase, startTimers, slot, made>>, wanted' \in {"no", "once", "recurring"},
         disturbed' \subseteq {"overtaken", "failedSchedule", "failedStart", "staleEntry", "afterDeletion"},
         disturbed \cap {"overtaken", "afterDeletion"} \subseteq disturbed', Lost(t) \subseteq disturbed',
         s.pc = "delete" => EntryFits(s.copy)
  PROVE  /\ store' = race /\ th'[t] = s /\ \A o \in Threads \ {t} : th'[o] = Aged(th[o])
         /\ WorldFits' /\ OneTimer' /\ TasksFit' /\ CopiesFresh'
         /\ "overtaken" \notin disturbed' => "overtaken" \notin disturbed /\ ~th[t].stale
         /\ ~Excused' => /\ ~Excused /\ ~th[t].stale /\ ~Holding' /\ (Holding <=> Armed(t))
                         /\ \A o \in Threads \ {t} : ~Armed(o)
         /\ TimerOfHolder' /\ FiredTimers' /\ HolderTimers'
         /\ Serving' <=> Serving
<1>1. store' = race /\ th' = [o \in Threads |-> IF o = t THEN s ELSE Aged(th[o])]
  BY DEF Upsert
<1>2. th'[t] = s /\ \A o \in Threads \ {t} : th'[o] = Aged(th[o])
  BY <1>1
<1>3. \A o \in Threads : th[o] \in Task /\ TaskFits(o) /\ CopyFresh(o)
  BY Now
<1>4. \A o \in Threads \ {t} :
        /\ Aged(th[o]) \in Task /\ Aged(th[o]).pc = th[o].pc
        /\ th[o].pc # "idle" => Aged(th[o]).stale
        /\ th[o].pc \in {"load", "arm"} => Aged(th[o]).how = th[o].how /\ Aged(th[o]).date = th[o].date
                                           /\ Aged(th[o]).outer = th[o].outer
        /\ th[o].pc = "save" => Aged(th[o]).how = th[o].how
        /\ th[o].pc = "save" /\ th[o].how \in Armers =>
              Aged(th[o]).date = th[o].date /\ Aged(th[o]).outer = th[o].outer
        /\ th[o].pc \in {"arm", "save", "delete", "run", "scan"} => Aged(th[o]).copy = th[o].copy
  BY <1>3, AgedIs
<1>5. th' \in [Threads -> Task]
  <2>1. \A o \in Threads : (IF o = t THEN s ELSE Aged(th[o])) \in Task
    BY <1>4
  <2> QED
    BY <1>1, <2>1
<1>6. ~Armed(t)' /\ \A o \in Threads \ {t} : Armed(o)' <=> Armed(o)
  BY <1>2, <1>4 DEF Armed
<1>7. \A o \in Threads : TaskFits(o)'
  <2>1. TaskFits(t)'
    BY <1>2, <1>6 DEF TaskFits
  <2>2. ASSUME NEW o \in Threads \ {t} PROVE TaskFits(o)'
    <3>1. PICK x : x = th[o]
      OBVIOUS
    <3>2. PICK y : y = th'[o]
      OBVIOUS
    <3>3. /\ y \in Task /\ y.pc = x.pc
          /\ x.pc \in {"load", "arm"} => y.how = x.how /\ y.date = x.date /\ y.outer = x.outer
          /\ x.pc = "save" => y.how = x.how
          /\ x.pc = "save" /\ x.how \in Armers => y.date = x.date /\ y.outer = x.outer
          /\ x.pc \in {"arm", "save", "delete", "run", "scan"} => y.copy = x.copy
      BY <1>2, <1>4, <2>2, <3>1, <3>2
    <3>4. "afterDeletion" \in disturbed => "afterDeletion" \in disturbed'
      OBVIOUS
    <3>5. TaskFits(o)
      BY <1>3, <2>2
    <3> QED
      BY <3>1, <3>2, <3>3, <3>4, <3>5 DEF TaskFits, Armed
  <2> QED
    BY <2>1, <2>2
<1>8. \A o \in Threads \ {t} : th'[o].pc = "idle" \/ th'[o].stale
  BY <1>2, <1>4
<1>9. \A o \in Threads : CopyFresh(o)'
  <2>1. CopyFresh(t)'
    BY <1>2 DEF CopyFresh
  <2> QED
    BY <1>8, <2>1 DEF CopyFresh
<1>10. WorldFits'
  BY <1>1 DEF SInv, WorldFits
<1>11. OneTimer'
  <2>1. phase # "down"
    <3>1. th[t] # NoTask
      BY DEF NoTask
    <3> QED
      BY <3>1, Now
  <2> QED
    BY <2>1 DEF SInv, OneTimer
<1>12. "overtaken" \notin disturbed' => "overtaken" \notin disturbed /\ ~th[t].stale
  BY DEF Lost
<1>13. ASSUME ~Excused'
       PROVE  /\ ~Excused /\ ~th[t].stale /\ ~Holding' /\ (Holding <=> Armed(t))
              /\ \A o \in Threads \ {t} : ~Armed(o)
  <2>1. "overtaken" \notin disturbed /\ ~th[t].stale
    BY <1>12, <1>13 DEF Excused
  <2>2. \A o \in Threads \ {t} : th[o].pc # "save"
    <3> SUFFICES ASSUME NEW o \in Threads \ {t}, th[o].pc = "save"
                 PROVE  FALSE
      OBVIOUS
    <3>1. th'[o].pc = "save" /\ th'[o].stale
      BY <1>2, <1>4
    <3> QED
      BY <1>13, <3>1 DEF Excused, Doomed
  <2>3. ~Excused
    BY <2>1, <2>2 DEF Excused, Doomed
  <2>4. \A o \in Threads \ {t} : ~Armed(o)
    BY <2>2 DEF Armed
  <2> QED
    BY <1>6, <2>1, <2>3, <2>4 DEF Holding
<1>14. TimerOfHolder'
  BY <1>13 DEF TimerOfHolder
<1>15. FiredTimers'
  <2>1. \A o \in Threads : ~Firing(o)'
    BY <1>2, <1>8 DEF Firing
  <2> QED
    BY <2>1 DEF FiredTimers
<1>16. HolderTimers'
  <2>1. ~Excused' => \A o \in Threads : ~Armed(o)'
    BY <1>13 DEF Holding
  <2> QED
    BY <2>1 DEF HolderTimers
<1>17. Serving' <=> Serving
  <2>1. th'["init"].pc = "scan" <=> th["init"].pc = "scan"
    BY <1>2, <1>4 DEF Threads
  <2> QED
    BY <2>1 DEF Serving, Scanning
<1> QED
  BY <1>1, <1>2, <1>5, <1>7, <1>9, <1>10, <1>11, <1>12, <1>13, <1>14, <1>15, <1>16, <1>17 DEF TasksFit, CopiesFresh

LEMMA DeletedIs ==
  ASSUME NEW c \in Race, EntryFits(c)
  PROVE  \E m \in Race : /\ m = [c EXCEPT !.deleted = TRUE] /\ EntryFits(m) /\ m.deleted
                         /\ m.sched = c.sched /\ m.entry = c.entry /\ Entered(m).sched = Entered(c).sched
<1>1. PICK yes \in BOOLEAN : yes = TRUE
  OBVIOUS
<1>2. PICK m : m = WithDeleted(c, yes)
  OBVIOUS
<1>3. m \in Race /\ m.sched = c.sched /\ m.entry = c.entry
  BY <1>2, RaceUpdated
<1>4. m.deleted = yes
  BY <1>2, RaceUpdated
<1>5. m.deleted
  BY <1>1, <1>4
<1>6. m = [c EXCEPT !.deleted = TRUE]
  BY <1>1, <1>2, Zenon DEF WithDeleted
<1>7. EntryFits(m)
  BY <1>3 DEF EntryFits
<1>8. Entered(m).sched = IF m.entry.sched = 0 THEN m.sched ELSE m.entry.sched
  BY <1>3, EnteredIs
<1>9. Entered(c).sched = IF c.entry.sched = 0 THEN c.sched ELSE c.entry.sched
  BY EnteredIs
<1> QED
  BY <1>3, <1>5, <1>6, <1>7, <1>8, <1>9

LEMMA DeleteStep ==
  ASSUME SInv, NEW h \in Handlers, Delete(h)
  PROVE  SInv'
<1>1. h \in Threads /\ th[h].pc = "delete"
  BY DEF Delete, Threads
<1>2. PICK c : c = th[h].copy
  OBVIOUS
<1>3. c \in Race /\ EntryFits(c)
  <2>1. th[h] \in Task /\ TaskFits(h)
    BY <1>1, Now
  <2> QED
    BY <1>1, <1>2, <2>1, TaskIs DEF TaskFits
<1>4. PICK m \in Race : /\ m = [c EXCEPT !.deleted = TRUE] /\ EntryFits(m) /\ m.deleted
                        /\ m.sched = c.sched /\ m.entry = c.entry /\ Entered(m).sched = Entered(c).sched
  BY <1>3, DeletedIs
<1>5. NoTask \in Task /\ NoTask.pc = "idle"
  BY DEF Task, NoTask
<1>6. /\ Upsert(h, m, NoTask) /\ wanted' = "no" /\ disturbed' = disturbed \cup Lost(h)
      /\ UNCHANGED <<now, phase, startTimers, slot, made>>
  BY <1>2, <1>4 DEF Delete
<1>7. disturbed' \subseteq {"overtaken", "failedSchedule", "failedStart", "staleEntry", "afterDeletion"}
  BY <1>1, <1>6, Now DEF Lost
<1>8. /\ store' = m /\ th'[h] = NoTask /\ \A o \in Threads \ {h} : th'[o] = Aged(th[o])
      /\ WorldFits' /\ OneTimer' /\ TasksFit' /\ CopiesFresh'
      /\ ~Excused' => ~Excused /\ ~th[h].stale /\ ~Holding' /\ (Holding <=> Armed(h))
      /\ TimerOfHolder' /\ FiredTimers' /\ HolderTimers'
  BY <1>1, <1>4, <1>5, <1>6, <1>7, Upserted
<1>9. WantedFits' /\ RecurrenceTimers'
  BY <1>4, <1>6, <1>8 DEF WantedFits, RecurrenceTimers
<1>10. TimerOfStore'
  <2> SUFFICES ASSUME ~Excused', NEW tm \in startTimers
               PROVE  tm.at = Entered(m).sched /\ "staleEntry" \in disturbed'
    BY <1>6, <1>8 DEF TimerOfStore
  <2>1. ~Excused /\ ~th[h].stale /\ ~Holding
    BY <1>1, <1>8 DEF Armed
  <2>2. c = store /\ store.sched = 0
    BY <1>1, <1>2, <2>1 DEF SInv, DeletedTimers
  <2>3. tm.at = Entered(store).sched /\ "staleEntry" \in disturbed
    BY <2>1, <2>2 DEF SInv, TimerOfStore
  <2> QED
    BY <1>4, <1>6, <2>2, <2>3
<1>11. DeletedTimers'
  <2>1. \A o \in Threads : th'[o].pc = "delete" => th'[o].stale
    <3> SUFFICES ASSUME NEW o \in Threads, th'[o].pc = "delete"
                 PROVE  th'[o].stale
      OBVIOUS
    <3>1. o # h /\ th'[o] = Aged(th[o]) /\ th[o] \in Task
      BY <1>5, <1>8, Now
    <3> QED
      BY <3>1, AgedIs
  <2> QED
    BY <2>1 DEF DeletedTimers
<1>12. FutureTimers' /\ Cleared'
  BY <1>4, <1>8 DEF FutureTimers, Cleared
<1> QED
  BY <1>8, <1>9, <1>10, <1>11, <1>12 DEF SInv

\* What a goroutine that is about to save knows.
LEMMA SaverIs ==
  ASSUME SInv, NEW t \in Threads, Save(t)
  PROVE  /\ th[t].pc = "save" /\ th[t] \in Arming \cup Saves /\ th[t].how \in Armers \cup Others
         /\ th[t].copy \in Race /\ EntryFits(th[t].copy)
         /\ Armed(t) <=> th[t].how \in Armers
         /\ Armed(t) => /\ th[t].copy.sched = th[t].date /\ th[t].copy.entry.sched = th[t].date
                        /\ th[t].how \in {"remove", "delete"} <=> th[t].date = 0
                        /\ th[t].outer \in Race /\ EntryFits(th[t].outer)
                        /\ Entered(th[t].copy).sched = th[t].date
         /\ Armed(t) /\ th[t].how = "recurring" => th[t].copy.recur
         /\ Armed(t) /\ th[t].how \notin {"recurring", "already"} => ~th[t].copy.recur
         /\ Armed(t) /\ th[t].copy.deleted => "afterDeletion" \in disturbed
<1>1. th[t].pc = "save"
  BY DEF Save
<1>2. th[t] \in Task /\ TaskFits(t)
  BY Now
<1>3. /\ th[t] \in Arming \cup Saves /\ th[t].how \in Armers \cup Others
      /\ th[t].copy \in Race
      /\ th[t].how \in Armers => th[t] \in Arming
  BY <1>1, <1>2, TaskIs
<1>4. EntryFits(th[t].copy)
  BY <1>1, <1>2 DEF TaskFits
<1>5. Armed(t) <=> th[t].how \in Armers
  BY <1>1 DEF Armed
<1>6. Armed(t) => /\ th[t].copy.sched = th[t].date /\ th[t].copy.entry.sched = th[t].date
                  /\ th[t].how \in {"remove", "delete"} <=> th[t].date = 0
                  /\ EntryFits(th[t].outer)
  BY <1>2 DEF TaskFits
<1>7. Armed(t) => th[t].outer \in Race
  BY <1>3, <1>5 DEF Arming
<1>8. Entered(th[t].copy).sched = IF th[t].copy.entry.sched = 0 THEN th[t].copy.sched ELSE th[t].copy.entry.sched
  BY <1>3, EnteredIs
<1>9. /\ Armed(t) /\ th[t].how = "recurring" => th[t].copy.recur
      /\ Armed(t) /\ th[t].how \notin {"recurring", "already"} => ~th[t].copy.recur
      /\ Armed(t) /\ th[t].copy.deleted => "afterDeletion" \in disturbed
  BY <1>2 DEF TaskFits
<1> QED
  BY <1>1, <1>3, <1>4, <1>5, <1>6, <1>7, <1>8, <1>9

LEMMA SaveStep ==
  ASSUME SInv, NEW t \in Threads, Save(t)
  PROVE  SInv'
<1>1. PICK x : x = th[t]
  OBVIOUS
<1>2. /\ x.pc = "save" /\ x \in Arming \cup Saves /\ x.how \in Armers \cup Others
      /\ x.copy \in Race /\ EntryFits(x.copy)
      /\ Armed(t) <=> x.how \in Armers
      /\ Armed(t) => /\ x.copy.sched = x.date /\ x.copy.entry.sched = x.date
                     /\ x.how \in {"remove", "delete"} <=> x.date = 0
                     /\ x.outer \in Race /\ EntryFits(x.outer)
                     /\ Entered(x.copy).sched = x.date
      /\ Armed(t) /\ x.how = "recurring" => x.copy.recur
      /\ Armed(t) /\ x.how \notin {"recurring", "already"} => ~x.copy.recur
      /\ Armed(t) /\ x.copy.deleted => "afterDeletion" \in disturbed
  BY <1>1, SaverIs
<1>3. PICK s : s = IF x.how = "delete" THEN [pc |-> "delete", copy |-> x.outer, stale |-> FALSE] ELSE NoTask
  OBVIOUS
<1>4. /\ s \in Task /\ s.pc \in {"idle", "delete"}
      /\ s.pc = "delete" => x.how = "delete" /\ s.copy = x.outer /\ EntryFits(s.copy)
  <2>1. CASE x.how = "delete"
    <3>1. x.outer \in Race /\ EntryFits(x.outer)
      BY <1>2, <2>1 DEF Armers
    <3>2. s \in Copying /\ s.pc = "delete" /\ s.copy = x.outer
      BY <1>3, <2>1, <3>1 DEF Copying
    <3> QED
      BY <2>1, <3>1, <3>2 DEF Task
  <2>2. CASE x.how # "delete"
    BY <1>3, <2>2 DEF Task, NoTask
  <2> QED
    BY <2>1, <2>2
<1>5. /\ Upsert(t, x.copy, s) /\ UNCHANGED <<now, phase, startTimers, slot, made>>
      /\ wanted' = IF x.copy.deleted THEN "no" ELSE AskedAfter(x.how)
      /\ disturbed' = (disturbed \ (IF x.how \in {"once", "recurring", "remove", "delete"}
                                      THEN {"staleEntry", "failedStart"} ELSE {}))
                      \cup Lost(t)
  BY <1>1, <1>3, Zenon DEF Save
<1>6. /\ wanted \in {"no", "once", "recurring"} /\ now \in 1 .. Until
      /\ disturbed \subseteq {"overtaken", "failedSchedule", "failedStart", "staleEntry", "afterDeletion"}
      /\ CopyFresh(t) /\ store \in Race /\ EntryFits(store)
  BY Now DEF SInv, WorldFits
<1>7. wanted' \in {"no", "once", "recurring"}
  <2>1. AskedAfter(x.how) \in {"no", "once", "recurring"}
    BY <1>6 DEF AskedAfter
  <2> QED
    BY <1>5, <2>1
<1>8. /\ disturbed' \subseteq {"overtaken", "failedSchedule", "failedStart", "staleEntry", "afterDeletion"}
      /\ disturbed \cap {"overtaken", "afterDeletion", "failedSchedule"} \subseteq disturbed' /\ Lost(t) \subseteq disturbed'
      /\ x.how \notin {"once", "recurring", "remove", "delete"} => disturbed \subseteq disturbed'
  BY <1>5, <1>6 DEF Lost
<1>9. /\ store' = x.copy /\ th'[t] = s /\ \A o \in Threads \ {t} : th'[o] = Aged(th[o])
      /\ WorldFits' /\ OneTimer' /\ TasksFit' /\ CopiesFresh'
      /\ "overtaken" \notin disturbed' => "overtaken" \notin disturbed /\ ~x.stale
      /\ ~Excused' => /\ ~Excused /\ ~x.stale /\ ~Holding' /\ (Holding <=> Armed(t))
                      /\ \A o \in Threads \ {t} : ~Armed(o)
      /\ TimerOfHolder' /\ FiredTimers' /\ HolderTimers'
      /\ Serving' <=> Serving
  BY <1>1, <1>2, <1>4, <1>5, <1>7, <1>8, Upserted
\* Of the copies that do not follow a change of the timer, what a fresh one is like.
<1>10. ASSUME ~x.stale
       PROVE  /\ x.copy.deleted = store.deleted
              /\ x.how = "already" => x.copy.recur = store.recur
              /\ x.how = "edit" => x.copy = store
              /\ x.how = "started" => ~store.recur
              /\ x.how \in {"started", "missed"} => x.copy.sched = 0
              /\ x.how = "missed" => (store.recur => "staleEntry" \in disturbed)
              /\ x.how \in {"started", "missed", "exhausted"} => ~x.copy.recur
              /\ x.how = "missed" => x.copy.entry = NoEntry
              /\ x.how = "started" => x.copy.entry = store.entry
              /\ x.how = "exhausted" =>
                   /\ store.sched # 0 => x.copy.sched = store.sched
                   /\ store.sched = 0 => x.copy.sched <= now
                   /\ Entered(x.copy).sched = Entered(store).sched
  <2>1. x.how = "started" => ~store.recur /\ x.copy = [store EXCEPT !.sched = 0]
    BY <1>1, <1>2, <1>6, <1>10 DEF CopyFresh
  <2>2. x.how = "started" => x.copy.sched = 0 /\ x.copy.entry = store.entry /\ x.copy.recur = store.recur
    BY <1>6, <2>1 DEF Race
  <2>3. x.copy.deleted = store.deleted
    BY <1>1, <1>2, <1>6, <1>10 DEF CopyFresh
  <2>4. /\ x.how = "already" => x.copy.recur = store.recur
        /\ x.how = "edit" => x.copy = store
    BY <1>1, <1>2, <1>6, <1>10 DEF CopyFresh
  <2>5. /\ x.how = "missed" => x.copy.sched = 0 /\ x.copy.entry = NoEntry
        /\ x.how = "missed" => (store.recur => "staleEntry" \in disturbed)
    BY <1>1, <1>2, <1>6, <1>10 DEF CopyFresh
  <2>6. x.how = "exhausted" =>
           /\ store.sched # 0 => x.copy.sched = store.sched
           /\ store.sched = 0 => x.copy.sched <= now
           /\ Entered(x.copy).sched = Entered(store).sched
    BY <1>1, <1>2, <1>6, <1>10 DEF CopyFresh
  <2>7. x.how \in {"missed", "exhausted"} => ~x.copy.recur
    BY <1>1, <1>2, <1>6, <1>10 DEF CopyFresh
  <2>8. x.how = "started" => ~x.copy.recur
    BY <2>1, <2>2
  <2> QED
    BY <2>1, <2>2, <2>3, <2>4, <2>5, <2>6, <2>7, <2>8
\* The timers that run when a new schedule is saved.
<1>11. ASSUME ~Excused', Armed(t)
       PROVE  /\ \A tm \in startTimers : tm.at = x.date
              /\ x.date = 0 => startTimers = {}
  <2>1. \A tm \in startTimers : tm.at = x.date
    BY <1>1, <1>2, <1>9, <1>11 DEF SInv, TimerOfHolder, Holding
  <2>2. \A tm \in startTimers : tm.at # 0
    <3>1. Until \in Nat
      BY Numbers
    <3> QED
      BY <3>1 DEF SInv, WorldFits
  <2> QED
    BY <2>1, <2>2
<1>12. TimerOfStore'
  <2> SUFFICES ASSUME ~Excused', NEW tm \in startTimers
               PROVE  /\ tm.at = Entered(x.copy).sched
                      /\ "staleEntry" \notin disturbed' => x.copy.sched # 0
                      /\ disturbed' \cap {"staleEntry", "afterDeletion"} = {} => ~x.copy.deleted
    BY <1>5, <1>9 DEF TimerOfStore
  <2>1. CASE Armed(t)
    <3>1. tm.at = x.date /\ x.date # 0
      BY <1>11, <2>1
    <3>2. x.copy.deleted => "afterDeletion" \in disturbed'
      BY <1>2, <1>8, <2>1
    <3> QED
      BY <1>2, <2>1, <3>1, <3>2
  <2>2. CASE ~Armed(t)
    <3>1. ~Excused /\ ~Holding /\ ~x.stale
      BY <1>9, <2>2
    <3>2. /\ tm.at = Entered(store).sched
          /\ "staleEntry" \notin disturbed => store.sched # 0
          /\ disturbed \cap {"staleEntry", "afterDeletion"} = {} => ~store.deleted
      BY <3>1 DEF SInv, TimerOfStore
    <3>3. x.how \in Others /\ x.how \notin Armers
      BY <1>2, <2>2
    <3>4. disturbed \subseteq disturbed'
      BY <1>8, <3>3 DEF Others
    <3>5. x.how \notin {"started", "missed"}
      <4>1. x.how \in {"started", "missed"} => Firing(t)
        BY <1>1, <1>2, <3>1 DEF Firing
      <4> QED
        BY <3>1, <4>1 DEF SInv, FiredTimers
    <3>6. CASE x.how = "edit"
      <4>1. x.copy = store
        BY <1>10, <3>1, <3>6
      <4> QED
        BY <3>2, <3>4, <4>1
    <3>7. CASE x.how = "exhausted"
      <4>1. /\ store.sched # 0 => x.copy.sched = store.sched
            /\ Entered(x.copy).sched = Entered(store).sched
        BY <1>10, <3>1, <3>7
      <4>2. x.copy.deleted = store.deleted
        BY <1>10, <3>1
      <4> QED
        BY <3>2, <3>4, <4>1, <4>2
    <3> QED
      BY <3>3, <3>5, <3>6, <3>7 DEF Others
  <2> QED
    BY <2>1, <2>2
<1>13. DeletedTimers'
  <2> SUFFICES ASSUME ~Excused', NEW o \in Threads, th'[o].pc = "delete", ~th'[o].stale
               PROVE  startTimers = {} /\ Entered(x.copy).sched = 0
    BY <1>5, <1>9 DEF DeletedTimers
  <2>1. o = t
    <3>1. ASSUME o # t PROVE FALSE
      <4>1. th'[o] = Aged(th[o]) /\ th[o] \in Task
        BY <1>9, <3>1, Now
      <4> QED
        BY <4>1, AgedIs
    <3> QED
      BY <3>1
  <2>2. x.how = "delete" /\ Armed(t)
    BY <1>2, <1>4, <1>9, <2>1 DEF Armers
  <2>3. x.date = 0
    BY <1>2, <2>2
  <2> QED
    BY <1>2, <1>11, <2>2, <2>3
<1>14. ASSUME "overtaken" \notin disturbed', wanted' = "recurring"
       PROVE  x.copy.recur /\ ~x.copy.deleted
  <2>1. ~x.stale /\ "overtaken" \notin disturbed
    BY <1>9, <1>14
  <2>2. ~x.copy.deleted /\ AskedAfter(x.how) = "recurring"
    BY <1>5, <1>14
  <2>3. CASE x.how = "recurring"
    BY <1>2, <2>2, <2>3 DEF Armers
  <2>4. CASE x.how # "recurring"
    <3>1. /\ wanted = "recurring" /\ x.how \in {"already", "edit", "started", "missed"}
          /\ x.how \in {"started", "missed"} => "staleEntry" \notin disturbed
      BY <1>2, <2>2, <2>4 DEF AskedAfter, Armers, Others
    <3>2. store.recur
      BY <2>1, <3>1 DEF SInv, WantedFits
    <3>3. x.how \notin {"started", "missed"}
      BY <1>10, <2>1, <3>1, <3>2
    <3>4. x.how = "already" => x.copy.recur = store.recur
      BY <1>10, <2>1
    <3>5. x.how = "edit" => x.copy = store
      BY <1>10, <2>1
    <3>6. x.copy.recur = store.recur
      BY <3>1, <3>3, <3>4, <3>5
    <3>7. x.copy.recur
      BY <3>2, <3>6
    <3> QED
      BY <2>2, <3>7
  <2> QED
    BY <2>3, <2>4
\* A new schedule that needs a timer has it, but for a callback that has begun.
<1>15. ASSUME ~Excused', "failedSchedule" \notin disturbed', x.how \in {"once", "recurring", "already"}
       PROVE  startTimers # {} \/ ((\E o \in Threads : th[o].pc = "begin") /\ x.copy.sched <= now)
  <2>1. Armed(t) /\ ~Excused /\ \A o \in Threads \ {t} : ~Armed(o)
    BY <1>2, <1>9, <1>15 DEF Armers
  <2>2. "failedSchedule" \notin disturbed
    BY <1>8, <1>15
  <2> QED
    BY <1>1, <1>15, <2>1, <2>2 DEF SInv, HolderTimers
<1>16. FutureTimers'
  <2> SUFFICES ASSUME ~Excused', "failedSchedule" \notin disturbed', Serving', ~x.copy.deleted, x.copy.sched > now
               PROVE  startTimers # {}
    BY <1>5, <1>9 DEF FutureTimers
  <2>1. now \in Nat /\ now # 0 /\ x.copy.sched \in Nat /\ x.copy.sched # 0
    <3>1. Until \in Nat /\ x.copy.sched \in 0 .. Until
      BY <1>2, RaceFields, Numbers
    <3> QED
      BY <1>6, <3>1
  <2>2. CASE Armed(t)
    <3>1. x.how \in {"once", "recurring", "already"}
      BY <1>2, <2>1, <2>2 DEF Armers
    <3> QED
      BY <1>15, <2>1, <3>1
  <2>3. CASE ~Armed(t)
    <3>1. ~Excused /\ ~Holding /\ ~x.stale /\ Serving /\ "failedSchedule" \notin disturbed
      BY <1>8, <1>9, <2>3
    <3>2. ~store.deleted
      BY <1>10, <3>1
    <3>3. x.copy.sched = store.sched
      <4>1. x.how \in {"edit", "exhausted"}
        BY <1>2, <1>10, <2>1, <2>3, <3>1 DEF Others
      <4>2. CASE x.how = "edit"
        BY <1>10, <3>1, <4>2
      <4>3. CASE x.how = "exhausted"
        <5>1. /\ store.sched # 0 => x.copy.sched = store.sched
              /\ store.sched = 0 => x.copy.sched <= now
          BY <1>10, <3>1, <4>3
        <5> QED
          BY <2>1, <5>1
      <4> QED
        BY <4>1, <4>2, <4>3
    <3> QED
      BY <3>1, <3>2, <3>3 DEF SInv, FutureTimers
  <2> QED
    BY <2>2, <2>3
<1>17. RecurrenceTimers'
  <2> SUFFICES ASSUME disturbed' = {}, wanted' = "recurring", Serving', \A o \in Threads : ~Late(o)' /\ ~Carries(o)'
               PROVE  startTimers # {}
    BY <1>5 DEF RecurrenceTimers
  <2>1. ~Excused'
    <3>1. ~Doomed'
      BY DEF Doomed, Late
    <3> QED
      BY <3>1 DEF Excused
  <2>2. \A o \in Threads \ {t} : /\ th[o].pc \notin {"begin", "run", "arm", "save"}
                                 /\ th[o].pc = "load" => th[o].how # "already"
    <3> SUFFICES ASSUME NEW o \in Threads \ {t}
                 PROVE  /\ th[o].pc \notin {"begin", "run", "arm", "save"}
                        /\ th[o].pc = "load" => th[o].how # "already"
      OBVIOUS
    <3>1. th[o] \in Task /\ th'[o] = Aged(th[o])
      BY <1>9, Now
    <3>2. /\ th'[o].pc = th[o].pc
          /\ th[o].pc # "idle" => th'[o].stale
          /\ th[o].pc = "load" => th'[o].how = th[o].how
      BY <3>1, AgedIs
    <3> QED
      BY <3>2 DEF Late
  <2>3. x.copy.deleted \/ AskedAfter(x.how) = "recurring"
    BY <1>5
  <2>4. ~x.copy.deleted /\ AskedAfter(x.how) = "recurring"
    BY <1>5
  <2>5. ~Excused /\ ~x.stale /\ "failedSchedule" \notin disturbed' /\ "overtaken" \notin disturbed
    BY <1>9, <2>1 DEF Excused
  <2>6. CASE x.how \in {"once", "recurring", "already"}
    <3>1. ~\E o \in Threads : th[o].pc = "begin"
      BY <1>1, <1>2, <2>2
    <3> QED
      BY <1>15, <2>1, <2>5, <2>6, <3>1
  <2>7. CASE x.how \notin {"once", "recurring", "already"}
    <3>1. /\ wanted = "recurring" /\ x.how \in {"edit", "started", "missed"}
          /\ x.how \in {"started", "missed"} => "staleEntry" \notin disturbed
      BY <1>2, <2>4, <2>7 DEF AskedAfter, Armers, Others
    <3>2. store.recur
      BY <2>5, <3>1 DEF SInv, WantedFits
    <3>3. x.how = "edit"
      BY <1>10, <2>5, <3>1, <3>2
    <3>4. disturbed = {} /\ Serving /\ ~Holding
      BY <1>2, <1>8, <1>9, <2>1, <3>3 DEF Armers
    <3>5. \A o \in Threads : ~Late(o) /\ ~Carries(o)
      <4>1. ~Late(t) /\ ~Carries(t)
        BY <1>1, <1>2, <2>5, <3>3 DEF Late, Carries
      <4>2. ASSUME NEW o \in Threads \ {t} PROVE ~Late(o) /\ ~Carries(o)
        BY <2>2 DEF Late, Carries
      <4> QED
        BY <4>1, <4>2
    <3> QED
      BY <3>1, <3>4, <3>5 DEF SInv, RecurrenceTimers
  <2> QED
    BY <2>6, <2>7
<1>18. ASSUME "overtaken" \notin disturbed', x.copy.recur, ~x.copy.deleted
       PROVE  wanted' = "recurring"
  <2>1. ~x.stale /\ "overtaken" \notin disturbed
    BY <1>9, <1>18
  <2>2. wanted' = AskedAfter(x.how)
    BY <1>5, <1>18
  <2>3. x.how \in {"recurring", "already", "edit"}
    BY <1>2, <1>10, <1>18, <2>1 DEF Armers, Others
  <2>4. CASE x.how = "recurring"
    BY <2>2, <2>4 DEF AskedAfter
  <2>5. CASE x.how \in {"already", "edit"}
    <3>1. x.copy.recur = store.recur /\ x.copy.deleted = store.deleted
      BY <1>10, <2>1, <2>5
    <3>2. store.recur /\ ~store.deleted
      BY <1>18, <3>1
    <3>3. wanted = "recurring"
      BY <2>1, <3>2 DEF SInv, WantedFits
    <3> QED
      BY <2>2, <2>5, <3>3 DEF AskedAfter
  <2> QED
    BY <2>3, <2>4, <2>5
<1>19. WantedFits'
  BY <1>9, <1>14, <1>18 DEF WantedFits
<1>20. Cleared'
  <2> SUFFICES ASSUME ~Excused', "staleEntry" \notin disturbed', Serving', ~x.copy.deleted, x.copy.sched = 0
               PROVE  Entered(x.copy).sched <= now
    BY <1>5, <1>9 DEF Cleared
  <2>1. now \in Nat /\ 0 <= now
    <3>1. Until \in Nat
      BY Numbers
    <3> QED
      BY <1>6, <3>1
  <2>2. Entered(x.copy).sched = IF x.copy.entry.sched = 0 THEN x.copy.sched ELSE x.copy.entry.sched
    BY <1>2, EnteredIs
  <2>3. CASE Armed(t)
    BY <1>2, <2>1, <2>3
  <2>4. CASE ~Armed(t)
    <3>1. ~Excused /\ ~Holding /\ ~x.stale /\ Serving
      BY <1>9, <2>4
    <3>2. x.how \in Others /\ "staleEntry" \notin disturbed
      BY <1>2, <1>8, <2>4 DEF Others
    <3>3. ~store.deleted
      BY <1>10, <3>1
    <3>4. CASE x.how = "started"
      <4>1. Firing(t)
        BY <1>1, <1>2, <3>1, <3>4 DEF Firing
      <4>2. Entered(store).sched <= now
        BY <3>1, <4>1 DEF SInv, FiredTimers
      <4>3. x.copy.entry = store.entry
        BY <1>10, <3>1, <3>4
      <4>4. x.copy.entry.sched # 0 => Entered(store).sched = x.copy.entry.sched
        BY <1>6, <4>3, EnteredIs
      <4> QED
        BY <2>1, <2>2, <4>2, <4>4
    <3>5. CASE x.how = "missed"
      <4>1. x.copy.entry = NoEntry
        BY <1>10, <3>1, <3>5
      <4> QED
        BY <2>1, <2>2, <4>1 DEF NoEntry
    <3>6. CASE x.how = "edit"
      <4>1. x.copy = store
        BY <1>10, <3>1, <3>6
      <4> QED
        BY <3>1, <3>2, <3>3, <4>1 DEF SInv, Cleared
    <3>7. CASE x.how = "exhausted"
      <4>1. /\ store.sched # 0 => x.copy.sched = store.sched
            /\ Entered(x.copy).sched = Entered(store).sched
        BY <1>10, <3>1, <3>7
      <4>2. Entered(store).sched <= now
        BY <3>1, <3>2, <3>3, <4>1 DEF SInv, Cleared
      <4> QED
        BY <4>1, <4>2
    <3> QED
      BY <3>2, <3>4, <3>5, <3>6, <3>7 DEF Others
  <2> QED
    BY <2>3, <2>4
<1> QED
  BY <1>9, <1>12, <1>13, <1>16, <1>17, <1>19, <1>20 DEF SInv

------------------------------------------------------------------------------
(* Server Manager starts and ends, and time passes.                             *)

LEMMA BootStep ==
  ASSUME SInv, Boot
  PROVE  SInv'
<1>1. PICK x : x = IF store.deleted THEN NoTask ELSE [pc |-> "scan", copy |-> store, stale |-> FALSE]
  OBVIOUS
<1>2. /\ phase = "down" /\ phase' = "init" /\ Become("init", x)
      /\ UNCHANGED <<now, store, startTimers, slot, made, wanted, disturbed>>
  BY <1>1 DEF Boot
<1>3. "init" \in Threads
  BY DEF Threads
<1>4. startTimers = {} /\ \A o \in Threads : th[o] = NoTask
  BY <1>2 DEF SInv, OneTimer
<1>5. store \in Race /\ EntryFits(store)
  BY <1>3, Now
<1>6. /\ x \in Task /\ x.pc \in {"idle", "scan"}
      /\ x.pc = "scan" => x.copy = store /\ ~store.deleted
      /\ x.pc = "idle" => store.deleted
  <2>1. CASE store.deleted
    BY <1>1, <2>1 DEF Task, NoTask
  <2>2. CASE ~store.deleted
    <3>1. x = [pc |-> "scan", copy |-> store, stale |-> FALSE]
      BY <1>1, <2>2
    <3>2. x \in Copying /\ x.pc = "scan" /\ x.copy = store
      BY <1>5, <3>1 DEF Copying
    <3> QED
      BY <2>2, <3>2 DEF Task
  <2> QED
    BY <2>1, <2>2
<1>7. th'["init"] = x /\ NoTask.pc = "idle"
  BY <1>2, <1>3 DEF Become, SInv, TasksFit, NoTask
<1>8. ~Armed("init")'
  BY <1>6, <1>7 DEF Armed
<1>9. TaskFits("init")'
  BY <1>5, <1>6, <1>7, <1>8 DEF TaskFits
<1>10. CopyFresh("init")'
  BY <1>2, <1>6, <1>7 DEF CopyFresh
<1>11. /\ TasksFit' /\ CopiesFresh'
       /\ \A o \in Threads \ {"init"} : th'[o] = th[o]
  BY <1>2, <1>3, <1>6, <1>9, <1>10, RaceMoved
<1>12. \A o \in Threads : th'[o].pc \in {"idle", "scan"}
  <2>1. ASSUME NEW o \in Threads, o # "init" PROVE th'[o].pc = "idle"
    BY <1>4, <1>7, <1>11, <2>1
  <2> QED
    BY <1>6, <1>7, <2>1
<1>13. ~Holding'
  BY <1>12 DEF Holding, Armed
<1>14. WorldFits'
  BY <1>2 DEF SInv, WorldFits
<1>15. OneTimer'
  BY <1>2, <1>4 DEF OneTimer
<1>16. WantedFits'
  BY <1>2 DEF SInv, WantedFits
<1>17. TimerOfHolder' /\ TimerOfStore'
  BY <1>2, <1>4 DEF TimerOfHolder, TimerOfStore
<1>18. FiredTimers' /\ DeletedTimers'
  BY <1>12 DEF FiredTimers, DeletedTimers, Firing
<1>19. HolderTimers'
  BY <1>12 DEF HolderTimers, Armed
<1>20. Serving' => store.deleted
  BY <1>2, <1>6, <1>7 DEF Serving, Scanning
<1>21. FutureTimers' /\ Cleared'
  BY <1>2, <1>20 DEF FutureTimers, Cleared
<1>22. RecurrenceTimers'
  <2>1. disturbed' = {} /\ wanted' = "recurring" => ~store.deleted
    BY <1>2 DEF SInv, WantedFits
  <2> QED
    BY <1>20, <2>1 DEF RecurrenceTimers
<1> QED
  BY <1>11, <1>14, <1>15, <1>16, <1>17, <1>18, <1>19, <1>21, <1>22 DEF SInv

LEMMA ServeStep ==
  ASSUME SInv, Serve
  PROVE  SInv'
<1>1. /\ phase = "init" /\ phase' = "up" /\ th["init"] = NoTask
      /\ UNCHANGED <<now, store, startTimers, slot, made, th, wanted, disturbed>>
  BY DEF Serve
<1>2. Serving
  BY <1>1 DEF Serving, Scanning, NoTask
<1>3. WorldFits' /\ OneTimer'
  BY <1>1 DEF SInv, WorldFits, OneTimer
<1>4. \A t \in Threads : (Armed(t)' <=> Armed(t)) /\ (Firing(t)' <=> Firing(t))
                         /\ (Late(t)' <=> Late(t)) /\ (Carries(t)' <=> Carries(t))
  BY <1>1 DEF Armed, Firing, Late, Carries
<1>5. (Holding' <=> Holding) /\ (Excused' <=> Excused)
  BY <1>1, <1>4 DEF Holding, Excused, Doomed
<1>6. TasksFit' /\ CopiesFresh'
  <2>1. \A t \in Threads : TaskFits(t)'
    BY <1>1 DEF SInv, TasksFit, TaskFits, Armed
  <2>2. \A t \in Threads : CopyFresh(t)'
    BY <1>1 DEF SInv, CopiesFresh, CopyFresh
  <2> QED
    BY <1>1, <2>1, <2>2 DEF SInv, TasksFit, CopiesFresh
<1>7. WantedFits'
  BY <1>1 DEF SInv, WantedFits
<1>8. TimerOfHolder' /\ TimerOfStore'
  BY <1>1, <1>4, <1>5 DEF SInv, TimerOfHolder, TimerOfStore, Entered
<1>9. FiredTimers' /\ DeletedTimers'
  BY <1>1, <1>4, <1>5 DEF SInv, FiredTimers, DeletedTimers, Entered
<1>10. FutureTimers' /\ HolderTimers' /\ RecurrenceTimers'
  BY <1>1, <1>2, <1>4, <1>5 DEF SInv, FutureTimers, HolderTimers, RecurrenceTimers
<1>11. Cleared'
  BY <1>1, <1>2, <1>5 DEF SInv, Cleared, Entered
<1> QED
  BY <1>3, <1>6, <1>7, <1>8, <1>9, <1>10, <1>11 DEF SInv

LEMMA TickStep ==
  ASSUME SInv, Tick
  PROVE  SInv'
<1>1. /\ now < Until /\ now' = now + 1
      /\ UNCHANGED <<phase, store, startTimers, slot, made, th, wanted, disturbed>>
  BY DEF Tick
<1>2. now \in 1 .. Until /\ Until \in Nat
  BY Numbers DEF SInv, WorldFits
<1>3. now' \in 1 .. Until /\ \A n \in Nat : (n <= now => n <= now') /\ (n > now' => n > now)
  BY <1>1, <1>2
<1>4. \A c \in Race : c.sched \in Nat
  BY <1>2, RaceFields DEF Time
<1>5. store \in Race /\ Entered(store) \in Race
  BY EnteredIs DEF SInv, WorldFits
<1>6. WorldFits' /\ OneTimer'
  BY <1>1, <1>3 DEF SInv, WorldFits, OneTimer
<1>7. \A t \in Threads : (Armed(t)' <=> Armed(t)) /\ (Firing(t)' <=> Firing(t))
                         /\ (Late(t)' <=> Late(t)) /\ (Carries(t)' <=> Carries(t))
  BY <1>1 DEF Armed, Firing, Late, Carries
<1>8. (Holding' <=> Holding) /\ (Excused' <=> Excused) /\ (Serving' <=> Serving)
  BY <1>1, <1>7 DEF Holding, Excused, Doomed, Serving, Scanning
<1>9. TasksFit'
  <2>1. \A t \in Threads : TaskFits(t)'
    BY <1>1 DEF SInv, TasksFit, TaskFits, Armed
  <2> QED
    BY <1>1, <2>1 DEF SInv, TasksFit
<1>10. CopiesFresh'
  <2> SUFFICES ASSUME NEW t \in Threads
               PROVE  CopyFresh(t)'
    BY DEF CopiesFresh
  <2>1. th[t] \in Task /\ CopyFresh(t)
    BY Now
  <2>2. th[t].pc = "save" => th[t].copy.sched \in Nat
    BY <1>4, <2>1, TaskIs
  <2>3. th[t].pc = "save" /\ th[t].copy.sched <= now => th[t].copy.sched <= now'
    BY <1>3, <2>2
  <2> QED
    BY <1>1, <2>1, <2>3 DEF CopyFresh, Entered
<1>11. WantedFits'
  BY <1>1 DEF SInv, WantedFits
<1>12. TimerOfHolder' /\ TimerOfStore'
  BY <1>1, <1>7, <1>8 DEF SInv, TimerOfHolder, TimerOfStore, Entered
<1>13. FiredTimers'
  <2>1. Entered(store).sched <= now => Entered(store).sched <= now'
    BY <1>3, <1>4, <1>5
  <2> QED
    BY <1>1, <1>7, <1>8, <2>1 DEF SInv, FiredTimers, Entered
<1>14. DeletedTimers'
  BY <1>1, <1>8 DEF SInv, DeletedTimers, Entered
<1>15. FutureTimers'
  <2>1. store.sched > now' => store.sched > now
    BY <1>3, <1>4, <1>5
  <2> QED
    BY <1>1, <1>8, <2>1 DEF SInv, FutureTimers
<1>16. HolderTimers'
  <2> SUFFICES ASSUME ~Excused, "failedSchedule" \notin disturbed, NEW t \in Threads, Armed(t),
                      th[t].how \in {"once", "recurring", "already"}
               PROVE  \/ startTimers # {} \/ \E o \in Threads \ {t} : Armed(o)
                      \/ (\E o \in Threads : th[o].pc = "begin") /\ th[t].copy.sched <= now'
    BY <1>1, <1>7, <1>8 DEF HolderTimers
  <2>1. th[t].copy.sched \in Nat
    BY <1>4, Now, TaskIs DEF Armed
  <2>2. th[t].copy.sched <= now => th[t].copy.sched <= now'
    BY <1>3, <2>1
  <2> QED
    BY <2>2 DEF SInv, HolderTimers
<1>17. RecurrenceTimers'
  BY <1>1, <1>7, <1>8 DEF SInv, RecurrenceTimers
<1>18. Cleared'
  <2>1. Entered(store).sched <= now => Entered(store).sched <= now'
    BY <1>3, <1>4, <1>5
  <2> QED
    BY <1>1, <1>8, <2>1 DEF SInv, Cleared, Entered
<1> QED
  BY <1>6, <1>9, <1>10, <1>11, <1>12, <1>13, <1>14, <1>15, <1>16, <1>17, <1>18 DEF SInv

\* Server Manager is down.
Down == th = [t \in Threads |-> NoTask] /\ startTimers = {} /\ phase = "down" /\ WorldFits /\ WantedFits

LEMMA DownHolds == Down => SInv
<1> SUFFICES ASSUME th = [t \in Threads |-> NoTask], startTimers = {}, phase = "down", WorldFits, WantedFits
             PROVE  SInv
  BY DEF Down
<1>1. NoTask \in Task /\ NoTask.pc = "idle"
  BY DEF Task, NoTask
<1>2. \A t \in Threads : th[t] = NoTask /\ th[t].pc = "idle"
  BY <1>1
<1>3. \A t \in Threads : ~Armed(t) /\ ~Firing(t)
  BY <1>2 DEF Armed, Firing
<1>4. ~Serving /\ ~Holding
  BY <1>3 DEF Serving, Holding
<1>5. TasksFit
  <2>1. \A t \in Threads : TaskFits(t)
    BY <1>1, <1>2, <1>3 DEF TaskFits
  <2> QED
    BY <1>1, <2>1 DEF TasksFit
<1>6. CopiesFresh
  BY <1>2 DEF CopiesFresh, CopyFresh
<1>7. OneTimer
  BY <1>2 DEF OneTimer
<1>8. TimerOfHolder /\ TimerOfStore
  BY DEF TimerOfHolder, TimerOfStore
<1>9. FiredTimers /\ DeletedTimers /\ HolderTimers
  BY <1>2, <1>3 DEF FiredTimers, DeletedTimers, HolderTimers
<1>10. FutureTimers /\ Cleared /\ RecurrenceTimers
  BY <1>4 DEF FutureTimers, Cleared, RecurrenceTimers
<1> QED
  BY <1>5, <1>6, <1>7, <1>8, <1>9, <1>10 DEF SInv

LEMMA ExitStep ==
  ASSUME SInv, Exit
  PROVE  SInv'
<1>1. /\ phase' = "down" /\ startTimers' = {} /\ slot' = 0 /\ th' = [t \in Threads |-> NoTask]
      /\ wanted' = IF "overtaken" \notin disturbed THEN wanted
                   ELSE IF store.deleted THEN "no" ELSE IF store.recur THEN "recurring"
                   ELSE IF store.sched # 0 THEN "once" ELSE "no"
      /\ disturbed' = disturbed \cap {"staleEntry"}
      /\ UNCHANGED <<now, store, made>>
  BY DEF Exit
<1>2. WorldFits'
  <2>1. 0 \in 0 .. MaxTimers
    BY Numbers
  <2> QED
    BY <1>1, <2>1 DEF SInv, WorldFits
<1>3. WantedFits'
  <2>1. CASE "overtaken" \notin disturbed
    BY <1>1, <2>1 DEF SInv, WantedFits
  <2>2. CASE "overtaken" \in disturbed
    BY <1>1, <2>2 DEF WantedFits
  <2> QED
    BY <2>1, <2>2
<1>4. Down'
  BY <1>1, <1>2, <1>3 DEF Down
<1> QED
  BY <1>4, DownHolds, PTL

LEMMA InitHolds ==
  SchedulerInit => SInv
<1> SUFFICES ASSUME SchedulerInit
             PROVE  SInv
  OBVIOUS
<1>1. /\ now = 1 /\ phase = "down" /\ store = Unscheduled /\ startTimers = {} /\ slot = 0 /\ made = 0
      /\ th = [t \in Threads |-> NoTask] /\ wanted = "no" /\ disturbed = {}
  BY DEF SchedulerInit
<1>2. 1 \in 1 .. Until /\ 0 \in 0 .. MaxTimers
  BY Numbers
<1>3. WorldFits
  BY <1>1, <1>2, Unscheduled0 DEF WorldFits
<1>4. WantedFits
  BY <1>1 DEF WantedFits, Unscheduled
<1> QED
  BY <1>1, <1>3, <1>4, DownHolds DEF Down

LEMMA NextHolds ==
  ASSUME SInv, [SchedulerNext]_schedulerVars
  PROVE  SInv'
<1>1. ASSUME NEW h \in Handlers,
             CallSchedule(h) \/ CallRemove(h) \/ CallDelete(h) \/ CallEdit(h) \/ Delete(h)
      PROVE  SInv'
  BY <1>1, CallScheduleStep, CallRemoveStep, CallDeleteStep, CallEditStep, DeleteStep
<1>2. ASSUME NEW t \in Threads, Load(t) \/ Arm(t) \/ ArmFails(t) \/ Disarm(t) \/ Save(t)
      PROVE  SInv'
  BY <1>2, LoadStep, ArmStep, ArmFailsStep, DisarmStep, SaveStep
<1>3. ASSUME NEW cb \in Callbacks, Fire(cb) \/ Begin(cb) \/ StartFails(cb) \/ Started(cb)
      PROVE  SInv'
  BY <1>3, FireStep, BeginStep, StartFailsStep, StartedStep
<1>4. ASSUME Boot \/ Check \/ ScanFuture \/ ScanPast \/ Serve \/ Tick \/ Exit
      PROVE  SInv'
  BY <1>4, BootStep, CheckStep, ScanFutureStep, ScanPastStep, ServeStep, TickStep, ExitStep
<1>5. CASE UNCHANGED schedulerVars
  <2>1. UNCHANGED <<now, phase, store, startTimers, slot, made, th, wanted, disturbed>>
    BY <1>5 DEF schedulerVars
  <2>2. \A t \in Threads : (Armed(t)' <=> Armed(t)) /\ (Firing(t)' <=> Firing(t))
                           /\ (Late(t)' <=> Late(t)) /\ (Carries(t)' <=> Carries(t))
    BY <2>1 DEF Armed, Firing, Late, Carries
  <2>3. (Holding' <=> Holding) /\ (Excused' <=> Excused) /\ (Serving' <=> Serving)
    BY <2>1, <2>2 DEF Holding, Excused, Doomed, Serving, Scanning
  <2>4. WorldFits' /\ OneTimer' /\ WantedFits'
    BY <2>1 DEF SInv, WorldFits, OneTimer, WantedFits
  <2>5. TasksFit' /\ CopiesFresh'
    <3>1. \A t \in Threads : TaskFits(t)'
      BY <2>1 DEF SInv, TasksFit, TaskFits, Armed
    <3>2. \A t \in Threads : CopyFresh(t)'
      BY <2>1 DEF SInv, CopiesFresh, CopyFresh
    <3> QED
      BY <2>1, <3>1, <3>2 DEF SInv, TasksFit, CopiesFresh
  <2>6. TimerOfHolder' /\ TimerOfStore'
    BY <2>1, <2>2, <2>3 DEF SInv, TimerOfHolder, TimerOfStore, Entered
  <2>7. FiredTimers' /\ DeletedTimers'
    BY <2>1, <2>2, <2>3 DEF SInv, FiredTimers, DeletedTimers, Entered
  <2>8. FutureTimers' /\ HolderTimers' /\ RecurrenceTimers'
    BY <2>1, <2>2, <2>3 DEF SInv, FutureTimers, HolderTimers, RecurrenceTimers
  <2>9. Cleared'
    BY <2>1, <2>3 DEF SInv, Cleared, Entered
  <2> QED
    BY <2>4, <2>5, <2>6, <2>7, <2>8, <2>9 DEF SInv
<1> QED
  BY <1>1, <1>2, <1>3, <1>4, <1>5 DEF SchedulerNext

------------------------------------------------------------------------------
(* Theorems.                                                                    *)

\* The inductive invariant of the schedule of a custom race.
THEOREM ScheduleInvariant == SchedulerSpec => []SInv
<1>1. SchedulerInit => SInv
  BY InitHolds
<1>2. SInv /\ [SchedulerNext]_schedulerVars => SInv'
  BY NextHolds
<1> QED
  BY <1>1, <1>2, PTL DEF SchedulerSpec

\* Timers, tasks and the race in the store keep their types.
THEOREM SchedulerTypeCorrect == SchedulerSpec => []TypeOK
<1>1. SInv => TypeOK
  <2> SUFFICES ASSUME SInv
               PROVE  TypeOK
    OBVIOUS
  <2>1. Until \in Nat
    BY Numbers
  <2>2. /\ now \in Time /\ phase \in {"down", "init", "up"} /\ store \in Race
        /\ slot \in 0 .. MaxTimers /\ made \in 0 .. MaxTimers
        /\ wanted \in {"no", "once", "recurring"}
        /\ disturbed \subseteq {"overtaken", "failedSchedule", "failedStart", "staleEntry", "afterDeletion"}
        /\ startTimers \subseteq [no : 1 .. MaxTimers, at : Time]
    BY <2>1 DEF SInv, WorldFits, Time
  <2>3. \A t \in Threads :
          /\ th[t].pc \in {"idle", "load", "arm", "save", "delete", "begin", "run", "scan"}
          /\ th[t].pc \in {"load", "arm"} => th[t].date \in Time
    BY Now, TaskIs
  <2>4. phase = "down" => startTimers = {}
    BY DEF SInv, OneTimer
  <2> QED
    BY <2>2, <2>3, <2>4 DEF TypeOK
<1> QED
  BY <1>1, ScheduleInvariant, PTL

\* ScheduleRace, StartCustomRace, ScheduleNextFromRecurrence, InitScheduledRaces and
\* DeleteCustomRace: whatever requests, timers, scans and restarts follow each other, a race
\* that lies ahead has its timer, no other timer is left behind, and a recurring race
\* recurs, apart from the exceptions of each.
THEOREM ScheduleIsKept == SchedulerSpec => []ScheduleKept
<1>1. SInv => ScheduleKept
  <2> SUFFICES ASSUME SInv
               PROVE  ScheduleKept
    OBVIOUS
  <2>1. Quiet => ~Holding /\ ~Doomed /\ Serving /\ \A t \in Threads : ~Late(t) /\ ~Carries(t)
    BY DEF Quiet, NoTask, Holding, Armed, Doomed, Serving, Late, Carries
  <2>2. /\ store \in Race /\ EntryFits(store) /\ store.sched \in 0 .. Until /\ Until \in Nat /\ now \in 1 .. Until
    BY RaceFields, Numbers DEF SInv, WorldFits
  <2>3. store.sched # 0 => Entered(store).sched = store.sched
    BY <2>2, EnteredIs
  <2>4. \A tm \in startTimers : tm.no = slot /\ tm.at \in 1 .. Until
    BY DEF SInv, OneTimer, WorldFits
  <2>5. Quiet /\ "overtaken" \notin disturbed => ~Excused /\ ~Holding
    BY <2>1 DEF Excused
  <2>6. Quiet /\ disturbed \cap {"overtaken", "staleEntry"} = {}
          => \A tm \in startTimers : store.sched # 0 /\ tm.at = store.sched
    BY <2>3, <2>5 DEF SInv, TimerOfStore
  <2>7. FutureRaceArmed
    <3> SUFFICES ASSUME Quiet, disturbed \cap {"overtaken", "failedSchedule"} = {}, ~store.deleted,
                        store.sched > now
                 PROVE  \E tm \in startTimers : tm.no = slot /\ tm.at = store.sched
      BY DEF FutureRaceArmed
    <3>1. ~Excused /\ ~Holding /\ Serving
      BY <2>1, <2>5
    <3>2. startTimers # {}
      BY <3>1 DEF SInv, FutureTimers
    <3>3. PICK tm \in startTimers : TRUE
      BY <3>2
    <3>4. store.sched # 0
      BY <2>2
    <3>5. tm.at = Entered(store).sched
      BY <3>1 DEF SInv, TimerOfStore
    <3> QED
      BY <2>3, <2>4, <3>4, <3>5
  <2>8. NoOrphanTimers
    <3> SUFFICES ASSUME Quiet, disturbed \cap {"overtaken", "staleEntry", "afterDeletion"} = {},
                        NEW tm \in startTimers
                 PROVE  tm.no = slot /\ tm.at = store.sched /\ ~store.deleted
      BY DEF NoOrphanTimers
    <3>1. tm.no = slot /\ tm.at = store.sched
      BY <2>4, <2>6
    <3>2. ~store.deleted
      BY <2>5 DEF SInv, TimerOfStore
    <3> QED
      BY <3>1, <3>2
  <2>9. RecurrenceContinues
    <3> SUFFICES ASSUME Quiet, disturbed = {}, wanted = "recurring"
                 PROVE  store.recur /\ (store.sched > now \/ \E tm \in startTimers : tm.at <= now)
      BY DEF RecurrenceContinues
    <3>1. store.recur
      BY DEF SInv, WantedFits
    <3>2. startTimers # {}
      BY <2>1 DEF SInv, RecurrenceTimers
    <3>3. PICK tm \in startTimers : TRUE
      BY <3>2
    <3>4. tm.at = store.sched
      BY <2>6
    <3>5. store.sched > now \/ tm.at <= now
      BY <2>2, <3>4
    <3> QED
      BY <3>1, <3>3, <3>5
  <2> QED
    BY <2>7, <2>8, <2>9 DEF ScheduleKept
<1> QED
  BY <1>1, ScheduleInvariant, PTL

\* buildCalendar and CommandSchedule: the calendar and the message on Discord show the date a
\* custom race is going to be started at, and with a rule what comes after it, whatever
\* requests, timers, scans and restarts follow each other, apart from the exceptions.
THEOREM CalendarIsTrue == SchedulerSpec => []CalendarTruthful
<1>1. SInv => CalendarTruthful
  <2> SUFFICES ASSUME SInv, Quiet, disturbed = {}, store.entry.recur = store.recur,
                      \A tm \in startTimers : tm.at > now,
                      NEW ahead, ahead = {t \in BuildCalendar(1, Until) : t > now},
                      NEW armed, armed = {tm.at : tm \in startTimers}
               PROVE  /\ armed \subseteq ahead
                      /\ \A t \in ahead : \E at \in armed : at = t \/ (at < t /\ store.recur)
                      /\ CommandSchedule \cap ((now + 1)..(now + Week)) = ahead \cap (now..(now + Week))
    BY DEF CalendarTruthful
  <2>1. /\ ~Excused /\ ~Holding /\ Serving
        /\ \A t \in Threads : ~Late(t) /\ ~Carries(t)
    BY DEF Quiet, NoTask, Excused, Holding, Armed, Doomed, Serving, Late, Carries
  <2>2. /\ store \in Race /\ EntryFits(store) /\ Until \in Nat /\ now \in 1 .. Until
        /\ Shown \in Race /\ Shown.sched \in 0 .. Until /\ Shown = Entered(store)
    <3>1. store \in Race /\ EntryFits(store) /\ Until \in Nat /\ now \in 1 .. Until
      BY Numbers DEF SInv, WorldFits
    <3>2. Shown = Entered(store)
      BY DEF Shown
    <3>3. Shown \in Race
      BY <3>1, <3>2, EnteredIs
    <3>4. Shown.sched \in 0 .. Until
      BY <3>3, RaceFields, Numbers
    <3> QED
      BY <3>1, <3>2, <3>3, <3>4
  <2>3. Shown.recur = store.recur
    <3>1. CASE store.entry.sched = 0
      BY <2>2, <3>1, EnteredIs
    <3>2. CASE store.entry.sched # 0
      <4>1. Shown.recur = store.entry.recur
        BY <2>2, <3>2, EnteredIs
      <4> QED
        BY <4>1
    <3> QED
      BY <3>1, <3>2
  <2>4. \A tm \in startTimers : tm.at = Shown.sched /\ ~store.deleted
    BY <2>1, <2>2 DEF SInv, TimerOfStore
  <2>5. \A t \in ahead : /\ ~store.deleted /\ Shown.sched # 0 /\ t \in 1 .. Until /\ t > now
                         /\ t = Shown.sched \/ (t > Shown.sched /\ Shown.recur)
    <3> SUFFICES ASSUME NEW t \in ahead
                 PROVE  /\ ~store.deleted /\ Shown.sched # 0 /\ t \in 1 .. Until /\ t > now
                        /\ t = Shown.sched \/ (t > Shown.sched /\ Shown.recur)
      OBVIOUS
    <3>1. t \in BuildCalendar(1, Until) /\ t > now
      OBVIOUS
    <3>2. ~store.deleted /\ Shown.sched # 0 /\ (t = Shown.sched \/ t \in RuleBetween(1, Until))
      BY <3>1 DEF BuildCalendar
    <3>3. t \in RuleBetween(1, Until) => t \in 1 .. Until /\ Shown.recur /\ t >= Shown.sched
      BY DEF RuleBetween
    <3>4. t \in 1 .. Until
      BY <2>2, <3>2, <3>3
    <3>5. t = Shown.sched \/ (t > Shown.sched /\ Shown.recur)
      BY <2>2, <3>2, <3>3, <3>4
    <3> QED
      BY <3>1, <3>2, <3>4, <3>5
  <2>6. armed \subseteq ahead
    <3> SUFFICES ASSUME NEW tm \in startTimers
                 PROVE  tm.at \in ahead
      OBVIOUS
    <3>1. tm.at > now /\ tm.at = Shown.sched /\ ~store.deleted
      BY <2>4
    <3>2. Shown.sched # 0
      BY <2>2, <3>1
    <3>3. tm.at \in BuildCalendar(1, Until)
      BY <3>1, <3>2 DEF BuildCalendar
    <3> QED
      BY <3>1, <3>3
  <2>7. ASSUME NEW t \in ahead
        PROVE  \E at \in armed : at = t \/ (at < t /\ store.recur)
    <3>1. /\ ~store.deleted /\ Shown.sched # 0 /\ t \in 1 .. Until /\ t > now
          /\ t = Shown.sched \/ (t > Shown.sched /\ Shown.recur)
      BY <2>5
    <3>2. startTimers # {}
      <4>1. CASE t = Shown.sched
        <5>1. store.sched # 0
          <6>1. store.sched = 0 => Entered(store).sched <= now
            BY <2>1, <3>1 DEF SInv, Cleared
          <6> QED
            BY <2>2, <3>1, <4>1, <6>1
        <5>2. store.sched > now
          BY <2>2, <3>1, <4>1, <5>1, EnteredIs
        <5> QED
          BY <2>1, <3>1, <5>2 DEF SInv, FutureTimers
      <4>2. CASE t > Shown.sched /\ Shown.recur
        <5>1. store.recur
          BY <2>3, <4>2
        <5>2. wanted = "recurring"
          BY <3>1, <5>1 DEF SInv, WantedFits
        <5> QED
          BY <2>1, <5>2 DEF SInv, RecurrenceTimers
      <4> QED
        BY <3>1, <4>1, <4>2
    <3>3. PICK tm \in startTimers : TRUE
      BY <3>2
    <3>4. tm.at = Shown.sched /\ tm.at \in armed
      BY <2>4, <3>3
    <3>5. CASE t = Shown.sched
      BY <3>4, <3>5
    <3>6. CASE t > Shown.sched /\ Shown.recur
      <4>1. store.recur
        BY <2>3, <3>6
      <4>2. tm.at < t
        BY <2>2, <3>1, <3>4, <3>6
      <4> QED
        BY <3>4, <4>1, <4>2
    <3> QED
      BY <3>1, <3>5, <3>6
  <2>8. CommandSchedule \cap ((now + 1)..(now + Week)) = ahead \cap (now..(now + Week))
    <3>1. Week \in Nat
      BY SchedulerAssumption
    <3>2. CASE store.deleted \/ Shown.sched = 0
      <4>1. CommandSchedule = {}
        BY <3>2 DEF CommandSchedule
      <4>2. ahead = {}
        BY <2>5, <3>2
      <4> QED
        BY <4>1, <4>2
    <3>3. CASE ~store.deleted /\ Shown.sched # 0
      <4>1. \A n : n \in CommandSchedule <=> n = Shown.sched \/ n \in RuleBetween(now, now + Week)
        BY <3>3 DEF CommandSchedule
      <4>2. \A n : n \in ahead <=> (n = Shown.sched \/ n \in RuleBetween(1, Until)) /\ n > now
        BY <3>3 DEF BuildCalendar
      <4>3. \A n \in (now + 1) .. (now + Week) :
              n \in RuleBetween(now, now + Week) <=> n \in RuleBetween(1, Until)
        <5> SUFFICES ASSUME NEW n \in (now + 1) .. (now + Week)
                     PROVE  n \in RuleBetween(now, now + Week) <=> n \in RuleBetween(1, Until)
          OBVIOUS
        <5>1. n \in now .. (now + Week)
          BY <2>2, <3>1
        <5>2. n \in Time <=> n \in 1 .. Until
          BY <2>2, <3>1 DEF Time
        <5>3. n \in Time /\ n \in 1 .. Until <=> n \in Time /\ n \in now .. (now + Week)
          BY <5>1, <5>2
        <5> QED
          BY <5>3 DEF RuleBetween
      <4>4. \A n : n \in ahead /\ n \in now .. (now + Week) <=> n \in ahead /\ n \in (now + 1) .. (now + Week)
        <5> SUFFICES ASSUME NEW n \in ahead
                     PROVE  n \in now .. (now + Week) <=> n \in (now + 1) .. (now + Week)
          OBVIOUS
        <5>1. n \in 1 .. Until /\ n > now
          BY <2>5
        <5> QED
          BY <2>2, <3>1, <5>1
      <4>5. \A n \in (now + 1) .. (now + Week) : n > now
        BY <2>2, <3>1
      <4>6. \A n \in (now + 1) .. (now + Week) : n \in CommandSchedule <=> n \in ahead
        BY <4>1, <4>2, <4>3, <4>5
      <4> QED
        BY <4>4, <4>6
    <3> QED
      BY <3>2, <3>3
  <2> QED
    BY <2>6, <2>7, <2>8
<1> QED
  BY <1>1, ScheduleInvariant, PTL

------------------------------------------------------------------------------
(* The plugins of acServer.                                                     *)

Names == {"stracker", "realpenalty", "kissmyrank"}
Things == Names \cup {"extra"}
Rank(p) == IF p = "stracker" THEN 1 ELSE IF p = "realpenalty" THEN 2 ELSE IF p = "kissmyrank" THEN 3 ELSE 4

\* What is still to be started comes in order, and after what has its ports.
Left(list, done) ==
    /\ list \in Seq(Things)
    /\ \A i, j \in 1 .. Len(list) : i < j => Rank(list[i]) < Rank(list[j]) \/ (list[i] = "extra" /\ list[j] = "extra")
    /\ \A i \in 1 .. Len(list) :
          /\ list[i] \in Names => list[i] \in given.plugins
          /\ \A p \in done : Rank(p) < Rank(list[i])
    /\ list # <<>> => \A p \in given.plugins : p \in DOMAIN conf \/ \E i \in 1 .. Len(list) : list[i] = p

TodoFits ==
    \/ todo = <<"stop">> /\ ~started
    \/ Left(todo, DOMAIN conf \cup DOMAIN relay) /\ (todo # <<>> => started)

IsFun(f) == f = [q \in DOMAIN f |-> f[q]]
Back(link) == [at |-> link.to, to |-> link.at]
AboveRealPenalty == IF "stracker" \in given.plugins THEN relay["stracker"] ELSE Forward

\* Who was told his ports has those of the one before him, who was told his.
ConfFits ==
    /\ DOMAIN conf \subseteq given.plugins /\ DOMAIN relay \subseteq given.plugins /\ given.plugins \subseteq Names
    /\ IsFun(conf) /\ IsFun(relay)
    /\ "stracker" \in DOMAIN conf => conf["stracker"] = Back(Forward) /\ "stracker" \in DOMAIN relay
    /\ "realpenalty" \in DOMAIN conf =>
          /\ conf["realpenalty"] = Back(AboveRealPenalty)
          /\ "stracker" \in given.plugins => "stracker" \in DOMAIN conf
          /\ "kissmyrank" \in given.plugins => "realpenalty" \in DOMAIN relay
    /\ "kissmyrank" \in DOMAIN conf =>
          /\ conf["kissmyrank"] = Back(AboveKissMyRank)
          /\ given.plugins \subseteq DOMAIN conf

\* The links that were made are apart from each other and from where Server Manager forwards to,
\* unless a port was promised twice.
RelayFits ==
    /\ ForwardPort \notin {given.proxy.at, given.proxy.to}
    /\ "stracker" \in DOMAIN relay =>
          /\ given.plugins # {"stracker"} => relay["stracker"].at # relay["stracker"].to
          /\ twice \/ ForwardPort \notin {relay["stracker"].at, relay["stracker"].to}
    /\ "realpenalty" \in DOMAIN relay =>
          /\ "stracker" \in given.plugins => "stracker" \in DOMAIN relay
          /\ \/ twice
             \/ /\ relay["realpenalty"].at # relay["realpenalty"].to
                /\ ForwardPort \notin {relay["realpenalty"].at, relay["realpenalty"].to}
                /\ "stracker" \in given.plugins =>
                      {relay["realpenalty"].at, relay["realpenalty"].to}
                         \cap {relay["stracker"].at, relay["stracker"].to} = {}

\* Who lives is known; where no server is, nobody has ports.
ProcessesFit ==
    /\ \E S : extra \in Seq(S)
    /\ NoneForgotten
    /\ NoServer /\ ~started => conf = <<>> /\ relay = <<>> /\ ~twice

LogsFit == logs \in Nat /\ limit \in Nat /\ LogsLimited

PluginsInv == TodoFits /\ ConfFits /\ RelayFits /\ ProcessesFit /\ LogsFit

LEMMA Order ==
    \A p, q : Before(q, p) <=> <<q, p>> \in {<<"stracker", "realpenalty">>, <<"stracker", "kissmyrank">>, <<"realpenalty", "kissmyrank">>}
<1>1. DOMAIN Chain = 1 .. 3 /\ Chain[1] = "stracker" /\ Chain[2] = "realpenalty" /\ Chain[3] = "kissmyrank"
  BY DEF Chain
<1> QED BY <1>1 DEF Before


LEMMA InvDom == ASSUME TodoFits PROVE todo \in Seq(Things) \/ todo = <<"stop">>
BY DEF TodoFits, Left

\* A plugin whose turn it is has no ports yet; those before it have theirs.
LEMMA TurnOf ==
    ASSUME TodoFits, todo # <<>>, Head(todo) # "stop"
    PROVE  /\ started /\ todo \in Seq(Things) /\ Left(todo, DOMAIN conf \cup DOMAIN relay)
           /\ Tail(todo) \in Seq(Things) /\ Len(Tail(todo)) = Len(todo) - 1
           /\ \A i \in 1 .. Len(Tail(todo)) : Tail(todo)[i] = todo[i + 1]
           /\ 1 \in 1 .. Len(todo) /\ Head(todo) = todo[1]
BY DEF TodoFits, Left

LEMMA NextTurn ==
    ASSUME TodoFits, ConfFits, todo # <<>>, NEW p \in Names, Head(todo) = p
    PROVE  /\ p \in given.plugins
           /\ \A q \in DOMAIN conf \cup DOMAIN relay : Rank(q) < Rank(p)
           /\ \A q \in given.plugins : Rank(q) < Rank(p) => q \in DOMAIN conf
<1>1. Head(todo) # "stop" BY DEF Names
<1>2. /\ todo \in Seq(Things) /\ Left(todo, DOMAIN conf \cup DOMAIN relay)
      /\ 1 \in 1 .. Len(todo) /\ todo[1] = p
  BY <1>1, TurnOf
<1>3. p \in given.plugins /\ \A q \in DOMAIN conf \cup DOMAIN relay : Rank(q) < Rank(p)
  BY <1>2 DEF Left
<1>4. ASSUME NEW q \in given.plugins, Rank(q) < Rank(p) PROVE q \in DOMAIN conf
  <2>1. q \in DOMAIN conf \/ \E i \in 1 .. Len(todo) : todo[i] = q BY <1>2 DEF Left
  <2>2. ASSUME NEW i \in 1 .. Len(todo), todo[i] = q PROVE FALSE
    <3>1. Rank(p) \in Nat /\ Rank(q) \in Nat BY DEF Rank
    <3>2. i # 1 BY <1>2, <1>4, <2>2, <3>1
    <3>3. Rank(todo[1]) < Rank(todo[i]) \/ todo[1] = "extra" BY <1>2, <3>2 DEF Left
    <3> QED BY <1>2, <1>4, <2>2, <3>1, <3>3 DEF Names
  <2> QED BY <2>1, <2>2
<1> QED BY <1>3, <1>4

\* What is left when the first has had its turn.
LEMMA LeftOver ==
    ASSUME TodoFits, ConfFits, todo # <<>>, Head(todo) # "stop",
           given' = given, started' = started, todo' = Tail(todo),
           DOMAIN relay' \subseteq DOMAIN relay \cup ({Head(todo)} \cap Names),
           DOMAIN conf' = DOMAIN conf \cup ({Head(todo)} \cap Names)
    PROVE  TodoFits'
<1> DEFINE n == Len(todo)
           list == Tail(todo)
<1>1. /\ started /\ todo \in Seq(Things) /\ Left(todo, DOMAIN conf \cup DOMAIN relay)
      /\ list \in Seq(Things) /\ Len(list) = n - 1
      /\ \A i \in 1 .. Len(list) : list[i] = todo[i + 1]
      /\ 1 \in 1 .. n /\ Head(todo) = todo[1] /\ n \in Nat
  BY TurnOf
<1>a. \A i \in 1 .. Len(list) : i + 1 \in 1 .. n BY <1>1
<1>2. \A i, j \in 1 .. Len(list) : i < j => Rank(list[i]) < Rank(list[j]) \/ (list[i] = "extra" /\ list[j] = "extra")
  BY <1>1, <1>a DEF Left
<1>3. ASSUME NEW i \in 1 .. Len(list) PROVE list[i] \in Names => list[i] \in given.plugins
  BY <1>1, <1>a DEF Left
<1>4. ASSUME NEW i \in 1 .. Len(list), NEW p \in (DOMAIN conf \cup DOMAIN relay)' PROVE Rank(p) < Rank(list[i])
  <2>1. list[i] = todo[i + 1] /\ i + 1 \in 1 .. n /\ 1 < i + 1 BY <1>1, <1>a
  <2>2. p \in DOMAIN conf \cup DOMAIN relay \/ (p = todo[1] /\ p \in Names) BY <1>1
  <2>3. CASE p \in DOMAIN conf \cup DOMAIN relay BY <2>1, <2>3, <1>1 DEF Left
  <2>4. CASE p = todo[1] /\ p \in Names
    <3>1. Rank(todo[1]) < Rank(todo[i + 1]) \/ todo[1] = "extra" BY <1>1, <2>1 DEF Left
    <3> QED BY <2>1, <2>4, <3>1 DEF Names
  <2> QED BY <2>2, <2>3, <2>4
<1>5. ASSUME list # <<>>, NEW p \in given.plugins
      PROVE  p \in DOMAIN conf' \/ \E i \in 1 .. Len(list) : list[i] = p
  <2>1. p \in DOMAIN conf \/ \E i \in 1 .. n : todo[i] = p BY <1>1, <1>5 DEF Left
  <2>2. p \in Names BY DEF ConfFits
  <2>3. ASSUME NEW i \in 1 .. n, todo[i] = p, i # 1 PROVE \E j \in 1 .. Len(list) : list[j] = p
    <3>1. i - 1 \in 1 .. Len(list) /\ list[i - 1] = todo[(i - 1) + 1] /\ (i - 1) + 1 = i BY <1>1, <2>3
    <3> QED BY <3>1, <2>3
  <2> QED BY <2>1, <2>2, <2>3, <1>1
<1>6. Left(todo, DOMAIN conf \cup DOMAIN relay)'
  <2> HIDE DEF n, list
  <2> QED BY <1>1, <1>2, <1>3, <1>4, <1>5 DEF Left, list
<1> QED BY <1>1, <1>6 DEF TodoFits

LEMMA PluginsStart == PluginsInit => PluginsInv
<1> SUFFICES ASSUME PluginsInit PROVE PluginsInv OBVIOUS
<1> USE DEF PluginsInit
<1>1. TodoFits BY DEF TodoFits, Left, NoServer
<1>2. ConfFits
  <2>1. IsFun(conf) /\ IsFun(relay) BY DEF IsFun, Nothing
  <2>2. DOMAIN conf = {} /\ DOMAIN relay = {} /\ given.plugins = {} BY DEF Nothing
  <2> QED BY <2>1, <2>2 DEF ConfFits
<1>3. RelayFits BY PluginsAssumption DEF RelayFits, Nothing, NoLink
<1>4. ProcessesFit BY DEF ProcessesFit, NoneForgotten, NoServer
<1>5. LogsFit BY DEF LogsFit, LogsLimited
<1> QED BY <1>1, <1>2, <1>3, <1>4, <1>5 DEF PluginsInv

LEMMA IdleIsClear ==
    ASSUME PluginsInv, NoServer, ~started
    PROVE  conf = <<>> /\ relay = <<>> /\ ~twice
BY DEF PluginsInv, ProcessesFit

\* What Prepare lists: the plugins that are on, in order, up to a rank.
InOrder(list, on, top) ==
    /\ list \in Seq(Things)
    /\ \A i, j \in 1 .. Len(list) : i < j => Rank(list[i]) < Rank(list[j]) \/ (list[i] = "extra" /\ list[j] = "extra")
    /\ \A i \in 1 .. Len(list) : Rank(list[i]) <= top /\ (list[i] \in Names => list[i] \in on)
    /\ \A p \in on : Rank(p) <= top => \E i \in 1 .. Len(list) : list[i] = p

LEMMA Ranks ==
    /\ \A p : Rank(p) \in 1 .. 4
    /\ \A p \in Names : Rank(p) < 4 /\ \A q \in Names : Rank(p) = Rank(q) => p = q
    /\ Rank("stracker") = 1 /\ Rank("realpenalty") = 2 /\ Rank("kissmyrank") = 3 /\ Rank("extra") = 4
BY DEF Rank, Names

LEMMA NextInOrder ==
    ASSUME NEW on \in SUBSET Names, NEW list, NEW top \in 0 .. 2, InOrder(list, on, top),
           NEW p \in Names, Rank(p) = top + 1
    PROVE  InOrder(list \o IfOn(p, on), on, top + 1)
<1>1. list \in Seq(Things) /\ Len(list) \in Nat BY DEF InOrder
<1>2. CASE p \notin on
  <2>1. list \o IfOn(p, on) = list BY <1>1, <1>2 DEF IfOn
  <2>2. \A q \in on : Rank(q) <= top + 1 => Rank(q) <= top BY <1>2, Ranks
  <2>3. \A i \in 1 .. Len(list) : Rank(list[i]) <= top => Rank(list[i]) <= top + 1 BY Ranks
  <2> QED BY <2>1, <2>2, <2>3 DEF InOrder
<1>3. CASE p \in on
  <2> DEFINE new == list \o IfOn(p, on)
             n == Len(list)
  <2>1. <<p>> \in Seq(Things) /\ Len(<<p>>) = 1 /\ <<p>>[1] = p BY DEF Things
  <2>2. IfOn(p, on) = <<p>> BY <1>3 DEF IfOn
  <2>3. /\ new \in Seq(Things) /\ Len(new) = n + 1 /\ new[n + 1] = p
        /\ \A i \in 1 .. n : new[i] = list[i]
    BY <1>1, <2>1, <2>2
  <2> HIDE DEF new
  <2>4. ASSUME NEW i \in 1 .. Len(new), NEW j \in 1 .. Len(new), i < j
        PROVE  Rank(new[i]) < Rank(new[j]) \/ (new[i] = "extra" /\ new[j] = "extra")
    <3>1. i \in 1 .. n BY <1>1, <2>3, <2>4
    <3>2. CASE j \in 1 .. n BY <3>1, <3>2, <2>3, <2>4 DEF InOrder
    <3>3. CASE j = n + 1
      <4>1. Rank(list[i]) <= top /\ Rank(list[i]) \in Nat BY <3>1, Ranks DEF InOrder
      <4> QED BY <3>1, <3>3, <4>1, <2>3
    <3> QED BY <3>2, <3>3, <1>1, <2>3, <2>4
  <2>5. ASSUME NEW i \in 1 .. Len(new)
        PROVE  Rank(new[i]) <= top + 1 /\ (new[i] \in Names => new[i] \in on)
    <3>1. CASE i \in 1 .. n
      <4>1. Rank(list[i]) <= top /\ Rank(list[i]) \in Nat BY <3>1, Ranks DEF InOrder
      <4> QED BY <3>1, <4>1, <2>3 DEF InOrder
    <3>2. CASE i = n + 1 BY <3>2, <2>3, <1>3
    <3> QED BY <3>1, <3>2, <1>1, <2>3
  <2>6. ASSUME NEW q \in on, Rank(q) <= top + 1 PROVE \E i \in 1 .. Len(new) : new[i] = q
    <3>1. CASE Rank(q) <= top
      <4>1. PICK i \in 1 .. n : list[i] = q BY <3>1 DEF InOrder
      <4> QED BY <4>1, <2>3, <1>1
    <3>2. CASE q = p BY <3>2, <2>3, <1>1
    <3> QED BY <3>1, <3>2, <2>6, Ranks
  <2>7. InOrder(new, on, top + 1) BY <2>3, <2>4, <2>5, <2>6 DEF InOrder
  <2> QED BY <2>7 DEF new
<1> QED BY <1>2, <1>3

LEMMA ExtrasLast ==
    ASSUME NEW on \in SUBSET Names, NEW list, InOrder(list, on, 3), NEW more \in Nat
    PROVE  InOrder(list \o [k \in 1 .. more |-> "extra"], on, 4)
<1> DEFINE rest == [k \in 1 .. more |-> "extra"]
           new == list \o rest
           n == Len(list)
<1>1. list \in Seq(Things) /\ n \in Nat BY DEF InOrder
<1>2. rest \in Seq(Things) /\ Len(rest) = more /\ \A i \in 1 .. more : rest[i] = "extra"
  BY DEF Things
<1> HIDE DEF rest
<1>3. /\ new \in Seq(Things) /\ Len(new) = n + more
      /\ \A i \in 1 .. n : new[i] = list[i]
      /\ \A i \in n + 1 .. Len(new) : new[i] = "extra"
  BY <1>1, <1>2
<1> HIDE DEF new
<1>4. \A i \in 1 .. Len(new) : i \in 1 .. n \/ i \in n + 1 .. Len(new) BY <1>1, <1>3
<1>5. \A i \in 1 .. n : Rank(list[i]) < 4 /\ (list[i] \in Names => list[i] \in on)
  BY Ranks DEF InOrder
<1>6. ASSUME NEW i \in 1 .. Len(new), NEW j \in 1 .. Len(new), i < j
      PROVE  Rank(new[i]) < Rank(new[j]) \/ (new[i] = "extra" /\ new[j] = "extra")
  <2>1. CASE j \in 1 .. n
    <3>1. i \in 1 .. n BY <1>1, <1>6, <2>1
    <3> QED BY <2>1, <3>1, <1>3, <1>6 DEF InOrder
  <2>2. CASE j \in n + 1 .. Len(new) BY <2>2, <1>3, <1>4, <1>5, Ranks
  <2> QED BY <2>1, <2>2, <1>4
<1>7. \A i \in 1 .. Len(new) : Rank(new[i]) <= 4 /\ (new[i] \in Names => new[i] \in on)
  BY <1>3, <1>4, <1>5, Ranks DEF Names
<1>8. ASSUME NEW q \in on PROVE \E i \in 1 .. Len(new) : new[i] = q
  <2>1. Rank(q) <= 3 BY Ranks
  <2>2. PICK i \in 1 .. n : list[i] = q BY <2>1 DEF InOrder
  <2> QED BY <2>2, <1>1, <1>2, <1>3
<1>9. InOrder(new, on, 4) BY <1>3, <1>6, <1>7, <1>8 DEF InOrder
<1> QED BY <1>9 DEF new, rest

LEMMA ListedInOrder ==
    ASSUME NEW on \in SUBSET Names, NEW more \in Nat
    PROVE  InOrder(IfOn("stracker", on) \o IfOn("realpenalty", on) \o IfOn("kissmyrank", on)
                      \o [k \in 1 .. more |-> "extra"], on, 4)
<1>1. InOrder(<<>>, on, 0) BY Ranks DEF InOrder
<1>a. "stracker" \in Names /\ 0 \in 0 .. 2 /\ Rank("stracker") = 0 + 1 BY Ranks DEF Names
<1>2. InOrder(<<>> \o IfOn("stracker", on), on, 0 + 1)
  <2> DEFINE none == <<>>
  <2>1. InOrder(none, on, 0) BY <1>1
  <2> HIDE DEF none
  <2>2. InOrder(none \o IfOn("stracker", on), on, 0 + 1) BY <2>1, <1>a, NextInOrder
  <2> QED BY <2>2 DEF none
<1>3. <<>> \o IfOn("stracker", on) = IfOn("stracker", on)
  <2>1. CASE "stracker" \in on BY <2>1 DEF IfOn
  <2>2. CASE "stracker" \notin on BY <2>2 DEF IfOn
  <2> QED BY <2>1, <2>2
<1>4. InOrder(IfOn("stracker", on), on, 1) BY <1>2, <1>3
<1>5. InOrder(IfOn("stracker", on) \o IfOn("realpenalty", on), on, 1 + 1) BY <1>4, NextInOrder, Ranks DEF Names
<1>6. InOrder(IfOn("stracker", on) \o IfOn("realpenalty", on) \o IfOn("kissmyrank", on), on, 2 + 1)
  BY <1>5, NextInOrder, Ranks DEF Names
<1> QED BY <1>6, ExtrasLast

LEMMA LogsBounded ==
    ASSUME LogsFit, NEW o, NEW n, NEW more, NEW ok, Prepare(o, n, more, ok)
    PROVE  LogsFit'
<1>1. CASE n \in Limits /\ logs' = deleteOldLogFiles(n) + 1 /\ limit' = n
  <2>1. n \in Nat BY <1>1, PluginsAssumption
  <2> QED BY <1>1, <2>1 DEF LogsFit, LogsLimited, deleteOldLogFiles
<1>2. CASE UNCHANGED <<logs, limit>> BY <1>2 DEF LogsFit, LogsLimited
<1> QED BY <1>1, <1>2 DEF Prepare

LEMMA PrepareKeeps ==
    ASSUME PluginsInv, NEW o \in Options, NEW n \in Limits, NEW more \in 0 .. MaxExtra,
           NEW ok \in BOOLEAN, Prepare(o, n, more, ok)
    PROVE  PluginsInv'
<1>1. /\ NoServer /\ ~started /\ started' = ok
      /\ conf' = conf /\ relay' = relay /\ twice' = twice /\ extra' = extra /\ alive' = alive /\ left' = left
  BY DEF Prepare
<1>2. conf = <<>> /\ relay = <<>> /\ ~twice BY <1>1, IdleIsClear
<1>3. /\ ok => given' = o
      /\ ok => todo' = IfOn("stracker", o.plugins) \o IfOn("realpenalty", o.plugins)
                            \o IfOn("kissmyrank", o.plugins) \o [k \in 1 .. more |-> "extra"]
      /\ ~ok => given' = given /\ todo' = todo
  BY DEF Prepare
<1>4. o.plugins \subseteq Names /\ ForwardPort \notin {o.proxy.at, o.proxy.to} /\ more \in Nat
  <2>1. Range(Chain) \subseteq Names BY DEF Range, Chain, Names
  <2> QED BY <2>1, PluginsAssumption DEF Options
<1>5. TodoFits'
  <2>1. CASE ok
    <3>1. InOrder(todo', o.plugins, 4) BY <1>3, <1>4, <2>1, ListedInOrder
    <3>2. DOMAIN conf' = {} /\ DOMAIN relay' = {} /\ given'.plugins = o.plugins BY <1>1, <1>2, <1>3, <2>1
    <3>3. \A p \in o.plugins : Rank(p) <= 4 BY Ranks
    <3>4. Left(todo, DOMAIN conf \cup DOMAIN relay)' BY <3>1, <3>2, <3>3 DEF Left, InOrder
    <3> QED BY <1>1, <2>1, <3>4 DEF TodoFits
  <2>2. CASE ~ok BY <1>1, <1>3, <2>2 DEF TodoFits, Left, NoServer
  <2> QED BY <2>1, <2>2
<1>6. ConfFits'
  BY <1>1, <1>2, <1>3, <1>4 DEF ConfFits, PluginsInv
<1>7. RelayFits'
  BY <1>1, <1>2, <1>3, <1>4 DEF RelayFits, PluginsInv
<1>8. ProcessesFit'
  BY <1>1, <1>2 DEF ProcessesFit, PluginsInv, NoneForgotten, NoServer
<1>9. LogsFit' BY LogsBounded DEF PluginsInv
<1> QED BY <1>5, <1>6, <1>7, <1>8, <1>9 DEF PluginsInv

------------------------------------------------------------------------------
(* Starting a plugin.                                                           *)

LEMMA ProcessAdded ==
    ASSUME ProcessesFit, started, NEW x, started' = started, left' = left,
           conf' = conf => todo' # <<>> \/ started,
           extra' = Append(extra, x), alive' = alive \cup {x}
    PROVE  ProcessesFit'
<1>1. PICK S : extra \in Seq(S) BY DEF ProcessesFit
<1>2. extra \in Seq(S \cup {x}) BY <1>1
<1>3. extra' \in Seq(S \cup {x}) /\ Range(extra') = Range(extra) \cup {x}
  <2>1. /\ extra' \in Seq(S \cup {x}) /\ Len(extra') = Len(extra) + 1 /\ Len(extra) \in Nat
        /\ \A i \in 1 .. Len(extra) : extra'[i] = extra[i]
        /\ extra'[Len(extra) + 1] = x
    BY <1>2
  <2>2. DOMAIN extra = 1 .. Len(extra) /\ DOMAIN extra' = 1 .. Len(extra') BY <1>2, <2>1
  <2> QED BY <2>1, <2>2 DEF Range
<1>4. extra' # <<>> BY <1>1
<1> QED BY <1>3, <1>4 DEF ProcessesFit, NoneForgotten, NoServer

LEMMA LinksAreFunctions ==
    ASSUME ConfFits
    PROVE  /\ IsFun(conf) /\ IsFun(relay)
           /\ DOMAIN conf \subseteq given.plugins /\ DOMAIN relay \subseteq given.plugins
           /\ given.plugins \subseteq Names
BY DEF ConfFits

ToldOnly(f, g, p, l) ==
    /\ DOMAIN g = DOMAIN f \cup {p} /\ g[p] = l /\ IsFun(g)
    /\ \A q \in DOMAIN f : q # p => g[q] = f[q]

LEMMA ToldFacts ==
    ASSUME NEW f, IsFun(f)
    PROVE  \A p, l : ToldOnly(f, Told(f, p, l), p, l)
BY DEF Told, IsFun, ToldOnly

LEMMA LinksTold ==
    ASSUME ConfFits
    PROVE  /\ \A p, l : conf' = Told(conf, p, l) => ToldOnly(conf, conf', p, l)
           /\ \A p, l : relay' = Told(relay, p, l) => ToldOnly(relay, relay', p, l)
<1>1. IsFun(conf) /\ IsFun(relay) BY DEF ConfFits
<1>2. \A p, l : ToldOnly(conf, Told(conf, p, l), p, l) BY <1>1, ToldFacts
<1>3. \A p, l : ToldOnly(relay, Told(relay, p, l), p, l) BY <1>1, ToldFacts
<1> QED BY <1>2, <1>3

\* What does not depend on which plugin it is.
LEMMA StartKeeps ==
    ASSUME PluginsInv, NEW p \in Names, todo # <<>>, Head(todo) = p, NEW up, StartPlugin(p, up),
           given' = given, started' = started, left' = left, logs' = logs, limit' = limit,
           DOMAIN relay' \subseteq DOMAIN relay \cup {p}
    PROVE  /\ TodoFits' /\ ProcessesFit' /\ LogsFit' /\ started
           /\ conf' = conf \/ conf' = Told(conf, p, Back(up))
<1>1. started /\ Head(todo) # "stop" /\ {Head(todo)} \cap Names = {p}
  <2>1. Head(todo) # "stop" BY DEF Names
  <2> QED BY <2>1, TurnOf DEF PluginsInv
<1>2. LogsFit' BY DEF PluginsInv, LogsFit, LogsLimited
<1>3. CASE /\ conf' = Told(conf, p, [at |-> up.to, to |-> up.at])
           /\ extra' = Append(extra, <<p, races>>) /\ alive' = alive \cup {<<p, races>>}
           /\ todo' = Tail(todo)
  <2>1. DOMAIN conf' = DOMAIN conf \cup {p} BY <1>3, LinksTold DEF PluginsInv, ToldOnly
  <2>2. TodoFits' BY <1>1, <1>3, <2>1, LeftOver DEF PluginsInv
  <2>3. ProcessesFit' BY <1>1, <1>3, ProcessAdded DEF PluginsInv
  <2> QED BY <1>1, <1>2, <1>3, <2>2, <2>3 DEF Back
<1>4. CASE todo' = <<>> /\ conf' = conf /\ extra' = extra /\ alive' = alive
  <2>1. TodoFits' BY <1>1, <1>4 DEF TodoFits, Left
  <2>2. ProcessesFit' BY <1>1, <1>4 DEF PluginsInv, ProcessesFit, NoneForgotten, NoServer
  <2> QED BY <1>1, <1>2, <1>4, <2>1, <2>2
<1> QED BY <1>3, <1>4 DEF StartPlugin

LEMMA StrackerKeeps == ASSUME PluginsInv, StartStracker PROVE PluginsInv'
<1> DEFINE p == "stracker"
<1>1. PICK l \in StrackerRelay(given.plugins # {"stracker"}) :
        relay' = Told(relay, p, l) /\ twice' = ({l.at, l.to} \cap Promised # {})
  BY DEF StartStracker
<1>2. /\ todo # <<>> /\ Head(todo) = p /\ StartPlugin(p, Forward) /\ p \in Names
      /\ given' = given /\ started' = started /\ left' = left /\ logs' = logs /\ limit' = limit
  BY DEF StartStracker, Names
<1>3. TodoFits /\ ConfFits /\ RelayFits BY DEF PluginsInv
<1>a. /\ IsFun(conf) /\ IsFun(relay)
      /\ DOMAIN conf \subseteq given.plugins /\ DOMAIN relay \subseteq given.plugins
      /\ given.plugins \subseteq Names
  BY <1>3, LinksAreFunctions
<1>b. p \in given.plugins /\ \A q \in DOMAIN conf \cup DOMAIN relay : Rank(q) < Rank(p)
  BY <1>2, <1>3, NextTurn
<1>4. p \in given.plugins /\ DOMAIN conf = {} /\ DOMAIN relay = {}
  <2>1. \A q : ~(Rank(q) < Rank(p)) BY Ranks
  <2> QED BY <1>b, <2>1
<1>5. DOMAIN relay' = {p} /\ relay'[p] = l /\ IsFun(relay')
  <2>1. ToldOnly(relay, relay', p, l) BY <1>1, <1>3, LinksTold
  <2> QED BY <2>1, <1>4 DEF ToldOnly
<1>6. /\ TodoFits' /\ ProcessesFit' /\ LogsFit'
      /\ conf' = conf \/ conf' = Told(conf, p, Back(Forward))
  BY <1>2, <1>4, <1>5, StartKeeps
<1>7. /\ DOMAIN conf' \subseteq {p} /\ (p \in DOMAIN conf' => conf'[p] = Back(Forward))
      /\ IsFun(conf')
  <2>1. CASE conf' = conf BY <2>1, <1>a, <1>4
  <2>2. CASE conf' = Told(conf, p, Back(Forward))
    <3>1. ToldOnly(conf, conf', p, Back(Forward)) BY <2>2, <1>3, LinksTold
    <3> QED BY <3>1, <1>4 DEF ToldOnly
  <2> QED BY <1>6, <2>1, <2>2
<1>8. ConfFits' BY <1>2, <1>3, <1>4, <1>5, <1>7 DEF ConfFits
<1>9. /\ given.plugins # {p} => l.at # l.to
      /\ twice' \/ ForwardPort \notin {l.at, l.to}
  BY <1>1 DEF StrackerRelay, Promised
<1>10. RelayFits' BY <1>2, <1>3, <1>5, <1>9 DEF RelayFits
<1> QED BY <1>6, <1>8, <1>10 DEF PluginsInv

LEMMA RealPenaltyKeeps == ASSUME PluginsInv, StartRealPenalty PROVE PluginsInv'
<1> DEFINE p == "realpenalty"
           st == "stracker"
           more == "kissmyrank" \in given.plugins
<1>1. \/ ~more /\ relay' = relay /\ twice' = twice
      \/ /\ more
         /\ \E l \in [at : Ports, to : Ports] :
              /\ relay' = Told(relay, p, l)
              /\ twice' = (twice \/ l.at = l.to \/ {l.at, l.to} \cap Promised # {})
  BY DEF StartRealPenalty
<1>2. /\ todo # <<>> /\ Head(todo) = p /\ StartPlugin(p, AboveRealPenalty)
      /\ p \in Names /\ st \in Names /\ p # st
      /\ given' = given /\ started' = started /\ left' = left /\ logs' = logs /\ limit' = limit
  BY DEF StartRealPenalty, Names, AboveRealPenalty
<1>3. TodoFits /\ ConfFits /\ RelayFits BY DEF PluginsInv
<1>a. /\ IsFun(conf) /\ IsFun(relay)
      /\ DOMAIN conf \subseteq given.plugins /\ DOMAIN relay \subseteq given.plugins
      /\ given.plugins \subseteq Names
  BY <1>3, LinksAreFunctions
<1>b. /\ p \in given.plugins /\ \A q \in DOMAIN conf \cup DOMAIN relay : Rank(q) < Rank(p)
      /\ \A q \in given.plugins : Rank(q) < Rank(p) => q \in DOMAIN conf
  BY <1>2, <1>3, NextTurn
<1>4. /\ DOMAIN conf \subseteq {st} /\ DOMAIN relay \subseteq {st}
      /\ st \in given.plugins => st \in DOMAIN conf /\ st \in DOMAIN relay
  <2>1. Rank(p) = 2 /\ Rank(st) = 1 /\ \A q : Rank(q) \in 1 .. 4 BY Ranks
  <2>2. \A q \in Names : Rank(q) < 2 => q = st BY <2>1, <1>2, Ranks
  <2>3. st \in given.plugins => st \in DOMAIN conf BY <1>b, <2>1
  <2>4. st \in DOMAIN conf => st \in DOMAIN relay BY <1>3 DEF ConfFits
  <2> QED BY <1>a, <1>b, <2>1, <2>2, <2>3, <2>4
<1>5. /\ DOMAIN relay' = DOMAIN relay \cup (IF more THEN {p} ELSE {})
      /\ IsFun(relay')
      /\ st \in DOMAIN relay => relay'[st] = relay[st]
  <2>1. CASE ~more BY <1>1, <1>a, <2>1
  <2>2. CASE more
    <3>1. PICK l \in [at : Ports, to : Ports] : relay' = Told(relay, p, l) BY <1>1, <2>2
    <3>2. ToldOnly(relay, relay', p, l) BY <3>1, <1>3, LinksTold
    <3> QED BY <3>2, <1>2, <2>2 DEF ToldOnly
  <2> QED BY <2>1, <2>2
<1>6. /\ TodoFits' /\ ProcessesFit' /\ LogsFit'
      /\ conf' = conf \/ conf' = Told(conf, p, Back(AboveRealPenalty))
  BY <1>2, <1>5, StartKeeps
<1>7. /\ DOMAIN conf' \subseteq DOMAIN conf \cup {p} /\ DOMAIN conf \subseteq DOMAIN conf'
      /\ p \in DOMAIN conf' => conf'[p] = Back(AboveRealPenalty)
      /\ \A q \in DOMAIN conf : conf'[q] = conf[q]
      /\ IsFun(conf')
  <2>1. CASE conf' = conf BY <2>1, <1>a, <1>4, <1>2
  <2>2. CASE conf' = Told(conf, p, Back(AboveRealPenalty))
    <3>1. ToldOnly(conf, conf', p, Back(AboveRealPenalty)) BY <2>2, <1>3, LinksTold
    <3>2. p \notin DOMAIN conf BY <1>2, <1>4
    <3> QED BY <3>1, <3>2 DEF ToldOnly
  <2> QED BY <1>6, <2>1, <2>2
<1>8. ConfFits'
  <2>1. AboveRealPenalty' = AboveRealPenalty BY <1>2, <1>4, <1>5 DEF AboveRealPenalty, Forward
  <2>2. /\ DOMAIN conf' \subseteq given'.plugins /\ DOMAIN relay' \subseteq given'.plugins /\ given'.plugins \subseteq Names
    BY <1>2, <1>5, <1>7, <1>a, <1>b
  <2>3. st \in DOMAIN conf' => conf'[st] = Back(Forward) /\ st \in DOMAIN relay'
    <3>1. st \in DOMAIN conf => conf[st] = Back(Forward) /\ st \in DOMAIN relay BY <1>3 DEF ConfFits
    <3> QED BY <3>1, <1>2, <1>5, <1>7
  <2>4. p \in DOMAIN conf' =>
          /\ conf'[p] = Back(AboveRealPenalty')
          /\ st \in given'.plugins => st \in DOMAIN conf'
          /\ more => p \in DOMAIN relay'
    <3>1. st \in given'.plugins => st \in DOMAIN conf' BY <1>2, <1>4, <1>7
    <3>2. more => p \in DOMAIN relay' BY <1>5
    <3> QED BY <2>1, <1>7, <3>1, <3>2
  <2>5. "kissmyrank" \notin DOMAIN conf' BY <1>4, <1>7
  <2> QED BY <1>2, <1>5, <1>7, <2>2, <2>3, <2>4, <2>5 DEF ConfFits
<1>9. RelayFits'
  <2>1. CASE ~more BY <1>1, <1>2, <1>3, <2>1 DEF RelayFits
  <2>2. CASE more
    <3>1. PICK l \in [at : Ports, to : Ports] :
             /\ relay' = Told(relay, p, l)
             /\ twice' = (twice \/ l.at = l.to \/ {l.at, l.to} \cap Promised # {})
      BY <1>1, <2>2
    <3>2. relay'[p] = l BY <3>1, <1>3, LinksTold DEF ToldOnly
    <3>3. twice' \/ (l.at # l.to /\ ForwardPort \notin {l.at, l.to}
                     /\ (st \in DOMAIN relay => {l.at, l.to} \cap {relay[st].at, relay[st].to} = {}))
      BY <3>1 DEF Promised
    <3>4. twice => twice' BY <3>1
    <3>5. st \in DOMAIN relay' <=> st \in DOMAIN relay BY <1>5, <1>2
    <3> QED BY <1>2, <1>3, <1>4, <1>5, <3>2, <3>3, <3>4, <3>5 DEF RelayFits
  <2> QED BY <2>1, <2>2
<1> QED BY <1>6, <1>8, <1>9 DEF PluginsInv

LEMMA KissMyRankKeeps == ASSUME PluginsInv, StartKissMyRank PROVE PluginsInv'
<1> DEFINE p == "kissmyrank"
<1>2. /\ todo # <<>> /\ Head(todo) = p /\ StartPlugin(p, AboveKissMyRank) /\ p \in Names
      /\ given' = given /\ started' = started /\ left' = left /\ logs' = logs /\ limit' = limit
      /\ relay' = relay /\ twice' = twice
  BY DEF StartKissMyRank, Names
<1>3. TodoFits /\ ConfFits /\ RelayFits BY DEF PluginsInv
<1>a. /\ IsFun(conf) /\ IsFun(relay)
      /\ DOMAIN conf \subseteq given.plugins /\ DOMAIN relay \subseteq given.plugins
      /\ given.plugins \subseteq Names
  BY <1>3, LinksAreFunctions
<1>b. /\ p \in given.plugins /\ \A q \in DOMAIN conf \cup DOMAIN relay : Rank(q) < Rank(p)
      /\ \A q \in given.plugins : Rank(q) < Rank(p) => q \in DOMAIN conf
  BY <1>2, <1>3, NextTurn
<1>4. p \notin DOMAIN conf /\ given.plugins \subseteq DOMAIN conf \cup {p}
  <2>1. Rank(p) = 3 BY Ranks
  <2>2. \A q \in Names : q # p => Rank(q) < 3
    BY <2>1, Ranks DEF Names
  <2> QED BY <1>a, <1>b, <2>1, <2>2
<1>6. /\ TodoFits' /\ ProcessesFit' /\ LogsFit'
      /\ conf' = conf \/ conf' = Told(conf, p, Back(AboveKissMyRank))
  BY <1>2, StartKeeps
<1>8. ConfFits'
  <2>1. CASE conf' = conf BY <2>1, <1>2, <1>3 DEF ConfFits, AboveKissMyRank, AboveRealPenalty
  <2>2. CASE conf' = Told(conf, p, Back(AboveKissMyRank))
    <3>1. /\ DOMAIN conf' = DOMAIN conf \cup {p} /\ conf'[p] = Back(AboveKissMyRank)
          /\ IsFun(conf')
          /\ \A q \in DOMAIN conf : conf'[q] = conf[q]
      <4>1. ToldOnly(conf, conf', p, Back(AboveKissMyRank)) BY <2>2, <1>3, LinksTold
      <4> QED BY <4>1, <1>4 DEF ToldOnly
    <3>2. AboveKissMyRank' = AboveKissMyRank /\ AboveRealPenalty' = AboveRealPenalty
      BY <1>2 DEF AboveKissMyRank, AboveRealPenalty, Forward
    <3>3. /\ DOMAIN conf' \subseteq given'.plugins /\ DOMAIN relay' \subseteq given'.plugins /\ given'.plugins \subseteq Names
          /\ IsFun(relay')
          /\ given'.plugins \subseteq DOMAIN conf'
      BY <1>2, <1>a, <1>b, <1>4, <3>1
    <3>4. "stracker" \in DOMAIN conf' => conf'["stracker"] = Back(Forward) /\ "stracker" \in DOMAIN relay'
      BY <1>2, <1>3, <3>1 DEF ConfFits
    <3>5. "realpenalty" \in DOMAIN conf' =>
            /\ conf'["realpenalty"] = Back(AboveRealPenalty')
            /\ "stracker" \in given'.plugins => "stracker" \in DOMAIN conf'
            /\ "kissmyrank" \in given'.plugins => "realpenalty" \in DOMAIN relay'
      BY <1>2, <1>3, <3>1, <3>2 DEF ConfFits
    <3> QED BY <3>1, <3>2, <3>3, <3>4, <3>5 DEF ConfFits
  <2> QED BY <1>6, <2>1, <2>2
<1>9. RelayFits' BY <1>2, <1>3 DEF RelayFits
<1> QED BY <1>6, <1>8, <1>9 DEF PluginsInv

------------------------------------------------------------------------------
(* The other steps, and the properties.                                         *)

LEMMA ExtraKeeps == ASSUME PluginsInv, StartExtra PROVE PluginsInv'
<1>1. /\ todo # <<>> /\ Head(todo) = "extra" /\ todo' = Tail(todo)
      /\ given' = given /\ started' = started /\ left' = left /\ logs' = logs /\ limit' = limit
      /\ conf' = conf /\ relay' = relay /\ twice' = twice
  BY DEF StartExtra
<1>2. Head(todo) # "stop" /\ Head(todo) \notin Names BY <1>1 DEF Names
<1>3. started BY <1>1, <1>2, TurnOf DEF PluginsInv
<1>4. TodoFits' BY <1>1, <1>2, LeftOver DEF PluginsInv
<1>5. ConfFits' BY <1>1 DEF PluginsInv, ConfFits, AboveRealPenalty, AboveKissMyRank
<1>6. RelayFits' BY <1>1 DEF PluginsInv, RelayFits
<1>7. LogsFit' BY <1>1 DEF PluginsInv, LogsFit, LogsLimited
<1>8. ProcessesFit'
  <2> DEFINE process == <<"extra", races, Len(todo)>>
  <2>1. CASE extra' = Append(extra, process) /\ alive' = alive \cup {process}
    <3> HIDE DEF process
    <3> QED BY <2>1, <1>1, <1>3, ProcessAdded DEF PluginsInv
  <2>2. CASE UNCHANGED <<extra, alive>>
    BY <2>2, <1>1, <1>3 DEF PluginsInv, ProcessesFit, NoneForgotten, NoServer
  <2> QED BY <2>1, <2>2 DEF StartExtra
<1> QED BY <1>4, <1>5, <1>6, <1>7, <1>8 DEF PluginsInv

LEMMA EndsKeeps == ASSUME PluginsInv, NEW p, Ends(p) PROVE PluginsInv'
<1>1. /\ alive' \subseteq alive /\ todo' = todo /\ extra' = extra
      /\ given' = given /\ started' = started /\ left' = left /\ logs' = logs /\ limit' = limit
      /\ conf' = conf /\ relay' = relay /\ twice' = twice
  BY DEF Ends
<1>4. TodoFits' BY <1>1 DEF PluginsInv, TodoFits, Left
<1>5. ConfFits' BY <1>1 DEF PluginsInv, ConfFits, AboveRealPenalty, AboveKissMyRank
<1>6. RelayFits' BY <1>1 DEF PluginsInv, RelayFits
<1>7. LogsFit' BY <1>1 DEF PluginsInv, LogsFit, LogsLimited
<1>8. ProcessesFit' BY <1>1 DEF PluginsInv, ProcessesFit, NoneForgotten, NoServer
<1> QED BY <1>4, <1>5, <1>6, <1>7, <1>8 DEF PluginsInv

LEMMA ServerEndedKeeps == ASSUME PluginsInv, ServerEnded PROVE PluginsInv'
<1>1. /\ alive' = alive /\ todo' = <<"stop">> /\ extra' = extra
      /\ given' = given /\ ~started' /\ left' = left /\ logs' = logs /\ limit' = limit
      /\ conf' = conf /\ relay' = relay /\ twice' = twice
  BY DEF ServerEnded
<1>4. TodoFits' BY <1>1 DEF TodoFits
<1>5. ConfFits' BY <1>1 DEF PluginsInv, ConfFits, AboveRealPenalty, AboveKissMyRank
<1>6. RelayFits' BY <1>1 DEF PluginsInv, RelayFits
<1>7. LogsFit' BY <1>1 DEF PluginsInv, LogsFit, LogsLimited
<1>8. ProcessesFit' BY <1>1 DEF PluginsInv, ProcessesFit, NoneForgotten, NoServer
<1> QED BY <1>4, <1>5, <1>6, <1>7, <1>8 DEF PluginsInv

LEMMA StopKeeps == ASSUME PluginsInv, stopChildProcesses PROVE PluginsInv'
<1>1. /\ todo = <<"stop">> /\ started' = started /\ logs' = logs /\ limit' = limit /\ ~started
  <2>1. ~(<<"stop">> \in Seq(Things)) BY DEF Things, Names
  <2> QED BY <2>1 DEF stopChildProcesses, PluginsInv, TodoFits, Left
<1>2. LogsFit' BY <1>1 DEF PluginsInv, LogsFit, LogsLimited
<1>3. CASE extra = <<>>
  <2>1. /\ todo' = <<>> /\ given' = Nothing /\ conf' = <<>> /\ relay' = <<>> /\ twice' = FALSE
        /\ extra' = extra /\ alive' = alive /\ left' = left
    BY <1>3 DEF stopChildProcesses
  <2>2. TodoFits' BY <1>1, <2>1 DEF TodoFits, Left
  <2>3. ConfFits' BY <2>1 DEF ConfFits, Nothing, IsFun
  <2>4. RelayFits' BY <2>1, PluginsAssumption DEF RelayFits, Nothing, NoLink
  <2>5. ProcessesFit'
    <3>1. alive \subseteq left BY <1>3 DEF PluginsInv, ProcessesFit, NoneForgotten, Range
    <3> QED BY <1>1, <2>1, <3>1 DEF PluginsInv, ProcessesFit, NoneForgotten, NoServer
  <2> QED BY <1>2, <2>2, <2>3, <2>4, <2>5 DEF PluginsInv
<1>4. CASE extra # <<>>
  <2>1. /\ extra' = Tail(extra) /\ todo' = todo /\ given' = given /\ conf' = conf /\ relay' = relay /\ twice' = twice
        /\ \/ alive' = alive \ {Head(extra)} /\ left' = left
           \/ left' = left \cup {Head(extra)} /\ alive' = alive
    BY <1>4 DEF stopChildProcesses
  <2>2. TodoFits' BY <1>1, <2>1 DEF TodoFits
  <2>3. ConfFits' BY <2>1 DEF PluginsInv, ConfFits, AboveRealPenalty, AboveKissMyRank
  <2>4. RelayFits' BY <2>1 DEF PluginsInv, RelayFits
  <2>5. ProcessesFit'
    <3>1. PICK S : extra \in Seq(S) BY DEF PluginsInv, ProcessesFit
    <3>2. extra' \in Seq(S) /\ Range(extra) \subseteq {Head(extra)} \cup Range(extra')
      <4>1. /\ extra' \in Seq(S) /\ Len(extra') = Len(extra) - 1 /\ Len(extra) \in Nat
            /\ \A i \in 1 .. Len(extra') : extra'[i] = extra[i + 1]
            /\ Head(extra) = extra[1]
        BY <1>4, <2>1, <3>1
      <4>2. DOMAIN extra = 1 .. Len(extra) /\ DOMAIN extra' = 1 .. Len(extra') BY <3>1, <4>1
      <4>3. ASSUME NEW i \in 1 .. Len(extra), i # 1
            PROVE  i - 1 \in 1 .. Len(extra') /\ extra'[i - 1] = extra[i]
        BY <4>1, <4>3
      <4> QED BY <4>1, <4>2, <4>3 DEF Range
    <3>3. todo' # <<>> BY <1>1, <2>1
    <3>4. NoneForgotten' BY <2>1, <3>2, <3>3 DEF PluginsInv, ProcessesFit, NoneForgotten, NoServer
    <3> QED BY <3>2, <3>3, <3>4 DEF ProcessesFit, NoServer
  <2> QED BY <1>2, <2>2, <2>3, <2>4, <2>5 DEF PluginsInv
<1> QED BY <1>3, <1>4

LEMMA PluginsStep == PluginsInv /\ [PluginsNext]_pluginVars => PluginsInv'
<1> SUFFICES ASSUME PluginsInv, [PluginsNext]_pluginVars PROVE PluginsInv' OBVIOUS
<1>1. ASSUME NEW o \in Options, NEW n \in Limits, NEW more \in 0 .. MaxExtra, NEW ok \in BOOLEAN,
             Prepare(o, n, more, ok)
      PROVE  PluginsInv'
  BY <1>1, PrepareKeeps
<1>2. CASE StartStracker BY <1>2, StrackerKeeps
<1>3. CASE StartRealPenalty BY <1>3, RealPenaltyKeeps
<1>4. CASE StartKissMyRank BY <1>4, KissMyRankKeeps
<1>5. CASE StartExtra BY <1>5, ExtraKeeps
<1>6. ASSUME NEW p \in alive, Ends(p) PROVE PluginsInv' BY <1>6, EndsKeeps
<1>7. CASE ServerEnded BY <1>7, ServerEndedKeeps
<1>8. CASE stopChildProcesses BY <1>8, StopKeeps
<1>9. CASE UNCHANGED pluginVars
  <2>1. /\ alive' = alive /\ todo' = todo /\ extra' = extra
        /\ given' = given /\ started' = started /\ left' = left /\ logs' = logs /\ limit' = limit
        /\ conf' = conf /\ relay' = relay /\ twice' = twice
    BY <1>9 DEF pluginVars
  <2>2. TodoFits' BY <2>1 DEF PluginsInv, TodoFits, Left
  <2>3. ConfFits' BY <2>1 DEF PluginsInv, ConfFits, AboveRealPenalty, AboveKissMyRank
  <2>4. RelayFits' BY <2>1 DEF PluginsInv, RelayFits
  <2>5. LogsFit' BY <2>1 DEF PluginsInv, LogsFit, LogsLimited
  <2>6. ProcessesFit' BY <2>1 DEF PluginsInv, ProcessesFit, NoneForgotten, NoServer
  <2> QED BY <2>2, <2>3, <2>4, <2>5, <2>6 DEF PluginsInv
<1> QED BY <1>1, <1>2, <1>3, <1>4, <1>5, <1>6, <1>7, <1>8, <1>9 DEF PluginsNext

\* The chain, from the links of the three.
LEMMA LinksChain ==
    ASSUME ConfFits, RelayFits
    PROVE  Chained
<1> DEFINE st == "stracker"
           rp == "realpenalty"
           km == "kissmyrank"
<1>1. DOMAIN conf \subseteq {st, rp, km} BY DEF ConfFits, Names
<1>2. /\ st \in DOMAIN conf => conf[st] = Back(Forward) /\ st \in DOMAIN relay
      /\ rp \in DOMAIN conf =>
            /\ conf[rp] = Back(IF st \in DOMAIN conf THEN relay[st] ELSE Forward)
            /\ km \in DOMAIN conf => rp \in DOMAIN relay
      /\ km \in DOMAIN conf =>
            conf[km] = Back(IF rp \in DOMAIN conf THEN relay[rp] ELSE IF st \in DOMAIN conf THEN relay[st] ELSE Forward)
  BY DEF ConfFits, AboveRealPenalty, AboveKissMyRank
<1>3. /\ Above(st) = {}
      /\ Above(rp) = DOMAIN conf \cap {st}
      /\ Above(km) = IF rp \in DOMAIN conf THEN {rp} ELSE DOMAIN conf \cap {st}
  BY <1>1, Order DEF Above
<1>4. ASSUME NEW p \in DOMAIN conf
      PROVE  /\ Above(p) = {} => Meets(p, Forward)
             /\ \A q \in Above(p) : Meets(p, relay[q])
  <2>1. \A l, x : conf[x] = Back(l) => Meets(x, l) BY DEF Back, Meets
  <2>2. CASE p = st BY <1>2, <1>3, <1>4, <2>1, <2>2
  <2>3. CASE p = rp BY <1>2, <1>3, <1>4, <2>1, <2>3
  <2>4. CASE p = km BY <1>2, <1>3, <1>4, <2>1, <2>4
  <2> QED BY <1>1, <2>2, <2>3, <2>4
<1>5. ASSUME ~twice, NEW p \in DOMAIN conf, NEW q \in DOMAIN conf
      PROVE  /\ p # q => Listens(p) \cap Listens(q) = {}
             /\ p \in Above(q) => conf[p].at # relay[p].at
  <2> DEFINE Behind(x) == \E r \in DOMAIN conf : x \in Above(r)
  <2>1. \A x, port : port \in Listens(x) => port = conf[x].at \/ (port = relay[x].at /\ Behind(x))
    BY DEF Listens
  <2>2. /\ Behind(st) => rp \in DOMAIN conf \/ km \in DOMAIN conf
        /\ Behind(rp) => km \in DOMAIN conf /\ rp \in DOMAIN conf
        /\ ~Behind(km)
    BY <1>1, <1>3
  <2>3. /\ st \in DOMAIN conf => conf[st].at = ForwardPort
        /\ rp \in DOMAIN conf => conf[rp].at = IF st \in DOMAIN conf THEN relay[st].to ELSE ForwardPort
        /\ km \in DOMAIN conf => conf[km].at = IF rp \in DOMAIN conf THEN relay[rp].to
                                               ELSE IF st \in DOMAIN conf THEN relay[st].to ELSE ForwardPort
    BY <1>2 DEF Back, Forward
  <2>4. /\ st \in DOMAIN conf /\ (rp \in DOMAIN conf \/ km \in DOMAIN conf) => relay[st].at # relay[st].to
        /\ st \in DOMAIN conf => ForwardPort # relay[st].at /\ ForwardPort # relay[st].to
    <3>1. rp \in DOMAIN conf \/ km \in DOMAIN conf => given.plugins # {st} BY DEF ConfFits
    <3> QED BY <3>1, <1>2, <1>5 DEF RelayFits
  <2>5. rp \in DOMAIN conf /\ km \in DOMAIN conf =>
          /\ relay[rp].at # relay[rp].to
          /\ ForwardPort # relay[rp].at /\ ForwardPort # relay[rp].to
          /\ st \in DOMAIN conf => /\ relay[rp].at # relay[st].at /\ relay[rp].at # relay[st].to
                                   /\ relay[rp].to # relay[st].at /\ relay[rp].to # relay[st].to
    <3>1. st \in DOMAIN conf => st \in given.plugins BY DEF ConfFits
    <3> QED BY <3>1, <1>2, <1>5 DEF RelayFits
  <2> HIDE DEF Behind
  <2>6. ASSUME p # q, NEW port \in Listens(p), port \in Listens(q) PROVE FALSE
    <3>1. port = conf[p].at \/ (port = relay[p].at /\ Behind(p)) BY <2>1
    <3>2. port = conf[q].at \/ (port = relay[q].at /\ Behind(q)) BY <2>1, <2>6
    <3>3. CASE p = st /\ q = rp BY <3>1, <3>2, <3>3, <2>2, <2>3, <2>4, <2>5
    <3>4. CASE p = st /\ q = km BY <3>1, <3>2, <3>4, <2>2, <2>3, <2>4, <2>5
    <3>5. CASE p = rp /\ q = km BY <3>1, <3>2, <3>5, <2>2, <2>3, <2>4, <2>5
    <3>6. CASE q = st /\ p = rp BY <3>1, <3>2, <3>6, <2>2, <2>3, <2>4, <2>5
    <3>7. CASE q = st /\ p = km BY <3>1, <3>2, <3>7, <2>2, <2>3, <2>4, <2>5
    <3>8. CASE q = rp /\ p = km BY <3>1, <3>2, <3>8, <2>2, <2>3, <2>4, <2>5
    <3> QED BY <1>1, <2>6, <3>3, <3>4, <3>5, <3>6, <3>7, <3>8
  <2>7. ASSUME p \in Above(q) PROVE conf[p].at # relay[p].at
    <3>1. (p = st /\ q \in {rp, km}) \/ (p = rp /\ q = km) BY <1>1, <1>3, <2>7
    <3> QED BY <3>1, <2>3, <2>4, <2>5
  <2> QED BY <2>6, <2>7
<1> QED BY <1>4, <1>5 DEF Chained

(* The plugins of a server form a chain from Server Manager to the last of them, over   *)
(* ports that differ unless the system offered one twice; every process that runs is    *)
(* known or could not be stopped; the log files are within their limit.                 *)
THEOREM PluginsAreSound == PluginsSpec => []PluginsSound
<1>1. PluginsInit => PluginsInv BY PluginsStart
<1>2. PluginsInv /\ [PluginsNext]_pluginVars => PluginsInv' BY PluginsStep
<1>3. PluginsInv => PluginsSound
  BY LinksChain DEF PluginsInv, PluginsSound, ProcessesFit, LogsFit
<1> QED BY <1>1, <1>2, <1>3, PTL DEF PluginsSpec

------------------------------------------------------------------------------
(* Driver swaps.                                                                *)

DriverObject == [guid : Drivers, loaded : BOOLEAN, pos : Positions \cup {Zero}, laps : BOOLEAN, ctx : Int, old : BOOLEAN]
Swap == [driver : Nat, current : Nat, pos : Positions \cup {Zero}, t : Nat, new : BOOLEAN, first : BOOLEAN,
         resume : BOOLEAN, pc : {"wait", "kicking", "done"}, on : Int, earlier : BOOLEAN,
         orphan : BOOLEAN, overlap : BOOLEAN, blind : BOOLEAN]

SwapTypes ==
    /\ heap \in Seq(DriverObject) /\ swaps \in Seq(Swap)
    /\ conn \in [Drivers -> Nat] /\ disc \in [Drivers -> Nat]
    /\ car \in [driver : Drivers \cup {NoDriver}, at : Positions]
    /\ count \in [connects : Nat, drives : Nat, seconds : Nat]
    /\ over \in BOOLEAN /\ crashed \in BOOLEAN /\ cleared \in BOOLEAN

\* The objects in the tables are the drivers' own; who is connected is in the car, and his
\* position is that of the car once there was an update.
PeopleFit ==
    \A d \in Drivers :
        /\ disc[d] # 0 => disc[d] \in DOMAIN heap /\ heap[disc[d]].guid = d
        /\ conn[d] # 0 => /\ car.driver = d
                          /\ conn[d] \in DOMAIN heap /\ heap[conn[d]].guid = d
                          /\ heap[conn[d]].old \/ heap[conn[d]].pos \in {Zero, car.at}

\* A swap that has not returned: its objects exist, and it knows a position if it is not
\* blind.  Whatever outlives its session is an orphan.
SwapOK(w, h, ended, dead) ==
    w.pc # "done" =>
        /\ w.driver \in DOMAIN h /\ w.current \in DOMAIN h
        /\ ~w.new => ~w.first
        /\ w.pc = "wait" /\ ~dead => w.on # 0
        /\ w.first => w.blind \/ w.orphan \/ h[w.current].pos # Zero
        /\ ended \/ w.earlier => w.orphan

SwapsFit == \A s \in DOMAIN swaps : SwapOK(swaps[s], heap, over, crashed)

Overlap == \E r \in DOMAIN swaps : swaps[r].overlap

\* Without an overlap there is one swap at a time, and it has returned when the driver is
\* told that he may go; the next one begins with an empty car.
OneSwap == Overlap \/ \A r, s \in DOMAIN swaps : Live(r) /\ Live(s) => r = s
ClearedFits ==
    Overlap \/ ~cleared \/ \A s \in DOMAIN swaps : Live(s) => ~swaps[s].new /\ swaps[s].pc = "wait" /\ car.driver = NoDriver

SwapsInv == SwapTypes /\ PeopleFit /\ SwapsFit /\ OneSwap /\ ClearedFits

------------------------------------------------------------------------------

LEMMA SwapsStart == SwapsInit => SwapsInv
<1> SUFFICES ASSUME SwapsInit PROVE SwapsInv OBVIOUS
<1> USE DEF SwapsInit
<1>1. SwapTypes
  <2>1. car \in [driver : Drivers \cup {NoDriver}, at : Positions] BY DEF Positions
  <2>2. count \in [connects : Nat, drives : Nat, seconds : Nat] OBVIOUS
  <2>3. conn \in [Drivers -> Nat] /\ disc \in [Drivers -> Nat] OBVIOUS
  <2>4. heap \in Seq(DriverObject) /\ swaps \in Seq(Swap) OBVIOUS
  <2> QED BY <2>1, <2>2, <2>3, <2>4 DEF SwapTypes
<1>2. PeopleFit BY DEF PeopleFit
<1>3. SwapsFit BY DEF SwapsFit
<1>4. OneSwap /\ ClearedFits BY DEF OneSwap, ClearedFits
<1> QED BY <1>1, <1>2, <1>3, <1>4 DEF SwapsInv

LEMMA NewObjects == \A d \in Drivers : /\ NewObject(d) \in DriverObject /\ NewObject(d).guid = d
                                       /\ NewObject(d).pos = Zero /\ ~NewObject(d).old
BY DEF NewObject, DriverObject

\* Replacing one object.
LEMMA OneObject ==
    ASSUME NEW h \in Seq(DriverObject), NEW o \in DOMAIN h, NEW x \in DriverObject
    PROVE  LET g == [h EXCEPT ![o] = x]
           IN  /\ g \in Seq(DriverObject) /\ DOMAIN g = DOMAIN h /\ g[o] = x
               /\ \A k \in DOMAIN h : k # o => g[k] = h[k]
OBVIOUS

\* Swaps go on when objects keep their positions.
KeepsPositions(h, g) ==
    DOMAIN h \subseteq DOMAIN g /\ \A o \in DOMAIN h : h[o].pos # Zero => g[o].pos # Zero

LEMMA StillOK ==
    ASSUME NEW w, NEW h, NEW g, NEW ended, NEW dead, SwapOK(w, h, ended, dead), KeepsPositions(h, g)
    PROVE  SwapOK(w, g, ended, dead)
BY DEF SwapOK, KeepsPositions

\* Steps that leave the swaps alone.
LEMMA SwapsAlone ==
    ASSUME SwapsInv, swaps' = swaps, over' = over, crashed' = crashed, KeepsPositions(heap, heap'),
           \/ ~cleared'
           \/ cleared' = cleared /\ car'.driver = car.driver
    PROVE  SwapsFit' /\ OneSwap' /\ ClearedFits'
<1>1. SwapsFit'
  <2> SUFFICES ASSUME NEW s \in DOMAIN swaps PROVE SwapOK(swaps[s], heap', over, crashed)
    BY DEF SwapsFit
  <2>1. SwapOK(swaps[s], heap, over, crashed) BY DEF SwapsInv, SwapsFit
  <2> QED BY <2>1, StillOK
<1>2. OneSwap' BY DEF SwapsInv, OneSwap, Overlap, Live
<1>3. ClearedFits' BY DEF SwapsInv, ClearedFits, Overlap, Live
<1> QED BY <1>1, <1>2, <1>3

LEMMA ConnectKeeps == ASSUME SwapsInv, NEW d \in Drivers, Connect(d) PROVE SwapsInv'
<1> DEFINE known == disc[d] # 0
           o == IF known THEN disc[d] ELSE Len(heap) + 1
<1>1. /\ car.driver = NoDriver /\ conn[d] = 0
      /\ heap' = IF known THEN [heap EXCEPT ![o].old = TRUE] ELSE Append(heap, NewObject(d))
      /\ conn' = [conn EXCEPT ![d] = o] /\ disc' = [disc EXCEPT ![d] = 0]
      /\ car' = [driver |-> d, at |-> "box"]
      /\ count' = [count EXCEPT !.connects = @ + 1] /\ cleared' = FALSE
      /\ swaps' = swaps /\ over' = over /\ crashed' = crashed
  BY DEF Connect
<1>2. SwapTypes /\ PeopleFit /\ Len(heap) \in Nat /\ DOMAIN heap = 1 .. Len(heap)
  BY DEF SwapsInv, SwapTypes
<1>3. \A x \in Drivers : conn[x] = 0 BY <1>1, <1>2, SwapTimesAssumption DEF PeopleFit
<1>4. /\ heap' \in Seq(DriverObject) /\ DOMAIN heap \subseteq DOMAIN heap' /\ o \in DOMAIN heap' /\ o # 0 /\ o \in Nat
      /\ heap'[o].guid = d /\ (heap'[o].old \/ heap'[o].pos = Zero)
      /\ \A k \in DOMAIN heap : heap'[k].guid = heap[k].guid /\ heap'[k].pos = heap[k].pos
  <2>1. CASE known
    <3>1. o \in DOMAIN heap /\ heap[o].guid = d /\ heap[o] \in DriverObject
      BY <1>2, <2>1 DEF PeopleFit, SwapTypes
    <3> DEFINE x == [heap[o] EXCEPT !.old = TRUE]
    <3>2. x \in DriverObject /\ x.guid = d /\ x.pos = heap[o].pos /\ x.old BY <3>1 DEF DriverObject
    <3>3. heap' = [heap EXCEPT ![o] = x] BY <1>1, <2>1
    <3> HIDE DEF x, o
    <3>4. /\ heap' \in Seq(DriverObject) /\ DOMAIN heap' = DOMAIN heap /\ heap'[o] = x
          /\ \A k \in DOMAIN heap : k # o => heap'[k] = heap[k]
      BY <1>2, <3>1, <3>2, <3>3 DEF SwapTypes
    <3> QED BY <1>2, <3>1, <3>2, <3>4
  <2>2. CASE ~known
    <3>1. heap' = Append(heap, NewObject(d)) /\ o = Len(heap) + 1 BY <1>1, <2>2
    <3>2. /\ heap' \in Seq(DriverObject) /\ Len(heap') = Len(heap) + 1 /\ heap'[Len(heap) + 1] = NewObject(d)
          /\ \A k \in 1 .. Len(heap) : heap'[k] = heap[k]
      BY <1>2, <3>1, NewObjects DEF SwapTypes
    <3> QED BY <1>2, <3>1, <3>2, NewObjects
  <2> QED BY <2>1, <2>2
<1> HIDE DEF known, o
<1>5. SwapTypes'
  <2>1. car' \in [driver : Drivers \cup {NoDriver}, at : Positions] BY <1>1 DEF Positions
  <2>a. count \in [connects : Nat, drives : Nat, seconds : Nat] BY <1>2 DEF SwapTypes
  <2>b. count' = [count EXCEPT !.connects = @ + 1] BY <1>1
  <2>2. count' \in [connects : Nat, drives : Nat, seconds : Nat] BY <2>a, <2>b
  <2>3. conn' \in [Drivers -> Nat] /\ disc' \in [Drivers -> Nat] BY <1>1, <1>2, <1>4 DEF SwapTypes
  <2> QED BY <1>1, <1>2, <1>4, <2>1, <2>2, <2>3 DEF SwapTypes
<1>6. PeopleFit'
  <2> SUFFICES ASSUME NEW x \in Drivers
               PROVE  /\ disc'[x] # 0 => disc'[x] \in DOMAIN heap' /\ heap'[disc'[x]].guid = x
                      /\ conn'[x] # 0 =>
                            /\ car'.driver = x
                            /\ conn'[x] \in DOMAIN heap' /\ heap'[conn'[x]].guid = x
                            /\ heap'[conn'[x]].old \/ heap'[conn'[x]].pos \in {Zero, car'.at}
    BY DEF PeopleFit
  <2>1. disc'[x] # 0 => disc'[x] = disc[x] BY <1>1, <1>2 DEF SwapTypes
  <2>2. conn'[x] # 0 => x = d /\ conn'[x] = o BY <1>1, <1>2, <1>3 DEF SwapTypes
  <2>3. car'.driver = d BY <1>1
  <2> QED BY <2>1, <2>2, <2>3, <1>2, <1>4 DEF PeopleFit
<1>7. KeepsPositions(heap, heap') BY <1>4 DEF KeepsPositions
<1>8. SwapsFit' /\ OneSwap' /\ ClearedFits' BY <1>1, <1>7, SwapsAlone
<1> QED BY <1>5, <1>6, <1>8 DEF SwapsInv

\* The object of the driver in the car.
LEMMA SeatedObject ==
    ASSUME SwapsInv, Seated
    PROVE  /\ car.driver \in Drivers /\ conn[car.driver] \in DOMAIN heap /\ conn[car.driver] \in Nat
           /\ heap[conn[car.driver]].guid = car.driver /\ heap[conn[car.driver]] \in DriverObject
           /\ \A d \in Drivers : conn[d] # 0 => d = car.driver
           /\ heap \in Seq(DriverObject) /\ car.at \in Positions
<1>1. SwapTypes /\ PeopleFit BY DEF SwapsInv
<1>2. car.driver \in Drivers /\ conn[car.driver] # 0 /\ car.at \in Positions BY <1>1 DEF SwapTypes, Seated
<1>3. /\ conn[car.driver] \in DOMAIN heap /\ heap[conn[car.driver]].guid = car.driver
      /\ \A d \in Drivers : conn[d] # 0 => d = car.driver
  BY <1>1, <1>2 DEF PeopleFit
<1> QED BY <1>1, <1>2, <1>3 DEF SwapTypes

\* Steps that change the object of the driver in the car, and perhaps where the car is.
LEMMA SeatedStep ==
    ASSUME SwapsInv, Seated, NEW x \in DriverObject, heap' = [heap EXCEPT ![conn[car.driver]] = x],
           x.guid = car.driver, heap[conn[car.driver]].pos # Zero => x.pos # Zero,
           x.old \/ x.pos \in {Zero, car'.at},
           car'.driver = car.driver, car' \in [driver : Drivers \cup {NoDriver}, at : Positions],
           conn' = conn, disc' = disc, swaps' = swaps, over' = over, crashed' = crashed, cleared' = cleared,
           count' \in [connects : Nat, drives : Nat, seconds : Nat]
    PROVE  SwapsInv'
<1> DEFINE o == conn[car.driver]
<1>1. /\ car.driver \in Drivers /\ o \in DOMAIN heap /\ o \in Nat /\ heap[o].guid = car.driver
      /\ \A d \in Drivers : conn[d] # 0 => d = car.driver
      /\ heap \in Seq(DriverObject) /\ SwapTypes /\ PeopleFit
  BY SeatedObject DEF SwapsInv
<1> HIDE DEF o
<1>2. /\ heap' \in Seq(DriverObject) /\ DOMAIN heap' = DOMAIN heap /\ heap'[o] = x
      /\ \A k \in DOMAIN heap : k # o => heap'[k] = heap[k]
  BY <1>1 DEF o
<1>3. SwapTypes' BY <1>1, <1>2 DEF SwapTypes
<1>4. PeopleFit'
  <2> SUFFICES ASSUME NEW y \in Drivers
               PROVE  /\ disc[y] # 0 => disc[y] \in DOMAIN heap' /\ heap'[disc[y]].guid = y
                      /\ conn[y] # 0 =>
                            /\ car'.driver = y
                            /\ conn[y] \in DOMAIN heap' /\ heap'[conn[y]].guid = y
                            /\ heap'[conn[y]].old \/ heap'[conn[y]].pos \in {Zero, car'.at}
    BY DEF PeopleFit
  <2>1. \A k \in DOMAIN heap : heap'[k].guid = heap[k].guid BY <1>1, <1>2
  <2>2. conn[y] # 0 => y = car.driver /\ conn[y] = o BY <1>1 DEF o
  <2> QED BY <2>1, <2>2, <1>1, <1>2 DEF PeopleFit
<1>5. KeepsPositions(heap, heap') BY <1>1, <1>2 DEF KeepsPositions, o
<1>6. SwapsFit' /\ OneSwap' /\ ClearedFits' BY <1>5, SwapsAlone
<1> QED BY <1>3, <1>4, <1>6 DEF SwapsInv

LEMMA DriverKeeps ==
    ASSUME SwapsInv, OnClientLoaded \/ CarUpdate \/ CompleteLap \/ \E p \in Positions : Drive(p)
    PROVE  SwapsInv'
<1> DEFINE o == conn[car.driver]
<1>0. Seated BY DEF OnClientLoaded, CarUpdate, CompleteLap, Drive
<1>1. /\ car.driver \in Drivers /\ o \in DOMAIN heap /\ o \in Nat /\ heap[o].guid = car.driver
      /\ heap[o] \in DriverObject /\ car.at \in Positions /\ SwapTypes /\ PeopleFit
  BY <1>0, SeatedObject DEF SwapsInv
<1>a. heap[o].old \/ heap[o].pos \in {Zero, car.at} BY <1>0, <1>1 DEF PeopleFit, Seated
<1>b. /\ car \in [driver : Drivers \cup {NoDriver}, at : Positions]
      /\ count \in [connects : Nat, drives : Nat, seconds : Nat]
  BY <1>1 DEF SwapTypes
<1>2. CASE OnClientLoaded
  <2> DEFINE x == [heap[o] EXCEPT !.loaded = TRUE]
  <2>1. x \in DriverObject /\ x.guid = heap[o].guid /\ x.pos = heap[o].pos /\ x.old = heap[o].old
    BY <1>1 DEF DriverObject
  <2>2. /\ heap' = [heap EXCEPT ![o] = x]
        /\ car' = car /\ conn' = conn /\ disc' = disc /\ swaps' = swaps /\ over' = over
        /\ crashed' = crashed /\ cleared' = cleared /\ count' = count
    BY <1>2 DEF OnClientLoaded, people
  <2> HIDE DEF x
  <2> QED BY <1>0, <1>1, <1>a, <1>b, <2>1, <2>2, SeatedStep
<1>3. CASE CarUpdate
  <2> DEFINE x == [heap[o] EXCEPT !.pos = car.at, !.old = FALSE]
  <2>1. x \in DriverObject /\ x.guid = heap[o].guid /\ x.pos = car.at
    BY <1>1 DEF DriverObject
  <2>2. /\ heap' = [heap EXCEPT ![o] = x]
        /\ car' = car /\ conn' = conn /\ disc' = disc /\ swaps' = swaps /\ over' = over
        /\ crashed' = crashed /\ cleared' = cleared /\ count' = count
    BY <1>3 DEF CarUpdate, people
  <2>3. car.at # Zero BY <1>1 DEF Positions, Zero
  <2> HIDE DEF x
  <2> QED BY <1>0, <1>1, <1>a, <1>b, <2>1, <2>2, <2>3, SeatedStep
<1>4. CASE CompleteLap
  <2> DEFINE x == [heap[o] EXCEPT !.laps = TRUE]
  <2>1. x \in DriverObject /\ x.guid = heap[o].guid /\ x.pos = heap[o].pos /\ x.old = heap[o].old
    BY <1>1 DEF DriverObject
  <2>2. /\ heap' = [heap EXCEPT ![o] = x]
        /\ car' = car /\ conn' = conn /\ disc' = disc /\ swaps' = swaps /\ over' = over
        /\ crashed' = crashed /\ cleared' = cleared /\ count' = count
    BY <1>4 DEF CompleteLap
  <2> HIDE DEF x
  <2> QED BY <1>0, <1>1, <1>a, <1>b, <2>1, <2>2, SeatedStep
<1>5. ASSUME NEW p \in Positions, Drive(p) PROVE SwapsInv'
  <2> DEFINE x == [heap[o] EXCEPT !.pos = p]
  <2>1. x \in DriverObject /\ x.guid = heap[o].guid /\ x.pos = p
    BY <1>1 DEF DriverObject
  <2>2. /\ heap' = [heap EXCEPT ![o] = x]
        /\ car' = [car EXCEPT !.at = p] /\ conn' = conn /\ disc' = disc /\ swaps' = swaps /\ over' = over
        /\ crashed' = crashed /\ cleared' = cleared /\ count' = [count EXCEPT !.drives = @ + 1]
    BY <1>5 DEF Drive
  <2>3. p # Zero BY <1>5 DEF Positions, Zero
  <2>4. /\ car' \in [driver : Drivers \cup {NoDriver}, at : Positions] /\ car'.at = p /\ car'.driver = car.driver
        /\ count' \in [connects : Nat, drives : Nat, seconds : Nat]
    BY <1>b, <2>2
  <2> HIDE DEF x
  <2> QED BY <1>0, <1>1, <1>a, <2>1, <2>2, <2>3, <2>4, SeatedStep
<1> QED BY <1>2, <1>3, <1>4, <1>5

\* What every swap is made of.
LEMMA SwapParts ==
    ASSUME SwapsInv, NEW s \in DOMAIN swaps
    PROVE  /\ swaps[s] \in Swap /\ swaps \in Seq(Swap) /\ SwapOK(swaps[s], heap, over, crashed)
           /\ DOMAIN swaps = 1 .. Len(swaps) /\ Len(swaps) \in Nat /\ s \in Nat
<1>1. swaps \in Seq(Swap) /\ SwapsFit BY DEF SwapsInv, SwapTypes
<1> QED BY <1>1 DEF SwapsFit

LEMMA NewSwaps ==
    ASSUME SwapsInv, NEW o \in DOMAIN heap
    PROVE  /\ NewSwap(o) \in Swap /\ [NewSwap(o) EXCEPT !.orphan = TRUE] \in Swap
           /\ NewSwap(o).driver = o /\ NewSwap(o).current = o /\ ~NewSwap(o).new /\ ~NewSwap(o).first
           /\ NewSwap(o).pc = "wait" /\ NewSwap(o).on # 0 /\ ~NewSwap(o).earlier
           /\ NewSwap(o).orphan = over /\ NewSwap(o).overlap = (\E s \in DOMAIN swaps : Live(s))
<1>1. heap \in Seq(DriverObject) /\ swaps \in Seq(Swap) /\ over \in BOOLEAN BY DEF SwapsInv, SwapTypes
<1>2. o \in Nat /\ heap[o].pos \in Positions \cup {Zero} /\ Len(swaps) + 1 \in Int /\ Len(swaps) + 1 # 0
  <2>1. Len(swaps) \in Nat /\ o \in Nat /\ heap[o] \in DriverObject BY <1>1
  <2> QED BY <2>1 DEF DriverObject
<1> DEFINE two == \E s \in DOMAIN swaps : Live(s)
<1> DEFINE w == NewSwap(o)
<1>4. w = [driver |-> o, current |-> o, pos |-> heap[o].pos, t |-> 0, new |-> FALSE, first |-> FALSE,
           resume |-> FALSE, pc |-> "wait", on |-> Len(swaps) + 1, earlier |-> FALSE, orphan |-> over,
           overlap |-> two, blind |-> FALSE]
  BY DEF NewSwap
<1> HIDE DEF two, w
<1>5. two \in BOOLEAN BY DEF two
<1>6. w \in Swap BY <1>1, <1>2, <1>4, <1>5 DEF Swap
<1>7. [w EXCEPT !.orphan = TRUE] \in Swap BY <1>6 DEF Swap
<1>8. /\ w.driver = o /\ w.current = o /\ ~w.new /\ ~w.first /\ w.pc = "wait" /\ w.on # 0 /\ ~w.earlier
      /\ w.orphan = over /\ w.overlap = two
  BY <1>2, <1>4
<1> QED BY <1>6, <1>7, <1>8 DEF w, two

\* The others, when one more swap begins.
LikeBefore(m) ==
    /\ m \in Seq(Swap) /\ DOMAIN m = DOMAIN swaps
    /\ \A s \in DOMAIN swaps : m[s].pc = swaps[s].pc /\ m[s].new = swaps[s].new /\ m[s].overlap = swaps[s].overlap

LEMMA OneMore ==
    ASSUME SwapsInv, NEW m, LikeBefore(m), NEW w \in Swap, w.pc = "wait", ~w.new,
           w.overlap = (\E s \in DOMAIN swaps : Live(s)),
           swaps' = Append(m, w), cleared' = cleared, car'.driver = NoDriver
    PROVE  /\ swaps' \in Seq(Swap) /\ OneSwap' /\ ClearedFits'
           /\ \A s \in DOMAIN swaps' : (s \in DOMAIN swaps /\ swaps'[s] = m[s]) \/ swaps'[s] = w
<1> DEFINE n == Len(m)
<1>1. m \in Seq(Swap) /\ n \in Nat /\ DOMAIN m = 1 .. n /\ DOMAIN swaps = 1 .. n
  BY DEF LikeBefore
<1> HIDE DEF n
<1>2. /\ swaps' \in Seq(Swap) /\ DOMAIN swaps' = 1 .. n + 1 /\ swaps'[n + 1] = w
      /\ \A s \in 1 .. n : swaps'[s] = m[s]
  BY <1>1 DEF n
<1>3. \A s \in DOMAIN swaps' : (s \in DOMAIN swaps /\ swaps'[s] = m[s]) \/ (s = n + 1 /\ swaps'[s] = w)
  BY <1>1, <1>2
<1>4. Overlap => Overlap' BY <1>1, <1>2 DEF Overlap, LikeBefore
<1>5. (\E s \in DOMAIN swaps : Live(s)) => Overlap'
  <2>1. n + 1 \in DOMAIN swaps' BY <1>1, <1>2
  <2> QED BY <1>2, <2>1 DEF Overlap
<1>6. ASSUME ~Overlap', NEW s \in DOMAIN swaps', Live(s)' PROVE s = n + 1 /\ swaps'[s] = w
  <2>1. s \in DOMAIN swaps => ~Live(s) BY <1>5, <1>6
  <2> QED BY <1>3, <1>6, <2>1 DEF Live, LikeBefore
<1>7. OneSwap' BY <1>6 DEF OneSwap, Overlap, Live
<1>8. ClearedFits' BY <1>6 DEF ClearedFits, Overlap, Live
<1> QED BY <1>2, <1>3, <1>7, <1>8

\* The driver leaves the car.
LEMMA LeavesKeeps ==
    ASSUME SwapsInv, Seated, NEW swap \in BOOLEAN, Leaves(car.driver, swap)
    PROVE  /\ heap' \in Seq(DriverObject) /\ KeepsPositions(heap, heap') /\ DOMAIN heap' = DOMAIN heap
           /\ conn' \in [Drivers -> Nat] /\ disc' \in [Drivers -> Nat]
           /\ car' \in [driver : Drivers \cup {NoDriver}, at : Positions] /\ car'.driver = NoDriver
           /\ PeopleFit'
<1> DEFINE o == conn[car.driver]
<1>1. /\ car.driver \in Drivers /\ o \in DOMAIN heap /\ o \in Nat /\ heap[o].guid = car.driver
      /\ heap[o] \in DriverObject /\ heap \in Seq(DriverObject) /\ SwapTypes /\ PeopleFit /\ Len(swaps) \in Nat
      /\ \A d \in Drivers : conn[d] # 0 => d = car.driver
  BY SeatedObject DEF SwapsInv, SwapTypes
<1> DEFINE x == [heap[o] EXCEPT !.loaded = FALSE, !.ctx = IF swap THEN Len(swaps) + 1 ELSE @]
<1>2. x \in DriverObject /\ x.guid = heap[o].guid /\ x.pos = heap[o].pos
  <2>1. (IF swap THEN Len(swaps) + 1 ELSE heap[o].ctx) \in Int BY <1>1 DEF DriverObject
  <2> QED BY <1>1, <2>1 DEF DriverObject
<1>3. /\ heap' = [heap EXCEPT ![o] = x] /\ conn' = [conn EXCEPT ![car.driver] = 0]
      /\ disc' = [disc EXCEPT ![car.driver] = IF heap[o].laps THEN o ELSE @]
      /\ car' = [car EXCEPT !.driver = NoDriver]
  BY <1>1 DEF Leaves
<1> HIDE DEF o, x
<1>4. /\ heap' \in Seq(DriverObject) /\ DOMAIN heap' = DOMAIN heap
      /\ \A k \in DOMAIN heap : heap'[k].guid = heap[k].guid /\ heap'[k].pos = heap[k].pos
  <2>1. /\ heap' \in Seq(DriverObject) /\ DOMAIN heap' = DOMAIN heap /\ heap'[o] = x
        /\ \A k \in DOMAIN heap : k # o => heap'[k] = heap[k]
    BY <1>1, <1>2, <1>3
  <2> QED BY <1>2, <2>1
<1>5. conn' \in [Drivers -> Nat] /\ \A d \in Drivers : conn'[d] = 0
  <2>1. conn \in [Drivers -> Nat] BY <1>1 DEF SwapTypes
  <2> QED BY <1>1, <1>3, <2>1
<1>6. disc' \in [Drivers -> Nat] /\ \A d \in Drivers : disc'[d] = disc[d] \/ (d = car.driver /\ disc'[d] = o)
  <2>1. disc \in [Drivers -> Nat] BY <1>1 DEF SwapTypes
  <2> QED BY <1>1, <1>3, <2>1
<1>7. car' \in [driver : Drivers \cup {NoDriver}, at : Positions] /\ car'.driver = NoDriver
  <2>1. car \in [driver : Drivers \cup {NoDriver}, at : Positions] BY <1>1 DEF SwapTypes
  <2> QED BY <1>3, <2>1
<1>8. PeopleFit'
  <2> SUFFICES ASSUME NEW y \in Drivers
               PROVE  /\ disc'[y] # 0 => disc'[y] \in DOMAIN heap' /\ heap'[disc'[y]].guid = y
                      /\ conn'[y] = 0
    BY DEF PeopleFit
  <2>1. disc[y] # 0 => disc[y] \in DOMAIN heap /\ heap[disc[y]].guid = y BY <1>1 DEF PeopleFit
  <2> QED BY <2>1, <1>1, <1>4, <1>5, <1>6
<1>9. KeepsPositions(heap, heap') BY <1>4 DEF KeepsPositions
<1> QED BY <1>4, <1>5, <1>6, <1>7, <1>8, <1>9

LEMMA DisconnectKeeps == ASSUME SwapsInv, OnClientDisconnect PROVE SwapsInv'
<1> DEFINE o == conn[car.driver]
           w == NewSwap(o)
<1>1. Seated /\ Leaves(car.driver, TRUE) /\ swaps' = Append(swaps, w)
  BY DEF OnClientDisconnect
<1>2. count' = count /\ over' = over /\ crashed' = crashed /\ cleared' = cleared
  BY DEF OnClientDisconnect
<1>3. /\ heap' \in Seq(DriverObject) /\ KeepsPositions(heap, heap') /\ DOMAIN heap' = DOMAIN heap
      /\ conn' \in [Drivers -> Nat] /\ disc' \in [Drivers -> Nat]
      /\ car' \in [driver : Drivers \cup {NoDriver}, at : Positions] /\ car'.driver = NoDriver
      /\ PeopleFit'
  BY <1>1, LeavesKeeps
<1>4. o \in DOMAIN heap BY <1>1, SeatedObject
<1> HIDE DEF o
<1>5. /\ w \in Swap /\ w.driver = o /\ w.current = o /\ ~w.new /\ ~w.first /\ w.pc = "wait" /\ w.on # 0
      /\ ~w.earlier /\ w.orphan = over /\ w.overlap = (\E s \in DOMAIN swaps : Live(s))
  BY <1>4, NewSwaps
<1> HIDE DEF w
<1>6. LikeBefore(swaps) BY DEF LikeBefore, SwapsInv, SwapTypes
<1>7. /\ swaps' \in Seq(Swap) /\ OneSwap' /\ ClearedFits'
      /\ \A s \in DOMAIN swaps' : (s \in DOMAIN swaps /\ swaps'[s] = swaps[s]) \/ swaps'[s] = w
  BY <1>1, <1>2, <1>3, <1>5, <1>6, OneMore
<1>8. SwapsFit'
  <2> SUFFICES ASSUME NEW s \in DOMAIN swaps' PROVE SwapOK(swaps'[s], heap', over, crashed)
    BY <1>2 DEF SwapsFit
  <2>1. CASE s \in DOMAIN swaps /\ swaps'[s] = swaps[s]
    BY <2>1, <1>3, SwapParts, StillOK
  <2>2. CASE swaps'[s] = w
    BY <2>2, <1>3, <1>4, <1>5 DEF SwapOK
  <2> QED BY <1>7, <2>1, <2>2
<1>9. SwapTypes' BY <1>2, <1>3, <1>7 DEF SwapTypes, SwapsInv
<1> QED BY <1>3, <1>7, <1>8, <1>9 DEF SwapsInv

\* A list of swaps, element by element.
ListedSwaps(m, n) == n \in Nat /\ m = [i \in 1 .. n |-> m[i]] /\ \A i \in 1 .. n : m[i] \in Swap

LEMMA SwapLists == ASSUME NEW m, NEW n, ListedSwaps(m, n) PROVE m \in Seq(Swap)
<1>1. n \in Nat /\ m = [i \in 1 .. n |-> m[i]] /\ \A i \in 1 .. n : m[i] \in Swap BY DEF ListedSwaps
<1> HIDE DEF Swap
<1>2. m \in [1 .. n -> Swap] BY <1>1
<1> QED BY <1>1, <1>2

\* Steps that keep the swaps in their places; none comes back to life.
SamePlaces ==
    /\ swaps' \in Seq(Swap) /\ DOMAIN swaps' = DOMAIN swaps
    /\ \A s \in DOMAIN swaps : swaps'[s].overlap = swaps[s].overlap /\ (Live(s)' => Live(s))

LEMMA StillOne ==
    ASSUME SwapsInv, SamePlaces
    PROVE  OneSwap' /\ (Overlap' <=> Overlap)
<1>1. Overlap' <=> Overlap BY DEF Overlap, SamePlaces
<1>2. OneSwap' BY <1>1 DEF OneSwap, SamePlaces, SwapsInv
<1> QED BY <1>1, <1>2

LEMMA StillCleared ==
    ASSUME SwapsInv, SamePlaces, cleared' = cleared, car'.driver = NoDriver \/ car'.driver = car.driver,
           \A s \in DOMAIN swaps : Live(s)' => swaps'[s].pc = swaps[s].pc /\ swaps'[s].new = swaps[s].new
    PROVE  ClearedFits'
<1>1. Overlap' <=> Overlap BY StillOne
<1>2. ClearedFits /\ DOMAIN swaps' = DOMAIN swaps BY DEF SwapsInv, SamePlaces
<1> SUFFICES ASSUME ~Overlap, cleared, NEW s \in DOMAIN swaps, Live(s)'
             PROVE  ~swaps'[s].new /\ swaps'[s].pc = "wait" /\ car'.driver = NoDriver
  BY <1>1, <1>2 DEF ClearedFits
<1>3. Live(s) BY DEF SamePlaces
<1> QED BY <1>2, <1>3 DEF ClearedFits

LEMMA StoppedKeeps == ASSUME SwapsInv, NEW runs \in BOOLEAN, OnStopped(runs) PROVE SwapsInv'
<1> DEFINE marked == [s \in DOMAIN swaps |-> Orphan(s, TRUE)]
<1>1. /\ over' = TRUE /\ count' = count /\ crashed' = crashed /\ cleared' = cleared /\ ~crashed
      /\ IF Seated
           THEN /\ Leaves(car.driver, runs)
                /\ swaps' = IF runs
                            THEN Append(marked, [NewSwap(conn[car.driver]) EXCEPT !.orphan = TRUE])
                            ELSE marked
           ELSE swaps' = marked /\ heap' = heap /\ conn' = conn /\ disc' = disc /\ car' = car
  BY DEF OnStopped, Up
<1>2. SwapTypes /\ PeopleFit BY DEF SwapsInv
<1>3. \A s \in DOMAIN swaps : /\ marked[s] \in Swap /\ marked[s].pc = swaps[s].pc /\ marked[s].new = swaps[s].new
                              /\ marked[s].overlap = swaps[s].overlap
                              /\ SwapOK(marked[s], heap, TRUE, crashed)
  <2> SUFFICES ASSUME NEW s \in DOMAIN swaps
               PROVE  /\ marked[s] \in Swap /\ marked[s].pc = swaps[s].pc /\ marked[s].new = swaps[s].new
                      /\ marked[s].overlap = swaps[s].overlap
                      /\ SwapOK(marked[s], heap, TRUE, crashed)
    OBVIOUS
  <2>1. swaps[s] \in Swap /\ SwapOK(swaps[s], heap, over, crashed) BY SwapParts
  <2>2. marked[s] = IF Live(s) THEN [swaps[s] EXCEPT !.orphan = @ \/ TRUE] ELSE swaps[s] BY DEF Orphan
  <2> HIDE DEF marked
  <2>3. CASE Live(s)
    <3>1. marked[s] = [swaps[s] EXCEPT !.orphan = TRUE] BY <2>1, <2>2, <2>3 DEF Swap
    <3>2. /\ marked[s] \in Swap /\ marked[s].pc = swaps[s].pc /\ marked[s].new = swaps[s].new
          /\ marked[s].overlap = swaps[s].overlap /\ marked[s].orphan /\ marked[s].driver = swaps[s].driver
          /\ marked[s].current = swaps[s].current /\ marked[s].first = swaps[s].first
          /\ marked[s].on = swaps[s].on
      BY <3>1, <2>1 DEF Swap
    <3> QED BY <3>2, <2>1 DEF SwapOK
  <2>4. CASE ~Live(s)
    <3>1. marked[s] = swaps[s] BY <2>2, <2>4
    <3> QED BY <3>1, <2>1, <2>4 DEF SwapOK, Live
  <2> QED BY <2>3, <2>4
<1>4. DOMAIN marked = DOMAIN swaps /\ marked \in Seq(Swap)
  <2>1. swaps \in Seq(Swap) BY <1>2 DEF SwapTypes
  <2>2. DOMAIN swaps = 1 .. Len(swaps) /\ Len(swaps) \in Nat BY <2>1
  <2>3. marked = [s \in 1 .. Len(swaps) |-> marked[s]] /\ DOMAIN marked = 1 .. Len(swaps) BY <2>2
  <2> HIDE DEF marked
  <2>4. ListedSwaps(marked, Len(swaps)) BY <1>3, <2>2, <2>3 DEF ListedSwaps
  <2> QED BY <2>2, <2>3, <2>4, SwapLists
<1> HIDE DEF marked
<1>5. LikeBefore(marked) BY <1>3, <1>4 DEF LikeBefore
<1>6. CASE Seated /\ runs
  <2> DEFINE o == conn[car.driver]
             w == [NewSwap(o) EXCEPT !.orphan = TRUE]
  <2>1. Leaves(car.driver, TRUE) /\ swaps' = Append(marked, w) BY <1>1, <1>6
  <2>2. /\ heap' \in Seq(DriverObject) /\ KeepsPositions(heap, heap') /\ DOMAIN heap' = DOMAIN heap
        /\ conn' \in [Drivers -> Nat] /\ disc' \in [Drivers -> Nat]
        /\ car' \in [driver : Drivers \cup {NoDriver}, at : Positions] /\ car'.driver = NoDriver
        /\ PeopleFit'
    BY <1>6, <2>1, LeavesKeeps
  <2>3. o \in DOMAIN heap BY <1>6, SeatedObject
  <2> HIDE DEF o
  <2>4. /\ w \in Swap /\ w.driver = o /\ w.current = o /\ ~w.new /\ ~w.first /\ w.pc = "wait" /\ w.on # 0
        /\ ~w.earlier /\ w.orphan /\ w.overlap = (\E s \in DOMAIN swaps : Live(s))
    <3> DEFINE v == NewSwap(o)
    <3>1. /\ v \in Swap /\ w \in Swap /\ v.driver = o /\ v.current = o /\ ~v.new /\ ~v.first /\ v.pc = "wait"
          /\ v.on # 0 /\ ~v.earlier /\ v.overlap = (\E s \in DOMAIN swaps : Live(s))
      BY <2>3, NewSwaps
    <3>2. w = [v EXCEPT !.orphan = TRUE] OBVIOUS
    <3> HIDE DEF v, w
    <3> QED BY <3>1, <3>2 DEF Swap
  <2> HIDE DEF w
  <2>5. /\ swaps' \in Seq(Swap) /\ OneSwap' /\ ClearedFits'
        /\ \A s \in DOMAIN swaps' : (s \in DOMAIN swaps /\ swaps'[s] = marked[s]) \/ swaps'[s] = w
    BY <1>1, <1>5, <2>1, <2>2, <2>4, OneMore
  <2>6. SwapsFit'
    <3> SUFFICES ASSUME NEW s \in DOMAIN swaps' PROVE SwapOK(swaps'[s], heap', TRUE, crashed)
      BY <1>1 DEF SwapsFit
    <3>1. CASE s \in DOMAIN swaps /\ swaps'[s] = marked[s]
      BY <3>1, <1>3, <2>2, StillOK
    <3>2. CASE swaps'[s] = w
      BY <3>2, <2>2, <2>3, <2>4 DEF SwapOK
    <3> QED BY <2>5, <3>1, <3>2
  <2>7. SwapTypes' BY <1>1, <1>2, <2>2, <2>5 DEF SwapTypes
  <2> QED BY <2>2, <2>5, <2>6, <2>7 DEF SwapsInv
<1>7. CASE ~(Seated /\ runs)
  <2>1. swaps' = marked BY <1>1, <1>7
  <2>2. /\ heap' \in Seq(DriverObject) /\ KeepsPositions(heap, heap')
        /\ conn' \in [Drivers -> Nat] /\ disc' \in [Drivers -> Nat]
        /\ car' \in [driver : Drivers \cup {NoDriver}, at : Positions]
        /\ (car'.driver = NoDriver \/ car'.driver = car.driver)
        /\ PeopleFit'
    <3>1. CASE Seated
      <4>1. Leaves(car.driver, runs) BY <1>1, <3>1
      <4> QED BY <3>1, <4>1, LeavesKeeps
    <3>2. CASE ~Seated
      <4>1. heap' = heap /\ conn' = conn /\ disc' = disc /\ car' = car BY <1>1, <3>2
      <4>2. PeopleFit' BY <4>1, <1>2 DEF PeopleFit
      <4> QED BY <4>1, <4>2, <1>2 DEF KeepsPositions, SwapTypes
    <3> QED BY <3>1, <3>2
  <2>3. SamePlaces BY <2>1, <1>3, <1>4 DEF SamePlaces, Live
  <2>4. OneSwap' BY <2>3, StillOne
  <2>5. ClearedFits' BY <1>1, <1>3, <2>1, <2>2, <2>3, StillCleared
  <2>6. SwapsFit'
    <3> SUFFICES ASSUME NEW s \in DOMAIN swaps PROVE SwapOK(marked[s], heap', TRUE, crashed)
      BY <1>1, <1>4, <2>1 DEF SwapsFit
    <3> QED BY <1>3, <2>2, StillOK
  <2>7. SwapTypes' BY <1>1, <1>2, <1>4, <2>1, <2>2 DEF SwapTypes
  <2> QED BY <2>2, <2>4, <2>5, <2>6, <2>7 DEF SwapsInv
<1> QED BY <1>6, <1>7

LEMMA EndSessionKeeps == ASSUME SwapsInv, OnEndSession PROVE SwapsInv'
<1>1. /\ over' = TRUE /\ ~crashed /\ crashed' = crashed /\ count' = count /\ cleared' = cleared
      /\ conn' = conn /\ disc' = disc /\ car' = car
      /\ heap' = [o \in DOMAIN heap |-> IF heap[o].ctx \in Cancels THEN [heap[o] EXCEPT !.ctx = Cancelled] ELSE heap[o]]
      /\ swaps' = [s \in DOMAIN swaps |->
                     IF s \in Waiting /\ swaps[s].on \in Cancels THEN Returned(swaps[s])
                     ELSE Orphan(s, Unreached(s))]
  BY DEF OnEndSession, Up, people
<1>2. SwapTypes /\ PeopleFit BY DEF SwapsInv
<1>3. /\ DOMAIN heap' = DOMAIN heap /\ heap' \in Seq(DriverObject)
      /\ \A o \in DOMAIN heap : heap'[o].guid = heap[o].guid /\ heap'[o].pos = heap[o].pos /\ heap'[o].old = heap[o].old
  <2>1. DOMAIN heap' = DOMAIN heap BY <1>1
  <2>2. ASSUME NEW o \in DOMAIN heap
        PROVE  /\ heap'[o] \in DriverObject /\ heap'[o].guid = heap[o].guid /\ heap'[o].pos = heap[o].pos
               /\ heap'[o].old = heap[o].old
    <3>1. heap[o] \in DriverObject BY <1>2 DEF SwapTypes
    <3>2. heap'[o] = heap[o] \/ heap'[o] = [heap[o] EXCEPT !.ctx = Cancelled] BY <1>1
    <3>3. Cancelled \in Int BY DEF Cancelled
    <3> QED BY <3>1, <3>2, <3>3 DEF DriverObject
  <2>3. heap' \in Seq(DriverObject)
    <3>1. DOMAIN heap = 1 .. Len(heap) /\ Len(heap) \in Nat BY <1>2 DEF SwapTypes
    <3>2. heap' = [o \in 1 .. Len(heap) |-> heap'[o]] BY <1>1, <3>1
    <3> QED BY <2>2, <3>1, <3>2
  <2> QED BY <2>1, <2>2, <2>3
<1>4. DOMAIN swaps' = DOMAIN swaps BY <1>1
<1>5. ASSUME NEW s \in DOMAIN swaps
      PROVE  /\ swaps'[s] \in Swap /\ swaps'[s].overlap = swaps[s].overlap
             /\ swaps'[s].pc # "done" => swaps'[s].pc = swaps[s].pc /\ swaps'[s].new = swaps[s].new
             /\ SwapOK(swaps'[s], heap', TRUE, crashed)
  <2> DEFINE w == swaps[s]
  <2>1. w \in Swap /\ SwapOK(w, heap, over, crashed) BY SwapParts
  <2>2. CASE s \in Waiting /\ w.on \in Cancels
    <3>1. swaps'[s] = Returned(w) BY <1>1, <2>2
    <3>2. Returned(w) \in Swap /\ Returned(w).overlap = w.overlap /\ Returned(w).pc = "done"
      BY <2>1 DEF Returned, Swap
    <3> QED BY <3>1, <3>2 DEF SwapOK
  <2>3. CASE ~(s \in Waiting /\ w.on \in Cancels)
    <3>1. swaps'[s] = Orphan(s, Unreached(s)) BY <1>1, <2>3
    <3>2. CASE Live(s)
      <4>1. Unreached(s)
        <5> SUFFICES ASSUME w.driver \in InTables, Context(s) = w.on, w.pc # "kicking" PROVE FALSE
          BY DEF Unreached
        <5>1. w.pc = "wait" /\ s \in Waiting BY <2>1, <3>2 DEF Swap, Live, Waiting
        <5>2. w.on # 0 BY <2>1, <5>1, <1>1 DEF SwapOK
        <5>3. w.on \in Cancels BY <5>2 DEF Cancels, Context
        <5> QED BY <2>3, <5>1, <5>3
      <4>2. swaps'[s] = [w EXCEPT !.orphan = TRUE] BY <2>1, <3>1, <3>2, <4>1 DEF Orphan, Swap
      <4> HIDE DEF w
      <4>3. /\ swaps'[s] \in Swap /\ swaps'[s].pc = w.pc /\ swaps'[s].new = w.new
            /\ swaps'[s].overlap = w.overlap /\ swaps'[s].orphan /\ swaps'[s].driver = w.driver
            /\ swaps'[s].current = w.current /\ swaps'[s].first = w.first /\ swaps'[s].on = w.on
        BY <4>2, <2>1 DEF Swap
      <4>4. SwapOK(swaps'[s], heap', TRUE, crashed) BY <4>3, <2>1, <1>3 DEF SwapOK
      <4> QED BY <4>3, <4>4 DEF w
    <3>3. CASE ~Live(s)
      <4>1. swaps'[s] = w BY <3>1, <3>3 DEF Orphan
      <4> QED BY <4>1, <2>1, <3>3 DEF SwapOK, Live
    <3> QED BY <3>2, <3>3
  <2> QED BY <2>2, <2>3
<1>6. swaps' \in Seq(Swap)
  <2>1. DOMAIN swaps = 1 .. Len(swaps) /\ Len(swaps) \in Nat BY <1>2 DEF SwapTypes
  <2>2. swaps' = [s \in 1 .. Len(swaps) |-> swaps'[s]] BY <1>1, <2>1
  <2>3. ListedSwaps(swaps', Len(swaps)) BY <1>5, <2>1, <2>2 DEF ListedSwaps
  <2> QED BY <2>3, SwapLists
<1>7. SamePlaces BY <1>4, <1>5, <1>6 DEF SamePlaces, Live
<1>8. OneSwap' BY <1>7, StillOne
<1>9. ClearedFits' BY <1>1, <1>5, <1>7, StillCleared DEF Live
<1>10. SwapsFit' BY <1>1, <1>4, <1>5 DEF SwapsFit
<1>11. PeopleFit' BY <1>1, <1>2, <1>3 DEF PeopleFit
<1>12. SwapTypes' BY <1>1, <1>2, <1>3, <1>6 DEF SwapTypes
<1> QED BY <1>8, <1>9, <1>10, <1>11, <1>12 DEF SwapsInv

\* A table of objects, element by element.
ListedObjects(h, n) == n \in Nat /\ h = [i \in 1 .. n |-> h[i]] /\ \A i \in 1 .. n : h[i] \in DriverObject

LEMMA ObjectLists == ASSUME NEW h, NEW n, ListedObjects(h, n) PROVE h \in Seq(DriverObject)
<1>1. n \in Nat /\ h = [i \in 1 .. n |-> h[i]] /\ \A i \in 1 .. n : h[i] \in DriverObject BY DEF ListedObjects
<1> HIDE DEF DriverObject
<1>2. h \in [1 .. n -> DriverObject] BY <1>1
<1> QED BY <1>1, <1>2

LEMMA NewSessionKeeps == ASSUME SwapsInv, OnNewSession PROVE SwapsInv'
<1>1. /\ over = TRUE /\ over' = FALSE /\ ~crashed /\ crashed' = crashed /\ count' = count /\ cleared' = cleared
      /\ conn' = conn /\ car' = car /\ disc' = [d \in Drivers |-> 0]
      /\ heap' = [o \in DOMAIN heap |-> IF o \in InCar THEN NewObject(heap[o].guid) ELSE Collected(o)]
      /\ swaps' = [s \in DOMAIN swaps |-> [swaps[s] EXCEPT !.earlier = Live(s)]]
  BY DEF OnNewSession, Up, SwapsInv, SwapTypes
<1>2. SwapTypes /\ PeopleFit BY DEF SwapsInv
<1>3. /\ DOMAIN heap' = DOMAIN heap
      /\ \A o \in DOMAIN heap : /\ heap'[o] \in DriverObject /\ heap'[o].guid = heap[o].guid
                                /\ o \in InCar => heap'[o].pos = Zero
  <2> SUFFICES ASSUME NEW o \in DOMAIN heap
               PROVE  /\ heap'[o] \in DriverObject /\ heap'[o].guid = heap[o].guid
                      /\ o \in InCar => heap'[o].pos = Zero
    BY <1>1
  <2>1. heap[o] \in DriverObject /\ heap[o].guid \in Drivers
    <3>1. heap[o] \in DriverObject BY <1>2 DEF SwapTypes
    <3> QED BY <3>1 DEF DriverObject
  <2>2. heap'[o] = IF o \in InCar THEN NewObject(heap[o].guid) ELSE Collected(o) BY <1>1
  <2>3. Collected(o) = heap[o] \/ Collected(o) = NewObject(heap[o].guid) BY DEF Collected
  <2> QED BY <2>1, <2>2, <2>3, NewObjects
<1>4. heap' \in Seq(DriverObject)
  <2>1. DOMAIN heap = 1 .. Len(heap) /\ Len(heap) \in Nat BY <1>2 DEF SwapTypes
  <2>2. heap' = [o \in 1 .. Len(heap) |-> heap'[o]] BY <1>1, <2>1
  <2>3. ListedObjects(heap', Len(heap)) BY <1>3, <2>1, <2>2 DEF ListedObjects
  <2> QED BY <2>3, ObjectLists
<1>5. DOMAIN swaps' = DOMAIN swaps BY <1>1
<1>6. ASSUME NEW s \in DOMAIN swaps
      PROVE  /\ swaps'[s] \in Swap /\ swaps'[s].overlap = swaps[s].overlap
             /\ swaps'[s].pc = swaps[s].pc /\ swaps'[s].new = swaps[s].new
             /\ SwapOK(swaps'[s], heap', FALSE, crashed)
  <2> DEFINE w == swaps[s]
  <2>1. w \in Swap /\ SwapOK(w, heap, TRUE, crashed) BY SwapParts, <1>1
  <2>2. Live(s) \in BOOLEAN BY DEF Live
  <2>3. swaps'[s] = [w EXCEPT !.earlier = Live(s)] BY <1>1
  <2> HIDE DEF w
  <2>4. /\ swaps'[s] \in Swap /\ swaps'[s].pc = w.pc /\ swaps'[s].new = w.new
        /\ swaps'[s].overlap = w.overlap /\ swaps'[s].orphan = w.orphan /\ swaps'[s].driver = w.driver
        /\ swaps'[s].current = w.current /\ swaps'[s].first = w.first /\ swaps'[s].on = w.on
        /\ swaps'[s].blind = w.blind
    BY <2>1, <2>2, <2>3 DEF Swap
  <2>5. SwapOK(swaps'[s], heap', FALSE, crashed) BY <2>4, <2>1, <1>3 DEF SwapOK
  <2> QED BY <2>4, <2>5 DEF w
<1>7. swaps' \in Seq(Swap)
  <2>1. DOMAIN swaps = 1 .. Len(swaps) /\ Len(swaps) \in Nat BY <1>2 DEF SwapTypes
  <2>2. swaps' = [s \in 1 .. Len(swaps) |-> swaps'[s]] BY <1>1, <2>1
  <2>3. ListedSwaps(swaps', Len(swaps)) BY <1>6, <2>1, <2>2 DEF ListedSwaps
  <2> QED BY <2>3, SwapLists
<1>8. SamePlaces BY <1>5, <1>6, <1>7 DEF SamePlaces, Live
<1>9. OneSwap' BY <1>8, StillOne
<1>10. ClearedFits' BY <1>1, <1>6, <1>8, StillCleared DEF Live
<1>11. SwapsFit' BY <1>1, <1>5, <1>6 DEF SwapsFit
<1>12. PeopleFit'
  <2> SUFFICES ASSUME NEW d \in Drivers, conn[d] # 0
               PROVE  /\ car.driver = d /\ conn[d] \in DOMAIN heap' /\ heap'[conn[d]].guid = d
                      /\ heap'[conn[d]].pos = Zero
    BY <1>1 DEF PeopleFit
  <2>1. car.driver = d /\ conn[d] \in DOMAIN heap /\ heap[conn[d]].guid = d BY <1>2 DEF PeopleFit
  <2>2. conn[d] \in InCar BY DEF InCar
  <2> QED BY <2>1, <2>2, <1>3
<1>13. SwapTypes' BY <1>1, <1>2, <1>4, <1>7 DEF SwapTypes
<1> QED BY <1>9, <1>10, <1>11, <1>12, <1>13 DEF SwapsInv

\* A swap that waits again does so on the context it finds, or has returned.
LEMMA WaitsAgain ==
    ASSUME SwapsInv, NEW s \in DOMAIN swaps, Live(s), NEW w \in Swap, w.driver = swaps[s].driver
    PROVE  /\ Context(s) \in Int /\ Rewaits(s, w) \in Swap /\ Rewaits(s, w).overlap = w.overlap
           /\ Rewaits(s, w).pc # "done" =>
                 /\ Rewaits(s, w).pc = w.pc /\ Rewaits(s, w).new = w.new /\ Rewaits(s, w).first = w.first
                 /\ Rewaits(s, w).driver = w.driver /\ Rewaits(s, w).current = w.current
                 /\ Rewaits(s, w).orphan = w.orphan /\ Rewaits(s, w).blind = w.blind
                 /\ Rewaits(s, w).earlier = w.earlier
           /\ Rewaits(s, w).pc = "wait" => Rewaits(s, w).on = Context(s)
<1>1. Context(s) \in Int
  <2>1. swaps[s].driver \in DOMAIN heap BY SwapParts DEF SwapOK, Live
  <2>2. heap[swaps[s].driver] \in DriverObject BY <2>1 DEF SwapsInv, SwapTypes
  <2> QED BY <2>2 DEF DriverObject, Context
<1> DEFINE c == Context(s)
<1>2. Rewaits(s, w) = IF w.pc # "wait" THEN w ELSE IF c = Cancelled THEN Returned(w) ELSE [w EXCEPT !.on = c]
  BY DEF Rewaits
<1> HIDE DEF c
<1>3. CASE w.pc # "wait" BY <1>1, <1>2, <1>3
<1>4. CASE w.pc = "wait" /\ c = Cancelled
  <2>1. Rewaits(s, w) = Returned(w) BY <1>2, <1>4
  <2>2. Returned(w) \in Swap /\ Returned(w).overlap = w.overlap /\ Returned(w).pc = "done"
    BY DEF Returned, Swap
  <2> QED BY <2>1, <2>2, <1>1
<1>5. CASE w.pc = "wait" /\ c # Cancelled
  <2>1. Rewaits(s, w) = [w EXCEPT !.on = c] BY <1>2, <1>5
  <2>2. c \in Int BY <1>1 DEF c
  <2> DEFINE x == [w EXCEPT !.on = c]
  <2>3. /\ x \in Swap /\ x.overlap = w.overlap /\ x.pc = w.pc /\ x.new = w.new /\ x.first = w.first
        /\ x.driver = w.driver /\ x.current = w.current /\ x.orphan = w.orphan /\ x.blind = w.blind
        /\ x.earlier = w.earlier /\ x.on = c
    BY <2>2 DEF Swap
  <2> HIDE DEF x
  <2>4. Rewaits(s, w) = x BY <2>1 DEF x
  <2> QED BY <2>3, <2>4, <1>1 DEF c
<1> QED BY <1>3, <1>4, <1>5

LEMMA KickKeeps == ASSUME SwapsInv, NEW k \in DOMAIN swaps, Kick(k) PROVE SwapsInv'
<1> DEFINE v == swaps[k]
           w == [v EXCEPT !.pc = "wait", !.first = FALSE, !.new = FALSE, !.resume = TRUE, !.blind = FALSE]
           b == Blinded(k)
<1>1. /\ ~crashed /\ v.pc = "kicking" /\ swaps' = [b EXCEPT ![k] = Rewaits(k, w)]
      /\ crashed' = (Context(k) = 0) /\ heap' = [heap EXCEPT ![v.current].pos = Zero]
      /\ conn' = conn /\ disc' = disc /\ car' = car /\ over' = over /\ count' = count /\ cleared' = cleared
  BY DEF Kick, Up, people
<1>2. SwapTypes /\ PeopleFit BY DEF SwapsInv
<1>3. v \in Swap /\ SwapOK(v, heap, over, crashed) /\ Live(k) BY <1>1, SwapParts DEF Live
<1>4. v.current \in DOMAIN heap /\ v.driver \in DOMAIN heap BY <1>1, <1>3 DEF SwapOK
<1>5. /\ heap' \in Seq(DriverObject) /\ DOMAIN heap' = DOMAIN heap
      /\ \A o \in DOMAIN heap : heap'[o].guid = heap[o].guid /\ heap'[o].old = heap[o].old
      /\ heap'[v.current].pos = Zero
      /\ \A o \in DOMAIN heap : o # v.current => heap'[o] = heap[o]
  <2> DEFINE c == v.current
             x == [heap[c] EXCEPT !.pos = Zero]
  <2>1. heap \in Seq(DriverObject) /\ heap[c] \in DriverObject /\ c \in DOMAIN heap BY <1>2, <1>4 DEF SwapTypes
  <2>2. x \in DriverObject /\ x.guid = heap[c].guid /\ x.old = heap[c].old /\ x.pos = Zero BY <2>1 DEF DriverObject
  <2>3. heap' = [heap EXCEPT ![c] = x] BY <1>1
  <2> HIDE DEF x, c
  <2>4. /\ heap' \in Seq(DriverObject) /\ DOMAIN heap' = DOMAIN heap /\ heap'[c] = x
        /\ \A o \in DOMAIN heap : o # c => heap'[o] = heap[o]
    BY <2>1, <2>2, <2>3
  <2> QED BY <2>2, <2>4 DEF c
<1>6. /\ w \in Swap /\ w.overlap = v.overlap /\ w.pc = "wait" /\ ~w.new /\ ~w.first /\ w.driver = v.driver
      /\ w.current = v.current /\ w.orphan = v.orphan /\ w.earlier = v.earlier
  BY <1>3 DEF Swap
<1>7. DOMAIN b = DOMAIN swaps /\ DOMAIN swaps' = DOMAIN swaps BY <1>1 DEF Blinded
<1>8. ASSUME NEW r \in DOMAIN swaps
      PROVE  /\ b[r] \in Swap /\ b[r].overlap = swaps[r].overlap /\ b[r].pc = swaps[r].pc
             /\ b[r].new = swaps[r].new /\ SwapOK(b[r], heap', over, crashed)
  <2> DEFINE u == swaps[r]
  <2>1. u \in Swap /\ SwapOK(u, heap, over, crashed) BY SwapParts
  <2>2. b[r] = IF u.first /\ u.current = v.current THEN [u EXCEPT !.blind = TRUE] ELSE u BY DEF Blinded
  <2> HIDE DEF u, b
  <2>3. CASE u.first /\ u.current = v.current
    <3>1. /\ b[r] \in Swap /\ b[r].overlap = u.overlap /\ b[r].pc = u.pc /\ b[r].new = u.new /\ b[r].blind
          /\ b[r].driver = u.driver /\ b[r].current = u.current /\ b[r].first = u.first /\ b[r].on = u.on
          /\ b[r].orphan = u.orphan /\ b[r].earlier = u.earlier
      BY <2>1, <2>2, <2>3 DEF Swap
    <3>2. SwapOK(b[r], heap', over, crashed) BY <3>1, <2>1, <1>5 DEF SwapOK
    <3> QED BY <3>1, <3>2 DEF u
  <2>4. CASE ~(u.first /\ u.current = v.current)
    <3>1. b[r] = u BY <2>2, <2>4
    <3>2. SwapOK(u, heap', over, crashed) BY <2>1, <2>4, <1>5 DEF SwapOK
    <3> QED BY <2>1, <3>1, <3>2 DEF u
  <2> QED BY <2>3, <2>4
<1> HIDE DEF w, b
<1>9. /\ Context(k) \in Int /\ Rewaits(k, w) \in Swap /\ Rewaits(k, w).overlap = v.overlap
      /\ SwapOK(Rewaits(k, w), heap', over, crashed')
  <2> DEFINE z == Rewaits(k, w)
  <2>1. /\ Context(k) \in Int /\ z \in Swap /\ z.overlap = w.overlap
        /\ z.pc # "done" =>
                 /\ z.pc = w.pc /\ z.new = w.new /\ z.first = w.first
                 /\ z.driver = w.driver /\ z.current = w.current
                 /\ z.orphan = w.orphan /\ z.blind = w.blind
                 /\ z.earlier = w.earlier
        /\ z.pc = "wait" => z.on = Context(k)
    BY <1>3, <1>6, WaitsAgain
  <2> HIDE DEF z
  <2>2. over \/ v.earlier => v.orphan BY <1>1, <1>3 DEF SwapOK
  <2>3. SwapOK(z, heap', over, crashed') BY <2>1, <2>2, <1>1, <1>4, <1>5, <1>6 DEF SwapOK
  <2> QED BY <2>1, <2>3, <1>6 DEF z
<1>10. /\ swaps'[k] = Rewaits(k, w) /\ \A r \in DOMAIN swaps : r # k => swaps'[r] = b[r]
  BY <1>1, <1>7
<1>11. \A r \in DOMAIN swaps : swaps'[r] \in Swap /\ swaps'[r].overlap = swaps[r].overlap
                               /\ SwapOK(swaps'[r], heap', over, crashed')
  <2> SUFFICES ASSUME NEW r \in DOMAIN swaps
               PROVE  swaps'[r] \in Swap /\ swaps'[r].overlap = swaps[r].overlap
                      /\ SwapOK(swaps'[r], heap', over, crashed')
    OBVIOUS
  <2>1. CASE r = k BY <2>1, <1>9, <1>10
  <2>2. CASE r # k
    <3>1. swaps'[r] = b[r] BY <2>2, <1>10
    <3>2. SwapOK(b[r], heap', over, crashed') BY <1>1, <1>8 DEF SwapOK
    <3> QED BY <3>1, <3>2, <1>8
  <2> QED BY <2>1, <2>2
<1>12. swaps' \in Seq(Swap)
  <2>1. DOMAIN swaps = 1 .. Len(swaps) /\ Len(swaps) \in Nat BY <1>2 DEF SwapTypes
  <2>2. b = [r \in 1 .. Len(swaps) |-> b[r]] BY <2>1 DEF b, Blinded
  <2>3. swaps' = [r \in 1 .. Len(swaps) |-> swaps'[r]] BY <1>1, <2>1, <2>2
  <2>4. ListedSwaps(swaps', Len(swaps)) BY <1>11, <2>1, <2>3 DEF ListedSwaps
  <2> QED BY <2>4, SwapLists
<1>13. SamePlaces BY <1>3, <1>7, <1>8, <1>10, <1>11, <1>12 DEF SamePlaces, Live
<1>14. OneSwap' BY <1>13, StillOne
<1>15. ClearedFits'
  <2>1. Overlap \/ ~cleared BY <1>1, <1>3 DEF SwapsInv, ClearedFits
  <2>2. Overlap' <=> Overlap BY <1>13, StillOne
  <2> QED BY <2>1, <2>2, <1>1 DEF ClearedFits
<1>16. SwapsFit' BY <1>1, <1>7, <1>11 DEF SwapsFit
<1>17. PeopleFit'
  <2> SUFFICES ASSUME NEW d \in Drivers
               PROVE  /\ disc[d] # 0 => disc[d] \in DOMAIN heap' /\ heap'[disc[d]].guid = d
                      /\ conn[d] # 0 =>
                            /\ car.driver = d
                            /\ conn[d] \in DOMAIN heap' /\ heap'[conn[d]].guid = d
                            /\ heap'[conn[d]].old \/ heap'[conn[d]].pos \in {Zero, car.at}
    BY <1>1 DEF PeopleFit
  <2>1. /\ disc[d] # 0 => disc[d] \in DOMAIN heap /\ heap[disc[d]].guid = d
        /\ conn[d] # 0 =>
              /\ car.driver = d
              /\ conn[d] \in DOMAIN heap /\ heap[conn[d]].guid = d
              /\ heap[conn[d]].old \/ heap[conn[d]].pos \in {Zero, car.at}
    BY <1>2 DEF PeopleFit
  <2> HIDE DEF v
  <2>2. CASE conn[d] = v.current BY <2>1, <2>2, <1>5
  <2>3. CASE conn[d] # v.current BY <2>1, <2>3, <1>5
  <2> QED BY <2>2, <2>3
<1>18. SwapTypes'
  <2>1. crashed' \in BOOLEAN BY <1>1
  <2> QED BY <1>1, <1>2, <1>5, <1>12, <2>1 DEF SwapTypes
<1> QED BY <1>14, <1>15, <1>16, <1>17, <1>18 DEF SwapsInv

\* What a tick leaves of a swap that goes on.
GoesOn(a, u) ==
    /\ a.driver = u.driver /\ a.current \in DOMAIN heap
    /\ a.orphan = u.orphan /\ a.blind = u.blind /\ a.earlier = u.earlier
    /\ ~a.new => ~a.first
    /\ a.first => a.blind \/ a.orphan \/ heap[a.current].pos # Zero
    /\ a.pc \in {"wait", "kicking"}

LEMMA TickedSwap ==
    ASSUME SwapsInv, NEW s \in DOMAIN swaps, swaps[s].pc = "wait"
    PROVE  /\ Ticked(s) \in Swap /\ Ticked(s).driver = swaps[s].driver /\ Ticked(s).current = swaps[s].current
           /\ Ticked(s).overlap = swaps[s].overlap /\ Ticked(s).new = swaps[s].new /\ Ticked(s).first = swaps[s].first
           /\ Ticked(s).orphan = swaps[s].orphan /\ Ticked(s).blind = swaps[s].blind
           /\ Ticked(s).earlier = swaps[s].earlier /\ Ticked(s).pc = "wait" /\ Ticked(s).pos = swaps[s].pos
           /\ GoesOn(Ticked(s), Ticked(s))
<1>1. swaps[s] \in Swap /\ SwapOK(swaps[s], heap, over, crashed) BY SwapParts
<1> DEFINE v == swaps[s]
           u == [v EXCEPT !.t = @ + 1]
<1>2. Ticked(s) = u BY DEF Ticked
<1> HIDE DEF v
<1>3. v \in Swap /\ SwapOK(v, heap, over, crashed) /\ v.pc = "wait" BY <1>1 DEF v
<1>4. v.t + 1 \in Nat BY <1>3 DEF Swap
<1>5. /\ u \in Swap /\ u.driver = v.driver /\ u.current = v.current /\ u.overlap = v.overlap /\ u.new = v.new
      /\ u.first = v.first /\ u.orphan = v.orphan /\ u.blind = v.blind /\ u.earlier = v.earlier /\ u.pc = v.pc
      /\ u.pos = v.pos
  BY <1>3, <1>4 DEF Swap
<1> HIDE DEF u
<1>6. GoesOn(u, u) BY <1>3, <1>5 DEF GoesOn, SwapOK
<1> QED BY <1>2, <1>3, <1>5, <1>6 DEF v

LEMMA ReturnedSwap == ASSUME NEW w \in Swap PROVE Returned(w) \in Swap /\ Returned(w).overlap = w.overlap /\ Returned(w).pc = "done"
BY DEF Returned, Swap

LEMMA TickLooks ==
    ASSUME SwapsInv, NEW u \in Swap, GoesOn(u, u), u.pc = "wait", ~u.new, NEW a, a = LookForDriver(u)
    PROVE  /\ a \in Swap /\ a.overlap = u.overlap /\ a.pc # "kicking" /\ (InCar = {} => a = u)
           /\ a.pc # "done" => GoesOn(a, u)
<1> DEFINE o == CHOOSE x \in InCar : TRUE
           same == heap[o].guid = heap[u.current].guid
<1>1. a = IF InCar = {} THEN u
          ELSE IF same /\ ~u.resume THEN Returned(u)
          ELSE IF ~same /\ ~heap[o].loaded THEN u
          ELSE [u EXCEPT !.current = o, !.new = TRUE, !.resume = IF same THEN FALSE ELSE @]
  BY DEF LookForDriver
<1>2. InCar # {} => o \in InCar OBVIOUS
<1> HIDE DEF o, same
<1>3. InCar # {} => o \in DOMAIN heap /\ o \in Nat
  <2>1. \A x \in InCar : x \in DOMAIN heap /\ x \in Nat BY DEF SwapsInv, PeopleFit, SwapTypes, InCar
  <2> QED BY <1>2, <2>1
<1>4. CASE a = u BY <1>4
<1>5. CASE InCar # {} /\ a = Returned(u) BY <1>5, ReturnedSwap
<1>6. CASE InCar # {} /\ a = [u EXCEPT !.current = o, !.new = TRUE, !.resume = IF same THEN FALSE ELSE @]
  <2>1. o \in Nat /\ o \in DOMAIN heap BY <1>3, <1>6
  <2>2. (IF same THEN FALSE ELSE u.resume) \in BOOLEAN BY DEF Swap
  <2>3. /\ a \in Swap /\ a.overlap = u.overlap /\ a.pc = u.pc /\ a.driver = u.driver /\ a.current = o
        /\ a.new /\ a.first = u.first /\ a.orphan = u.orphan /\ a.blind = u.blind /\ a.earlier = u.earlier
    BY <1>6, <2>1, <2>2 DEF Swap
  <2>4. ~u.first BY DEF GoesOn
  <2>5. GoesOn(a, u) BY <2>1, <2>3, <2>4 DEF GoesOn
  <2> QED BY <1>6, <2>3, <2>5
<1> QED BY <1>1, <1>4, <1>5, <1>6

LEMMA TickDrives ==
    ASSUME SwapsInv, NEW u \in Swap, GoesOn(u, u), u.pc = "wait", u.new, NEW a, a = AfterTick(u)
    PROVE  /\ a \in Swap /\ a.overlap = u.overlap /\ (a.pc = "kicking" => Kicks(u))
           /\ (Clear(u) => a.pc = "done")
           /\ a.pc # "done" => GoesOn(a, u)
<1>1. a = IF Clear(u) \/ Penalises(u) THEN Returned(u)
          ELSE IF Kicks(u) THEN [u EXCEPT !.pc = "kicking", !.first = TRUE]
          ELSE [u EXCEPT !.first = FirstUpdate(u)]
  BY DEF AfterTick
<1>2. /\ u.current \in DOMAIN heap
      /\ FirstUpdate(u) => u.blind \/ u.orphan \/ heap[u.current].pos # Zero
      /\ FirstUpdate(u) \in BOOLEAN
  BY DEF GoesOn, FirstUpdate, Swap
<1>3. CASE Clear(u) \/ Penalises(u) BY <1>1, <1>3, ReturnedSwap
<1>4. CASE ~(Clear(u) \/ Penalises(u)) /\ Kicks(u)
  <2>1. a = [u EXCEPT !.pc = "kicking", !.first = TRUE] BY <1>1, <1>4
  <2>2. FirstUpdate(u) BY <1>4 DEF Kicks, Moved
  <2>3. /\ a \in Swap /\ a.overlap = u.overlap /\ a.pc = "kicking" /\ a.driver = u.driver /\ a.current = u.current
        /\ a.new = u.new /\ a.first /\ a.orphan = u.orphan /\ a.blind = u.blind /\ a.earlier = u.earlier
    BY <2>1 DEF Swap
  <2>4. GoesOn(a, u) BY <1>2, <2>2, <2>3 DEF GoesOn
  <2> QED BY <1>4, <2>3, <2>4
<1>5. CASE ~(Clear(u) \/ Penalises(u)) /\ ~Kicks(u)
  <2> DEFINE f == FirstUpdate(u)
  <2>1. a = [u EXCEPT !.first = f] BY <1>1, <1>5
  <2>2. f \in BOOLEAN BY <1>2
  <2>3. f => u.blind \/ u.orphan \/ heap[u.current].pos # Zero BY <1>2
  <2> HIDE DEF f
  <2>4. /\ a \in Swap /\ a.overlap = u.overlap /\ a.pc = u.pc /\ a.driver = u.driver /\ a.current = u.current
        /\ a.new = u.new /\ a.first = f /\ a.orphan = u.orphan /\ a.blind = u.blind /\ a.earlier = u.earlier
    BY <2>1, <2>2 DEF Swap
  <2>5. GoesOn(a, u) BY <1>2, <2>3, <2>4 DEF GoesOn
  <2> QED BY <1>5, <2>4, <2>5
<1> QED BY <1>3, <1>4, <1>5

LEMMA SwapTicks ==
    ASSUME SwapsInv, NEW s \in Waiting
    PROVE  /\ s \in DOMAIN swaps /\ AfterTick(Ticked(s)) \in Swap
           /\ AfterTick(Ticked(s)).overlap = swaps[s].overlap
           /\ AfterTick(Ticked(s)).pc = "kicking" => Kicks(Ticked(s))
           /\ Clear(Ticked(s)) => AfterTick(Ticked(s)).pc = "done"
           /\ AfterTick(Ticked(s)).pc # "done" => GoesOn(AfterTick(Ticked(s)), Ticked(s))
           /\ InCar = {} /\ ~swaps[s].new /\ AfterTick(Ticked(s)).pc # "done" =>
                 ~AfterTick(Ticked(s)).new /\ AfterTick(Ticked(s)).pc = "wait"
<1> DEFINE u == Ticked(s)
           a == AfterTick(u)
<1>1. s \in DOMAIN swaps /\ swaps[s].pc = "wait" BY DEF Waiting
<1>2. u \in Swap /\ u.new = swaps[s].new /\ u.overlap = swaps[s].overlap /\ u.pc = "wait" /\ GoesOn(u, u)
  BY <1>1, TickedSwap
<1>3. ~u.new => a = LookForDriver(u) BY DEF AfterTick
<1>4. u.new \in BOOLEAN BY <1>2 DEF Swap
<1> HIDE DEF u, a
<1>5. CASE ~u.new
  <2>1. /\ a \in Swap /\ a.overlap = u.overlap /\ a.pc # "kicking" /\ (InCar = {} => a = u)
        /\ a.pc # "done" => GoesOn(a, u)
    BY <1>2, <1>3, <1>5, TickLooks
  <2>2. ~Clear(u) BY <1>5 DEF Clear
  <2> QED BY <1>1, <1>2, <1>5, <2>1, <2>2 DEF u, a
<1>6. CASE u.new
  <2>1. /\ a \in Swap /\ a.overlap = u.overlap /\ (a.pc = "kicking" => Kicks(u))
        /\ (Clear(u) => a.pc = "done")
        /\ a.pc # "done" => GoesOn(a, u)
    <3>1. a = AfterTick(u) BY DEF a
    <3> QED BY <1>2, <1>6, <3>1, TickDrives
  <2> QED BY <1>1, <1>2, <1>6, <2>1 DEF u, a
<1> QED BY <1>4, <1>5, <1>6

LEMMA SecondKeeps == ASSUME SwapsInv, Second PROVE SwapsInv'
<1>1. /\ ~crashed /\ count' = [count EXCEPT !.seconds = @ + 1]
      /\ swaps' = [s \in DOMAIN swaps |-> IF s \in Waiting THEN Rewaits(s, AfterTick(Ticked(s))) ELSE swaps[s]]
      /\ cleared' = (cleared \/ \E s \in Waiting : Clear(Ticked(s)))
      /\ crashed' = \E s \in DOMAIN swaps : swaps'[s].pc = "wait" /\ swaps'[s].on = 0
      /\ heap' = heap /\ conn' = conn /\ disc' = disc /\ car' = car /\ over' = over
  BY DEF Second, Up, people
<1>2. SwapTypes /\ PeopleFit BY DEF SwapsInv
<1>3. DOMAIN swaps' = DOMAIN swaps BY <1>1
<1>4. ASSUME NEW s \in Waiting
      PROVE  /\ s \in DOMAIN swaps /\ swaps'[s] \in Swap /\ swaps'[s].overlap = swaps[s].overlap /\ Live(s)
             /\ swaps'[s].pc # "done" => /\ ~Clear(Ticked(s))
                                         /\ InCar = {} /\ ~swaps[s].new => ~swaps'[s].new /\ swaps'[s].pc = "wait"
             /\ SwapOK(swaps'[s], heap, over, crashed')
  <2> DEFINE u == Ticked(s)
             a == AfterTick(u)
             z == Rewaits(s, a)
  <2>1. s \in DOMAIN swaps /\ Live(s) /\ swaps[s].pc = "wait" BY DEF Waiting, Live
  <2>2. swaps[s] \in Swap /\ SwapOK(swaps[s], heap, over, crashed) BY <2>1, SwapParts
  <2>3. /\ a \in Swap /\ a.overlap = swaps[s].overlap
        /\ Clear(u) => a.pc = "done"
        /\ a.pc # "done" => GoesOn(a, u)
        /\ InCar = {} /\ ~swaps[s].new /\ a.pc # "done" => ~a.new /\ a.pc = "wait"
    BY SwapTicks
  <2>4. /\ u \in Swap /\ u.driver = swaps[s].driver /\ u.orphan = swaps[s].orphan /\ u.earlier = swaps[s].earlier
    BY <2>1, TickedSwap
  <2>5. swaps'[s] = z BY <1>1, <2>1
  <2> HIDE DEF u
  <2>6. CASE a.pc = "done"
    <3>1. z = a BY <2>6 DEF Rewaits
    <3> HIDE DEF a, z
    <3>2. SwapOK(z, heap, over, crashed') BY <2>6, <3>1 DEF SwapOK
    <3> QED BY <2>1, <2>3, <2>5, <2>6, <3>1, <3>2
  <2>7. CASE a.pc # "done"
    <3>1. GoesOn(a, u) /\ ~Clear(u) BY <2>3, <2>7
    <3>2. a.driver = swaps[s].driver BY <2>4, <3>1 DEF GoesOn
    <3> HIDE DEF a
    <3>3. /\ z \in Swap /\ z.overlap = a.overlap
          /\ z.pc # "done" =>
                 /\ z.pc = a.pc /\ z.new = a.new /\ z.first = a.first
                 /\ z.driver = a.driver /\ z.current = a.current
                 /\ z.orphan = a.orphan /\ z.blind = a.blind
                 /\ z.earlier = a.earlier
      BY <2>1, <2>3, <3>2, WaitsAgain
    <3>4. z.pc = "wait" /\ ~crashed' => z.on # 0 BY <1>1, <2>1, <2>5
    <3> HIDE DEF z
    <3>5. over \/ swaps[s].earlier => swaps[s].orphan BY <2>1, <2>2 DEF SwapOK
    <3>6. swaps[s].driver \in DOMAIN heap BY <2>1, <2>2 DEF SwapOK
    <3>7. SwapOK(z, heap, over, crashed') BY <2>4, <3>1, <3>3, <3>4, <3>5, <3>6 DEF SwapOK, GoesOn
    <3> QED BY <2>1, <2>3, <2>5, <2>7, <3>1, <3>3, <3>7 DEF u
  <2> QED BY <2>6, <2>7
<1>5. ASSUME NEW s \in DOMAIN swaps, s \notin Waiting
      PROVE  swaps'[s] = swaps[s] /\ swaps[s] \in Swap /\ SwapOK(swaps[s], heap, over, crashed')
  <2>1. swaps[s] \in Swap /\ SwapOK(swaps[s], heap, over, crashed) /\ swaps[s].pc # "wait"
    BY <1>5, SwapParts DEF Waiting
  <2>2. SwapOK(swaps[s], heap, over, crashed') BY <2>1 DEF SwapOK
  <2> QED BY <1>1, <1>5, <2>1, <2>2
<1>6. \A s \in DOMAIN swaps : swaps'[s] \in Swap /\ swaps'[s].overlap = swaps[s].overlap
                              /\ (Live(s)' => Live(s)) /\ SwapOK(swaps'[s], heap, over, crashed')
  BY <1>4, <1>5 DEF Live
<1>7. swaps' \in Seq(Swap)
  <2>1. DOMAIN swaps = 1 .. Len(swaps) /\ Len(swaps) \in Nat BY <1>2 DEF SwapTypes
  <2>2. swaps' = [s \in 1 .. Len(swaps) |-> swaps'[s]] BY <1>1, <2>1
  <2>3. ListedSwaps(swaps', Len(swaps)) BY <1>6, <2>1, <2>2 DEF ListedSwaps
  <2> QED BY <2>3, SwapLists
<1>8. SamePlaces BY <1>3, <1>6, <1>7 DEF SamePlaces
<1>9. OneSwap' /\ (Overlap' <=> Overlap) BY <1>8, StillOne
<1>10. ClearedFits'
  <2> SUFFICES ASSUME ~Overlap, cleared', NEW s \in DOMAIN swaps, Live(s)'
               PROVE  ~swaps'[s].new /\ swaps'[s].pc = "wait" /\ car.driver = NoDriver
    BY <1>1, <1>3, <1>9 DEF ClearedFits
  <2>1. Live(s) BY <1>6
  <2>2. ~\E r \in Waiting : Clear(Ticked(r))
    <3> SUFFICES ASSUME NEW r \in Waiting, Clear(Ticked(r)) PROVE FALSE OBVIOUS
    <3>1. r \in DOMAIN swaps /\ Live(r) /\ swaps'[r].pc = "done" BY <1>4
    <3>2. r = s BY <2>1, <3>1 DEF SwapsInv, OneSwap
    <3> QED BY <3>1, <3>2 DEF Live
  <2>3. cleared BY <1>1, <2>2
  <2>4. ~swaps[s].new /\ swaps[s].pc = "wait" /\ car.driver = NoDriver BY <2>1, <2>3 DEF SwapsInv, ClearedFits
  <2>5. InCar = {} BY <1>2, <2>4, SwapTimesAssumption DEF PeopleFit, InCar
  <2>6. s \in Waiting /\ swaps'[s].pc # "done" BY <2>4 DEF Waiting, Live
  <2> QED BY <1>4, <2>4, <2>5, <2>6
<1>11. SwapsFit' BY <1>1, <1>3, <1>6 DEF SwapsFit
<1>12. PeopleFit' BY <1>1, <1>2 DEF PeopleFit
<1>13. SwapTypes'
  <2>1. crashed' \in BOOLEAN BY <1>1
  <2>2. cleared' \in BOOLEAN BY <1>1
  <2>3. count \in [connects : Nat, drives : Nat, seconds : Nat] BY <1>2 DEF SwapTypes
  <2>4. count' = [count EXCEPT !.seconds = @ + 1] BY <1>1
  <2>5. count' \in [connects : Nat, drives : Nat, seconds : Nat] BY <2>3, <2>4
  <2>6. heap' = heap /\ conn' = conn /\ disc' = disc /\ car' = car /\ over' = over BY <1>1
  <2> QED BY <1>2, <1>7, <2>1, <2>2, <2>5, <2>6 DEF SwapTypes
<1> QED BY <1>9, <1>10, <1>11, <1>12, <1>13 DEF SwapsInv

LEMMA SwapsStep == SwapsInv /\ [SwapsNext]_swapVars => SwapsInv'
<1> SUFFICES ASSUME SwapsInv, [SwapsNext]_swapVars PROVE SwapsInv' OBVIOUS
<1>1. CASE \E d \in Drivers : Connect(d) BY <1>1, ConnectKeeps
<1>2. CASE OnClientLoaded \/ CarUpdate \/ CompleteLap \/ \E p \in Positions : Drive(p) BY <1>2, DriverKeeps
<1>3. CASE OnClientDisconnect BY <1>3, DisconnectKeeps
<1>4. CASE \E s \in DOMAIN swaps : Kick(s) BY <1>4, KickKeeps
<1>5. CASE Second BY <1>5, SecondKeeps
<1>6. CASE OnEndSession BY <1>6, EndSessionKeeps
<1>7. CASE \E runs \in BOOLEAN : OnStopped(runs) BY <1>7, StoppedKeeps
<1>8. CASE OnNewSession BY <1>8, NewSessionKeeps
<1>9. CASE UNCHANGED swapVars
  <2>1. /\ heap' = heap /\ conn' = conn /\ disc' = disc /\ car' = car /\ swaps' = swaps /\ over' = over
        /\ crashed' = crashed /\ count' = count /\ cleared' = cleared
    BY <1>9 DEF swapVars
  <2>2. SwapTypes' /\ PeopleFit' BY <2>1 DEF SwapsInv, SwapTypes, PeopleFit
  <2>3. KeepsPositions(heap, heap') BY <2>1 DEF KeepsPositions
  <2>4. SwapsFit' /\ OneSwap' /\ ClearedFits' BY <2>1, <2>3, SwapsAlone
  <2> QED BY <2>2, <2>4 DEF SwapsInv
<1> QED BY <1>1, <1>2, <1>3, <1>4, <1>5, <1>6, <1>7, <1>8, <1>9 DEF SwapsNext

\* Only a tick of the clock punishes.
LEMMA OnlySecondPunishes ==
    ASSUME SwapsInv, [SwapsNext]_swapVars, NEW s, Punishes(s)
    PROVE  Second /\ s \in Waiting /\ s \in DOMAIN swaps /\ (Kicks(Ticked(s)) \/ Penalises(Ticked(s)))
<1>1. s \in Waiting /\ s \in DOMAIN swaps /\ swaps[s].pc = "wait" /\ count'.seconds > count.seconds
  BY DEF Punishes, Waiting
<1>2. count \in [connects : Nat, drives : Nat, seconds : Nat] BY DEF SwapsInv, SwapTypes
<1>3. count'.seconds # count.seconds BY <1>1, <1>2
<1>4. Second
  <2>1. \A d \in Drivers : ~Connect(d)
    <3> SUFFICES ASSUME NEW d \in Drivers, Connect(d) PROVE FALSE OBVIOUS
    <3>1. count' = [count EXCEPT !.connects = @ + 1] BY DEF Connect
    <3> QED BY <1>2, <1>3, <3>1
  <2>2. \A p \in Positions : ~Drive(p)
    <3> SUFFICES ASSUME NEW p \in Positions, Drive(p) PROVE FALSE OBVIOUS
    <3>1. count' = [count EXCEPT !.drives = @ + 1] BY DEF Drive
    <3> QED BY <1>2, <1>3, <3>1
  <2>3. ~(OnClientLoaded \/ CarUpdate \/ CompleteLap \/ OnClientDisconnect)
    BY <1>3 DEF OnClientLoaded, CarUpdate, CompleteLap, OnClientDisconnect
  <2>4. ~\E r \in DOMAIN swaps : Kick(r) BY <1>3 DEF Kick
  <2>5. ~(OnEndSession \/ (\E runs \in BOOLEAN : OnStopped(runs)) \/ OnNewSession)
    BY <1>3 DEF OnEndSession, OnStopped, OnNewSession
  <2>6. ~UNCHANGED swapVars BY <1>3 DEF swapVars
  <2> QED BY <2>1, <2>2, <2>3, <2>4, <2>5, <2>6 DEF SwapsNext
<1>5. swaps'[s].pc = "kicking" => Kicks(Ticked(s))
  <2> DEFINE a == AfterTick(Ticked(s))
  <2>1. swaps'[s] = Rewaits(s, a) BY <1>1, <1>4 DEF Second
  <2>2. a \in Swap /\ (a.pc = "kicking" => Kicks(Ticked(s))) /\ (a.pc # "done" => GoesOn(a, Ticked(s)))
    BY <1>1, SwapTicks
  <2>3. Ticked(s).driver = swaps[s].driver BY <1>1, TickedSwap
  <2> HIDE DEF a
  <2>4. CASE a.pc = "done"
    <3>1. Rewaits(s, a) = a BY <2>4 DEF Rewaits
    <3> QED BY <2>1, <2>4, <3>1
  <2>5. CASE a.pc # "done"
    <3>1. a.driver = swaps[s].driver /\ Live(s) BY <1>1, <2>2, <2>3, <2>5 DEF GoesOn, Live
    <3>2. Rewaits(s, a).pc # "done" => Rewaits(s, a).pc = a.pc BY <1>1, <2>2, <3>1, WaitsAgain
    <3> QED BY <2>1, <2>2, <3>2
  <2> QED BY <2>4, <2>5
<1>6. s \in Given(Held(s).guid) => Penalises(Ticked(s)) BY DEF Given
<1> QED BY <1>1, <1>4, <1>5, <1>6 DEF Punishes

LEMMA LeftTheBox ==
    ASSUME SwapsInv, [SwapsNext]_swapVars, NEW s \in DOMAIN swaps, Punishes(s)
    PROVE  \/ car.driver = Held(s).guid /\ car.at = "away"
           \/ Held(s).old \/ conn[Held(s).guid] # swaps[s].current
           \/ swaps[s].pos # "box" \/ swaps[s].orphan \/ swaps[s].blind
<1> DEFINE u == Ticked(s)
           c == swaps[s].current
<1>1. swaps[s].pc = "wait" /\ Moved(u)
  BY OnlySecondPunishes DEF Waiting, Kicks, Penalises
<1>2. /\ u.current = c /\ u.first = swaps[s].first /\ u.orphan = swaps[s].orphan /\ u.blind = swaps[s].blind
      /\ u.pos = swaps[s].pos /\ GoesOn(u, u)
  BY <1>1, TickedSwap
<1>3. c \in DOMAIN heap /\ heap[c] \in DriverObject /\ c # 0
  <2>1. c \in DOMAIN heap BY <1>2 DEF GoesOn
  <2> QED BY <2>1 DEF SwapsInv, SwapTypes
<1> HIDE DEF u, c
<1>4. heap[c].guid \in Drivers BY <1>3 DEF DriverObject
<1>5. heap[c].pos # swaps[s].pos /\ (swaps[s].blind \/ swaps[s].orphan \/ heap[c].pos # Zero)
  BY <1>1, <1>2 DEF Moved, FirstUpdate, GoesOn
<1>6. Held(s) = heap[c] BY DEF Held, c
<1> SUFFICES ASSUME ~heap[c].old, conn[heap[c].guid] = c, swaps[s].pos = "box", ~swaps[s].orphan, ~swaps[s].blind
             PROVE  car.driver = heap[c].guid /\ car.at = "away"
  BY <1>6 DEF c
<1>7. car.driver = heap[c].guid /\ heap[c].pos \in {Zero, car.at} BY <1>3, <1>4 DEF SwapsInv, PeopleFit
<1>8. car.at \in Positions BY DEF SwapsInv, SwapTypes
<1> QED BY <1>5, <1>7, <1>8 DEF Positions

LEMMA ClearedAreSafe ==
    ASSUME SwapsInv, [SwapsNext]_swapVars, NEW s \in DOMAIN swaps, Punishes(s), cleared
    PROVE  \E r \in DOMAIN swaps : swaps[r].overlap
<1>1. swaps[s].pc = "wait" /\ Ticked(s).new
  BY OnlySecondPunishes DEF Waiting, Kicks, Penalises
<1>2. swaps[s].new /\ Live(s) BY <1>1, TickedSwap DEF Live
<1> QED BY <1>2 DEF SwapsInv, ClearedFits, Overlap

LEMMA SessionsEndSwaps == SwapsInv => SwapsEndWithSession
BY DEF SwapsInv, SwapsFit, SwapOK, SwapsEndWithSession, Live

\* For any drivers and times: a driver is punished only for leaving the box too early, never after
\* he was told that he may go, and no swap outlives its session unless OnEndSession missed it.
THEOREM SwapsAreFair == SwapsSpec => SwapsFair
<1>1. SwapsInv /\ [SwapsNext]_swapVars => SwapsInv' BY SwapsStep
<1>2. SwapsInv /\ [SwapsNext]_swapVars =>
        [\A s \in DOMAIN swaps : Punishes(s) =>
          \/ car.driver = Held(s).guid /\ car.at = "away"
          \/ Held(s).old \/ conn[Held(s).guid] # swaps[s].current
          \/ swaps[s].pos # "box" \/ swaps[s].orphan \/ swaps[s].blind]_swapVars
  BY LeftTheBox
<1>3. SwapsInv /\ [SwapsNext]_swapVars =>
        [\A s \in DOMAIN swaps : Punishes(s) /\ cleared =>
          \E r \in DOMAIN swaps : swaps[r].overlap]_swapVars
  BY ClearedAreSafe
<1> QED BY <1>1, <1>2, <1>3, SwapsStart, SessionsEndSwaps, PTL
      DEF SwapsSpec, SwapsFair, PunishedForLeaving, ClearIsClear


----------------------------------------------------------------------------
(* Sets in order *)

SmallerNumber == {ss \in Nat \X Nat : ss[1] < ss[2]}

LEMMA LeastOfNumbers ==
  ASSUME NEW S \in SUBSET Nat, S # {}
  PROVE  \E m \in S : \A n \in S : m <= n
  <1>1. SmallerNumber = OpToRel(<, Nat)
    BY Zenon DEF OpToRel, SmallerNumber
  <1>2. IsWellFoundedOn(SmallerNumber, Nat)
    BY <1>1, NatLessThanWellFounded, Zenon
  <1>3. \E m \in S : \A n \in S : <<n, m>> \notin SmallerNumber
    BY <1>2, WFMin
  <1>4. \A m, n \in S : <<n, m>> \notin SmallerNumber => m <= n
    BY DEF SmallerNumber
  <1> QED
    BY <1>3, <1>4

Keyed(S, key) == \A k \in S : key[k] \in Int
Heads(m, S, key) == m \in S /\ \A k \in S : key[k] <= key[m]
Ordered(s, key) == \A i, j \in DOMAIN s : i < j => key[s[i]] <= key[s[j]]

\* A finite set has an element of the greatest key.
LEMMA SomeHeads ==
  ASSUME NEW S, IsFiniteSet(S), S # {}, NEW key, Keyed(S, key)
  PROVE  \E m \in S : Heads(m, S, key)
  <1> DEFINE Bad(T) == T # {} /\ ~\E m \in T : Heads(m, T, key)
             sizes == {n \in Nat : \E T \in SUBSET S : Cardinality(T) = n /\ Bad(T)}
  <1>1. \A T \in SUBSET S : IsFiniteSet(T) /\ Cardinality(T) \in Nat
    BY FS_Subset, FS_CardinalityType
  <1>2. SUFFICES ASSUME Bad(S) PROVE FALSE
    OBVIOUS
  <1>3. Cardinality(S) \in sizes
    BY <1>1, <1>2
  <1>4. PICK n \in sizes : \A k \in sizes : n <= k
    <2>1. sizes \in SUBSET Nat /\ sizes # {}
      BY <1>3
    <2> HIDE DEF sizes
    <2> QED
      BY <2>1, LeastOfNumbers
  <1>5. PICK T \in SUBSET S : Cardinality(T) = n /\ Bad(T)
    BY <1>4
  <1>6. PICK x \in T : TRUE
    BY <1>5
  <1> DEFINE U == T \ {x}
  <1>7. U \in SUBSET S /\ Cardinality(U) = n - 1 /\ n - 1 \in Nat
    <2>1. IsFiniteSet(T) /\ U \in SUBSET S
      BY <1>1
    <2>2. Cardinality(U) = Cardinality(T) - 1 /\ Cardinality(U) \in Nat
      BY <1>1, <1>6, <2>1, FS_RemoveElement
    <2> QED
      BY <1>5, <2>1, <2>2
  <1>8. ~Bad(U)
    <2>1. n - 1 \notin sizes
      BY <1>4, <1>7
    <2> QED
      BY <1>7, <2>1
  <1>9. CASE U = {}
    <2>1. Heads(x, T, key)
      BY <1>5, <1>6, <1>9 DEF Heads, Keyed
    <2> QED
      BY <1>5, <1>6, <2>1
  <1>10. CASE U # {}
    <2>1. PICK m \in U : Heads(m, U, key)
      BY <1>8, <1>10
    <2>2. m \in T /\ key[m] \in Int /\ key[x] \in Int /\ \A k \in T : key[k] \in Int /\ (k = x \/ key[k] <= key[m])
      BY <1>5, <1>6, <2>1 DEF Heads, Keyed
    <2>3. Heads(m, T, key) \/ Heads(x, T, key)
      BY <1>6, <2>2 DEF Heads
    <2> QED
      BY <1>5, <1>6, <2>2, <2>3
  <1> QED
    BY <1>9, <1>10

\* A finite set can be put in the order of any keys.
LEMMA CanOrder ==
  ASSUME NEW S, IsFiniteSet(S), NEW key, Keyed(S, key)
  PROVE  \E s \in SetToSeqs(S) : Ordered(s, key)
  <1> DEFINE Bad(T) == ~\E s \in SetToSeqs(T) : Ordered(s, key)
             sizes == {n \in Nat : \E T \in SUBSET S : Cardinality(T) = n /\ Bad(T)}
  <1>1. \A T \in SUBSET S : IsFiniteSet(T) /\ Cardinality(T) \in Nat
    BY FS_Subset, FS_CardinalityType
  <1>2. SUFFICES ASSUME Bad(S) PROVE FALSE
    OBVIOUS
  <1>3. Cardinality(S) \in sizes
    BY <1>1, <1>2
  <1>4. PICK n \in sizes : \A k \in sizes : n <= k
    <2>1. sizes \in SUBSET Nat /\ sizes # {}
      BY <1>3
    <2> HIDE DEF sizes
    <2> QED
      BY <2>1, LeastOfNumbers
  <1>5. PICK T \in SUBSET S : Cardinality(T) = n /\ Bad(T)
    BY <1>4
  <1>6. T # {}
    <2> SUFFICES ASSUME T = {} PROVE FALSE
      OBVIOUS
    <2> DEFINE s == [i \in 1 .. 0 |-> i]
    <2>1. Cardinality(T) = 0
      BY FS_EmptySet
    <2>2. s \in SetToSeqs(T) /\ Ordered(s, key)
      BY <2>1 DEF SetToSeqs, Ordered
    <2> QED
      BY <1>5, <2>2
  <1>7. PICK m \in T : Heads(m, T, key)
    <2>1. Keyed(T, key) /\ IsFiniteSet(T)
      BY <1>1, <1>5 DEF Keyed
    <2> QED
      BY <1>6, <2>1, SomeHeads
  <1> DEFINE U == T \ {m}
  <1>8. U \in SUBSET S /\ Cardinality(U) = n - 1 /\ n - 1 \in Nat
    BY <1>1, <1>5, <1>7, FS_RemoveElement
  <1>9. PICK t \in SetToSeqs(U) : Ordered(t, key)
    <2>1. n - 1 \notin sizes
      BY <1>4, <1>8
    <2> QED
      BY <1>8, <2>1
  <1>10. /\ t \in [1 .. n - 1 -> U]
         /\ \A i, j \in 1 .. n - 1 : i # j => t[i] # t[j]
         /\ \A i, j \in 1 .. n - 1 : i < j => key[t[i]] <= key[t[j]]
    BY <1>8, <1>9 DEF SetToSeqs, Ordered
  <1> DEFINE s == [i \in 1 .. n |-> IF i = n THEN m ELSE t[i]]
  <1>11. \A i \in 1 .. n : (i = n /\ s[i] = m) \/ (i \in 1 .. n - 1 /\ s[i] = t[i] /\ s[i] \in T /\ s[i] # m)
    BY <1>4, <1>10
  <1>12. s \in [1 .. n -> T] /\ \A i, j \in 1 .. n : i # j => s[i] # s[j]
    <2>1. \A i \in 1 .. n : s[i] \in T
      BY <1>11
    <2>2. \A i, j \in 1 .. n : i # j => s[i] # s[j]
      <3> HIDE DEF s
      <3> QED
        BY <1>10, <1>11
    <2> QED
      BY <2>1, <2>2
  <1>13. \A i, j \in 1 .. n : i < j => key[s[i]] <= key[s[j]]
    <2> SUFFICES ASSUME NEW i \in 1 .. n, NEW j \in 1 .. n, i < j PROVE key[s[i]] <= key[s[j]]
      OBVIOUS
    <2> HIDE DEF s
    <2>1. i \in 1 .. n - 1 /\ s[i] = t[i] /\ s[i] \in T
      BY <1>4, <1>11
    <2> QED
      BY <1>7, <1>10, <1>11, <2>1 DEF Heads
  <1>14. s \in SetToSeqs(T) /\ Ordered(s, key)
    <2> HIDE DEF s
    <2> QED
      BY <1>5, <1>12, <1>13 DEF SetToSeqs, Ordered
  <1> QED
    BY <1>5, <1>14

\* Where an element stands in a sequence of all of them.
LEMMA SortedIs ==
  ASSUME NEW S, IsFiniteSet(S), NEW key, Keyed(S, key)
  PROVE  SortedBy(S, key) \in SetToSeqs(S)
  <1>1. \E s \in SetToSeqs(S) : \A i, j \in DOMAIN s : i < j => key[s[i]] <= key[s[j]]
    BY CanOrder DEF Ordered
  <1> QED
    BY <1>1 DEF SortedBy

LEMMA EachHasPlace ==
  ASSUME NEW S, IsFiniteSet(S), NEW s \in SetToSeqs(S)
  PROVE  /\ Cardinality(S) \in Nat
         /\ s \in [1 .. Cardinality(S) -> S]
         /\ \A i, j \in 1 .. Cardinality(S) : s[i] = s[j] => i = j
         /\ \A k \in S : \E i \in 1 .. Cardinality(S) : s[i] = k
  <1> DEFINE n == Cardinality(S)
  <1>1. n \in Nat
    BY FS_CardinalityType
  <1>2. s \in [1 .. n -> S] /\ \A i, j \in 1 .. n : s[i] = s[j] => i = j
    BY DEF SetToSeqs
  <1>3. s \in Injection(1 .. n, S)
    BY <1>2 DEF Injection, IsInjective
  <1>4. IsFiniteSet(1 .. n) /\ Cardinality(1 .. n) = n
    BY <1>1, FS_Interval
  <1>5. s \in Surjection(1 .. n, S)
    BY <1>3, <1>4, FS_Injection
  <1> QED
    BY <1>1, <1>2, <1>5 DEF Surjection

LEMMA MaxIsGreatest ==
  ASSUME NEW S \in SUBSET Int, IsFiniteSet(S), S # {}
  PROVE  Max(S) \in S /\ \A x \in S : x <= Max(S)
  <1> DEFINE key == [x \in S |-> x]
  <1>1. PICK m \in S : Heads(m, S, key)
    <2>1. Keyed(S, key)
      BY DEF Keyed
    <2> HIDE DEF key
    <2> QED
      BY <2>1, SomeHeads
  <1>2. \A x \in S : m >= x
    BY <1>1 DEF Heads
  <1>3. Max(S) \in S /\ \A x \in S : Max(S) >= x
    BY <1>2 DEF Max
  <1> QED
    BY <1>3

LEMMA MinIsLeast ==
  ASSUME NEW S \in SUBSET Nat, S # {}
  PROVE  Min(S) \in S
  <1>1. PICK m \in S : \A n \in S : m <= n
    BY LeastOfNumbers
  <1> QED
    BY <1>1 DEF Min

----------------------------------------------------------------------------
(* Races that can be started *)

Openings == UNION {[on -> Openness] : on \in SUBSET ToSet(SessionOrder)}
ListFits(list, cars) == IsFiniteSet(DOMAIN list) /\ list \in [DOMAIN list -> Entrants(cars)]
NoneBooked(config, list) == "booking" \in DOMAIN config.sessions => DOMAIN list = {}
CanRun(config, list) == ConfigFits(config) /\ ListFits(list, config.cars) /\ NoneBooked(config, list)

LEMMA ConfigIs ==
  ASSUME NEW config, ConfigFits(config)
  PROVE  /\ config \in [cars : {config.cars}, pickup : BOOLEAN, maxBallast : Int, timeAttack : BOOLEAN,
                        loopMode : BOOLEAN, sessions : Openings]
         /\ config.maxBallast \in Int /\ config.sessions \in Openings
         /\ config.pickup \in BOOLEAN /\ config.timeAttack \in BOOLEAN
  BY DEF ConfigFits, Openings

\* The cars of server_cfg.ini are the listed ones but "any".
LEMMA CarsToDrive ==
  ASSUME NEW config, ConfigFits(config)
  PROVE  /\ Len(FinalCars(config)) \in Nat \ {0}
         /\ FinalCars(config) \in [1 .. Len(FinalCars(config)) -> ToSet(config.cars)]
         /\ ToSet(FinalCars(config)) = ToSet(config.cars) \ {AnyCar}
  <1> DEFINE cars == config.cars
             kept == {i \in DOMAIN cars : cars[i] # AnyCar}
             key == [i \in kept |-> i]
             places == SortedBy(kept, key)
             n == Cardinality(kept)
  <1>1. /\ Len(cars) \in Nat /\ DOMAIN cars = 1 .. Len(cars) /\ cars \in [1 .. Len(cars) -> ToSet(cars)]
        /\ ToSet(cars) = {cars[i] : i \in 1 .. Len(cars)} /\ ToSet(cars) \ {AnyCar} # {}
    <2>1. cars \in Seq(ToSet(cars)) /\ ToSet(cars) \ {AnyCar} # {}
      BY DEF ConfigFits
    <2>2. Len(cars) \in Nat /\ DOMAIN cars = 1 .. Len(cars) /\ cars \in [1 .. Len(cars) -> ToSet(cars)]
      BY <2>1
    <2> QED
      BY <2>1, <2>2 DEF ToSet
  <1>2. IsFiniteSet(kept) /\ kept \subseteq Int
    <2>1. IsFiniteSet(1 .. Len(cars)) /\ kept \in SUBSET (1 .. Len(cars))
      BY <1>1, FS_Interval
    <2> QED
      BY <2>1, FS_Subset
  <1>3. places \in SetToSeqs(kept)
    <2>1. Keyed(kept, key)
      BY <1>2 DEF Keyed
    <2> HIDE DEF key
    <2> QED
      BY <1>2, <2>1, SortedIs
  <1>4. FinalCars(config) = [m \in DOMAIN places |-> cars[places[m]]]
    BY DEF FinalCars
  <1>13. /\ kept \subseteq DOMAIN cars /\ \A i \in kept : cars[i] # AnyCar
        /\ \A i \in DOMAIN cars : cars[i] # AnyCar => i \in kept
    OBVIOUS
  <1> HIDE DEF places, kept
  <1>5. /\ n \in Nat /\ places \in [1 .. n -> kept] /\ \A k \in kept : \E i \in 1 .. n : places[i] = k
    BY <1>2, <1>3, EachHasPlace
  <1>6. PICK k \in kept : TRUE
    BY <1>1, <1>13
  <1>7. n # 0
    BY <1>5, <1>6
  <1>8. FinalCars(config) \in [1 .. n -> ToSet(cars)] /\ \A m \in 1 .. n : FinalCars(config)[m] = cars[places[m]]
    BY <1>1, <1>13, <1>4, <1>5
  <1>9. Len(FinalCars(config)) = n
    BY <1>5, <1>8
  <1>10. ASSUME NEW c \in ToSet(cars) \ {AnyCar} PROVE c \in ToSet(FinalCars(config))
    <2>1. PICK i \in kept : cars[i] = c
      BY <1>1, <1>13, <1>10
    <2>2. PICK m \in 1 .. n : places[m] = i
      BY <1>5
    <2> QED
      BY <1>8, <2>1, <2>2 DEF ToSet
  <1>11. \A m \in 1 .. n : FinalCars(config)[m] \in ToSet(cars) \ {AnyCar}
    BY <1>1, <1>13, <1>5, <1>8
  <1>12. ToSet(FinalCars(config)) = ToSet(cars) \ {AnyCar}
    BY <1>8, <1>10, <1>11 DEF ToSet
  <1> QED
    BY <1>5, <1>7, <1>8, <1>9, <1>12

\* The first session is open after a start, and a second start changes nothing more.
LEMMA Opening ==
  ASSUME NEW sessions \in Openings
  PROVE  /\ Opened(sessions) \in Openings /\ DOMAIN Opened(sessions) = DOMAIN sessions
         /\ DOMAIN sessions # {} => Opened(sessions)[FirstSession(DOMAIN sessions)] # NoJoin
         /\ Opened(Opened(sessions)) = Opened(sessions)
  <1>1. PICK on \in SUBSET ToSet(SessionOrder) : sessions \in [on -> Openness]
    BY DEF Openings
  <1> DEFINE first == FirstSession(on)
  <1>2. on # {} => first \in on
    <2> SUFFICES ASSUME on # {} PROVE first \in on
      OBVIOUS
    <2> DEFINE at == {i \in DOMAIN SessionOrder : SessionOrder[i] \in on}
    <2>1. DOMAIN SessionOrder = 1 .. 4
      BY DEF SessionOrder
    <2>2. at \in SUBSET Nat /\ at # {}
      BY <2>1 DEF ToSet
    <2>3. Min(at) \in at
      <3> HIDE DEF at
      <3> QED
        BY <2>2, MinIsLeast
    <2>4. first = SessionOrder[Min(at)]
      BY DEF FirstSession
    <2> QED
      BY <2>3, <2>4
  <1>3. /\ DOMAIN sessions = on
        /\ Opened(sessions) =
             [s \in on |-> IF s # first \/ sessions[s] # NoJoin THEN sessions[s]
                           ELSE IF s = "race" THEN UntilGreen ELSE FreeJoin]
    BY <1>1 DEF Opened
  <1> HIDE DEF first
  <1>4. /\ Opened(sessions) \in [on -> Openness]
        /\ \A s \in on : s = first => Opened(sessions)[s] # NoJoin
    BY <1>1, <1>3 DEF Openness, NoJoin, FreeJoin, UntilGreen
  <1>5. Opened(Opened(sessions)) =
          [s \in on |-> IF s # first \/ Opened(sessions)[s] # NoJoin THEN Opened(sessions)[s]
                        ELSE IF s = "race" THEN UntilGreen ELSE FreeJoin]
    BY <1>4 DEF Opened, first
  <1>6. Opened(Opened(sessions)) = Opened(sessions)
    BY <1>4, <1>5
  <1>7. Opened(sessions) \in Openings
    BY <1>4 DEF Openings
  <1> QED
    BY <1>2, <1>3, <1>4, <1>6, <1>7 DEF first

\* A configuration whose sessions are opened.
LEMMA OpenedFits ==
  ASSUME NEW config, ConfigFits(config)
  PROVE  /\ ConfigFits([config EXCEPT !.sessions = Opened(@)])
         /\ [config EXCEPT !.sessions = Opened(@)].cars = config.cars
         /\ [config EXCEPT !.sessions = Opened(@)].timeAttack = config.timeAttack
         /\ DOMAIN [config EXCEPT !.sessions = Opened(@)].sessions = DOMAIN config.sessions
  <1> DEFINE opened == Opened(config.sessions)
  <1>1. /\ config \in [cars : {config.cars}, pickup : BOOLEAN, maxBallast : Int, timeAttack : BOOLEAN,
                       loopMode : BOOLEAN, sessions : Openings]
        /\ opened \in Openings /\ DOMAIN opened = DOMAIN config.sessions
    BY ConfigIs, Opening
  <1> HIDE DEF opened
  <1>2. /\ [config EXCEPT !.sessions = opened] \in
              [cars : {config.cars}, pickup : BOOLEAN, maxBallast : Int, timeAttack : BOOLEAN,
               loopMode : BOOLEAN, sessions : Openings]
        /\ [config EXCEPT !.sessions = opened].cars = config.cars
        /\ [config EXCEPT !.sessions = opened].timeAttack = config.timeAttack
        /\ [config EXCEPT !.sessions = opened].sessions = opened
    BY <1>1
  <1>3. [config EXCEPT !.sessions = Opened(@)] = [config EXCEPT !.sessions = opened]
    BY DEF opened
  <1> QED
    BY <1>1, <1>2, <1>3 DEF ConfigFits, Openings

LEMMA EntrantIs ==
  ASSUME NEW cars, NEW e \in Entrants(cars)
  PROVE  /\ e.box \in Int /\ e.ballast \in Int /\ e.model \in ToSet(cars) \union {AnyCar}
         /\ \A b \in Int : [e EXCEPT !.box = b] \in Entrants(cars) /\ [e EXCEPT !.box = b].box = b
                           /\ [e EXCEPT !.box = b].ballast = e.ballast /\ [e EXCEPT !.box = b].model = e.model
         /\ \A m \in ToSet(cars) : [e EXCEPT !.model = m] \in Entrants(cars) /\ [e EXCEPT !.model = m].model = m
                                   /\ [e EXCEPT !.model = m].ballast = e.ballast /\ [e EXCEPT !.model = m].box = e.box
  BY DEF Entrants

\* Slots of any car get a listed car.
LEMMA ChosenFits ==
  ASSUME NEW race, ConfigFits(race.config), ListFits(race.list, race.config.cars),
         NEW order \in SetToSeqs(AnySlots(race.list))
  PROVE  /\ DOMAIN Chosen(race, order) = DOMAIN race.list
         /\ ListFits(Chosen(race, order), race.config.cars)
         /\ \A k \in DOMAIN race.list :
              /\ Chosen(race, order)[k] = [race.list[k] EXCEPT !.model = Chosen(race, order)[k].model]
              /\ Chosen(race, order)[k].ballast = race.list[k].ballast
              /\ Chosen(race, order)[k].model \in ToSet(FinalCars(race.config))
              /\ race.list[k].model # AnyCar => Chosen(race, order)[k].model = race.list[k].model
  <1> DEFINE list == race.list
             cars == race.config.cars
             final == FinalCars(race.config)
             slots == AnySlots(list)
             place(k) == CHOOSE i \in DOMAIN order : order[i] = k
             chosen == Chosen(race, order)
  <1>1. /\ Len(final) \in Nat \ {0} /\ final \in [1 .. Len(final) -> ToSet(cars)]
        /\ ToSet(final) = ToSet(cars) \ {AnyCar}
    BY CarsToDrive
  <1>2. list \in [DOMAIN list -> Entrants(cars)] /\ IsFiniteSet(DOMAIN list)
    BY DEF ListFits
  <1>3. slots \subseteq DOMAIN list /\ \A k \in slots : list[k].model = AnyCar
    BY DEF AnySlots
  <1>4. \A k \in DOMAIN list \ slots : list[k].model # AnyCar
    BY DEF AnySlots
  <1>5. IsFiniteSet(slots)
    BY <1>2, <1>3, FS_Subset
  <1>6. ASSUME NEW k \in slots PROVE place(k) \in Int
    <2>1. /\ Cardinality(slots) \in Nat /\ order \in [1 .. Cardinality(slots) -> slots]
          /\ \E i \in 1 .. Cardinality(slots) : order[i] = k
      BY <1>5, EachHasPlace
    <2> QED
      BY <2>1
  <1>7. ASSUME NEW k \in slots PROVE final[((place(k) - 1) % Len(final)) + 1] \in ToSet(final) /\ ToSet(final) \subseteq ToSet(cars)
    <2>1. (place(k) - 1) % Len(final) \in 0 .. Len(final) - 1
      <3> HIDE DEF place, final
      <3> QED
        BY <1>1, <1>6
    <2> HIDE DEF place, final
    <2>2. ((place(k) - 1) % Len(final)) + 1 \in 1 .. Len(final)
      BY <1>1, <2>1
    <2> QED
      BY <1>1, <2>2 DEF ToSet
  <1>8. chosen = [k \in DOMAIN list |->
                    IF k \notin slots THEN list[k]
                    ELSE [list[k] EXCEPT !.model = final[((place(k) - 1) % Len(final)) + 1]]]
    BY DEF Chosen
  <1> HIDE DEF chosen, place, final, slots
  <1>9. ASSUME NEW k \in DOMAIN list
        PROVE  /\ chosen[k] \in Entrants(cars) /\ chosen[k] = [list[k] EXCEPT !.model = chosen[k].model]
               /\ chosen[k].ballast = list[k].ballast /\ chosen[k].model \in ToSet(final)
               /\ list[k].model # AnyCar => chosen[k].model = list[k].model
    <2>1. CASE k \in slots
      <3>1. PICK m \in ToSet(final) : chosen[k] = [list[k] EXCEPT !.model = m]
        BY <1>7, <1>8, <2>1
      <3>2. m \in ToSet(cars) /\ list[k] \in Entrants(cars)
        BY <1>1, <1>2
      <3> QED
        BY <1>3, <2>1, <3>1, <3>2, EntrantIs
    <2>2. CASE k \notin slots
      <3>1. chosen[k] = list[k] /\ list[k] \in Entrants(cars)
        BY <1>2, <1>8, <2>2
      <3>2. list[k] = [list[k] EXCEPT !.model = list[k].model]
        BY <3>1 DEF Entrants
      <3>3. list[k].model \in ToSet(final)
        BY <1>1, <1>4, <2>2, <3>1, EntrantIs
      <3> QED
        BY <3>1, <3>2, <3>3
    <2> QED
      BY <2>1, <2>2
  <1>10. DOMAIN chosen = DOMAIN list /\ ListFits(chosen, cars)
    BY <1>2, <1>8, <1>9 DEF ListFits
  <1> QED
    BY <1>9, <1>10 DEF chosen, final

\* The boxes count from 0.
LEMMA RenumberedFits ==
  ASSUME NEW list, NEW cars, ListFits(list, cars)
  PROVE  /\ DOMAIN Renumbered(list) = DOMAIN list /\ ListFits(Renumbered(list), cars)
         /\ \A k \in DOMAIN list :
              /\ Renumbered(list)[k].box \in Int
              /\ Renumbered(list)[k] = [list[k] EXCEPT !.box = Renumbered(list)[k].box]
         /\ AsSlice(list) \in SetToSeqs(DOMAIN list)
         /\ \A i \in DOMAIN AsSlice(list) : Renumbered(list)[AsSlice(list)[i]].box = i - 1
  <1> DEFINE slice == AsSlice(list)
             key == [k \in DOMAIN list |-> list[k].box]
             place(k) == CHOOSE i \in DOMAIN slice : slice[i] = k
             new == Renumbered(list)
             n == Cardinality(DOMAIN list)
  <1>1. IsFiniteSet(DOMAIN list) /\ list \in [DOMAIN list -> Entrants(cars)]
    BY DEF ListFits
  <1>2. slice \in SetToSeqs(DOMAIN list)
    <2>1. Keyed(DOMAIN list, key)
      BY <1>1, EntrantIs DEF Keyed
    <2>2. slice = SortedBy(DOMAIN list, key)
      BY DEF AsSlice
    <2> HIDE DEF key, slice
    <2> QED
      BY <1>1, <2>1, <2>2, SortedIs
  <1>3. new = [k \in DOMAIN list |-> [list[k] EXCEPT !.box = place(k) - 1]]
    BY DEF Renumbered
  <1> HIDE DEF slice, new
  <1>4. /\ n \in Nat /\ slice \in [1 .. n -> DOMAIN list]
        /\ \A i, j \in 1 .. n : slice[i] = slice[j] => i = j
        /\ \A k \in DOMAIN list : \E i \in 1 .. n : slice[i] = k
    BY <1>1, <1>2, EachHasPlace
  <1>5. \A k \in DOMAIN list : place(k) \in 1 .. n /\ slice[place(k)] = k
    BY <1>4
  <1> HIDE DEF place
  <1>6. ASSUME NEW k \in DOMAIN list
        PROVE  /\ new[k] \in Entrants(cars) /\ new[k].box = place(k) - 1 /\ new[k].box \in Int
               /\ new[k] = [list[k] EXCEPT !.box = new[k].box]
    <2>1. place(k) - 1 \in Int /\ list[k] \in Entrants(cars) /\ new[k] = [list[k] EXCEPT !.box = place(k) - 1]
      BY <1>1, <1>3, <1>4, <1>5
    <2>2. new[k] \in Entrants(cars) /\ new[k].box = place(k) - 1
      BY <2>1, EntrantIs
    <2> QED
      BY <2>1, <2>2
  <1>7. ASSUME NEW i \in 1 .. n PROVE new[slice[i]].box = i - 1
    <2>1. place(slice[i]) = i
      BY <1>4, <1>5
    <2> QED
      BY <1>4, <1>6, <2>1
  <1>8. DOMAIN new = DOMAIN list /\ ListFits(new, cars) /\ DOMAIN slice = 1 .. n
    BY <1>1, <1>3, <1>4, <1>6 DEF ListFits
  <1> QED
    BY <1>2, <1>6, <1>7, <1>8 DEF slice, new

\* What is written: the entrants by box.
LEMMA WrittenIs ==
  ASSUME NEW list, NEW cars, ListFits(list, cars)
  PROVE  /\ Written(list) \in [1 .. Cardinality(DOMAIN list) -> Entrants(cars)]
         /\ Cardinality(DOMAIN list) \in Nat
         /\ \A i \in 1 .. Cardinality(DOMAIN list) :
              /\ Written(list)[i].box = i - 1
              /\ \E k \in DOMAIN list : /\ Written(list)[i].model = list[k].model
                                        /\ Written(list)[i].ballast = list[k].ballast
  <1> DEFINE slice == AsSlice(list)
             new == Renumbered(list)
             n == Cardinality(DOMAIN list)
  <1>1. /\ slice \in SetToSeqs(DOMAIN list) /\ DOMAIN new = DOMAIN list /\ ListFits(new, cars)
        /\ \A k \in DOMAIN list : new[k].box \in Int /\ new[k] = [list[k] EXCEPT !.box = new[k].box]
        /\ \A i \in DOMAIN slice : new[slice[i]].box = i - 1
    BY RenumberedFits
  <1>2. Written(list) = [i \in DOMAIN slice |-> new[slice[i]]]
    BY DEF Written
  <1> HIDE DEF slice, new
  <1>3. n \in Nat /\ slice \in [1 .. n -> DOMAIN list]
    BY <1>1, EachHasPlace DEF ListFits
  <1>4. list \in [DOMAIN list -> Entrants(cars)] /\ new \in [DOMAIN list -> Entrants(cars)]
    BY <1>1 DEF ListFits
  <1>5. Written(list) \in [1 .. n -> Entrants(cars)] /\ \A i \in 1 .. n : Written(list)[i] = new[slice[i]]
    BY <1>2, <1>3, <1>4
  <1>6. ASSUME NEW k \in DOMAIN list PROVE new[k].model = list[k].model /\ new[k].ballast = list[k].ballast
    <2>1. PICK b \in Int : new[k] = [list[k] EXCEPT !.box = b]
      BY <1>1
    <2>2. list[k] \in Entrants(cars)
      BY <1>4
    <2> QED
      BY <2>1, <2>2, EntrantIs
  <1> QED
    BY <1>1, <1>3, <1>5, <1>6

----------------------------------------------------------------------------
(* Files and results of races.  While an event runs, the files are those it was      *)
(* started with, unless a start has failed between the two; what race control keeps  *)
(* is the time attack that runs, unless one was only announced.                      *)

RaceShape(c) == c = [id |-> c.id, rev |-> c.rev, config |-> c.config, merged |-> c.merged, list |-> c.list]
RunShape(r) == r = [id |-> r.id, meant |-> r.meant, read |-> r.read]
NotesShape(n) ==
  /\ n = [mixed |-> n.mixed, announced |-> n.announced, foreign |-> n.foreign, stale |-> n.stale]
  /\ n.mixed \in BOOLEAN

FilesMeant == running # Idle /\ ~rnotes.mixed => files = running.meant
FilesInv == RunShape(running) /\ NotesShape(rnotes) /\ FilesMeant

OwnIn(c, foreign) == RaceShape(c) /\ \A e \in c.merged : e = c.id \/ <<c.id, e>> \in foreign
Own(c) == OwnIn(c, rnotes.foreign)
PresetsOwn == (\E S : presets \in Seq(S)) /\ \A i \in DOMAIN presets : presets[i].id = i /\ Own(presets[i])
CopiesOwn == (saving # NoRace => Own(saving)) /\ (timeAttack # NoRace => Own(timeAttack))
AttackRuns == timeAttack # NoRace /\ running # Idle /\ ~rnotes.announced => running.id = timeAttack.id
OwnInv == PresetsOwn /\ CopiesOwn /\ AttackRuns

SetupInv == FilesInv /\ OwnInv

----------------------------------------------------------------------------
(* Shapes *)

LEMMA OwnMore ==
  ASSUME NEW c, NEW F, NEW G, OwnIn(c, F), F \subseteq G
  PROVE  OwnIn(c, G)
  BY DEF OwnIn

LEMMA AfterStartOwn ==
  ASSUME NEW race, NEW order, NEW F, OwnIn(race, F)
  PROVE  OwnIn(AfterStart(race, order), F) /\ AfterStart(race, order).id = race.id
  <1> DEFINE config == [race.config EXCEPT !.sessions = Opened(@)]
             list == Renumbered(Chosen(race, order))
  <1>1. RaceShape(race)
    BY DEF OwnIn
  <1>2. AfterStart(race, order) = [race EXCEPT !.config = config, !.list = list]
    BY <1>1 DEF AfterStart, RaceShape
  <1> HIDE DEF config, list
  <1>3. AfterStart(race, order) = [id |-> race.id, rev |-> race.rev, config |-> config, merged |-> race.merged, list |-> list]
    BY <1>1, <1>2 DEF RaceShape
  <1>4. /\ AfterStart(race, order).id = race.id
        /\ AfterStart(race, order).merged = race.merged
        /\ RaceShape(AfterStart(race, order))
    BY <1>3 DEF RaceShape
  <1> QED
    BY <1>4 DEF OwnIn

FailedAttack(race, order) == [race EXCEPT !.config.sessions = Opened(@), !.list = Chosen(race, order)]
LEMMA FailedOwn ==
  ASSUME NEW race, NEW order, NEW F, OwnIn(race, F)
  PROVE  OwnIn(FailedAttack(race, order), F)
  <1> DEFINE config == [race.config EXCEPT !.sessions = Opened(@)]
             list == Chosen(race, order)
  <1>1. RaceShape(race)
    BY DEF OwnIn
  <1>2. FailedAttack(race, order) = [race EXCEPT !.config = config, !.list = list]
    BY <1>1 DEF FailedAttack, RaceShape
  <1> HIDE DEF config, list
  <1>3. FailedAttack(race, order) = [id |-> race.id, rev |-> race.rev, config |-> config, merged |-> race.merged, list |-> list]
    BY <1>1, <1>2 DEF RaceShape
  <1>4. /\ FailedAttack(race, order).id = race.id
        /\ FailedAttack(race, order).merged = race.merged
        /\ RaceShape(FailedAttack(race, order))
    BY <1>3 DEF RaceShape
  <1> QED
    BY <1>4 DEF OwnIn

LEMMA FreshOwn ==
  ASSUME NEW i, NEW r, NEW c, NEW l, NEW F
  PROVE  OwnIn([id |-> i, rev |-> r, config |-> c, merged |-> {}, list |-> l], F)
  BY DEF OwnIn, RaceShape

LEMMA CustomOwn ==
  ASSUME NEW id, NEW rev, NEW form, NEW F
  PROVE  OwnIn(CustomRace(id, rev, form), F) /\ CustomRace(id, rev, form).id = id
  <1> DEFINE config == BuildCustomRaceFromForm(form)
             list == IF HasSession(config, "booking") THEN <<>> ELSE BuildEntryList(form)
  <1>1. CustomRace(id, rev, form) = [id |-> id, rev |-> rev, config |-> config, merged |-> {}, list |-> list]
    BY DEF CustomRace
  <1> HIDE DEF config, list
  <1> QED
    BY <1>1, FreshOwn

LEMMA QuickOwn ==
  ASSUME NEW cars, NEW F
  PROVE  OwnIn(QuickRace(cars), F)
  BY FreshOwn DEF QuickRace

LEMMA MergedOwn ==
  ASSUME NEW c, NEW e, NEW F, OwnIn(c, F), e = c.id \/ <<c.id, e>> \in F
  PROVE  /\ OwnIn([c EXCEPT !.merged = @ \union {e}], F)
         /\ [c EXCEPT !.merged = @ \union {e}].id = c.id
  BY DEF OwnIn, RaceShape

----------------------------------------------------------------------------
(* Starts *)

LEMMA StartKeepsFiles ==
  ASSUME SetupInv, NEW race, NEW scheduled \in BOOLEAN, Own(race), ApplyConfigAndStart(race, scheduled)
  PROVE  /\ FilesInv' /\ CopiesOwn' /\ AttackRuns' /\ rnotes'.foreign = rnotes.foreign
         /\ running' # running => running'.read = running'.meant
  <1>0. NotesShape(rnotes) /\ RunShape(running) /\ FilesMeant /\ CopiesOwn
    BY DEF SetupInv, FilesInv, OwnInv
  <1>1. PICK order \in SetToSeqs(AnySlots(race.list)) :
           IF CannotStart(race)
           THEN Fails(race, order) /\ UNCHANGED saving
           ELSE /\ Starts(race, AfterStart(race, order))
                /\ saving' = IF scheduled THEN AfterStart(race, order) ELSE saving
                /\ shared' = (scheduled /\ race.config.timeAttack)
    BY DEF ApplyConfigAndStart
  <1>2. CASE CannotStart(race)
    <2>1. Fails(race, order) /\ saving' = saving
      BY <1>1, <1>2
    <2>2. /\ running' = running
          /\ rnotes' = [rnotes EXCEPT !.mixed = @ \/ ~TooBig(race), !.announced = race.config.timeAttack]
      BY <2>1 DEF Fails
    <2>3. /\ NotesShape(rnotes') /\ rnotes'.foreign = rnotes.foreign
          /\ rnotes'.mixed = (rnotes.mixed \/ ~TooBig(race)) /\ rnotes'.announced = race.config.timeAttack
      BY <1>0, <2>2 DEF NotesShape
    <2>4. FilesMeant'
      <3>1. CASE TooBig(race)
        <4>1. files' = files
          BY <2>1, <3>1 DEF Fails, WritesConfig
        <4> QED
          BY <1>0, <2>2, <2>3, <3>1, <4>1 DEF FilesMeant
      <3>2. CASE ~TooBig(race)
        BY <2>3, <3>2 DEF FilesMeant
      <3> QED
        BY <3>1, <3>2
    <2>5. CASE race.config.timeAttack
      <3>1. timeAttack' = race \/ timeAttack' = FailedAttack(race, order)
        BY <2>1, <2>5 DEF Fails, FailedAttack
      <3>2. Own(timeAttack)'
        BY <2>3, <3>1, FailedOwn DEF Own
      <3> QED
        BY <1>0, <2>1, <2>2, <2>3, <2>4, <2>5, <3>2 DEF FilesInv, CopiesOwn, AttackRuns, Own
    <2>6. CASE ~race.config.timeAttack
      <3>1. timeAttack' = NoRace
        BY <2>1, <2>6 DEF Fails
      <3> QED
        BY <1>0, <2>1, <2>2, <2>3, <2>4, <3>1 DEF FilesInv, CopiesOwn, AttackRuns, Own
    <2> QED
      BY <2>5, <2>6
  <1>3. CASE ~CannotStart(race)
    <2> DEFINE after == AfterStart(race, order)
    <2>1. Starts(race, after) /\ saving' = (IF scheduled THEN after ELSE saving)
      BY <1>1, <1>3
    <2>2. OwnIn(after, rnotes.foreign) /\ after.id = race.id
      BY AfterStartOwn DEF Own
    <2> HIDE DEF after
    <2>3. PICK new : /\ files' = new
                     /\ running' = [id |-> race.id, meant |-> new, read |-> new]
                     /\ timeAttack' = TimeAttackAfter(after)
                     /\ rnotes' = [rnotes EXCEPT !.mixed = FALSE, !.announced = FALSE]
      BY <2>1 DEF Starts
    <2>4. NotesShape(rnotes') /\ rnotes'.foreign = rnotes.foreign
      BY <1>0, <2>3 DEF NotesShape
    <2>5. RunShape(running') /\ running'.id = race.id /\ running'.meant = new /\ running'.read = new
      BY <2>3 DEF RunShape
    <2>6. timeAttack' = after \/ timeAttack' = NoRace
      BY <2>3 DEF TimeAttackAfter
    <2>7. FilesInv'
      BY <2>3, <2>4, <2>5 DEF FilesInv, FilesMeant
    <2>8. CopiesOwn'
      BY <1>0, <2>1, <2>2, <2>4, <2>6 DEF CopiesOwn, Own
    <2>9. AttackRuns'
      BY <2>2, <2>5, <2>6 DEF AttackRuns
    <2> QED
      BY <2>4, <2>5, <2>7, <2>8, <2>9
  <1> QED
    BY <1>2, <1>3

LEMMA StartOfOther ==
  ASSUME SetupInv, NEW race, NEW scheduled \in BOOLEAN, Own(race),
         ApplyConfigAndStart(race, scheduled), presets' = presets
  PROVE  SetupInv' /\ (running' # running => running'.read = running'.meant)
  <1>1. FilesInv' /\ CopiesOwn' /\ AttackRuns' /\ rnotes'.foreign = rnotes.foreign
    BY StartKeepsFiles
  <1>2. PresetsOwn'
    BY <1>1 DEF SetupInv, OwnInv, PresetsOwn, Own
  <1> QED
    BY <1>1, <1>2, StartKeepsFiles DEF SetupInv, OwnInv

----------------------------------------------------------------------------
(* The presets *)

LEMMA OneSaved ==
  ASSUME PresetsOwn, NEW id, NEW race, race.id = id, OwnIn(race, rnotes'.foreign), rnotes.foreign \subseteq rnotes'.foreign,
         presets' = [presets EXCEPT ![id] = race]
  PROVE  PresetsOwn'
  <1>1. PICK S : presets \in Seq(S)
    BY DEF PresetsOwn
  <1>2. presets' \in Seq(S \union {race}) /\ DOMAIN presets' = DOMAIN presets
    <2>1. presets \in [1 .. Len(presets) -> S] /\ Len(presets) \in Nat
      BY <1>1
    <2>2. presets' \in [1 .. Len(presets) -> S \union {race}]
      BY <2>1
    <2> QED
      BY <2>1, <2>2
  <1>3. ASSUME NEW i \in DOMAIN presets PROVE presets'[i].id = i /\ Own(presets[i])'
    <2>1. CASE i = id
      BY <2>1 DEF PresetsOwn, Own
    <2>2. CASE i # id
      <3>1. presets'[i] = presets[i]
        BY <2>2
      <3>2. OwnIn(presets[i], rnotes'.foreign)
        BY OwnMore DEF PresetsOwn, Own
      <3> QED
        BY <3>1, <3>2 DEF PresetsOwn, Own
    <2> QED
      BY <2>1, <2>2
  <1> QED
    BY <1>2, <1>3 DEF PresetsOwn

LEMMA OneAdded ==
  ASSUME PresetsOwn, NEW race, race.id = Len(presets) + 1, OwnIn(race, rnotes'.foreign), rnotes'.foreign = rnotes.foreign,
         presets' = Append(presets, race)
  PROVE  PresetsOwn'
  <1>1. PICK S : presets \in Seq(S)
    BY DEF PresetsOwn
  <1>2. /\ presets \in Seq(S \union {race})
        /\ presets' \in Seq(S \union {race}) /\ DOMAIN presets' = 1 .. (Len(presets) + 1)
        /\ Len(presets) \in Nat /\ DOMAIN presets = 1 .. Len(presets)
    BY <1>1
  <1>3. ASSUME NEW i \in 1 .. (Len(presets) + 1) PROVE presets'[i].id = i /\ Own(presets[i])'
    <2>1. CASE i = Len(presets) + 1
      <3>1. presets'[i] = race
        BY <1>2, <2>1
      <3> QED
        BY <2>1, <3>1 DEF Own
    <2>2. CASE i # Len(presets) + 1
      <3>1. i \in DOMAIN presets /\ presets'[i] = presets[i]
        BY <1>2, <2>2
      <3> QED
        BY <3>1 DEF PresetsOwn, Own
    <2> QED
      BY <2>1, <2>2
  <1> QED
    BY <1>2, <1>3 DEF PresetsOwn

----------------------------------------------------------------------------
(* The steps *)

\* What a step does to the event that runs, besides starting one.
RestartFits ==
  running # Idle /\ running'.id = running.id /\ running'.meant = running.meant =>
     \/ running'.read = running.read \/ running'.read = running.meant \/ rnotes.mixed

LEMMA QuickStep ==
  ASSUME SetupInv, NEW cars, SetupQuickRace(cars)
  PROVE  SetupInv' /\ RestartFits
  <1>1. ApplyConfigAndStart(QuickRace(cars), FALSE) /\ presets' = presets
    BY DEF SetupQuickRace
  <1>2. Own(QuickRace(cars))
    BY QuickOwn DEF Own
  <1> QED
    BY <1>1, <1>2, StartOfOther DEF RestartFits

LEMMA EventStep ==
  ASSUME SetupInv, NEW e, StartChampionshipEvent(e)
  PROVE  SetupInv' /\ RestartFits
  <1> DEFINE race == [id |-> 0, rev |-> 0, merged |-> {}, config |-> e.config, list |-> e.list]
  <1>1. ApplyConfigAndStart(race, FALSE) /\ presets' = presets
    BY DEF StartChampionshipEvent
  <1>2. Own(race)
    BY FreshOwn DEF Own
  <1> HIDE DEF race
  <1> QED
    BY <1>1, <1>2, StartOfOther DEF RestartFits

LEMMA CustomStep ==
  ASSUME SetupInv, NEW form, NEW action, SetupCustomRace(form, action)
  PROVE  SetupInv' /\ RestartFits
  <1> DEFINE race == CustomRace(Len(presets) + 1, 0, form)
  <1>1. /\ presets' = Append(presets, race)
        /\ \/ ApplyConfigAndStart(race, FALSE)
           \/ /\ timeAttack' = IF form.timeAttack THEN race ELSE timeAttack
              /\ rnotes' = [rnotes EXCEPT !.announced = @ \/ form.timeAttack]
              /\ UNCHANGED <<files, running, saving>>
           \/ UNCHANGED <<files, running, saving, shared, timeAttack, rnotes>>
    BY DEF SetupCustomRace
  <1>2. Own(race) /\ race.id = Len(presets) + 1
    BY CustomOwn DEF Own
  <1> HIDE DEF race
  <1>3. rnotes'.foreign = rnotes.foreign => PresetsOwn'
    BY <1>1, <1>2, OneAdded DEF Own, SetupInv, OwnInv
  <1>4. NotesShape(rnotes) /\ RunShape(running) /\ FilesMeant /\ CopiesOwn /\ AttackRuns
    BY DEF SetupInv, FilesInv, OwnInv
  <1>5. CASE ApplyConfigAndStart(race, FALSE)
    <2>1. /\ FilesInv' /\ CopiesOwn' /\ AttackRuns' /\ rnotes'.foreign = rnotes.foreign
          /\ running' # running => running'.read = running'.meant
      BY <1>2, <1>5, StartKeepsFiles
    <2> QED
      BY <1>3, <2>1 DEF SetupInv, OwnInv, RestartFits
  <1>6. CASE /\ timeAttack' = IF form.timeAttack THEN race ELSE timeAttack
             /\ rnotes' = [rnotes EXCEPT !.announced = @ \/ form.timeAttack]
             /\ UNCHANGED <<files, running, saving>>
    <2>1. /\ NotesShape(rnotes') /\ rnotes'.foreign = rnotes.foreign /\ rnotes'.mixed = rnotes.mixed
          /\ rnotes'.announced = (rnotes.announced \/ form.timeAttack)
      BY <1>4, <1>6 DEF NotesShape
    <2>2. FilesInv'
      BY <1>4, <1>6, <2>1 DEF FilesInv, FilesMeant
    <2>3. CopiesOwn' /\ AttackRuns'
      <3>1. CASE form.timeAttack
        <4>1. timeAttack' = race /\ rnotes'.announced
          BY <1>6, <2>1, <3>1
        <4> QED
          BY <1>2, <1>4, <1>6, <2>1, <4>1 DEF CopiesOwn, AttackRuns, Own
      <3>2. CASE ~form.timeAttack
        <4>1. timeAttack' = timeAttack /\ (rnotes.announced => rnotes'.announced)
          BY <1>6, <2>1, <3>2
        <4> QED
          BY <1>4, <1>6, <2>1, <4>1 DEF CopiesOwn, AttackRuns, Own
      <3> QED
        BY <3>1, <3>2
    <2> QED
      BY <1>3, <1>6, <2>1, <2>2, <2>3 DEF SetupInv, OwnInv, RestartFits
  <1>7. CASE UNCHANGED <<files, running, saving, shared, timeAttack, rnotes>>
    BY <1>3, <1>4, <1>7 DEF SetupInv, OwnInv, FilesInv, FilesMeant, CopiesOwn, AttackRuns, Own, RestartFits
  <1> QED
    BY <1>1, <1>5, <1>6, <1>7

LEMMA EditStep ==
  ASSUME SetupInv, NEW id, NEW form, EditCustomRace(id, form)
  PROVE  SetupInv' /\ RestartFits
  <1> DEFINE custom == CustomRace(id, asked[id].rev + 1, form)
             race == [custom EXCEPT !.merged = presets[id].merged]
  <1>1. /\ id \in DOMAIN presets /\ presets' = [presets EXCEPT ![id] = race]
        /\ rnotes' = [rnotes EXCEPT !.stale = @ \ {id}]
        /\ UNCHANGED <<files, running, timeAttack, saving>>
    BY DEF EditCustomRace
  <1>2. RaceShape(custom) /\ custom.id = id
    BY CustomOwn DEF OwnIn
  <1> HIDE DEF custom
  <1>3. NotesShape(rnotes) /\ RunShape(running) /\ FilesMeant /\ CopiesOwn /\ AttackRuns /\ PresetsOwn
    BY DEF SetupInv, FilesInv, OwnInv
  <1>4. /\ NotesShape(rnotes') /\ rnotes'.foreign = rnotes.foreign
        /\ rnotes'.mixed = rnotes.mixed /\ rnotes'.announced = rnotes.announced
    BY <1>1, <1>3 DEF NotesShape
  <1>5. OwnIn(race, rnotes.foreign) /\ race.id = id
    BY <1>1, <1>2, <1>3 DEF PresetsOwn, Own, OwnIn, RaceShape
  <1> HIDE DEF race
  <1>6. PresetsOwn'
    BY <1>1, <1>3, <1>4, <1>5, OneSaved DEF Own
  <1> QED
    BY <1>1, <1>3, <1>4, <1>6
    DEF SetupInv, OwnInv, FilesInv, FilesMeant, CopiesOwn, AttackRuns, Own, RestartFits

LEMMA StartStep ==
  ASSUME SetupInv, NEW id, NEW scheduled \in BOOLEAN, StartCustomRace(id, scheduled)
  PROVE  SetupInv' /\ RestartFits
  <1>1. ApplyConfigAndStart(presets[id], scheduled) /\ presets' = presets /\ id \in DOMAIN presets
    BY DEF StartCustomRace
  <1>2. Own(presets[id])
    BY <1>1 DEF SetupInv, OwnInv, PresetsOwn
  <1> QED
    BY <1>1, <1>2, StartOfOther DEF RestartFits

LEMMA CopySaved ==
  ASSUME NEW race, NEW mixes, SavesCopy(race, mixes), NotesShape(rnotes)
  PROVE  /\ NotesShape(rnotes') /\ rnotes'.foreign = rnotes.foreign \union mixes
         /\ rnotes'.mixed = rnotes.mixed /\ rnotes'.announced = rnotes.announced
         /\ presets' = [presets EXCEPT ![race.id] = race]
  <1>1. PICK stale : rnotes' = [rnotes EXCEPT !.stale = stale, !.foreign = @ \union mixes]
    BY DEF SavesCopy
  <1> QED
    BY <1>1 DEF SavesCopy, NotesShape

LEMMA SaveStartedStep ==
  ASSUME SetupInv, SaveStarted
  PROVE  SetupInv' /\ RestartFits
  <1>1. SavesCopy(saving, {}) /\ saving # NoRace /\ saving' = NoRace /\ UNCHANGED <<files, running, timeAttack>>
    BY DEF SaveStarted
  <1>2. NotesShape(rnotes) /\ RunShape(running) /\ FilesMeant /\ CopiesOwn /\ AttackRuns /\ PresetsOwn
    BY DEF SetupInv, FilesInv, OwnInv
  <1>3. /\ NotesShape(rnotes') /\ rnotes'.foreign = rnotes.foreign
        /\ rnotes'.mixed = rnotes.mixed /\ rnotes'.announced = rnotes.announced
        /\ presets' = [presets EXCEPT ![saving.id] = saving]
    BY <1>1, <1>2, CopySaved
  <1>4. PresetsOwn'
    BY <1>1, <1>2, <1>3, OneSaved DEF CopiesOwn, Own
  <1> QED
    BY <1>1, <1>2, <1>3, <1>4
    DEF SetupInv, OwnInv, FilesInv, FilesMeant, CopiesOwn, AttackRuns, Own, RestartFits

LEMMA SessionStep ==
  ASSUME SetupInv, NEW ends \in BOOLEAN, SessionEnds(ends)
  PROVE  SetupInv' /\ RestartFits
  <1> DEFINE race == [timeAttack EXCEPT !.merged = @ \union {running.id}]
             mixes == IF rnotes.announced THEN {<<race.id, running.id>>} ELSE {}
  <1>1. running # Idle /\ running' = (IF ends THEN Idle ELSE running) /\ files' = files
    BY DEF SessionEnds
  <1>2. NotesShape(rnotes) /\ RunShape(running) /\ FilesMeant /\ CopiesOwn /\ AttackRuns /\ PresetsOwn
    BY DEF SetupInv, FilesInv, OwnInv
  <1>3. RunShape(running') /\ (running' # Idle => running' = running) /\ RestartFits
    BY <1>1, <1>2 DEF RunShape, Idle, RestartFits
  <1>4. CASE timeAttack = NoRace
    <2>1. UNCHANGED <<presets, timeAttack, saving, rnotes>>
      BY <1>4 DEF SessionEnds
    <2> QED
      BY <1>1, <1>2, <1>3, <2>1 DEF SetupInv, OwnInv, FilesInv, FilesMeant, PresetsOwn, CopiesOwn, AttackRuns, Own
  <1>5. CASE timeAttack # NoRace
    <2>1. timeAttack' = race /\ saving' \in {race, saving} /\ SavesCopy(race, mixes)
      BY <1>5 DEF SessionEnds
    <2>2. race.id = timeAttack.id
      BY <1>2, <1>5 DEF CopiesOwn, Own, OwnIn, RaceShape
    <2>3. running.id = timeAttack.id \/ <<timeAttack.id, running.id>> \in mixes
      <3>1. CASE rnotes.announced
        BY <2>2, <3>1
      <3>2. CASE ~rnotes.announced
        BY <1>1, <1>2, <1>5, <3>2 DEF AttackRuns
      <3> QED
        BY <3>1, <3>2
    <2> HIDE DEF mixes
    <2>4. OwnIn(race, rnotes.foreign \union mixes)
      <3>1. OwnIn(timeAttack, rnotes.foreign \union mixes)
        BY <1>2, <1>5, OwnMore DEF CopiesOwn, Own
      <3> QED
        BY <2>3, <3>1, MergedOwn
    <2> HIDE DEF race
    <2>5. /\ NotesShape(rnotes') /\ rnotes'.foreign = rnotes.foreign \union mixes
          /\ rnotes'.mixed = rnotes.mixed /\ rnotes'.announced = rnotes.announced
          /\ presets' = [presets EXCEPT ![race.id] = race]
      BY <1>2, <2>1, CopySaved
    <2>6. PresetsOwn'
      BY <1>2, <2>4, <2>5, OneSaved DEF Own
    <2>7. CopiesOwn'
      <3>1. saving # NoRace => OwnIn(saving, rnotes'.foreign)
        BY <1>2, <2>5, OwnMore DEF CopiesOwn, Own
      <3> QED
        BY <2>1, <2>4, <2>5, <3>1 DEF CopiesOwn, Own
    <2>8. AttackRuns'
      BY <1>2, <1>3, <1>5, <2>1, <2>2, <2>5 DEF AttackRuns
    <2>9. FilesInv'
      BY <1>1, <1>2, <1>3, <2>5 DEF FilesInv, FilesMeant
    <2> QED
      BY <1>3, <2>6, <2>7, <2>8, <2>9 DEF SetupInv, OwnInv
  <1> QED
    BY <1>4, <1>5

LEMMA RestartStep ==
  ASSUME SetupInv, Restart \/ Stop
  PROVE  SetupInv' /\ RestartFits
  <1>1. NotesShape(rnotes) /\ RunShape(running) /\ FilesMeant /\ CopiesOwn /\ AttackRuns /\ PresetsOwn
    BY DEF SetupInv, FilesInv, OwnInv
  <1>2. UNCHANGED <<presets, files, timeAttack, saving, rnotes>> /\ running # Idle
    BY DEF Restart, Stop
  <1>3. \/ running' = [running EXCEPT !.read = files]
        \/ running' = Idle
    BY DEF Restart, Stop
  <1>4. /\ RunShape(running') /\ RestartFits
        /\ running' # Idle => running'.id = running.id /\ running'.meant = running.meant
    BY <1>1, <1>2, <1>3 DEF RunShape, Idle, RestartFits, FilesMeant, NotesShape
  <1> QED
    BY <1>1, <1>2, <1>4 DEF SetupInv, OwnInv, FilesInv, FilesMeant, PresetsOwn, CopiesOwn, AttackRuns, Own

LEMMA StillStep ==
  ASSUME SetupInv, UNCHANGED <<presets, files, running, timeAttack, saving, rnotes>>
  PROVE  SetupInv' /\ RestartFits
  BY DEF SetupInv, OwnInv, FilesInv, FilesMeant, PresetsOwn, CopiesOwn, AttackRuns, Own, RestartFits

LEMMA SetupStep ==
  ASSUME SetupInv, [SetupNext]_setupVars
  PROVE  SetupInv' /\ RestartFits
  <1>1. ASSUME NEW s \in FixedSetups, ToggleSetup(s) PROVE SetupInv' /\ RestartFits
    BY <1>1, StillStep DEF ToggleSetup
  <1>2. CASE UNCHANGED setupVars
    BY <1>2, StillStep DEF setupVars
  <1> QED
    BY <1>1, <1>2, QuickStep, EventStep, CustomStep, EditStep, StartStep, SaveStartedStep, SessionStep, RestartStep
    DEF SetupNext

LEMMA SetupStart == SetupInit => SetupInv
  <1> SUFFICES ASSUME SetupInit PROVE SetupInv
    OBVIOUS
  <1>1. presets \in Seq({}) /\ DOMAIN presets = {}
    BY DEF SetupInit
  <1>2. FilesInv
    BY DEF SetupInit, FilesInv, RunShape, NotesShape, FilesMeant, Idle
  <1>3. PresetsOwn
    BY <1>1 DEF PresetsOwn
  <1> QED
    BY <1>2, <1>3 DEF SetupInit, SetupInv, OwnInv, CopiesOwn, AttackRuns

\* A restart reads the files of the event that was started, unless another start has failed
\* between the two; results are combined with those of their own time attack, unless one was
\* announced that did not run.
THEOREM EventsAreTheirOwn == SetupSpec => EventsTheirOwn
  <1>1. SetupInit => SetupInv
    BY SetupStart
  <1>2. SetupInv /\ [SetupNext]_setupVars => SetupInv'
    BY SetupStep
  <1>3. SetupInv /\ [SetupNext]_setupVars =>
          [(running # Idle /\ running'.id = running.id /\ running'.meant = running.meant) =>
             \/ running'.read = running.read
             \/ running'.read = running.meant
             \/ rnotes.mixed]_setupVars
    BY SetupStep DEF RestartFits
  <1>4. SetupInv /\ [SetupNext]_setupVars => [TimeAttackOwn']_setupVars
    <2> SUFFICES ASSUME SetupInv, [SetupNext]_setupVars PROVE TimeAttackOwn'
      OBVIOUS
    <2>1. SetupInv'
      BY <1>2
    <2> QED
      BY <2>1 DEF SetupInv, OwnInv, PresetsOwn, Own, OwnIn, TimeAttackOwn
  <1> QED
    BY <1>1, <1>2, <1>3, <1>4, PTL DEF SetupSpec, EventsTheirOwn, RestartsTheSame

----------------------------------------------------------------------------
(* What acServer gets fits *)

LEMMA ImageIsFinite ==
  ASSUME NEW S, IsFiniteSet(S), NEW f
  PROVE  IsFiniteSet({f[x] : x \in S})
  <1> DEFINE T == {f[x] : x \in S}
             g == [x \in S |-> f[x]]
  <1>1. g \in Surjection(S, T)
    BY DEF Surjection
  <1> QED
    BY <1>1, FS_Surjection

LEMMA GreatestBallast ==
  ASSUME NEW race, ConfigFits(race.config), ListFits(race.list, race.config.cars)
  PROVE  /\ FinalConfig(race).maxBallast \in Int
         /\ \A k \in DOMAIN race.list : race.list[k].ballast <= FinalConfig(race).maxBallast
  <1> DEFINE list == race.list
             weight == [k \in DOMAIN list |-> list[k].ballast]
             weights == {weight[k] : k \in DOMAIN list}
             top == FindGreatestBallast(list)
             limits == {race.config.maxBallast, top}
  <1>1. IsFiniteSet(DOMAIN list) /\ \A k \in DOMAIN list : list[k].ballast \in Int
    BY EntrantIs DEF ListFits
  <1>2. IsFiniteSet(weights)
    <2> HIDE DEF weight
    <2> QED
      BY <1>1, ImageIsFinite
  <1>3. weights \subseteq Int /\ \A k \in DOMAIN list : list[k].ballast \in weights
    BY <1>1
  <1>4. top = Max({0} \union weights)
    <2>1. {list[k].ballast : k \in DOMAIN list} = weights
      OBVIOUS
    <2> HIDE DEF weight
    <2> QED
      BY <2>1 DEF FindGreatestBallast
  <1> HIDE DEF weights, top
  <1>5. IsFiniteSet({0} \union weights) /\ {0} \union weights \in SUBSET Int
    <2>1. IsFiniteSet(weights \union {0})
      BY <1>2, FS_AddElement
    <2>2. weights \union {0} = {0} \union weights
      OBVIOUS
    <2> QED
      BY <1>3, <2>1, <2>2
  <1>6. top \in Int /\ \A x \in weights : x <= top
    BY <1>4, <1>5, MaxIsGreatest
  <1>7. race.config.maxBallast \in Int
    BY ConfigIs
  <1>8. IsFiniteSet(limits) /\ limits \in SUBSET Int /\ limits # {}
    <2>1. IsFiniteSet({top}) /\ IsFiniteSet({race.config.maxBallast})
      BY FS_Singleton
    <2>2. IsFiniteSet({race.config.maxBallast} \union {top})
      BY <2>1, FS_Union
    <2>3. {race.config.maxBallast} \union {top} = limits
      OBVIOUS
    <2> QED
      BY <1>6, <1>7, <2>2, <2>3
  <1>9. FinalConfig(race).maxBallast = Max(limits)
    <2>1. PICK cars, sessions, pickup : FinalConfig(race) =
            [race.config EXCEPT !.cars = cars, !.sessions = sessions, !.pickup = pickup,
                                !.maxBallast = Max({@, FindGreatestBallast(race.list)})]
      BY DEF FinalConfig
    <2> QED
      BY <2>1, ConfigIs DEF top
  <1>10. Max(limits) \in limits /\ \A x \in limits : x <= Max(limits)
    BY <1>8, MaxIsGreatest
  <1> HIDE DEF limits
  <1>11. Max(limits) \in Int /\ top <= Max(limits)
    BY <1>6, <1>8, <1>10 DEF limits
  <1> QED
    BY <1>1, <1>3, <1>6, <1>9, <1>11

LEMMA FinalConfigIs ==
  ASSUME NEW race, ConfigFits(race.config)
  PROVE  /\ FinalConfig(race).cars = FinalCars(race.config)
         /\ FinalConfig(race).sessions = Opened(race.config.sessions)
         /\ FinalConfig(race).pickup = (race.config.pickup /\ ~HasSession(race.config, "booking"))
  <1>1. PICK ballast, final :
          /\ final = FinalCars(race.config)
          /\ FinalConfig(race) =
            [race.config EXCEPT !.cars = final, !.sessions = Opened(@),
                                !.pickup = @ /\ ~HasSession(race.config, "booking"),
                                !.maxBallast = ballast]
    BY DEF FinalConfig
  <1> QED
    BY <1>1, ConfigIs

LEMMA AfterStartIs ==
  ASSUME NEW race, NEW order, RaceShape(race)
  PROVE  /\ AfterStart(race, order).config = [race.config EXCEPT !.sessions = Opened(@)]
         /\ AfterStart(race, order).list = Renumbered(Chosen(race, order))
         /\ AfterStart(race, order).rev = race.rev /\ AfterStart(race, order).id = race.id
         /\ RaceShape(AfterStart(race, order))
  <1> DEFINE config == [race.config EXCEPT !.sessions = Opened(@)]
             list == Renumbered(Chosen(race, order))
  <1>1. AfterStart(race, order) = [race EXCEPT !.config = config, !.list = list]
    BY DEF AfterStart, RaceShape
  <1> HIDE DEF config, list
  <1>2. AfterStart(race, order) = [id |-> race.id, rev |-> race.rev, config |-> config, merged |-> race.merged, list |-> list]
    BY <1>1 DEF RaceShape
  <1>3. /\ AfterStart(race, order).config = config /\ AfterStart(race, order).list = list
        /\ AfterStart(race, order).rev = race.rev /\ AfterStart(race, order).id = race.id
        /\ RaceShape(AfterStart(race, order))
    BY <1>2 DEF RaceShape
  <1> QED
    BY <1>3 DEF config, list

LEMMA FailedAttackIs ==
  ASSUME NEW race, NEW order, RaceShape(race)
  PROVE  /\ FailedAttack(race, order).config = [race.config EXCEPT !.sessions = Opened(@)]
         /\ FailedAttack(race, order).list = Chosen(race, order)
         /\ FailedAttack(race, order).rev = race.rev /\ FailedAttack(race, order).id = race.id
         /\ RaceShape(FailedAttack(race, order))
  <1> DEFINE config == [race.config EXCEPT !.sessions = Opened(@)]
             list == Chosen(race, order)
  <1>1. FailedAttack(race, order) = [race EXCEPT !.config = config, !.list = list]
    BY DEF FailedAttack, RaceShape
  <1> HIDE DEF config, list
  <1>2. FailedAttack(race, order) = [id |-> race.id, rev |-> race.rev, config |-> config, merged |-> race.merged, list |-> list]
    BY <1>1 DEF RaceShape
  <1>3. /\ FailedAttack(race, order).config = config /\ FailedAttack(race, order).list = list
        /\ FailedAttack(race, order).rev = race.rev /\ FailedAttack(race, order).id = race.id
        /\ RaceShape(FailedAttack(race, order))
    BY <1>2 DEF RaceShape
  <1> QED
    BY <1>3 DEF config, list

LEMMA StartedFits ==
  ASSUME NEW race, RaceShape(race), CanRun(race.config, race.list), ~TooBig(race),
         NEW order \in SetToSeqs(AnySlots(race.list))
  PROVE  Fit(FinalConfig(race), Written(AfterStart(race, order).list))
  <1> DEFINE list == race.list
             cars == race.config.cars
             chosen == Chosen(race, order)
             numbered == Renumbered(chosen)
             entries == Written(numbered)
             n == Cardinality(DOMAIN list)
             config == FinalConfig(race)
             on == DOMAIN race.config.sessions
  <1>1. ConfigFits(race.config) /\ ListFits(list, cars) /\ ("booking" \in on => DOMAIN list = {})
    BY DEF CanRun, NoneBooked
  <1>2. /\ DOMAIN chosen = DOMAIN list /\ ListFits(chosen, cars)
        /\ \A k \in DOMAIN list : chosen[k].ballast = list[k].ballast /\ chosen[k].model \in ToSet(FinalCars(race.config))
    BY <1>1, ChosenFits
  <1> HIDE DEF chosen
  <1>3. /\ DOMAIN numbered = DOMAIN list /\ ListFits(numbered, cars)
        /\ \A k \in DOMAIN list : numbered[k].box \in Int /\ numbered[k] = [chosen[k] EXCEPT !.box = numbered[k].box]
    BY <1>2, RenumberedFits
  <1> HIDE DEF numbered
  <1>4. \A k \in DOMAIN list : numbered[k].ballast = list[k].ballast /\ numbered[k].model \in ToSet(FinalCars(race.config))
    <2> SUFFICES ASSUME NEW k \in DOMAIN list
                 PROVE  numbered[k].ballast = list[k].ballast /\ numbered[k].model \in ToSet(FinalCars(race.config))
      OBVIOUS
    <2>1. PICK b \in Int : numbered[k] = [chosen[k] EXCEPT !.box = b]
      BY <1>3
    <2>2. chosen[k] \in Entrants(cars)
      BY <1>2 DEF ListFits
    <2> QED
      BY <1>2, <2>1, <2>2, EntrantIs
  <1>5. /\ entries \in [1 .. n -> Entrants(cars)] /\ n \in Nat
        /\ \A i \in 1 .. n : /\ entries[i].box = i - 1
                             /\ \E k \in DOMAIN list : /\ entries[i].model = numbered[k].model
                                                       /\ entries[i].ballast = numbered[k].ballast
    BY <1>3, WrittenIs
  <1> HIDE DEF entries
  <1>6. /\ config.cars = FinalCars(race.config) /\ config.sessions = Opened(race.config.sessions)
        /\ config.pickup = (race.config.pickup /\ ~HasSession(race.config, "booking"))
        /\ \A k \in DOMAIN list : list[k].ballast <= config.maxBallast
    BY <1>1, FinalConfigIs, GreatestBallast
  <1>7. /\ DOMAIN config.sessions = on
        /\ on # {} => config.sessions[FirstSession(on)] # NoJoin
    BY <1>1, <1>6, ConfigIs, Opening
  <1> HIDE DEF config
  <1>8. \A i \in DOMAIN entries : /\ entries[i].ballast <= config.maxBallast
                                  /\ entries[i].model \in ToSet(config.cars)
                                  /\ entries[i].box = i - 1
    <2> SUFFICES ASSUME NEW i \in 1 .. n
                 PROVE  /\ entries[i].ballast <= config.maxBallast
                        /\ entries[i].model \in ToSet(config.cars)
                        /\ entries[i].box = i - 1
      BY <1>5
    <2>1. PICK k \in DOMAIN list : entries[i].model = numbered[k].model /\ entries[i].ballast = numbered[k].ballast
      BY <1>5
    <2> QED
      BY <1>4, <1>5, <1>6, <2>1
  <1>9. "booking" \in on => entries = <<>> /\ ~config.pickup
    <2> SUFFICES ASSUME "booking" \in on PROVE entries = <<>> /\ ~config.pickup
      OBVIOUS
    <2>1. n = 0
      BY <1>1, FS_EmptySet
    <2>2. entries = <<>>
      BY <1>5, <2>1
    <2> QED
      BY <1>6, <2>2 DEF HasSession
  <1>10. MaxClientsOverride > 0 => Len(entries) <= MaxClientsOverride
    <2>1. Len(entries) = n
      BY <1>5
    <2>2. MaxClientsOverride > 0 => ~(n > MaxClientsOverride)
      BY DEF TooBig
    <2> QED
      BY <1>5, <2>1, <2>2, LimitsAssumption
  <1>11. AfterStart(race, order).list = numbered
    BY AfterStartIs DEF numbered, chosen
  <1>12. Fit(config, entries)
    BY <1>7, <1>8, <1>9, <1>10 DEF Fit
  <1> QED
    BY <1>11, <1>12 DEF config, entries

----------------------------------------------------------------------------
(* What is left of a form *)

\* The entrants of a list after a start: with boxes and cars of their own.
Redrawn(list, new) ==
  /\ DOMAIN new = DOMAIN list
  /\ \A k \in DOMAIN list :
       /\ new[k] = [list[k] EXCEPT !.box = new[k].box, !.model = new[k].model]
       /\ list[k].model # AnyCar => new[k].model = list[k].model

LEMMA ChangedTwice ==
  ASSUME NEW cars, NEW e \in Entrants(cars), NEW c, NEW d,
         c = [e EXCEPT !.box = c.box, !.model = c.model], d = [c EXCEPT !.box = d.box, !.model = d.model]
  PROVE  d = [e EXCEPT !.box = d.box, !.model = d.model]
  <1>1. \A b, m, b2, m2 :
          [[e EXCEPT !.box = b, !.model = m] EXCEPT !.box = b2, !.model = m2] = [e EXCEPT !.box = b2, !.model = m2]
    BY DEF Entrants
  <1> DEFINE box == d.box
             model == d.model
  <1>2. d = [[e EXCEPT !.box = c.box, !.model = c.model] EXCEPT !.box = box, !.model = model]
    OBVIOUS
  <1> HIDE DEF box, model
  <1>3. d = [e EXCEPT !.box = box, !.model = model]
    BY <1>1, <1>2
  <1> QED
    BY <1>3 DEF box, model

LEMMA AskedStill ==
  ASSUME NEW c, NEW d, NEW form, AsAsked(c, form), CanRun(form.config, form.list), Redrawn(c.list, d.list),
         d.config = c.config \/ d.config = [c.config EXCEPT !.sessions = Opened(@)]
  PROVE  AsAsked(d, form)
  <1>1. DOMAIN d.list = DOMAIN form.list
    BY DEF AsAsked, Redrawn
  <1>2. ASSUME NEW k \in DOMAIN d.list
        PROVE  /\ d.list[k] = [form.list[k] EXCEPT !.box = d.list[k].box, !.model = d.list[k].model]
               /\ d.list[k].model = form.list[k].model \/ form.list[k].model = AnyCar
    <2>1. /\ c.list[k] = [form.list[k] EXCEPT !.box = c.list[k].box, !.model = c.list[k].model]
          /\ c.list[k].model = form.list[k].model \/ form.list[k].model = AnyCar
      BY DEF AsAsked, Redrawn
    <2>2. form.list[k] \in Entrants(form.config.cars)
      BY <1>1 DEF CanRun, ListFits
    <2>3. /\ d.list[k] = [c.list[k] EXCEPT !.box = d.list[k].box, !.model = d.list[k].model]
          /\ c.list[k].model # AnyCar => d.list[k].model = c.list[k].model
      BY DEF Redrawn
    <2>4. d.list[k] = [form.list[k] EXCEPT !.box = d.list[k].box, !.model = d.list[k].model]
      BY <2>1, <2>2, <2>3, ChangedTwice
    <2> QED
      BY <2>1, <2>3, <2>4
  <1>3. d.config \in {form.config, [form.config EXCEPT !.sessions = Opened(@)]}
    <2> DEFINE opened == [form.config EXCEPT !.sessions = Opened(@)]
    <2>1. c.config \in {form.config, opened}
      BY DEF AsAsked
    <2>2. [opened EXCEPT !.sessions = Opened(@)] = opened
      <3>1. /\ Opened(Opened(form.config.sessions)) = Opened(form.config.sessions)
            /\ form.config \in [cars : {form.config.cars}, pickup : BOOLEAN, maxBallast : Int, timeAttack : BOOLEAN,
                                loopMode : BOOLEAN, sessions : Openings]
        BY ConfigIs, Opening DEF CanRun
      <3>2. opened.sessions = Opened(form.config.sessions)
        BY <3>1
      <3> QED
        BY <3>1, <3>2
    <2> QED
      BY <2>1, <2>2
  <1> QED
    BY <1>1, <1>2, <1>3 DEF AsAsked

\* A form is what it asks for.
LEMMA AskedItself ==
  ASSUME NEW c, CanRun(c.config, c.list)
  PROVE  AsAsked(c, c)
  <1>1. ASSUME NEW k \in DOMAIN c.list
        PROVE  c.list[k] = [c.list[k] EXCEPT !.box = c.list[k].box, !.model = c.list[k].model]
    <2>1. c.list[k] \in Entrants(c.config.cars)
      BY DEF CanRun, ListFits
    <2> QED
      BY <2>1 DEF Entrants
  <1> QED
    BY <1>1 DEF AsAsked

LEMMA NewEntrants ==
  ASSUME NEW race, NEW order \in SetToSeqs(AnySlots(race.list)), ConfigFits(race.config), ListFits(race.list, race.config.cars),
         NEW new, new \in {Chosen(race, order), Renumbered(Chosen(race, order))}
  PROVE  ListFits(new, race.config.cars) /\ Redrawn(race.list, new)
  <1> DEFINE list == race.list
             cars == race.config.cars
             chosen == Chosen(race, order)
  <1>1. /\ DOMAIN chosen = DOMAIN list /\ ListFits(chosen, cars)
        /\ \A k \in DOMAIN list : /\ chosen[k] = [list[k] EXCEPT !.model = chosen[k].model]
                                  /\ list[k].model # AnyCar => chosen[k].model = list[k].model
    BY ChosenFits
  <1>2. /\ DOMAIN Renumbered(chosen) = DOMAIN list /\ ListFits(Renumbered(chosen), cars)
        /\ \A k \in DOMAIN list : Renumbered(chosen)[k] = [chosen[k] EXCEPT !.box = Renumbered(chosen)[k].box]
    BY <1>1, RenumberedFits
  <1> HIDE DEF chosen
  <1>3. DOMAIN new = DOMAIN list /\ ListFits(new, cars)
    BY <1>1, <1>2 DEF chosen
  <1>4. ASSUME NEW k \in DOMAIN list
        PROVE  /\ new[k] = [list[k] EXCEPT !.box = new[k].box, !.model = new[k].model]
               /\ list[k].model # AnyCar => new[k].model = list[k].model
    <2>1. list[k] \in Entrants(cars)
      BY DEF ListFits
    <2>2. PICK m : /\ chosen[k] = [list[k] EXCEPT !.model = m]
                   /\ list[k].model # AnyCar => m = list[k].model
      BY <1>1
    <2>3. CASE new = chosen
      BY <2>1, <2>2, <2>3 DEF Entrants
    <2>4. CASE new = Renumbered(chosen)
      <3>1. PICK b : new[k] = [chosen[k] EXCEPT !.box = b]
        BY <1>2, <2>4
      <3> QED
        BY <2>1, <2>2, <3>1 DEF Entrants
    <2> QED
      BY <2>3, <2>4 DEF chosen
  <1> QED
    BY <1>3, <1>4 DEF Redrawn

----------------------------------------------------------------------------
(* Copies *)

CopyOf(c, forms) ==
  /\ RaceShape(c) /\ CanRun(c.config, c.list)
  /\ c.id \in DOMAIN forms /\ c.rev \in Nat /\ c.rev <= forms[c.id].rev
  /\ c.rev = forms[c.id].rev => AsAsked(c, forms[c.id])
FormsFit(forms) == \A i \in DOMAIN forms : forms[i].rev \in Nat /\ CanRun(forms[i].config, forms[i].list)

LEMMA StartedIsCopy ==
  ASSUME NEW race, NEW forms, FormsFit(forms), CopyOf(race, forms), NEW order \in SetToSeqs(AnySlots(race.list)),
         NEW new, new \in {AfterStart(race, order), FailedAttack(race, order)}
  PROVE  CopyOf(new, forms)
  <1>1. RaceShape(race) /\ ConfigFits(race.config) /\ ListFits(race.list, race.config.cars) /\ NoneBooked(race.config, race.list)
    BY DEF CopyOf, CanRun
  <1>2. /\ new.config = [race.config EXCEPT !.sessions = Opened(@)]
        /\ new.list \in {Chosen(race, order), Renumbered(Chosen(race, order))}
        /\ new.rev = race.rev /\ new.id = race.id /\ RaceShape(new)
    BY <1>1, AfterStartIs, FailedAttackIs
  <1>3. ListFits(new.list, race.config.cars) /\ Redrawn(race.list, new.list)
    BY <1>1, <1>2, NewEntrants
  <1>4. CanRun(new.config, new.list)
    BY <1>1, <1>2, <1>3, OpenedFits DEF CanRun, NoneBooked, Redrawn
  <1>5. race.rev = forms[race.id].rev => AsAsked(new, forms[race.id])
    <2> SUFFICES ASSUME race.rev = forms[race.id].rev PROVE AsAsked(new, forms[race.id])
      OBVIOUS
    <2>1. AsAsked(race, forms[race.id]) /\ CanRun(forms[race.id].config, forms[race.id].list)
      BY DEF CopyOf, FormsFit
    <2> QED
      BY <1>2, <1>3, <2>1, AskedStill
  <1> QED
    BY <1>2, <1>4, <1>5 DEF CopyOf

----------------------------------------------------------------------------
(* What is asked for can be started *)

LEMMA CustomCanRun ==
  ASSUME NEW id, NEW rev, NEW form \in Forms
  PROVE  LET race == CustomRace(id, rev, form)
         IN  RaceShape(race) /\ race.id = id /\ race.rev = rev /\ CanRun(race.config, race.list)
  <1> DEFINE config == BuildCustomRaceFromForm(form)
             on == IF form.timeAttack THEN {"practice"} ELSE form.enabled
             rows == DOMAIN form.list
             box == [i \in rows |-> form.list[i].box]
             boxes == {box[i] : i \in rows}
             at(b) == {i \in rows : form.list[i].box = b}
             row(b) == CHOOSE i \in rows : form.list[i].box = b /\ \A j \in rows : j > i => form.list[j].box # b
             built == BuildEntryList(form)
             list == IF HasSession(config, "booking") THEN <<>> ELSE built
             race == CustomRace(id, rev, form)
             asForm == [cars |-> form.cars, sessions |-> form.open, pickup |-> form.pickup,
                       maxBallast |-> form.maxBallast, timeAttack |-> form.timeAttack, loopMode |-> form.loopMode]
  <1>1. /\ ConfigFits(asForm) /\ form.enabled \subseteq DOMAIN form.open /\ "practice" \in DOMAIN form.open
        /\ form.list \in Seq(Entrants(form.cars))
    BY FormsAssumption
  <1>2. /\ form.maxBallast \in Int /\ form.pickup \in BOOLEAN /\ form.timeAttack \in BOOLEAN /\ form.loopMode \in BOOLEAN
        /\ form.cars \in Seq(ToSet(form.cars)) /\ ToSet(form.cars) \ {AnyCar} # {} /\ form.open \in Openings
    <2>1. asForm \in [cars : {asForm.cars}, pickup : BOOLEAN, maxBallast : Int, timeAttack : BOOLEAN,
                     loopMode : BOOLEAN, sessions : Openings]
      BY <1>1, ConfigIs
    <2>2. asForm.cars \in Seq(ToSet(asForm.cars)) /\ ToSet(asForm.cars) \ {AnyCar} # {}
      BY <1>1 DEF ConfigFits
    <2> QED
      BY <2>1, <2>2
  <1>3. config = [cars |-> form.cars, sessions |-> [s \in on |-> form.open[s]], pickup |-> form.pickup,
                  maxBallast |-> form.maxBallast, timeAttack |-> form.timeAttack,
                  loopMode |-> form.timeAttack \/ form.loopMode]
    BY DEF BuildCustomRaceFromForm
  <1>4. on \subseteq DOMAIN form.open
    BY <1>1
  <1>5. race = [id |-> id, rev |-> rev, config |-> config, merged |-> {}, list |-> list]
    BY DEF CustomRace
  <1>6. built = [b \in boxes |-> form.list[row(b)]]
    <2>1. boxes = {form.list[i].box : i \in rows}
      OBVIOUS
    <2> QED
      BY <2>1 DEF BuildEntryList
  <1> HIDE DEF config, on, built
  <1>7. [s \in on |-> form.open[s]] \in Openings
    <2>1. PICK some \in SUBSET ToSet(SessionOrder) : form.open \in [some -> Openness]
      BY <1>2 DEF Openings
    <2>2. on \in SUBSET ToSet(SessionOrder) /\ [s \in on |-> form.open[s]] \in [on -> Openness]
      BY <1>4, <2>1
    <2> QED
      BY <2>2 DEF Openings
  <1>8. ConfigFits(config) /\ config.cars = form.cars
    BY <1>2, <1>3, <1>7 DEF ConfigFits, Openings
  <1>9. IsFiniteSet(rows) /\ rows = 1 .. Len(form.list) /\ Len(form.list) \in Nat
        /\ \A i \in rows : form.list[i] \in Entrants(form.cars)
    <2>1. rows = 1 .. Len(form.list) /\ Len(form.list) \in Nat /\ \A i \in rows : form.list[i] \in Entrants(form.cars)
      BY <1>1
    <2> QED
      BY <2>1, FS_Interval
  <1>10. ASSUME NEW b \in boxes PROVE row(b) \in rows
    <2>1. at(b) # {} /\ at(b) \subseteq rows
      OBVIOUS
    <2>2. IsFiniteSet(at(b)) /\ at(b) \in SUBSET Int
      BY <1>9, <2>1, FS_Subset
    <2>3. Max(at(b)) \in at(b) /\ \A i \in at(b) : i <= Max(at(b))
      <3> HIDE DEF at
      <3> QED
        BY <2>1, <2>2, MaxIsGreatest
    <2> DEFINE top == Max(at(b))
    <2>4. top \in rows /\ form.list[top].box = b /\ \A i \in rows : form.list[i].box = b => i <= top
      BY <2>3
    <2> HIDE DEF top
    <2>5. \A j \in rows : j > top => form.list[j].box # b
      BY <1>9, <2>4
    <2> QED
      BY <2>4, <2>5
  <1>11. IsFiniteSet(boxes)
    <2> HIDE DEF box
    <2> QED
      BY <1>9, ImageIsFinite
  <1>12. DOMAIN built = boxes /\ built \in [boxes -> Entrants(form.cars)]
    <2> HIDE DEF boxes, row
    <2> QED
      BY <1>6, <1>9, <1>10
  <1> HIDE DEF boxes, rows, row
  <1>13. ListFits(built, form.cars)
    BY <1>11, <1>12 DEF ListFits
  <1>14. ListFits(<<>>, form.cars) /\ DOMAIN <<>> = {}
    BY FS_EmptySet DEF ListFits
  <1>15. ListFits(list, config.cars) /\ NoneBooked(config, list)
    <2>1. CASE HasSession(config, "booking")
      BY <1>8, <1>14, <2>1 DEF NoneBooked
    <2>2. CASE ~HasSession(config, "booking")
      BY <1>8, <1>13, <2>2 DEF NoneBooked, HasSession
    <2> QED
      BY <2>1, <2>2
  <1> HIDE DEF list
  <1> QED
    BY <1>5, <1>8, <1>15 DEF CanRun, RaceShape

LEMMA QuickCanRun ==
  ASSUME NEW cars \in QuickForms
  PROVE  LET race == QuickRace(cars)
         IN  RaceShape(race) /\ CanRun(race.config, race.list) /\ ~race.config.timeAttack
  <1> DEFINE boxes == IF MaxClientsOverride > 0 THEN Min2(Pitboxes, MaxClientsOverride) ELSE Pitboxes
             config == [cars |-> cars, sessions |-> [s \in {"qualifying", "race"} |-> FreeJoin],
                        pickup |-> TRUE, maxBallast |-> 0, timeAttack |-> FALSE, loopMode |-> TRUE]
             list == [b \in 0 .. (boxes - 1) |-> [model |-> cars[(b % Len(cars)) + 1], ballast |-> 0,
                                                  setup |-> NoSetup, box |-> b]]
  <1>1. cars \in Seq(ToSet(cars)) /\ ToSet(cars) \ {AnyCar} # {}
    BY FormsAssumption
  <1>2. boxes \in Nat
    BY LimitsAssumption DEF Min2
  <1>3. QuickRace(cars) = [id |-> 0, rev |-> 0, merged |-> {}, config |-> config, list |-> list]
    BY DEF QuickRace
  <1>4. ConfigFits(config)
    <2> DEFINE on == {"qualifying", "race"}
    <2>1. on \in SUBSET ToSet(SessionOrder)
      <3>1. DOMAIN SessionOrder = 1 .. 4 /\ SessionOrder[3] = "qualifying" /\ SessionOrder[4] = "race"
        BY DEF SessionOrder
      <3> QED
        BY <3>1 DEF ToSet
    <2>2. [s \in on |-> FreeJoin] \in [on -> Openness]
      BY DEF Openness
    <2> DEFINE open == [s \in on |-> FreeJoin]
    <2>3. open \in Openings
      BY <2>1, <2>2 DEF Openings
    <2>4. config = [cars |-> cars, sessions |-> open, pickup |-> TRUE, maxBallast |-> 0, timeAttack |-> FALSE,
                    loopMode |-> TRUE]
      OBVIOUS
    <2> HIDE DEF open, config
    <2>5. config.cars = cars
      BY <2>4
    <2>6. config \in [cars : {cars}, pickup : BOOLEAN, maxBallast : Int, timeAttack : BOOLEAN,
                      loopMode : BOOLEAN, sessions : Openings]
      BY <2>3, <2>4
    <2> QED
      BY <1>1, <2>5, <2>6 DEF ConfigFits, Openings
  <1>5. ListFits(list, cars)
    <2>1. Len(cars) \in Nat /\ Len(cars) > 0 /\ cars \in [1 .. Len(cars) -> ToSet(cars)]
      <3>1. Len(cars) \in Nat /\ cars \in [1 .. Len(cars) -> ToSet(cars)]
        BY <1>1
      <3>2. Len(cars) # 0
        <4> SUFFICES ASSUME Len(cars) = 0 PROVE FALSE
          OBVIOUS
        <4>1. DOMAIN cars = {}
          BY <3>1
        <4> QED
          BY <1>1, <4>1 DEF ToSet
      <3> QED
        BY <3>1, <3>2
    <2> HIDE DEF boxes
    <2>2. ASSUME NEW b \in 0 .. (boxes - 1) PROVE list[b] \in Entrants(cars)
      <3>1. (b % Len(cars)) + 1 \in 1 .. Len(cars)
        BY <1>2, <2>1
      <3>2. cars[(b % Len(cars)) + 1] \in ToSet(cars)
        BY <2>1, <3>1
      <3> HIDE DEF list
      <3>3. list[b] = [model |-> cars[(b % Len(cars)) + 1], ballast |-> 0, setup |-> NoSetup, box |-> b]
        BY DEF list
      <3> QED
        BY <1>2, <3>2, <3>3 DEF Entrants
    <2>3. IsFiniteSet(0 .. (boxes - 1)) /\ DOMAIN list = 0 .. (boxes - 1)
      BY <1>2, FS_Interval
    <2> QED
      BY <2>2, <2>3 DEF ListFits
  <1>6. NoneBooked(config, list)
    BY DEF NoneBooked
  <1>7. config.cars = cars /\ ~config.timeAttack
    OBVIOUS
  <1> HIDE DEF config, list
  <1> QED
    BY <1>3, <1>4, <1>5, <1>6, <1>7 DEF CanRun, RaceShape

LEMMA EventCanRun ==
  ASSUME NEW e \in ChampionshipEvents
  PROVE  CanRun(e.config, e.list) /\ ~e.config.timeAttack
  <1>1. /\ ConfigFits(e.config) /\ ~e.config.timeAttack /\ e.list \in Seq(Entrants(e.config.cars))
        /\ "booking" \in DOMAIN e.config.sessions => e.list = <<>>
    BY FormsAssumption
  <1>2. /\ DOMAIN e.list = 1 .. Len(e.list) /\ Len(e.list) \in Nat /\ e.list \in [DOMAIN e.list -> Entrants(e.config.cars)]
    BY <1>1
  <1>3. IsFiniteSet(DOMAIN e.list)
    <2>1. Len(e.list) \in Int /\ 1 \in Int
      BY <1>2
    <2>2. IsFiniteSet(1 .. Len(e.list))
      BY <2>1, FS_Interval
    <2> QED
      BY <1>2, <2>2
  <1> QED
    BY <1>1, <1>2, <1>3 DEF CanRun, ListFits, NoneBooked

----------------------------------------------------------------------------
(* The presets and what is held of them *)

AskedInv ==
  /\ FormsFit(asked) /\ DOMAIN asked = DOMAIN presets /\ \E S : asked \in Seq(S)
  /\ \A i \in DOMAIN presets : /\ CopyOf(presets[i], asked)
                               /\ i \in rnotes.stale \/ presets[i].rev = asked[i].rev
HeldInv == (saving # NoRace => CopyOf(saving, asked)) /\ (timeAttack # NoRace => CopyOf(timeAttack, asked))
MeantInv == running # Idle => Fit(running.meant.config, running.meant.entries)
KeptInv == SetupInv /\ AskedInv /\ HeldInv /\ MeantInv

LEMMA StartHolds ==
  ASSUME KeptInv, NEW race, NEW scheduled \in BOOLEAN, ApplyConfigAndStart(race, scheduled),
         RaceShape(race), CanRun(race.config, race.list),
         NEW forms, FormsFit(forms), asked' = forms,
         scheduled \/ race.config.timeAttack => CopyOf(race, forms),
         saving # NoRace => CopyOf(saving, forms)
  PROVE  HeldInv' /\ MeantInv' /\ rnotes'.stale = rnotes.stale
  <1>0. NotesShape(rnotes) /\ MeantInv
    BY DEF KeptInv, SetupInv, FilesInv
  <1>1. PICK order \in SetToSeqs(AnySlots(race.list)) :
           IF CannotStart(race)
           THEN Fails(race, order) /\ UNCHANGED saving
           ELSE /\ Starts(race, AfterStart(race, order))
                /\ saving' = IF scheduled THEN AfterStart(race, order) ELSE saving
                /\ shared' = (scheduled /\ race.config.timeAttack)
    BY DEF ApplyConfigAndStart
  <1>2. CASE CannotStart(race)
    <2>1. Fails(race, order) /\ saving' = saving
      BY <1>1, <1>2
    <2>2. /\ running' = running
          /\ rnotes' = [rnotes EXCEPT !.mixed = @ \/ ~TooBig(race), !.announced = race.config.timeAttack]
      BY <2>1 DEF Fails
    <2>3. rnotes'.stale = rnotes.stale
      BY <1>0, <2>2 DEF NotesShape
    <2>4. MeantInv'
      BY <1>0, <2>2 DEF MeantInv
    <2>5. timeAttack' # NoRace => CopyOf(timeAttack', forms)
      <3>1. CASE race.config.timeAttack
        <4>1. timeAttack' = race \/ timeAttack' = FailedAttack(race, order)
          BY <2>1, <3>1 DEF Fails, FailedAttack
        <4> QED
          BY <3>1, <4>1, StartedIsCopy
      <3>2. CASE ~race.config.timeAttack
        BY <2>1, <3>2 DEF Fails
      <3> QED
        BY <3>1, <3>2
    <2> QED
      BY <2>1, <2>3, <2>4, <2>5 DEF HeldInv
  <1>3. CASE ~CannotStart(race)
    <2> DEFINE after == AfterStart(race, order)
    <2>1. Starts(race, after) /\ saving' = (IF scheduled THEN after ELSE saving)
      BY <1>1, <1>3
    <2>2. Fit(FinalConfig(race), Written(after.list))
      BY <1>3, StartedFits DEF CannotStart
    <2>3. after.config.timeAttack = race.config.timeAttack
      <3>1. after.config = [race.config EXCEPT !.sessions = Opened(@)] /\ ConfigFits(race.config)
        BY AfterStartIs DEF CanRun
      <3> QED
        BY <3>1, OpenedFits
    <2>4. scheduled \/ race.config.timeAttack => CopyOf(after, forms)
      BY StartedIsCopy
    <2> HIDE DEF after
    <2>5. /\ running' = [id |-> race.id, meant |-> [config |-> FinalConfig(race), entries |-> Written(after.list)],
                         read |-> [config |-> FinalConfig(race), entries |-> Written(after.list)]]
          /\ timeAttack' = TimeAttackAfter(after)
          /\ rnotes' = [rnotes EXCEPT !.mixed = FALSE, !.announced = FALSE]
      BY <2>1 DEF Starts
    <2>6. rnotes'.stale = rnotes.stale
      BY <1>0, <2>5 DEF NotesShape
    <2>7. MeantInv'
      BY <2>2, <2>5 DEF MeantInv
    <2>8. HeldInv'
      BY <2>1, <2>3, <2>4, <2>5 DEF HeldInv, TimeAttackAfter
    <2> QED
      BY <2>6, <2>7, <2>8
  <1> QED
    BY <1>2, <1>3

\* A start of what is no preset, or of one that is there.
LEMMA OtherStartHolds ==
  ASSUME KeptInv, SetupInv', NEW race, NEW scheduled \in BOOLEAN, ApplyConfigAndStart(race, scheduled),
         RaceShape(race), CanRun(race.config, race.list), presets' = presets, asked' = asked,
         scheduled \/ race.config.timeAttack => CopyOf(race, asked)
  PROVE  KeptInv'
  <1>1. FormsFit(asked) /\ AskedInv /\ HeldInv
    BY DEF KeptInv, AskedInv
  <1>2. HeldInv' /\ MeantInv' /\ rnotes'.stale = rnotes.stale
    <2> DEFINE forms == asked
    <2>1. FormsFit(forms) /\ asked' = forms /\ (saving # NoRace => CopyOf(saving, forms))
          /\ (scheduled \/ race.config.timeAttack => CopyOf(race, forms))
      BY <1>1 DEF HeldInv
    <2> HIDE DEF forms
    <2> QED
      BY <2>1, StartHolds
  <1>3. AskedInv'
    BY <1>1, <1>2 DEF AskedInv
  <1> QED
    BY <1>2, <1>3 DEF KeptInv

\* More forms, and a form that was edited.
LEMMA MoreForms ==
  ASSUME NEW c, NEW S, NEW forms \in Seq(S), NEW race, CopyOf(c, forms)
  PROVE  CopyOf(c, Append(forms, race))
  <1>1. /\ DOMAIN forms \subseteq DOMAIN Append(forms, race)
        /\ \A i \in DOMAIN forms : Append(forms, race)[i] = forms[i]
    <2> DEFINE T == S \union {race}
    <2>1. forms \in Seq(T) /\ race \in T
      OBVIOUS
    <2> HIDE DEF T
    <2> QED
      BY <2>1
  <1> QED
    BY <1>1 DEF CopyOf

LEMMA EditedForm ==
  ASSUME NEW c, NEW forms, NEW id, NEW race, CopyOf(c, forms), forms[id].rev \in Nat, race.rev = forms[id].rev + 1
  PROVE  CopyOf(c, [forms EXCEPT ![id] = race])
  <1> DEFINE new == [forms EXCEPT ![id] = race]
  <1>1. DOMAIN new = DOMAIN forms /\ c.id \in DOMAIN forms /\ c.rev \in Nat
    BY DEF CopyOf
  <1>2. CASE c.id = id
    <2>1. new[c.id] = race
      BY <1>1, <1>2
    <2>2. c.rev <= forms[id].rev
      BY <1>2 DEF CopyOf
    <2> HIDE DEF new
    <2> QED
      BY <1>1, <2>1, <2>2 DEF CopyOf
  <1>3. CASE c.id # id
    <2>1. new[c.id] = forms[c.id]
      BY <1>1, <1>3
    <2> HIDE DEF new
    <2> QED
      BY <1>1, <2>1 DEF CopyOf
  <1> QED
    BY <1>2, <1>3

LEMMA FreshCopy ==
  ASSUME NEW race, NEW id, NEW forms, id \in DOMAIN forms, forms[id] = race, race.id = id, race.rev \in Nat,
         RaceShape(race), CanRun(race.config, race.list)
  PROVE  CopyOf(race, forms)
  BY AskedItself DEF CopyOf

LEMMA CustomHolds ==
  ASSUME KeptInv, SetupInv', NEW form \in Forms, NEW action, SetupCustomRace(form, action)
  PROVE  KeptInv'
  <1> DEFINE race == CustomRace(Len(presets) + 1, 0, form)
             forms == Append(asked, race)
  <1>1. /\ presets' = Append(presets, race) /\ asked' = forms
        /\ \/ ApplyConfigAndStart(race, FALSE)
           \/ /\ timeAttack' = IF form.timeAttack THEN race ELSE timeAttack
              /\ rnotes' = [rnotes EXCEPT !.announced = @ \/ form.timeAttack]
              /\ UNCHANGED <<files, running, saving>>
           \/ UNCHANGED <<files, running, saving, shared, timeAttack, rnotes>>
    BY DEF SetupCustomRace
  <1>2. RaceShape(race) /\ race.id = Len(presets) + 1 /\ race.rev = 0 /\ CanRun(race.config, race.list)
    BY CustomCanRun
  <1> HIDE DEF race
  <1>3. AskedInv /\ HeldInv /\ MeantInv /\ NotesShape(rnotes) /\ PresetsOwn
    BY DEF KeptInv, SetupInv, FilesInv, OwnInv
  <1>4. PICK S : asked \in Seq(S)
    BY <1>3 DEF AskedInv
  <1>5. PICK P : presets \in Seq(P)
    BY <1>3 DEF PresetsOwn
  <1>6. Len(asked) = Len(presets) /\ Len(presets) \in Nat /\ DOMAIN presets = 1 .. Len(presets) /\ DOMAIN asked = 1 .. Len(presets)
    BY <1>3, <1>4, <1>5 DEF AskedInv
  <1>7. /\ forms \in Seq(S \union {race}) /\ DOMAIN forms = 1 .. (Len(presets) + 1)
        /\ forms[Len(presets) + 1] = race /\ \A i \in 1 .. Len(presets) : forms[i] = asked[i]
    <2> DEFINE T == S \union {race}
    <2>1. asked \in Seq(T) /\ race \in T
      BY <1>4
    <2> HIDE DEF T
    <2>2. /\ forms \in Seq(T) /\ DOMAIN forms = 1 .. (Len(presets) + 1)
          /\ forms[Len(presets) + 1] = race /\ \A i \in 1 .. Len(presets) : forms[i] = asked[i]
      BY <1>6, <2>1
    <2> QED
      BY <2>2 DEF T
  <1>8. /\ DOMAIN presets' = 1 .. (Len(presets) + 1)
        /\ presets'[Len(presets) + 1] = race /\ \A i \in 1 .. Len(presets) : presets'[i] = presets[i]
    <2> DEFINE T == P \union {race}
    <2>1. presets \in Seq(T) /\ race \in T
      BY <1>5
    <2> HIDE DEF T
    <2> QED
      BY <1>1, <1>6, <2>1
  <1>9. \A c : CopyOf(c, asked) => CopyOf(c, forms)
    BY <1>4, MoreForms
  <1> HIDE DEF forms
  <1>10. FormsFit(forms)
    <2>1. \A i \in 1 .. (Len(presets) + 1) : i = Len(presets) + 1 \/ i \in 1 .. Len(presets)
      BY <1>6
    <2> QED
      BY <1>2, <1>3, <1>6, <1>7, <2>1 DEF FormsFit, AskedInv
  <1>11. CopyOf(race, forms)
    <2>1. Len(presets) + 1 \in DOMAIN forms
      BY <1>6, <1>7
    <2> QED
      BY <1>2, <1>7, <2>1, FreshCopy
  <1>12. rnotes'.stale = rnotes.stale => AskedInv'
    <2> SUFFICES ASSUME rnotes'.stale = rnotes.stale PROVE AskedInv'
      OBVIOUS
    <2>1. ASSUME NEW i \in 1 .. (Len(presets) + 1)
          PROVE  CopyOf(presets'[i], forms) /\ (i \in rnotes.stale \/ presets'[i].rev = forms[i].rev)
      <3>1. CASE i = Len(presets) + 1
        BY <1>7, <1>8, <1>11, <3>1
      <3>2. CASE i # Len(presets) + 1
        <4>1. i \in 1 .. Len(presets)
          BY <1>6, <3>2
        <4> QED
          BY <1>3, <1>6, <1>7, <1>8, <1>9, <4>1 DEF AskedInv
      <3> QED
        BY <3>1, <3>2
    <2> QED
      BY <1>1, <1>7, <1>8, <1>10, <2>1 DEF AskedInv
  <1>13. (saving # NoRace => CopyOf(saving, forms)) /\ (timeAttack # NoRace => CopyOf(timeAttack, forms))
    BY <1>3, <1>9 DEF HeldInv
  <1>14. CASE ApplyConfigAndStart(race, FALSE)
    <2>1. HeldInv' /\ MeantInv' /\ rnotes'.stale = rnotes.stale
      BY <1>1, <1>2, <1>10, <1>11, <1>13, <1>14, StartHolds
    <2> QED
      BY <1>12, <2>1 DEF KeptInv
  <1>15. CASE /\ timeAttack' = IF form.timeAttack THEN race ELSE timeAttack
              /\ rnotes' = [rnotes EXCEPT !.announced = @ \/ form.timeAttack]
              /\ UNCHANGED <<files, running, saving>>
    <2>1. rnotes'.stale = rnotes.stale
      BY <1>3, <1>15 DEF NotesShape
    <2>2. timeAttack' = race \/ timeAttack' = timeAttack
      BY <1>15
    <2>3. HeldInv'
      BY <1>1, <1>11, <1>13, <1>15, <2>2 DEF HeldInv
    <2> QED
      BY <1>3, <1>12, <1>15, <2>1, <2>3 DEF KeptInv, MeantInv
  <1>16. CASE UNCHANGED <<files, running, saving, shared, timeAttack, rnotes>>
    BY <1>1, <1>3, <1>12, <1>13, <1>16 DEF KeptInv, MeantInv, HeldInv
  <1> QED
    BY <1>1, <1>14, <1>15, <1>16

LEMMA QuickHolds ==
  ASSUME KeptInv, SetupInv', NEW cars \in QuickForms, SetupQuickRace(cars)
  PROVE  KeptInv'
  <1> DEFINE race == QuickRace(cars)
  <1>1. ApplyConfigAndStart(race, FALSE) /\ presets' = presets /\ asked' = asked
    BY DEF SetupQuickRace
  <1>2. RaceShape(race) /\ CanRun(race.config, race.list) /\ ~race.config.timeAttack
    BY QuickCanRun
  <1> HIDE DEF race
  <1> QED
    BY <1>1, <1>2, OtherStartHolds

LEMMA EventHolds ==
  ASSUME KeptInv, SetupInv', NEW e \in ChampionshipEvents, StartChampionshipEvent(e)
  PROVE  KeptInv'
  <1> DEFINE race == [id |-> 0, rev |-> 0, merged |-> {}, config |-> e.config, list |-> e.list]
  <1>1. ApplyConfigAndStart(race, FALSE) /\ presets' = presets /\ asked' = asked
    BY DEF StartChampionshipEvent
  <1>2. RaceShape(race) /\ CanRun(race.config, race.list) /\ ~race.config.timeAttack
    BY EventCanRun DEF RaceShape
  <1> HIDE DEF race
  <1> QED
    BY <1>1, <1>2, OtherStartHolds

LEMMA StartCustomHolds ==
  ASSUME KeptInv, SetupInv', NEW id, NEW scheduled \in BOOLEAN, StartCustomRace(id, scheduled)
  PROVE  KeptInv'
  <1>1. ApplyConfigAndStart(presets[id], scheduled) /\ presets' = presets /\ asked' = asked /\ id \in DOMAIN presets
    BY DEF StartCustomRace
  <1>2. CopyOf(presets[id], asked)
    BY <1>1 DEF KeptInv, AskedInv
  <1>3. RaceShape(presets[id]) /\ CanRun(presets[id].config, presets[id].list)
    BY <1>2 DEF CopyOf
  <1> QED
    BY <1>1, <1>2, <1>3, OtherStartHolds

LEMMA EditHolds ==
  ASSUME KeptInv, SetupInv', NEW id, NEW form \in Forms, EditCustomRace(id, form)
  PROVE  KeptInv'
  <1> DEFINE custom == CustomRace(id, asked[id].rev + 1, form)
             race == [custom EXCEPT !.merged = presets[id].merged]
             forms == [asked EXCEPT ![id] = race]
  <1>1. /\ id \in DOMAIN presets /\ presets' = [presets EXCEPT ![id] = race] /\ asked' = forms
        /\ rnotes' = [rnotes EXCEPT !.stale = @ \ {id}]
        /\ UNCHANGED <<running, timeAttack, saving>>
    BY DEF EditCustomRace
  <1>2. /\ RaceShape(custom) /\ custom.id = id /\ custom.rev = asked[id].rev + 1
        /\ CanRun(custom.config, custom.list)
    BY CustomCanRun
  <1> HIDE DEF custom
  <1>3. AskedInv /\ HeldInv /\ MeantInv /\ NotesShape(rnotes)
    BY DEF KeptInv, SetupInv, FilesInv
  <1>4. RaceShape(race) /\ race.id = id /\ race.rev = asked[id].rev + 1 /\ CanRun(race.config, race.list)
    <2> DEFINE merged == presets[id].merged
    <2> HIDE DEF merged
    <2>1. race = [custom EXCEPT !.merged = merged]
      BY DEF merged
    <2> HIDE DEF race
    <2>2. race = [id |-> custom.id, rev |-> custom.rev, config |-> custom.config, merged |-> merged, list |-> custom.list]
      BY <1>2, <2>1 DEF RaceShape
    <2> QED
      BY <1>2, <2>2 DEF RaceShape
  <1> HIDE DEF race
  <1>5. PICK S : asked \in Seq(S)
    BY <1>3 DEF AskedInv
  <1>6. /\ id \in DOMAIN asked /\ asked[id].rev \in Nat
        /\ DOMAIN forms = DOMAIN asked /\ forms[id] = race /\ \A i \in DOMAIN asked : i # id => forms[i] = asked[i]
    BY <1>1, <1>3 DEF AskedInv, FormsFit
  <1>7. forms \in Seq(S \union {race})
    <2>1. asked \in [1 .. Len(asked) -> S] /\ Len(asked) \in Nat
      BY <1>5
    <2>2. forms \in [1 .. Len(asked) -> S \union {race}]
      BY <2>1
    <2> QED
      BY <2>1, <2>2
  <1>8. \A c : CopyOf(c, asked) => CopyOf(c, forms)
    BY <1>4, <1>6, EditedForm
  <1> HIDE DEF forms
  <1>9. FormsFit(forms)
    BY <1>3, <1>4, <1>6 DEF FormsFit, AskedInv
  <1>10. CopyOf(race, forms)
    BY <1>4, <1>6, FreshCopy
  <1>11. rnotes'.stale = rnotes.stale \ {id}
    BY <1>1, <1>3 DEF NotesShape
  <1>12. AskedInv'
    <2>1. ASSUME NEW i \in DOMAIN presets
          PROVE  CopyOf(presets'[i], forms) /\ (i \in rnotes'.stale \/ presets'[i].rev = forms[i].rev)
      <3>1. CASE i = id
        <4>1. presets'[i] = race
          BY <1>1, <3>1
        <4> QED
          BY <1>6, <1>10, <3>1, <4>1
      <3>2. CASE i # id
        <4>1. presets'[i] = presets[i] /\ forms[i] = asked[i]
          BY <1>1, <1>3, <1>6, <3>2 DEF AskedInv
        <4> QED
          BY <1>3, <1>8, <1>11, <3>2, <4>1 DEF AskedInv
      <3> QED
        BY <3>1, <3>2
    <2>2. DOMAIN presets' = DOMAIN presets
      BY <1>1
    <2> QED
      BY <1>1, <1>3, <1>6, <1>7, <1>9, <2>1, <2>2 DEF AskedInv
  <1>13. HeldInv'
    BY <1>1, <1>3, <1>8 DEF HeldInv
  <1>14. MeantInv'
    BY <1>1, <1>3 DEF MeantInv
  <1> QED
    BY <1>12, <1>13, <1>14 DEF KeptInv

LEMMA SavedHolds ==
  ASSUME AskedInv, NotesShape(rnotes), NEW race, NEW mixes, CopyOf(race, asked), SavesCopy(race, mixes), asked' = asked
  PROVE  AskedInv'
  <1>1. /\ presets' = [presets EXCEPT ![race.id] = race]
        /\ rnotes' = [rnotes EXCEPT !.stale = IF race.rev = asked[race.id].rev THEN @ ELSE @ \union {race.id},
                                    !.foreign = @ \union mixes]
    BY DEF SavesCopy
  <1>2. rnotes'.stale = IF race.rev = asked[race.id].rev THEN rnotes.stale ELSE rnotes.stale \union {race.id}
    BY <1>1 DEF NotesShape
  <1>3. ASSUME NEW i \in DOMAIN presets
        PROVE  CopyOf(presets'[i], asked) /\ (i \in rnotes'.stale \/ presets'[i].rev = asked[i].rev)
    <2>1. CASE i = race.id
      <3>1. presets'[i] = race
        BY <1>1, <2>1
      <3> QED
        BY <1>2, <2>1, <3>1
    <2>2. CASE i # race.id
      <3>1. presets'[i] = presets[i]
        BY <1>1, <2>2
      <3> QED
        BY <1>2, <2>2, <3>1 DEF AskedInv
    <2> QED
      BY <2>1, <2>2
  <1> QED
    BY <1>1, <1>3 DEF AskedInv

LEMMA SaveHolds ==
  ASSUME KeptInv, SetupInv', SaveStarted
  PROVE  KeptInv'
  <1>1. /\ SavesCopy(saving, {}) /\ saving # NoRace /\ saving' = NoRace /\ UNCHANGED <<running, timeAttack, asked>>
    BY DEF SaveStarted
  <1>2. AskedInv /\ HeldInv /\ MeantInv /\ NotesShape(rnotes)
    BY DEF KeptInv, SetupInv, FilesInv
  <1>3. AskedInv'
    BY <1>1, <1>2, SavedHolds DEF HeldInv
  <1> QED
    BY <1>1, <1>2, <1>3 DEF KeptInv, HeldInv, MeantInv

LEMMA SessionHolds ==
  ASSUME KeptInv, SetupInv', NEW ends \in BOOLEAN, SessionEnds(ends)
  PROVE  KeptInv'
  <1> DEFINE race == [timeAttack EXCEPT !.merged = @ \union {running.id}]
             mixes == IF rnotes.announced THEN {<<race.id, running.id>>} ELSE {}
  <1>1. AskedInv /\ HeldInv /\ MeantInv /\ NotesShape(rnotes)
    BY DEF KeptInv, SetupInv, FilesInv
  <1>2. running' = (IF ends THEN Idle ELSE running) /\ asked' = asked
    BY DEF SessionEnds
  <1>3. MeantInv'
    BY <1>1, <1>2 DEF MeantInv
  <1>4. CASE timeAttack = NoRace
    <2>1. UNCHANGED <<presets, timeAttack, saving, rnotes>>
      BY <1>4 DEF SessionEnds
    <2> QED
      BY <1>1, <1>2, <1>3, <2>1 DEF KeptInv, AskedInv, HeldInv
  <1>5. CASE timeAttack # NoRace
    <2>1. timeAttack' = race /\ saving' \in {race, saving} /\ SavesCopy(race, mixes)
      BY <1>5 DEF SessionEnds
    <2>2. CopyOf(timeAttack, asked)
      BY <1>1, <1>5 DEF HeldInv
    <2>3. /\ RaceShape(race) /\ race.id = timeAttack.id /\ race.rev = timeAttack.rev
          /\ race.config = timeAttack.config /\ race.list = timeAttack.list
      <3> DEFINE merged == timeAttack.merged \union {running.id}
      <3>1. race = [timeAttack EXCEPT !.merged = merged]
        OBVIOUS
      <3> HIDE DEF race, merged
      <3>2. race = [id |-> timeAttack.id, rev |-> timeAttack.rev, config |-> timeAttack.config,
                    merged |-> merged, list |-> timeAttack.list]
        BY <2>2, <3>1 DEF CopyOf, RaceShape
      <3> QED
        BY <3>2 DEF RaceShape
    <2> HIDE DEF race, mixes
    <2>4. CopyOf(race, asked)
      BY <2>2, <2>3 DEF CopyOf, AsAsked
    <2>5. AskedInv'
      BY <1>1, <1>2, <2>1, <2>4, SavedHolds
    <2>6. HeldInv'
      BY <1>1, <1>2, <2>1, <2>4 DEF HeldInv
    <2> QED
      BY <1>3, <2>5, <2>6 DEF KeptInv
  <1> QED
    BY <1>4, <1>5

LEMMA RestartHolds ==
  ASSUME KeptInv, SetupInv', Restart \/ Stop
  PROVE  KeptInv'
  <1>1. AskedInv /\ HeldInv /\ MeantInv /\ RunShape(running)
    BY DEF KeptInv, SetupInv, FilesInv
  <1>2. UNCHANGED <<presets, timeAttack, saving, rnotes, asked>> /\ running # Idle
    BY DEF Restart, Stop
  <1>3. \/ running' = [running EXCEPT !.read = files]
        \/ running' = Idle
    BY DEF Restart, Stop
  <1>4. running' # Idle => running'.meant = running.meant
    BY <1>1, <1>3 DEF RunShape
  <1> QED
    BY <1>1, <1>2, <1>4 DEF KeptInv, AskedInv, HeldInv, MeantInv

LEMMA StillHolds ==
  ASSUME KeptInv, SetupInv', UNCHANGED <<presets, running, timeAttack, saving, rnotes, asked>>
  PROVE  KeptInv'
  BY DEF KeptInv, AskedInv, HeldInv, MeantInv

LEMMA KeptStep ==
  ASSUME KeptInv, [SetupNext]_setupVars
  PROVE  KeptInv'
  <1>1. SetupInv'
    BY SetupStep DEF KeptInv
  <1>2. ASSUME NEW s \in FixedSetups, ToggleSetup(s) PROVE KeptInv'
    BY <1>1, <1>2, StillHolds DEF ToggleSetup
  <1>3. CASE UNCHANGED setupVars
    BY <1>1, <1>3, StillHolds DEF setupVars
  <1> QED
    BY <1>1, <1>2, <1>3, QuickHolds, EventHolds, CustomHolds, EditHolds, StartCustomHolds, SaveHolds, SessionHolds, RestartHolds
    DEF SetupNext

LEMMA KeptStart == SetupInit => KeptInv
  <1> SUFFICES ASSUME SetupInit PROVE KeptInv
    OBVIOUS
  <1>1. asked \in Seq({}) /\ DOMAIN asked = {} /\ DOMAIN presets = {}
    BY DEF SetupInit
  <1>2. AskedInv
    BY <1>1 DEF AskedInv, FormsFit
  <1> QED
    BY <1>2, SetupStart DEF SetupInit, KeptInv, HeldInv, MeantInv

\* What acServer has read fits together, unless it was restarted after a start that failed
\* between its two files; a preset is what its last form asked for, but for what a start
\* changes and unless an older copy was saved.
THEOREM FilesAndPresetsAreKept == SetupSpec => []FilesAndPresetsKept
  <1>1. SetupInit => KeptInv
    BY KeptStart
  <1>2. KeptInv /\ [SetupNext]_setupVars => KeptInv'
    BY KeptStep
  <1>3. KeptInv => FilesAndPresetsKept
    <2> SUFFICES ASSUME KeptInv PROVE FilesAndPresetsKept
      OBVIOUS
    <2>1. FilesFit
      BY DEF KeptInv, MeantInv, FilesFit
    <2>2. PresetsKept
      <3> SUFFICES ASSUME NEW id \in DOMAIN presets, id \notin rnotes.stale PROVE AsAsked(presets[id], asked[id])
        BY DEF PresetsKept
      <3>1. presets[id].id = id
        BY DEF KeptInv, SetupInv, OwnInv, PresetsOwn
      <3>2. CopyOf(presets[id], asked) /\ presets[id].rev = asked[id].rev
        BY DEF KeptInv, AskedInv
      <3> QED
        BY <3>1, <3>2 DEF CopyOf
    <2> QED
      BY <2>1, <2>2 DEF FilesAndPresetsKept
  <1> QED
    BY <1>1, <1>2, <1>3, PTL DEF SetupSpec

------------------------------------------------------------------------------
(* Reminders                                                                    *)

ReminderTimer == [of : Scheduled, date : Nat, lead : Nat, set : Nat \X Nat, kept : BOOLEAN]
ServerOptions == [leads : LeadLists, token : Tokens \cup {NoToken}]

RemindersTyped ==
  /\ minute \in Nat /\ calls \in Nat /\ starts \in Nat
  /\ options \in ServerOptions /\ date \in [Scheduled -> Nat] /\ timers \subseteq ReminderTimer

\* A timer the map remembers is of the event's date, and of a lead that is set.
Truthful(tm) ==
  tm.kept /\ tm.of \notin Sessions => date[tm.of] = tm.date /\ (tm.lead \in LeadsOf(options) \/ tm.of \in excused)

\* An event has a timer for each lead that lies ahead.
Announced(tms, e, at, opts) ==
  \A lead \in LeadsOf(opts) : at - lead > minute => \E tm \in tms : tm.of = e /\ tm.date = at /\ tm.lead = lead

DiscordFits ==
  /\ discord = [enabled |-> discord.enabled, token |-> discord.token, failed |-> discord.failed]
  /\ options.token # NoToken /\ discord.failed = FALSE => discord.enabled = TRUE

RemindersInv ==
  /\ RemindersTyped /\ DiscordFits
  /\ \A tm \in timers : Truthful(tm)
  /\ \A e \in Scheduled \ excused : Announced(timers, e, date[e], options)

LEMMA LeadsAre ==
  ASSUME NEW opts \in ServerOptions
  PROVE  /\ \A k \in Leads(opts) : opts.leads[k] \in Nat /\ opts.leads[k] # 0
         /\ LeadsOf(opts) \subseteq Nat
  <1>1. opts.leads \in Seq(Nat)
    BY LeadsAssumption DEF ServerOptions
  <1> QED
    BY <1>1 DEF Leads, LeadsOf

LEMMA StoppedIs ==
  ASSUME NEW tms, tms \subseteq ReminderTimer, NEW es, NEW opts
  PROVE  /\ Stopped(tms, es) \subseteq tms
         /\ \A tm \in Stopped(tms, es) : tm.of \in es => ~tm.kept
         /\ \A e, at : e \notin es /\ Announced(tms, e, at, opts) => Announced(Stopped(tms, es), e, at, opts)
  BY DEF Stopped, Kept, Announced

LEMMA ForgottenIs ==
  ASSUME NEW tms, tms \subseteq ReminderTimer, NEW es
  PROVE  /\ Forgotten(tms, es) \subseteq ReminderTimer
         /\ \A u \in Forgotten(tms, es) : u.kept => u \in tms
         /\ \A tm \in tms : \E u \in Forgotten(tms, es) : u.of = tm.of /\ u.date = tm.date /\ u.lead = tm.lead
  <1> DEFINE new(tm) == IF tm.of \in es THEN [tm EXCEPT !.kept = FALSE] ELSE tm
  <1>1. ASSUME NEW tm \in ReminderTimer
        PROVE  /\ new(tm) \in ReminderTimer /\ (new(tm).kept => new(tm) = tm)
               /\ new(tm).of = tm.of /\ new(tm).date = tm.date /\ new(tm).lead = tm.lead
    BY DEF ReminderTimer
  <1>2. Forgotten(tms, es) = {new(tm) : tm \in tms}
    BY DEF Forgotten
  <1> HIDE DEF new
  <1> QED
    BY <1>1, <1>2

LEMMA TimersAre ==
  ASSUME RemindersTyped, NEW e \in Scheduled, NEW at \in Nat, NEW opts \in ServerOptions, NEW last
  PROVE  /\ Timers(e, at, opts, last) \subseteq ReminderTimer
         /\ \A tm \in Timers(e, at, opts, last) : tm.of = e /\ tm.date = at /\ tm.lead \in LeadsOf(opts)
         /\ Announced(Timers(e, at, opts, last), e, at, opts)
  <1> DEFINE kept(k) == \A l \in last : l <= k
             timer(k) == [of |-> e, date |-> at, lead |-> opts.leads[k], set |-> <<calls + starts, k>>, kept |-> kept(k)]
  <1>1. Timers(e, at, opts, last) = {timer(k) : k \in Ahead(at, opts)}
    BY DEF Timers
  <1>2. ASSUME NEW k \in Leads(opts)
        PROVE  timer(k) \in ReminderTimer /\ timer(k).of = e /\ timer(k).date = at /\ timer(k).lead = opts.leads[k]
    <2>1. kept(k) \in BOOLEAN
      OBVIOUS
    <2>2. opts.leads[k] \in Nat /\ calls + starts \in Nat
      BY LeadsAre DEF RemindersTyped
    <2>3. k \in Nat
      BY LeadsAssumption DEF ServerOptions, Leads
    <2> HIDE DEF kept
    <2> QED
      BY <2>1, <2>2, <2>3 DEF ReminderTimer
  <1>3. Ahead(at, opts) \subseteq Leads(opts)
    BY DEF Ahead
  <1>4. \A k \in Leads(opts) : opts.leads[k] \in LeadsOf(opts)
    BY DEF LeadsOf
  <1> HIDE DEF timer
  <1>5. Announced(Timers(e, at, opts, last), e, at, opts)
    <2>1. ASSUME NEW lead \in LeadsOf(opts), at - lead > minute
          PROVE  \E tm \in Timers(e, at, opts, last) : tm.of = e /\ tm.date = at /\ tm.lead = lead
      <3>1. PICK k \in Leads(opts) : lead = opts.leads[k]
        BY DEF LeadsOf
      <3>2. k \in Ahead(at, opts)
        BY <2>1, <3>1 DEF Ahead
      <3> QED
        BY <1>1, <1>2, <3>1, <3>2
    <2> QED
      BY <2>1 DEF Announced
  <1> QED
    BY <1>1, <1>2, <1>3, <1>4, <1>5

\* Setting timers keeps what was told, and remembers none but those and the ones before.
LEMMA SetIs ==
  ASSUME RemindersTyped, NEW tms, tms \subseteq ReminderTimer, NEW e \in Scheduled, NEW at \in Nat, NEW opts \in ServerOptions
  PROVE  /\ Set(tms, e, at, opts) \subseteq ReminderTimer
         /\ \A u \in Set(tms, e, at, opts) : u.kept => u \in tms \/ (u.of = e /\ u.date = at /\ u.lead \in LeadsOf(opts))
         /\ Announced(Set(tms, e, at, opts), e, at, opts)
         /\ \A f, d : Announced(tms, f, d, opts) => Announced(Set(tms, e, at, opts), f, d, opts)
  <1> DEFINE old == IF Leads(opts) = {} THEN tms ELSE Forgotten(tms, {e})
             new == Timers(e, at, opts, Leads(opts))
  <1>1. Set(tms, e, at, opts) = old \cup new
    BY DEF Set
  <1>2. /\ old \subseteq ReminderTimer /\ \A u \in old : u.kept => u \in tms
        /\ \A tm \in tms : \E u \in old : u.of = tm.of /\ u.date = tm.date /\ u.lead = tm.lead
    BY ForgottenIs
  <1>3. /\ new \subseteq ReminderTimer /\ Announced(new, e, at, opts)
        /\ \A tm \in new : tm.of = e /\ tm.date = at /\ tm.lead \in LeadsOf(opts)
    BY TimersAre
  <1> HIDE DEF old, new
  <1>4. Announced(old \cup new, e, at, opts)
    BY <1>3 DEF Announced
  <1>5. \A f, d : Announced(tms, f, d, opts) => Announced(old \cup new, f, d, opts)
    BY <1>2 DEF Announced
  <1> QED
    BY <1>1, <1>2, <1>3, <1>4, <1>5

LEMMA SetAheadIs ==
  ASSUME RemindersTyped, NEW tms, tms \subseteq ReminderTimer, NEW which, which \subseteq Scheduled,
         NEW dates \in [Scheduled -> Nat], NEW opts \in ServerOptions
  PROVE  /\ SetAhead(tms, which, dates, opts) \subseteq ReminderTimer
         /\ \A u \in SetAhead(tms, which, dates, opts) :
              u.kept => u \in tms \/ (u.of \in which /\ u.date = dates[u.of] /\ u.lead \in LeadsOf(opts))
         /\ \A e \in which : Announced(SetAhead(tms, which, dates, opts), e, dates[e], opts)
         /\ \A f, d : Announced(tms, f, d, opts) => Announced(SetAhead(tms, which, dates, opts), f, d, opts)
  <1> DEFINE es == {e \in which : Ahead(dates[e], opts) # {}}
             old == Forgotten(tms, es)
             of(e) == Timers(e, dates[e], opts, Ahead(dates[e], opts))
             new == UNION {of(e) : e \in which}
  <1>1. SetAhead(tms, which, dates, opts) = old \cup new
    BY DEF SetAhead
  <1> HIDE DEF es
  <1>2. /\ old \subseteq ReminderTimer /\ \A u \in old : u.kept => u \in tms
        /\ \A tm \in tms : \E u \in old : u.of = tm.of /\ u.date = tm.date /\ u.lead = tm.lead
    BY ForgottenIs
  <1>3. ASSUME NEW e \in which
        PROVE  /\ of(e) \subseteq ReminderTimer /\ Announced(of(e), e, dates[e], opts)
               /\ \A tm \in of(e) : tm.of = e /\ tm.date = dates[e] /\ tm.lead \in LeadsOf(opts)
    BY TimersAre
  <1> HIDE DEF old, of
  <1>4. ASSUME NEW e \in which PROVE Announced(old \cup new, e, dates[e], opts)
    <2>1. of(e) \subseteq old \cup new
      OBVIOUS
    <2> QED
      BY <1>3, <2>1 DEF Announced
  <1>5. \A f, d : Announced(tms, f, d, opts) => Announced(old \cup new, f, d, opts)
    BY <1>2 DEF Announced
  <1>6. ASSUME NEW u \in new
        PROVE  u \in ReminderTimer /\ u.of \in which /\ u.date = dates[u.of] /\ u.lead \in LeadsOf(opts)
    <2>1. PICK e \in which : u \in of(e)
      OBVIOUS
    <2> QED
      BY <1>3, <2>1
  <1> HIDE DEF new
  <1> QED
    BY <1>1, <1>2, <1>4, <1>5, <1>6

LEMMA RemindersStart == RemindersInit => RemindersInv
  <1> SUFFICES ASSUME RemindersInit PROVE RemindersInv
    OBVIOUS
  <1>1. RemindersTyped
    BY DEF RemindersInit, RemindersTyped, ServerOptions
  <1>2. DiscordFits
    BY DEF RemindersInit, DiscordFits
  <1>3. ASSUME NEW e \in Scheduled PROVE Announced(timers, e, date[e], options)
    <2>1. LeadsOf(options) \subseteq Nat /\ date[e] = 0 /\ minute = 1
      BY <1>1, LeadsAre DEF RemindersInit, RemindersTyped
    <2> QED
      BY <2>1 DEF Announced
  <1>4. timers = {}
    BY DEF RemindersInit
  <1> QED
    BY <1>1, <1>2, <1>3, <1>4 DEF RemindersInv

LEMMA ScheduleKeepsReminders ==
  ASSUME RemindersInv, NEW e, NEW at \in 1 .. Horizon, Schedule(e, at)
  PROVE  RemindersInv'
  <1>0. RemindersTyped /\ DiscordFits /\ e \in Scheduled /\ at \in Nat /\ Horizon \in Nat
    BY LeadsAssumption DEF RemindersInv, Schedule, Scheduled
  <1>1. minute' = minute /\ options' = options /\ discord' = discord /\ calls' = calls + 1 /\ starts' = starts
    BY DEF Schedule, Call
  <1>2. options \in ServerOptions /\ timers \subseteq ReminderTimer
    BY <1>0 DEF RemindersTyped
  <1> DEFINE s == Stopped(timers, {e})
  <1>3. /\ s \subseteq timers /\ \A tm \in s : tm.of = e => ~tm.kept
        /\ \A f, d : f # e /\ Announced(timers, f, d, options) => Announced(s, f, d, options)
    BY <1>2, StoppedIs
  <1>4. \/ /\ date' = [date EXCEPT ![e] = at] /\ timers' = Set(s, e, at, options) /\ excused' = excused \ {e}
        \/ timers' = s /\ excused' = excused \cup {e} /\ date' = date
    BY DEF Schedule
  <1> HIDE DEF s
  <1>5. CASE date' = [date EXCEPT ![e] = at] /\ timers' = Set(s, e, at, options) /\ excused' = excused \ {e}
    <2>1. /\ timers' \subseteq ReminderTimer
          /\ \A u \in timers' : u.kept => u \in s \/ (u.of = e /\ u.date = at /\ u.lead \in LeadsOf(options))
          /\ Announced(timers', e, at, options)
          /\ \A f, d : Announced(s, f, d, options) => Announced(timers', f, d, options)
      BY <1>0, <1>2, <1>3, <1>5, SetIs
    <2>2. date' \in [Scheduled -> Nat] /\ date'[e] = at /\ \A f \in Scheduled : f # e => date'[f] = date[f]
      BY <1>0, <1>5 DEF RemindersTyped
    <2>3. RemindersTyped'
      BY <1>0, <1>1, <2>1, <2>2 DEF RemindersTyped
    <2>4. DiscordFits'
      BY <1>0, <1>1 DEF DiscordFits
    <2>5. ASSUME NEW u \in timers' PROVE Truthful(u)'
      <3>1. CASE ~u.kept \/ u.of \in Sessions
        BY <3>1 DEF Truthful
      <3>2. CASE u.of = e /\ u.date = at /\ u.lead \in LeadsOf(options)
        BY <1>1, <2>2, <3>2 DEF Truthful, LeadsOf, Leads
      <3>3. CASE u \in s /\ u.kept /\ u.of \notin Sessions
        <4>1. u.of # e /\ u \in timers
          BY <1>3, <3>3
        <4>2. Truthful(u) /\ u.of \in Scheduled
          BY <1>2, <4>1 DEF RemindersInv, ReminderTimer
        <4> QED
          BY <1>1, <1>5, <2>2, <4>1, <4>2 DEF Truthful, LeadsOf, Leads
      <3> QED
        BY <2>1, <3>1, <3>2, <3>3
    <2>6. ASSUME NEW f \in Scheduled \ excused' PROVE Announced(timers, f, date[f], options)'
      <3>1. Announced(timers', f, date'[f], options)
        BY <1>3, <1>5, <2>1, <2>2 DEF RemindersInv
      <3> QED
        BY <1>1, <3>1 DEF Announced, LeadsOf, Leads
    <2> QED
      BY <2>3, <2>4, <2>5, <2>6 DEF RemindersInv, Scheduled
  <1>6. CASE timers' = s /\ excused' = excused \cup {e} /\ date' = date
    <2>1. RemindersTyped' /\ DiscordFits'
      BY <1>0, <1>1, <1>2, <1>3, <1>6 DEF RemindersTyped, DiscordFits
    <2>2. ASSUME NEW u \in timers' PROVE Truthful(u)'
      <3>1. Truthful(u)
        BY <1>3, <1>6 DEF RemindersInv
      <3> QED
        BY <1>1, <1>6, <3>1 DEF Truthful, LeadsOf, Leads
    <2>3. ASSUME NEW f \in Scheduled \ excused' PROVE Announced(timers, f, date[f], options)'
      <3>1. Announced(timers', f, date[f], options)
        BY <1>3, <1>6 DEF RemindersInv
      <3> QED
        BY <1>1, <1>6, <3>1 DEF Announced, LeadsOf, Leads
    <2> QED
      BY <2>1, <2>2, <2>3 DEF RemindersInv, Scheduled
  <1> QED
    BY <1>4, <1>5, <1>6
\* What a step that sets timers has to keep.
LEMMA RemindersStay ==
  ASSUME RemindersInv, minute' = minute, options' \in ServerOptions, date' \in [Scheduled -> Nat],
         calls' \in Nat, starts' \in Nat, timers' \subseteq ReminderTimer, DiscordFits',
         \A tm \in timers' : tm.kept /\ tm.of \notin Sessions =>
           date'[tm.of] = tm.date /\ (tm.lead \in LeadsOf(options') \/ tm.of \in excused'),
         \A e \in Scheduled \ excused' : Announced(timers', e, date'[e], options')
  PROVE  RemindersInv'
  <1>1. RemindersTyped'
    BY DEF RemindersInv, RemindersTyped, Scheduled
  <1>2. \A tm \in timers' : Truthful(tm)'
    BY DEF Truthful, LeadsOf, Leads
  <1>3. \A e \in Scheduled \ excused' : Announced(timers, e, date[e], options)'
    BY DEF Announced, LeadsOf, Leads
  <1> QED
    BY <1>1, <1>2, <1>3 DEF RemindersInv, Scheduled

LEMMA ScheduleSessionKeepsReminders ==
  ASSUME RemindersInv, NEW e, NEW at \in 1 .. Horizon, ScheduleSession(e, at)
  PROVE  RemindersInv'
  <1>0. RemindersTyped /\ DiscordFits /\ e \in Scheduled /\ e \in Sessions /\ at \in Nat
    BY LeadsAssumption DEF RemindersInv, ScheduleSession, Scheduled
  <1>1. minute' = minute /\ options' = options /\ discord' = discord /\ calls' = calls + 1 /\ starts' = starts
    BY DEF ScheduleSession, Call
  <1>2. options \in ServerOptions /\ timers \subseteq ReminderTimer /\ date' \in [Scheduled -> Nat]
        /\ date'[e] = at /\ \A f \in Scheduled : f # e => date'[f] = date[f]
    BY <1>0 DEF RemindersTyped, ScheduleSession
  <1>3. timers' = SetAhead(timers, {e}, date', options) /\ excused' = excused \ {e}
    BY DEF ScheduleSession
  <1>4. /\ timers' \subseteq ReminderTimer
        /\ \A u \in timers' : u.kept => u \in timers \/ (u.of \in {e} /\ u.date = date'[u.of] /\ u.lead \in LeadsOf(options))
        /\ \A f \in {e} : Announced(timers', f, date'[f], options)
        /\ \A f, d : Announced(timers, f, d, options) => Announced(timers', f, d, options)
    BY <1>0, <1>2, <1>3, SetAheadIs
  <1>5. ASSUME NEW u \in timers', u.kept, u.of \notin Sessions
        PROVE  date'[u.of] = u.date /\ (u.lead \in LeadsOf(options) \/ u.of \in excused')
    <2>1. u \in timers /\ u.of # e
      BY <1>0, <1>4, <1>5
    <2>2. Truthful(u) /\ u.of \in Scheduled
      BY <1>2, <2>1 DEF RemindersInv, ReminderTimer
    <2> QED
      BY <1>2, <1>3, <1>5, <2>1, <2>2 DEF Truthful
  <1>6. ASSUME NEW f \in Scheduled \ excused' PROVE Announced(timers', f, date'[f], options)
    BY <1>2, <1>3, <1>4 DEF RemindersInv
  <1>7. DiscordFits'
    BY <1>0, <1>1 DEF DiscordFits
  <1>8. calls' \in Nat /\ starts' \in Nat
    BY <1>0, <1>1 DEF RemindersTyped
  <1> QED
    BY <1>1, <1>2, <1>4, <1>5, <1>6, <1>7, <1>8, RemindersStay

LEMMA UnscheduleKeepsReminders ==
  ASSUME RemindersInv, NEW e \in Scheduled, Unschedule(e)
  PROVE  RemindersInv'
  <1>0. RemindersTyped /\ DiscordFits
    BY DEF RemindersInv
  <1>1. /\ minute' = minute /\ options' = options /\ discord' = discord /\ calls' = calls + 1 /\ starts' = starts
        /\ excused' = excused
    BY DEF Unschedule, Call
  <1>2. options \in ServerOptions /\ timers \subseteq ReminderTimer /\ date' \in [Scheduled -> Nat]
        /\ date'[e] = 0 /\ \A f \in Scheduled : f # e => date'[f] = date[f]
    BY <1>0 DEF RemindersTyped, Unschedule
  <1> DEFINE s == Stopped(timers, {e})
  <1>3. /\ s \subseteq timers /\ \A tm \in s : tm.of = e => ~tm.kept
        /\ \A f, d : f # e /\ Announced(timers, f, d, options) => Announced(s, f, d, options)
    BY <1>2, StoppedIs
  <1>4. timers' = IF e \in Sessions THEN timers ELSE s
    BY DEF Unschedule
  <1> HIDE DEF s
  <1>5. ASSUME NEW u \in timers', u.kept, u.of \notin Sessions
        PROVE  date'[u.of] = u.date /\ (u.lead \in LeadsOf(options) \/ u.of \in excused')
    <2>1. u \in timers /\ u.of # e
      BY <1>3, <1>4, <1>5
    <2>2. Truthful(u) /\ u.of \in Scheduled
      BY <1>2, <2>1 DEF RemindersInv, ReminderTimer
    <2> QED
      BY <1>1, <1>2, <1>5, <2>1, <2>2 DEF Truthful
  <1>6. ASSUME NEW f \in Scheduled \ excused' PROVE Announced(timers', f, date'[f], options)
    <2>1. CASE f = e
      <3>1. LeadsOf(options) \subseteq Nat /\ minute \in Nat
        BY <1>0, <1>2, LeadsAre DEF RemindersTyped
      <3> QED
        BY <1>2, <2>1, <3>1 DEF Announced
    <2>2. CASE f # e
      BY <1>1, <1>2, <1>3, <1>4, <2>2 DEF RemindersInv
    <2> QED
      BY <2>1, <2>2
  <1>7. DiscordFits'
    BY <1>0, <1>1 DEF DiscordFits
  <1>8. calls' \in Nat /\ starts' \in Nat
    BY <1>0, <1>1 DEF RemindersTyped
  <1>9. timers' \subseteq ReminderTimer
    BY <1>2, <1>3, <1>4
  <1> QED
    BY <1>1, <1>2, <1>5, <1>6, <1>7, <1>8, <1>9, RemindersStay

\* The timers of custom races set again: those the map remembers are new.
LEMMA RescheduledIs ==
  ASSUME RemindersInv, NEW opts \in ServerOptions
  PROVE  /\ Rescheduled(opts) \subseteq ReminderTimer
         /\ \A u \in Rescheduled(opts) :
              u.kept => \/ u \in timers /\ u.of \notin Races
                        \/ u.of \in Races /\ u.date = date[u.of] /\ u.lead \in LeadsOf(opts)
         /\ \A e \in Races : Announced(Rescheduled(opts), e, date[e], opts)
         /\ \A f, d : f \notin Races /\ Announced(timers, f, d, opts) => Announced(Rescheduled(opts), f, d, opts)
  <1> DEFINE s == Stopped(timers, Races)
             r == Rescheduled(opts)
  <1>1. RemindersTyped /\ timers \subseteq ReminderTimer /\ date \in [Scheduled -> Nat] /\ Races \subseteq Scheduled
    BY DEF RemindersInv, RemindersTyped, Scheduled
  <1>2. /\ s \subseteq timers /\ \A tm \in s : tm.of \in Races => ~tm.kept
        /\ \A f, d : f \notin Races /\ Announced(timers, f, d, opts) => Announced(s, f, d, opts)
    BY <1>1, StoppedIs
  <1>3. r = SetAhead(s, Races, date, opts)
    BY DEF Rescheduled
  <1> HIDE DEF s, r
  <1>4. /\ r \subseteq ReminderTimer
        /\ \A u \in r : u.kept => u \in s \/ (u.of \in Races /\ u.date = date[u.of] /\ u.lead \in LeadsOf(opts))
        /\ \A e \in Races : Announced(r, e, date[e], opts)
        /\ \A f, d : Announced(s, f, d, opts) => Announced(r, f, d, opts)
    BY <1>1, <1>2, <1>3, SetAheadIs
  <1>5. \A u \in r : u.kept => \/ u \in timers /\ u.of \notin Races
                               \/ u.of \in Races /\ u.date = date[u.of] /\ u.lead \in LeadsOf(opts)
    BY <1>2, <1>4
  <1>6. \A f, d : f \notin Races /\ Announced(timers, f, d, opts) => Announced(r, f, d, opts)
    BY <1>2, <1>4
  <1> QED
    BY <1>4, <1>5, <1>6 DEF r

LEMMA OptionsKeepReminders ==
  ASSUME RemindersInv, NEW leads \in LeadLists, NEW token \in Tokens \cup {NoToken}, NEW works \in BOOLEAN,
         SaveServerOptions(leads, token, works)
  PROVE  RemindersInv'
  <1> DEFINE changed == leads # options.leads
             connects == token # NoToken /\ token # options.token
  <1>0. RemindersTyped /\ DiscordFits /\ options \in ServerOptions /\ timers \subseteq ReminderTimer /\ date \in [Scheduled -> Nat]
    BY DEF RemindersInv, RemindersTyped
  <1>1. /\ minute' = minute /\ date' = date /\ calls' = calls + 1 /\ starts' = starts
        /\ options' = [leads |-> leads, token |-> token] /\ discord' = Reconnected(token, works)
        /\ timers' = IF works /\ changed THEN Rescheduled(options') ELSE timers
        /\ excused' = CASE ~changed -> excused
                        [] changed /\ works -> (excused \ Races) \cup Events \cup Sessions
                        [] OTHER -> Scheduled
        /\ ~connects => works
    BY DEF SaveServerOptions, Call
  <1>2. options' \in ServerOptions /\ options'.leads = leads /\ options'.token = token
    BY <1>1 DEF ServerOptions
  <1>3. DiscordFits'
    <2>1. options.token \in Tokens \cup {NoToken}
      BY <1>0 DEF ServerOptions
    <2>2. CASE connects
      BY <1>0, <1>1, <1>2, <2>2 DEF DiscordFits, Reconnected
    <2>3. CASE ~connects
      BY <1>0, <1>1, <1>2, <2>3 DEF DiscordFits, Reconnected
    <2> QED
      BY <2>2, <2>3
  <1>4. calls' \in Nat /\ starts' \in Nat
    BY <1>0, <1>1 DEF RemindersTyped
  <1>5. CASE ~changed
    <2>1. timers' = timers /\ excused' = excused /\ LeadsOf(options') = LeadsOf(options)
      <3>1. options'.leads = options.leads
        BY <1>2, <1>5
      <3>2. LeadsOf(options') = LeadsOf(options)
        BY <3>1 DEF LeadsOf, Leads
      <3> QED
        BY <1>1, <1>5, <3>2
    <2> HIDE DEF changed, connects
    <2>2. ASSUME NEW u \in timers', u.kept, u.of \notin Sessions
          PROVE  date'[u.of] = u.date /\ (u.lead \in LeadsOf(options') \/ u.of \in excused')
      <3>1. Truthful(u)
        BY <2>1 DEF RemindersInv
      <3> QED
        BY <1>1, <2>1, <2>2, <3>1 DEF Truthful
    <2>3. \A f \in Scheduled \ excused' : Announced(timers', f, date'[f], options')
      BY <1>1, <2>1 DEF RemindersInv, Announced
    <2> QED
      BY <1>0, <1>1, <1>2, <1>3, <1>4, <2>1, <2>2, <2>3, RemindersStay
  <1>6. CASE changed /\ works
    <2>1. timers' = Rescheduled(options') /\ excused' = (excused \ Races) \cup Events \cup Sessions
      BY <1>1, <1>6
    <2> HIDE DEF changed, connects
    <2>2. /\ timers' \subseteq ReminderTimer
          /\ \A u \in timers' : u.kept => \/ u \in timers /\ u.of \notin Races
                                          \/ u.of \in Races /\ u.date = date[u.of] /\ u.lead \in LeadsOf(options')
          /\ \A e \in Races : Announced(timers', e, date[e], options')
      BY <1>2, <2>1, RescheduledIs
    <2>3. ASSUME NEW u \in timers', u.kept, u.of \notin Sessions
          PROVE  date'[u.of] = u.date /\ (u.lead \in LeadsOf(options') \/ u.of \in excused')
      <3>1. CASE u.of \in Races
        BY <1>1, <2>2, <2>3, <3>1
      <3>2. CASE u \in timers /\ u.of \notin Races
        <4>1. Truthful(u) /\ u.of \in Scheduled
          BY <1>0, <3>2 DEF RemindersInv, ReminderTimer
        <4>2. u.of \in Events
          BY <2>3, <3>2, <4>1 DEF Scheduled
        <4> QED
          BY <1>1, <2>1, <2>3, <4>1, <4>2 DEF Truthful
      <3> QED
        BY <2>2, <2>3, <3>1, <3>2
    <2>4. \A f \in Scheduled \ excused' : Announced(timers', f, date'[f], options')
      BY <1>1, <2>1, <2>2 DEF Scheduled
    <2> QED
      BY <1>0, <1>1, <1>2, <1>3, <1>4, <2>2, <2>3, <2>4, RemindersStay
  <1>7. CASE changed /\ ~works
    <2>1. timers' = timers /\ excused' = Scheduled
      BY <1>1, <1>7
    <2> HIDE DEF changed, connects
    <2>2. ASSUME NEW u \in timers', u.kept, u.of \notin Sessions
          PROVE  date'[u.of] = u.date /\ (u.lead \in LeadsOf(options') \/ u.of \in excused')
      <3>1. u \in timers /\ u.of \in Scheduled
        BY <1>0, <2>1 DEF ReminderTimer
      <3> QED
        BY <1>1, <2>1, <2>2, <3>1 DEF RemindersInv, Truthful
    <2> QED
      BY <1>0, <1>1, <1>2, <1>3, <1>4, <2>1, <2>2, RemindersStay
  <1> QED
    BY <1>5, <1>6, <1>7

LEMMA StartKeepsReminders ==
  ASSUME RemindersInv, NEW works \in BOOLEAN, ServerManagerStarts(works)
  PROVE  RemindersInv'
  <1>0. /\ RemindersTyped /\ DiscordFits /\ options \in ServerOptions /\ timers \subseteq ReminderTimer
        /\ date \in [Scheduled -> Nat] /\ minute \in Nat
    BY DEF RemindersInv, RemindersTyped
  <1>1. /\ minute' = minute /\ date' = date /\ calls' = calls /\ starts' = starts + 1 /\ options' = options
        /\ discord' = IF works THEN [enabled |-> options.token # NoToken, token |-> options.token, failed |-> FALSE]
                      ELSE [enabled |-> FALSE, token |-> NoToken, failed |-> TRUE]
    BY DEF ServerManagerStarts
  <1>2. PICK one \in FirstEvent :
          /\ one = {} => \A e \in Events : date[e] <= minute
          /\ timers' = WatchForScheduledSessions(SetAhead({}, Races \cup one, date, options))
          /\ excused' = Events \ one
    BY DEF ServerManagerStarts
  <1> DEFINE s == SetAhead({}, Races \cup one, date, options)
  <1>3. one \subseteq Events
    BY DEF FirstEvent
  <1>4. Races \cup one \subseteq Scheduled /\ Sessions \subseteq Scheduled
    BY <1>3 DEF Scheduled
  <1>5. {} \subseteq ReminderTimer
    OBVIOUS
  <1>6. /\ s \subseteq ReminderTimer
        /\ \A u \in s : u.kept => u.of \in Races \cup one /\ u.date = date[u.of] /\ u.lead \in LeadsOf(options)
        /\ \A e \in Races \cup one : Announced(s, e, date[e], options)
    BY <1>0, <1>4, <1>5, SetAheadIs
  <1>7. timers' = SetAhead(s, Sessions, date, options)
    BY <1>2 DEF WatchForScheduledSessions
  <1> HIDE DEF s
  <1>8. /\ timers' \subseteq ReminderTimer
        /\ \A u \in timers' : u.kept => u \in s \/ (u.of \in Sessions /\ u.date = date[u.of] /\ u.lead \in LeadsOf(options))
        /\ \A e \in Sessions : Announced(timers', e, date[e], options)
        /\ \A f, d : Announced(s, f, d, options) => Announced(timers', f, d, options)
    BY <1>0, <1>4, <1>6, <1>7, SetAheadIs
  <1>9. DiscordFits'
    BY <1>1 DEF DiscordFits
  <1>10. calls' \in Nat /\ starts' \in Nat
    BY <1>0, <1>1 DEF RemindersTyped
  <1>11. \A u \in timers' : u.kept /\ u.of \notin Sessions =>
            date'[u.of] = u.date /\ (u.lead \in LeadsOf(options') \/ u.of \in excused')
    BY <1>1, <1>6, <1>8
  <1>12. ASSUME NEW f \in Scheduled \ excused' PROVE Announced(timers', f, date'[f], options')
    <2>1. f \in Races \cup one \/ f \in Sessions
      BY <1>2, <1>3 DEF Scheduled
    <2> QED
      BY <1>1, <1>6, <1>8, <2>1
  <1> QED
    BY <1>0, <1>1, <1>8, <1>9, <1>10, <1>11, <1>12, RemindersStay

LEMMA CheckKeepsReminders ==
  ASSUME RemindersInv, CheckRaces
  PROVE  RemindersInv'
  <1>0. /\ RemindersTyped /\ DiscordFits /\ options \in ServerOptions /\ timers \subseteq ReminderTimer
        /\ date \in [Scheduled -> Nat]
    BY DEF RemindersInv, RemindersTyped
  <1>1. /\ minute' = minute /\ date' = date /\ calls' = calls /\ starts' = starts + 1 /\ options' = options
        /\ discord' = discord /\ excused' = excused \ Races /\ timers' = Rescheduled(options)
    BY DEF CheckRaces
  <1>2. /\ timers' \subseteq ReminderTimer
        /\ \A u \in timers' : u.kept => \/ u \in timers /\ u.of \notin Races
                                        \/ u.of \in Races /\ u.date = date[u.of] /\ u.lead \in LeadsOf(options)
        /\ \A e \in Races : Announced(timers', e, date[e], options)
        /\ \A f, d : f \notin Races /\ Announced(timers, f, d, options) => Announced(timers', f, d, options)
    BY <1>0, <1>1, RescheduledIs
  <1>3. ASSUME NEW u \in timers', u.kept, u.of \notin Sessions
        PROVE  date'[u.of] = u.date /\ (u.lead \in LeadsOf(options') \/ u.of \in excused')
    BY <1>1, <1>2, <1>3 DEF RemindersInv, Truthful
  <1>4. ASSUME NEW f \in Scheduled \ excused' PROVE Announced(timers', f, date'[f], options')
    BY <1>1, <1>2 DEF RemindersInv
  <1>5. DiscordFits'
    BY <1>0, <1>1 DEF DiscordFits
  <1>6. calls' \in Nat /\ starts' \in Nat
    BY <1>0, <1>1 DEF RemindersTyped
  <1> QED
    BY <1>0, <1>1, <1>2, <1>3, <1>4, <1>5, <1>6, RemindersStay

LEMMA MinuteKeepsReminders ==
  ASSUME RemindersInv, Minute
  PROVE  RemindersInv'
  <1>0. /\ RemindersTyped /\ DiscordFits /\ options \in ServerOptions /\ timers \subseteq ReminderTimer
        /\ date \in [Scheduled -> Nat] /\ minute \in Nat /\ LeadsOf(options) \subseteq Nat
    BY LeadsAre DEF RemindersInv, RemindersTyped
  <1>1. /\ minute' = minute + 1 /\ date' = date /\ calls' = calls /\ starts' = starts /\ options' = options
        /\ discord' = discord /\ excused' = excused /\ timers' = {tm \in timers : ~(tm.date - tm.lead <= minute + 1)}
    BY DEF Minute, Due
  <1>2. RemindersTyped' /\ DiscordFits'
    BY <1>0, <1>1 DEF RemindersTyped, DiscordFits
  <1>3. \A tm \in timers' : Truthful(tm)'
    BY <1>1 DEF RemindersInv, Truthful, LeadsOf, Leads
  <1>4. ASSUME NEW e \in Scheduled \ excused PROVE Announced(timers, e, date[e], options)'
    <2>1. Announced(timers, e, date[e], options) /\ date[e] \in Nat
      BY <1>0 DEF RemindersInv
    <2>2. \A lead \in LeadsOf(options) : date[e] - lead > minute + 1 =>
             \E tm \in timers' : tm.of = e /\ tm.date = date[e] /\ tm.lead = lead
      BY <1>0, <1>1, <2>1 DEF Announced
    <2> QED
      BY <1>1, <2>2 DEF Announced, LeadsOf, Leads
  <1> QED
    BY <1>1, <1>2, <1>3, <1>4 DEF RemindersInv, Scheduled

LEMMA RemindersStep == RemindersInv /\ [RemindersNext]_reminderVars => RemindersInv'
  <1> SUFFICES ASSUME RemindersInv, [RemindersNext]_reminderVars PROVE RemindersInv'
    OBVIOUS
  <1>1. ASSUME NEW e \in Races \cup Events, NEW at \in 1 .. Horizon, Schedule(e, at) PROVE RemindersInv'
    BY <1>1, ScheduleKeepsReminders
  <1>2. ASSUME NEW e \in Sessions, NEW at \in 1 .. Horizon, ScheduleSession(e, at) PROVE RemindersInv'
    BY <1>2, ScheduleSessionKeepsReminders
  <1>3. ASSUME NEW e \in Scheduled, Unschedule(e) PROVE RemindersInv'
    BY <1>3, UnscheduleKeepsReminders
  <1>4. ASSUME NEW leads \in LeadLists, NEW token \in Tokens \cup {NoToken}, NEW works \in BOOLEAN,
               SaveServerOptions(leads, token, works)
        PROVE  RemindersInv'
    BY <1>4, OptionsKeepReminders
  <1>5. ASSUME NEW works \in BOOLEAN, ServerManagerStarts(works) PROVE RemindersInv'
    BY <1>5, StartKeepsReminders
  <1>6. CASE CheckRaces
    BY <1>6, CheckKeepsReminders
  <1>7. CASE Minute
    BY <1>7, MinuteKeepsReminders
  <1>8. CASE UNCHANGED reminderVars
    BY <1>8 DEF reminderVars, RemindersInv, RemindersTyped, DiscordFits, Truthful, Announced, LeadsOf, Leads, Scheduled
  <1> QED
    BY <1>1, <1>2, <1>3, <1>4, <1>5, <1>6, <1>7, <1>8 DEF RemindersNext

\* Reminders are sent when, and only when, they are due, up to the named exceptions: for any
\* events, leads and tokens, any number of requests, starts and passes of the check loop.
THEOREM RemindersAreKept == RemindersSpec => RemindersKept
  <1>1. RemindersInv /\ [RemindersNext]_reminderVars =>
          [minute' > minute =>
             \A tm \in Sent :
               \/ ~tm.kept \/ tm.of \in Sessions
               \/ date[tm.of] = tm.date /\ (tm.lead \in LeadsOf(options) \/ tm.of \in excused)]_reminderVars
    <2> SUFFICES ASSUME RemindersInv, NEW tm \in Sent
                 PROVE  \/ ~tm.kept \/ tm.of \in Sessions
                        \/ date[tm.of] = tm.date /\ (tm.lead \in LeadsOf(options) \/ tm.of \in excused)
      OBVIOUS
    <2>1. tm \in timers
      BY DEF Sent
    <2> QED
      BY <2>1 DEF RemindersInv, Truthful
  <1>2. RemindersInv /\ [RemindersNext]_reminderVars =>
          [minute' > minute /\ options.token # NoToken /\ ~discord.failed =>
             \A e \in Scheduled \ excused, lead \in LeadsOf(options) :
               date[e] - lead = minute' =>
                 \E tm \in Sent : tm.of = e /\ tm.date = date[e] /\ tm.lead = lead]_reminderVars
    <2> SUFFICES ASSUME RemindersInv, [RemindersNext]_reminderVars, minute' > minute, options.token # NoToken,
                        ~discord.failed, NEW e \in Scheduled \ excused, NEW lead \in LeadsOf(options),
                        date[e] - lead = minute'
                 PROVE  \E tm \in Sent : tm.of = e /\ tm.date = date[e] /\ tm.lead = lead
      OBVIOUS
    <2>0. minute \in Nat
      BY DEF RemindersInv, RemindersTyped
    <2>1. Minute
      <3>1. minute' # minute
        BY <2>0
      <3> QED
        BY <3>1 DEF RemindersNext, reminderVars, Schedule, ScheduleSession, Unschedule, SaveServerOptions,
                    ServerManagerStarts, CheckRaces
    <2>2. minute' = minute + 1
      BY <2>1 DEF Minute
    <2>3. PICK tm \in timers : tm.of = e /\ tm.date = date[e] /\ tm.lead = lead
      BY <2>0, <2>2 DEF RemindersInv, Announced
    <2>4. discord.enabled
      BY DEF RemindersInv, DiscordFits
    <2>5. tm \in Sent
      BY <2>0, <2>2, <2>3, <2>4 DEF Sent, Due
    <2> QED
      BY <2>3, <2>5
  <1> QED
    BY <1>1, <1>2, RemindersStart, RemindersStep, PTL
    DEF RemindersSpec, RemindersKept, RemindersTruthful, RemindersSent
=============================================================================
