----------------------------- MODULE RaceWeekend -----------------------------
(***************************************************************************)
(* One race weekend (race_weekend.go, race_weekend_manager.go): sessions   *)
(* whose entry lists come from the results of their parents.  Admins edit  *)
(* the graph of sessions, start, cancel, import and schedule them; timers  *)
(* start them; the goroutine that handles UDP messages records results     *)
(* under rwm.mutex, stops acServer and starts the next session.  Everybody *)
(* loads the whole weekend and saves it later; none but that goroutine     *)
(* takes the mutex.                                                        *)
(*                                                                         *)
(* acServer is modelled from what the code expects of it.  Entry lists,    *)
(* filters and the contents of results, linked championships, errors of    *)
(* the store, restarts of Server Manager and deleting the weekend are left *)
(* out.                                                                    *)
(***************************************************************************)
EXTENDS Naturals, Sequences, FiniteSets, SequencesExt, FiniteSetsExt

CONSTANTS
    Handlers,    \* goroutines of HTTP requests
    Graphs,      \* the weekends to begin with: for each session, in the order they were added,
                 \* the list of its parents
    MaxSessions, \* bound: sessions of the weekend, numbered in the order they were added
    MaxCalls,    \* bound: requests
    MaxRuns      \* bound: starts of acServer, and files it writes

\* As forms submitted one after the other leave them.
ASSUME GraphAssumption ==
    \A g \in Graphs :
        /\ g \in Seq(Seq(0..MaxSessions)) /\ Len(g) <= MaxSessions
        /\ \A s \in 1..Len(g) : g[s] # <<>> /\ ToSet(g[s]) \subseteq 0..(s - 1) /\ IsInjective(g[s])

ASSUME WeekendAssumption == {MaxSessions, MaxCalls, MaxRuns} \subseteq Nat

Udp == "udp"      \* the goroutine that handles messages
Timer == "timer"  \* the callback of a timer; bound: one at a time
Threads == Handlers \cup {Udp, Timer}

ASSUME HandlersAssumption == {Udp, Timer} \cap Handlers = {}

SessionIds == 1..MaxSessions
Base == 0         \* the weekend itself, parent of the sessions that take its entry list
None == MaxSessions + 1

VARIABLES
    store,     \* the weekend in the store: its sessions by their numbers
    added,     \* sessions added so far
    active,    \* rwm.activeRaceWeekend: a session, or None
    server,    \* process.Event(): a session of the weekend with its run, or Other, or Stopped
    files,     \* results files: the session and the run each one is from
    sent,      \* files reported by acServer and not handled yet
    timers,    \* rwm.scheduledSessionTimers: sessions with a timer that will fire
    th,        \* what each thread is doing
    run,       \* starts of acServer with a session of the weekend
    disturbed, \* history: what the properties make an exception for
    calls

weekendVars == <<store, added, active, server, files, sent, timers, th, run, disturbed, calls>>

----------------------------------------------------------------------------
(* The graph of sessions.  st is a weekend.                                *)

Session == [parents : Seq(SessionIds \cup {Base}), started : BOOLEAN, results : 0..(MaxRuns + MaxCalls),
            auto : BOOLEAN, sched : BOOLEAN]

New(parents) == [parents |-> parents, started |-> FALSE, results |-> 0, auto |-> FALSE, sched |-> FALSE]

\* The numbers of P in ascending order.
Listed(P) == [k \in 1..Cardinality(P) |-> CHOOSE n \in P : Cardinality({m \in P : m < n}) = k - 1]

Parents(st, s) == ToSet(st[s].parents)

\* No session is its own ancestor: every set of sessions has one with no parent in it.
Acyclic(st) == \A X \in SUBSET DOMAIN st : X # {} => \E s \in X : Parents(st, s) \cap X = {}

\* HasParentRecursive, as the set of all that it finds: the parents, and the parents of
\* those that exist, and so on.
Ancestors(st) ==
    LET found == UNION {Parents(st, s) : s \in DOMAIN st}
        closed == {X \in SUBSET found : \A x \in X \cap DOMAIN st : Parents(st, x) \subseteq X}
    IN [s \in DOMAIN st |-> {a \in found : \A X \in closed : Parents(st, s) \subseteq X => a \in X}]

Completed(st, s) == st[s].results # 0
InProgress(st, s) == st[s].started /\ ~Completed(st, s)

\* Mutant: only the parents are looked at.
SessionCanBeRunMut(st, s) == \A p \in Parents(st, s) \cap DOMAIN st : Completed(st, p)

\* Parents that do not exist are skipped.
SessionCanBeRun(st, s) == \A a \in Ancestors(st)[s] \cap DOMAIN st : Completed(st, a)

\* GetRaceWeekendEntryList fails on a parent that does not exist, its own or an ancestor's.
EntryListFails(st, s) == ~(Ancestors(st)[s] \subseteq DOMAIN st \cup {Base})

FindChildren(st, p) == {s \in DOMAIN st : p \in Parents(st, s)}

\* RemoveParent removes one link, the last.
RemoveParent(ps, s) ==
    IF s \in ToSet(ps) THEN RemoveAt(ps, Max({i \in DOMAIN ps : ps[i] = s})) ELSE ps

\* Whether DelSession links c, a child of s, to the parent p of s.
Relinked(st, s, p) ==
    {c \in FindChildren(st, s) :
        /\ p \in DOMAIN st \cup {Base}
        /\ p = Base \/ c \notin Ancestors(st)[p]}

\* Mutant: the children of a deleted session are not linked to its parents.
DelSessionMut(st, s) ==
    [c \in DOMAIN st \ {s} |-> [st[c] EXCEPT !.parents = RemoveParent(@, s)]]

\* The parents of s that become parents of c, in their order.
Inherited(st, s, c) ==
    LET ps == st[s].parents
        at == Listed({i \in DOMAIN ps : c \in Relinked(st, s, ps[i])})
    IN [k \in DOMAIN at |-> ps[at[k]]]

\* DelSession: the parents of s become parents of its children.
DelSession(st, s) ==
    [c \in DOMAIN st \ {s} |->
        [st[c] EXCEPT !.parents = RemoveParent(@ \o Inherited(st, s, c), s)]]

Graph(st) == [s \in DOMAIN st |-> st[s].parents]

----------------------------------------------------------------------------
(* Threads                                                                 *)

NoTask == [pc |-> "idle"]
Stopped == [on |-> "none"]
Other == [on |-> "other"]
Running(s, r) == [on |-> "session", session |-> s, run |-> r]

\* No session is running, unrecorded, or being started or stopped by others than t.
NothingUnderWay(t) ==
    /\ server.on # "session" /\ sent = {}
    /\ \A o \in Threads \ {t} : th[o].pc \notin {"activate", "launch", "stop"}

Become(t, s) == th' = [th EXCEPT ![t] = s]

\* A thread with what it loaded, after another one saved st.  A form is only outdated by a
\* change of the graph.
Aged(x, st) ==
    CASE x.pc = "form" -> [x EXCEPT !.stale = @ \/ Graph(st) # Graph(store)]
      [] x.pc \in {"stop", "save"} -> [x EXCEPT !.stale = TRUE]
      [] OTHER -> x

\* UpsertRaceWeekend by thread t, which goes on with s.
Save(t, st, s) ==
    /\ store' = st
    /\ th' = [o \in Threads |-> IF o = t THEN s ELSE Aged(th[o], st)]

\* What follows when StartSession has returned.
Returned(t) == IF t = Timer THEN [pc |-> "clear", session |-> th[t].session] ELSE NoTask

\* The parents that a form can send, in the order in which it lists them.
ParentsFrom(offered) == {Listed(P) : P \in (SUBSET offered) \ {{}}}

WeekendInit ==
    /\ \E g \in Graphs : added = Len(g) /\ store = [s \in 1..Len(g) |-> New(g[s])]
    /\ active = None /\ server = Stopped /\ files = <<>> /\ sent = {} /\ timers = {}
    /\ th = [t \in Threads |-> NoTask]
    /\ run = 0 /\ disturbed = {} /\ calls = 0

----------------------------------------------------------------------------
(* StartSession, by a handler, a timer or the goroutine that handles       *)
(* messages                                                                *)

\* The start is recorded before the entry list is built, which may fail.
BeginRun(t) ==
    /\ th[t].pc = "begin"
    /\ LET s == th[t].session IN
       IF s \in DOMAIN store /\ SessionCanBeRun(store, s)
         THEN Save(t, [store EXCEPT ![s].started = TRUE],
                   IF EntryListFails(store, s) THEN Returned(t) ELSE [pc |-> "activate", session |-> s])
         ELSE Become(t, Returned(t)) /\ UNCHANGED store
    /\ UNCHANGED <<added, active, server, files, sent, timers, run, disturbed, calls>>

\* Mutant: the first session stays the active one.
SetActiveMut(t) ==
    /\ th[t].pc = "activate"
    /\ active' = IF active = None THEN th[t].session ELSE active
    /\ Become(t, [th[t] EXCEPT !.pc = "launch"])
    /\ disturbed' = disturbed \cup (IF NothingUnderWay(t) THEN {} ELSE {"late"})
    /\ UNCHANGED <<store, added, server, files, sent, timers, run, calls>>

\* The session is the active one before acServer is stopped and started.
SetActive(t) ==
    /\ th[t].pc = "activate"
    /\ active' = th[t].session
    /\ Become(t, [th[t] EXCEPT !.pc = "launch"])
    /\ disturbed' = disturbed \cup (IF NothingUnderWay(t) THEN {} ELSE {"late"})
    /\ UNCHANGED <<store, added, server, files, sent, timers, run, calls>>

Launch(t) ==
    /\ th[t].pc = "launch" /\ run < MaxRuns
    /\ run' = run + 1 /\ server' = Running(th[t].session, run')
    /\ Become(t, Returned(t))
    /\ UNCHANGED <<store, added, active, files, sent, timers, disturbed, calls>>

LaunchFails(t) ==
    /\ th[t].pc = "launch" /\ server' \in {server, Stopped}
    /\ Become(t, Returned(t))
    /\ UNCHANGED <<store, added, active, files, sent, timers, run, disturbed, calls>>

----------------------------------------------------------------------------
(* acServer and its messages                                               *)

\* The session ends: acServer writes the results and reports them.
SessionEnds ==
    /\ server.on = "session" /\ Cardinality({f \in DOMAIN files : files[f].run # 0}) < MaxRuns
    /\ files' = Append(files, [session |-> server.session, run |-> server.run])
    /\ sent' = sent \cup {Len(files')}
    /\ UNCHANGED <<store, added, active, server, timers, th, run, disturbed, calls>>

SessionIsRunning == server.on = "session" /\ active # None

\* UDPCallback: the results are those of the active session; it is saved, then acServer is
\* stopped.
Receive(f) ==
    /\ th[Udp] = NoTask /\ f \in sent /\ sent' = sent \ {f}
    /\ IF SessionIsRunning /\ active \in DOMAIN store
         THEN LET st == [store EXCEPT ![active].results = f]
              IN Save(Udp, st, [pc |-> "stop", session |-> active, copy |-> st, stale |-> FALSE])
         ELSE UNCHANGED <<store, th>>
    /\ UNCHANGED <<added, active, server, files, timers, run, disturbed, calls>>

\* Mutant: the weekend itself comes after its last session.
FirstMut(S) == IF S = {} THEN Base ELSE Min(S)

First(S) == IF S = {} THEN None ELSE Min(S)

\* The first session of those to be started automatically: the first sibling, for the first
\* parent that has one, or else the first child.
NextSession(st, s) ==
    LET waiting(p) == {c \in FindChildren(st, p) : ~Completed(st, c) /\ st[c].auto}
        parents == st[s].parents
        by == {i \in DOMAIN parents : waiting(parents[i]) # {}}
    IN IF by = {} THEN First(waiting(s)) ELSE First(waiting(parents[Min(by)]))

StopAfterSession ==
    /\ th[Udp].pc = "stop"
    /\ server' = Stopped
    /\ LET next == NextSession(th[Udp].copy, th[Udp].session)
       IN Become(Udp, IF next = None THEN NoTask ELSE [pc |-> "begin", session |-> next])
    /\ UNCHANGED <<store, added, active, files, sent, timers, run, disturbed, calls>>

----------------------------------------------------------------------------
(* Requests                                                                *)

Request(h) == th[h] = NoTask /\ calls < MaxCalls /\ calls' = calls + 1

\* Offered for a session that is neither in progress nor completed.
CallStart(h, s) ==
    /\ Request(h) /\ s \in DOMAIN store /\ ~store[s].started /\ ~Completed(store, s)
    /\ Become(h, [pc |-> "begin", session |-> s])
    /\ UNCHANGED <<store, added, active, server, files, sent, timers, run, disturbed>>

\* A practice session of the weekend, or any other event.
StartOther(h) ==
    /\ Request(h) /\ server' = Other
    /\ UNCHANGED <<store, added, active, files, sent, timers, th, run, disturbed>>

\* CancelSession and RestartSession of a session in progress, StopActiveSession and
\* RestartActiveSession of the active one.
CallCancel(h, s) ==
    /\ Request(h) /\ s \in DOMAIN store
    /\ InProgress(store, s) \/ (SessionIsRunning /\ s = active)
    /\ \E then \in {"cancelled", "begin"} :
          Become(h, [pc |-> "stop", session |-> s, then |-> then, stale |-> FALSE,
                     copy |-> [store EXCEPT ![s].started = FALSE, ![s].results = 0]])
    /\ disturbed' = disturbed \cup (IF Completed(store, s) THEN {"reopened"} ELSE {})
    /\ UNCHANGED <<store, added, active, server, files, sent, timers, run>>

StopBy(h) ==
    /\ h \in Handlers /\ th[h].pc = "stop"
    /\ server' = Stopped /\ Become(h, [th[h] EXCEPT !.pc = "save"])
    /\ UNCHANGED <<store, added, active, files, sent, timers, run, disturbed, calls>>

\* The copy from before acServer was stopped is saved.
SaveCancelled(h) ==
    /\ th[h].pc = "save"
    /\ Save(h, th[h].copy, IF th[h].then = "begin" THEN [pc |-> "begin", session |-> th[h].session] ELSE NoTask)
    /\ disturbed' = disturbed \cup (IF th[h].stale THEN {"overtaken"} ELSE {})
    /\ UNCHANGED <<added, active, server, files, sent, timers, run, calls>>

\* Mutant: descendants of the session are offered as its parents.
OfferedMut(st, s) == {Base} \cup (DOMAIN st \ {s})

\* The parents a form offers: not the session itself, and none that descends from it.
Offered(st, s) == {Base} \cup {p \in DOMAIN st \ {s} : s \notin Ancestors(st)[p]}

\* The form of a session, or of a new one.
OpenForm(h, s) ==
    /\ Request(h) /\ s \in DOMAIN store \cup {None}
    /\ Become(h, [pc |-> "form", session |-> s, offered |-> Offered(store, s), stale |-> FALSE])
    /\ UNCHANGED <<store, added, active, server, files, sent, timers, run, disturbed>>

\* SaveRaceWeekendSession.  Nothing checks the parents that the form sends.
SubmitForm(h) ==
    /\ th[h].pc = "form"
    /\ \E ps \in ParentsFrom(th[h].offered), s \in SessionIds :
          /\ \/ s = th[h].session /\ s \in DOMAIN store /\ added' = added
                /\ Save(h, [store EXCEPT ![s].parents = ps], NoTask)
             \/ th[h].session = None /\ s = added + 1 /\ added' = s
                /\ Save(h, [x \in DOMAIN store \cup {s} |-> IF x = s THEN New(ps) ELSE store[x]], NoTask)
          /\ disturbed' = disturbed
               \cup (IF th[h].stale THEN {"outdatedForm"} ELSE {})
               \cup (IF s \in DOMAIN store /\ ~NothingUnderWay(h) THEN {"edited"} ELSE {})
    /\ UNCHANGED <<active, server, files, sent, timers, run, calls>>

\* DeleteSession.  Its timer stays, and acServer goes on if it is running.
CallDelete(h, s) ==
    /\ Request(h) /\ s \in DOMAIN store
    /\ Save(h, DelSession(store, s), NoTask)
    /\ disturbed' = disturbed \cup
         (IF \E c \in DOMAIN store' : ~IsInjective(store'[c].parents) THEN {"linkedTwice"} ELSE {})
    /\ UNCHANGED <<added, active, server, files, sent, timers, run>>

\* ImportSession: results that acServer wrote for the session at another time.
CallImport(h, s) ==
    /\ Request(h) /\ s \in DOMAIN store
    /\ files' = Append(files, [session |-> s, run |-> 0])
    /\ Save(h, [store EXCEPT ![s].results = Len(files')], NoTask)
    /\ UNCHANGED <<added, active, server, sent, timers, run, disturbed>>

----------------------------------------------------------------------------
(* Schedules                                                               *)

Scheduled(s, on, auto) == [store EXCEPT ![s].sched = on, ![s].auto = auto]

\* ScheduleSession with a date: the timer of an earlier one is replaced.
CallSchedule(h, s) ==
    /\ Request(h) /\ s \in DOMAIN store /\ ~store[s].started /\ ~Completed(store, s)
    /\ Save(h, Scheduled(s, TRUE, FALSE), NoTask)
    /\ timers' = timers \cup {s}
    /\ UNCHANGED <<added, active, server, files, sent, run, disturbed>>

\* The date is in the past: the timer of an earlier one is stopped, but nothing is saved.
CallScheduleRefused(h, s) ==
    /\ Request(h) /\ s \in DOMAIN store /\ ~store[s].started /\ ~Completed(store, s)
    /\ timers' = timers \ {s}
    /\ disturbed' = disturbed \cup (IF store[s].sched THEN {"dateRefused"} ELSE {})
    /\ UNCHANGED <<store, added, active, server, files, sent, th, run>>

\* ScheduleSession without a date, to be started after a parent, offered for a session that
\* cannot be run yet.  The timer of an earlier date is not stopped.
CallStartAfterParent(h, s) ==
    /\ Request(h) /\ s \in DOMAIN store /\ ~store[s].started /\ ~Completed(store, s)
    /\ ~SessionCanBeRun(store, s)
    /\ Save(h, Scheduled(s, FALSE, TRUE), NoTask)
    /\ disturbed' = disturbed \cup (IF s \in timers THEN {"dateWithdrawn"} ELSE {})
    /\ UNCHANGED <<added, active, server, files, sent, timers, run>>

\* Mutant: the timer goes on.
CallDeScheduleMut(h, s) ==
    /\ Request(h) /\ s \in DOMAIN store
    /\ Save(h, Scheduled(s, FALSE, FALSE), NoTask)
    /\ UNCHANGED <<added, active, server, files, sent, timers, run, disturbed>>

\* DeScheduleSession
CallDeSchedule(h, s) ==
    /\ Request(h) /\ s \in DOMAIN store
    /\ Save(h, Scheduled(s, FALSE, FALSE), NoTask)
    /\ timers' = timers \ {s}
    /\ UNCHANGED <<added, active, server, files, sent, run, disturbed>>

\* A timer goes off.
Fire(s) ==
    /\ s \in timers /\ th[Timer] = NoTask
    /\ timers' = timers \ {s}
    /\ Become(Timer, [pc |-> "begin", session |-> s])
    /\ UNCHANGED <<store, added, active, server, files, sent, run, disturbed, calls>>

\* Its callback clears the schedule, whether the session was started or not, and also one
\* that was made meanwhile.
ClearSchedule ==
    /\ th[Timer].pc = "clear"
    /\ LET s == th[Timer].session IN
         IF s \in DOMAIN store
           THEN /\ Save(Timer, [store EXCEPT ![s].sched = FALSE], NoTask)
                /\ disturbed' = disturbed \cup (IF s \in timers THEN {"dateCleared"} ELSE {})
           ELSE Become(Timer, NoTask) /\ UNCHANGED <<store, disturbed>>
    /\ UNCHANGED <<added, active, server, files, sent, timers, run, calls>>

----------------------------------------------------------------------------
\* Once the graph has a cycle, SortedSessions of the next page that shows the weekend never
\* returns, and Go ends the program when its stack is full.
WeekendNext ==
    /\ Acyclic(store)
    /\ \/ SessionEnds \/ StopAfterSession \/ ClearSchedule
       \/ \E f \in 1..(MaxRuns + MaxCalls) : Receive(f)
       \/ \E t \in Threads : BeginRun(t) \/ SetActive(t) \/ Launch(t) \/ LaunchFails(t)
       \/ \E s \in SessionIds : Fire(s)
       \/ \E h \in Handlers :
             \/ StartOther(h) \/ StopBy(h) \/ SaveCancelled(h) \/ SubmitForm(h) \/ OpenForm(h, None)
             \/ \E s \in SessionIds :
                   \/ CallStart(h, s) \/ CallCancel(h, s) \/ OpenForm(h, s) \/ CallDelete(h, s)
                   \/ CallImport(h, s) \/ CallSchedule(h, s) \/ CallScheduleRefused(h, s)
                   \/ CallStartAfterParent(h, s) \/ CallDeSchedule(h, s)

WeekendSpec == WeekendInit /\ [][WeekendNext]_weekendVars

----------------------------------------------------------------------------
(* Properties                                                              *)

WeekendTypeOK ==
    /\ DOMAIN store \subseteq 1..added /\ added \in 0..MaxSessions
    /\ \A s \in DOMAIN store : store[s] \in Session
    /\ active \in SessionIds \cup {None} /\ server.on \in {"none", "other", "session"}
    /\ sent \subseteq DOMAIN files /\ timers \subseteq SessionIds
    /\ run \in 0..MaxRuns /\ calls \in 0..MaxCalls
    /\ th[Timer].pc \in {"idle", "begin", "activate", "launch", "clear"}
    /\ th[Udp].pc \in {"idle", "begin", "activate", "launch", "stop"}
    /\ \A t \in Threads : th[t].pc \in {"begin", "activate", "launch", "clear"} => th[t].session \in SessionIds
    /\ disturbed \subseteq {"late", "overtaken", "outdatedForm", "edited", "reopened",
                            "linkedTwice",
                            "dateRefused", "dateWithdrawn", "dateCleared"}

\* Whatever is edited, deleted and cancelled at the same time, no session becomes its own
\* ancestor, and the parents of every session exist and lead to the entry list of the
\* weekend.  Exceptions: a form from before another change of the graph was submitted, a
\* stale copy was saved, or a deletion has linked a session to one parent twice, of which
\* the next deletion removes only one.
GraphSound ==
    disturbed \cap {"outdatedForm", "overtaken"} = {}
      => /\ Acyclic(store)
         /\ "linkedTwice" \notin disturbed
              => \A s \in DOMAIN store :
                    Parents(store, s) # {} /\ Parents(store, s) \subseteq DOMAIN store \cup {Base}

\* Deleting a session keeps the order of the others: each keeps all its other ancestors and
\* gains none, whatever links it has to sessions that no longer exist.
DeletingKeepsAncestors ==
    [][ DOMAIN store' \subseteq DOMAIN store /\ DOMAIN store' # DOMAIN store
        /\ "overtaken" \notin disturbed' /\ Acyclic(store)
        => \A s \in DOMAIN store' :
              Ancestors(store')[s] \cap DOMAIN store' = Ancestors(store)[s] \cap DOMAIN store' ]_weekendVars

\* The results recorded for a session are those acServer wrote for it, unless a session was
\* started while another one was running, being started or about to be recorded.
ResultsBelong ==
    "late" \notin disturbed
      => \A s \in DOMAIN store : store[s].results # 0 => files[store[s].results].session = s

\* While acServer plays a session, all the sessions it descends from have results, also if
\* some are deleted meanwhile.  Exceptions: the graph was edited, a stale copy was saved, or
\* the session that had just ended was cancelled because acServer was still running it.
RunsAfterParents ==
    disturbed \cap {"edited", "overtaken", "reopened"} = {} /\ Acyclic(store) /\ server.on = "session"
      /\ server.session \in DOMAIN store
      => \A a \in Ancestors(store)[server.session] \cap DOMAIN store : Completed(store, a)

\* A session has a timer exactly as long as its date is in the store, apart from the callback
\* under way.  Exceptions: a date was replaced by a start after a parent, a date made during the
\* callback was cleared by it, a date was refused, or a stale copy was saved.
TimersFollowDates ==
    disturbed \cap {"dateRefused", "dateWithdrawn", "dateCleared", "overtaken"} = {}
      => \A s \in DOMAIN store :
            \/ store[s].sched <=> s \in timers
            \/ th[Timer] # NoTask /\ th[Timer].session = s

\* The graph stays what the user made of it.
GraphKept == GraphSound /\ [][GraphSound']_weekendVars /\ DeletingKeepsAncestors
=============================================================================
