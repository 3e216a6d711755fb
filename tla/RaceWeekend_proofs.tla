------------------------- MODULE RaceWeekend_proofs -------------------------
(* For any handlers, graphs and bounds: the results recorded for a session are its *)
(* own, the timers are the dates, the graph of the sessions stays sound, and       *)
(* sessions are played after those they descend from.                              *)
EXTENDS RaceWeekend, FiniteSetTheorems, SequenceTheorems, WellFoundedInduction, TLAPS

USE WeekendAssumption, HandlersAssumption

------------------------------------------------------------------------------
(* The inductive invariant of results and timers.  Of the parents of a session     *)
(* nothing is needed here.                                                         *)

SessionRecord(r) ==
  r \in [parents : {r.parents}, started : BOOLEAN, results : Nat, auto : BOOLEAN, sched : BOOLEAN]

\* A weekend of sessions up to n, with results among the first k files.
Weekend(st, n, k) ==
  /\ st = [s \in DOMAIN st |-> st[s]] /\ DOMAIN st \subseteq 1 .. n
  /\ \A s \in DOMAIN st : SessionRecord(st[s]) /\ st[s].results <= k

\* What thread t does.
Starting == {"begin", "activate", "launch"}
Holding == {"stop", "save"}
Task(t, x) ==
  \/ x = NoTask
  \/ x \in [pc : Starting, session : SessionIds]
  \/ t = Timer /\ x \in [pc : {"clear"}, session : SessionIds]
  \/ t = Udp /\ x \in [pc : {"stop"}, session : SessionIds, copy : {x.copy}, stale : BOOLEAN]
  \/ t \in Handlers
       /\ x \in [pc : {"form"}, session : SessionIds \cup {None}, offered : {x.offered}, stale : BOOLEAN]
  \/ t \in Handlers
       /\ x \in [pc : Holding, session : SessionIds, then : {"cancelled", "begin"},
                 stale : BOOLEAN, copy : {x.copy}]

File == [session : SessionIds, run : Nat]
Servers == {Stopped, Other} \cup [on : {"session"}, session : SessionIds, run : Nat]

Fits ==
  /\ added \in 0 .. MaxSessions /\ active \in SessionIds \cup {None} /\ server \in Servers
  /\ files \in Seq(File) /\ sent \subseteq DOMAIN files /\ timers \subseteq 1 .. added /\ run \in Nat
  /\ Weekend(store, added, Len(files))

Tasks ==
  /\ th \in [Threads -> {th[t] : t \in Threads}]
  /\ \A t \in Threads : Task(t, th[t])
  /\ \A t \in Threads : th[t].pc \in Holding => Weekend(th[t].copy, added, Len(files))

\* Until a start comes too early: one thread at a time starts acServer, for the active
\* session; what acServer plays, or has reported, is the active session.
Launching ==
  "late" \notin disturbed =>
    /\ \A t \in Threads : th[t].pc = "launch" =>
         /\ active = th[t].session /\ server.on # "session" /\ sent = {}
         /\ \A o \in Threads \ {t} : th[o].pc # "launch"
    /\ server.on = "session" => active = server.session
    /\ \A f \in sent : files[f].session = active

\* The results of weekend st are those of its sessions.
Own(st, fs) == \A s \in DOMAIN st : st[s].results # 0 => fs[st[s].results].session = s

CopiesBelong ==
  "late" \notin disturbed =>
    /\ Own(store, files)
    /\ \A t \in Threads : th[t].pc \in Holding => Own(th[t].copy, files)

\* A copy that is not stale has the sessions and the dates of the weekend.
SameDates(st, other) ==
  DOMAIN st = DOMAIN other /\ \A s \in DOMAIN st : st[s].sched = other[s].sched

CopiesFresh ==
  \A h \in Handlers : th[h].pc \in Holding /\ ~th[h].stale => SameDates(th[h].copy, store)

IInv == Fits /\ Tasks /\ Launching /\ CopiesBelong /\ CopiesFresh /\ TimersFollowDates

------------------------------------------------------------------------------
(* Lemmas on numbers, tasks and weekends.                                         *)

LEMMA Bounds ==
  /\ MaxSessions \in Nat /\ MaxCalls \in Nat /\ MaxRuns \in Nat
  /\ None \notin SessionIds /\ SessionIds \subseteq Nat \ {0}
  /\ Udp \notin Handlers /\ Timer \notin Handlers /\ Udp # Timer
  /\ Threads = Handlers \cup {Udp, Timer}
BY DEF None, SessionIds, Udp, Timer, Threads

Less == {ss \in Nat \X Nat : ss[1] < ss[2]}

LEMMA LessIsWellFounded == IsWellFoundedOn(Less, Nat)
<1>1. Less = OpToRel(<, Nat)
  BY Zenon DEF OpToRel, Less
<1> QED
  BY <1>1, NatLessThanWellFounded, Zenon

\* What is first among some sessions is one of them.
LEMMA FirstIsOne ==
  ASSUME NEW S \in SUBSET Nat, S # {}
  PROVE  First(S) \in S
<1>1. \E m \in S : \A n \in S : <<n, m>> \notin Less
  BY LessIsWellFounded, WFMin
<1>2. \A m, n \in S : <<n, m>> \notin Less => m <= n
  BY DEF Less
<1>3. \E m \in S : \A n \in S : m <= n
  BY <1>1, <1>2
<1> QED
  BY <1>3 DEF First, Min

\* The session to be started next exists.
LEMMA NextExists ==
  ASSUME NEW st, NEW n \in Nat, NEW k, Weekend(st, n, k), NEW s, NextSession(st, s) # None
  PROVE  NextSession(st, s) \in 1 .. n
<1>1. \A p : FindChildren(st, p) \in SUBSET Nat /\ FindChildren(st, p) \subseteq 1 .. n
  BY DEF FindChildren, Weekend
<1> DEFINE waiting(p) == {c \in FindChildren(st, p) : ~Completed(st, c) /\ st[c].auto}
<1>2. \E p : NextSession(st, s) = First(waiting(p))
  BY Zenon DEF NextSession
<1>3. PICK p : NextSession(st, s) = First(waiting(p))
  BY <1>2
<1>4. waiting(p) \in SUBSET Nat /\ waiting(p) \subseteq 1 .. n
  BY <1>1
<1>5. waiting(p) # {}
  BY <1>3 DEF First
<1> HIDE DEF waiting
<1> QED
  BY <1>3, <1>4, <1>5, FirstIsOne

\* What each task is, by its name.
LEMMA TaskNamed ==
  ASSUME NEW t \in Threads, NEW x, Task(t, x)
  PROVE  /\ x.pc \in {"idle", "clear", "form"} \cup Starting \cup Holding
         /\ x.pc = "idle" <=> x = NoTask
         /\ x.pc \in Starting => x \in [pc : Starting, session : SessionIds]
         /\ x.pc = "clear" => t = Timer /\ x \in [pc : {"clear"}, session : SessionIds]
         /\ x.pc \in Holding => t \in Handlers \cup {Udp} /\ x.session \in SessionIds /\ x.stale \in BOOLEAN
         /\ t = Udp /\ x.pc \in Holding =>
              x \in [pc : {"stop"}, session : SessionIds, copy : {x.copy}, stale : BOOLEAN]
         /\ t \in Handlers /\ x.pc \in Holding =>
              x \in [pc : Holding, session : SessionIds, then : {"cancelled", "begin"},
                     stale : BOOLEAN, copy : {x.copy}]
         /\ x.pc = "form" => t \in Handlers
              /\ x \in [pc : {"form"}, session : SessionIds \cup {None}, offered : {x.offered}, stale : BOOLEAN]
BY Bounds DEF Task, NoTask, Starting, Holding

\* A task after somebody else saved.
LEMMA AgedTask ==
  ASSUME NEW t \in Threads, NEW x, Task(t, x), NEW st
  PROVE  /\ Task(t, Aged(x, st))
         /\ Aged(x, st).pc = x.pc /\ Aged(x, st).session = x.session
         /\ x.pc \in Holding => Aged(x, st).copy = x.copy /\ Aged(x, st).stale
         /\ x.pc \notin Holding \cup {"form"} => Aged(x, st) = x
<1>1. CASE x.pc = "form"
  <2>1. PICK b : Aged(x, st) = [x EXCEPT !.stale = b] /\ b \in BOOLEAN
    BY <1>1, TaskNamed DEF Aged
  <2> QED
    BY <1>1, <2>1, TaskNamed DEF Task, Holding
<1>2. CASE x.pc \in Holding
  <2>1. Aged(x, st) = [x EXCEPT !.stale = TRUE]
    BY <1>2 DEF Aged, Holding
  <2>2. CASE t = Udp
    BY <1>2, <2>1, <2>2, TaskNamed DEF Task, Holding
  <2>3. CASE t \in Handlers
    BY <1>2, <2>1, <2>3, TaskNamed DEF Task, Holding
  <2> QED
    BY <1>2, <2>2, <2>3, TaskNamed
<1>3. CASE x.pc \notin Holding \cup {"form"}
  <2>1. Aged(x, st) = x
    BY <1>3 DEF Aged, Holding
  <2> QED
    BY <1>3, <2>1
<1> QED
  BY <1>1, <1>2, <1>3

\* Files are only added, and so are numbers of sessions.
Grown == /\ files' \in Seq(File) /\ \A f \in DOMAIN files : f \in DOMAIN files' /\ files'[f] = files[f]
         /\ Len(files) <= Len(files') /\ added' \in Nat /\ added <= added'

LEMMA NothingGrown ==
  ASSUME Fits, UNCHANGED <<files, added>>
  PROVE  Grown
BY DEF Fits, Grown

LEMMA FileGrown ==
  ASSUME Fits, NEW x \in File, files' = Append(files, x), UNCHANGED added
  PROVE  /\ Grown /\ Len(files') = Len(files) + 1 /\ files'[Len(files')] = x
         /\ DOMAIN files' = DOMAIN files \cup {Len(files')}
BY DEF Fits, Grown

LEMMA WeekendGrown ==
  ASSUME Fits, Grown, NEW st, Weekend(st, added, Len(files))
  PROVE  Weekend(st, added', Len(files'))
<1>1. added \in Nat /\ added' \in Nat /\ added <= added'
  BY DEF Fits, Grown
<1>2. Len(files) \in Nat /\ Len(files') \in Nat /\ Len(files) <= Len(files')
  BY DEF Fits, Grown
<1> QED
  BY <1>1, <1>2 DEF Weekend, SessionRecord

\* The results that there were stay where they are.
LEMMA OwnGrown ==
  ASSUME Fits, Grown, NEW st, Weekend(st, added, Len(files)), Own(st, files)
  PROVE  Own(st, files')
<1> SUFFICES ASSUME NEW s \in DOMAIN st, st[s].results # 0
             PROVE  files'[st[s].results].session = s
  BY DEF Own
<1>1. st[s].results \in DOMAIN files
  BY DEF Weekend, SessionRecord, Fits
<1> QED
  BY <1>1 DEF Own, Grown

\* Thread t goes on with x; the others do what they did, with what they loaded.
Step(t, x) ==
  /\ th' \in [Threads -> {th'[o] : o \in Threads}] /\ th'[t] = x
  /\ \A o \in Threads \ {t} :
       /\ th'[o].pc = th[o].pc /\ th'[o].session = th[o].session /\ Task(o, th'[o])
       /\ th[o].pc \in Holding => th'[o].copy = th[o].copy
       /\ th[o].pc \notin Holding \cup {"form"} => th'[o] = th[o]

LEMMA SaveSteps ==
  ASSUME Tasks, NEW t \in Threads, NEW st, NEW x, Save(t, st, x)
  PROVE  /\ Step(t, x) /\ store' = st
         /\ \A o \in Threads \ {t} : th[o].pc \in Holding => th'[o].stale
<1>1. th' = [o \in Threads |-> IF o = t THEN x ELSE Aged(th[o], st)] /\ store' = st
  BY DEF Save
<1>2. \A o \in Threads \ {t} : th'[o] = Aged(th[o], st) /\ Task(o, th[o])
  BY <1>1 DEF Tasks
<1>3. th' \in [Threads -> {th'[o] : o \in Threads}] /\ th'[t] = x
  BY <1>1
<1> QED
  BY <1>1, <1>2, <1>3, AgedTask DEF Step

LEMMA BecomeSteps ==
  ASSUME Tasks, NEW t \in Threads, NEW x, Become(t, x)
  PROVE  Step(t, x) /\ \A o \in Threads \ {t} : th'[o] = th[o]
<1>1. th' = [th EXCEPT ![t] = x]
  BY DEF Become
<1>2. DOMAIN th = Threads /\ th = [o \in Threads |-> th[o]]
  BY DEF Tasks
<1> QED
  BY <1>1, <1>2 DEF Step, Tasks

LEMMA NoStep ==
  ASSUME Tasks, UNCHANGED th, NEW t \in Threads
  PROVE  Step(t, th[t])
BY DEF Step, Tasks

LEMMA TasksKept ==
  ASSUME Fits, Tasks, Grown, NEW t \in Threads, NEW x, Step(t, x), Task(t, x),
         x.pc \in Holding => Weekend(x.copy, added', Len(files'))
  PROVE  Tasks'
<1>1. \A o \in Threads : Task(o, th'[o])
  BY DEF Step
<1>2. \A o \in Threads : th'[o].pc \in Holding => Weekend(th'[o].copy, added', Len(files'))
  <2> SUFFICES ASSUME NEW o \in Threads, th'[o].pc \in Holding, o # t
               PROVE  Weekend(th'[o].copy, added', Len(files'))
    BY DEF Step
  <2>1. th'[o].copy = th[o].copy /\ Weekend(th[o].copy, added, Len(files))
    BY DEF Step, Tasks
  <2> QED
    BY <2>1, WeekendGrown
<1> QED
  BY <1>1, <1>2 DEF Step, Tasks

\* A step that neither activates a session nor starts acServer.
LEMMA LaunchingKept ==
  ASSUME Fits, Tasks, Launching, Grown, NEW t \in Threads, NEW x, Step(t, x), x.pc # "launch",
         active' = active, server' \in {server, Stopped, Other}, sent' \subseteq sent,
         disturbed \subseteq disturbed'
  PROVE  Launching'
<1> SUFFICES ASSUME "late" \notin disturbed'
             PROVE  /\ \A o \in Threads : th'[o].pc = "launch" =>
                         /\ active' = th'[o].session /\ server'.on # "session" /\ sent' = {}
                         /\ \A u \in Threads \ {o} : th'[u].pc # "launch"
                    /\ server'.on = "session" => active' = server'.session
                    /\ \A f \in sent' : files'[f].session = active'
  BY DEF Launching
<1>1. server'.on = "session" => server' = server
  BY DEF Stopped, Other
<1>2. \A o \in Threads : th'[o].pc = "launch" =>
        o # t /\ th[o].pc = "launch" /\ th'[o].session = th[o].session
  BY DEF Step
<1>3. \A f \in sent' : f \in DOMAIN files /\ files'[f] = files[f]
  BY DEF Fits, Grown
<1> QED
  BY <1>1, <1>2, <1>3 DEF Launching

\* Threads keep the copies they have.
LEMMA CopiesKept ==
  ASSUME Fits, Tasks, CopiesBelong, Grown, NEW t \in Threads, NEW x, Step(t, x),
         "late" \notin disturbed' => Own(store', files'),
         x.pc \in Holding /\ "late" \notin disturbed' => Own(x.copy, files'),
         disturbed \subseteq disturbed'
  PROVE  CopiesBelong'
<1> SUFFICES ASSUME "late" \notin disturbed', NEW o \in Threads, th'[o].pc \in Holding
             PROVE  Own(th'[o].copy, files')
  BY DEF CopiesBelong
<1>1. CASE o = t
  BY <1>1 DEF Step
<1>2. CASE o # t
  <2>1. th'[o].copy = th[o].copy /\ Weekend(th[o].copy, added, Len(files)) /\ Own(th[o].copy, files)
    BY <1>2 DEF Step, Tasks, CopiesBelong
  <2> QED
    BY <2>1, OwnGrown
<1> QED
  BY <1>1, <1>2

LEMMA DatesKept ==
  ASSUME TimersFollowDates, disturbed \subseteq disturbed', DOMAIN store' \subseteq DOMAIN store,
         \A s \in DOMAIN store' : store'[s].sched = store[s].sched,
         timers' = timers,
         th[Timer] # NoTask => th'[Timer] # NoTask /\ th'[Timer].session = th[Timer].session
  PROVE  TimersFollowDates'
BY DEF TimersFollowDates

\* The timer's task, when another thread goes on.
LEMMA TimerWaits ==
  ASSUME Tasks, NEW t \in Threads \ {Timer}, NEW x, Step(t, x)
  PROVE  th'[Timer] = th[Timer]
<1>1. Timer \in Threads \ {t} /\ Task(Timer, th[Timer])
  BY Bounds DEF Tasks
<1>2. th[Timer].pc \notin Holding \cup {"form"}
  BY <1>1, Bounds, TaskNamed
<1> QED
  BY <1>1, <1>2 DEF Step

\* After thread t has saved, its own task is fresh and the copies of the others are stale.
LEMMA SaveKeeps ==
  ASSUME IInv, Grown, NEW t \in Threads, NEW st, NEW x, Save(t, st, x), Task(t, x),
         x.pc # "launch", x.pc \in Holding => t = Udp /\ x.copy = st,
         Weekend(st, added', Len(files')), "late" \notin disturbed' => Own(st, files'),
         active' = active, server' \in {server, Stopped, Other}, sent' \subseteq sent,
         disturbed \subseteq disturbed'
  PROVE  Step(t, x) /\ store' = st /\ Tasks' /\ Launching' /\ CopiesBelong' /\ CopiesFresh'
<1>1. Step(t, x) /\ store' = st /\ \A o \in Threads \ {t} : th[o].pc \in Holding => th'[o].stale
  BY SaveSteps DEF IInv
<1>2. Tasks'
  BY <1>1, TasksKept DEF IInv
<1>3. Launching'
  BY <1>1, LaunchingKept DEF IInv
<1>4. CopiesBelong'
  BY <1>1, CopiesKept DEF IInv
<1>5. CopiesFresh'
  <2> SUFFICES ASSUME NEW h \in Handlers, th'[h].pc \in Holding
               PROVE  th'[h].stale
    BY DEF CopiesFresh
  <2>1. h \in Threads \ {t}
    BY <1>1, Bounds DEF Step
  <2> QED
    BY <1>1, <2>1 DEF Step
<1> QED
  BY <1>1, <1>2, <1>3, <1>4, <1>5

LEMMA BecomeKeeps ==
  ASSUME IInv, Grown, NEW t \in Threads, NEW x, Become(t, x), Task(t, x), UNCHANGED store,
         x.pc # "launch",
         x.pc \in Holding => /\ Weekend(x.copy, added', Len(files'))
                             /\ "late" \notin disturbed' => Own(x.copy, files')
                             /\ t \in Handlers /\ ~x.stale => SameDates(x.copy, store),
         active' = active, server' \in {server, Stopped, Other}, sent' \subseteq sent,
         disturbed \subseteq disturbed'
  PROVE  Step(t, x) /\ Tasks' /\ Launching' /\ CopiesBelong' /\ CopiesFresh'
<1>1. Step(t, x) /\ \A o \in Threads \ {t} : th'[o] = th[o]
  BY BecomeSteps DEF IInv
<1>2. Tasks'
  BY <1>1, TasksKept DEF IInv
<1>3. Launching'
  BY <1>1, LaunchingKept DEF IInv
<1>4. CopiesBelong'
  <2>1. "late" \notin disturbed' => Own(store', files')
    BY OwnGrown DEF IInv, Fits, CopiesBelong
  <2> QED
    BY <1>1, <2>1, CopiesKept DEF IInv
<1>5. CopiesFresh'
  BY <1>1, Bounds DEF CopiesFresh, Step, IInv
<1> QED
  BY <1>1, <1>2, <1>3, <1>4, <1>5

\* Nobody's task changes.
LEMMA NobodyMoves ==
  ASSUME IInv, Grown, UNCHANGED <<th, store, active>>,
         server' \in {server, Stopped, Other}, sent' \subseteq sent, disturbed \subseteq disturbed'
  PROVE  Tasks' /\ Launching' /\ CopiesBelong' /\ CopiesFresh'
<1>1. Timer \in Threads /\ Step(Timer, th[Timer])
  BY Bounds, NoStep DEF IInv
<1>2. \A t \in Threads : Step(t, th[t]) /\ Task(t, th[t])
  BY NoStep DEF IInv, Tasks
<1>3. Tasks'
  <2>1. th[Timer].pc \notin Holding
    BY <1>1, <1>2, Bounds, TaskNamed
  <2> QED
    BY <1>1, <1>2, <2>1, TasksKept DEF IInv
<1>4. Launching'
  <2>1. \A f \in sent' : f \in DOMAIN files /\ files'[f] = files[f]
    BY DEF IInv, Fits, Grown
  <2>2. server'.on = "session" => server' = server
    BY DEF Stopped, Other
  <2> QED
    BY <2>1, <2>2 DEF IInv, Launching
<1>5. CopiesBelong'
  <2>1. \A t \in Threads : th[t].pc \in Holding => Weekend(th[t].copy, added, Len(files))
    BY DEF IInv, Tasks
  <2> QED
    BY <2>1, OwnGrown DEF IInv, CopiesBelong, Fits
<1>6. CopiesFresh'
  BY DEF IInv, CopiesFresh
<1> QED
  BY <1>3, <1>4, <1>5, <1>6

------------------------------------------------------------------------------
(* What is changed in a weekend.                                                  *)

\* The same sessions, with the same dates, apart from session s.
Alike(e, st) ==
  DOMAIN e = DOMAIN st /\ \A c \in DOMAIN st : e[c].results = st[c].results /\ e[c].sched = st[c].sched

LEMMA StartedSet ==
  ASSUME NEW st, NEW n, NEW k, Weekend(st, n, k), NEW s \in DOMAIN st
  PROVE  /\ Weekend([st EXCEPT ![s].started = TRUE], n, k)
         /\ Alike([st EXCEPT ![s].started = TRUE], st)
<1> DEFINE e == [st EXCEPT ![s].started = TRUE]
<1>1. DOMAIN e = DOMAIN st /\ (\A c \in DOMAIN st \ {s} : e[c] = st[c])
  BY DEF Weekend
<1>2. SessionRecord(e[s]) /\ e[s].results = st[s].results /\ e[s].sched = st[s].sched
  BY DEF Weekend, SessionRecord
<1>3. e = [c \in DOMAIN e |-> e[c]]
  BY DEF Weekend
<1> HIDE DEF e
<1>4. Weekend(e, n, k) /\ Alike(e, st)
  BY <1>1, <1>2, <1>3 DEF Weekend, Alike
<1> QED
  BY <1>4 DEF e

LEMMA ParentsSet ==
  ASSUME NEW st, NEW n, NEW k, Weekend(st, n, k), NEW s \in DOMAIN st, NEW ps
  PROVE  /\ Weekend([st EXCEPT ![s].parents = ps], n, k)
         /\ Alike([st EXCEPT ![s].parents = ps], st)
<1> DEFINE e == [st EXCEPT ![s].parents = ps]
<1>1. DOMAIN e = DOMAIN st /\ (\A c \in DOMAIN st \ {s} : e[c] = st[c])
  BY DEF Weekend
<1>2. SessionRecord(e[s]) /\ e[s].results = st[s].results /\ e[s].sched = st[s].sched
  BY DEF Weekend, SessionRecord
<1>3. e = [c \in DOMAIN e |-> e[c]]
  BY DEF Weekend
<1> HIDE DEF e
<1>4. Weekend(e, n, k) /\ Alike(e, st)
  BY <1>1, <1>2, <1>3 DEF Weekend, Alike
<1> QED
  BY <1>4 DEF e

\* The changes of session s in weekend st, as the actions make them.
WithResults(st, s, f) == [st EXCEPT ![s].results = f]
WithNone(st, s) == [st EXCEPT ![s].started = FALSE, ![s].results = 0]
WithDate(st, s, b) == [st EXCEPT ![s].sched = b]
WithSchedule(st, s, b, a) == [st EXCEPT ![s].sched = b, ![s].auto = a]

LEMMA ResultsSet ==
  ASSUME NEW st, NEW n, NEW k \in Nat, Weekend(st, n, k), NEW s \in DOMAIN st, NEW f \in 0 .. k,
         NEW e, e = WithResults(st, s, f)
  PROVE  /\ Weekend(e, n, k) /\ DOMAIN e = DOMAIN st /\ e[s].results = f
         /\ \A c \in DOMAIN st : e[c].sched = st[c].sched /\ (c # s => e[c] = st[c])
<1>1. DOMAIN e = DOMAIN st /\ (\A c \in DOMAIN st \ {s} : e[c] = st[c])
  BY DEF Weekend, WithResults
<1>2. SessionRecord(e[s]) /\ e[s].results = f /\ e[s].sched = st[s].sched
  BY DEF Weekend, WithResults, SessionRecord
<1>3. e = [c \in DOMAIN e |-> e[c]]
  BY DEF Weekend, WithResults
<1>4. Weekend(e, n, k)
  BY <1>1, <1>2, <1>3 DEF Weekend
<1> QED
  BY <1>1, <1>2, <1>4

LEMMA ResultsCleared ==
  ASSUME NEW st, NEW n, NEW k \in Nat, Weekend(st, n, k), NEW s \in DOMAIN st,
         NEW e, e = WithNone(st, s)
  PROVE  /\ Weekend(e, n, k) /\ DOMAIN e = DOMAIN st /\ e[s].results = 0
         /\ \A c \in DOMAIN st : e[c].sched = st[c].sched /\ (c # s => e[c] = st[c])
<1>1. DOMAIN e = DOMAIN st /\ (\A c \in DOMAIN st \ {s} : e[c] = st[c])
  BY DEF Weekend, WithNone
<1>2. SessionRecord(e[s]) /\ e[s].results = 0 /\ e[s].sched = st[s].sched
  BY DEF Weekend, WithNone, SessionRecord
<1>3. e = [c \in DOMAIN e |-> e[c]]
  BY DEF Weekend, WithNone
<1>4. Weekend(e, n, k)
  BY <1>1, <1>2, <1>3 DEF Weekend
<1> QED
  BY <1>1, <1>2, <1>4

LEMMA DateSet ==
  ASSUME NEW st, NEW n, NEW k, Weekend(st, n, k), NEW s \in DOMAIN st, NEW b \in BOOLEAN,
         NEW e, NEW a \in BOOLEAN,
         e = WithDate(st, s, b) \/ e = WithSchedule(st, s, b, a)
  PROVE  /\ Weekend(e, n, k) /\ DOMAIN e = DOMAIN st
         /\ e[s].sched = b /\ e[s].results = st[s].results
         /\ \A c \in DOMAIN st \ {s} : e[c] = st[c]
<1>1. DOMAIN e = DOMAIN st /\ (\A c \in DOMAIN st \ {s} : e[c] = st[c])
  BY DEF Weekend, WithDate, WithSchedule
<1>2. SessionRecord(e[s]) /\ e[s].results = st[s].results /\ e[s].sched = b
  BY DEF Weekend, WithDate, WithSchedule, SessionRecord
<1>3. e = [c \in DOMAIN e |-> e[c]]
  BY DEF Weekend, WithDate, WithSchedule
<1>4. Weekend(e, n, k)
  BY <1>1, <1>2, <1>3 DEF Weekend
<1> QED
  BY <1>1, <1>2, <1>4

LEMMA SessionDeleted ==
  ASSUME NEW st, NEW n, NEW k, Weekend(st, n, k), NEW s \in DOMAIN st
  PROVE  LET e == DelSession(st, s) IN
           /\ Weekend(e, n, k) /\ DOMAIN e = DOMAIN st \ {s}
           /\ \A c \in DOMAIN e : e[c].results = st[c].results /\ e[c].sched = st[c].sched
<1> DEFINE e == DelSession(st, s)
<1>1. DOMAIN e = DOMAIN st \ {s} /\ e = [c \in DOMAIN e |-> e[c]]
  BY DEF DelSession
<1>2. ASSUME NEW c \in DOMAIN e
      PROVE  SessionRecord(e[c]) /\ e[c].results = st[c].results /\ e[c].sched = st[c].sched
  <2>1. \E ps : e[c] = [st[c] EXCEPT !.parents = ps]
    BY <1>1, Zenon DEF DelSession
  <2>2. PICK ps : e[c] = [st[c] EXCEPT !.parents = ps]
    BY <2>1
  <2>3. SessionRecord(st[c])
    BY <1>1 DEF Weekend
  <2> HIDE DEF e
  <2> QED
    BY <2>2, <2>3 DEF SessionRecord
<1> HIDE DEF e
<1>3. Weekend(e, n, k)
  BY <1>1, <1>2 DEF Weekend
<1> QED
  BY <1>1, <1>2, <1>3 DEF e

------------------------------------------------------------------------------
(* Each action.                                                                   *)

\* Thread t has returned from a start.
LEMMA ReturnedTask ==
  ASSUME IInv, NEW t \in Threads, th[t].pc \in Starting
  PROVE  /\ Task(t, Returned(t)) /\ Returned(t).pc \in {"idle", "clear"}
         /\ t = Timer => Returned(t) # NoTask /\ Returned(t).session = th[t].session
<1>1. th[t].session \in SessionIds
  BY TaskNamed DEF IInv, Tasks
<1> QED
  BY <1>1 DEF Returned, Task, NoTask

LEMMA StartTask ==
  ASSUME NEW t \in Threads, NEW s \in SessionIds, NEW pc \in Starting
  PROVE  Task(t, [pc |-> pc, session |-> s]) /\ [pc |-> pc, session |-> s] # NoTask
BY DEF Task, Starting, NoTask

LEMMA IdleTask ==
  ASSUME NEW t \in Threads
  PROVE  Task(t, NoTask) /\ NoTask.pc = "idle"
BY DEF Task, NoTask

LEMMA SessionsAre ==
  ASSUME IInv
  PROVE  /\ DOMAIN store \subseteq SessionIds /\ added \in Nat /\ added \in 0 .. MaxSessions
         /\ Len(files) \in Nat /\ DOMAIN files = 1 .. Len(files)
         /\ timers \subseteq SessionIds /\ 1 .. added \subseteq SessionIds
BY Bounds DEF IInv, Fits, Weekend, SessionIds

LEMMA BeginRunPreserves ==
  ASSUME IInv, NEW t \in Threads, BeginRun(t)
  PROVE  IInv'
<1> DEFINE s == th[t].session
<1>1. th[t].pc \in Starting /\ s \in SessionIds
  BY TaskNamed DEF BeginRun, IInv, Tasks, Starting
<1>2. Grown
  BY NothingGrown DEF BeginRun, IInv
<1>3. ASSUME NEW x, x \in {Returned(t), [pc |-> "activate", session |-> s]}
      PROVE  /\ Task(t, x) /\ x.pc # "launch" /\ x.pc \notin Holding
             /\ t = Timer => x # NoTask /\ x.session = s
  <2>1. CASE x = Returned(t)
    BY <1>1, <2>1, ReturnedTask DEF Holding
  <2>2. CASE x = [pc |-> "activate", session |-> s]
    <3>1. Task(t, x) /\ x # NoTask
      BY <1>1, <2>2, StartTask DEF Starting
    <3> QED
      BY <2>2, <3>1 DEF Holding
  <2> QED
    BY <1>3, <2>1, <2>2
<1>4. CASE ~(s \in DOMAIN store /\ SessionCanBeRun(store, s))
  <2>1. Become(t, Returned(t)) /\ UNCHANGED store
    BY <1>4 DEF BeginRun
  <2>2. Step(t, Returned(t)) /\ Tasks' /\ Launching' /\ CopiesBelong' /\ CopiesFresh'
    BY <1>2, <1>3, <2>1, BecomeKeeps DEF BeginRun
  <2>3. Fits'
    BY <2>1 DEF BeginRun, IInv, Fits
  <2>4. (th'[Timer] # NoTask /\ th'[Timer].session = th[Timer].session) \/ th'[Timer] = th[Timer]
    BY <1>3, <2>2, TimerWaits DEF Step, IInv
  <2>5. TimersFollowDates'
    BY <2>1, <2>4, DatesKept DEF BeginRun, IInv
  <2> QED
    BY <2>2, <2>3, <2>5 DEF IInv
<1>5. CASE s \in DOMAIN store /\ SessionCanBeRun(store, s)
  <2> DEFINE st == [store EXCEPT ![s].started = TRUE]
  <2>1. PICK x \in {Returned(t), [pc |-> "activate", session |-> s]} : Save(t, st, x)
    BY <1>5 DEF BeginRun
  <2>2. Weekend(st, added', Len(files')) /\ Alike(st, store)
    BY <1>5, StartedSet DEF IInv, Fits, BeginRun
  <2> HIDE DEF st
  <2>3. "late" \notin disturbed' => Own(st, files')
    BY <2>2 DEF Alike, Own, IInv, CopiesBelong, BeginRun
  <2>4. Step(t, x) /\ store' = st /\ Tasks' /\ Launching' /\ CopiesBelong' /\ CopiesFresh'
    BY <1>2, <1>3, <2>1, <2>2, <2>3, SaveKeeps DEF BeginRun
  <2>5. Fits'
    BY <2>2, <2>4 DEF BeginRun, IInv, Fits
  <2>6. (th'[Timer] # NoTask /\ th'[Timer].session = th[Timer].session) \/ th'[Timer] = th[Timer]
    BY <1>3, <2>4, TimerWaits DEF Step, IInv
  <2>7. TimersFollowDates'
    BY <2>2, <2>4, <2>6, DatesKept DEF BeginRun, IInv, Alike
  <2> QED
    BY <2>4, <2>5, <2>7 DEF IInv
<1> QED
  BY <1>4, <1>5

LEMMA SetActivePreserves ==
  ASSUME IInv, NEW t \in Threads, SetActive(t)
  PROVE  IInv'
<1> DEFINE s == th[t].session
           x == [pc |-> "launch", session |-> s]
<1>1. th[t] \in [pc : Starting, session : SessionIds] /\ th[t].pc = "activate" /\ s \in SessionIds
  BY TaskNamed DEF SetActive, IInv, Tasks, Starting
<1>2. [th[t] EXCEPT !.pc = "launch"] = x
  BY <1>1
<1>3. Become(t, x)
  BY <1>2 DEF SetActive
<1>4. Task(t, x) /\ x # NoTask /\ x.pc \notin Holding
  BY <1>1, StartTask DEF Starting, Holding
<1> HIDE DEF x
<1>5. Step(t, x) /\ \A o \in Threads \ {t} : th'[o] = th[o]
  BY <1>3, BecomeSteps DEF IInv
<1>6. Grown
  BY NothingGrown DEF SetActive, IInv
<1>7. Tasks'
  BY <1>4, <1>5, <1>6, TasksKept DEF IInv
<1>8. Launching'
  <2> SUFFICES ASSUME "late" \notin disturbed'
               PROVE  /\ \A u \in Threads : th'[u].pc = "launch" =>
                           /\ active' = th'[u].session /\ server'.on # "session" /\ sent' = {}
                           /\ \A o \in Threads \ {u} : th'[o].pc # "launch"
                      /\ server'.on = "session" => active' = server'.session
                      /\ \A f \in sent' : files'[f].session = active'
    BY DEF Launching
  <2>1. NothingUnderWay(t) /\ UNCHANGED <<server, sent>> /\ active' = s
    BY DEF SetActive
  <2>2. \A o \in Threads \ {t} : th'[o].pc # "launch"
    BY <1>5, <2>1 DEF NothingUnderWay
  <2>3. th'[t].session = s
    BY <1>5 DEF Step, x
  <2> QED
    BY <2>1, <2>2, <2>3 DEF NothingUnderWay
<1>9. CopiesBelong'
  BY <1>4, <1>5, <1>6, CopiesKept DEF IInv, SetActive, CopiesBelong
<1>10. CopiesFresh'
  BY <1>4, <1>5, Bounds DEF CopiesFresh, Step, IInv, SetActive
<1>11. Fits'
  BY <1>1 DEF SetActive, IInv, Fits
<1>12. (th'[Timer] # NoTask /\ th'[Timer].session = th[Timer].session) \/ th'[Timer] = th[Timer]
  BY <1>4, <1>5, Bounds DEF Step, x
<1>13. TimersFollowDates'
  BY <1>12, DatesKept DEF SetActive, IInv
<1> QED
  BY <1>7, <1>8, <1>9, <1>10, <1>11, <1>13 DEF IInv

LEMMA LaunchPreserves ==
  ASSUME IInv, NEW t \in Threads, Launch(t) \/ LaunchFails(t)
  PROVE  IInv'
<1>1. th[t].pc \in Starting /\ th[t].session \in SessionIds /\ th[t].pc = "launch"
  BY TaskNamed DEF Launch, LaunchFails, IInv, Tasks, Starting
<1>2. Become(t, Returned(t)) /\ UNCHANGED <<store, added, active, files, sent, timers, disturbed>>
  BY DEF Launch, LaunchFails
<1>3. /\ Task(t, Returned(t)) /\ Returned(t).pc \in {"idle", "clear"}
      /\ t = Timer => Returned(t) # NoTask /\ Returned(t).session = th[t].session
  BY <1>1, ReturnedTask
<1>4. Step(t, Returned(t)) /\ \A o \in Threads \ {t} : th'[o] = th[o]
  BY <1>2, BecomeSteps DEF IInv
<1>5. Grown
  BY <1>2, NothingGrown DEF IInv
<1>6. Tasks'
  BY <1>3, <1>4, <1>5, TasksKept DEF IInv, Holding
<1>7. LaunchFails(t) => Launching' /\ Fits'
  <2> SUFFICES ASSUME LaunchFails(t)
               PROVE  Launching' /\ Fits'
    OBVIOUS
  <2>1. Launching'
    BY <1>2, <1>3, <1>4, <1>5, LaunchingKept DEF IInv, LaunchFails
  <2>2. Fits'
    BY <1>2 DEF LaunchFails, IInv, Fits, Servers
  <2> QED
    BY <2>1, <2>2
<1>8. Launch(t) => Launching' /\ Fits'
  <2> SUFFICES ASSUME Launch(t)
               PROVE  Launching' /\ Fits'
    OBVIOUS
  <2>1. server' = Running(th[t].session, run') /\ run' \in Nat
    BY DEF Launch, IInv, Fits
  <2>2. server' \in Servers /\ server'.on = "session" /\ server'.session = th[t].session
    BY <1>1, <2>1 DEF Running, Servers
  <2>3. Launching'
    <3> SUFFICES ASSUME "late" \notin disturbed
                 PROVE  /\ \A u \in Threads : th'[u].pc # "launch"
                        /\ active' = server'.session /\ sent' = {}
      BY <1>2 DEF Launching
    <3>1. active = th[t].session /\ sent = {} /\ \A o \in Threads \ {t} : th[o].pc # "launch"
      BY <1>1 DEF IInv, Launching
    <3> QED
      BY <1>2, <1>3, <1>4, <2>2, <3>1 DEF Step
  <2>4. Fits'
    BY <1>2, <2>1, <2>2 DEF IInv, Fits
  <2> QED
    BY <2>3, <2>4
<1>9. CopiesBelong'
  BY <1>2, <1>3, <1>4, <1>5, CopiesKept DEF IInv, CopiesBelong, Holding
<1>10. CopiesFresh'
  BY <1>2, <1>3, <1>4, Bounds DEF CopiesFresh, Step, IInv, Holding
<1>11. (th'[Timer] # NoTask /\ th'[Timer].session = th[Timer].session) \/ th'[Timer] = th[Timer]
  BY <1>3, <1>4, Bounds DEF Step
<1>12. TimersFollowDates'
  BY <1>2, <1>11, DatesKept DEF IInv
<1> QED
  BY <1>6, <1>7, <1>8, <1>9, <1>10, <1>12 DEF IInv

LEMMA SessionEndsPreserves ==
  ASSUME IInv, SessionEnds
  PROVE  IInv'
<1> DEFINE x == [session |-> server.session, run |-> server.run]
<1>1. x \in File /\ files' = Append(files, x) /\ sent' = sent \cup {Len(files')}
  BY DEF SessionEnds, IInv, Fits, Servers, Stopped, Other, File
<1>2. /\ Grown /\ Len(files') = Len(files) + 1 /\ files'[Len(files')] = x
      /\ DOMAIN files' = DOMAIN files \cup {Len(files')}
  BY <1>1, FileGrown DEF IInv, SessionEnds
<1>3. Tasks' /\ CopiesBelong' /\ CopiesFresh'
  <2>1. Timer \in Threads /\ Step(Timer, th[Timer]) /\ Task(Timer, th[Timer]) /\ th[Timer].pc \notin Holding
    BY NoStep, Bounds, TaskNamed DEF IInv, Tasks, SessionEnds
  <2>2. Tasks'
    BY <1>2, <2>1, TasksKept DEF IInv
  <2>3. "late" \notin disturbed' => Own(store', files')
    BY <1>2, OwnGrown DEF IInv, Fits, CopiesBelong, SessionEnds
  <2>4. CopiesBelong'
    BY <1>2, <2>1, <2>3, CopiesKept DEF IInv, SessionEnds
  <2>5. CopiesFresh'
    BY DEF IInv, CopiesFresh, SessionEnds
  <2> QED
    BY <2>2, <2>4, <2>5
<1>4. Launching'
  <2>1. \A f \in sent : f \in DOMAIN files /\ files'[f] = files[f]
    BY <1>2 DEF IInv, Fits, Grown
  <2> QED
    BY <1>1, <1>2, <2>1 DEF IInv, Launching, SessionEnds
<1>5. Fits'
  <2>1. Weekend(store, added', Len(files'))
    BY <1>2, WeekendGrown DEF IInv, Fits
  <2> QED
    BY <1>1, <1>2, <2>1 DEF IInv, Fits, Grown, SessionEnds
<1>6. TimersFollowDates'
  BY DatesKept DEF IInv, SessionEnds
<1> QED
  BY <1>3, <1>4, <1>5, <1>6 DEF IInv

LEMMA ReceivePreserves ==
  ASSUME IInv, NEW f, Receive(f)
  PROVE  IInv'
<1>1. f \in DOMAIN files /\ f \in 0 .. Len(files) /\ Udp \in Threads \ {Timer}
  BY Bounds DEF Receive, IInv, Fits
<1>2. Grown
  BY NothingGrown DEF Receive, IInv
<1>3. CASE ~(SessionIsRunning /\ active \in DOMAIN store)
  <2>1. UNCHANGED <<th, store>> /\ sent' = sent \ {f}
    BY <1>3 DEF Receive
  <2>2. Tasks' /\ Launching' /\ CopiesBelong' /\ CopiesFresh'
    BY <1>2, <2>1, NobodyMoves DEF Receive
  <2>3. Fits'
    BY <2>1 DEF Receive, IInv, Fits
  <2>4. TimersFollowDates'
    BY <2>1, DatesKept DEF Receive, IInv
  <2> QED
    BY <2>2, <2>3, <2>4 DEF IInv
<1>4. CASE SessionIsRunning /\ active \in DOMAIN store
  <2> DEFINE st == [store EXCEPT ![active].results = f]
             x == [pc |-> "stop", session |-> active, copy |-> st, stale |-> FALSE]
  <2>1. Save(Udp, st, x) /\ sent' = sent \ {f}
    BY <1>4 DEF Receive
  <2>2. active \in SessionIds
    BY <1>4, SessionsAre
  <2>3. Task(Udp, x) /\ x.pc # "launch" /\ x.copy = st
    BY <2>2 DEF Task
  <2>4. /\ Weekend(st, added', Len(files')) /\ DOMAIN st = DOMAIN store /\ st[active].results = f
        /\ \A c \in DOMAIN store : st[c].sched = store[c].sched /\ (c # active => st[c] = store[c])
    <3>1. Weekend(store, added, Len(files)) /\ Len(files) \in Nat /\ active \in DOMAIN store
      BY <1>4 DEF IInv, Fits
    <3>2. st = WithResults(store, active, f)
      BY DEF WithResults
    <3> HIDE DEF st, x
    <3>3. UNCHANGED <<added, files>>
      BY DEF Receive
    <3> QED
      BY <1>1, <3>1, <3>2, <3>3, ResultsSet
  <2> HIDE DEF st, x
  <2>5. "late" \notin disturbed' => Own(st, files')
    <3> SUFFICES ASSUME "late" \notin disturbed
                 PROVE  Own(st, files)
      BY DEF Receive
    <3>1. files[f].session = active
      BY DEF Receive, IInv, Launching
    <3> QED
      BY <2>4, <3>1 DEF Own, IInv, CopiesBelong
  <2>6. Step(Udp, x) /\ store' = st /\ Tasks' /\ Launching' /\ CopiesBelong' /\ CopiesFresh'
    <3>1. Udp \in Threads
      BY <1>1
    <3> QED
      BY <3>1, <1>2, <2>1, <2>3, <2>4, <2>5, SaveKeeps DEF Receive
  <2>7. Fits'
    BY <2>1, <2>4, <2>6 DEF Receive, IInv, Fits
  <2>8. th'[Timer] = th[Timer]
    BY <1>1, <2>6, TimerWaits, Bounds DEF IInv
  <2>9. TimersFollowDates'
    BY <2>4, <2>6, <2>8, DatesKept DEF Receive, IInv
  <2> QED
    BY <2>6, <2>7, <2>9 DEF IInv
<1> QED
  BY <1>3, <1>4

LEMMA StopAfterSessionPreserves ==
  ASSUME IInv, StopAfterSession
  PROVE  IInv'
<1> DEFINE next == NextSession(th[Udp].copy, th[Udp].session)
           x == IF next = None THEN NoTask ELSE [pc |-> "begin", session |-> next]
<1>1. Udp \in Threads \ {Timer} /\ Weekend(th[Udp].copy, added, Len(files)) /\ added \in Nat
  BY Bounds DEF StopAfterSession, IInv, Tasks, Holding, Fits
<1>2. next # None => next \in SessionIds
  BY <1>1, NextExists, SessionsAre
<1>3. Become(Udp, x) /\ UNCHANGED <<store, added, active, files, sent, timers, run, disturbed>>
      /\ server' = Stopped
  BY DEF StopAfterSession
<1>4. Task(Udp, x) /\ x.pc \in {"idle", "begin"}
  BY <1>1, <1>2, StartTask, IdleTask DEF Starting
<1> HIDE DEF x
<1>5. Grown
  BY <1>3, NothingGrown DEF IInv
<1>6. Step(Udp, x) /\ Tasks' /\ Launching' /\ CopiesBelong' /\ CopiesFresh'
  BY <1>1, <1>3, <1>4, <1>5, BecomeKeeps DEF Holding
<1>7. Fits'
  BY <1>3 DEF IInv, Fits, Servers
<1>8. th'[Timer] = th[Timer]
  BY <1>1, <1>6, TimerWaits, Bounds DEF IInv
<1>9. TimersFollowDates'
  BY <1>3, <1>8, DatesKept DEF IInv
<1> QED
  BY <1>6, <1>7, <1>9 DEF IInv

\* A handler goes on with x, and nothing else changes but acServer, timers and the history.
LEMMA HandlerMoves ==
  ASSUME IInv, NEW h \in Handlers, NEW x, Become(h, x), Task(h, x), x.pc # "launch",
         x.pc \in Holding => /\ Weekend(x.copy, added, Len(files))
                             /\ "late" \notin disturbed => Own(x.copy, files)
                             /\ ~x.stale => SameDates(x.copy, store),
         UNCHANGED <<store, added, active, files, sent, timers, run>>,
         server' \in {server, Stopped, Other}, disturbed \subseteq disturbed'
  PROVE  IInv'
<1>1. h \in Threads \ {Timer} /\ h \in Threads
  BY Bounds
<1>2. Grown
  BY NothingGrown DEF IInv
<1>3. Step(h, x) /\ Tasks' /\ Launching' /\ CopiesBelong' /\ CopiesFresh'
  <2>1. x.pc \in Holding => /\ Weekend(x.copy, added', Len(files'))
                            /\ "late" \notin disturbed' => Own(x.copy, files')
                            /\ h \in Handlers /\ ~x.stale => SameDates(x.copy, store)
    OBVIOUS
  <2> QED
    BY <1>1, <1>2, <2>1, BecomeKeeps
<1>4. Fits'
  BY DEF IInv, Fits, Servers
<1>5. th'[Timer] = th[Timer]
  BY <1>1, <1>3, TimerWaits DEF IInv
<1>6. TimersFollowDates'
  BY <1>5, DatesKept DEF IInv
<1> QED
  BY <1>3, <1>4, <1>6 DEF IInv

LEMMA CallStartPreserves ==
  ASSUME IInv, NEW h \in Handlers, NEW s, CallStart(h, s)
  PROVE  IInv'
<1> DEFINE x == [pc |-> "begin", session |-> s]
<1>1. h \in Threads /\ s \in SessionIds
  BY Bounds, SessionsAre DEF CallStart
<1>2. Task(h, x) /\ x.pc # "launch" /\ x.pc \notin Holding
  BY <1>1, StartTask DEF Starting, Holding
<1> QED
  BY <1>2, HandlerMoves DEF CallStart

LEMMA StartOtherPreserves ==
  ASSUME IInv, NEW h \in Handlers, StartOther(h)
  PROVE  IInv'
<1>1. Tasks' /\ Launching' /\ CopiesBelong' /\ CopiesFresh'
  BY NothingGrown, NobodyMoves DEF IInv, StartOther
<1>2. Fits'
  BY DEF IInv, Fits, StartOther, Servers
<1>3. TimersFollowDates'
  BY DatesKept DEF IInv, StartOther
<1> QED
  BY <1>1, <1>2, <1>3 DEF IInv

LEMMA CallCancelPreserves ==
  ASSUME IInv, NEW h \in Handlers, NEW s, CallCancel(h, s)
  PROVE  IInv'
<1> DEFINE e == [store EXCEPT ![s].started = FALSE, ![s].results = 0]
<1>1. PICK then \in {"cancelled", "begin"} :
        Become(h, [pc |-> "stop", session |-> s, then |-> then, stale |-> FALSE, copy |-> e])
  BY DEF CallCancel
<1> DEFINE x == [pc |-> "stop", session |-> s, then |-> then, stale |-> FALSE, copy |-> e]
<1>2. s \in SessionIds /\ s \in DOMAIN store
  BY SessionsAre DEF CallCancel
<1>3. /\ Weekend(e, added, Len(files)) /\ DOMAIN e = DOMAIN store /\ e[s].results = 0
      /\ \A c \in DOMAIN store : e[c].sched = store[c].sched /\ (c # s => e[c] = store[c])
  <2>1. Weekend(store, added, Len(files)) /\ Len(files) \in Nat
    BY DEF IInv, Fits
  <2>2. e = WithNone(store, s)
    BY DEF WithNone
  <2> HIDE DEF e, x
  <2> QED
    BY <1>2, <2>1, <2>2, ResultsCleared
<1> HIDE DEF e
<1>4. Task(h, x) /\ x.pc = "stop" /\ x.copy = e
  BY <1>2 DEF Task, Holding
<1> HIDE DEF x
<1>5. "late" \notin disturbed => Own(e, files)
  BY <1>3 DEF Own, IInv, CopiesBelong
<1>6. SameDates(e, store)
  BY <1>3 DEF SameDates
<1> QED
  BY <1>1, <1>3, <1>4, <1>5, <1>6, HandlerMoves DEF CallCancel, x

LEMMA StopByPreserves ==
  ASSUME IInv, NEW h \in Handlers, StopBy(h)
  PROVE  IInv'
<1> DEFINE x == [th[h] EXCEPT !.pc = "save"]
<1>1. h \in Threads /\ th[h].pc \in Holding /\ Task(h, th[h])
  BY Bounds DEF StopBy, Holding, IInv, Tasks
<1>2. th[h] \in [pc : Holding, session : SessionIds, then : {"cancelled", "begin"},
                 stale : BOOLEAN, copy : {th[h].copy}]
  BY <1>1, TaskNamed
<1>3. Task(h, x) /\ x.pc = "save" /\ x.copy = th[h].copy /\ x.stale = th[h].stale
  BY <1>2 DEF Task, Holding
<1> HIDE DEF x
<1>4. Become(h, x)
  BY DEF StopBy, x
<1>5. Weekend(x.copy, added, Len(files)) /\ ("late" \notin disturbed => Own(x.copy, files))
      /\ (~x.stale => SameDates(x.copy, store))
  BY <1>1, <1>3 DEF IInv, Tasks, CopiesBelong, CopiesFresh
<1> QED
  BY <1>3, <1>4, <1>5, HandlerMoves DEF StopBy

LEMMA OpenFormPreserves ==
  ASSUME IInv, NEW h \in Handlers, NEW s, OpenForm(h, s)
  PROVE  IInv'
<1> DEFINE x == [pc |-> "form", session |-> s, offered |-> Offered(store, s), stale |-> FALSE]
<1>1. s \in SessionIds \cup {None}
  BY SessionsAre DEF OpenForm
<1>2. Task(h, x) /\ x.pc # "launch" /\ x.pc \notin Holding
  BY <1>1 DEF Task, Holding
<1> QED
  BY <1>2, HandlerMoves DEF OpenForm

\* A handler saves the weekend and goes on with x, which holds no copy.
LEMMA HandlerSaves ==
  ASSUME IInv, NEW h \in Handlers, NEW st, NEW x, Save(h, st, x), Task(h, x),
         x.pc \in {"idle", "begin"}, Grown, Weekend(st, added', Len(files')),
         "late" \notin disturbed' => Own(st, files'),
         UNCHANGED <<active, server, sent, run>>, added' \in 0 .. MaxSessions,
         timers' \subseteq 1 .. added', disturbed \subseteq disturbed'
  PROVE  /\ store' = st /\ th'[Timer] = th[Timer]
         /\ Fits' /\ Tasks' /\ Launching' /\ CopiesBelong' /\ CopiesFresh'
<1>1. h \in Threads \ {Timer} /\ h \in Threads
  BY Bounds
<1>2. Step(h, x) /\ store' = st /\ Tasks' /\ Launching' /\ CopiesBelong' /\ CopiesFresh'
  BY <1>1, SaveKeeps DEF Holding
<1>3. sent' \subseteq DOMAIN files' /\ files' \in Seq(File)
  BY DEF IInv, Fits, Grown
<1>4. Fits'
  BY <1>2, <1>3 DEF IInv, Fits
<1>5. th'[Timer] = th[Timer]
  BY <1>1, <1>2, TimerWaits DEF IInv
<1> QED
  BY <1>2, <1>4, <1>5

LEMMA SaveCancelledPreserves ==
  ASSUME IInv, NEW h \in Handlers, SaveCancelled(h)
  PROVE  IInv'
<1> DEFINE e == th[h].copy
           x == IF th[h].then = "begin" THEN [pc |-> "begin", session |-> th[h].session] ELSE NoTask
<1>1. h \in Threads /\ th[h].pc \in Holding /\ Task(h, th[h])
  BY Bounds DEF SaveCancelled, Holding, IInv, Tasks
<1>2. th[h].session \in SessionIds /\ th[h].stale \in BOOLEAN
  BY <1>1, TaskNamed
<1>3. Task(h, x) /\ x.pc \in {"idle", "begin"}
  BY <1>1, <1>2, StartTask, IdleTask DEF Starting
<1>4. Save(h, e, x)
  BY DEF SaveCancelled
<1> HIDE DEF x
<1>5. Grown /\ Weekend(e, added', Len(files'))
  BY <1>1, NothingGrown DEF SaveCancelled, IInv, Tasks
<1>6. "late" \notin disturbed' => Own(e, files')
  BY <1>1 DEF SaveCancelled, IInv, CopiesBelong
<1>7. added' \in 0 .. MaxSessions /\ timers' \subseteq 1 .. added'
  BY DEF SaveCancelled, IInv, Fits
<1>8. /\ store' = e /\ th'[Timer] = th[Timer]
      /\ Fits' /\ Tasks' /\ Launching' /\ CopiesBelong' /\ CopiesFresh'
  <2> HIDE DEF e
  <2> QED
    BY <1>3, <1>4, <1>5, <1>6, <1>7, HandlerSaves DEF SaveCancelled
<1>9. TimersFollowDates'
  <2>1. CASE th[h].stale
    BY <2>1 DEF SaveCancelled, TimersFollowDates
  <2>2. CASE ~th[h].stale
    <3>1. SameDates(e, store)
      BY <1>1, <2>2 DEF IInv, CopiesFresh
    <3> QED
      BY <1>8, <3>1, DatesKept DEF SaveCancelled, SameDates, IInv
  <2> QED
    BY <2>1, <2>2
<1> QED
  BY <1>8, <1>9 DEF IInv

LEMMA NewSession ==
  ASSUME NEW ps
  PROVE  SessionRecord(New(ps)) /\ New(ps).results = 0 /\ New(ps).sched = FALSE
BY DEF SessionRecord, New

LEMMA SubmitFormPreserves ==
  ASSUME IInv, NEW h \in Handlers, SubmitForm(h)
  PROVE  IInv'
<1>1. h \in Threads /\ Task(h, NoTask) /\ NoTask.pc = "idle"
  BY Bounds, IdleTask
<1>2. PICK ps \in ParentsFrom(th[h].offered), s \in SessionIds :
        \/ /\ s = th[h].session /\ s \in DOMAIN store /\ added' = added
           /\ Save(h, [store EXCEPT ![s].parents = ps], NoTask)
        \/ /\ s = added + 1 /\ added' = s
           /\ Save(h, [c \in DOMAIN store \cup {s} |-> IF c = s THEN New(ps) ELSE store[c]], NoTask)
  BY Zenon DEF SubmitForm
<1>3. UNCHANGED <<active, server, files, sent, timers, run, calls>> /\ disturbed \subseteq disturbed'
  BY DEF SubmitForm
<1>4. Weekend(store, added, Len(files)) /\ added \in Nat /\ Len(files) \in Nat
      /\ timers \subseteq 1 .. added /\ DOMAIN store \subseteq 1 .. added
  BY DEF IInv, Fits, Weekend
<1>5. CASE s \in DOMAIN store /\ added' = added /\ Save(h, [store EXCEPT ![s].parents = ps], NoTask)
  <2> DEFINE e == [store EXCEPT ![s].parents = ps]
  <2>1. Weekend(e, added', Len(files')) /\ Alike(e, store)
    BY <1>3, <1>4, <1>5, ParentsSet
  <2>2. Grown /\ added' \in 0 .. MaxSessions /\ timers' \subseteq 1 .. added'
    BY <1>3, <1>5, NothingGrown DEF IInv, Fits
  <2>3. Save(h, e, NoTask)
    BY <1>5
  <2> HIDE DEF e
  <2>4. "late" \notin disturbed' => Own(e, files')
    BY <1>3, <2>1 DEF Alike, Own, IInv, CopiesBelong
  <2>5. /\ store' = e /\ th'[Timer] = th[Timer]
        /\ Fits' /\ Tasks' /\ Launching' /\ CopiesBelong' /\ CopiesFresh'
    BY <1>1, <1>3, <2>1, <2>2, <2>3, <2>4, HandlerSaves
  <2>6. TimersFollowDates'
    BY <1>3, <2>1, <2>5, DatesKept DEF Alike, IInv
  <2> QED
    BY <2>5, <2>6 DEF IInv
<1>6. CASE /\ s = added + 1 /\ added' = s
           /\ Save(h, [c \in DOMAIN store \cup {s} |-> IF c = s THEN New(ps) ELSE store[c]], NoTask)
  <2> DEFINE e == [c \in DOMAIN store \cup {s} |-> IF c = s THEN New(ps) ELSE store[c]]
  <2>1. /\ e = [c \in DOMAIN e |-> e[c]] /\ DOMAIN e = DOMAIN store \cup {s} /\ s \notin DOMAIN store
        /\ e[s] = New(ps) /\ \A c \in DOMAIN store : e[c] = store[c]
    BY <1>4, <1>6
  <2>2. Grown /\ added' \in 0 .. MaxSessions /\ timers' \subseteq 1 .. added'
    BY <1>3, <1>4, <1>6, Bounds DEF Grown, IInv, Fits, SessionIds
  <2>3. Save(h, e, NoTask)
    BY <1>6
  <2> HIDE DEF e
  <2>4. Weekend(e, added', Len(files'))
    <3>1. DOMAIN e \subseteq 1 .. added'
      BY <1>4, <1>6, <2>1
    <3>2. \A c \in DOMAIN e : SessionRecord(e[c]) /\ e[c].results <= Len(files')
      <4>1. SessionRecord(e[s]) /\ e[s].results <= Len(files')
        <5>1. SessionRecord(New(ps)) /\ New(ps).results = 0
          BY NewSession
        <5>2. e[s] = New(ps)
          BY <2>1
        <5>3. SessionRecord(e[s]) /\ e[s].results = 0
          BY <5>1, <5>2, Zenon
        <5> QED
          BY <1>3, <1>4, <5>3
      <4>2. \A c \in DOMAIN store : SessionRecord(e[c]) /\ e[c].results <= Len(files')
        BY <1>3, <1>4, <2>1 DEF Weekend
      <4> QED
        BY <2>1, <4>1, <4>2
    <3> QED
      BY <2>1, <3>1, <3>2 DEF Weekend
  <2>5. "late" \notin disturbed' => Own(e, files')
    BY <1>3, <2>1, NewSession DEF Own, IInv, CopiesBelong
  <2>6. /\ store' = e /\ th'[Timer] = th[Timer]
        /\ Fits' /\ Tasks' /\ Launching' /\ CopiesBelong' /\ CopiesFresh'
    BY <1>1, <1>3, <2>2, <2>3, <2>4, <2>5, HandlerSaves
  <2>7. TimersFollowDates'
    <3>1. s \notin timers'
      BY <1>3, <1>4, <1>6
    <3>2. store'[s].sched = FALSE
      BY <2>1, <2>6, NewSession
    <3> QED
      BY <1>3, <2>1, <2>6, <3>1, <3>2 DEF IInv, TimersFollowDates
  <2> QED
    BY <2>6, <2>7 DEF IInv
<1> QED
  BY <1>2, <1>5, <1>6

LEMMA CallDeletePreserves ==
  ASSUME IInv, NEW h \in Handlers, NEW s, CallDelete(h, s)
  PROVE  IInv'
<1>1. h \in Threads /\ Task(h, NoTask) /\ NoTask.pc = "idle"
  BY Bounds, IdleTask
<1> DEFINE e == DelSession(store, s)
<1>2. s \in DOMAIN store /\ Save(h, e, NoTask) /\ disturbed \subseteq disturbed'
      /\ UNCHANGED <<added, active, server, files, sent, timers, run>>
  BY DEF CallDelete
<1>3. /\ Weekend(e, added', Len(files')) /\ DOMAIN e = DOMAIN store \ {s}
      /\ \A c \in DOMAIN e : e[c].results = store[c].results /\ e[c].sched = store[c].sched
  BY <1>2, SessionDeleted DEF IInv, Fits
<1>4. Grown /\ added' \in 0 .. MaxSessions /\ timers' \subseteq 1 .. added'
  BY <1>2, NothingGrown DEF IInv, Fits
<1> HIDE DEF e
<1>5. "late" \notin disturbed' => Own(e, files')
  BY <1>2, <1>3 DEF Own, IInv, CopiesBelong
<1>6. /\ store' = e /\ th'[Timer] = th[Timer]
      /\ Fits' /\ Tasks' /\ Launching' /\ CopiesBelong' /\ CopiesFresh'
  BY <1>1, <1>2, <1>3, <1>4, <1>5, HandlerSaves
<1>7. TimersFollowDates'
  BY <1>2, <1>3, <1>6, DatesKept DEF IInv
<1> QED
  BY <1>6, <1>7 DEF IInv

LEMMA CallImportPreserves ==
  ASSUME IInv, NEW h \in Handlers, NEW s, CallImport(h, s)
  PROVE  IInv'
<1>1. h \in Threads /\ Task(h, NoTask) /\ NoTask.pc = "idle"
  BY Bounds, IdleTask
<1> DEFINE x == [session |-> s, run |-> 0]
           e == [store EXCEPT ![s].results = Len(files')]
<1>2. s \in DOMAIN store /\ Save(h, e, NoTask) /\ files' = Append(files, x)
      /\ UNCHANGED <<added, active, server, sent, timers, run, disturbed>>
  BY DEF CallImport
<1>3. x \in File
  BY <1>2, SessionsAre DEF File
<1>4. /\ Grown /\ Len(files') = Len(files) + 1 /\ files'[Len(files')] = x
      /\ DOMAIN files' = DOMAIN files \cup {Len(files')}
  BY <1>2, <1>3, FileGrown DEF IInv
<1>5. Weekend(store, added', Len(files')) /\ Len(files') \in Nat
  BY <1>4, WeekendGrown DEF IInv, Fits
<1>6. e = WithResults(store, s, Len(files'))
  BY DEF WithResults
<1> HIDE DEF e
<1>7. /\ Weekend(e, added', Len(files')) /\ DOMAIN e = DOMAIN store /\ e[s].results = Len(files')
      /\ \A c \in DOMAIN store : e[c].sched = store[c].sched /\ (c # s => e[c] = store[c])
  <2>1. Len(files') \in 0 .. Len(files')
    BY <1>5
  <2> HIDE DEF x
  <2> QED
    BY <1>2, <1>5, <1>6, <2>1, ResultsSet
<1>8. added' \in 0 .. MaxSessions /\ timers' \subseteq 1 .. added'
  BY <1>2 DEF IInv, Fits
<1>9. "late" \notin disturbed' => Own(e, files')
  <2>1. "late" \notin disturbed' => Own(store, files')
    BY <1>2, <1>4, OwnGrown DEF IInv, Fits, CopiesBelong
  <2> QED
    BY <1>4, <1>7, <2>1 DEF Own
<1>10. /\ store' = e /\ th'[Timer] = th[Timer]
       /\ Fits' /\ Tasks' /\ Launching' /\ CopiesBelong' /\ CopiesFresh'
  BY <1>1, <1>2, <1>4, <1>7, <1>8, <1>9, HandlerSaves
<1>11. TimersFollowDates'
  BY <1>2, <1>7, <1>10, DatesKept DEF IInv
<1> QED
  BY <1>10, <1>11 DEF IInv

\* The schedule of session s is saved.
LEMMA ScheduleSaved ==
  ASSUME IInv, NEW h \in Handlers, NEW s \in DOMAIN store, NEW on \in BOOLEAN, NEW auto \in BOOLEAN,
         Save(h, Scheduled(s, on, auto), NoTask), timers' \subseteq timers \cup {s},
         UNCHANGED <<added, active, server, files, sent, run>>, disturbed \subseteq disturbed'
  PROVE  /\ Fits' /\ Tasks' /\ Launching' /\ CopiesBelong' /\ CopiesFresh'
         /\ DOMAIN store' = DOMAIN store /\ store'[s].sched = on
         /\ \A c \in DOMAIN store \ {s} : store'[c].sched = store[c].sched
         /\ th'[Timer] = th[Timer]
<1>1. h \in Threads /\ Task(h, NoTask) /\ NoTask.pc = "idle"
  BY Bounds, IdleTask
<1> DEFINE e == Scheduled(s, on, auto)
<1>2. e = WithSchedule(store, s, on, auto)
  BY DEF Scheduled, WithSchedule
<1> HIDE DEF e
<1>3. /\ Weekend(e, added, Len(files)) /\ DOMAIN e = DOMAIN store
      /\ e[s].sched = on /\ e[s].results = store[s].results
      /\ \A c \in DOMAIN store \ {s} : e[c] = store[c]
  <2>1. Weekend(store, added, Len(files))
    BY DEF IInv, Fits
  <2> QED
    BY <1>2, <2>1, DateSet
<1>4. Grown
  BY NothingGrown DEF IInv
<1>5. s \in 1 .. added
  BY DEF IInv, Fits, Weekend
<1>6. added' \in 0 .. MaxSessions /\ timers' \subseteq 1 .. added'
  BY <1>5 DEF IInv, Fits
<1>7. "late" \notin disturbed' => Own(e, files')
  BY <1>3 DEF Own, IInv, CopiesBelong
<1>8. Save(h, e, NoTask) /\ Weekend(e, added', Len(files'))
  BY <1>3 DEF e
<1>9. /\ store' = e /\ th'[Timer] = th[Timer]
      /\ Fits' /\ Tasks' /\ Launching' /\ CopiesBelong' /\ CopiesFresh'
  BY <1>1, <1>4, <1>6, <1>7, <1>8, HandlerSaves
<1> QED
  BY <1>3, <1>9

LEMMA CallSchedulePreserves ==
  ASSUME IInv, NEW h \in Handlers, NEW s, CallSchedule(h, s)
  PROVE  IInv'
<1>1. /\ Fits' /\ Tasks' /\ Launching' /\ CopiesBelong' /\ CopiesFresh'
      /\ DOMAIN store' = DOMAIN store /\ store'[s].sched = TRUE
      /\ \A c \in DOMAIN store \ {s} : store'[c].sched = store[c].sched
      /\ th'[Timer] = th[Timer]
  BY ScheduleSaved DEF CallSchedule
<1>2. TimersFollowDates'
  BY <1>1 DEF IInv, TimersFollowDates, CallSchedule
<1> QED
  BY <1>1, <1>2 DEF IInv

LEMMA CallDeSchedulePreserves ==
  ASSUME IInv, NEW h \in Handlers, NEW s, CallDeSchedule(h, s)
  PROVE  IInv'
<1>1. /\ Fits' /\ Tasks' /\ Launching' /\ CopiesBelong' /\ CopiesFresh'
      /\ DOMAIN store' = DOMAIN store /\ store'[s].sched = FALSE
      /\ \A c \in DOMAIN store \ {s} : store'[c].sched = store[c].sched
      /\ th'[Timer] = th[Timer]
  BY ScheduleSaved DEF CallDeSchedule
<1>2. TimersFollowDates'
  BY <1>1 DEF IInv, TimersFollowDates, CallDeSchedule
<1> QED
  BY <1>1, <1>2 DEF IInv

LEMMA CallStartAfterParentPreserves ==
  ASSUME IInv, NEW h \in Handlers, NEW s, CallStartAfterParent(h, s)
  PROVE  IInv'
<1>1. /\ Fits' /\ Tasks' /\ Launching' /\ CopiesBelong' /\ CopiesFresh'
      /\ DOMAIN store' = DOMAIN store /\ store'[s].sched = FALSE
      /\ \A c \in DOMAIN store \ {s} : store'[c].sched = store[c].sched
      /\ th'[Timer] = th[Timer]
  BY ScheduleSaved DEF CallStartAfterParent
<1>2. TimersFollowDates'
  BY <1>1 DEF IInv, TimersFollowDates, CallStartAfterParent
<1> QED
  BY <1>1, <1>2 DEF IInv

LEMMA CallScheduleRefusedPreserves ==
  ASSUME IInv, NEW h \in Handlers, NEW s, CallScheduleRefused(h, s)
  PROVE  IInv'
<1>1. Tasks' /\ Launching' /\ CopiesBelong' /\ CopiesFresh'
  BY NothingGrown, NobodyMoves DEF IInv, CallScheduleRefused
<1>2. Fits'
  BY DEF IInv, Fits, CallScheduleRefused
<1>3. TimersFollowDates'
  BY DEF IInv, TimersFollowDates, CallScheduleRefused
<1> QED
  BY <1>1, <1>2, <1>3 DEF IInv

LEMMA FirePreserves ==
  ASSUME IInv, NEW s, Fire(s)
  PROVE  IInv'
<1> DEFINE x == [pc |-> "begin", session |-> s]
<1>1. Timer \in Threads /\ s \in SessionIds
  BY Bounds, SessionsAre DEF Fire
<1>2. Task(Timer, x) /\ x # NoTask /\ x.pc # "launch" /\ x.pc \notin Holding /\ x.session = s
  BY <1>1, StartTask DEF Starting, Holding
<1>3. Become(Timer, x) /\ timers' = timers \ {s} /\ th[Timer] = NoTask
      /\ UNCHANGED <<store, added, active, server, files, sent, run, disturbed>>
  BY DEF Fire
<1> HIDE DEF x
<1>4. Grown
  BY <1>3, NothingGrown DEF IInv
<1>5. Step(Timer, x) /\ Tasks' /\ Launching' /\ CopiesBelong' /\ CopiesFresh'
  BY <1>1, <1>2, <1>3, <1>4, BecomeKeeps
<1>6. Fits'
  BY <1>3 DEF IInv, Fits
<1>7. TimersFollowDates'
  BY <1>2, <1>3, <1>5 DEF IInv, TimersFollowDates, Step
<1> QED
  BY <1>5, <1>6, <1>7 DEF IInv

LEMMA ClearSchedulePreserves ==
  ASSUME IInv, ClearSchedule
  PROVE  IInv'
<1> DEFINE s == th[Timer].session
<1>1. Timer \in Threads /\ Task(Timer, NoTask) /\ NoTask.pc = "idle" /\ Grown
  BY Bounds, IdleTask, NothingGrown DEF IInv, ClearSchedule
<1>2. th[Timer] # NoTask
  BY DEF ClearSchedule, NoTask
<1>3. CASE s \notin DOMAIN store
  <2>1. Become(Timer, NoTask) /\ UNCHANGED <<store, disturbed>>
    BY <1>3 DEF ClearSchedule
  <2>2. Step(Timer, NoTask) /\ Tasks' /\ Launching' /\ CopiesBelong' /\ CopiesFresh'
    BY <1>1, <2>1, BecomeKeeps DEF ClearSchedule, Holding
  <2>3. Fits'
    BY <2>1 DEF IInv, Fits, ClearSchedule
  <2>4. TimersFollowDates'
    BY <1>3, <2>1 DEF IInv, TimersFollowDates, ClearSchedule
  <2> QED
    BY <2>2, <2>3, <2>4 DEF IInv
<1>4. CASE s \in DOMAIN store
  <2> DEFINE e == [store EXCEPT ![s].sched = FALSE]
  <2>1. Save(Timer, e, NoTask) /\ disturbed' = disturbed \cup (IF s \in timers THEN {"dateCleared"} ELSE {})
    BY <1>4 DEF ClearSchedule
  <2>2. e = WithDate(store, s, FALSE)
    BY DEF WithDate
  <2> HIDE DEF e
  <2>3. /\ Weekend(e, added, Len(files)) /\ DOMAIN e = DOMAIN store
        /\ e[s].sched = FALSE /\ e[s].results = store[s].results
        /\ \A c \in DOMAIN store \ {s} : e[c] = store[c]
    <3>1. Weekend(store, added, Len(files))
      BY DEF IInv, Fits
    <3>2. PICK no \in BOOLEAN : no = FALSE /\ e = WithDate(store, s, no)
      BY <2>2
    <3>3. /\ Weekend(e, added, Len(files)) /\ DOMAIN e = DOMAIN store
          /\ e[s].sched = no /\ e[s].results = store[s].results
          /\ \A c \in DOMAIN store \ {s} : e[c] = store[c]
      BY <1>4, <3>1, <3>2, DateSet
    <3> QED
      BY <3>2, <3>3
  <2>4. UNCHANGED <<added, active, server, files, sent, timers, run>>
    BY DEF ClearSchedule
  <2>5. "late" \notin disturbed' => Own(e, files')
    BY <2>1, <2>3, <2>4 DEF Own, IInv, CopiesBelong
  <2>6. Step(Timer, NoTask) /\ store' = e /\ Tasks' /\ Launching' /\ CopiesBelong' /\ CopiesFresh'
    BY <1>1, <2>1, <2>3, <2>4, <2>5, SaveKeeps DEF Holding
  <2>7. Fits'
    BY <2>3, <2>4, <2>6 DEF IInv, Fits
  <2>8. TimersFollowDates'
    BY <1>4, <2>1, <2>3, <2>4, <2>6 DEF IInv, TimersFollowDates
  <2> QED
    BY <2>6, <2>7, <2>8 DEF IInv
<1> QED
  BY <1>3, <1>4

LEMMA NothingHappens ==
  ASSUME IInv, UNCHANGED weekendVars
  PROVE  IInv'
BY DEF IInv, Fits, Tasks, Task, Launching, CopiesBelong, CopiesFresh, TimersFollowDates, weekendVars

------------------------------------------------------------------------------
(* The specification.                                                             *)

LEMMA InitSound == WeekendInit => IInv
<1> SUFFICES ASSUME WeekendInit
             PROVE  IInv
  OBVIOUS
<1>1. PICK g \in Graphs :
        added = Len(g) /\ store = [s \in 1 .. Len(g) |-> New(g[s])]
  BY DEF WeekendInit
<1>2. Len(g) \in Nat /\ Len(g) <= MaxSessions
  BY GraphAssumption
<1>3. DOMAIN store = 1 .. added /\ store = [s \in DOMAIN store |-> store[s]]
  BY <1>1
<1>4. \A s \in DOMAIN store : \E ps : store[s] = New(ps)
  BY <1>1, Zenon
<1>5. \A s \in DOMAIN store : SessionRecord(store[s]) /\ store[s].results = 0 /\ store[s].sched = FALSE
  BY <1>4, NewSession
<1>6. files = <<>> /\ Len(files) = 0 /\ files \in Seq(File)
  BY DEF WeekendInit
<1>7. Weekend(store, added, Len(files))
  BY <1>3, <1>5, <1>6 DEF Weekend
<1>8. Fits
  BY <1>1, <1>2, <1>6, <1>7, Bounds DEF WeekendInit, Fits, Servers
<1>9. Tasks
  BY DEF WeekendInit, Tasks, Task, NoTask, Holding
<1>10. Launching /\ CopiesBelong /\ CopiesFresh
  BY <1>5, Bounds DEF WeekendInit, Launching, CopiesBelong, CopiesFresh, Own, NoTask, Stopped, Holding
<1>11. TimersFollowDates
  BY <1>5 DEF WeekendInit, TimersFollowDates
<1> QED
  BY <1>8, <1>9, <1>10, <1>11 DEF IInv

LEMMA NextPreserves ==
  ASSUME IInv, [WeekendNext]_weekendVars
  PROVE  IInv'
<1>1. CASE SessionEnds \/ StopAfterSession \/ ClearSchedule
  BY <1>1, SessionEndsPreserves, StopAfterSessionPreserves, ClearSchedulePreserves
<1>2. CASE \E f \in 1 .. (MaxRuns + MaxCalls) : Receive(f)
  BY <1>2, ReceivePreserves
<1>3. CASE \E t \in Threads : BeginRun(t) \/ SetActive(t) \/ Launch(t) \/ LaunchFails(t)
  BY <1>3, BeginRunPreserves, SetActivePreserves, LaunchPreserves
<1>4. CASE \E s \in SessionIds : Fire(s)
  BY <1>4, FirePreserves
<1>5. CASE \E h \in Handlers :
             StartOther(h) \/ StopBy(h) \/ SaveCancelled(h) \/ SubmitForm(h) \/ OpenForm(h, None)
  BY <1>5, StartOtherPreserves, StopByPreserves, SaveCancelledPreserves, SubmitFormPreserves,
     OpenFormPreserves
<1>6. CASE \E h \in Handlers, s \in SessionIds :
             \/ CallStart(h, s) \/ CallCancel(h, s) \/ OpenForm(h, s) \/ CallDelete(h, s)
             \/ CallImport(h, s) \/ CallSchedule(h, s) \/ CallScheduleRefused(h, s)
             \/ CallStartAfterParent(h, s) \/ CallDeSchedule(h, s)
  BY <1>6, CallStartPreserves, CallCancelPreserves, OpenFormPreserves, CallDeletePreserves,
     CallImportPreserves, CallSchedulePreserves, CallScheduleRefusedPreserves,
     CallStartAfterParentPreserves, CallDeSchedulePreserves
<1>7. CASE UNCHANGED weekendVars
  BY <1>7, NothingHappens
<1> QED
  BY <1>1, <1>2, <1>3, <1>4, <1>5, <1>6, <1>7 DEF WeekendNext

\* What holds in every state of a weekend (race_weekend_manager.go): a thread that starts
\* acServer does it for the active session, and the files, copies and timers fit the weekend.
THEOREM WeekendInvariant == WeekendSpec => []IInv
BY InitSound, NextPreserves, PTL DEF WeekendSpec

\* Files are recorded for the session they are from, for any number of handlers, sessions,
\* requests and runs (UDPCallback, race_weekend_manager.go:628).
THEOREM ResultsAreTheirOwn == WeekendSpec => []ResultsBelong
<1>1. IInv => ResultsBelong
  BY DEF IInv, CopiesBelong, Own, ResultsBelong
<1> QED
  BY <1>1, WeekendInvariant, PTL

\* The timers are the dates in the store (ScheduleSession, setupScheduledSessionTimer and
\* DeScheduleSession, race_weekend_manager.go:1185).
THEOREM TimersAreTheDates == WeekendSpec => []TimersFollowDates
<1>1. IInv => TimersFollowDates
  BY DEF IInv
<1> QED
  BY <1>1, WeekendInvariant, PTL

------------------------------------------------------------------------------
(* Numbers and lists.                                                             *)

\* The greatest of some numbers is one of them.
LEMMA MaxIsOne ==
  ASSUME NEW n \in Nat, NEW S \in SUBSET (0 .. n), S # {}
  PROVE  Max(S) \in S /\ \A x \in S : x <= Max(S)
<1> DEFINE below == {n - x : x \in S}
<1>1. below \in SUBSET Nat /\ below # {}
  <2>1. \A x \in S : n - x \in Nat
    OBVIOUS
  <2> QED
    BY <2>1
<1>2. PICK m \in below : \A k \in below : <<k, m>> \notin Less
  BY <1>1, LessIsWellFounded, WFMin
<1>3. PICK x \in S : m = n - x
  BY <1>2
<1>4. \A y \in S : n - y \in below /\ ~(n - y < n - x)
  BY <1>1, <1>2, <1>3 DEF Less
<1>5. \A y \in S : x >= y
  BY <1>4
<1>6. Max(S) \in S /\ \A y \in S : Max(S) >= y
  BY <1>5 DEF Max
<1> QED
  BY <1>6

\* How many numbers of P are below p.
Rank(P, p) == Cardinality({q \in P : q < p})

LEMMA Finite ==
  ASSUME NEW n \in Nat, NEW P \in SUBSET (0 .. n)
  PROVE  IsFiniteSet(P) /\ Cardinality(P) \in Nat
<1>1. IsFiniteSet(0 .. n)
  BY FS_Interval
<1>2. IsFiniteSet(P)
  BY <1>1, FS_Subset
<1> QED
  BY <1>2, FS_CardinalityType

\* For every k there is a k-th number, by induction on how many there are.
LEMMA RankExists ==
  ASSUME NEW n \in Nat, NEW P \in SUBSET (0 .. n), NEW k \in 1 .. Cardinality(P)
  PROVE  \E p \in P : Rank(P, p) = k - 1
<1> DEFINE Missing(Q) == \E j \in 1 .. Cardinality(Q) : \A p \in Q : Rank(Q, p) # j - 1
           bad == {c \in Nat : \E Q \in SUBSET (0 .. n) : Cardinality(Q) = c /\ Missing(Q)}
<1>1. SUFFICES ASSUME bad # {}
               PROVE  FALSE
  BY Finite
<1>2. PICK c \in bad : \A d \in bad : ~(d < c)
  <2>1. bad \in SUBSET Nat
    OBVIOUS
  <2>2. \E c \in bad : \A d \in bad : <<d, c>> \notin Less
    BY <1>1, <2>1, LessIsWellFounded, WFMin
  <2> HIDE DEF bad
  <2> QED
    BY <2>1, <2>2 DEF Less
<1>3. PICK Q \in SUBSET (0 .. n) : Cardinality(Q) = c /\ Missing(Q)
  BY <1>2
<1>4. PICK j \in 1 .. Cardinality(Q) : \A p \in Q : Rank(Q, p) # j - 1
  BY <1>3
<1>5. IsFiniteSet(Q) /\ Cardinality(Q) \in Nat /\ Q # {}
  <2>1. IsFiniteSet(Q) /\ Cardinality(Q) \in Nat
    BY Finite
  <2>2. Q = {} => Cardinality(Q) = 0
    BY FS_EmptySet
  <2> QED
    BY <2>1, <2>2
<1> DEFINE m == Max(Q)
           R == Q \ {m}
<1>6. m \in Q /\ \A x \in Q : x <= m
  BY <1>3, <1>5, MaxIsOne
<1> HIDE DEF m
<1>7. R \in SUBSET (0 .. n) /\ Cardinality(R) = Cardinality(Q) - 1 /\ Cardinality(R) \in Nat
  <2>1. R \in SUBSET (0 .. n)
    OBVIOUS
  <2>2. Cardinality(R) \in Nat
    BY <2>1, Finite
  <2> QED
    BY <1>5, <1>6, <2>1, <2>2, FS_RemoveElement
<1>8. {q \in Q : q < m} = R
  <2>1. m \in Nat /\ \A x \in Q : x \in Nat /\ (x < m <=> x # m)
    BY <1>3, <1>6
  <2> QED
    BY <2>1
<1>9. j # Cardinality(Q)
  <2>1. Rank(Q, m) = Cardinality(Q) - 1
    BY <1>7, <1>8 DEF Rank
  <2>2. Rank(Q, m) # j - 1
    BY <1>4, <1>6
  <2> QED
    BY <2>1, <2>2
<1>10. j \in 1 .. Cardinality(R)
  BY <1>4, <1>5, <1>7, <1>9
<1>11. ~Missing(R)
  <2>1. Cardinality(R) \notin bad
    BY <1>2, <1>3, <1>7
  <2> QED
    BY <1>7, <2>1
<1>12. PICK p \in R : Rank(R, p) = j - 1
  BY <1>10, <1>11
<1>13. {q \in Q : q < p} = {q \in R : q < p}
  BY <1>6, <1>12
<1> QED
  BY <1>4, <1>12, <1>13 DEF Rank

\* Two numbers of P have different ranks.
LEMMA RankGrows ==
  ASSUME NEW n \in Nat, NEW P \in SUBSET (0 .. n), NEW p \in P, NEW q \in P, p < q
  PROVE  Rank(P, p) < Rank(P, q)
<1> DEFINE U == {x \in P : x < p}
           V == {x \in P : x < q}
<1>1. U \in SUBSET (0 .. n) /\ V \in SUBSET (0 .. n) /\ V \ {p} \in SUBSET (0 .. n)
  OBVIOUS
<1>0. p \in Nat /\ q \in Nat /\ \A x \in P : x \in Nat
  OBVIOUS
<1>2. IsFiniteSet(V) /\ p \in V /\ Cardinality(V \ {p}) = Cardinality(V) - 1
  BY <1>1, Finite, FS_RemoveElement
<1>3. U \subseteq V \ {p}
  <2>1. \A x \in P : x < p => x < q /\ x # p
    BY <1>0
  <2> QED
    BY <2>1
<1>4. Cardinality(U) <= Cardinality(V \ {p})
  BY <1>1, <1>3, Finite, FS_Subset
<1>5. Cardinality(U) \in Nat /\ Cardinality(V) \in Nat
  BY <1>1, Finite
<1> QED
  BY <1>2, <1>4, <1>5 DEF Rank

\* The list of some numbers has each of them once.
LEMMA ListedNumbers ==
  ASSUME NEW n \in Nat, NEW P \in SUBSET (0 .. n)
  PROVE  /\ Listed(P) \in Seq(P) /\ DOMAIN Listed(P) = 1 .. Cardinality(P)
         /\ ToSet(Listed(P)) = P /\ IsInjective(Listed(P))
<1>1. Cardinality(P) \in Nat /\ IsFiniteSet(P)
  BY Finite
<1>2. Listed(P) = [k \in 1 .. Cardinality(P) |-> CHOOSE p \in P : Rank(P, p) = k - 1]
  BY Zenon DEF Listed, Rank
<1>3. ASSUME NEW k \in 1 .. Cardinality(P)
      PROVE  Listed(P)[k] \in P /\ Rank(P, Listed(P)[k]) = k - 1
  <2>1. \E p \in P : Rank(P, p) = k - 1
    BY RankExists
  <2>2. Listed(P)[k] = CHOOSE p \in P : Rank(P, p) = k - 1
    BY <1>2
  <2> QED
    BY <2>1, <2>2
<1>4. DOMAIN Listed(P) = 1 .. Cardinality(P)
  BY <1>2
<1>5. Listed(P) \in [1 .. Cardinality(P) -> P]
  BY <1>2, <1>3
<1>6. Listed(P) \in Seq(P)
  BY <1>1, <1>5
<1>7. IsInjective(Listed(P))
  <2> SUFFICES ASSUME NEW i \in 1 .. Cardinality(P), NEW j \in 1 .. Cardinality(P),
                      Listed(P)[i] = Listed(P)[j]
               PROVE  i = j
    BY <1>4 DEF IsInjective
  <2>1. i - 1 = j - 1
    BY <1>3
  <2> QED
    BY <2>1
<1>8. ASSUME NEW p \in P
      PROVE  \E k \in 1 .. Cardinality(P) : Listed(P)[k] = p
  <2> DEFINE U == {q \in P : q < p}
             k == Rank(P, p) + 1
  <2>0. \A x \in P : x \in Nat /\ (x < p => x # p)
    OBVIOUS
  <2>1. U \in SUBSET (0 .. n) /\ P \ {p} \in SUBSET (0 .. n) /\ U \subseteq P \ {p}
    BY <2>0
  <2>2. Cardinality(U) <= Cardinality(P \ {p})
    BY <2>1, Finite, FS_Subset
  <2>3. Cardinality(P \ {p}) = Cardinality(P) - 1
    BY <1>1, FS_RemoveElement
  <2>4. Rank(P, p) = Cardinality(U) /\ Cardinality(U) \in Nat
    BY <2>1, Finite DEF Rank
  <2>5. k \in 1 .. Cardinality(P) /\ k - 1 = Rank(P, p)
    BY <1>1, <2>2, <2>3, <2>4
  <2>6. Listed(P)[k] \in P /\ Rank(P, Listed(P)[k]) = Rank(P, p)
    BY <1>3, <2>5
  <2> HIDE DEF k
  <2> DEFINE q == Listed(P)[k]
  <2>7. q \in Nat /\ p \in Nat /\ q \in P /\ Rank(P, q) = Rank(P, p) /\ Rank(P, p) \in Nat
    BY <2>0, <2>4, <2>6
  <2> HIDE DEF q
  <2>8. ~(p < q) /\ ~(q < p)
    <3>1. p < q => Rank(P, p) < Rank(P, q)
      BY <2>7, RankGrows
    <3>2. q < p => Rank(P, q) < Rank(P, p)
      BY <2>7, RankGrows
    <3> QED
      BY <2>7, <3>1, <3>2
  <2>9. p = q
    BY <2>7, <2>8
  <2> QED
    BY <2>5, <2>9 DEF q
<1>9. ToSet(Listed(P)) = P
  BY <1>3, <1>4, <1>8 DEF ToSet
<1> QED
  BY <1>4, <1>6, <1>7, <1>9

------------------------------------------------------------------------------
(* Ancestors.                                                                     *)

\* What is found from a session is the least set with its parents and theirs.
Closed(st, X) == \A x \in X \cap DOMAIN st : Parents(st, x) \subseteq X

LEMMA LeastClosed ==
  ASSUME NEW st, NEW s \in DOMAIN st
  PROVE  /\ Parents(st, s) \subseteq Ancestors(st)[s] /\ Closed(st, Ancestors(st)[s])
         /\ \A X : Parents(st, s) \subseteq X /\ Closed(st, X) => Ancestors(st)[s] \subseteq X
<1> DEFINE found == UNION {Parents(st, x) : x \in DOMAIN st}
           closed == {X \in SUBSET found : \A x \in X \cap DOMAIN st : Parents(st, x) \subseteq X}
           A == {a \in found : \A X \in closed : Parents(st, s) \subseteq X => a \in X}
<1>1. Ancestors(st)[s] = A
  BY Zenon DEF Ancestors
<1>2. \A x \in DOMAIN st : Parents(st, x) \subseteq found
  OBVIOUS
<1>3. Parents(st, s) \subseteq A
  BY <1>2
<1>4. Closed(st, A)
  <2> SUFFICES ASSUME NEW x \in A \cap DOMAIN st, NEW p \in Parents(st, x)
               PROVE  p \in A
    BY DEF Closed
  <2>1. p \in found
    BY <1>2
  <2>2. ASSUME NEW X \in closed, Parents(st, s) \subseteq X
        PROVE  p \in X
    BY <2>2
  <2> QED
    BY <2>1, <2>2
<1>5. ASSUME NEW X, Parents(st, s) \subseteq X, Closed(st, X)
      PROVE  A \subseteq X
  <2>1. X \cap found \in closed
    BY <1>2, <1>5 DEF Closed
  <2>2. Parents(st, s) \subseteq X \cap found
    BY <1>2, <1>5
  <2> QED
    BY <2>1, <2>2
<1> HIDE DEF A
<1> QED
  BY <1>1, <1>3, <1>4, <1>5

\* The ancestors of an ancestor are ancestors.
LEMMA AncestorsOfAncestors ==
  ASSUME NEW st, NEW s \in DOMAIN st, NEW a \in Ancestors(st)[s] \cap DOMAIN st
  PROVE  Parents(st, a) \subseteq Ancestors(st)[s] /\ Ancestors(st)[a] \subseteq Ancestors(st)[s]
<1>1. Closed(st, Ancestors(st)[s])
  BY LeastClosed
<1>2. Parents(st, a) \subseteq Ancestors(st)[s]
  BY <1>1 DEF Closed
<1> QED
  BY <1>1, <1>2, LeastClosed

\* An ancestor is a parent, or an ancestor of one.
LEMMA AncestorThroughParent ==
  ASSUME NEW st, NEW s \in DOMAIN st, NEW a \in Ancestors(st)[s], a \notin Parents(st, s)
  PROVE  \E p \in Parents(st, s) \cap DOMAIN st : a \in Ancestors(st)[p]
<1> DEFINE X == Parents(st, s) \cup UNION {Ancestors(st)[p] : p \in Parents(st, s) \cap DOMAIN st}
<1>1. Closed(st, X)
  <2> SUFFICES ASSUME NEW x \in X \cap DOMAIN st
               PROVE  Parents(st, x) \subseteq X
    BY DEF Closed
  <2>1. CASE x \in Parents(st, s)
    <3>1. Parents(st, x) \subseteq Ancestors(st)[x]
      BY LeastClosed
    <3> QED
      BY <2>1, <3>1
  <2>2. CASE x \notin Parents(st, s)
    <3>1. PICK p \in Parents(st, s) \cap DOMAIN st : x \in Ancestors(st)[p]
      BY <2>2
    <3>2. Parents(st, x) \subseteq Ancestors(st)[p]
      BY <3>1, AncestorsOfAncestors
    <3> QED
      BY <3>2
  <2> QED
    BY <2>1, <2>2
<1>2. Parents(st, s) \subseteq X
  OBVIOUS
<1>3. a \in X
  BY <1>1, <1>2, LeastClosed
<1> QED
  BY <1>3

\* In a graph without a cycle no session is its own ancestor.
LEMMA NotItsOwnAncestor ==
  ASSUME NEW st, Acyclic(st), NEW s \in DOMAIN st
  PROVE  s \notin Ancestors(st)[s]
<1> SUFFICES ASSUME s \in Ancestors(st)[s]
             PROVE  FALSE
  OBVIOUS
<1> DEFINE X == {x \in DOMAIN st : x \in Ancestors(st)[s] /\ s \in Ancestors(st)[x]}
<1>1. s \in X /\ X \in SUBSET DOMAIN st
  OBVIOUS
<1>2. PICK m \in X : Parents(st, m) \cap X = {}
  BY <1>1 DEF Acyclic
<1>3. m \in DOMAIN st /\ m \in Ancestors(st)[s] /\ s \in Ancestors(st)[m]
  OBVIOUS
<1>4. s \notin Parents(st, m)
  BY <1>1, <1>2
<1>5. PICK p \in Parents(st, m) \cap DOMAIN st : s \in Ancestors(st)[p]
  BY <1>3, <1>4, AncestorThroughParent
<1>6. p \in Ancestors(st)[s]
  BY <1>3, AncestorsOfAncestors
<1>7. p \in X
  BY <1>5, <1>6
<1> QED
  BY <1>2, <1>7

\* Only the links count.
SameLinks(st, other) ==
  DOMAIN st = DOMAIN other /\ \A s \in DOMAIN st : st[s].parents = other[s].parents

LEMMA GraphIsLinks ==
  ASSUME NEW st, NEW other, SameLinks(st, other)
  PROVE  /\ \A s \in DOMAIN st : Parents(st, s) = Parents(other, s)
         /\ Acyclic(st) <=> Acyclic(other)
         /\ \A s \in DOMAIN st : Ancestors(st)[s] = Ancestors(other)[s]
         /\ \A s : Offered(st, s) = Offered(other, s)
<1>1. DOMAIN st = DOMAIN other /\ \A s \in DOMAIN st : Parents(st, s) = Parents(other, s)
  BY DEF SameLinks, Parents
<1>2. Acyclic(st) <=> Acyclic(other)
  BY <1>1 DEF Acyclic
<1>3. ASSUME NEW s \in DOMAIN st
      PROVE  Ancestors(st)[s] = Ancestors(other)[s]
  <2>1. \A X : Closed(st, X) <=> Closed(other, X)
    BY <1>1 DEF Closed
  <2>2. Ancestors(st)[s] \subseteq Ancestors(other)[s]
    BY <1>1, <2>1, LeastClosed
  <2>3. Ancestors(other)[s] \subseteq Ancestors(st)[s]
    BY <1>1, <2>1, LeastClosed
  <2> QED
    BY <2>2, <2>3
<1>4. \A s : Offered(st, s) = Offered(other, s)
  BY <1>1, <1>3 DEF Offered
<1> QED
  BY <1>1, <1>2, <1>3, <1>4

------------------------------------------------------------------------------
(* Changes of the graph.                                                          *)

\* A session gets parents that do not descend from it.
LEMMA EditKeepsOrder ==
  ASSUME NEW st, Acyclic(st), NEW s \in DOMAIN st, NEW e, DOMAIN e = DOMAIN st,
         \A x \in DOMAIN st \ {s} : Parents(e, x) = Parents(st, x),
         Parents(e, s) \subseteq Offered(st, s), Base \notin DOMAIN st
  PROVE  Acyclic(e)
<1> SUFFICES ASSUME NEW X \in SUBSET DOMAIN st, X # {}, \A x \in X : Parents(e, x) \cap X # {}
             PROVE  FALSE
  BY DEF Acyclic
<1>1. s \in X
  BY DEF Acyclic
<1>2. PICK p \in X : p \in Parents(e, s)
  BY <1>1
<1>3. p \in DOMAIN st /\ p # s /\ s \notin Ancestors(st)[p]
  BY <1>2 DEF Offered
<1> DEFINE Y == {x \in X : x = p \/ x \in Ancestors(st)[p]}
<1>4. Y \in SUBSET DOMAIN st /\ p \in Y /\ s \notin Y
  BY <1>3
<1>5. PICK y \in Y : Parents(st, y) \cap Y = {}
  BY <1>4 DEF Acyclic
<1>6. PICK z \in X : z \in Parents(st, y)
  BY <1>4, <1>5
<1>7. Parents(st, y) \subseteq Ancestors(st)[p]
  BY <1>3, <1>4, LeastClosed, AncestorsOfAncestors
<1> QED
  BY <1>5, <1>6, <1>7

\* Weekend e is weekend st with session s, which is nobody's parent.
With(st, s, e) ==
  /\ s \notin DOMAIN st /\ DOMAIN e = DOMAIN st \cup {s}
  /\ \A x \in DOMAIN st : Parents(e, x) = Parents(st, x) /\ s \notin Parents(st, x)

LEMMA AddKeepsOrder ==
  ASSUME NEW st, NEW s, NEW e, With(st, s, e)
  PROVE  /\ Acyclic(st) /\ s \notin Parents(e, s) => Acyclic(e)
         /\ \A x \in DOMAIN st : Ancestors(e)[x] \subseteq Ancestors(st)[x] /\ s \notin Ancestors(st)[x]
<1>0. /\ s \notin DOMAIN st /\ DOMAIN e = DOMAIN st \cup {s}
      /\ \A x \in DOMAIN st : Parents(e, x) = Parents(st, x) /\ s \notin Parents(st, x)
  BY DEF With
<1>1. ASSUME Acyclic(st), s \notin Parents(e, s), NEW X \in SUBSET DOMAIN e, X # {},
             \A x \in X : Parents(e, x) \cap X # {}
      PROVE  FALSE
  <2>1. X \ {s} \in SUBSET DOMAIN st /\ X \ {s} # {}
    BY <1>0, <1>1
  <2>2. PICK x \in X \ {s} : Parents(st, x) \cap (X \ {s}) = {}
    BY <1>0, <1>1, <2>1 DEF Acyclic
  <2> QED
    BY <1>0, <1>1, <2>1, <2>2
<1>2. ASSUME NEW x \in DOMAIN st
      PROVE  Ancestors(e)[x] \subseteq Ancestors(st)[x] /\ s \notin Ancestors(st)[x]
  <2>1. s \notin Ancestors(st)[x]
    <3>1. Closed(st, Ancestors(st)[x] \ {s}) /\ Parents(st, x) \subseteq Ancestors(st)[x] \ {s}
      BY <1>0, LeastClosed DEF Closed
    <3> QED
      BY <3>1, LeastClosed
  <2>2. Closed(e, Ancestors(st)[x]) /\ Parents(e, x) \subseteq Ancestors(st)[x]
    BY <1>0, <2>1, LeastClosed DEF Closed
  <2> QED
    BY <1>0, <2>1, <2>2, LeastClosed
<1> QED
  BY <1>1, <1>2 DEF Acyclic

\* The parents of d that its child c gets.
Heir(st, d, c) == {p \in Parents(st, d) : c \in Relinked(st, d, p)}

\* Weekend e is weekend st without session d: its children get what they inherit, and lose d
\* unless they were linked to it more than once.
Without(st, d, e) ==
  /\ DOMAIN e = DOMAIN st \ {d}
  /\ \A c \in DOMAIN e :
       /\ d \notin Parents(st, c) => Parents(e, c) = Parents(st, c)
       /\ d \in Parents(st, c) =>
            /\ (Parents(st, c) \cup Heir(st, d, c)) \ {d} \subseteq Parents(e, c)
            /\ Parents(e, c) \subseteq Parents(st, c) \cup Heir(st, d, c)

LEMMA DeleteKeepsOrder ==
  ASSUME NEW st, Acyclic(st), NEW d \in DOMAIN st, NEW e, Without(st, d, e)
  PROVE  Acyclic(e)
<1> SUFFICES ASSUME NEW X \in SUBSET DOMAIN e, X # {}, \A x \in X : Parents(e, x) \cap X # {}
             PROVE  FALSE
  BY DEF Acyclic
<1>1. X \in SUBSET DOMAIN st /\ X \cup {d} \in SUBSET DOMAIN st
  BY DEF Without
<1>2. ASSUME NEW x \in X, NEW y \in Parents(e, x) \cap X
      PROVE  y \in Parents(st, x) \/ (d \in Parents(st, x) /\ y \in Parents(st, d))
  BY <1>2 DEF Without, Heir
<1>3. PICK x \in X : Parents(st, x) \cap X = {}
  BY <1>1 DEF Acyclic
<1>4. Parents(st, d) \cap X # {}
  BY <1>2, <1>3
<1>5. PICK y \in X \cup {d} : Parents(st, y) \cap (X \cup {d}) = {}
  BY <1>1 DEF Acyclic
<1> QED
  BY <1>2, <1>4, <1>5

\* Every child inherits all the parents that exist: none of them descends from it.
LEMMA ChildInherits ==
  ASSUME NEW st, Acyclic(st), NEW d \in DOMAIN st, NEW c \in DOMAIN st, d \in Parents(st, c),
         NEW p \in Parents(st, d)
  PROVE  p \in DOMAIN st \cup {Base} => p \in Heir(st, d, c)
<1>1. c \in FindChildren(st, d)
  BY DEF FindChildren
<1>2. d \in Ancestors(st)[c] /\ p \in Ancestors(st)[c]
  BY LeastClosed, AncestorsOfAncestors
<1>3. p \in DOMAIN st => c \notin Ancestors(st)[p]
  BY <1>2, NotItsOwnAncestor, AncestorsOfAncestors
<1> QED
  BY <1>1, <1>3 DEF Heir, Relinked

LEMMA DeleteKeepsAncestors ==
  ASSUME NEW st, Acyclic(st), NEW d \in DOMAIN st, NEW e, Without(st, d, e), NEW s \in DOMAIN e
  PROVE  Ancestors(e)[s] \cap DOMAIN e = Ancestors(st)[s] \cap DOMAIN e
<1>1. DOMAIN e = DOMAIN st \ {d} /\ s \in DOMAIN st
  BY DEF Without
<1>2. ASSUME NEW x \in DOMAIN e, x = s \/ x \in Ancestors(st)[s]
      PROVE  Parents(e, x) \subseteq Ancestors(st)[s]
  <2>1. Parents(st, x) \subseteq Ancestors(st)[s]
    BY <1>1, <1>2, LeastClosed, AncestorsOfAncestors
  <2>2. d \in Parents(st, x) => Parents(st, d) \subseteq Ancestors(st)[s]
    BY <1>1, <2>1, AncestorsOfAncestors
  <2> QED
    BY <2>1, <2>2 DEF Without, Heir
<1>3. Ancestors(e)[s] \subseteq Ancestors(st)[s]
  BY <1>2, LeastClosed DEF Closed
<1> DEFINE A == Ancestors(e)[s]
           through == \E y \in DOMAIN e : (y = s \/ y \in A) /\ d \in Parents(st, y)
           all == UNION {Parents(st, x) : x \in DOMAIN st}
           X == {x \in all : (x \in DOMAIN e => x \in A) /\ (x = d => through)}
<1>4. ASSUME NEW y \in DOMAIN e, y = s \/ y \in A, NEW p \in Parents(st, y)
      PROVE  p \in X
  <2>1. Parents(e, y) \subseteq A
    BY <1>4, LeastClosed, AncestorsOfAncestors
  <2>2. p \in DOMAIN e => p \in Parents(e, y)
    BY <1>1 DEF Without
  <2>3. p \in all
    BY <1>1
  <2> QED
    BY <1>1, <1>4, <2>1, <2>2, <2>3
<1>5. ASSUME through, NEW p \in Parents(st, d)
      PROVE  p \in X
  <2>1. PICK y \in DOMAIN e : (y = s \/ y \in A) /\ d \in Parents(st, y)
    BY <1>5
  <2>2. Parents(e, y) \subseteq A
    BY <2>1, LeastClosed, AncestorsOfAncestors
  <2>3. p \in DOMAIN e => p \in Parents(e, y)
    BY <1>1, <2>1, ChildInherits DEF Without
  <2>4. p \in all
    OBVIOUS
  <2> QED
    BY <1>1, <1>5, <2>2, <2>3, <2>4
<1>6. Closed(st, X)
  <2> SUFFICES ASSUME NEW x \in X \cap DOMAIN st, NEW p \in Parents(st, x)
               PROVE  p \in X
    BY DEF Closed
  <2>1. CASE x = d
    BY <1>5, <2>1
  <2>2. CASE x # d
    <3>1. x \in DOMAIN e /\ x \in A
      BY <1>1, <2>2
    <3> HIDE DEF X, A
    <3> QED
      BY <1>4, <3>1
  <2> QED
    BY <2>1, <2>2
<1>7. Parents(st, s) \subseteq X
  <2> HIDE DEF X
  <2> QED
    BY <1>4
<1>8. Ancestors(st)[s] \subseteq X
  <2> HIDE DEF X
  <2> QED
    BY <1>1, <1>6, <1>7, LeastClosed
<1> QED
  BY <1>3, <1>8

\* A link is removed, and only that.
LEMMA LinkRemoved ==
  ASSUME NEW S, NEW ps \in Seq(S), NEW d
  PROVE  LET qs == RemoveParent(ps, d) IN
           /\ qs \in Seq(S) /\ ToSet(qs) \subseteq ToSet(ps) /\ ToSet(ps) \ {d} \subseteq ToSet(qs)
           /\ d \notin ToSet(ps) => qs = ps
           /\ (\A i, j \in DOMAIN ps : ps[i] = d /\ ps[j] = d => i = j) => d \notin ToSet(qs)
<1> DEFINE qs == RemoveParent(ps, d)
           n == Len(ps)
           at == {i \in DOMAIN ps : ps[i] = d}
<1>1. n \in Nat /\ DOMAIN ps = 1 .. n /\ \A i \in 1 .. n : ps[i] \in S
  OBVIOUS
<1>2. CASE d \notin ToSet(ps)
  BY <1>2 DEF RemoveParent
<1>3. CASE d \in ToSet(ps)
  <2> DEFINE m == Max(at)
  <2>1. at \in SUBSET (0 .. n) /\ at # {}
    BY <1>1, <1>3 DEF ToSet
  <2>2. m \in at
    BY <1>1, <2>1, MaxIsOne
  <2>3. m \in 1 .. n /\ ps[m] = d
    BY <1>1, <2>2
  <2>4. qs = RemoveAt(ps, m)
    BY <1>3 DEF RemoveParent
  <2> HIDE DEF m
  <2>5. /\ qs \in Seq(S) /\ Len(qs) = n - 1
        /\ \A i \in 1 .. (n - 1) : qs[i] = IF i < m THEN ps[i] ELSE ps[i + 1]
    <3> DEFINE a == SubSeq(ps, 1, m - 1)
               b == SubSeq(ps, m + 1, n)
    <3>1. qs = a \o b
      BY <2>4 DEF RemoveAt
    <3>2. a \in Seq(S) /\ Len(a) = m - 1 /\ \A i \in 1 .. (m - 1) : a[i] = ps[i]
      BY <1>1, <2>3
    <3>3. b \in Seq(S) /\ Len(b) = n - m /\ \A i \in 1 .. (n - m) : b[i] = ps[m + i]
      <4>1. m + 1 \in Int /\ n \in Int /\ \A i \in (m + 1) .. n : ps[i] \in S
        BY <1>1, <2>3
      <4>2. /\ b \in Seq(S) /\ Len(b) = IF m + 1 <= n THEN n - (m + 1) + 1 ELSE 0
            /\ \A i \in 1 .. n - (m + 1) + 1 : b[i] = ps[m + 1 + i - 1]
        BY <4>1, SubSeqProperties
      <4> HIDE DEF b
      <4>3. n \in Nat /\ m \in Nat /\ m <= n
        BY <1>1, <2>3
      <4> HIDE DEF n
      <4>4. Len(b) = n - m /\ n - (m + 1) + 1 = n - m
        BY <4>2, <4>3
      <4>5. \A i \in 1 .. (n - m) : m + 1 + i - 1 = m + i
        BY <4>3
      <4> QED
        BY <4>2, <4>4, <4>5
    <3> HIDE DEF a, b, qs
    <3>4. qs \in Seq(S) /\ Len(qs) = n - 1
      <4>1. qs \in Seq(S) /\ Len(qs) = Len(a) + Len(b)
        BY <3>1, <3>2, <3>3, ConcatProperties
      <4> QED
        BY <1>1, <2>3, <3>2, <3>3, <4>1
    <3>5. ASSUME NEW i \in 1 .. (n - 1), i < m
          PROVE  qs[i] = ps[i]
      BY <1>1, <2>3, <3>1, <3>2, <3>3, <3>5
    <3>6. ASSUME NEW i \in 1 .. (n - 1), ~(i < m)
          PROVE  qs[i] = ps[i + 1]
      <4>1. qs[i] = b[i - (m - 1)] /\ i - (m - 1) \in 1 .. (n - m) /\ m + (i - (m - 1)) = i + 1
        BY <1>1, <2>3, <3>1, <3>2, <3>3, <3>6
      <4> QED
        BY <3>3, <4>1
    <3> QED
      BY <3>4, <3>5, <3>6
  <2> HIDE DEF qs
  <2>6. DOMAIN qs = 1 .. (n - 1)
    BY <1>1, <2>5
  <2>7. \A i \in DOMAIN qs : \E j \in 1 .. n : j # m /\ qs[i] = ps[j]
    <3> SUFFICES ASSUME NEW i \in DOMAIN qs
                 PROVE  \E j \in 1 .. n : j # m /\ qs[i] = ps[j]
      OBVIOUS
    <3>1. i \in 1 .. (n - 1)
      BY <2>6
    <3>2. i < m => i \in 1 .. n /\ i # m /\ qs[i] = ps[i]
      BY <1>1, <2>3, <2>5, <3>1
    <3>3. ~(i < m) => i + 1 \in 1 .. n /\ i + 1 # m /\ qs[i] = ps[i + 1]
      BY <1>1, <2>3, <2>5, <3>1
    <3> QED
      BY <3>2, <3>3
  <2>8. \A j \in 1 .. n : j # m => \E i \in DOMAIN qs : qs[i] = ps[j]
    <3> SUFFICES ASSUME NEW j \in 1 .. n, j # m
                 PROVE  \E i \in 1 .. (n - 1) : qs[i] = ps[j]
      BY <2>6
    <3>1. j < m => j \in 1 .. (n - 1) /\ qs[j] = ps[j]
      BY <1>1, <2>3, <2>5
    <3>2. ~(j < m) => j - 1 \in 1 .. (n - 1) /\ qs[j - 1] = ps[j]
      BY <1>1, <2>3, <2>5
    <3> QED
      BY <3>1, <3>2
  <2>9. ToSet(qs) \subseteq ToSet(ps)
    BY <1>1, <2>7 DEF ToSet
  <2>10. ToSet(ps) \ {d} \subseteq ToSet(qs)
    BY <1>1, <2>3, <2>8 DEF ToSet
  <2>11. (\A i, j \in DOMAIN ps : ps[i] = d /\ ps[j] = d => i = j) => d \notin ToSet(qs)
    BY <1>1, <2>3, <2>7 DEF ToSet
  <2> QED
    BY <1>3, <2>5, <2>9, <2>10, <2>11 DEF qs
<1> QED
  BY <1>2, <1>3

\* The parents that c inherits from d are listed.
LEMMA InheritedListed ==
  ASSUME NEW st, NEW n \in Nat, NEW d \in DOMAIN st, st[d].parents \in Seq(0 .. n), NEW c
  PROVE  /\ Inherited(st, d, c) \in Seq(0 .. n) /\ ToSet(Inherited(st, d, c)) = Heir(st, d, c)
         /\ Heir(st, d, c) = {} => Inherited(st, d, c) = <<>>
<1> DEFINE ps == st[d].parents
           I == {i \in DOMAIN ps : c \in Relinked(st, d, ps[i])}
           at == Listed(I)
           qs == [k \in DOMAIN at |-> ps[at[k]]]
<1>1. Len(ps) \in Nat /\ DOMAIN ps = 1 .. Len(ps) /\ I \in SUBSET (0 .. Len(ps))
  OBVIOUS
<1>2. /\ at \in Seq(I) /\ DOMAIN at = 1 .. Cardinality(I) /\ ToSet(at) = I
      /\ Cardinality(I) \in Nat
  BY <1>1, ListedNumbers, Finite
<1>3. Inherited(st, d, c) = qs
  BY Zenon DEF Inherited
<1>4. \A k \in DOMAIN at : at[k] \in I
  BY <1>2 DEF ToSet
<1>5. \A i \in I : \E k \in DOMAIN at : at[k] = i
  BY <1>2 DEF ToSet
<1> HIDE DEF at
<1>6. \A k \in DOMAIN at : qs[k] = ps[at[k]] /\ ps[at[k]] \in 0 .. n
  BY <1>1, <1>4
<1>7. qs \in [1 .. Cardinality(I) -> 0 .. n] /\ DOMAIN qs = DOMAIN at
  BY <1>2, <1>6
<1>8. qs \in Seq(0 .. n)
  <2> DEFINE k == Cardinality(I)
  <2>1. k \in Nat /\ qs \in [1 .. k -> 0 .. n]
    BY <1>2, <1>7
  <2> HIDE DEF k, qs
  <2> QED
    BY <2>1
<1>9. ToSet(qs) = {ps[i] : i \in I}
  <2>1. ToSet(qs) = {ps[at[k]] : k \in DOMAIN at}
    <3>1. ToSet(qs) = {qs[k] : k \in DOMAIN at}
      BY <1>7, Zenon DEF ToSet
    <3> QED
      BY <1>6, <3>1
  <2> HIDE DEF I, qs, ps
  <2> QED
    BY <1>4, <1>5, <2>1
<1>10. {ps[i] : i \in I} = Heir(st, d, c)
  BY DEF Heir, Parents, ToSet
<1>11. Heir(st, d, c) = {} => qs = <<>>
  <2> SUFFICES ASSUME Heir(st, d, c) = {}
               PROVE  qs = <<>>
    OBVIOUS
  <2>1. DOMAIN qs = {}
    BY <1>4, <1>7, <1>10
  <2> HIDE DEF qs
  <2> QED
    BY <1>8, <2>1
<1> QED
  BY <1>3, <1>8, <1>9, <1>10, <1>11

\* Links of the sessions of weekend st are numbers up to n.
Links(st, n) == \A s \in DOMAIN st : st[s].parents \in Seq(0 .. n)

\* What DelSession makes of the graph.
LEMMA SessionUnlinked ==
  ASSUME NEW st, NEW n \in Nat, Links(st, n), NEW d \in DOMAIN st,
         \A s \in DOMAIN st : "parents" \in DOMAIN st[s]
  PROVE  /\ Without(st, d, DelSession(st, d)) /\ Links(DelSession(st, d), n)
         /\ \A c \in DOMAIN st \ {d} : IsInjective(st[c].parents) /\ d \notin Heir(st, d, c)
              => d \notin Parents(DelSession(st, d), c)
<1> DEFINE e == DelSession(st, d)
<1>1. DOMAIN e = DOMAIN st \ {d}
  BY DEF DelSession
<1>2. ASSUME NEW c \in DOMAIN st \ {d}
      PROVE  /\ e[c].parents \in Seq(0 .. n)
             /\ d \notin Parents(st, c) => Parents(e, c) = Parents(st, c)
             /\ (Parents(st, c) \cup Heir(st, d, c)) \ {d} \subseteq Parents(e, c)
             /\ Parents(e, c) \subseteq Parents(st, c) \cup Heir(st, d, c)
             /\ IsInjective(st[c].parents) /\ d \notin Heir(st, d, c) => d \notin Parents(e, c)
  <2> DEFINE ps == st[c].parents
             hs == Inherited(st, d, c)
             qs == ps \o hs
  <2>1. e[c].parents = RemoveParent(qs, d)
    <3>1. e[c] = [st[c] EXCEPT !.parents = RemoveParent(st[c].parents \o Inherited(st, d, c), d)]
      BY DEF DelSession
    <3>2. "parents" \in DOMAIN st[c]
      OBVIOUS
    <3> HIDE DEF e
    <3> QED
      BY <3>1, <3>2
  <2>2. ps \in Seq(0 .. n) /\ st[d].parents \in Seq(0 .. n)
    BY DEF Links
  <2>3. hs \in Seq(0 .. n) /\ ToSet(hs) = Heir(st, d, c) /\ (Heir(st, d, c) = {} => hs = <<>>)
    BY <2>2, InheritedListed
  <2> HIDE DEF e, ps, hs
  <2>4. /\ qs \in Seq(0 .. n) /\ Len(qs) = Len(ps) + Len(hs)
        /\ \A i \in 1 .. Len(ps) : qs[i] = ps[i]
        /\ \A i \in 1 .. Len(hs) : qs[Len(ps) + i] = hs[i]
        /\ \A i \in (Len(ps) + 1) .. Len(qs) : qs[i] = hs[i - Len(ps)] /\ i - Len(ps) \in 1 .. Len(hs)
        /\ Len(ps) \in Nat /\ Len(hs) \in Nat
    BY <2>2, <2>3
  <2>5. DOMAIN qs = 1 .. Len(qs) /\ DOMAIN ps = 1 .. Len(ps) /\ DOMAIN hs = 1 .. Len(hs)
    BY <2>2, <2>3, <2>4
  <2> HIDE DEF qs
  <2>6. ToSet(qs) = ToSet(ps) \cup ToSet(hs)
    <3>1. ToSet(ps) \subseteq ToSet(qs)
      BY <2>4, <2>5 DEF ToSet
    <3>2. ToSet(hs) \subseteq ToSet(qs)
      <4>1. \A i \in 1 .. Len(hs) : Len(ps) + i \in DOMAIN qs
        BY <2>4, <2>5
      <4> QED
        BY <2>4, <2>5, <4>1 DEF ToSet
    <3>3. ASSUME NEW i \in DOMAIN qs
          PROVE  qs[i] \in ToSet(ps) \cup ToSet(hs)
      <4>1. CASE i \in 1 .. Len(ps)
        BY <2>4, <2>5, <4>1 DEF ToSet
      <4>2. CASE i \in (Len(ps) + 1) .. Len(qs)
        BY <2>4, <2>5, <4>2 DEF ToSet
      <4>3. i \in 1 .. Len(ps) \/ i \in (Len(ps) + 1) .. Len(qs)
        BY <2>4, <2>5
      <4> QED
        BY <4>1, <4>2, <4>3
    <3> QED
      BY <3>1, <3>2, <3>3 DEF ToSet
  <2>7. /\ e[c].parents \in Seq(0 .. n)
        /\ ToSet(e[c].parents) \subseteq ToSet(qs) /\ ToSet(qs) \ {d} \subseteq ToSet(e[c].parents)
        /\ d \notin ToSet(qs) => e[c].parents = qs
        /\ (\A i, j \in DOMAIN qs : qs[i] = d /\ qs[j] = d => i = j) => d \notin ToSet(e[c].parents)
    <3> DEFINE rs == RemoveParent(qs, d)
    <3>1. qs \in Seq(0 .. n)
      BY <2>4
    <3>2. /\ rs \in Seq(0 .. n) /\ ToSet(rs) \subseteq ToSet(qs) /\ ToSet(qs) \ {d} \subseteq ToSet(rs)
          /\ d \notin ToSet(qs) => rs = qs
          /\ (\A i, j \in DOMAIN qs : qs[i] = d /\ qs[j] = d => i = j) => d \notin ToSet(rs)
      BY <3>1, LinkRemoved
    <3>3. e[c].parents = rs
      BY <2>1
    <3> HIDE DEF rs
    <3> QED
      BY <3>2, <3>3
  <2>8. ToSet(ps) = Parents(st, c) /\ ToSet(e[c].parents) = Parents(e, c)
    BY DEF Parents, ps
  <2>9. d \notin Parents(st, c) => Heir(st, d, c) = {}
    BY DEF Heir, Relinked, FindChildren
  <2>10. ASSUME IsInjective(ps), d \notin Heir(st, d, c)
         PROVE  d \notin Parents(e, c)
    <3>1. ASSUME NEW i \in DOMAIN qs, qs[i] = d
          PROVE  i \in DOMAIN ps /\ ps[i] = d
      <4>1. i \notin (Len(ps) + 1) .. Len(qs)
        BY <2>3, <2>4, <2>5, <2>10, <3>1 DEF ToSet
      <4> QED
        BY <2>4, <2>5, <3>1, <4>1
    <3>2. \A i, j \in DOMAIN qs : qs[i] = d /\ qs[j] = d => i = j
      BY <2>10, <3>1 DEF IsInjective
    <3> QED
      BY <2>7, <2>8, <3>2
  <2>11. d \notin Parents(st, c) => Parents(e, c) = Parents(st, c)
    BY <2>3, <2>6, <2>7, <2>8, <2>9
  <2> QED
    BY <2>3, <2>6, <2>7, <2>8, <2>10, <2>11 DEF ps
<1> QED
  BY <1>1, <1>2 DEF Without, Links

------------------------------------------------------------------------------
(* The inductive invariant of the graph, on top of IInv.                          *)

\* Sessions that acServer plays, or that are being started.
BeingRun ==
  {th[t].session : t \in {o \in Threads : th[o].pc \in {"activate", "launch"}}}
    \cup {s \in SessionIds : server.on = "session" /\ s = server.session}

Linked ==
  /\ Links(store, added)
  /\ \A t \in Threads : th[t].pc \in Holding => Links(th[t].copy, added)
  /\ \A h \in Handlers : th[h].pc = "form" => th[h].offered \subseteq 0 .. added
  /\ BeingRun \subseteq 1 .. added

\* A form that is not outdated offers what the weekend offers, and a copy that is not stale has
\* its links, and its results unless a completed session was cancelled.
Fresh ==
  \A h \in Handlers :
    /\ th[h].pc = "form" /\ ~th[h].stale => th[h].offered = Offered(store, th[h].session)
    /\ th[h].pc \in Holding /\ ~th[h].stale =>
         /\ SameLinks(th[h].copy, store)
         /\ "reopened" \notin disturbed =>
              \A s \in DOMAIN store : th[h].copy[s].results = store[s].results

\* What GraphSound says, and that no session is linked to a parent twice.
Rooted ==
  disturbed \cap {"outdatedForm", "overtaken"} = {} =>
    /\ Acyclic(store)
    /\ "linkedTwice" \notin disturbed =>
         \A s \in DOMAIN store :
           /\ Parents(store, s) # {} /\ Parents(store, s) \subseteq DOMAIN store \cup {Base}
           /\ IsInjective(store[s].parents)

\* What RunsAfterParents says, from the moment a start is recorded.
AllCompleted(s) == \A a \in Ancestors(store)[s] \cap DOMAIN store : Completed(store, a)

ParentsDone ==
  disturbed \cap {"edited", "overtaken", "reopened"} = {} /\ Acyclic(store) =>
    \A s \in BeingRun \cap DOMAIN store : AllCompleted(s)

GInv == Linked /\ Fresh /\ Rooted /\ ParentsDone

LEMMA StoredAre ==
  ASSUME IInv
  PROVE  /\ added \in Nat /\ DOMAIN store \subseteq 1 .. added /\ Base \notin DOMAIN store
         /\ None \notin DOMAIN store /\ added \in 0 .. MaxSessions
         /\ \A s \in DOMAIN store : "parents" \in DOMAIN store[s]
         /\ \A s \in DOMAIN store : store[s].results \in Nat
<1>1. /\ added \in 0 .. MaxSessions /\ DOMAIN store \subseteq 1 .. added
      /\ \A s \in DOMAIN store : SessionRecord(store[s])
  BY DEF IInv, Fits, Weekend
<1>2. Base \notin DOMAIN store /\ None \notin DOMAIN store
  BY <1>1, Bounds DEF Base, SessionIds
<1> QED
  BY <1>1, <1>2, Bounds DEF SessionRecord

\* What another thread than t has after a step.
Elsewhere(t) ==
  \A o \in Threads \ {t} :
    /\ th[o].pc = "form" =>
         /\ th'[o].offered = th[o].offered
         /\ ~th'[o].stale => ~th[o].stale /\ SameLinks(store', store)
    /\ th[o].pc \in Holding /\ ~th'[o].stale => ~th[o].stale /\ store' = store

LEMMA SavedElsewhere ==
  ASSUME IInv, NEW t \in Threads, NEW st, NEW x, Save(t, st, x)
  PROVE  Step(t, x) /\ store' = st /\ Elsewhere(t)
<1>1. Step(t, x) /\ store' = st /\ \A o \in Threads \ {t} : th[o].pc \in Holding => th'[o].stale
  BY SaveSteps DEF IInv
<1>2. ASSUME NEW o \in Threads \ {t}, th[o].pc = "form"
      PROVE  /\ th'[o].offered = th[o].offered
             /\ ~th'[o].stale => ~th[o].stale /\ Graph(st) = Graph(store)
  <2>1. Task(o, th[o]) /\ th'[o] = Aged(th[o], st)
    BY DEF IInv, Tasks, Save
  <2>2. th[o] \in [pc : {"form"}, session : SessionIds \cup {None}, offered : {th[o].offered}, stale : BOOLEAN]
    BY <1>2, <2>1, TaskNamed
  <2>3. th'[o] = [th[o] EXCEPT !.stale = @ \/ Graph(st) # Graph(store)]
    BY <1>2, <2>1 DEF Aged
  <2> QED
    BY <2>2, <2>3
<1>3. Graph(st) = Graph(store) => SameLinks(st, store)
  <2> SUFFICES ASSUME Graph(st) = Graph(store)
               PROVE  SameLinks(st, store)
    OBVIOUS
  <2>1. DOMAIN Graph(st) = DOMAIN st /\ DOMAIN Graph(store) = DOMAIN store
    BY DEF Graph
  <2>2. \A s \in DOMAIN st : Graph(st)[s] = st[s].parents
    BY DEF Graph
  <2>3. \A s \in DOMAIN store : Graph(store)[s] = store[s].parents
    BY DEF Graph
  <2> QED
    BY <2>1, <2>2, <2>3 DEF SameLinks
<1> QED
  BY <1>1, <1>2, <1>3 DEF Elsewhere


LEMMA MovedElsewhere ==
  ASSUME IInv, NEW t \in Threads, NEW x, Become(t, x) \/ (UNCHANGED th /\ x = th[t]), UNCHANGED store
  PROVE  Step(t, x) /\ Elsewhere(t)
<1>1. Step(t, x) /\ \A o \in Threads \ {t} : th'[o] = th[o]
  BY BecomeSteps, NoStep DEF IInv
<1>2. SameLinks(store', store)
  BY DEF SameLinks
<1> QED
  BY <1>1, <1>2 DEF Elsewhere

\* Nothing is started but the session of t.
LEMMA RunKept ==
  ASSUME NEW t \in Threads, NEW x, Step(t, x), server' \in {server, Stopped, Other}
  PROVE  BeingRun' \subseteq BeingRun \cup {s \in {x.session} : x.pc \in {"activate", "launch"}}
<1>1. server'.on = "session" => server' = server
  BY DEF Stopped, Other
<1>2. \A o \in Threads : th'[o].pc \in {"activate", "launch"} =>
        \/ o # t /\ th[o].pc \in {"activate", "launch"} /\ th'[o].session = th[o].session
        \/ o = t /\ th'[o] = x
  BY DEF Step
<1> QED
  BY <1>1, <1>2 DEF BeingRun

\* The types, forms and copies after a step of thread t.
LEMMA LinkedFresh ==
  ASSUME IInv, Linked, Fresh, NEW t \in Threads, NEW x, Step(t, x), Elsewhere(t),
         added' \in Nat, added <= added', Links(store', added'),
         x.pc \in Holding => Links(x.copy, added'),
         t \in Handlers /\ x.pc = "form" =>
            x.offered \subseteq 0 .. added' /\ x.offered = Offered(store', x.session),
         t \in Handlers /\ x.pc \in Holding /\ ~x.stale =>
            /\ SameLinks(x.copy, store')
            /\ "reopened" \notin disturbed' =>
                 \A s \in DOMAIN store' : x.copy[s].results = store'[s].results,
         disturbed \subseteq disturbed', BeingRun' \subseteq 1 .. added'
  PROVE  Linked' /\ Fresh'
<1>1. added \in Nat /\ \A n \in 0 .. added : n \in 0 .. added'
  BY StoredAre
<1>2. ASSUME NEW st, Links(st, added)
      PROVE  Links(st, added')
  <2> SUFFICES ASSUME NEW s \in DOMAIN st
               PROVE  st[s].parents \in Seq(0 .. added')
    BY DEF Links
  <2>1. st[s].parents \in Seq(0 .. added)
    BY <1>2 DEF Links
  <2> QED
    BY <1>1, <2>1
<1>3. \A o \in Threads : th'[o].pc \in Holding => Links(th'[o].copy, added')
  BY <1>2 DEF Linked, Step
<1>4. \A h \in Handlers : th'[h].pc = "form" => th'[h].offered \subseteq 0 .. added'
  <2> SUFFICES ASSUME NEW h \in Handlers, th'[h].pc = "form"
               PROVE  th'[h].offered \subseteq 0 .. added'
    OBVIOUS
  <2>1. CASE h = t
    BY <2>1 DEF Step
  <2>2. CASE h # t
    <3>1. th[h].pc = "form" /\ th'[h].offered = th[h].offered
      BY <2>2, Bounds DEF Step, Elsewhere
    <3> QED
      BY <1>1, <3>1 DEF Linked
  <2> QED
    BY <2>1, <2>2
<1>5. Linked'
  BY <1>3, <1>4 DEF Linked
<1>6. Fresh'
  <2> SUFFICES ASSUME NEW h \in Handlers
               PROVE  /\ th'[h].pc = "form" /\ ~th'[h].stale => th'[h].offered = Offered(store', th'[h].session)
                      /\ th'[h].pc \in Holding /\ ~th'[h].stale =>
                           /\ SameLinks(th'[h].copy, store')
                           /\ "reopened" \notin disturbed' =>
                                \A s \in DOMAIN store' : th'[h].copy[s].results = store'[s].results
    BY DEF Fresh
  <2>1. CASE h = t
    BY <2>1 DEF Step
  <2>2. CASE h # t
    <3>1. h \in Threads \ {t} /\ th'[h].pc = th[h].pc /\ th'[h].session = th[h].session
          /\ (th[h].pc \in Holding => th'[h].copy = th[h].copy)
      BY <2>2, Bounds DEF Step
    <3>2. ASSUME th'[h].pc = "form", ~th'[h].stale
          PROVE  th'[h].offered = Offered(store', th'[h].session)
      <4>1. th'[h].offered = th[h].offered /\ ~th[h].stale /\ SameLinks(store', store)
        BY <3>1, <3>2 DEF Elsewhere
      <4>2. Offered(store', th[h].session) = Offered(store, th[h].session)
        BY <4>1, GraphIsLinks
      <4> QED
        BY <3>1, <3>2, <4>1, <4>2 DEF Fresh
    <3>3. ASSUME th'[h].pc \in Holding, ~th'[h].stale
          PROVE  /\ SameLinks(th'[h].copy, store')
                 /\ "reopened" \notin disturbed' =>
                      \A s \in DOMAIN store' : th'[h].copy[s].results = store'[s].results
      <4>1. ~th[h].stale /\ store' = store /\ th'[h].copy = th[h].copy
        BY <3>1, <3>3 DEF Elsewhere
      <4> QED
        BY <3>1, <3>3, <4>1 DEF Fresh
    <3> QED
      BY <3>2, <3>3
  <2> QED
    BY <2>1, <2>2
<1> QED
  BY <1>5, <1>6

\* A step that leaves the graph as it is, or saves a stale copy.
LEMMA GraphStep ==
  ASSUME IInv, GInv, Acyclic(store), NEW t \in Threads, NEW x, Step(t, x), Elsewhere(t),
         added' = added, Links(store', added),
         x.pc \in Holding => Links(x.copy, added),
         t \in Handlers /\ x.pc = "form" =>
            x.offered \subseteq 0 .. added /\ x.offered = Offered(store', x.session),
         t \in Handlers /\ x.pc \in Holding /\ ~x.stale =>
            /\ SameLinks(x.copy, store')
            /\ "reopened" \notin disturbed' =>
                 \A s \in DOMAIN store' : x.copy[s].results = store'[s].results,
         disturbed \subseteq disturbed',
         "overtaken" \notin disturbed' => SameLinks(store', store),
         disturbed' \cap {"edited", "overtaken", "reopened"} = {} =>
           \A s \in DOMAIN store : Completed(store, s) => Completed(store', s),
         \A s \in BeingRun' : s \in BeingRun \/ (s \in DOMAIN store /\ AllCompleted(s))
  PROVE  GInv'
<1>1. Linked' /\ Fresh'
  <2>1. BeingRun' \subseteq 1 .. added /\ added \in Nat
    BY StoredAre DEF GInv, Linked
  <2> QED
    BY <2>1, LinkedFresh DEF GInv
<1>2. Rooted'
  <2> SUFFICES ASSUME disturbed' \cap {"outdatedForm", "overtaken"} = {}
               PROVE  /\ Acyclic(store')
                      /\ "linkedTwice" \notin disturbed' =>
                           \A s \in DOMAIN store' :
                             /\ Parents(store', s) # {} /\ Parents(store', s) \subseteq DOMAIN store' \cup {Base}
                             /\ IsInjective(store'[s].parents)
    BY DEF Rooted
  <2>1. SameLinks(store', store)
    OBVIOUS
  <2>2. disturbed \cap {"outdatedForm", "overtaken"} = {}
    OBVIOUS
  <2>3. (Acyclic(store') <=> Acyclic(store)) /\ \A s \in DOMAIN store' : Parents(store', s) = Parents(store, s)
    BY <2>1, GraphIsLinks
  <2>4. DOMAIN store' = DOMAIN store /\ \A s \in DOMAIN store' : store'[s].parents = store[s].parents
    BY <2>1 DEF SameLinks
  <2> QED
    BY <2>2, <2>3, <2>4 DEF GInv, Rooted
<1>3. ParentsDone'
  <2> SUFFICES ASSUME disturbed' \cap {"edited", "overtaken", "reopened"} = {},
                      NEW s \in BeingRun', s \in DOMAIN store',
                      NEW a \in Ancestors(store')[s], a \in DOMAIN store'
               PROVE  Completed(store', a)
    BY DEF ParentsDone, AllCompleted
  <2>1. SameLinks(store', store) /\ disturbed \cap {"edited", "overtaken", "reopened"} = {}
    OBVIOUS
  <2>2. DOMAIN store' = DOMAIN store /\ Ancestors(store')[s] = Ancestors(store)[s]
    BY <2>1, GraphIsLinks DEF SameLinks
  <2>3. AllCompleted(s)
    BY <2>1, <2>2 DEF GInv, ParentsDone
  <2> QED
    BY <2>2, <2>3 DEF AllCompleted
<1> QED
  BY <1>1, <1>2, <1>3 DEF GInv

------------------------------------------------------------------------------
(* Each action and the graph.                                                     *)

\* A session is changed, but not its links.
LEMMA LinksKept ==
  ASSUME NEW st, NEW n, NEW k, Weekend(st, n, k), NEW s \in DOMAIN st, NEW e, DOMAIN e = DOMAIN st,
         \A c \in DOMAIN st \ {s} : e[c] = st[c], e[s].parents = st[s].parents
  PROVE  SameLinks(e, st)
BY DEF SameLinks

LEMMA LinksAlike ==
  ASSUME NEW e, NEW st, SameLinks(e, st), NEW n, Links(st, n)
  PROVE  Links(e, n)
BY DEF SameLinks, Links

\* A step that keeps the links, and after which t holds neither a form nor a copy.
LEMMA LinkStep ==
  ASSUME IInv, GInv, Acyclic(store), NEW t \in Threads, NEW x, Step(t, x), Elsewhere(t),
         added' = added, SameLinks(store', store), x.pc \notin Holding \cup {"form"},
         disturbed \subseteq disturbed',
         \A s \in DOMAIN store : Completed(store, s) => Completed(store', s),
         \A s \in BeingRun' : s \in BeingRun \/ (s \in DOMAIN store /\ AllCompleted(s))
  PROVE  GInv'
<1>1. Links(store', added)
  BY LinksAlike DEF GInv, Linked
<1> QED
  BY <1>1, GraphStep

\* The goroutine whose session is being started goes on with it, or is done with it.
LEMMA StillRun ==
  ASSUME NEW t \in Threads, NEW x, Step(t, x), server' \in {server, Stopped, Other},
         x.pc \in {"activate", "launch"} => th[t].pc \in {"activate", "launch"} /\ x.session = th[t].session
  PROVE  \A s \in BeingRun' : s \in BeingRun
<1>1. x.pc \in {"activate", "launch"} => x.session \in BeingRun
  BY DEF BeingRun
<1> QED
  BY <1>1, RunKept

LEMMA SameStore ==
  ASSUME UNCHANGED store
  PROVE  SameLinks(store', store) /\ \A s \in DOMAIN store : Completed(store, s) => Completed(store', s)
BY DEF SameLinks, Completed

\* No thread moves.
LEMMA NobodyMovesGraph ==
  ASSUME IInv, GInv, Acyclic(store), UNCHANGED <<store, added, th>>, disturbed \subseteq disturbed',
         server' \in {server, Stopped, Other}
  PROVE  GInv'
<1>1. Timer \in Threads /\ th[Timer].pc \notin Holding \cup {"form"}
  <2>1. Timer \in Threads /\ Task(Timer, th[Timer]) /\ Timer \notin Handlers \cup {Udp}
    BY Bounds DEF IInv, Tasks
  <2> QED
    BY <2>1, TaskNamed
<1>2. Step(Timer, th[Timer]) /\ Elsewhere(Timer)
  BY <1>1, MovedElsewhere
<1>3. \A s \in BeingRun' : s \in BeingRun
  BY <1>1, <1>2, StillRun
<1> QED
  BY <1>1, <1>2, <1>3, SameStore, LinkStep

LEMMA SessionEndsGraph ==
  ASSUME IInv, GInv, Acyclic(store), SessionEnds
  PROVE  GInv'
BY NobodyMovesGraph DEF SessionEnds

LEMMA StartOtherGraph ==
  ASSUME IInv, GInv, Acyclic(store), NEW h, StartOther(h)
  PROVE  GInv'
BY NobodyMovesGraph DEF StartOther

LEMMA CallScheduleRefusedGraph ==
  ASSUME IInv, GInv, Acyclic(store), NEW h, NEW s, CallScheduleRefused(h, s)
  PROVE  GInv'
BY NobodyMovesGraph DEF CallScheduleRefused

\* A thread goes on with x, which is neither a form nor a copy, and nothing is saved.
LEMMA MovesGraph ==
  ASSUME IInv, GInv, Acyclic(store), NEW t \in Threads, NEW x, Become(t, x), UNCHANGED <<store, added>>,
         x.pc \notin Holding \cup {"form"},
         x.pc \in {"activate", "launch"} => th[t].pc \in {"activate", "launch"} /\ x.session = th[t].session,
         disturbed \subseteq disturbed', server' \in {server, Stopped, Other}
  PROVE  GInv'
<1>1. Step(t, x) /\ Elsewhere(t)
  BY MovedElsewhere
<1>2. \A s \in BeingRun' : s \in BeingRun
  BY <1>1, StillRun
<1> QED
  BY <1>1, <1>2, SameStore, LinkStep

LEMMA IdlePc == NoTask.pc = "idle" /\ "idle" \notin Holding \cup {"form", "activate", "launch"}
BY DEF NoTask, Holding

LEMMA BeginRunGraph ==
  ASSUME IInv, GInv, Acyclic(store), NEW t \in Threads, BeginRun(t)
  PROVE  GInv'
<1> DEFINE s == th[t].session
<1>1. th[t].pc \in Starting /\ UNCHANGED <<added, server, disturbed>>
  BY DEF BeginRun, Starting
<1>2. Returned(t).pc \in {"idle", "clear"}
  BY <1>1, ReturnedTask
<1>3. CASE ~(s \in DOMAIN store /\ SessionCanBeRun(store, s))
  <2>1. Become(t, Returned(t)) /\ UNCHANGED store
    BY <1>3 DEF BeginRun
  <2> QED
    BY <1>1, <1>2, <2>1, MovesGraph DEF Holding
<1>4. CASE s \in DOMAIN store /\ SessionCanBeRun(store, s)
  <2> DEFINE st == [store EXCEPT ![s].started = TRUE]
  <2>1. PICK x \in {Returned(t), [pc |-> "activate", session |-> s]} : Save(t, st, x)
    BY <1>4 DEF BeginRun
  <2>2. Weekend(store, added, Len(files))
    BY DEF IInv, Fits
  <2>3. SameLinks(st, store) /\ \A c \in DOMAIN store : Completed(store, c) => Completed(st, c)
    <3>1. \A c \in DOMAIN store : SessionRecord(store[c])
      BY <2>2 DEF Weekend
    <3>2. DOMAIN st = DOMAIN store /\ (\A c \in DOMAIN store \ {s} : st[c] = store[c])
          /\ st[s].parents = store[s].parents /\ st[s].results = store[s].results
      BY <1>4, <3>1 DEF SessionRecord
    <3> QED
      BY <1>4, <3>2 DEF SameLinks, Completed
  <2> HIDE DEF st
  <2>4. Step(t, x) /\ store' = st /\ Elsewhere(t)
    BY <2>1, SavedElsewhere
  <2>5. x.pc \notin Holding \cup {"form"} /\ (x.pc \in {"activate", "launch"} => x.session = s)
    BY <1>2, <2>1 DEF Holding
  <2>6. AllCompleted(s)
    BY <1>4 DEF SessionCanBeRun, AllCompleted
  <2>7. \A r \in BeingRun' : r \in BeingRun \/ (r \in DOMAIN store /\ AllCompleted(r))
    BY <1>1, <1>4, <2>4, <2>5, <2>6, RunKept
  <2> QED
    BY <1>1, <2>3, <2>4, <2>5, <2>7, LinkStep
<1> QED
  BY <1>3, <1>4

LEMMA SetActiveGraph ==
  ASSUME IInv, GInv, Acyclic(store), NEW t \in Threads, SetActive(t)
  PROVE  GInv'
<1> DEFINE x == [th[t] EXCEPT !.pc = "launch"]
<1>1. th[t] \in [pc : Starting, session : SessionIds] /\ th[t].pc = "activate"
  BY TaskNamed DEF SetActive, IInv, Tasks, Starting
<1>2. x.pc = "launch" /\ x.session = th[t].session
  BY <1>1
<1>3. Become(t, x) /\ UNCHANGED <<store, added, server>> /\ disturbed \subseteq disturbed'
  BY DEF SetActive
<1> HIDE DEF x
<1> QED
  BY <1>1, <1>2, <1>3, MovesGraph DEF Holding

LEMMA LaunchGraph ==
  ASSUME IInv, GInv, Acyclic(store), NEW t \in Threads, Launch(t) \/ LaunchFails(t)
  PROVE  GInv'
<1>1. th[t].pc = "launch" /\ Become(t, Returned(t)) /\ UNCHANGED <<store, added, disturbed>>
  BY DEF Launch, LaunchFails
<1>2. Returned(t).pc \in {"idle", "clear"}
  BY <1>1, ReturnedTask DEF Starting
<1>3. CASE LaunchFails(t)
  BY <1>1, <1>2, <1>3, MovesGraph DEF Holding, LaunchFails
<1>4. CASE Launch(t)
  <2>1. Step(t, Returned(t)) /\ Elsewhere(t)
    BY <1>1, MovedElsewhere
  <2>2. server'.session = th[t].session
    BY <1>4 DEF Launch, Running
  <2>3. \A s \in BeingRun' : s \in BeingRun
    BY <1>1, <1>2, <2>1, <2>2 DEF BeingRun, Step
  <2> QED
    BY <1>1, <1>2, <2>1, <2>3, SameStore, LinkStep DEF Holding
<1> QED
  BY <1>3, <1>4

LEMMA ReceiveGraph ==
  ASSUME IInv, GInv, Acyclic(store), NEW f, Receive(f)
  PROVE  GInv'
<1>1. UNCHANGED <<added, server, disturbed>> /\ Udp \in Threads /\ Udp \notin Handlers
  BY Bounds DEF Receive
<1>2. CASE UNCHANGED <<store, th>>
  BY <1>1, <1>2, NobodyMovesGraph
<1>3. CASE SessionIsRunning /\ active \in DOMAIN store
  <2> DEFINE st == [store EXCEPT ![active].results = f]
             x == [pc |-> "stop", session |-> active, copy |-> st, stale |-> FALSE]
  <2>1. Save(Udp, st, x)
    BY <1>3 DEF Receive
  <2>2. Weekend(store, added, Len(files))
    BY DEF IInv, Fits
  <2>3. f # 0
    BY DEF Receive, IInv, Fits
  <2>4. SameLinks(st, store) /\ \A c \in DOMAIN store : Completed(store, c) => Completed(st, c)
    <3>1. \A c \in DOMAIN store : SessionRecord(store[c])
      BY <2>2 DEF Weekend
    <3>2. DOMAIN st = DOMAIN store /\ (\A c \in DOMAIN store \ {active} : st[c] = store[c])
          /\ st[active].parents = store[active].parents /\ st[active].results = f
      BY <1>3, <3>1 DEF SessionRecord
    <3> QED
      BY <1>3, <2>3, <3>2 DEF SameLinks, Completed
  <2>5. x.pc = "stop" /\ x.copy = st
    OBVIOUS
  <2> HIDE DEF st, x
  <2>6. Step(Udp, x) /\ store' = st /\ Elsewhere(Udp)
    BY <1>1, <2>1, SavedElsewhere
  <2>7. \A s \in BeingRun' : s \in BeingRun
    BY <1>1, <2>5, <2>6, StillRun
  <2>8. Links(st, added)
    BY <2>4, LinksAlike DEF GInv, Linked
  <2> QED
    BY <1>1, <2>4, <2>5, <2>6, <2>7, <2>8, GraphStep
<1> QED
  BY <1>2, <1>3 DEF Receive

LEMMA StopAfterSessionGraph ==
  ASSUME IInv, GInv, Acyclic(store), StopAfterSession
  PROVE  GInv'
<1> DEFINE next == NextSession(th[Udp].copy, th[Udp].session)
           x == IF next = None THEN NoTask ELSE [pc |-> "begin", session |-> next]
<1>1. Become(Udp, x) /\ UNCHANGED <<store, added, disturbed>> /\ server' = Stopped /\ Udp \in Threads
  BY Bounds DEF StopAfterSession
<1>2. x.pc \in {"idle", "begin"}
  BY DEF NoTask
<1> HIDE DEF x
<1> QED
  BY <1>1, <1>2, MovesGraph DEF Holding

LEMMA CallStartGraph ==
  ASSUME IInv, GInv, Acyclic(store), NEW h \in Handlers, NEW s, CallStart(h, s)
  PROVE  GInv'
<1> DEFINE x == [pc |-> "begin", session |-> s]
<1>1. x.pc = "begin" /\ h \in Threads /\ Become(h, x)
  BY Bounds DEF CallStart
<1> HIDE DEF x
<1> QED
  BY <1>1, MovesGraph DEF CallStart, Holding

LEMMA FireGraph ==
  ASSUME IInv, GInv, Acyclic(store), NEW s, Fire(s)
  PROVE  GInv'
<1> DEFINE x == [pc |-> "begin", session |-> s]
<1>1. x.pc = "begin" /\ Timer \in Threads /\ Become(Timer, x)
  BY Bounds DEF Fire
<1> HIDE DEF x
<1> QED
  BY <1>1, MovesGraph DEF Fire, Holding

\* A handler goes on with a form or a copy; nothing is saved.
LEMMA LoadsGraph ==
  ASSUME IInv, GInv, Acyclic(store), NEW h \in Handlers, NEW x, Become(h, x), UNCHANGED <<store, added>>,
         x.pc \in Holding \cup {"form"},
         x.pc \in Holding => Links(x.copy, added),
         x.pc = "form" => x.offered \subseteq 0 .. added /\ x.offered = Offered(store, x.session),
         x.pc \in Holding /\ ~x.stale =>
            /\ SameLinks(x.copy, store)
            /\ "reopened" \notin disturbed' =>
                 \A s \in DOMAIN store : x.copy[s].results = store[s].results,
         disturbed \subseteq disturbed', server' \in {server, Stopped, Other}
  PROVE  GInv'
<1>1. h \in Threads /\ x.pc \notin {"activate", "launch"}
  BY Bounds DEF Holding
<1>2. Step(h, x) /\ Elsewhere(h)
  BY <1>1, MovedElsewhere
<1>3. \A s \in BeingRun' : s \in BeingRun
  BY <1>1, <1>2, StillRun
<1>4. Links(store', added)
  BY DEF GInv, Linked
<1> QED
  BY <1>1, <1>2, <1>3, <1>4, SameStore, GraphStep

LEMMA CallCancelGraph ==
  ASSUME IInv, GInv, Acyclic(store), NEW h \in Handlers, NEW s, CallCancel(h, s)
  PROVE  GInv'
<1> DEFINE e == [store EXCEPT ![s].started = FALSE, ![s].results = 0]
<1>1. PICK then \in {"cancelled", "begin"} :
        Become(h, [pc |-> "stop", session |-> s, then |-> then, stale |-> FALSE, copy |-> e])
  BY DEF CallCancel
<1> DEFINE x == [pc |-> "stop", session |-> s, then |-> then, stale |-> FALSE, copy |-> e]
<1>2. s \in DOMAIN store /\ \A c \in DOMAIN store : SessionRecord(store[c])
  BY DEF CallCancel, IInv, Fits, Weekend
<1>3. /\ DOMAIN e = DOMAIN store /\ e[s].results = 0 /\ e[s].parents = store[s].parents
      /\ \A c \in DOMAIN store \ {s} : e[c] = store[c]
  BY <1>2 DEF SessionRecord
<1>4. x.pc = "stop" /\ x.copy = e
  OBVIOUS
<1>5. Become(h, x)
  BY <1>1
<1> HIDE DEF e, x
<1>6. SameLinks(e, store) /\ Links(e, added)
  BY <1>2, <1>3, LinksAlike DEF SameLinks, GInv, Linked
<1>7. "reopened" \notin disturbed' => \A c \in DOMAIN store : e[c].results = store[c].results
  BY <1>2, <1>3 DEF CallCancel, Completed
<1> QED
  BY <1>4, <1>5, <1>6, <1>7, LoadsGraph DEF CallCancel, Holding

LEMMA StopByGraph ==
  ASSUME IInv, GInv, Acyclic(store), NEW h \in Handlers, StopBy(h)
  PROVE  GInv'
<1> DEFINE x == [th[h] EXCEPT !.pc = "save"]
<1>1. h \in Threads /\ th[h].pc \in Holding /\ Task(h, th[h])
  BY Bounds DEF StopBy, Holding, IInv, Tasks
<1>2. th[h] \in [pc : Holding, session : SessionIds, then : {"cancelled", "begin"},
                 stale : BOOLEAN, copy : {th[h].copy}]
  BY <1>1, TaskNamed
<1>3. x.pc = "save" /\ x.copy = th[h].copy /\ x.stale = th[h].stale /\ Become(h, x)
  BY <1>2 DEF StopBy
<1> HIDE DEF x
<1>4. Links(x.copy, added)
      /\ (~x.stale => /\ SameLinks(x.copy, store)
                      /\ "reopened" \notin disturbed => \A s \in DOMAIN store : x.copy[s].results = store[s].results)
  BY <1>1, <1>3 DEF GInv, Linked, Fresh
<1> QED
  BY <1>3, <1>4, LoadsGraph DEF StopBy, Holding

LEMMA OfferedExist ==
  ASSUME IInv, NEW s
  PROVE  Offered(store, s) \subseteq 0 .. added /\ Offered(store, s) \subseteq {Base} \cup DOMAIN store
<1>1. added \in Nat /\ DOMAIN store \subseteq 1 .. added
  BY StoredAre
<1> QED
  BY <1>1 DEF Offered, Base

LEMMA OpenFormGraph ==
  ASSUME IInv, GInv, Acyclic(store), NEW h \in Handlers, NEW s, OpenForm(h, s)
  PROVE  GInv'
<1> DEFINE x == [pc |-> "form", session |-> s, offered |-> Offered(store, s), stale |-> FALSE]
<1>1. x.pc = "form" /\ x.offered = Offered(store, x.session) /\ Become(h, x)
  BY DEF OpenForm
<1> HIDE DEF x
<1>2. x.offered \subseteq 0 .. added
  BY <1>1, OfferedExist
<1> QED
  BY <1>1, <1>2, LoadsGraph DEF OpenForm, Holding

\* A thread saves a weekend with the same links and goes on with x.
LEMMA SavesGraph ==
  ASSUME IInv, GInv, Acyclic(store), NEW t \in Threads, NEW st, NEW x, Save(t, st, x), added' = added,
         SameLinks(st, store), \A s \in DOMAIN store : Completed(store, s) => Completed(st, s),
         x.pc \in {"idle", "begin"}, disturbed \subseteq disturbed', server' = server
  PROVE  GInv'
<1>1. Step(t, x) /\ store' = st /\ Elsewhere(t)
  BY SavedElsewhere
<1>2. \A s \in BeingRun' : s \in BeingRun
  BY <1>1, StillRun
<1> QED
  BY <1>1, <1>2, LinkStep DEF Holding

LEMMA SaveCancelledGraph ==
  ASSUME IInv, GInv, Acyclic(store), NEW h \in Handlers, SaveCancelled(h)
  PROVE  GInv'
<1> DEFINE st == th[h].copy
           x == IF th[h].then = "begin" THEN [pc |-> "begin", session |-> th[h].session] ELSE NoTask
<1>1. h \in Threads /\ th[h].pc \in Holding
  BY Bounds DEF SaveCancelled, Holding
<1>2. x.pc \in {"idle", "begin"}
  BY DEF NoTask
<1>3. Save(h, st, x) /\ added' = added /\ server' = server /\ disturbed \subseteq disturbed'
      /\ (th[h].stale => "overtaken" \in disturbed')
  BY DEF SaveCancelled
<1>4. /\ Links(st, added)
      /\ ~th[h].stale => /\ SameLinks(st, store)
                         /\ "reopened" \notin disturbed => \A s \in DOMAIN store : st[s].results = store[s].results
  BY <1>1 DEF GInv, Linked, Fresh
<1> HIDE DEF st, x
<1>5. Step(h, x) /\ store' = st /\ Elsewhere(h)
  BY <1>1, <1>3, SavedElsewhere
<1>6. \A s \in BeingRun' : s \in BeingRun
  BY <1>1, <1>2, <1>3, <1>5, StillRun
<1>7. disturbed' \cap {"edited", "overtaken", "reopened"} = {} =>
         \A s \in DOMAIN store : Completed(store, s) => Completed(store', s)
  BY <1>3, <1>4, <1>5 DEF Completed
<1> QED
  BY <1>1, <1>2, <1>3, <1>4, <1>5, <1>6, <1>7, GraphStep DEF Holding

LEMMA CallImportGraph ==
  ASSUME IInv, GInv, Acyclic(store), NEW h \in Handlers, NEW s, CallImport(h, s)
  PROVE  GInv'
<1> DEFINE st == [store EXCEPT ![s].results = Len(files')]
<1>1. s \in DOMAIN store /\ Save(h, st, NoTask) /\ h \in Threads
      /\ UNCHANGED <<added, server, disturbed>>
  BY Bounds DEF CallImport
<1>2. Len(files') # 0
  BY DEF CallImport, IInv, Fits
<1>3. \A c \in DOMAIN store : SessionRecord(store[c])
  BY DEF IInv, Fits, Weekend
<1>4. DOMAIN st = DOMAIN store /\ (\A c \in DOMAIN store \ {s} : st[c] = store[c])
      /\ st[s].parents = store[s].parents /\ st[s].results = Len(files')
  BY <1>1, <1>3 DEF SessionRecord
<1> HIDE DEF st
<1>5. SameLinks(st, store) /\ \A c \in DOMAIN store : Completed(store, c) => Completed(st, c)
  BY <1>1, <1>2, <1>4 DEF SameLinks, Completed
<1> QED
  BY <1>1, <1>5, IdlePc, SavesGraph

LEMMA ScheduleGraph ==
  ASSUME IInv, GInv, Acyclic(store), NEW t \in Threads, NEW s \in DOMAIN store, NEW st, NEW b, NEW a,
         st = WithDate(store, s, b) \/ st = WithSchedule(store, s, b, a),
         Save(t, st, NoTask), added' = added, server' = server, disturbed \subseteq disturbed'
  PROVE  GInv'
<1>1. \A c \in DOMAIN store : SessionRecord(store[c])
  BY DEF IInv, Fits, Weekend
<1>2. DOMAIN st = DOMAIN store /\ (\A c \in DOMAIN store \ {s} : st[c] = store[c])
      /\ st[s].parents = store[s].parents /\ st[s].results = store[s].results
  BY <1>1 DEF SessionRecord, WithDate, WithSchedule
<1>3. SameLinks(st, store) /\ \A c \in DOMAIN store : Completed(store, c) => Completed(st, c)
  BY <1>2 DEF SameLinks, Completed
<1> QED
  BY <1>3, IdlePc, SavesGraph

LEMMA CallScheduleGraph ==
  ASSUME IInv, GInv, Acyclic(store), NEW h \in Handlers, NEW s,
         CallSchedule(h, s) \/ CallStartAfterParent(h, s) \/ CallDeSchedule(h, s)
  PROVE  GInv'
<1>1. PICK b \in BOOLEAN, a \in BOOLEAN : Save(h, Scheduled(s, b, a), NoTask)
  BY DEF CallSchedule, CallStartAfterParent, CallDeSchedule
<1>2. Scheduled(s, b, a) = WithSchedule(store, s, b, a)
  BY DEF Scheduled, WithSchedule
<1>3. s \in DOMAIN store /\ UNCHANGED <<added, server>> /\ disturbed \subseteq disturbed' /\ h \in Threads
  BY Bounds DEF CallSchedule, CallStartAfterParent, CallDeSchedule
<1> QED
  BY <1>1, <1>2, <1>3, ScheduleGraph

LEMMA ClearScheduleGraph ==
  ASSUME IInv, GInv, Acyclic(store), ClearSchedule
  PROVE  GInv'
<1> DEFINE s == th[Timer].session
<1>1. Timer \in Threads /\ UNCHANGED <<added, server>>
  BY Bounds DEF ClearSchedule
<1>2. CASE s \notin DOMAIN store
  <2>1. Become(Timer, NoTask) /\ UNCHANGED <<store, disturbed>>
    BY <1>2 DEF ClearSchedule
  <2> QED
    BY <1>1, <2>1, IdlePc, MovesGraph
<1>3. CASE s \in DOMAIN store
  <2>1. Save(Timer, WithDate(store, s, FALSE), NoTask) /\ disturbed \subseteq disturbed'
    BY <1>3 DEF ClearSchedule, WithDate
  <2> QED
    BY <1>1, <1>3, <2>1, ScheduleGraph
<1> QED
  BY <1>2, <1>3

LEMMA SeqWider ==
  ASSUME NEW S, NEW T, NEW q \in Seq(S), \A i \in 1 .. Len(q) : q[i] \in T
  PROVE  q \in Seq(T)
OBVIOUS

LEMMA NumbersWider ==
  ASSUME NEW n \in Nat, NEW m \in Nat, n <= m, NEW q \in Seq(0 .. n)
  PROVE  q \in Seq(0 .. m)
<1>1. \A i \in 1 .. Len(q) : q[i] \in 0 .. n
  OBVIOUS
<1>2. \A i \in 1 .. Len(q) : q[i] \in 0 .. m
  BY <1>1
<1> QED
  BY <1>2, SeqWider

\* A form sends a list of some of what it offers.
LEMMA FormSends ==
  ASSUME IInv, Linked, NEW h \in Handlers, th[h].pc = "form", NEW ps \in ParentsFrom(th[h].offered)
  PROVE  /\ ps \in Seq(0 .. added) /\ ToSet(ps) # {} /\ IsInjective(ps)
         /\ ToSet(ps) \subseteq th[h].offered /\ ToSet(ps) \subseteq 0 .. added
<1>1. PICK P \in SUBSET th[h].offered : P # {} /\ ps = Listed(P)
  BY DEF ParentsFrom
<1>2. P \in SUBSET (0 .. added) /\ added \in Nat
  BY StoredAre DEF Linked
<1>3. ps \in Seq(P) /\ ToSet(ps) = P /\ IsInjective(ps)
  BY <1>1, <1>2, ListedNumbers
<1>4. \A i \in 1 .. Len(ps) : ps[i] \in 0 .. added
  <2>1. \A i \in 1 .. Len(ps) : ps[i] \in P
    BY <1>3
  <2> QED
    BY <1>2, <2>1
<1>5. ps \in Seq(0 .. added)
  BY <1>3, <1>4, SeqWider
<1> QED
  BY <1>1, <1>2, <1>3, <1>5

\* The parents of a session are edited.
LEMMA EditGraph ==
  ASSUME IInv, GInv, Acyclic(store), NEW h \in Handlers, th[h].pc = "form",
         NEW ps \in ParentsFrom(th[h].offered), NEW s \in DOMAIN store, s = th[h].session,
         NEW e, e = [store EXCEPT ![s].parents = ps], Save(h, e, NoTask), UNCHANGED <<added, server>>,
         disturbed \subseteq disturbed', th[h].stale => "outdatedForm" \in disturbed',
         ~NothingUnderWay(h) => "edited" \in disturbed'
  PROVE  GInv'
<1>1. h \in Threads /\ Step(h, NoTask) /\ store' = e /\ Elsewhere(h)
  BY Bounds, SavedElsewhere
<1>2. /\ ps \in Seq(0 .. added) /\ ToSet(ps) # {} /\ IsInjective(ps)
      /\ ToSet(ps) \subseteq th[h].offered
  BY FormSends DEF GInv
<1>3. added \in Nat /\ Base \notin DOMAIN store /\ \A c \in DOMAIN store : SessionRecord(store[c])
  BY StoredAre DEF IInv, Fits, Weekend
<1>4. DOMAIN e = DOMAIN store /\ e[s].parents = ps /\ \A c \in DOMAIN store \ {s} : e[c] = store[c]
  BY <1>3 DEF SessionRecord
<1>5. Parents(e, s) = ToSet(ps) /\ \A c \in DOMAIN store \ {s} : Parents(e, c) = Parents(store, c)
  BY <1>4 DEF Parents
<1>6. Links(e, added)
  BY <1>2, <1>4 DEF GInv, Linked, Links
<1>7. BeingRun' \subseteq BeingRun /\ BeingRun' \subseteq 1 .. added
  BY <1>1, IdlePc, RunKept DEF GInv, Linked
<1>8. Linked' /\ Fresh'
  <2>1. added' \in Nat /\ added <= added' /\ added' = added /\ Links(store', added') /\ BeingRun' \subseteq 1 .. added'
    BY <1>1, <1>3, <1>6, <1>7
  <2> QED
    BY <1>1, <2>1, IdlePc, LinkedFresh DEF GInv
<1>9. Rooted'
  <2> SUFFICES ASSUME disturbed' \cap {"outdatedForm", "overtaken"} = {}
               PROVE  /\ Acyclic(e)
                      /\ "linkedTwice" \notin disturbed' =>
                           \A c \in DOMAIN e :
                             /\ Parents(e, c) # {} /\ Parents(e, c) \subseteq DOMAIN e \cup {Base}
                             /\ IsInjective(e[c].parents)
    BY <1>1 DEF Rooted
  <2>1. disturbed \cap {"outdatedForm", "overtaken"} = {} /\ th[h].offered = Offered(store, s)
    BY DEF GInv, Fresh
  <2>2. Parents(e, s) \subseteq Offered(store, s)
    BY <1>2, <1>5, <2>1
  <2>3. Acyclic(e)
    BY <1>3, <1>4, <1>5, <2>2, EditKeepsOrder
  <2>4. Offered(store, s) \subseteq DOMAIN store \cup {Base}
    BY DEF Offered
  <2> QED
    BY <1>2, <1>4, <1>5, <2>1, <2>2, <2>3, <2>4 DEF GInv, Rooted
<1>10. ParentsDone'
  <2> SUFFICES ASSUME "edited" \notin disturbed'
               PROVE  BeingRun' = {}
    BY DEF ParentsDone
  <2>1. server'.on # "session" /\ \A o \in Threads \ {h} : th[o].pc \notin {"activate", "launch"}
    BY DEF NothingUnderWay
  <2>2. \A o \in Threads : th'[o].pc \notin {"activate", "launch"}
    BY <1>1, <2>1, IdlePc DEF Step
  <2> QED
    BY <2>1, <2>2 DEF BeingRun
<1> QED
  BY <1>8, <1>9, <1>10 DEF GInv

\* A session is added.
LEMMA AddGraph ==
  ASSUME IInv, GInv, Acyclic(store), NEW h \in Handlers, th[h].pc = "form", th[h].session = None,
         NEW ps \in ParentsFrom(th[h].offered), NEW s, s = added + 1, added' = s,
         NEW e, DOMAIN e = DOMAIN store \cup {s}, e[s].parents = ps, \A c \in DOMAIN store : e[c] = store[c],
         Save(h, e, NoTask), UNCHANGED server,
         disturbed \subseteq disturbed', th[h].stale => "outdatedForm" \in disturbed'
  PROVE  GInv'
<1>1. h \in Threads /\ Step(h, NoTask) /\ store' = e /\ Elsewhere(h)
  BY Bounds, SavedElsewhere
<1>2. /\ ps \in Seq(0 .. added) /\ ToSet(ps) # {} /\ IsInjective(ps)
      /\ ToSet(ps) \subseteq th[h].offered /\ ToSet(ps) \subseteq 0 .. added
  BY FormSends DEF GInv
<1>3. added \in Nat /\ DOMAIN store \subseteq 1 .. added /\ s \notin 0 .. added /\ s \notin DOMAIN store
      /\ Base \notin DOMAIN store
  BY StoredAre
<1>4. DOMAIN e = DOMAIN store \cup {s} /\ e[s].parents = ps /\ \A c \in DOMAIN store : e[c] = store[c]
  OBVIOUS
<1>5. Parents(e, s) = ToSet(ps) /\ \A c \in DOMAIN store : Parents(e, c) = Parents(store, c)
  BY <1>4 DEF Parents
<1>6. \A c \in DOMAIN store : store[c].parents \in Seq(0 .. added) /\ s \notin Parents(store, c)
  BY <1>3 DEF GInv, Linked, Links, Parents, ToSet
<1>7. Links(e, added')
  <2> SUFFICES ASSUME NEW c \in DOMAIN e
               PROVE  e[c].parents \in Seq(0 .. added')
    BY DEF Links
  <2>1. e[c].parents \in Seq(0 .. added)
    BY <1>2, <1>4, <1>6
  <2>2. added' \in Nat /\ added <= added'
    BY <1>3
  <2> QED
    BY <1>3, <2>1, <2>2, NumbersWider
<1>8. BeingRun' \subseteq BeingRun /\ BeingRun' \subseteq 1 .. added
  BY <1>1, IdlePc, RunKept DEF GInv, Linked
<1>9. Linked' /\ Fresh'
  <2>1. added' \in Nat /\ added <= added' /\ Links(store', added') /\ BeingRun' \subseteq 1 .. added'
    BY <1>1, <1>3, <1>7, <1>8
  <2> QED
    BY <1>1, <2>1, IdlePc, LinkedFresh DEF GInv
<1>10. s \notin Parents(e, s)
  BY <1>2, <1>3, <1>5
<1>11. Acyclic(e) /\ \A x \in DOMAIN store : Ancestors(e)[x] \subseteq Ancestors(store)[x] /\ s \notin Ancestors(store)[x]
  <2>1. With(store, s, e)
    BY <1>3, <1>4, <1>5, <1>6 DEF With
  <2> QED
    BY <1>10, <2>1, AddKeepsOrder
<1>12. Rooted'
  <2> SUFFICES ASSUME disturbed' \cap {"outdatedForm", "overtaken"} = {}
               PROVE  /\ Acyclic(e)
                      /\ "linkedTwice" \notin disturbed' =>
                           \A c \in DOMAIN e :
                             /\ Parents(e, c) # {} /\ Parents(e, c) \subseteq DOMAIN e \cup {Base}
                             /\ IsInjective(e[c].parents)
    BY <1>1 DEF Rooted
  <2>1. disturbed \cap {"outdatedForm", "overtaken"} = {} /\ th[h].offered = Offered(store, None)
    BY DEF GInv, Fresh
  <2>2. Parents(e, s) \subseteq DOMAIN store \cup {Base}
    BY <1>2, <1>5, <2>1 DEF Offered
  <2>3. "linkedTwice" \notin disturbed' =>
          \A c \in DOMAIN store : /\ Parents(store, c) # {} /\ Parents(store, c) \subseteq DOMAIN store \cup {Base}
                                   /\ IsInjective(store[c].parents)
    BY <2>1 DEF GInv, Rooted
  <2> QED
    BY <1>2, <1>4, <1>5, <1>11, <2>2, <2>3
<1>13. ParentsDone'
  <2> SUFFICES ASSUME disturbed' \cap {"edited", "overtaken", "reopened"} = {},
                      NEW r \in BeingRun', r \in DOMAIN e, NEW a \in Ancestors(e)[r], a \in DOMAIN e
               PROVE  Completed(e, a)
    BY <1>1 DEF ParentsDone, AllCompleted
  <2>1. r \in BeingRun /\ r \in DOMAIN store
    BY <1>3, <1>4, <1>8
  <2>2. a \in Ancestors(store)[r] /\ a \in DOMAIN store
    BY <1>4, <1>11, <2>1
  <2>3. Completed(store, a)
    BY <2>1, <2>2 DEF GInv, ParentsDone, AllCompleted
  <2> QED
    BY <1>4, <2>2, <2>3 DEF Completed
<1> QED
  BY <1>9, <1>12, <1>13 DEF GInv

LEMMA SubmitFormGraph ==
  ASSUME IInv, GInv, Acyclic(store), NEW h \in Handlers, SubmitForm(h)
  PROVE  GInv'
<1>1. PICK ps \in ParentsFrom(th[h].offered), s \in SessionIds :
        /\ \/ /\ s = th[h].session /\ s \in DOMAIN store /\ added' = added
              /\ Save(h, [store EXCEPT ![s].parents = ps], NoTask)
           \/ /\ th[h].session = None /\ s = added + 1 /\ added' = s
              /\ Save(h, [c \in DOMAIN store \cup {s} |-> IF c = s THEN New(ps) ELSE store[c]], NoTask)
        /\ disturbed' = disturbed
               \cup (IF th[h].stale THEN {"outdatedForm"} ELSE {})
               \cup (IF s \in DOMAIN store /\ ~NothingUnderWay(h) THEN {"edited"} ELSE {})
  BY Zenon DEF SubmitForm
<1>2. th[h].pc = "form" /\ UNCHANGED server /\ disturbed \subseteq disturbed'
      /\ (th[h].stale => "outdatedForm" \in disturbed')
      /\ (s \in DOMAIN store /\ ~NothingUnderWay(h) => "edited" \in disturbed')
  <2> HIDE DEF NothingUnderWay
  <2> QED
    BY <1>1 DEF SubmitForm
<1>3. CASE /\ s = th[h].session /\ s \in DOMAIN store /\ added' = added
           /\ Save(h, [store EXCEPT ![s].parents = ps], NoTask)
  BY <1>2, <1>3, EditGraph
<1>4. CASE /\ th[h].session = None /\ s = added + 1 /\ added' = s
           /\ Save(h, [c \in DOMAIN store \cup {s} |-> IF c = s THEN New(ps) ELSE store[c]], NoTask)
  <2> DEFINE e == [c \in DOMAIN store \cup {s} |-> IF c = s THEN New(ps) ELSE store[c]]
  <2>1. s \notin DOMAIN store
    BY <1>4, StoredAre
  <2>2. DOMAIN e = DOMAIN store \cup {s} /\ e[s].parents = ps /\ \A c \in DOMAIN store : e[c] = store[c]
    BY <2>1 DEF New
  <2>3. Save(h, e, NoTask)
    BY <1>4
  <2> HIDE DEF e
  <2> QED
    BY <1>2, <1>4, <2>2, <2>3, AddGraph
<1> QED
  BY <1>1, <1>3, <1>4

LEMMA CallDeleteGraph ==
  ASSUME IInv, GInv, Acyclic(store), NEW h \in Handlers, NEW d, CallDelete(h, d)
  PROVE  /\ GInv' /\ Without(store, d, store')
<1> DEFINE e == DelSession(store, d)
<1>1. d \in DOMAIN store /\ Save(h, e, NoTask) /\ UNCHANGED <<added, server>> /\ h \in Threads
  BY Bounds DEF CallDelete
<1>2. added \in Nat /\ Links(store, added) /\ \A s \in DOMAIN store : "parents" \in DOMAIN store[s]
  BY StoredAre DEF GInv, Linked
<1>3. /\ Without(store, d, e) /\ Links(e, added)
      /\ \A c \in DOMAIN store \ {d} : IsInjective(store[c].parents) /\ d \notin Heir(store, d, c)
           => d \notin Parents(e, c)
  BY <1>1, <1>2, SessionUnlinked
<1>4. DOMAIN e = DOMAIN store \ {d} /\ \A c \in DOMAIN e : e[c].results = store[c].results
  <2>1. Weekend(store, added, Len(files))
    BY DEF IInv, Fits
  <2> QED
    BY <1>1, <2>1, SessionDeleted
<1> HIDE DEF e
<1>5. Step(h, NoTask) /\ store' = e /\ Elsewhere(h)
  BY <1>1, SavedElsewhere
<1>6. BeingRun' \subseteq BeingRun /\ BeingRun' \subseteq 1 .. added
  BY <1>1, <1>5, IdlePc, RunKept DEF GInv, Linked
<1>7. disturbed \subseteq disturbed'
      /\ ("linkedTwice" \notin disturbed' => \A c \in DOMAIN e : IsInjective(e[c].parents))
  BY <1>5 DEF CallDelete
<1>8. Linked' /\ Fresh'
  <2>1. added' \in Nat /\ added <= added' /\ Links(store', added') /\ BeingRun' \subseteq 1 .. added'
    BY <1>1, <1>2, <1>3, <1>5, <1>6
  <2> QED
    BY <1>1, <1>5, <1>7, <2>1, IdlePc, LinkedFresh DEF GInv
<1>9. Acyclic(e)
  BY <1>1, <1>3, DeleteKeepsOrder
<1>10. Rooted'
  <2> SUFFICES ASSUME disturbed' \cap {"outdatedForm", "overtaken"} = {}, "linkedTwice" \notin disturbed',
                      NEW c \in DOMAIN e
               PROVE  Parents(e, c) # {} /\ Parents(e, c) \subseteq DOMAIN e \cup {Base}
    BY <1>5, <1>7, <1>9 DEF Rooted
  <2>1. \A x \in DOMAIN store : /\ Parents(store, x) # {} /\ Parents(store, x) \subseteq DOMAIN store \cup {Base}
                                /\ IsInjective(store[x].parents)
    BY <1>7 DEF GInv, Rooted
  <2>2. d \notin Parents(store, d)
    BY <1>1, LeastClosed, NotItsOwnAncestor
  <2>3. Heir(store, d, c) \subseteq Parents(store, d)
    BY DEF Heir
  <2>4. d \notin Parents(e, c)
    BY <1>3, <1>4, <2>1, <2>2, <2>3
  <2>5. CASE d \in Parents(store, c)
    <3>1. Parents(store, d) \subseteq Heir(store, d, c)
      BY <1>1, <1>4, <2>1, <2>5, ChildInherits
    <3>2. /\ (Parents(store, c) \cup Heir(store, d, c)) \ {d} \subseteq Parents(e, c)
          /\ Parents(e, c) \subseteq Parents(store, c) \cup Heir(store, d, c)
      BY <1>3, <2>5 DEF Without
    <3>3. c \in DOMAIN store
      BY <1>4
    <3> QED
      BY <1>1, <1>4, <2>1, <2>2, <2>3, <2>4, <3>1, <3>2, <3>3
  <2>6. CASE d \notin Parents(store, c)
    <3>1. Parents(e, c) = Parents(store, c) /\ c \in DOMAIN store
      BY <1>3, <1>4, <2>6 DEF Without
    <3> QED
      BY <1>4, <2>1, <2>4, <3>1
  <2> QED
    BY <2>5, <2>6
<1>11. ParentsDone'
  <2> SUFFICES ASSUME disturbed' \cap {"edited", "overtaken", "reopened"} = {},
                      NEW r \in BeingRun', r \in DOMAIN e, NEW a \in Ancestors(e)[r], a \in DOMAIN e
               PROVE  Completed(e, a)
    BY <1>5 DEF ParentsDone, AllCompleted
  <2>1. r \in BeingRun /\ r \in DOMAIN store /\ a \in DOMAIN store
    BY <1>4, <1>6
  <2>2. a \in Ancestors(store)[r]
    BY <1>1, <1>3, DeleteKeepsAncestors
  <2>3. Completed(store, a)
    BY <1>7, <2>1, <2>2 DEF GInv, ParentsDone, AllCompleted
  <2> QED
    BY <1>4, <2>3 DEF Completed
<1> QED
  BY <1>3, <1>5, <1>8, <1>10, <1>11 DEF GInv

\* The sessions to begin with have parents added before them.
LEMMA InitGraph ==
  ASSUME WeekendInit
  PROVE  GInv
<1>1. PICK g \in Graphs : added = Len(g) /\ store = [s \in 1 .. Len(g) |-> New(g[s])]
  BY DEF WeekendInit
<1>2. g \in Seq(Seq(0 .. MaxSessions)) /\ Len(g) \in Nat
      /\ \A s \in 1 .. Len(g) : /\ g[s] # <<>> /\ ToSet(g[s]) \subseteq 0 .. (s - 1) /\ IsInjective(g[s])
                                /\ g[s] \in Seq(0 .. MaxSessions)
  BY GraphAssumption
<1>3. DOMAIN store = 1 .. Len(g) /\ \A s \in DOMAIN store : store[s].parents = g[s]
  BY <1>1 DEF New
<1>4. \A s \in DOMAIN store : /\ Parents(store, s) # {} /\ Parents(store, s) \subseteq 0 .. (s - 1)
                              /\ IsInjective(store[s].parents)
  <2> SUFFICES ASSUME NEW s \in DOMAIN store
               PROVE  ToSet(g[s]) # {}
    BY <1>2, <1>3 DEF Parents
  <2>1. g[s] \in Seq(0 .. MaxSessions) /\ g[s] # <<>>
    BY <1>2, <1>3
  <2>2. 1 \in DOMAIN g[s]
    BY <2>1
  <2> QED
    BY <2>2 DEF ToSet
<1>5. Acyclic(store)
  <2> SUFFICES ASSUME NEW X \in SUBSET DOMAIN store, X # {}
               PROVE  \E s \in X : Parents(store, s) \cap X = {}
    BY DEF Acyclic
  <2>1. X \in SUBSET Nat
    BY <1>2, <1>3
  <2>2. PICK m \in X : \A n \in X : <<n, m>> \notin Less
    BY <2>1, LessIsWellFounded, WFMin
  <2>3. \A n \in X : ~(n < m)
    BY <2>1, <2>2 DEF Less
  <2>4. Parents(store, m) \subseteq 0 .. (m - 1)
    BY <1>4
  <2> QED
    BY <2>1, <2>3, <2>4
<1>6. \A t \in Threads : th[t] = NoTask /\ server = Stopped
  BY DEF WeekendInit
<1>7. BeingRun = {}
  BY <1>6, IdlePc DEF WeekendInit, BeingRun, Stopped
<1>8. Links(store, added)
  <2> SUFFICES ASSUME NEW s \in DOMAIN store
               PROVE  g[s] \in Seq(0 .. added)
    BY <1>3 DEF Links
  <2>1. g[s] \in Seq(0 .. MaxSessions) /\ Len(g[s]) \in Nat
    BY <1>2, <1>3
  <2>2. \A i \in 1 .. Len(g[s]) : g[s][i] \in ToSet(g[s])
    BY <2>1 DEF ToSet
  <2>3. s \in 1 .. added /\ added \in Nat
    BY <1>1, <1>2, <1>3
  <2>4. \A x \in 0 .. (s - 1) : x \in 0 .. added
    BY <2>3
  <2>5. \A i \in 1 .. Len(g[s]) : g[s][i] \in 0 .. added
    BY <1>2, <1>3, <2>2, <2>4
  <2> QED
    BY <2>1, <2>5, SeqWider
<1>9. Linked
  BY <1>6, <1>7, <1>8, IdlePc, Bounds DEF Linked
<1>10. Fresh
  BY <1>6, IdlePc, Bounds DEF Fresh
<1>11. Rooted
  <2>1. \A s \in DOMAIN store : 0 .. (s - 1) \subseteq DOMAIN store \cup {Base}
    BY <1>2, <1>3 DEF Base
  <2> QED
    BY <1>4, <1>5, <2>1 DEF Rooted
<1> QED
  BY <1>7, <1>9, <1>10, <1>11 DEF GInv, ParentsDone

------------------------------------------------------------------------------
(* The graph of the specification.                                                 *)

LEMMA NothingHappensGraph ==
  ASSUME GInv, UNCHANGED weekendVars
  PROVE  GInv'
<1>1. UNCHANGED <<store, added, th, server, disturbed>>
  BY DEF weekendVars
<1> QED
  BY <1>1 DEF GInv, Linked, Fresh, Rooted, ParentsDone, AllCompleted, BeingRun

LEMMA NextKeepsGraph ==
  ASSUME IInv, GInv, [WeekendNext]_weekendVars
  PROVE  GInv'
<1>0. WeekendNext => Acyclic(store)
  BY DEF WeekendNext
<1>1. CASE WeekendNext /\ (SessionEnds \/ StopAfterSession \/ ClearSchedule)
  BY <1>0, <1>1, SessionEndsGraph, StopAfterSessionGraph, ClearScheduleGraph
<1>2. CASE WeekendNext /\ \E f \in 1 .. (MaxRuns + MaxCalls) : Receive(f)
  BY <1>0, <1>2, ReceiveGraph
<1>3. CASE WeekendNext /\ \E t \in Threads : BeginRun(t) \/ SetActive(t) \/ Launch(t) \/ LaunchFails(t)
  BY <1>0, <1>3, BeginRunGraph, SetActiveGraph, LaunchGraph
<1>4. CASE WeekendNext /\ \E s \in SessionIds : Fire(s)
  BY <1>0, <1>4, FireGraph
<1>5. CASE WeekendNext /\ \E h \in Handlers :
             StartOther(h) \/ StopBy(h) \/ SaveCancelled(h) \/ SubmitForm(h) \/ OpenForm(h, None)
  BY <1>0, <1>5, StartOtherGraph, StopByGraph, SaveCancelledGraph, SubmitFormGraph, OpenFormGraph
<1>6. CASE WeekendNext /\ \E h \in Handlers, s \in SessionIds :
             \/ CallStart(h, s) \/ CallCancel(h, s) \/ OpenForm(h, s) \/ CallDelete(h, s)
             \/ CallImport(h, s) \/ CallSchedule(h, s) \/ CallScheduleRefused(h, s)
             \/ CallStartAfterParent(h, s) \/ CallDeSchedule(h, s)
  BY <1>0, <1>6, CallStartGraph, CallCancelGraph, OpenFormGraph, CallDeleteGraph,
     CallImportGraph, CallScheduleGraph, CallScheduleRefusedGraph
<1>7. CASE UNCHANGED weekendVars
  BY <1>7, NothingHappensGraph
<1> QED
  BY <1>1, <1>2, <1>3, <1>4, <1>5, <1>6, <1>7 DEF WeekendNext

\* Only deleting a session takes one away, unless a stale copy is saved.
LEMMA SaveKeepsSessions ==
  ASSUME NEW t, NEW st, NEW x, Save(t, st, x), DOMAIN st = DOMAIN store
  PROVE  DOMAIN store' = DOMAIN store
BY DEF Save

LEMMA SessionsStay ==
  ASSUME IInv, GInv, WeekendNext, "overtaken" \notin disturbed',
         \A h \in Handlers, s \in SessionIds : ~CallDelete(h, s)
  PROVE  DOMAIN store \subseteq DOMAIN store'
<1>1. CASE UNCHANGED store
  BY <1>1
<1>2. CASE \E t \in Threads : BeginRun(t)
  <2>1. PICK t \in Threads : BeginRun(t)
    BY <1>2
  <2>2. UNCHANGED store \/ \E x : Save(t, [store EXCEPT ![th[t].session].started = TRUE], x)
    BY <2>1 DEF BeginRun
  <2> QED
    BY <2>2, SaveKeepsSessions
<1>3. CASE \E f \in 1 .. (MaxRuns + MaxCalls) : Receive(f)
  <2>1. UNCHANGED store \/ \E f, x : Save(Udp, [store EXCEPT ![active].results = f], x)
    BY <1>3 DEF Receive
  <2> QED
    BY <2>1, SaveKeepsSessions
<1>4. CASE ClearSchedule
  <2>1. UNCHANGED store \/ \E s : Save(Timer, [store EXCEPT ![s].sched = FALSE], NoTask)
    BY <1>4 DEF ClearSchedule
  <2> QED
    BY <2>1, SaveKeepsSessions
<1>5. CASE \E h \in Handlers : SaveCancelled(h)
  <2>1. PICK h \in Handlers : SaveCancelled(h)
    BY <1>5
  <2>2. th[h].pc \in Holding /\ ~th[h].stale /\ \E x : Save(h, th[h].copy, x)
    BY <2>1 DEF SaveCancelled, Holding
  <2>3. DOMAIN th[h].copy = DOMAIN store
    BY <2>2 DEF GInv, Fresh, SameLinks
  <2> QED
    BY <2>2, <2>3, SaveKeepsSessions
<1>6. CASE \E h \in Handlers : SubmitForm(h)
  <2>0. PICK h \in Handlers : SubmitForm(h)
    BY <1>6
  <2>1. PICK s \in SessionIds, ps \in ParentsFrom(th[h].offered) :
          \/ Save(h, [store EXCEPT ![s].parents = ps], NoTask)
          \/ Save(h, [x \in DOMAIN store \cup {s} |-> IF x = s THEN New(ps) ELSE store[x]], NoTask)
    BY <2>0, Zenon DEF SubmitForm
  <2>2. CASE Save(h, [store EXCEPT ![s].parents = ps], NoTask)
    BY <2>2, SaveKeepsSessions
  <2>3. CASE Save(h, [x \in DOMAIN store \cup {s} |-> IF x = s THEN New(ps) ELSE store[x]], NoTask)
    BY <2>3 DEF Save
  <2> QED
    BY <2>1, <2>2, <2>3
<1>7. CASE \E h \in Handlers, s \in SessionIds : CallImport(h, s)
  <2>1. \E h, s, f : Save(h, [store EXCEPT ![s].results = f], NoTask)
    BY <1>7 DEF CallImport
  <2> QED
    BY <2>1, SaveKeepsSessions
<1>8. CASE \E h \in Handlers, s \in SessionIds :
             CallSchedule(h, s) \/ CallStartAfterParent(h, s) \/ CallDeSchedule(h, s)
  <2>1. \E h, s, b, a : Save(h, Scheduled(s, b, a), NoTask)
    BY <1>8 DEF CallSchedule, CallStartAfterParent, CallDeSchedule
  <2>2. \A s, b, a : DOMAIN Scheduled(s, b, a) = DOMAIN store
    BY DEF Scheduled
  <2> QED
    BY <2>1, <2>2, SaveKeepsSessions
<1>9. \/ UNCHANGED store
      \/ \E t \in Threads : BeginRun(t)
      \/ \E f \in 1 .. (MaxRuns + MaxCalls) : Receive(f)
      \/ ClearSchedule
      \/ \E h \in Handlers : SaveCancelled(h)
      \/ \E h \in Handlers : SubmitForm(h)
      \/ \E h \in Handlers, s \in SessionIds : CallImport(h, s)
      \/ \E h \in Handlers, s \in SessionIds :
             CallSchedule(h, s) \/ CallStartAfterParent(h, s) \/ CallDeSchedule(h, s)
  BY Zenon DEF WeekendNext, SessionEnds, StopAfterSession, SetActive, Launch, LaunchFails, Fire, StartOther,
     StopBy, OpenForm, CallStart, CallCancel, CallScheduleRefused
<1> QED
  BY <1>1, <1>2, <1>3, <1>4, <1>5, <1>6, <1>7, <1>8, <1>9

\* A deletion keeps the ancestors, and nothing else takes sessions away.
LEMMA NextKeepsAncestors ==
  ASSUME IInv, GInv, WeekendNext,
         DOMAIN store' \subseteq DOMAIN store, DOMAIN store' # DOMAIN store,
         "overtaken" \notin disturbed', NEW s \in DOMAIN store'
  PROVE  Ancestors(store')[s] \cap DOMAIN store' = Ancestors(store)[s] \cap DOMAIN store'
<1>1. Acyclic(store)
  BY DEF WeekendNext
<1>2. PICK h \in Handlers, d \in SessionIds : CallDelete(h, d)
  BY SessionsStay
<1>3. Without(store, d, store') /\ d \in DOMAIN store
  BY <1>1, <1>2, CallDeleteGraph DEF CallDelete
<1> QED
  BY <1>1, <1>3, DeleteKeepsAncestors

\* What else holds in every state: forms and copies are as old as they say, the graph is sound,
\* and whatever is being started or played comes after its ancestors.
THEOREM GraphInvariant == WeekendSpec => [](IInv /\ GInv)
<1>1. WeekendInit => IInv /\ GInv
  BY InitSound, InitGraph
<1>2. IInv /\ GInv /\ [WeekendNext]_weekendVars => (IInv /\ GInv)'
  BY NextPreserves, NextKeepsGraph
<1> QED
  BY <1>1, <1>2, PTL DEF WeekendSpec

\* Whatever number of handlers, sessions, requests and runs there are, acServer plays a session
\* only after those it descends from (SessionCanBeRun, race_weekend.go:449).
THEOREM SessionsRunInOrder == WeekendSpec => []RunsAfterParents
<1>1. IInv /\ GInv => RunsAfterParents
  <2> SUFFICES ASSUME IInv, GInv,
                      disturbed \cap {"edited", "overtaken", "reopened"} = {}, Acyclic(store),
                      server.on = "session", server.session \in DOMAIN store
               PROVE  \A a \in Ancestors(store)[server.session] \cap DOMAIN store : Completed(store, a)
    BY DEF RunsAfterParents
  <2>1. server.session \in BeingRun
    BY SessionsAre DEF BeingRun
  <2> QED
    BY <2>1 DEF GInv, ParentsDone, AllCompleted
<1> QED
  BY <1>1, GraphInvariant, PTL

\* The graph stays what the user made of it, whatever is edited, deleted and cancelled at the
\* same time (DelSession, race_weekend.go:242).
THEOREM GraphStaysSound == WeekendSpec => GraphKept
<1> DEFINE Kept ==
      DOMAIN store' \subseteq DOMAIN store /\ DOMAIN store' # DOMAIN store
        /\ "overtaken" \notin disturbed' /\ Acyclic(store)
        => \A s \in DOMAIN store' :
              Ancestors(store')[s] \cap DOMAIN store' = Ancestors(store)[s] \cap DOMAIN store'
<1>1. IInv /\ GInv => GraphSound
  BY DEF GInv, Rooted, GraphSound
<1>2. IInv /\ GInv /\ [WeekendNext]_weekendVars => [Kept]_weekendVars
  BY NextKeepsAncestors
<1>3. WeekendSpec => [][Kept]_weekendVars
  <2> HIDE DEF Kept
  <2> QED
    BY <1>2, GraphInvariant, PTL DEF WeekendSpec
<1>4. WeekendSpec => []GraphSound
  BY <1>1, GraphInvariant, PTL
<1>5. WeekendSpec => DeletingKeepsAncestors
  BY <1>3 DEF DeletingKeepsAncestors
<1>6. WeekendSpec => GraphSound /\ [][GraphSound']_weekendVars
  BY <1>4, PTL
<1> QED
  BY <1>5, <1>6 DEF GraphKept
==============================================================================
