--------------------- MODULE ChampionshipSessions_proofs ---------------------
(* For any handlers, messages and bounds: the state of a championship event is sound,   *)
(* the sign ups of a championship are kept while its event goes on, and what it records *)
(* of its event is what happened in it.                                                 *)
EXTENDS ChampionshipSessions, SequenceTheorems, TLAPS

USE SessionsAssumption

------------------------------------------------------------------------------
(* The inductive invariant.                                                     *)

Place == [session : Types \cup {""}, lapped : BOOLEAN]
Message ==
  [kind : {"newSession"}, name : Types \ {"secondRace"}, run : Nat, was : Place]
    \cup [kind : {"lap"}, run : Nat, was : Place]
    \cup [kind : {"endSession"}, file : 1 .. MaxFiles, run : Nat, was : Place]
File == [run : Nat, type : Types]
Active == [on : BOOLEAN, type : Types \cup {""}, laps : BOOLEAN]

\* What the goroutine that handles messages is doing, and what handlers are.
Handling == [pc : {"handle"}, msg : Message, copy : Championship, stale : BOOLEAN]
Ending == [pc : {"stop", "save"}, copy : Championship, next : Types \cup {""}, stale : BOOLEAN]
Starting == [pc : {"start", "launch"}, stale : BOOLEAN]
Cancelling ==
  [pc : {"stop", "cancel"}, next : {"cancelled", "start"}, stale : BOOLEAN, copy : Championship]
SigningUp == [pc : {"signUp"}, no : 1 .. MaxCalls, copy : Championship, stale : BOOLEAN]

\* An event with sessions was started, and a completed one as well.
Sound(c) ==
  /\ c \in Championship
  /\ c.completed => c.started
  /\ (\E s \in Types : c.sessions[s].found) => c.started

ServerFits ==
  /\ server \in {"none", "champ", "other"} /\ starts \in 0 .. MaxRuns
  /\ current \in 0 .. Len(EventSessions) /\ lapped \in BOOLEAN
  /\ files \in Seq(File) /\ Len(files) <= MaxFiles /\ newest \in 0 .. MaxFiles
  /\ queue \in Seq(Message) /\ Len(queue) <= MaxQueue
RestFits ==
  /\ active \in Active /\ signed \subseteq 1 .. MaxCalls /\ calls \in 0 .. MaxCalls
  /\ disturbed \subseteq {"overtaken", "late"}
ThreadsFit ==
  /\ udp \in {NotBusy} \cup Handling \cup Ending
  /\ th \in [Handlers -> {NotBusy} \cup Starting \cup Cancelling \cup SigningUp]
CopiesSound ==
  /\ Sound(store)
  /\ udp # NotBusy => Sound(udp.copy)
  /\ \A h \in Handlers : th[h].pc \in {"stop", "cancel", "signUp"} => Sound(th[h].copy)

\* A copy that is not stale has the sign ups of the store.
CopiesFresh ==
  /\ udp # NotBusy /\ ~udp.stale => udp.copy.signUps = store.signUps
  /\ \A h \in Handlers : th[h].pc \in {"stop", "cancel", "signUp"} /\ ~th[h].stale =>
        th[h].copy.signUps = store.signUps

IInv == ServerFits /\ RestFits /\ ThreadsFit /\ CopiesSound /\ CopiesFresh /\ SignUpsKept

------------------------------------------------------------------------------
(* Lemmas on sessions, tasks and championships.                                 *)

LEMMA Bounds ==
  /\ MaxQueue \in Nat /\ MaxRuns \in Nat /\ MaxFiles \in Nat /\ MaxCalls \in Nat
  /\ EventSessions \in Seq(Types) /\ Len(EventSessions) \in Nat /\ Len(EventSessions) >= 1
  /\ "race" \in Types /\ Types \subseteq {"practice", "race", "secondRace"}
  /\ LastSession \in Types /\ "" \notin Types
  /\ \A i \in 1 .. Len(EventSessions) : EventSessions[i] \in Types
<1>1. Types = {EventSessions[i] : i \in 1 .. Len(EventSessions)}
  BY OrderAssumption DEF Types, ToSet
<1>2. CASE EventSessions = <<"race">>
  <2>1. Len(EventSessions) = 1 /\ 1 .. Len(EventSessions) = {1}
    BY <1>2
  <2>2. Types = {"race"}
    BY <1>1, <1>2, <2>1
  <2> QED
    BY <1>2, <2>1, <2>2 DEF LastSession
<1>3. CASE EventSessions = <<"practice", "race">>
  <2>1. Len(EventSessions) = 2 /\ 1 .. Len(EventSessions) = {1, 2}
    BY <1>3
  <2>2. Types = {"practice", "race"}
    BY <1>1, <1>3, <2>1
  <2> QED
    BY <1>3, <2>1, <2>2 DEF LastSession
<1>4. CASE EventSessions = <<"race", "secondRace">>
  <2>1. Len(EventSessions) = 2 /\ 1 .. Len(EventSessions) = {1, 2}
    BY <1>4
  <2>2. Types = {"race", "secondRace"}
    BY <1>1, <1>4, <2>1
  <2> QED
    BY <1>4, <2>1, <2>2 DEF LastSession
<1>5. CASE EventSessions = <<"practice", "race", "secondRace">>
  <2>1. Len(EventSessions) = 3 /\ 1 .. Len(EventSessions) = {1, 2, 3}
    BY <1>5
  <2>2. Types = {"practice", "race", "secondRace"}
    BY <1>1, <1>5, <2>1
  <2> QED
    BY <1>5, <2>1, <2>2 DEF LastSession
<1>6. \A i \in 1 .. Len(EventSessions) : EventSessions[i] \in Types
  BY <1>1
<1> QED
  BY <1>2, <1>3, <1>4, <1>5, <1>6, OrderAssumption

LEMMA SessionAt ==
  ASSUME NEW i \in 1 .. Len(EventSessions)
  PROVE  EventSessions[i] \in Types /\ Name(i) \in Types \ {"secondRace"} /\ NextOf(i) \in 1 .. Len(EventSessions)
<1>1. EventSessions[i] \in Types
  BY Bounds
<1>2. Name(i) \in Types \ {"secondRace"}
  BY <1>1, Bounds DEF Name
<1>3. NextOf(i) \in 1 .. Len(EventSessions)
  <2> DEFINE n == Len(EventSessions)
  <2>1. n \in Nat /\ n >= 1 /\ i \in 1 .. n
    BY Bounds
  <2>2. NextOf(i) = IF i = n THEN 1 ELSE i + 1
    BY DEF NextOf
  <2> HIDE DEF n
  <2>3. NextOf(i) \in 1 .. n
    BY <2>1, <2>2
  <2> QED
    BY <2>3 DEF n
<1> QED
  BY <1>1, <1>2, <1>3

\* Messages are appended and one is taken out.
LEMMA QueueGrows ==
  ASSUME NEW q \in Seq(Message), NEW m \in Seq(Message)
  PROVE  q \o m \in Seq(Message) /\ Len(q \o m) = Len(q) + Len(m)
OBVIOUS

LEMMA QueueShrinks ==
  ASSUME NEW S, NEW q \in Seq(S), NEW i \in 1 .. Len(q)
  PROVE  RemoveAt(q, i) \in Seq(S) /\ Len(RemoveAt(q, i)) = Len(q) - 1
<1> DEFINE a == SubSeq(q, 1, i - 1)
           b == SubSeq(q, i + 1, Len(q))
<1>1. Len(q) \in Nat /\ \A k \in 1 .. Len(q) : q[k] \in S
  OBVIOUS
<1>2. a \in Seq(S) /\ Len(a) = i - 1
  <2>1. \A k \in 1 .. (i - 1) : q[k] \in S
    BY <1>1
  <2>2. 1 \in Int /\ i - 1 \in Int
    BY <1>1
  <2> QED
    BY <1>1, <2>1, <2>2, SubSeqProperties
<1>3. b \in Seq(S) /\ Len(b) = Len(q) - i
  <2>1. \A k \in (i + 1) .. Len(q) : q[k] \in S
    BY <1>1
  <2>2. i + 1 \in Int /\ Len(q) \in Int
    BY <1>1
  <2> QED
    BY <1>1, <2>1, <2>2, SubSeqProperties
<1> HIDE DEF a, b
<1>4. a \o b \in Seq(S) /\ Len(a \o b) = Len(a) + Len(b)
  BY <1>2, <1>3, ConcatProperties
<1>5. RemoveAt(q, i) = a \o b
  BY DEF RemoveAt, a, b
<1>6. i \in Int /\ Len(q) \in Int
  BY <1>1
<1>7. Len(a \o b) = Len(q) - 1
  BY <1>2, <1>3, <1>4, <1>6
<1> QED
  BY <1>4, <1>5, <1>7, Zenon

\* A task after another thread saved.
LEMMA AgedTask ==
  /\ \A x \in {NotBusy} \cup Handling \cup Ending :
       /\ Aged(x) \in {NotBusy} \cup Handling \cup Ending
       /\ x # NotBusy => Aged(x) # NotBusy /\ Aged(x).copy = x.copy /\ Aged(x).stale
       /\ x = NotBusy => Aged(x) = NotBusy
  /\ \A x \in {NotBusy} \cup Starting \cup Cancelling \cup SigningUp :
       /\ Aged(x) \in {NotBusy} \cup Starting \cup Cancelling \cup SigningUp
       /\ Aged(x).pc = x.pc
       /\ x.pc \in {"stop", "cancel", "signUp"} => Aged(x).copy = x.copy /\ Aged(x).stale
<1>1. \A x \in {NotBusy} \cup Handling \cup Ending :
        /\ x = NotBusy => Aged(x) = NotBusy
        /\ x # NotBusy => Aged(x) = [x EXCEPT !.stale = TRUE]
  BY DEF Aged
<1>2. \A x \in Handling : [x EXCEPT !.stale = TRUE] \in Handling /\ [x EXCEPT !.stale = TRUE].copy = x.copy
                          /\ [x EXCEPT !.stale = TRUE].stale
  BY DEF Handling
<1>3. \A x \in Ending : [x EXCEPT !.stale = TRUE] \in Ending /\ [x EXCEPT !.stale = TRUE].copy = x.copy
                        /\ [x EXCEPT !.stale = TRUE].stale
  BY DEF Ending
<1>4. \A x \in Handling \cup Ending : x # NotBusy
  <2>1. \A x \in Handling : x.pc = "handle"
    BY DEF Handling
  <2>2. \A x \in Ending : x.pc \in {"stop", "save"}
    BY DEF Ending
  <2> QED
    BY <2>1, <2>2 DEF NotBusy
<1>5. \A x : x # NotBusy => Aged(x) = [x EXCEPT !.stale = TRUE]
  BY DEF Aged
<1>6. \A x \in Starting : [x EXCEPT !.stale = TRUE] \in Starting /\ [x EXCEPT !.stale = TRUE].pc = x.pc
  BY DEF Starting
<1>7. \A x \in Cancelling : /\ [x EXCEPT !.stale = TRUE] \in Cancelling /\ [x EXCEPT !.stale = TRUE].pc = x.pc
                            /\ [x EXCEPT !.stale = TRUE].copy = x.copy /\ [x EXCEPT !.stale = TRUE].stale
  BY DEF Cancelling
<1>8. \A x \in SigningUp : /\ [x EXCEPT !.stale = TRUE] \in SigningUp /\ [x EXCEPT !.stale = TRUE].pc = x.pc
                           /\ [x EXCEPT !.stale = TRUE].copy = x.copy /\ [x EXCEPT !.stale = TRUE].stale
  BY DEF SigningUp
<1>9. Aged(NotBusy) = NotBusy /\ NotBusy.pc = "idle"
  BY DEF Aged, NotBusy
<1>10. \A x \in Starting : x.pc \notin {"stop", "cancel", "signUp"}
  BY DEF Starting
<1> HIDE DEF Aged
<1> QED
  BY <1>1, <1>2, <1>3, <1>4, <1>5, <1>6, <1>7, <1>8, <1>9, <1>10

\* The names of the steps.
LEMMA TasksNamed ==
  /\ NotBusy.pc = "idle"
  /\ \A x \in Handling : x.pc = "handle" /\ x # NotBusy
  /\ \A x \in Ending : x.pc \in {"stop", "save"} /\ x # NotBusy
  /\ \A x \in Starting : x.pc \in {"start", "launch"}
  /\ \A x \in Cancelling : x.pc \in {"stop", "cancel"}
  /\ \A x \in SigningUp : x.pc = "signUp"
<1>1. NotBusy.pc = "idle"
  BY DEF NotBusy
<1>2. \A x \in Handling : x.pc = "handle"
  BY DEF Handling
<1>3. \A x \in Ending : x.pc \in {"stop", "save"}
  BY DEF Ending
<1>4. \A x \in Starting : x.pc \in {"start", "launch"}
  BY DEF Starting
<1>5. \A x \in Cancelling : x.pc \in {"stop", "cancel"}
  BY DEF Cancelling
<1>6. \A x \in SigningUp : x.pc = "signUp"
  BY DEF SigningUp
<1>7. \A x \in Handling \cup Ending : x # NotBusy
  BY <1>1, <1>2, <1>3
<1> QED
  BY <1>1, <1>2, <1>3, <1>4, <1>5, <1>6, <1>7

LEMMA UdpTask ==
  ASSUME IInv
  PROVE  /\ udp.pc = "handle" => udp \in Handling
         /\ udp.pc \in {"stop", "save"} => udp \in Ending
         /\ udp # NotBusy => /\ udp.copy \in Championship /\ Sound(udp.copy) /\ udp.stale \in BOOLEAN
                             /\ udp \in Handling \cup Ending
<1>1. udp \in {NotBusy} \cup Handling \cup Ending
  BY DEF IInv, ThreadsFit
<1>2. \A x \in Handling \cup Ending : x.copy \in Championship /\ x.stale \in BOOLEAN
  BY DEF Handling, Ending
<1> QED
  BY <1>1, <1>2, TasksNamed DEF IInv, CopiesSound

LEMMA HandlerTask ==
  ASSUME IInv, NEW h \in Handlers
  PROVE  /\ th[h] \in {NotBusy} \cup Starting \cup Cancelling \cup SigningUp
         /\ th[h].pc \in {"start", "launch"} => th[h] \in Starting
         /\ th[h].pc \in {"stop", "cancel"} => th[h] \in Cancelling /\ Sound(th[h].copy)
         /\ th[h].pc = "signUp" => th[h] \in SigningUp /\ Sound(th[h].copy)
<1>1. th[h] \in {NotBusy} \cup Starting \cup Cancelling \cup SigningUp
  BY DEF IInv, ThreadsFit
<1> QED
  BY <1>1, TasksNamed DEF IInv, CopiesSound

\* The goroutine that handles messages saves what it made of its copy.
LEMMA UdpSaves ==
  ASSUME IInv, udp # NotBusy, NEW c, Sound(c), c.signUps = udp.copy.signUps, Save(c),
         udp' = NotBusy, disturbed' = disturbed \cup Lost(udp), signed' = signed
  PROVE  /\ ThreadsFit' /\ CopiesSound' /\ CopiesFresh' /\ SignUpsKept'
         /\ disturbed' \subseteq {"overtaken", "late"}
<1>1. store' = c /\ th' = [h \in Handlers |-> Aged(th[h])]
  BY DEF Save
<1>2. \A h \in Handlers : th[h] \in {NotBusy} \cup Starting \cup Cancelling \cup SigningUp
  BY HandlerTask
<1>3. \A h \in Handlers :
        /\ th'[h] \in {NotBusy} \cup Starting \cup Cancelling \cup SigningUp /\ th'[h].pc = th[h].pc
        /\ th[h].pc \in {"stop", "cancel", "signUp"} => th'[h].copy = th[h].copy /\ th'[h].stale
  BY <1>1, <1>2, AgedTask
<1>4. ThreadsFit'
  BY <1>1, <1>3 DEF ThreadsFit
<1>5. CopiesSound'
  BY <1>1, <1>3 DEF CopiesSound, IInv
<1>6. CopiesFresh'
  BY <1>3 DEF CopiesFresh
<1>7. SignUpsKept'
  <2> SUFFICES ASSUME "overtaken" \notin disturbed'
               PROVE  signed \subseteq c.signUps
    BY <1>1 DEF SignUpsKept
  <2>1. ~udp.stale
    BY DEF Lost
  <2> QED
    BY <2>1 DEF IInv, CopiesFresh, SignUpsKept
<1>8. disturbed' \subseteq {"overtaken", "late"}
  BY DEF Lost, IInv, RestFits
<1> QED
  BY <1>4, <1>5, <1>6, <1>7, <1>8

\* A handler saves what it made of its copy.
LEMMA HandlerSaves ==
  ASSUME IInv, NEW h \in Handlers, NEW c, NEW x \in {NotBusy} \cup Starting, Sound(c), SaveBy(h, c, x),
         disturbed' = disturbed \cup Lost(th[h]),
         ~th[h].stale /\ "overtaken" \notin disturbed => signed' \subseteq c.signUps
  PROVE  /\ ThreadsFit' /\ CopiesSound' /\ CopiesFresh' /\ SignUpsKept'
         /\ disturbed' \subseteq {"overtaken", "late"}
<1>1. /\ store' = c /\ udp' = Aged(udp)
      /\ th' = [o \in Handlers |-> IF o = h THEN x ELSE Aged(th[o])]
  BY DEF SaveBy
<1>2. \A o \in Handlers : th[o] \in {NotBusy} \cup Starting \cup Cancelling \cup SigningUp
  BY HandlerTask
<1>3. \A o \in Handlers \ {h} :
        /\ th'[o] \in {NotBusy} \cup Starting \cup Cancelling \cup SigningUp /\ th'[o].pc = th[o].pc
        /\ th[o].pc \in {"stop", "cancel", "signUp"} => th'[o].copy = th[o].copy /\ th'[o].stale
  BY <1>1, <1>2, AgedTask
<1>4. th'[h] = x /\ x.pc \notin {"stop", "cancel", "signUp"}
  BY <1>1, TasksNamed
<1>5. /\ udp' \in {NotBusy} \cup Handling \cup Ending
      /\ udp' # NotBusy => udp # NotBusy /\ udp'.copy = udp.copy /\ udp'.stale
  BY <1>1, AgedTask DEF IInv, ThreadsFit
<1>6. ThreadsFit'
  BY <1>1, <1>3, <1>4, <1>5 DEF ThreadsFit
<1>7. CopiesSound'
  BY <1>1, <1>3, <1>4, <1>5 DEF CopiesSound, IInv
<1>8. CopiesFresh'
  BY <1>3, <1>4, <1>5 DEF CopiesFresh
<1>9. SignUpsKept'
  BY <1>1 DEF SignUpsKept, Lost
<1>10. disturbed' \subseteq {"overtaken", "late"}
  BY DEF Lost, IInv, RestFits
<1> QED
  BY <1>6, <1>7, <1>8, <1>9, <1>10

\* A handler goes on with x and saves nothing.
LEMMA HandlerBecomes ==
  ASSUME IInv, NEW h \in Handlers, NEW x \in {NotBusy} \cup Starting \cup Cancelling \cup SigningUp,
         Become(h, x), UNCHANGED <<store, udp, signed>>, disturbed \subseteq disturbed',
         x.pc \in {"stop", "cancel", "signUp"} =>
           Sound(x.copy) /\ (~x.stale => x.copy.signUps = store.signUps)
  PROVE  ThreadsFit' /\ CopiesSound' /\ CopiesFresh' /\ SignUpsKept'
<1>1. th' = [th EXCEPT ![h] = x]
  BY DEF Become
<1>2. th \in [Handlers -> {NotBusy} \cup Starting \cup Cancelling \cup SigningUp]
  BY DEF IInv, ThreadsFit
<1>3. th'[h] = x /\ \A o \in Handlers \ {h} : th'[o] = th[o]
  BY <1>1, <1>2
<1>4. ThreadsFit'
  BY <1>1, <1>2 DEF IInv, ThreadsFit
<1>5. CopiesSound'
  BY <1>3 DEF IInv, CopiesSound
<1>6. CopiesFresh'
  BY <1>3 DEF IInv, CopiesFresh
<1>7. SignUpsKept'
  BY DEF IInv, SignUpsKept
<1> QED
  BY <1>4, <1>5, <1>6, <1>7

\* Results are recorded and sessions are entered: the updates of a championship, one by one.
Played(ss, t) == [ss EXCEPT ![t] = [ss[t] EXCEPT !.done = TRUE]]
Filed(ss, t, f) == [ss EXCEPT ![t] = [ss[t] EXCEPT !.results = f]]
Opened(ss, t) == [ss EXCEPT ![t] = IF ss[t].found THEN ss[t] ELSE Fresh]
WithSessions(c, ss) == [c EXCEPT !.sessions = ss]
WithCompleted(c, b) == [c EXCEPT !.completed = b]
WithStarted(c, b) == [c EXCEPT !.started = b]

LEMMA FreshSession ==
  Fresh \in SessionRecord /\ Missing \in SessionRecord /\ Fresh.found /\ ~Missing.found
<1>1. 0 \in 0 .. MaxFiles
  <2>1. MaxFiles \in Nat
    BY Bounds
  <2> QED
    BY <2>1
<1>3. Missing \in SessionRecord /\ ~Missing.found
  BY <1>1 DEF SessionRecord, Missing
<1>4. Fresh \in SessionRecord /\ Fresh.found
  BY <1>3 DEF SessionRecord, Fresh
<1> QED
  BY <1>3, <1>4

LEMMA SessionsUpdated ==
  ASSUME NEW ss \in [Types -> SessionRecord], NEW t \in Types
  PROVE  /\ Played(ss, t) \in [Types -> SessionRecord]
         /\ Opened(ss, t) \in [Types -> SessionRecord]
         /\ \A f \in 0 .. MaxFiles : Filed(ss, t, f) \in [Types -> SessionRecord]
<1>1. ss[t] \in SessionRecord
  OBVIOUS
<1>2. [ss[t] EXCEPT !.done = TRUE] \in SessionRecord
  BY <1>1 DEF SessionRecord
<1>3. \A f \in 0 .. MaxFiles : [ss[t] EXCEPT !.results = f] \in SessionRecord
  BY <1>1 DEF SessionRecord
<1>4. (IF ss[t].found THEN ss[t] ELSE Fresh) \in SessionRecord
  BY <1>1, FreshSession
<1> QED
  BY <1>2, <1>3, <1>4 DEF Played, Filed, Opened

LEMMA ChampionshipUpdated ==
  ASSUME NEW c \in Championship
  PROVE  /\ \A ss \in [Types -> SessionRecord] :
              /\ WithSessions(c, ss) \in Championship
              /\ WithSessions(c, ss).started = c.started
              /\ WithSessions(c, ss).completed = c.completed
              /\ WithSessions(c, ss).sessions = ss
              /\ WithSessions(c, ss).signUps = c.signUps
         /\ \A b \in BOOLEAN :
              /\ WithCompleted(c, b) \in Championship
              /\ WithCompleted(c, b).started = c.started
              /\ WithCompleted(c, b).completed = b
              /\ WithCompleted(c, b).sessions = c.sessions
              /\ WithCompleted(c, b).signUps = c.signUps
              /\ WithStarted(c, b) \in Championship
              /\ WithStarted(c, b).started = b
              /\ WithStarted(c, b).completed = c.completed
              /\ WithStarted(c, b).sessions = c.sessions
              /\ WithStarted(c, b).signUps = c.signUps
BY DEF WithSessions, WithCompleted, WithStarted, Championship

LEMMA RecordedSound ==
  ASSUME NEW c, Sound(c), active.type \in Types, NEW file \in 0 .. MaxFiles
  PROVE  Sound(Recorded(c, file)) /\ Recorded(c, file).signUps = c.signUps
<1>1. PICK t \in Types : t = active.type
  OBVIOUS
<1>2. CASE ~c.sessions[active.type].found
  BY <1>2 DEF Recorded
<1>3. CASE c.sessions[active.type].found
  <2>1. PICK c1 : c1 = WithSessions(c, Played(c.sessions, t))
    OBVIOUS
  <2>2. PICK c2 : c2 = WithSessions(c1, Filed(c1.sessions, t, file))
    OBVIOUS
  <2>3. PICK b \in BOOLEAN : b = (t = LastSession)
    OBVIOUS
  <2>4. PICK c3 : c3 = WithCompleted(c2, b)
    OBVIOUS
  <2>5. Recorded(c, file) = c3
    BY <1>1, <1>3, <2>1, <2>2, <2>3, <2>4, Zenon DEF Recorded, WithCompleted, WithSessions, Played, Filed
  <2>6. c \in Championship
    BY DEF Sound
  <2>7. c.started
    BY <1>1, <1>3 DEF Sound
  <2>8. c.sessions \in [Types -> SessionRecord]
    BY <2>6 DEF Championship
  <2>9. Played(c.sessions, t) \in [Types -> SessionRecord]
    BY <2>8, SessionsUpdated
  <2>10. /\ c1 \in Championship /\ c1.sessions = Played(c.sessions, t) /\ c1.started = c.started
        /\ c1.signUps = c.signUps
    BY <2>1, <2>6, <2>9, ChampionshipUpdated
  <2>11. Filed(c1.sessions, t, file) \in [Types -> SessionRecord]
    BY <2>9, <2>10, SessionsUpdated
  <2>12. c2 \in Championship /\ c2.started = c.started /\ c2.signUps = c.signUps
    BY <2>2, <2>10, <2>11, ChampionshipUpdated
  <2>13. c3 \in Championship /\ c3.started = c.started /\ c3.signUps = c.signUps
    BY <2>4, <2>12, ChampionshipUpdated
  <2> QED
    BY <2>5, <2>7, <2>13 DEF Sound
<1> QED
  BY <1>2, <1>3

LEMMA EnteredActive ==
  ASSUME active \in Active, NEW type \in Types \cup {""}
  PROVE  Entered(type) \in Active
BY DEF Entered, Active

LEMMA TypeNamedIs ==
  ASSUME NEW c, NEW name \in Types
  PROVE  TypeNamed(c, name) \in Types
BY Bounds DEF TypeNamed

\* The championship when a session begins.
Begun(c, type) == [c EXCEPT !.started = TRUE, !.sessions[type] = IF @.found THEN @ ELSE Fresh]

LEMMA BegunSound ==
  ASSUME NEW c, Sound(c), NEW type \in Types
  PROVE  Sound(Begun(c, type)) /\ Begun(c, type).signUps = c.signUps
<1> DEFINE c1 == WithStarted(c, TRUE)
<1>1. c \in Championship /\ c.sessions \in [Types -> SessionRecord]
  BY DEF Sound, Championship
<1>2. Begun(c, type) = WithSessions(c1, Opened(c1.sessions, type))
  BY Zenon DEF Begun, WithStarted, WithSessions, Opened
<1>3. c1 \in Championship /\ c1.started /\ c1.sessions = c.sessions /\ c1.signUps = c.signUps
  BY <1>1, ChampionshipUpdated
<1> HIDE DEF c1
<1>4. Opened(c1.sessions, type) \in [Types -> SessionRecord]
  BY <1>1, <1>3, SessionsUpdated
<1> QED
  BY <1>2, <1>3, <1>4, ChampionshipUpdated DEF Sound

------------------------------------------------------------------------------
(* What the steps leave alone.                                                  *)

LEMMA ServerKept ==
  ASSUME IInv, server' \in {"none", "champ", "other"}, UNCHANGED <<acServer, queue>>
  PROVE  ServerFits'
BY DEF IInv, ServerFits, acServer

LEMMA StoreKept ==
  ASSUME IInv, UNCHANGED <<store, udp, th, signed>>, disturbed \subseteq disturbed'
  PROVE  ThreadsFit' /\ CopiesSound' /\ CopiesFresh' /\ SignUpsKept'
<1>1. ThreadsFit'
  BY DEF IInv, ThreadsFit
<1>2. CopiesSound'
  BY DEF IInv, CopiesSound
<1>3. CopiesFresh'
  BY DEF IInv, CopiesFresh
<1>4. SignUpsKept'
  BY DEF IInv, SignUpsKept
<1> QED
  BY <1>1, <1>2, <1>3, <1>4

LEMMA UdpBecomes ==
  ASSUME IInv, UNCHANGED <<store, th, signed>>, disturbed \subseteq disturbed',
         udp' \in {NotBusy} \cup Handling \cup Ending,
         udp' # NotBusy => Sound(udp'.copy),
         udp' # NotBusy /\ ~udp'.stale => udp'.copy.signUps = store.signUps
  PROVE  ThreadsFit' /\ CopiesSound' /\ CopiesFresh' /\ SignUpsKept'
<1>1. ThreadsFit'
  BY DEF IInv, ThreadsFit
<1>2. CopiesSound'
  BY DEF IInv, CopiesSound
<1>3. CopiesFresh'
  BY DEF IInv, CopiesFresh
<1>4. SignUpsKept'
  BY DEF IInv, SignUpsKept
<1> QED
  BY <1>1, <1>2, <1>3, <1>4

------------------------------------------------------------------------------
(* acServer.                                                                    *)

LEMMA PlayingStep ==
  ASSUME IInv, Playing, NEW m \in Seq(Message), Send(m), current' \in 0 .. Len(EventSessions),
         lapped' \in BOOLEAN, files' \in Seq(File), Len(files') <= MaxFiles, newest' \in 0 .. MaxFiles
  PROVE  IInv'
<1>1. /\ server' = server /\ starts' = starts /\ active' = active /\ signed' = signed
      /\ disturbed' = disturbed /\ calls' = calls
  BY DEF Playing
<1>2. queue' \in Seq(Message) /\ Len(queue') <= MaxQueue
  <2>1. queue' = queue \o m /\ Len(queue) + Len(m) <= MaxQueue /\ queue \in Seq(Message)
    BY DEF Send, IInv, ServerFits
  <2> QED
    BY <2>1, QueueGrows
<1>3. ServerFits'
  BY <1>1, <1>2 DEF IInv, ServerFits
<1>4. RestFits'
  BY <1>1 DEF IInv, RestFits
<1>5. ThreadsFit' /\ CopiesSound' /\ CopiesFresh' /\ SignUpsKept'
  BY StoreKept DEF Playing
<1> QED
  BY <1>3, <1>4, <1>5 DEF IInv

LEMMA CurrentAt ==
  ASSUME IInv
  PROVE  /\ 1 \in 1 .. Len(EventSessions)
         /\ NextOf(current) \in 1 .. Len(EventSessions)
         /\ \A i \in 1 .. Len(EventSessions) : i \in 0 .. Len(EventSessions)
         /\ current # 0 => current \in 1 .. Len(EventSessions)
<1> DEFINE n == Len(EventSessions)
<1>1. n \in Nat /\ n >= 1 /\ current \in 0 .. n
  BY Bounds DEF IInv, ServerFits
<1>2. NextOf(current) = IF current = n THEN 1 ELSE current + 1
  BY DEF NextOf
<1> HIDE DEF n
<1>3. /\ 1 \in 1 .. n /\ NextOf(current) \in 1 .. n /\ \A i \in 1 .. n : i \in 0 .. n
      /\ current # 0 => current \in 1 .. n
  BY <1>1, <1>2
<1> QED
  BY <1>3 DEF n

LEMMA SentMessages ==
  ASSUME IInv
  PROVE  /\ starts \in Nat /\ Now \in Place /\ LapDone \in Message
         /\ \A i \in 1 .. Len(EventSessions) : NewSession(i) \in Message
         /\ \A f \in 1 .. MaxFiles : EndSession(f) \in Message
<1>1. starts \in Nat
  <2>1. MaxRuns \in Nat
    BY Bounds
  <2>2. starts \in 0 .. MaxRuns
    BY DEF IInv, ServerFits
  <2> QED
    BY <2>1, <2>2
<1>2. Now \in Place
  <2>1. current # 0 => EventSessions[current] \in Types
    BY CurrentAt, SessionAt
  <2> QED
    BY <2>1 DEF Now, Place, IInv, ServerFits
<1>3. LapDone \in Message
  BY <1>1, <1>2 DEF Message, LapDone
<1>4. \A i \in 1 .. Len(EventSessions) : NewSession(i) \in Message
  BY <1>1, <1>2, SessionAt DEF Message, NewSession
<1>5. \A f \in 1 .. MaxFiles : EndSession(f) \in Message
  BY <1>1, <1>2 DEF Message, EndSession
<1> QED
  BY <1>1, <1>2, <1>3, <1>4, <1>5

LEMMA WrittenFiles ==
  ASSUME IInv, FileWritten
  PROVE  /\ current \in 1 .. Len(EventSessions)
         /\ files' \in Seq(File) /\ Len(files') <= MaxFiles /\ Len(files') \in 1 .. MaxFiles
         /\ newest' \in 0 .. MaxFiles
<1>1. current \in 1 .. Len(EventSessions)
  <2>1. current \in 0 .. Len(EventSessions) /\ current # 0 /\ Len(EventSessions) \in Nat
    BY Bounds DEF FileWritten, IInv, ServerFits
  <2> DEFINE n == Len(EventSessions)
  <2> HIDE DEF n
  <2>2. current \in 0 .. n /\ current # 0 /\ n \in Nat
    BY <2>1 DEF n
  <2>3. current \in 1 .. n
    BY <2>2
  <2> QED
    BY <2>3 DEF n
<1>2. EventSessions[current] \in Types /\ starts \in Nat
  BY <1>1, SessionAt, SentMessages
<1>3. [run |-> starts, type |-> EventSessions[current]] \in File
  BY <1>2 DEF File
<1>4. PICK x \in File : files' = Append(files, x)
  BY <1>3 DEF FileWritten
<1>5. files \in Seq(File) /\ Len(files) < MaxFiles /\ MaxFiles \in Nat
  BY Bounds DEF FileWritten, IInv, ServerFits
<1>6. files' \in Seq(File) /\ Len(files') = Len(files) + 1 /\ Len(files) \in Nat
  BY <1>4, <1>5
<1>7. Len(files') \in 1 .. MaxFiles /\ newest' = Len(files')
  BY <1>5, <1>6 DEF FileWritten
<1>8. newest' \in 0 .. MaxFiles
  BY <1>7
<1> QED
  BY <1>1, <1>5, <1>6, <1>7, <1>8

LEMMA AcServerSteps ==
  ASSUME IInv, LapCompleted \/ SessionEnds \/ SessionEndsUnreported \/ SessionBegins \/ SessionRestarts
  PROVE  IInv'
<1>1. /\ files \in Seq(File) /\ Len(files) <= MaxFiles /\ newest \in 0 .. MaxFiles
      /\ current \in 0 .. Len(EventSessions)
  BY DEF IInv, ServerFits
<1>2. NextOf(current) \in 1 .. Len(EventSessions) /\ NextOf(current) \in 0 .. Len(EventSessions)
  BY CurrentAt
<1>3. NewSession(NextOf(current)) \in Message
  BY <1>2, SentMessages
<1>4. CASE LapCompleted
  <2>1. PICK m \in Message : Send(<<m>>)
    BY <1>4, SentMessages DEF LapCompleted
  <2>2. <<m>> \in Seq(Message)
    OBVIOUS
  <2>3. Playing /\ lapped' \in BOOLEAN /\ current' = current /\ files' = files /\ newest' = newest
    BY <1>4 DEF LapCompleted
  <2> QED
    BY <1>1, <2>1, <2>2, <2>3, PlayingStep
<1>5. CASE SessionEnds
  <2>1. Playing /\ FileWritten /\ current' = NextOf(current) /\ lapped' \in BOOLEAN
    BY <1>5 DEF SessionEnds
  <2>2. /\ files' \in Seq(File) /\ Len(files') <= MaxFiles /\ Len(files') \in 1 .. MaxFiles
        /\ newest' \in 0 .. MaxFiles
    BY <2>1, WrittenFiles
  <2>3. PICK e \in Message : Send(<<e, NewSession(NextOf(current))>>)
    BY <1>5, <2>2, SentMessages DEF SessionEnds
  <2>4. <<e, NewSession(NextOf(current))>> \in Seq(Message)
    BY <1>3
  <2> QED
    BY <1>2, <2>1, <2>2, <2>3, <2>4, PlayingStep
<1>6. CASE SessionEndsUnreported
  <2>1. Playing /\ FileWritten /\ current' = NextOf(current) /\ lapped' \in BOOLEAN
    BY <1>6 DEF SessionEndsUnreported
  <2>2. files' \in Seq(File) /\ Len(files') <= MaxFiles /\ newest' \in 0 .. MaxFiles
    BY <2>1, WrittenFiles
  <2>3. Send(<<NewSession(NextOf(current))>>)
    BY <1>6 DEF SessionEndsUnreported
  <2>4. <<NewSession(NextOf(current))>> \in Seq(Message)
    BY <1>3
  <2> QED
    BY <1>2, <2>1, <2>2, <2>3, <2>4, PlayingStep
<1>7. CASE SessionBegins
  <2>1. /\ Playing /\ current' = NextOf(current) /\ lapped' \in BOOLEAN
        /\ files' = files /\ newest' = newest
    BY <1>7 DEF SessionBegins
  <2>2. Send(<<NewSession(NextOf(current))>>)
    BY <1>7 DEF SessionBegins
  <2>3. <<NewSession(NextOf(current))>> \in Seq(Message)
    BY <1>3
  <2> QED
    BY <1>1, <1>2, <2>1, <2>2, <2>3, PlayingStep
<1>8. CASE SessionRestarts
  <2>1. /\ Playing /\ current # 0 /\ current' = current /\ lapped' \in BOOLEAN
        /\ files' = files /\ newest' = newest
    BY <1>8 DEF SessionRestarts
  <2>2. NewSession(current) \in Message
    BY <2>1, CurrentAt, SentMessages
  <2>3. Send(<<NewSession(current)>>)
    BY <1>8 DEF SessionRestarts
  <2>4. <<NewSession(current)>> \in Seq(Message)
    BY <2>2
  <2> QED
    BY <1>1, <2>1, <2>3, <2>4, PlayingStep
<1> QED
  BY <1>4, <1>5, <1>6, <1>7, <1>8

------------------------------------------------------------------------------
(* The goroutine that handles messages.                                         *)

LEMMA ReceiveStep ==
  ASSUME IInv, NEW i, Receive(i)
  PROVE  IInv'
<1>1. i \in 1 .. Len(queue) /\ queue \in Seq(Message) /\ Len(queue) <= MaxQueue /\ Len(queue) \in Nat
  BY DEF Receive, Heads, IInv, ServerFits
<1>2. queue' \in Seq(Message) /\ Len(queue') <= MaxQueue
  <2>1. queue' = RemoveAt(queue, i)
    BY DEF Receive
  <2>2. queue' \in Seq(Message) /\ Len(queue') = Len(queue) - 1
    BY <1>1, <2>1, QueueShrinks
  <2>3. MaxQueue \in Nat
    BY Bounds
  <2> QED
    BY <1>1, <2>2, <2>3
<1>3. ServerFits'
  BY <1>2 DEF Receive, acServer, IInv, ServerFits
<1>4. RestFits'
  <2>1. disturbed' \subseteq {"overtaken", "late"}
    BY DEF Receive, IInv, RestFits
  <2> QED
    BY <2>1 DEF Receive, IInv, RestFits
<1>5. ThreadsFit' /\ CopiesSound' /\ CopiesFresh' /\ SignUpsKept'
  <2>1. UNCHANGED <<store, th, signed>> /\ disturbed \subseteq disturbed'
    BY DEF Receive
  <2>2. queue[i] \in Message
    BY <1>1
  <2>3. Sound(store) /\ store \in Championship
    BY DEF IInv, CopiesSound, Sound
  <2> DEFINE x == [pc |-> "handle", msg |-> queue[i], copy |-> store, stale |-> FALSE]
  <2>4. x \in Handling /\ x.copy = store
    BY <2>2, <2>3 DEF Handling
  <2>5. udp' = x \/ udp' = NotBusy
    BY DEF Receive
  <2> HIDE DEF x
  <2> QED
    BY <2>1, <2>3, <2>4, <2>5, UdpBecomes
<1> QED
  BY <1>3, <1>4, <1>5 DEF IInv

LEMMA Handled ==
  ASSUME IInv, udp.pc = "handle"
  PROVE  /\ udp # NotBusy /\ Sound(udp.copy) /\ udp.msg \in Message
         /\ udp.msg.kind = "endSession" => udp.msg.file \in 0 .. MaxFiles
         /\ udp.msg.kind = "newSession" => udp.msg.name \in Types \ {"secondRace"}
<1>1. udp \in Handling /\ udp # NotBusy
  BY UdpTask DEF NotBusy
<1>2. udp.msg \in Message /\ Sound(udp.copy)
  BY <1>1, UdpTask DEF Handling
<1>3. udp.msg.kind = "endSession" => udp.msg.file \in 1 .. MaxFiles
  BY <1>2 DEF Message
<1>4. udp.msg.kind = "newSession" => udp.msg.name \in Types \ {"secondRace"}
  BY <1>2 DEF Message
<1>5. \A f \in 1 .. MaxFiles : f \in 0 .. MaxFiles
  OBVIOUS
<1> QED
  BY <1>1, <1>2, <1>3, <1>4, <1>5

\* Recording results, with or without stopping acServer first.
LEMMA RecordAndSaveStep ==
  ASSUME IInv, udp # NotBusy, NEW c, Sound(c), c.signUps = udp.copy.signUps, NEW file \in 0 .. MaxFiles,
         NEW type \in Types \cup {""}, RecordAndSave(c, file, type), signed' = signed
  PROVE  /\ ThreadsFit' /\ CopiesSound' /\ CopiesFresh' /\ SignUpsKept'
         /\ disturbed' \subseteq {"overtaken", "late"} /\ active' \in Active
<1>1. active \in Active /\ disturbed \subseteq {"overtaken", "late"}
  BY DEF IInv, RestFits
<1> DEFINE last == active.type \in Types /\ c.sessions[active.type].found /\ active.type = LastSession
<1>2. CASE last
  <2>1. PICK d : d = Recorded(c, file)
    OBVIOUS
  <2>2. Sound(d) /\ d.signUps = c.signUps /\ d \in Championship
    BY <1>2, <2>1, RecordedSound DEF Sound
  <2>3. /\ active' = Inactive /\ UNCHANGED <<store, th, disturbed>>
        /\ udp' = [pc |-> "stop", copy |-> d, next |-> type, stale |-> udp.stale]
    BY <1>2, <2>1 DEF RecordAndSave
  <2>4. active' \in Active
    BY <2>3 DEF Inactive, Active
  <2>5. udp.stale \in BOOLEAN /\ (~udp.stale => udp.copy.signUps = store.signUps)
    BY UdpTask DEF IInv, CopiesFresh
  <2>6. udp' \in Ending /\ udp'.copy = d /\ udp'.stale = udp.stale
    BY <2>2, <2>3, <2>5 DEF Ending
  <2>7. udp' # NotBusy /\ ~udp'.stale => udp'.copy.signUps = store.signUps
    BY <2>2, <2>5, <2>6
  <2>8. ThreadsFit' /\ CopiesSound' /\ CopiesFresh' /\ SignUpsKept'
    BY <2>2, <2>3, <2>6, <2>7, UdpBecomes
  <2> QED
    BY <1>1, <2>3, <2>4, <2>8
<1>3. CASE ~last
  <2>1. PICK d : d = IF active.type \in Types THEN Recorded(c, file) ELSE c
    OBVIOUS
  <2>2. Sound(d) /\ d.signUps = c.signUps
    BY <2>1, RecordedSound
  <2>3. /\ active' = Entered(type) /\ Save(d) /\ udp' = NotBusy
        /\ disturbed' = disturbed \cup Lost(udp)
    BY <1>3, <2>1 DEF RecordAndSave
  <2>4. active' \in Active
    BY <1>1, <2>3, EnteredActive
  <2> QED
    BY <2>2, <2>3, <2>4, UdpSaves
<1> QED
  BY <1>2, <1>3

LEMMA HandleEndSessionStep ==
  ASSUME IInv, HandleEndSession
  PROVE  IInv'
<1>1. udp # NotBusy /\ Sound(udp.copy) /\ udp.msg.file \in 0 .. MaxFiles
  BY Handled DEF HandleEndSession
<1>2. RecordAndSave(udp.copy, udp.msg.file, "") /\ signed' = signed
  BY DEF HandleEndSession
<1>3. /\ ThreadsFit' /\ CopiesSound' /\ CopiesFresh' /\ SignUpsKept'
      /\ disturbed' \subseteq {"overtaken", "late"} /\ active' \in Active
  BY <1>1, <1>2, RecordAndSaveStep
<1>4. ServerFits'
  BY <1>1 DEF HandleEndSession, IInv, ServerFits
<1>5. RestFits'
  BY <1>3 DEF HandleEndSession, IInv, RestFits
<1> QED
  BY <1>3, <1>4, <1>5 DEF IInv

LEMMA HandleLapStep ==
  ASSUME IInv, HandleLap
  PROVE  IInv'
<1>1. udp # NotBusy /\ Sound(udp.copy)
  BY Handled DEF HandleLap
<1>2. /\ Save(udp.copy) /\ udp' = NotBusy /\ disturbed' = disturbed \cup Lost(udp) /\ signed' = signed
  BY DEF HandleLap
<1>3. /\ ThreadsFit' /\ CopiesSound' /\ CopiesFresh' /\ SignUpsKept'
      /\ disturbed' \subseteq {"overtaken", "late"}
  BY <1>1, <1>2, UdpSaves
<1>4. active' \in Active
  BY DEF HandleLap, IInv, RestFits, Active
<1>5. server' \in {"none", "champ", "other"} /\ UNCHANGED <<acServer, queue>>
  BY DEF HandleLap, IInv, ServerFits
<1>6. RestFits'
  BY <1>3, <1>4 DEF HandleLap, IInv, RestFits
<1> QED
  BY <1>3, <1>5, <1>6, ServerKept DEF IInv

LEMMA HandleNewSessionStep ==
  ASSUME IInv, HandleNewSession
  PROVE  IInv'
<1>1. udp # NotBusy /\ Sound(udp.copy) /\ udp.msg.name \in Types
  BY Handled DEF HandleNewSession
<1>2. PICK type : type = TypeNamed(udp.copy, udp.msg.name)
  OBVIOUS
<1>3. PICK c : c = Begun(udp.copy, type)
  OBVIOUS
<1>4. type \in Types
  BY <1>1, <1>2, TypeNamedIs
<1>5. Sound(c) /\ c.signUps = udp.copy.signUps
  BY <1>1, <1>3, <1>4, BegunSound
<1>6. \/ RecordAndSave(c, newest, type)
      \/ /\ active' = Entered(type) /\ Save(c) /\ udp' = NotBusy
         /\ disturbed' = disturbed \cup Lost(udp)
  BY <1>2, <1>3, Zenon DEF HandleNewSession, Begun, LastWritten
<1>7. signed' = signed
  BY DEF HandleNewSession
<1>8. active \in Active /\ newest \in 0 .. MaxFiles
  BY DEF IInv, RestFits, ServerFits
<1>9. /\ ThreadsFit' /\ CopiesSound' /\ CopiesFresh' /\ SignUpsKept'
      /\ disturbed' \subseteq {"overtaken", "late"} /\ active' \in Active
  <2>1. CASE RecordAndSave(c, newest, type)
    BY <1>1, <1>4, <1>5, <1>7, <1>8, <2>1, RecordAndSaveStep
  <2>2. CASE /\ active' = Entered(type) /\ Save(c) /\ udp' = NotBusy
             /\ disturbed' = disturbed \cup Lost(udp)
    BY <1>1, <1>4, <1>5, <1>7, <1>8, <2>2, UdpSaves, EnteredActive
  <2> QED
    BY <1>6, <2>1, <2>2
<1>10. server' \in {"none", "champ", "other"} /\ UNCHANGED <<acServer, queue>>
  BY DEF HandleNewSession, IInv, ServerFits
<1>11. RestFits'
  BY <1>9 DEF HandleNewSession, IInv, RestFits
<1> QED
  BY <1>9, <1>10, <1>11, ServerKept DEF IInv

LEMMA StopStep ==
  ASSUME IInv, Stop
  PROVE  IInv'
<1>1. udp \in Ending /\ Sound(udp.copy) /\ udp # NotBusy
  BY UdpTask DEF Stop, NotBusy
<1>2. udp' = [udp EXCEPT !.pc = "save"]
  BY DEF Stop
<1>3. udp' \in Ending /\ udp'.copy = udp.copy /\ udp'.stale = udp.stale
  BY <1>1, <1>2 DEF Ending
<1>4. UNCHANGED <<store, th, signed>> /\ disturbed \subseteq disturbed'
  BY DEF Stop
<1>5. ~udp.stale => udp.copy.signUps = store.signUps
  BY <1>1 DEF IInv, CopiesFresh
<1>6. ThreadsFit' /\ CopiesSound' /\ CopiesFresh' /\ SignUpsKept'
  BY <1>1, <1>3, <1>4, <1>5, UdpBecomes
<1>7. server' \in {"none", "champ", "other"} /\ UNCHANGED <<acServer, queue>>
  BY DEF Stop
<1>8. RestFits'
  <2>1. disturbed' \subseteq {"overtaken", "late"}
    BY DEF Stop, IInv, RestFits
  <2> QED
    BY <2>1 DEF Stop, IInv, RestFits
<1> QED
  BY <1>6, <1>7, <1>8, ServerKept DEF IInv

LEMMA SaveCompletedStep ==
  ASSUME IInv, SaveCompleted
  PROVE  IInv'
<1>1. udp \in Ending /\ Sound(udp.copy) /\ udp # NotBusy
  BY UdpTask DEF SaveCompleted, NotBusy
<1>2. /\ Save(udp.copy) /\ udp' = NotBusy /\ disturbed' = disturbed \cup Lost(udp) /\ signed' = signed
  BY DEF SaveCompleted
<1>3. /\ ThreadsFit' /\ CopiesSound' /\ CopiesFresh' /\ SignUpsKept'
      /\ disturbed' \subseteq {"overtaken", "late"}
  BY <1>1, <1>2, UdpSaves
<1>4. active' \in Active
  <2>1. udp.next \in Types \cup {""} /\ active \in Active /\ active' = Entered(udp.next)
    BY <1>1 DEF Ending, SaveCompleted, IInv, RestFits
  <2> QED
    BY <2>1, EnteredActive
<1>5. server' \in {"none", "champ", "other"} /\ UNCHANGED <<acServer, queue>>
  BY DEF SaveCompleted, IInv, ServerFits
<1>6. RestFits'
  BY <1>3, <1>4 DEF SaveCompleted, IInv, RestFits
<1> QED
  BY <1>3, <1>5, <1>6, ServerKept DEF IInv

------------------------------------------------------------------------------
(* Requests.                                                                    *)

\* What most steps of handlers leave alone.
LEMMA HandlersLeave ==
  ASSUME IInv, server' \in {"none", "champ", "other"}, UNCHANGED <<acServer, queue>>,
         active' \in Active, signed' \subseteq 1 .. MaxCalls, disturbed' \subseteq {"overtaken", "late"},
         calls' \in 0 .. MaxCalls, ThreadsFit' /\ CopiesSound' /\ CopiesFresh' /\ SignUpsKept'
  PROVE  IInv'
BY ServerKept DEF IInv, RestFits

LEMMA Requested ==
  ASSUME IInv, NEW h \in Handlers, Request(h)
  PROVE  calls' \in 0 .. MaxCalls /\ calls' \in 1 .. MaxCalls
<1>1. calls \in 0 .. MaxCalls /\ calls < MaxCalls /\ calls' = calls + 1
  BY DEF Request, IInv, RestFits
<1>2. MaxCalls \in Nat
  BY Bounds
<1> QED
  BY <1>1, <1>2

LEMMA RestNow ==
  ASSUME IInv
  PROVE  /\ active \in Active /\ signed \subseteq 1 .. MaxCalls /\ calls \in 0 .. MaxCalls
         /\ disturbed \subseteq {"overtaken", "late"} /\ server \in {"none", "champ", "other"}
         /\ Sound(store) /\ store \in Championship
BY DEF IInv, RestFits, ServerFits, CopiesSound, Sound

LEMMA StartingTasks ==
  /\ [pc |-> "start", stale |-> FALSE] \in Starting
  /\ [pc |-> "launch", stale |-> FALSE] \in Starting
  /\ \A x \in {NotBusy} \cup Starting : x.pc \notin {"stop", "cancel", "signUp"}
<1>1. \A x \in Starting : x.pc \notin {"stop", "cancel", "signUp"}
  BY DEF Starting
<1>2. NotBusy.pc = "idle"
  BY DEF NotBusy
<1>3. [pc |-> "start", stale |-> FALSE] \in Starting /\ [pc |-> "launch", stale |-> FALSE] \in Starting
  BY DEF Starting
<1> QED
  BY <1>1, <1>2, <1>3

LEMMA CallStartStep ==
  ASSUME IInv, NEW h \in Handlers, CallStart(h)
  PROVE  IInv'
<1>1. PICK x \in Starting : Become(h, x)
  BY StartingTasks DEF CallStart
<1>2. UNCHANGED <<acServer, server, queue, store, active, udp, signed, disturbed>>
  BY DEF CallStart
<1>3. ThreadsFit' /\ CopiesSound' /\ CopiesFresh' /\ SignUpsKept'
  BY <1>1, <1>2, StartingTasks, HandlerBecomes
<1>4. calls' \in 0 .. MaxCalls
  BY Requested DEF CallStart
<1> QED
  BY <1>2, <1>3, <1>4, RestNow, HandlersLeave

LEMMA SetActiveStep ==
  ASSUME IInv, NEW h \in Handlers, SetActive(h)
  PROVE  IInv'
<1>1. PICK x \in Starting : Become(h, x)
  BY StartingTasks DEF SetActive
<1>2. UNCHANGED <<acServer, server, queue, store, udp, signed, calls>>
  BY DEF SetActive
<1>3. active' \in Active
  BY DEF SetActive, Started, Active
<1>4. disturbed \subseteq disturbed' /\ disturbed' \subseteq {"overtaken", "late"}
  BY RestNow DEF SetActive
<1>5. ThreadsFit' /\ CopiesSound' /\ CopiesFresh' /\ SignUpsKept'
  BY <1>1, <1>2, <1>4, StartingTasks, HandlerBecomes
<1> QED
  BY <1>2, <1>3, <1>4, <1>5, RestNow, HandlersLeave

LEMMA LaunchStep ==
  ASSUME IInv, NEW h \in Handlers, Launch(h)
  PROVE  IInv'
<1>1. Become(h, NotBusy) /\ UNCHANGED <<files, queue, store, active, udp, signed, calls>>
  BY DEF Launch
<1>2. disturbed \subseteq disturbed' /\ disturbed' \subseteq {"overtaken", "late"}
  BY RestNow DEF Launch
<1>3. ThreadsFit' /\ CopiesSound' /\ CopiesFresh' /\ SignUpsKept'
  BY <1>1, <1>2, StartingTasks, HandlerBecomes
<1>4. ServerFits'
  <2>1. starts \in 0 .. MaxRuns /\ starts < MaxRuns /\ starts' = starts + 1
    BY DEF Launch, IInv, ServerFits
  <2>2. MaxRuns \in Nat
    BY Bounds
  <2>3. starts' \in 0 .. MaxRuns
    BY <2>1, <2>2
  <2>4. current' \in 0 .. Len(EventSessions)
    <3> DEFINE n == Len(EventSessions)
    <3>1. n \in Nat
      BY Bounds
    <3> HIDE DEF n
    <3>2. 0 \in 0 .. n
      BY <3>1
    <3> QED
      BY <3>2 DEF n, Launch
  <2>5. server' \in {"none", "champ", "other"} /\ lapped' \in BOOLEAN
    BY DEF Launch
  <2> QED
    BY <1>1, <2>3, <2>4, <2>5 DEF Launch, IInv, ServerFits
<1>5. RestFits'
  BY <1>1, <1>2 DEF IInv, RestFits
<1> QED
  BY <1>3, <1>4, <1>5 DEF IInv

LEMMA LaunchFailsStep ==
  ASSUME IInv, NEW h \in Handlers, LaunchFails(h)
  PROVE  IInv'
<1>1. /\ Become(h, NotBusy) /\ server' \in {"none", "champ", "other"}
      /\ UNCHANGED <<acServer, queue, store, active, udp, signed, disturbed, calls>>
  BY DEF LaunchFails
<1>2. ThreadsFit' /\ CopiesSound' /\ CopiesFresh' /\ SignUpsKept'
  BY <1>1, StartingTasks, HandlerBecomes
<1> QED
  BY <1>1, <1>2, RestNow, HandlersLeave

\* The championship whose event is to be cancelled.
Emptied(c) == [c EXCEPT !.started = FALSE, !.completed = FALSE, !.sessions = NoSessions]

LEMMA EmptiedSound ==
  ASSUME NEW c \in Championship
  PROVE  Sound(Emptied(c)) /\ Emptied(c).signUps = c.signUps
<1>1. NoSessions \in [Types -> SessionRecord] /\ \A s \in Types : ~NoSessions[s].found
  BY FreshSession DEF NoSessions
<1>2. PICK c1 : c1 = WithStarted(c, FALSE)
  OBVIOUS
<1>3. PICK c2 : c2 = WithCompleted(c1, FALSE)
  OBVIOUS
<1>4. PICK c3 : c3 = WithSessions(c2, NoSessions)
  OBVIOUS
<1>5. Emptied(c) = c3
  BY <1>2, <1>3, <1>4, Zenon DEF Emptied, WithStarted, WithCompleted, WithSessions
<1>6. c1 \in Championship /\ c1.signUps = c.signUps
  BY <1>2, ChampionshipUpdated
<1>7. c2 \in Championship /\ c2.completed = FALSE /\ c2.signUps = c.signUps
  BY <1>3, <1>6, ChampionshipUpdated
<1>8. c3 \in Championship /\ c3.completed = FALSE /\ c3.sessions = NoSessions /\ c3.signUps = c.signUps
  BY <1>1, <1>4, <1>7, ChampionshipUpdated
<1> QED
  BY <1>1, <1>5, <1>8 DEF Sound

LEMMA CallCancelStep ==
  ASSUME IInv, NEW h \in Handlers, CallCancel(h)
  PROVE  IInv'
<1>1. PICK c : c = Emptied(store)
  OBVIOUS
<1>2. Sound(c) /\ c.signUps = store.signUps /\ c \in Championship
  BY <1>1, EmptiedSound, RestNow DEF Sound
<1>3. PICK next \in {"cancelled", "start"} :
        Become(h, [pc |-> "stop", next |-> next, stale |-> FALSE, copy |-> c])
  BY <1>1, Zenon DEF CallCancel, Emptied
<1>4. PICK x : x = [pc |-> "stop", next |-> next, stale |-> FALSE, copy |-> c]
  OBVIOUS
<1>5. x \in Cancelling /\ x.copy = c
  BY <1>2, <1>4 DEF Cancelling
<1>6. UNCHANGED <<acServer, server, queue, store, active, udp, signed, disturbed>>
  BY DEF CallCancel
<1>7. Become(h, x)
  BY <1>3, <1>4
<1>8. ThreadsFit' /\ CopiesSound' /\ CopiesFresh' /\ SignUpsKept'
  BY <1>2, <1>5, <1>6, <1>7, HandlerBecomes
<1>9. calls' \in 0 .. MaxCalls
  BY Requested DEF CallCancel
<1> QED
  BY <1>6, <1>8, <1>9, RestNow, HandlersLeave

LEMMA StopByStep ==
  ASSUME IInv, NEW h \in Handlers, StopBy(h)
  PROVE  IInv'
<1>1. th[h] \in Cancelling /\ Sound(th[h].copy)
  BY HandlerTask DEF StopBy
<1>2. PICK x : x = [th[h] EXCEPT !.pc = "cancel"]
  OBVIOUS
<1>3. x \in Cancelling /\ x.copy = th[h].copy /\ x.stale = th[h].stale
  BY <1>1, <1>2 DEF Cancelling
<1>4. ~th[h].stale => th[h].copy.signUps = store.signUps
  BY DEF StopBy, IInv, CopiesFresh
<1>5. /\ Become(h, x) /\ server' \in {"none", "champ", "other"}
      /\ UNCHANGED <<acServer, queue, store, active, udp, signed, disturbed, calls>>
  BY <1>2 DEF StopBy
<1>6. ThreadsFit' /\ CopiesSound' /\ CopiesFresh' /\ SignUpsKept'
  BY <1>1, <1>3, <1>4, <1>5, HandlerBecomes
<1> QED
  BY <1>5, <1>6, RestNow, HandlersLeave

LEMMA SaveCancelledStep ==
  ASSUME IInv, NEW h \in Handlers, SaveCancelled(h)
  PROVE  IInv'
<1>1. Sound(th[h].copy)
  BY HandlerTask DEF SaveCancelled
<1>2. ~th[h].stale => th[h].copy.signUps = store.signUps
  BY DEF SaveCancelled, IInv, CopiesFresh
<1>3. PICK x \in {NotBusy} \cup Starting : SaveBy(h, th[h].copy, x)
  BY StartingTasks DEF SaveCancelled
<1>4. /\ UNCHANGED <<acServer, server, queue, active, signed, calls>>
      /\ disturbed' = disturbed \cup Lost(th[h])
  BY DEF SaveCancelled
<1>5. ~th[h].stale /\ "overtaken" \notin disturbed => signed' \subseteq th[h].copy.signUps
  BY <1>2, <1>4 DEF IInv, SignUpsKept
<1>6. /\ ThreadsFit' /\ CopiesSound' /\ CopiesFresh' /\ SignUpsKept'
      /\ disturbed' \subseteq {"overtaken", "late"}
  BY <1>1, <1>3, <1>4, <1>5, HandlerSaves
<1> QED
  BY <1>4, <1>6, RestNow, HandlersLeave

LEMMA StartOtherStep ==
  ASSUME IInv, NEW h \in Handlers, StartOther(h)
  PROVE  IInv'
<1>1. /\ server' \in {"none", "champ", "other"} /\ disturbed \subseteq disturbed'
      /\ UNCHANGED <<acServer, queue, store, active, udp, th, signed, disturbed>>
  BY DEF StartOther
<1>2. ThreadsFit' /\ CopiesSound' /\ CopiesFresh' /\ SignUpsKept'
  BY <1>1, StoreKept
<1>3. calls' \in 0 .. MaxCalls
  BY Requested DEF StartOther
<1> QED
  BY <1>1, <1>2, <1>3, RestNow, HandlersLeave

LEMMA OtherFileFits ==
  ASSUME IInv, OtherFile, newest' = Len(files')
  PROVE  files' \in Seq(File) /\ Len(files') <= MaxFiles /\ newest' \in 0 .. MaxFiles
<1>1. PICK x \in File : files' = Append(files, x)
  BY Bounds DEF OtherFile, File
<1>2. files \in Seq(File) /\ Len(files) < MaxFiles /\ MaxFiles \in Nat
  BY Bounds DEF OtherFile, IInv, ServerFits
<1>3. files' \in Seq(File) /\ Len(files') = Len(files) + 1 /\ Len(files) \in Nat
  BY <1>1, <1>2
<1> QED
  BY <1>2, <1>3

LEMMA FilesStep ==
  ASSUME IInv, files' \in Seq(File), Len(files') <= MaxFiles, newest' \in 0 .. MaxFiles, calls' \in 0 .. MaxCalls,
         UNCHANGED <<server, starts, current, lapped, queue, store, active, udp, th, signed, disturbed>>
  PROVE  IInv'
<1>1. ServerFits'
  BY DEF IInv, ServerFits
<1>2. RestFits'
  BY DEF IInv, RestFits
<1>3. ThreadsFit' /\ CopiesSound' /\ CopiesFresh' /\ SignUpsKept'
  BY StoreKept
<1> QED
  BY <1>1, <1>2, <1>3 DEF IInv

LEMMA OtherFileWrittenStep ==
  ASSUME IInv, OtherFileWritten
  PROVE  IInv'
<1>1. /\ OtherFile /\ newest' = Len(files')
      /\ UNCHANGED <<server, starts, current, lapped, queue, store, active, udp, th, signed, disturbed, calls>>
  BY DEF OtherFileWritten
<1> QED
  BY <1>1, OtherFileFits, FilesStep, RestNow

LEMMA SaveResultsStep ==
  ASSUME IInv, NEW h \in Handlers, SaveResults(h)
  PROVE  IInv'
<1>1. UNCHANGED <<server, starts, current, lapped, queue, store, active, udp, th, signed, disturbed>>
  BY DEF SaveResults
<1>2. calls' \in 0 .. MaxCalls
  BY Requested DEF SaveResults
<1>3. files \in Seq(File) /\ Len(files) <= MaxFiles /\ MaxFiles \in Nat
  BY Bounds DEF IInv, ServerFits
<1>4. CASE newest' \in 1 .. Len(files) /\ files' = files
  <2>1. newest' \in 0 .. MaxFiles
    BY <1>3, <1>4
  <2> QED
    BY <1>1, <1>2, <1>3, <1>4, <2>1, FilesStep
<1>5. CASE OtherFile /\ newest' = Len(files')
  BY <1>1, <1>2, <1>5, OtherFileFits, FilesStep
<1> QED
  BY <1>4, <1>5 DEF SaveResults

LEMMA CallSignUpStep ==
  ASSUME IInv, NEW h \in Handlers, CallSignUp(h)
  PROVE  IInv'
<1>1. calls' \in 1 .. MaxCalls /\ calls' \in 0 .. MaxCalls
  BY Requested DEF CallSignUp
<1>2. PICK x : x = [pc |-> "signUp", no |-> calls', copy |-> store, stale |-> FALSE]
  OBVIOUS
<1>3. x \in SigningUp /\ x.copy = store
  BY <1>1, <1>2, RestNow DEF SigningUp
<1>4. Become(h, x) /\ UNCHANGED <<acServer, server, queue, store, active, udp, signed, disturbed>>
  BY <1>2 DEF CallSignUp
<1>5. ThreadsFit' /\ CopiesSound' /\ CopiesFresh' /\ SignUpsKept'
  BY <1>3, <1>4, RestNow, HandlerBecomes
<1> QED
  BY <1>1, <1>4, <1>5, RestNow, HandlersLeave

WithSignUp(c, no) == [c EXCEPT !.signUps = @ \cup {no}]

LEMMA SaveSignUpStep ==
  ASSUME IInv, NEW h \in Handlers, SaveSignUp(h)
  PROVE  IInv'
<1>1. th[h] \in SigningUp /\ Sound(th[h].copy)
  BY HandlerTask DEF SaveSignUp
<1>2. PICK no : no = th[h].no
  OBVIOUS
<1>3. PICK a : a = th[h].copy
  OBVIOUS
<1>4. no \in 1 .. MaxCalls /\ Sound(a) /\ a \in Championship
  BY <1>1, <1>2, <1>3 DEF SigningUp, Sound
<1>5. PICK c : c = WithSignUp(a, no)
  OBVIOUS
<1>6. /\ c \in Championship /\ c.started = a.started /\ c.completed = a.completed
      /\ c.sessions = a.sessions /\ c.signUps = a.signUps \cup {no}
  BY <1>4, <1>5 DEF WithSignUp, Championship
<1>7. Sound(c)
  BY <1>4, <1>6 DEF Sound
<1>8. ~th[h].stale => a.signUps = store.signUps
  BY <1>3 DEF SaveSignUp, IInv, CopiesFresh
<1>9. SaveBy(h, c, NotBusy)
  BY <1>2, <1>3, <1>5, Zenon DEF SaveSignUp, WithSignUp
<1>10. /\ UNCHANGED <<acServer, server, queue, active, calls>>
       /\ signed' = signed \cup {no} /\ disturbed' = disturbed \cup Lost(th[h])
  BY <1>2 DEF SaveSignUp
<1>11. ~th[h].stale /\ "overtaken" \notin disturbed => signed' \subseteq c.signUps
  BY <1>6, <1>8, <1>10 DEF IInv, SignUpsKept
<1>12. /\ ThreadsFit' /\ CopiesSound' /\ CopiesFresh' /\ SignUpsKept'
       /\ disturbed' \subseteq {"overtaken", "late"}
  BY <1>7, <1>9, <1>10, <1>11, HandlerSaves
<1>13. signed' \subseteq 1 .. MaxCalls
  BY <1>4, <1>10, RestNow
<1> QED
  BY <1>10, <1>12, <1>13, RestNow, HandlersLeave

------------------------------------------------------------------------------
(* The theorems.                                                                *)

LEMMA InvInit ==
  ASSUME SessionsInit
  PROVE  IInv
<1>1. ServerFits
  <2>1. MaxRuns \in Nat /\ MaxFiles \in Nat /\ MaxQueue \in Nat /\ Len(EventSessions) \in Nat
    BY Bounds
  <2> DEFINE n == Len(EventSessions)
  <2> HIDE DEF n
  <2>2. 0 \in 0 .. n
    BY <2>1 DEF n
  <2>3. starts = 0 /\ current = 0 /\ files = <<>> /\ newest = 0 /\ queue = <<>>
    BY DEF SessionsInit
  <2>4. starts \in 0 .. MaxRuns /\ current \in 0 .. n /\ newest \in 0 .. MaxFiles
    BY <2>1, <2>2, <2>3
  <2>5. files \in Seq(File) /\ Len(files) <= MaxFiles /\ queue \in Seq(Message) /\ Len(queue) <= MaxQueue
    BY <2>1, <2>3
  <2> QED
    BY <2>4, <2>5 DEF n, ServerFits, SessionsInit
<1>2. RestFits
  <2>1. MaxCalls \in Nat /\ calls = 0
    BY Bounds DEF SessionsInit
  <2>2. calls \in 0 .. MaxCalls
    BY <2>1
  <2> QED
    BY <2>2 DEF RestFits, SessionsInit, Inactive, Active
<1>3. ThreadsFit
  BY DEF ThreadsFit, SessionsInit
<1>4. Sound(store)
  <2>1. NoSessions \in [Types -> SessionRecord] /\ \A s \in Types : ~NoSessions[s].found
    BY FreshSession DEF NoSessions
  <2>2. store = [started |-> FALSE, completed |-> FALSE, sessions |-> NoSessions, signUps |-> {}]
    BY DEF SessionsInit
  <2>3. store \in Championship /\ store.sessions = NoSessions /\ ~store.completed
    BY <2>1, <2>2 DEF Championship
  <2> QED
    BY <2>1, <2>3 DEF Sound
<1>5. udp = NotBusy /\ \A h \in Handlers : th[h].pc = "idle"
  BY DEF SessionsInit, NotBusy
<1>6. CopiesSound /\ CopiesFresh
  BY <1>4, <1>5 DEF CopiesSound, CopiesFresh
<1>7. SignUpsKept
  BY DEF SignUpsKept, SessionsInit
<1> QED
  BY <1>1, <1>2, <1>3, <1>6, <1>7 DEF IInv

LEMMA InvNext ==
  ASSUME IInv, [SessionsNext]_sessionVars
  PROVE  IInv'
<1>1. CASE UNCHANGED sessionVars
  <2>1. /\ UNCHANGED <<server, queue, store, active, udp, th, signed, disturbed, calls>>
        /\ UNCHANGED acServer
    BY <1>1 DEF sessionVars, acServer
  <2>2. ThreadsFit' /\ CopiesSound' /\ CopiesFresh' /\ SignUpsKept'
    BY <2>1, StoreKept
  <2> QED
    BY <2>1, <2>2, RestNow, HandlersLeave
<1>2. CASE LapCompleted \/ SessionEnds \/ SessionEndsUnreported \/ SessionBegins \/ SessionRestarts
  BY <1>2, AcServerSteps
<1>6. CASE OtherFileWritten
  BY <1>6, OtherFileWrittenStep
<1>3. CASE \E i \in 1 .. MaxQueue : Receive(i)
  BY <1>3, ReceiveStep
<1>4. CASE HandleEndSession \/ HandleLap \/ HandleNewSession \/ Stop \/ SaveCompleted
  BY <1>4, HandleEndSessionStep, HandleLapStep, HandleNewSessionStep, StopStep, SaveCompletedStep
<1>5. ASSUME NEW h \in Handlers,
             \/ CallStart(h) \/ SetActive(h) \/ Launch(h) \/ LaunchFails(h)
             \/ CallCancel(h) \/ StopBy(h) \/ SaveCancelled(h)
             \/ StartOther(h) \/ SaveResults(h) \/ CallSignUp(h) \/ SaveSignUp(h)
      PROVE  IInv'
  BY <1>5, CallStartStep, SetActiveStep, LaunchStep, LaunchFailsStep, CallCancelStep, StopByStep,
     SaveCancelledStep, StartOtherStep, SaveResultsStep, CallSignUpStep, SaveSignUpStep
<1> QED
  BY <1>1, <1>2, <1>3, <1>4, <1>5, <1>6 DEF SessionsNext

THEOREM SessionsInvariant == SessionsSpec => []IInv
BY InvInit, InvNext, PTL DEF SessionsSpec

\* The type invariant: an event is only complete, and only has sessions, if it was started,
\* however starting, cancelling and restarting it interleave with the messages of acServer.
THEOREM SessionsTypeCorrect == SessionsSpec => []SessionsTypeOK
<1>1. IInv => SessionsTypeOK
  <2> SUFFICES ASSUME IInv
               PROVE  SessionsTypeOK
    OBVIOUS
  <2>1. udp.pc \in {"idle", "handle", "stop", "save"}
    BY TasksNamed DEF IInv, ThreadsFit
  <2>2. \A h \in Handlers : th[h].pc \in {"idle", "start", "launch", "stop", "cancel", "signUp"}
    <3> SUFFICES ASSUME NEW h \in Handlers
                 PROVE  th[h].pc \in {"idle", "start", "launch", "stop", "cancel", "signUp"}
      OBVIOUS
    <3> QED
      BY HandlerTask, TasksNamed
  <2>3. active.on \in BOOLEAN /\ active.type \in Types \cup {""} /\ active.laps \in BOOLEAN
    BY RestNow DEF Active
  <2>4. Sound(store)
    BY RestNow
  <2>5. ServerFits /\ RestFits
    BY DEF IInv
  <2> QED
    BY <2>1, <2>2, <2>3, <2>4, <2>5 DEF SessionsTypeOK, ServerFits, RestFits, Sound
<1> QED
  BY <1>1, SessionsInvariant, PTL

\* A sign up that was accepted stays in the championship while its event is started,
\* cancelled, restarted and completed, as long as no thread saved a championship that
\* another one had changed since it was loaded.
THEOREM SignUpsStay == SessionsSpec => []SignUpsKept
<1>1. IInv => SignUpsKept
  BY DEF IInv
<1> QED
  BY <1>1, SessionsInvariant, PTL

------------------------------------------------------------------------------
(* What happened in the event, as far as it was told.  In a run that nothing    *)
(* disturbed, the messages under way describe the way of acServer from the      *)
(* session that the championship shows to the one that is played now: each of   *)
(* them was sent where the one before left acServer.                            *)

HIDE SessionsAssumption

\* The session after s, the first one after "", and the name acServer has for it.
After(s) ==
  IF s = "practice" THEN "race"
  ELSE IF s = "race" /\ "secondRace" \in Types THEN "secondRace"
  ELSE IF "practice" \in Types THEN "practice" ELSE "race"
NameOf(s) == IF s = "secondRace" THEN "race" ELSE s

\* What acServer has sent and nobody has handled, and where it was when it sent a message
\* of it, or is now.
Pending == IF udp.pc = "handle" THEN <<udp.msg>> \o queue ELSE queue
View(p, i) == IF i <= Len(p) THEN p[i].was ELSE Now
Leaves(p, i) == View(p, i).session # "" /\ View(p, i + 1).session # View(p, i).session

\* How a session ended that was not reported.
EndedOddly(w) ==
  \/ ~w.lapped /\ <<w.session, "empty">> \in unusual
  \/ w.lapped /\ <<w.session, "unsaved">> \in unusual
  \/ /\ w.lapped /\ <<w.session, "unreported">> \in unusual /\ files # <<>>
     /\ behind \/ (files[Len(files)].run = starts => files[Len(files)].type = w.session)

LapSent(p, i) == View(p, i).session # "" /\ View(p, i + 1).session = View(p, i).session /\ View(p, i + 1).lapped
EndSent(p, i) ==
  /\ View(p, i).session # "" /\ View(p, i + 1) = View(p, i)
  /\ p[i].file \in 1 .. Len(files) /\ files[p[i].file] = [run |-> starts, type |-> View(p, i).session]
  /\ i < Len(p) /\ p[i + 1].kind = "newSession" /\ View(p, i + 2).session = After(View(p, i).session)
NewSent(p, i) ==
  /\ View(p, i + 1).session # "" /\ ~View(p, i + 1).lapped /\ p[i].name = NameOf(View(p, i + 1).session)
  /\ View(p, i + 1).session \in {View(p, i).session, After(View(p, i).session)}
  /\ i > 1 /\ Leaves(p, i) => p[i - 1].kind = "endSession" \/ EndedOddly(View(p, i))
\* Where message i of p was sent, and where the next was.
Sent(p, i) ==
  /\ p[i].run = starts
  /\ p[i].kind = "lap" => LapSent(p, i)
  /\ p[i].kind = "endSession" => EndSent(p, i)
  /\ p[i].kind = "newSession" => NewSent(p, i)
Chain(p) == \A i \in 1 .. Len(p) : Sent(p, i)

\* The next message tells that the session was left; the message after which the event is complete.
Leaving(p) == p # <<>> /\ p[1].kind = "newSession" /\ Leaves(p, 1)
Finishes(p, i) ==
  /\ View(p, i).session = LastSession
  /\ \/ p[i].kind = "endSession"
     \/ p[i].kind = "newSession" /\ View(p, i).lapped /\ Leaves(p, i)

\* What a championship c with the active session a shows, when acServer was at w when it sent the
\* next message of p.
SessionKnown(c, a, w) ==
  /\ a.type \in Types /\ c.sessions[a.type].found /\ a.laps = w.lapped
  /\ ~RacesMixedUp \/ w.session = "practice" \/ a.type = "practice" => a.type = w.session
  /\ "practice" \in Types => c.sessions["practice"].found
RacesTold(c, w, p) ==
  ~RacesMixedUp /\ "secondRace" \in Types =>
    /\ w.session = "secondRace" => c.sessions["race"].done
    /\ w.session # "secondRace" /\ c.sessions["race"].done => w.session = "race" /\ Leaving(p)
EndKnown(c, w, p) ==
  /\ Leaving(p) /\ (~RacesMixedUp \/ w.session = "practice") => c.sessions[w.session].done \/ EndedOddly(w)
  /\ "practice" \in Types /\ w.session # "practice" /\ ~c.sessions["practice"].done =>
       unusual \cap {<<"practice", "empty">>, <<"practice", "unsaved">>} # {}
LastKnown(p) ==
  ~RacesMixedUp /\ ~EndMissed /\ (\E f \in 1 .. Len(files) : files[f] = [run |-> starts, type |-> LastSession]) =>
    \E i \in 1 .. Len(p) : Finishes(p, i)
FollowedBy(p) ==
  /\ active.on /\ ~store.completed
  /\ View(p, 1).session = "" => \A s \in Types : ~store.sessions[s].found
  /\ View(p, 1).session # "" =>
       /\ SessionKnown(store, active, View(p, 1)) /\ RacesTold(store, View(p, 1), p)
       /\ EndKnown(store, View(p, 1), p)
  /\ LastKnown(p)

\* The championship follows the run that is going on.
Following ==
  /\ disturbed = {}
  /\ \/ udp = NotBusy /\ server = "champ"
     \/ udp.pc = "handle" /\ ~udp.stale
FollowInv == Following => Chain(Pending) /\ FollowedBy(Pending)

NotExcepted == ~RacesMixedUp /\ ~behind /\ ~misled /\ (\A s \in Types : <<s, "unsaved">> \notin unusual)
Belong(c) ==
  NotExcepted => \A s \in Types : c.sessions[s].results # 0 =>
    /\ c.sessions[s].results \in 1 .. Len(files)
    /\ files[c.sessions[s].results] = [run |-> starts, type |-> s]
Complete(c) ==
  c.completed => \A s \in Types : c.sessions[s].found /\ ~c.sessions[s].done =>
    unusual \cap {<<s, "empty">>, <<s, "unsaved">>} # {}
\* A championship by itself: a session that was not found has nothing recorded.
Whole(c) ==
  /\ \A s \in Types : ~c.sessions[s].found => ~c.sessions[s].done /\ c.sessions[s].results = 0
  /\ c.completed = c.sessions[LastSession].done
  /\ "secondRace" \in Types /\ c.sessions["secondRace"].found => c.sessions["race"].done
WholeInv ==
  /\ Whole(store) /\ (udp # NotBusy => Whole(udp.copy))
  /\ udp.pc = "handle" => ~udp.copy.completed
  /\ udp.pc \in {"stop", "save"} => udp.copy.completed
  /\ \A h \in Handlers : th[h].pc \in {"stop", "cancel"} => th[h].copy.sessions = NoSessions /\ ~th[h].copy.completed
  /\ \A h \in Handlers : th[h].pc = "signUp" => Whole(th[h].copy)
  /\ \A f \in 1 .. Len(files) : files[f].run <= starts
\* acServer and the goroutine that handles messages are only busy with an event that was started.
Ran == server = "champ" \/ udp # NotBusy => starts # 0
\* What is stored, and every copy that will be stored, is right.
RecordedInv ==
  disturbed = {} =>
    /\ Belong(store) /\ Complete(store)
    /\ udp.pc = "handle" /\ ~udp.stale => udp.copy = store
    /\ udp.pc \in {"stop", "save"} /\ ~udp.stale => Belong(udp.copy) /\ Complete(udp.copy)
    /\ udp.pc = "save" => server # "champ"
    /\ \A h \in Handlers :
         /\ th[h].pc = "signUp" /\ ~th[h].stale => th[h].copy = store
         /\ th[h].pc \in {"stop", "cancel"} /\ ~th[h].stale => store.started /\ ~store.completed
         /\ th[h].pc = "cancel" /\ ~th[h].stale => server # "champ"
         /\ th[h].pc = "launch" /\ udp.pc \notin {"stop", "save"} /\ ~store.completed => active.on

LEMMA Shape ==
  /\ LastSession = IF "secondRace" \in Types THEN "secondRace" ELSE "race"
  /\ EventSessions[NextOf(0)] = After("")
  /\ \A i \in 1 .. Len(EventSessions) :
       EventSessions[NextOf(i)] = After(EventSessions[i]) /\ Name(i) = NameOf(EventSessions[i])
<1>1. Types = {EventSessions[i] : i \in 1 .. Len(EventSessions)}
  BY OrderAssumption DEF Types, ToSet
<1>2. CASE EventSessions = <<"race">>
  <2>1. Len(EventSessions) = 1 /\ 1 .. Len(EventSessions) = {1}
    BY <1>2
  <2>2. Types = {"race"}
    BY <1>1, <1>2, <2>1
  <2>3. NextOf(0) = 1 /\ NextOf(1) = 1
    BY <2>1 DEF NextOf
  <2> QED
    BY <1>2, <2>1, <2>2, <2>3 DEF LastSession, After, Name, NameOf
<1>3. CASE EventSessions = <<"practice", "race">>
  <2>1. Len(EventSessions) = 2 /\ 1 .. Len(EventSessions) = {1, 2}
    BY <1>3
  <2>2. Types = {"practice", "race"}
    BY <1>1, <1>3, <2>1
  <2>3. NextOf(0) = 1 /\ NextOf(1) = 2 /\ NextOf(2) = 1
    BY <2>1 DEF NextOf
  <2> QED
    BY <1>3, <2>1, <2>2, <2>3 DEF LastSession, After, Name, NameOf
<1>4. CASE EventSessions = <<"race", "secondRace">>
  <2>1. Len(EventSessions) = 2 /\ 1 .. Len(EventSessions) = {1, 2}
    BY <1>4
  <2>2. Types = {"race", "secondRace"}
    BY <1>1, <1>4, <2>1
  <2>3. NextOf(0) = 1 /\ NextOf(1) = 2 /\ NextOf(2) = 1
    BY <2>1 DEF NextOf
  <2> QED
    BY <1>4, <2>1, <2>2, <2>3 DEF LastSession, After, Name, NameOf
<1>5. CASE EventSessions = <<"practice", "race", "secondRace">>
  <2>1. Len(EventSessions) = 3 /\ 1 .. Len(EventSessions) = {1, 2, 3}
    BY <1>5
  <2>2. Types = {"practice", "race", "secondRace"}
    BY <1>1, <1>5, <2>1
  <2>3. NextOf(0) = 1 /\ NextOf(1) = 2 /\ NextOf(2) = 3 /\ NextOf(3) = 1
    BY <2>1 DEF NextOf
  <2> QED
    BY <1>5, <2>1, <2>2, <2>3 DEF LastSession, After, Name, NameOf
<1> QED
  BY <1>2, <1>3, <1>4, <1>5, OrderAssumption

\* What happens to a championship when results are recorded and when a session begins.
LEMMA RecordedIs ==
  ASSUME NEW c, Sound(c), active.type \in Types, c.sessions[active.type].found,
         NEW file \in 0 .. MaxFiles, NEW d, d = Recorded(c, file)
  PROVE  /\ d.sessions[active.type].found /\ d.sessions[active.type].done
         /\ d.sessions[active.type].results = file
         /\ \A s \in Types \ {active.type} : d.sessions[s] = c.sessions[s]
         /\ d.completed = (active.type = LastSession) /\ d.started = c.started
<1>1. PICK t \in Types : t = active.type
  OBVIOUS
<1>2. PICK c1 : c1 = WithSessions(c, Played(c.sessions, t))
  OBVIOUS
<1>3. PICK c2 : c2 = WithSessions(c1, Filed(c1.sessions, t, file))
  OBVIOUS
<1>4. PICK b \in BOOLEAN : b = (t = LastSession)
  OBVIOUS
<1>5. PICK c3 : c3 = WithCompleted(c2, b)
  OBVIOUS
<1>6. d = c3
  BY <1>1, <1>2, <1>3, <1>4, <1>5, Zenon DEF Recorded, WithCompleted, WithSessions, Played, Filed
<1>7. c \in Championship /\ c.sessions \in [Types -> SessionRecord]
  BY DEF Sound, Championship
<1>8. PICK s1 : s1 = Played(c.sessions, t)
  OBVIOUS
<1>9. PICK s2 : s2 = Filed(s1, t, file)
  OBVIOUS
<1>10. s1 \in [Types -> SessionRecord] /\ s2 \in [Types -> SessionRecord]
  BY <1>7, <1>8, <1>9, SessionsUpdated
<1>11. c1 \in Championship /\ c1.sessions = s1 /\ c1.started = c.started
  BY <1>2, <1>7, <1>8, <1>10, ChampionshipUpdated
<1>12. c2 \in Championship /\ c2.sessions = s2 /\ c2.started = c.started
  BY <1>3, <1>9, <1>10, <1>11, ChampionshipUpdated
<1>13. c3.sessions = s2 /\ c3.started = c.started /\ c3.completed = b
  BY <1>5, <1>12, ChampionshipUpdated
<1>14. c.sessions[t] \in SessionRecord
  BY <1>7
<1>15. /\ s1[t] = [c.sessions[t] EXCEPT !.done = TRUE] /\ \A s \in Types \ {t} : s1[s] = c.sessions[s]
       /\ s2[t] = [s1[t] EXCEPT !.results = file] /\ \A s \in Types \ {t} : s2[s] = s1[s]
  BY <1>7, <1>8, <1>9, <1>10 DEF Played, Filed
<1>16. s2[t].found = c.sessions[t].found /\ s2[t].done /\ s2[t].results = file
  BY <1>14, <1>15 DEF SessionRecord
<1> QED
  BY <1>1, <1>4, <1>6, <1>13, <1>15, <1>16

LEMMA BegunIs ==
  ASSUME NEW c, Sound(c), NEW t \in Types, NEW d, d = Begun(c, t)
  PROVE  /\ d.sessions[t] = IF c.sessions[t].found THEN c.sessions[t] ELSE Fresh
         /\ \A s \in Types \ {t} : d.sessions[s] = c.sessions[s]
         /\ d.completed = c.completed /\ d.started
<1>1. PICK c1 : c1 = WithStarted(c, TRUE)
  OBVIOUS
<1>2. PICK s1 : s1 = Opened(c1.sessions, t)
  OBVIOUS
<1>3. d = WithSessions(c1, s1)
  BY <1>1, <1>2, Zenon DEF Begun, WithStarted, WithSessions, Opened
<1>4. c \in Championship /\ c.sessions \in [Types -> SessionRecord]
  BY DEF Sound, Championship
<1>5. c1 \in Championship /\ c1.sessions = c.sessions /\ c1.started /\ c1.completed = c.completed
  BY <1>1, <1>4, ChampionshipUpdated
<1>6. s1 \in [Types -> SessionRecord]
  BY <1>2, <1>4, <1>5, SessionsUpdated
<1>7. d.sessions = s1 /\ d.completed = c.completed /\ d.started
  BY <1>3, <1>5, <1>6, ChampionshipUpdated
<1>8. /\ s1[t] = IF c.sessions[t].found THEN c.sessions[t] ELSE Fresh
      /\ \A s \in Types \ {t} : s1[s] = c.sessions[s]
  BY <1>2, <1>4, <1>5 DEF Opened
<1> QED
  BY <1>7, <1>8

LEMMA FreshIs == Fresh.found /\ ~Fresh.done /\ Fresh.results = 0
BY DEF Fresh, Missing

LEMMA MissingIs == \A s \in Types : ~NoSessions[s].found /\ ~NoSessions[s].done /\ NoSessions[s].results = 0
BY DEF NoSessions, Missing

LEMMA SessionsTyped ==
  ASSUME NEW c, Sound(c), NEW s \in Types
  PROVE  /\ c.sessions[s].found \in BOOLEAN /\ c.sessions[s].done \in BOOLEAN
         /\ c.sessions[s].results \in 0 .. MaxFiles /\ c.completed \in BOOLEAN
BY DEF Sound, Championship, SessionRecord

LEMMA EmptiedIs ==
  ASSUME NEW c \in Championship
  PROVE  Emptied(c).sessions = NoSessions /\ ~Emptied(c).completed
<1>1. NoSessions \in [Types -> SessionRecord]
  BY FreshSession DEF NoSessions
<1>2. PICK c1 : c1 = WithStarted(c, FALSE)
  OBVIOUS
<1>3. PICK c2 : c2 = WithCompleted(c1, FALSE)
  OBVIOUS
<1>4. PICK c3 : c3 = WithSessions(c2, NoSessions)
  OBVIOUS
<1>5. Emptied(c) = c3
  BY <1>2, <1>3, <1>4, Zenon DEF Emptied, WithStarted, WithCompleted, WithSessions
<1>6. c1 \in Championship
  BY <1>2, ChampionshipUpdated
<1>7. c2 \in Championship /\ c2.completed = FALSE
  BY <1>3, <1>6, ChampionshipUpdated
<1>8. c3.completed = FALSE /\ c3.sessions = NoSessions
  BY <1>1, <1>4, <1>7, ChampionshipUpdated
<1> QED
  BY <1>5, <1>8

LEMMA SignUpAdded ==
  ASSUME NEW c \in Championship, NEW no
  PROVE  /\ WithSignUp(c, no).sessions = c.sessions /\ WithSignUp(c, no).completed = c.completed
         /\ WithSignUp(c, no).started = c.started
BY DEF WithSignUp, Championship

\* A task of the goroutine that handles messages, after another thread saved.
LEMMA AgedUdp ==
  \A x \in {NotBusy} \cup Handling \cup Ending :
    /\ Aged(x).pc = x.pc
    /\ x = NotBusy => Aged(x) = NotBusy
    /\ x # NotBusy => Aged(x) # NotBusy /\ Aged(x).copy = x.copy /\ Aged(x).stale
<1>1. \A x \in Handling : [x EXCEPT !.stale = TRUE].pc = x.pc
  BY DEF Handling
<1>2. \A x \in Ending : [x EXCEPT !.stale = TRUE].pc = x.pc
  BY DEF Ending
<1>3. \A x : Aged(x) = IF x = NotBusy THEN NotBusy ELSE [x EXCEPT !.stale = TRUE]
  BY DEF Aged
<1>4. \A x \in {NotBusy} \cup Handling \cup Ending : Aged(x).pc = x.pc
  BY <1>1, <1>2, <1>3
<1> QED
  BY <1>4, AgedTask

------------------------------------------------------------------------------
(* A championship shows no session that is not there, is completed with its     *)
(* last session, and has a second race only after the first was recorded.       *)

LEMMA WholeRecorded ==
  ASSUME NEW c, Sound(c), Whole(c), ~c.completed, active.type \in Types, NEW file \in 0 .. MaxFiles
  PROVE  Whole(Recorded(c, file))
<1>1. CASE ~c.sessions[active.type].found
  BY <1>1 DEF Recorded
<1>2. CASE c.sessions[active.type].found
  <2>1. PICK d : d = Recorded(c, file)
    OBVIOUS
  <2>2. PICK t \in Types : t = active.type
    OBVIOUS
  <2>3. /\ d.sessions[t].found /\ d.sessions[t].done /\ d.completed = (t = LastSession)
        /\ \A s \in Types \ {t} : d.sessions[s] = c.sessions[s]
    BY <1>2, <2>1, <2>2, RecordedIs
  <2>4. LastSession \in Types /\ "race" \in Types /\ ~c.sessions[LastSession].done
    BY Bounds DEF Whole
  <2>5. d.completed = d.sessions[LastSession].done
    <3>1. CASE t = LastSession
      <4>1. d.sessions[LastSession].done \in BOOLEAN
        BY <1>2, <2>1, <2>4, RecordedSound, SessionsTyped
      <4> QED
        BY <2>3, <3>1, <4>1
    <3>2. CASE t # LastSession
      <4>1. d.sessions[LastSession].done = c.sessions[LastSession].done
        BY <2>3, <2>4, <3>2
      <4>2. d.sessions[LastSession].done \in BOOLEAN
        BY <1>2, <2>1, <2>4, RecordedSound, SessionsTyped
      <4> QED
        BY <2>3, <2>4, <3>2, <4>1, <4>2
    <3> QED
      BY <3>1, <3>2
  <2>6. \A s \in Types : ~d.sessions[s].found => ~d.sessions[s].done /\ d.sessions[s].results = 0
    BY <2>3 DEF Whole
  <2>7. "secondRace" \in Types /\ d.sessions["secondRace"].found => d.sessions["race"].done
    <3>1. c.sessions[t].found
      BY <1>2, <2>2
    <3> QED
      BY <2>3, <2>4, <3>1 DEF Whole
  <2> QED
    BY <2>1, <2>5, <2>6, <2>7 DEF Whole
<1> QED
  BY <1>1, <1>2

LEMMA WholeBegun ==
  ASSUME NEW c, Sound(c), Whole(c), NEW name \in Types, name # "secondRace", NEW t, t = TypeNamed(c, name)
  PROVE  t \in Types /\ Whole(Begun(c, t))
<1>1. t \in Types
  BY TypeNamedIs
<1>2. PICK d : d = Begun(c, t)
  OBVIOUS
<1>3. /\ d.sessions[t] = IF c.sessions[t].found THEN c.sessions[t] ELSE Fresh
      /\ \A s \in Types \ {t} : d.sessions[s] = c.sessions[s]
      /\ d.completed = c.completed
  BY <1>1, <1>2, BegunIs
<1>4. LastSession \in Types /\ "race" \in Types
  BY Bounds
<1>5. \A s \in Types : ~d.sessions[s].found => ~d.sessions[s].done /\ d.sessions[s].results = 0
  BY <1>3, FreshIs DEF Whole
<1>6. \A s \in Types : d.sessions[s].done = c.sessions[s].done
  <2> SUFFICES ASSUME NEW s \in Types
               PROVE  d.sessions[s].done = c.sessions[s].done
    OBVIOUS
  <2>1. c.sessions[s].done \in BOOLEAN
    BY SessionsTyped
  <2>2. d.sessions[s].done \in BOOLEAN
    BY <1>1, <1>2, BegunSound, SessionsTyped
  <2>3. CASE s = t /\ ~c.sessions[t].found
    BY <1>3, <2>1, <2>2, <2>3, FreshIs DEF Whole
  <2>4. CASE ~(s = t /\ ~c.sessions[t].found)
    BY <1>3, <2>4
  <2> QED
    BY <2>3, <2>4
<1>7. d.completed = d.sessions[LastSession].done
  BY <1>3, <1>4, <1>6 DEF Whole
<1>8. "secondRace" \in Types /\ d.sessions["secondRace"].found => d.sessions["race"].done
  <2>1. t = "secondRace" => c.sessions["race"].done
    BY DEF TypeNamed
  <2> QED
    BY <1>3, <1>4, <1>6, <2>1 DEF Whole
<1> QED
  BY <1>1, <1>2, <1>5, <1>7, <1>8 DEF Whole

\* The goroutine that handles messages saves.
LEMMA WholeSaved ==
  ASSUME IInv, WholeInv, NEW c, Whole(c), Save(c), udp' = NotBusy, UNCHANGED <<files, starts>>
  PROVE  WholeInv'
<1>1. store' = c /\ th' = [h \in Handlers |-> Aged(th[h])]
  BY DEF Save
<1>2. \A h \in Handlers : th[h] \in {NotBusy} \cup Starting \cup Cancelling \cup SigningUp
  BY HandlerTask
<1>3. \A h \in Handlers :
        /\ th'[h].pc = th[h].pc
        /\ th[h].pc \in {"stop", "cancel", "signUp"} => th'[h].copy = th[h].copy
  BY <1>1, <1>2, AgedTask
<1>4. udp' = NotBusy /\ udp'.pc = "idle"
  BY TasksNamed
<1> QED
  BY <1>1, <1>3, <1>4 DEF WholeInv, Whole

\* A handler saves.
LEMMA WholeSavedBy ==
  ASSUME IInv, WholeInv, NEW h \in Handlers, NEW c, NEW x \in {NotBusy} \cup Starting, Whole(c),
         SaveBy(h, c, x), UNCHANGED <<files, starts>>
  PROVE  WholeInv'
<1>1. /\ store' = c /\ udp' = Aged(udp)
      /\ th' = [o \in Handlers |-> IF o = h THEN x ELSE Aged(th[o])]
  BY DEF SaveBy
<1>2. \A o \in Handlers : th[o] \in {NotBusy} \cup Starting \cup Cancelling \cup SigningUp
  BY HandlerTask
<1>3. \A o \in Handlers \ {h} :
        /\ th'[o].pc = th[o].pc
        /\ th[o].pc \in {"stop", "cancel", "signUp"} => th'[o].copy = th[o].copy
  BY <1>1, <1>2, AgedTask
<1>4. th'[h] = x /\ x.pc \notin {"stop", "cancel", "signUp"}
  BY <1>1, StartingTasks
<1>5. /\ udp'.pc = udp.pc
      /\ udp' # NotBusy => udp # NotBusy /\ udp'.copy = udp.copy
  BY <1>1, AgedUdp DEF IInv, ThreadsFit
<1>6. udp.pc # "idle" => udp # NotBusy /\ udp' # NotBusy
  BY <1>1, AgedUdp, TasksNamed DEF IInv, ThreadsFit
<1>7. \A o \in Handlers : th'[o].pc \in {"stop", "cancel", "signUp"} =>
        th'[o].pc = th[o].pc /\ th'[o].copy = th[o].copy
  BY <1>3, <1>4
<1>8. Whole(store)' /\ (udp' # NotBusy => Whole(udp.copy))
  BY <1>1, <1>5 DEF WholeInv, Whole
<1> QED
  BY <1>1, <1>5, <1>6, <1>7, <1>8 DEF WholeInv, Whole

\* A handler goes on with x.
LEMMA WholeBecomes ==
  ASSUME IInv, WholeInv, NEW h \in Handlers, NEW x, Become(h, x), UNCHANGED <<store, udp, files>>,
         starts' = starts \/ starts' = starts + 1,
         x.pc \in {"stop", "cancel"} => x.copy.sessions = NoSessions /\ ~x.copy.completed,
         x.pc = "signUp" => Whole(x.copy)
  PROVE  WholeInv'
<1>1. th' = [th EXCEPT ![h] = x] /\ th \in [Handlers -> {NotBusy} \cup Starting \cup Cancelling \cup SigningUp]
  BY DEF Become, IInv, ThreadsFit
<1>2. th'[h] = x /\ \A o \in Handlers \ {h} : th'[o] = th[o]
  BY <1>1
<1>3. \A f \in 1 .. Len(files) : files[f].run <= starts'
  <2>1. \A f \in 1 .. Len(files) : files[f] \in File
    BY DEF IInv, ServerFits
  <2>2. \A f \in 1 .. Len(files) : files[f].run \in Nat /\ files[f].run <= starts
    BY <2>1 DEF WholeInv, File
  <2>3. starts \in Nat
    BY SentMessages
  <2> QED
    BY <2>2, <2>3
<1> QED
  BY <1>2, <1>3 DEF WholeInv, Whole

\* The goroutine that handles messages goes on and saves nothing.
LEMMA WholeGoesOn ==
  ASSUME IInv, WholeInv, UNCHANGED <<store, th, files, starts>>,
         udp' # NotBusy => Whole(udp'.copy),
         udp'.pc = "handle" => ~udp'.copy.completed,
         udp'.pc \in {"stop", "save"} => udp'.copy.completed
  PROVE  WholeInv'
BY DEF WholeInv, Whole

\* acServer writes a file or does not.
LEMMA WholePlaying ==
  ASSUME IInv, WholeInv, UNCHANGED <<store, udp, th, starts>>, files' = files \/ FileWritten
  PROVE  WholeInv'
<1>1. CASE files' = files
  BY <1>1 DEF WholeInv, Whole
<1>2. CASE FileWritten
  <2>1. PICK x : files' = Append(files, x) /\ x.run = starts
    BY <1>2 DEF FileWritten
  <2>2. files \in Seq(File) /\ starts \in Nat
    BY SentMessages DEF IInv, ServerFits
  <2>3. \A f \in 1 .. Len(files') : files'[f].run <= starts
    <3>1. Len(files') = Len(files) + 1 /\ Len(files) \in Nat /\ files'[Len(files) + 1] = x
          /\ \A f \in 1 .. Len(files) : files'[f] = files[f]
      BY <2>1, <2>2
    <3> QED
      BY <2>1, <2>2, <3>1 DEF WholeInv
  <2> QED
    BY <2>3 DEF WholeInv, Whole
<1> QED
  BY <1>1, <1>2

LEMMA WholeRecordAndSave ==
  ASSUME IInv, WholeInv, udp.pc = "handle", NEW c, Sound(c), Whole(c), ~c.completed,
         NEW file \in 0 .. MaxFiles, NEW type, RecordAndSave(c, file, type), UNCHANGED <<files, starts>>
  PROVE  WholeInv'
<1>1. active.type \in Types => Whole(Recorded(c, file))
  BY WholeRecorded
<1> DEFINE last == active.type \in Types /\ c.sessions[active.type].found /\ active.type = LastSession
<1>2. CASE last
  <2>1. PICK d : d = Recorded(c, file)
    OBVIOUS
  <2>2. Whole(d) /\ d.completed
    BY <1>1, <1>2, <2>1, RecordedIs
  <2>3. /\ UNCHANGED <<store, th>>
        /\ udp' = [pc |-> "stop", copy |-> d, next |-> type, stale |-> udp.stale]
    BY <1>2, <2>1 DEF RecordAndSave
  <2>4. udp'.pc = "stop" /\ udp'.copy = d
    BY <2>3
  <2> QED
    BY <2>2, <2>3, <2>4, WholeGoesOn
<1>3. CASE ~last
  <2>1. PICK d : d = IF active.type \in Types THEN Recorded(c, file) ELSE c
    OBVIOUS
  <2>2. Save(d) /\ udp' = NotBusy
    BY <1>3, <2>1 DEF RecordAndSave
  <2>3. Whole(d)
    BY <1>1, <2>1
  <2> QED
    BY <2>2, <2>3, WholeSaved
<1> QED
  BY <1>2, <1>3

LEMMA WholeHandled ==
  ASSUME IInv, WholeInv, HandleEndSession \/ HandleLap \/ HandleNewSession
  PROVE  WholeInv'
<1>1. udp.pc = "handle" /\ UNCHANGED <<files, starts>>
  BY DEF HandleEndSession, HandleLap, HandleNewSession, acServer
<1>2. udp # NotBusy /\ Sound(udp.copy) /\ Whole(udp.copy) /\ ~udp.copy.completed
  BY <1>1, Handled DEF WholeInv
<1>3. CASE HandleEndSession
  <2>1. udp.msg.file \in 0 .. MaxFiles /\ RecordAndSave(udp.copy, udp.msg.file, "")
    BY <1>3, Handled DEF HandleEndSession
  <2> QED
    BY <1>1, <1>2, <2>1, WholeRecordAndSave
<1>4. CASE HandleLap
  BY <1>1, <1>2, <1>4, WholeSaved DEF HandleLap
<1>5. CASE HandleNewSession
  <2>1. PICK type : type = TypeNamed(udp.copy, udp.msg.name)
    OBVIOUS
  <2>2. PICK c : c = Begun(udp.copy, type)
    OBVIOUS
  <2>3. udp.msg.name \in Types \ {"secondRace"}
    BY <1>5, Handled DEF HandleNewSession
  <2>4. type \in Types /\ Whole(c)
    BY <1>2, <2>1, <2>2, <2>3, WholeBegun
  <2>5. Sound(c) /\ ~c.completed
    BY <1>2, <2>2, <2>4, BegunSound, BegunIs
  <2>6. RecordAndSave(c, newest, type) \/ (Save(c) /\ udp' = NotBusy)
    BY <1>5, <2>1, <2>2, Zenon DEF HandleNewSession, Begun, LastWritten
  <2>7. newest \in 0 .. MaxFiles
    BY DEF IInv, ServerFits
  <2> QED
    BY <1>1, <2>4, <2>5, <2>6, <2>7, WholeRecordAndSave, WholeSaved
<1> QED
  BY <1>3, <1>4, <1>5

LEMMA WholeUdp ==
  ASSUME IInv, WholeInv, NEW i, Receive(i) \/ Stop \/ SaveCompleted
  PROVE  WholeInv'
<1>1. UNCHANGED <<files, starts>>
  BY DEF Receive, Stop, SaveCompleted, acServer
<1>2. CASE Receive(i)
  <2>1. UNCHANGED <<store, th>>
    BY <1>2 DEF Receive
  <2>2. \/ udp' = NotBusy
        \/ /\ udp' = [pc |-> "handle", msg |-> queue[i], copy |-> store, stale |-> FALSE]
           /\ ~store.completed
    BY <1>2 DEF Receive
  <2>3. CASE udp' = NotBusy
    <3>1. udp'.pc = "idle"
      BY <2>3, TasksNamed
    <3> QED
      BY <1>1, <2>1, <2>3, <3>1, WholeGoesOn
  <2>4. CASE /\ udp' = [pc |-> "handle", msg |-> queue[i], copy |-> store, stale |-> FALSE]
             /\ ~store.completed
    <3>1. udp'.pc = "handle" /\ udp'.copy = store
      BY <2>4
    <3>2. Whole(store)
      BY DEF WholeInv
    <3> QED
      BY <1>1, <2>1, <2>4, <3>1, <3>2, WholeGoesOn
  <2> QED
    BY <2>2, <2>3, <2>4
<1>3. CASE Stop
  <2>1. udp \in Ending /\ udp # NotBusy
    BY <1>3, UdpTask DEF Stop, NotBusy
  <2>2. udp' = [udp EXCEPT !.pc = "save"] /\ UNCHANGED <<store, th>>
    BY <1>3 DEF Stop
  <2>3. udp'.pc = "save" /\ udp'.copy = udp.copy
    BY <2>1, <2>2 DEF Ending
  <2>4. Whole(udp.copy) /\ udp.copy.completed
    BY <1>3, <2>1 DEF WholeInv, Stop
  <2> QED
    BY <1>1, <2>2, <2>3, <2>4, WholeGoesOn
<1>4. CASE SaveCompleted
  <2>1. udp # NotBusy
    BY <1>4 DEF SaveCompleted, NotBusy
  <2>2. Whole(udp.copy) /\ Save(udp.copy) /\ udp' = NotBusy
    BY <1>4, <2>1 DEF WholeInv, SaveCompleted
  <2> QED
    BY <1>1, <2>2, WholeSaved
<1> QED
  BY <1>2, <1>3, <1>4

LEMMA WholeRequests ==
  ASSUME IInv, WholeInv, NEW h \in Handlers,
         \/ CallStart(h) \/ SetActive(h) \/ Launch(h) \/ LaunchFails(h)
         \/ CallCancel(h) \/ StopBy(h) \/ SaveCancelled(h)
         \/ StartOther(h) \/ CallSignUp(h) \/ SaveSignUp(h)
  PROVE  WholeInv'
<1>1. CASE CallStart(h) \/ SetActive(h) \/ Launch(h) \/ LaunchFails(h)
  <2>1. PICK x \in {NotBusy} \cup Starting : Become(h, x)
    BY <1>1, StartingTasks DEF CallStart, SetActive, Launch, LaunchFails
  <2>2. UNCHANGED <<store, udp, files>> /\ (starts' = starts \/ starts' = starts + 1)
    BY <1>1 DEF CallStart, SetActive, Launch, LaunchFails, acServer
  <2> QED
    BY <2>1, <2>2, StartingTasks, WholeBecomes
<1>2. CASE CallCancel(h)
  <2>1. PICK c : c = Emptied(store)
    OBVIOUS
  <2>2. store \in Championship
    BY RestNow
  <2>3. c.sessions = NoSessions /\ ~c.completed
    BY <2>1, <2>2, EmptiedIs
  <2>4. PICK next \in {"cancelled", "start"} :
          Become(h, [pc |-> "stop", next |-> next, stale |-> FALSE, copy |-> c])
    BY <1>2, <2>1, Zenon DEF CallCancel, Emptied
  <2>5. PICK x : x = [pc |-> "stop", next |-> next, stale |-> FALSE, copy |-> c]
    OBVIOUS
  <2>6. x.pc = "stop" /\ x.copy = c
    BY <2>5
  <2>7. UNCHANGED <<store, udp, files, starts>>
    BY <1>2 DEF CallCancel, acServer
  <2>8. Become(h, x)
    BY <2>4, <2>5
  <2> QED
    BY <2>3, <2>6, <2>7, <2>8, WholeBecomes
<1>3. CASE StopBy(h)
  <2>1. th[h] \in Cancelling
    BY <1>3, HandlerTask DEF StopBy
  <2>2. PICK x : x = [th[h] EXCEPT !.pc = "cancel"]
    OBVIOUS
  <2>3. x.pc = "cancel" /\ x.copy = th[h].copy
    BY <2>1, <2>2 DEF Cancelling
  <2>4. Become(h, x) /\ UNCHANGED <<store, udp, files, starts>>
    BY <1>3, <2>2 DEF StopBy, acServer
  <2>5. th[h].copy.sessions = NoSessions /\ ~th[h].copy.completed
    BY <1>3 DEF WholeInv, StopBy
  <2> QED
    BY <2>3, <2>4, <2>5, WholeBecomes
<1>4. CASE SaveCancelled(h)
  <2>1. PICK x \in {NotBusy} \cup Starting : SaveBy(h, th[h].copy, x)
    BY <1>4, StartingTasks DEF SaveCancelled
  <2>2. PICK c : c = th[h].copy
    OBVIOUS
  <2>3. c.sessions = NoSessions /\ ~c.completed
    BY <1>4, <2>2 DEF SaveCancelled, WholeInv
  <2>4. Whole(c)
    <3>1. Sound(c)
      BY <1>4, <2>2, HandlerTask DEF SaveCancelled
    <3>2. LastSession \in Types
      BY Bounds
    <3>3. c.completed \in BOOLEAN /\ c.sessions[LastSession].done \in BOOLEAN
      BY <3>1, <3>2, SessionsTyped
    <3>4. c.completed = c.sessions[LastSession].done
      BY <2>3, <3>2, <3>3, MissingIs
    <3> QED
      BY <2>3, <3>4, MissingIs DEF Whole
  <2>5. UNCHANGED <<files, starts>>
    BY <1>4 DEF SaveCancelled, acServer
  <2> QED
    BY <2>1, <2>2, <2>4, <2>5, WholeSavedBy
<1>5. CASE StartOther(h)
  BY <1>5 DEF StartOther, WholeInv, Whole, acServer
<1>6. CASE CallSignUp(h)
  <2>1. PICK x : x = [pc |-> "signUp", no |-> calls', copy |-> store, stale |-> FALSE]
    OBVIOUS
  <2>2. x.pc = "signUp" /\ x.copy = store
    BY <2>1
  <2>3. Become(h, x) /\ UNCHANGED <<store, udp, files, starts>>
    BY <1>6, <2>1 DEF CallSignUp, acServer
  <2>4. Whole(store)
    BY DEF WholeInv
  <2> QED
    BY <2>2, <2>3, <2>4, WholeBecomes
<1>7. CASE SaveSignUp(h)
  <2>1. PICK c : c = WithSignUp(th[h].copy, th[h].no)
    OBVIOUS
  <2>2. SaveBy(h, c, NotBusy) /\ UNCHANGED <<files, starts>>
    BY <1>7, <2>1, Zenon DEF SaveSignUp, WithSignUp, acServer
  <2>3. th[h].copy \in Championship /\ Whole(th[h].copy)
    BY <1>7, HandlerTask DEF SaveSignUp, Sound, WholeInv
  <2>4. c.sessions = th[h].copy.sessions /\ c.completed = th[h].copy.completed
    BY <2>1, <2>3, SignUpAdded
  <2>5. Whole(c)
    BY <2>3, <2>4 DEF Whole
  <2> QED
    BY <2>2, <2>5, WholeSavedBy
<1> QED
  BY <1>1, <1>2, <1>3, <1>4, <1>5, <1>6, <1>7

LEMMA WholeFiles ==
  ASSUME IInv, WholeInv, UNCHANGED <<store, udp, th, starts>>, files' = files \/ OtherFile
  PROVE  WholeInv'
<1>1. CASE files' = files
  BY <1>1 DEF WholeInv, Whole
<1>2. CASE OtherFile
  <2>1. PICK x : files' = Append(files, x) /\ x.run = 0
    BY <1>2 DEF OtherFile
  <2>2. files \in Seq(File) /\ starts \in Nat
    BY SentMessages DEF IInv, ServerFits
  <2>3. \A f \in 1 .. Len(files') : files'[f].run <= starts
    <3>1. Len(files') = Len(files) + 1 /\ Len(files) \in Nat /\ files'[Len(files) + 1] = x
          /\ \A f \in 1 .. Len(files) : files'[f] = files[f]
      BY <2>1, <2>2
    <3> QED
      BY <2>1, <2>2, <3>1 DEF WholeInv
  <2> QED
    BY <2>3 DEF WholeInv, Whole
<1> QED
  BY <1>1, <1>2

LEMMA WholeNext ==
  ASSUME IInv, WholeInv, [SessionsNext]_sessionVars
  PROVE  WholeInv'
<1>1. CASE UNCHANGED sessionVars
  BY <1>1 DEF sessionVars, WholeInv, Whole
<1>2. CASE LapCompleted \/ SessionEnds \/ SessionEndsUnreported \/ SessionBegins \/ SessionRestarts
  <2>1. UNCHANGED <<store, udp, th, starts>>
    BY <1>2 DEF LapCompleted, SessionEnds, SessionEndsUnreported, SessionBegins, SessionRestarts, Playing
  <2>2. files' = files \/ FileWritten
    BY <1>2 DEF LapCompleted, SessionEnds, SessionEndsUnreported, SessionBegins, SessionRestarts
  <2> QED
    BY <2>1, <2>2, WholePlaying
<1>3. CASE \E i \in 1 .. MaxQueue : Receive(i)
  BY <1>3, WholeUdp
<1>4. CASE HandleEndSession \/ HandleLap \/ HandleNewSession
  BY <1>4, WholeHandled
<1>5. CASE Stop \/ SaveCompleted
  BY <1>5, WholeUdp
<1>6. ASSUME NEW h \in Handlers,
             \/ CallStart(h) \/ SetActive(h) \/ Launch(h) \/ LaunchFails(h)
             \/ CallCancel(h) \/ StopBy(h) \/ SaveCancelled(h)
             \/ StartOther(h) \/ CallSignUp(h) \/ SaveSignUp(h)
      PROVE  WholeInv'
  BY <1>6, WholeRequests
<1>7. ASSUME NEW h \in Handlers, SaveResults(h)
      PROVE  WholeInv'
  <2>1. UNCHANGED <<store, udp, th, starts>> /\ (files' = files \/ OtherFile)
    BY <1>7 DEF SaveResults
  <2> QED
    BY <2>1, WholeFiles
<1>8. CASE OtherFileWritten
  <2>1. UNCHANGED <<store, udp, th, starts>> /\ OtherFile
    BY <1>8 DEF OtherFileWritten
  <2> QED
    BY <2>1, WholeFiles
<1> QED
  BY <1>1, <1>2, <1>3, <1>4, <1>5, <1>6, <1>7, <1>8 DEF SessionsNext

------------------------------------------------------------------------------
(* The messages that are on their way, and the one that is being handled.       *)

LEMMA ViewTyped ==
  ASSUME IInv, NEW p \in Seq(Message), NEW i \in Nat \ {0}
  PROVE  View(p, i) \in Place
<1>1. i <= Len(p) => p[i] \in Message
  OBVIOUS
<1>2. \A m \in Message : m.was \in Place
  BY DEF Message
<1> QED
  BY <1>1, <1>2, SentMessages DEF View

LEMMA PendingHandled ==
  ASSUME IInv, udp.pc = "handle"
  PROVE  /\ Pending \in Seq(Message) /\ queue \in Seq(Message) /\ Len(queue) \in Nat
         /\ Len(Pending) = Len(queue) + 1 /\ Pending[1] = udp.msg
         /\ \A i \in 1 .. Len(queue) : Pending[i + 1] = queue[i]
         /\ View(Pending, 1) = udp.msg.was
         /\ \A i \in 1 .. (Len(queue) + 1) : View(Pending, i + 1) = View(queue, i)
<1>1. udp.msg \in Message /\ queue \in Seq(Message)
  BY Handled DEF IInv, ServerFits
<1>2. PICK m \in Message : m = udp.msg
  BY <1>1
<1>3. Pending = <<m>> \o queue
  BY <1>2 DEF Pending
<1>4. /\ Pending \in Seq(Message) /\ Len(Pending) = Len(queue) + 1 /\ Len(queue) \in Nat
      /\ Pending[1] = m /\ \A i \in 1 .. Len(queue) : Pending[i + 1] = queue[i]
  BY <1>1, <1>3
<1>5. View(Pending, 1) = m.was
  BY <1>4 DEF View
<1>6. \A i \in 1 .. (Len(queue) + 1) : View(Pending, i + 1) = View(queue, i)
  <2> SUFFICES ASSUME NEW i \in 1 .. (Len(queue) + 1)
               PROVE  View(Pending, i + 1) = View(queue, i)
    OBVIOUS
  <2>1. CASE i <= Len(queue)
    <3>1. i + 1 <= Len(Pending) /\ Pending[i + 1] = queue[i]
      BY <1>4, <2>1
    <3> QED
      BY <2>1, <3>1 DEF View
  <2>2. CASE ~(i <= Len(queue))
    <3>1. ~(i + 1 <= Len(Pending))
      BY <1>4, <2>2
    <3> QED
      BY <2>2, <3>1 DEF View
  <2> QED
    BY <2>1, <2>2
<1> QED
  BY <1>1, <1>2, <1>4, <1>5, <1>6

\* The message that is being handled, and where acServer was when it sent it and afterwards.
LEMMA MessageHandled ==
  ASSUME IInv, udp.pc = "handle", Chain(Pending), NEW w, w = udp.msg.was, NEW w2, w2 = View(queue, 1)
  PROVE  /\ w \in Place /\ w2 \in Place
         /\ udp.msg.kind = "lap" => w.session # "" /\ w2.session = w.session /\ w2.lapped
         /\ udp.msg.kind = "endSession" =>
              /\ w.session # "" /\ w2 = w
              /\ udp.msg.file \in 1 .. Len(files) /\ files[udp.msg.file] = [run |-> starts, type |-> w.session]
              /\ queue # <<>> /\ queue[1].kind = "newSession" /\ View(queue, 2).session = After(w.session)
         /\ udp.msg.kind = "newSession" =>
              /\ w2.session # "" /\ ~w2.lapped /\ udp.msg.name = NameOf(w2.session)
              /\ w2.session \in {w.session, After(w.session)}
<1> DEFINE p == Pending
<1>1. /\ p \in Seq(Message) /\ queue \in Seq(Message) /\ Len(queue) \in Nat
      /\ Len(p) = Len(queue) + 1 /\ p[1] = udp.msg
      /\ \A i \in 1 .. Len(queue) : p[i + 1] = queue[i]
      /\ View(p, 1) = w
      /\ \A i \in 1 .. (Len(queue) + 1) : View(p, i + 1) = View(queue, i)
  BY PendingHandled
<1>2. Chain(p)
  OBVIOUS
<1> HIDE DEF p
<1>3. 1 \in 1 .. Len(p) /\ 1 \in 1 .. (Len(queue) + 1) /\ 1 + 1 = 2 /\ 1 + 2 = 3
  BY <1>1
<1>4. Sent(p, 1) /\ View(p, 2) = w2
  BY <1>1, <1>2, <1>3 DEF Chain
<1>5. udp.msg.kind = "endSession" =>
        /\ w.session # "" /\ w2 = w
        /\ udp.msg.file \in 1 .. Len(files) /\ files[udp.msg.file] = [run |-> starts, type |-> w.session]
        /\ 1 < Len(p) /\ p[2].kind = "newSession" /\ View(p, 3).session = After(w.session)
  BY <1>1, <1>3, <1>4 DEF Sent, EndSent
<1>6. 1 < Len(p) => queue # <<>> /\ p[2] = queue[1] /\ View(p, 3) = View(queue, 2)
  <2>1. 1 < Len(p) => 1 \in 1 .. Len(queue) /\ 2 \in 1 .. (Len(queue) + 1) /\ 2 + 1 = 3
    BY <1>1
  <2>2. 1 \in 1 .. Len(queue) => queue # <<>>
    BY <1>1
  <2> QED
    BY <1>1, <1>3, <2>1, <2>2
<1>7. w \in Place /\ w2 \in Place
  BY <1>1, ViewTyped
<1>8. udp.msg.kind = "lap" => w.session # "" /\ w2.session = w.session /\ w2.lapped
  BY <1>1, <1>3, <1>4 DEF Sent, LapSent
<1>9. udp.msg.kind = "newSession" =>
              /\ w2.session # "" /\ ~w2.lapped /\ udp.msg.name = NameOf(w2.session)
              /\ w2.session \in {w.session, After(w.session)}
  BY <1>1, <1>3, <1>4 DEF Sent, NewSent
<1> QED
  BY <1>5, <1>6, <1>7, <1>8, <1>9

\* Once a message was handled, those behind it still are what acServer sent.
LEMMA ChainShrinks ==
  ASSUME IInv, udp.pc = "handle", Chain(Pending)
  PROVE  /\ Chain(queue)
         /\ Leaving(queue) => udp.msg.kind = "endSession" \/ EndedOddly(View(queue, 1))
         /\ Leaving(Pending) <=> /\ udp.msg.kind = "newSession" /\ udp.msg.was.session # ""
                                 /\ View(queue, 1).session # udp.msg.was.session
         /\ (\E i \in 1 .. Len(Pending) : Finishes(Pending, i)) =>
              \/ \E i \in 1 .. Len(queue) : Finishes(queue, i)
              \/ /\ udp.msg.was.session = LastSession
                 /\ \/ udp.msg.kind = "endSession"
                    \/ /\ udp.msg.kind = "newSession" /\ udp.msg.was.lapped
                       /\ View(queue, 1).session # udp.msg.was.session
<1> DEFINE p == Pending
<1>1. /\ p \in Seq(Message) /\ queue \in Seq(Message) /\ Len(queue) \in Nat
      /\ Len(p) = Len(queue) + 1 /\ p[1] = udp.msg
      /\ \A i \in 1 .. Len(queue) : p[i + 1] = queue[i]
      /\ View(p, 1) = udp.msg.was
      /\ \A i \in 1 .. (Len(queue) + 1) : View(p, i + 1) = View(queue, i)
  BY PendingHandled
<1>2. Chain(p)
  OBVIOUS
<1> HIDE DEF p
<1>3. View(p, 2) = View(queue, 1)
  BY <1>1
<1>4. ASSUME NEW i \in 1 .. Len(queue)
      PROVE  /\ Sent(queue, i)
             /\ i = 1 /\ queue[1].kind = "newSession" /\ Leaves(queue, 1) =>
                  udp.msg.kind = "endSession" \/ EndedOddly(View(queue, 1))
             /\ Finishes(p, i + 1) => Finishes(queue, i)
  <2>1. i + 1 \in 1 .. Len(p) /\ p[i + 1] = queue[i]
    BY <1>1
  <2>2. View(p, i + 1) = View(queue, i)
    BY <1>1
  <2>3. View(p, i + 2) = View(queue, i + 1)
    <3>1. i + 1 \in 1 .. (Len(queue) + 1) /\ (i + 1) + 1 = i + 2
      BY <1>1
    <3> QED
      BY <1>1, <3>1
  <2>4. (i + 1) + 1 = i + 2 /\ (i + 1) - 1 = i /\ (i + 1) + 2 = i + 3 /\ i + 1 > 1
    OBVIOUS
  <2>5. Sent(p, i + 1)
    BY <1>2, <2>1 DEF Chain
  <2>6. Leaves(p, i + 1) <=> Leaves(queue, i)
    BY <2>2, <2>3, <2>4 DEF Leaves
  <2>7. queue[i].kind = "lap" => LapSent(queue, i)
    BY <2>1, <2>2, <2>3, <2>4, <2>5 DEF Sent, LapSent
  <2>8. queue[i].kind = "endSession" => EndSent(queue, i)
    <3> SUFFICES ASSUME queue[i].kind = "endSession"
                 PROVE  EndSent(queue, i)
      OBVIOUS
    <3>1. EndSent(p, i + 1)
      BY <2>1, <2>5 DEF Sent
    <3>2. i + 1 < Len(p) /\ p[i + 2].kind = "newSession" /\ View(p, i + 3).session = After(View(p, i + 1).session)
      BY <2>4, <3>1 DEF EndSent
    <3>3. i < Len(queue) /\ i + 1 \in 1 .. Len(queue) /\ (i + 1) + 1 = i + 2
      BY <1>1, <3>2
    <3>4. queue[i + 1] = p[i + 2]
      BY <1>1, <3>3
    <3>5. View(p, i + 3) = View(queue, i + 2)
      <4>1. i + 2 \in 1 .. (Len(queue) + 1) /\ (i + 2) + 1 = i + 3
        BY <1>1, <3>3
      <4> QED
        BY <1>1, <4>1
    <3> QED
      BY <2>1, <2>2, <2>3, <2>4, <3>1, <3>2, <3>3, <3>4, <3>5 DEF EndSent
  <2>9. queue[i].kind = "newSession" => NewSent(queue, i)
    <3> SUFFICES ASSUME queue[i].kind = "newSession"
                 PROVE  NewSent(queue, i)
      OBVIOUS
    <3>1. NewSent(p, i + 1)
      BY <2>1, <2>5 DEF Sent
    <3>2. ASSUME i > 1, Leaves(queue, i)
          PROVE  queue[i - 1].kind = "endSession" \/ EndedOddly(View(queue, i))
      <4>1. p[i].kind = "endSession" \/ EndedOddly(View(p, i + 1))
        BY <2>4, <2>6, <3>1, <3>2 DEF NewSent
      <4>2. i - 1 \in 1 .. Len(queue) /\ (i - 1) + 1 = i
        BY <3>2
      <4>3. p[i] = queue[i - 1]
        BY <1>1, <4>2
      <4> QED
        BY <2>2, <4>1, <4>3
    <3> QED
      BY <2>1, <2>2, <2>3, <2>4, <3>1, <3>2 DEF NewSent
  <2>10. ASSUME i = 1, queue[1].kind = "newSession", Leaves(queue, 1)
         PROVE  udp.msg.kind = "endSession" \/ EndedOddly(View(queue, 1))
    <3>1. NewSent(p, i + 1)
      BY <2>1, <2>5, <2>10 DEF Sent
    <3>2. p[i].kind = "endSession" \/ EndedOddly(View(p, i + 1))
      BY <2>4, <2>6, <2>10, <3>1 DEF NewSent
    <3> QED
      BY <1>1, <2>2, <2>10, <3>2
  <2>11. Finishes(p, i + 1) => Finishes(queue, i)
    BY <2>1, <2>2, <2>6 DEF Finishes
  <2> QED
    BY <2>1, <2>5, <2>7, <2>8, <2>9, <2>10, <2>11 DEF Sent
<1>5. Chain(queue)
  BY <1>4 DEF Chain
<1>6. Leaving(queue) => udp.msg.kind = "endSession" \/ EndedOddly(View(queue, 1))
  <2>1. queue # <<>> => 1 \in 1 .. Len(queue)
    BY <1>1
  <2> QED
    BY <1>4, <2>1 DEF Leaving
<1>7. p # <<>> /\ 1 + 1 = 2
  BY <1>1
<1>8. Leaves(p, 1) <=> udp.msg.was.session # "" /\ View(queue, 1).session # udp.msg.was.session
  BY <1>1, <1>3, <1>7 DEF Leaves
<1>9. Leaving(p) <=> /\ udp.msg.kind = "newSession" /\ udp.msg.was.session # ""
                     /\ View(queue, 1).session # udp.msg.was.session
  BY <1>1, <1>7, <1>8 DEF Leaving
<1>10. ASSUME NEW i \in 1 .. Len(p), Finishes(p, i)
       PROVE  \/ \E j \in 1 .. Len(queue) : Finishes(queue, j)
              \/ /\ udp.msg.was.session = LastSession
                 /\ \/ udp.msg.kind = "endSession"
                    \/ /\ udp.msg.kind = "newSession" /\ udp.msg.was.lapped
                       /\ View(queue, 1).session # udp.msg.was.session
  <2>1. CASE i = 1
    BY <1>1, <1>8, <1>10, <2>1 DEF Finishes
  <2>2. CASE i # 1
    <3>1. i - 1 \in 1 .. Len(queue) /\ (i - 1) + 1 = i
      BY <1>1, <2>2
    <3>2. Finishes(queue, i - 1)
      BY <1>4, <1>10, <3>1
    <3> QED
      BY <3>1, <3>2
  <2> QED
    BY <2>1, <2>2
<1> QED
  BY <1>5, <1>6, <1>9, <1>10 DEF p

------------------------------------------------------------------------------
(* acServer sends messages.                                                     *)

\* What has happened in a run is not undone while the run goes on.
Playings ==
  /\ UNCHANGED <<server, starts, store, active, udp, th, misled, disturbed>>
  /\ unusual \subseteq unusual' /\ (behind => behind') /\ (files' = files \/ FileWritten)

LEMMA FilesStay ==
  ASSUME IInv, files' = files \/ FileWritten
  PROVE  /\ files \in Seq(File) /\ Len(files) \in Nat /\ Len(files') \in Nat
         /\ \A f \in 1 .. Len(files) : f \in 1 .. Len(files') /\ files'[f] = files[f]
         /\ files # <<>> => files' # <<>>
         /\ FileWritten =>
              /\ Len(files') = Len(files) + 1 /\ Len(files') \in 1 .. Len(files') /\ files' # <<>>
              /\ files'[Len(files')] = [run |-> starts, type |-> EventSessions[current]]
<1>1. files \in Seq(File) /\ Len(files) \in Nat
  BY DEF IInv, ServerFits
<1>2. CASE FileWritten
  <2>1. PICK x : files' = Append(files, x) /\ x = [run |-> starts, type |-> EventSessions[current]]
    BY <1>2 DEF FileWritten
  <2>2. /\ Len(files') = Len(files) + 1 /\ files'[Len(files) + 1] = x
        /\ \A f \in 1 .. Len(files) : files'[f] = files[f]
    BY <1>1, <2>1
  <2>3. files' # <<>>
    BY <1>1, <2>1
  <2> QED
    BY <1>1, <2>1, <2>2, <2>3
<1>3. CASE files' = files /\ ~FileWritten
  BY <1>1, <1>3
<1> QED
  BY <1>2, <1>3

LEMMA ExceptionsStay ==
  ASSUME Playings
  PROVE  /\ RacesMixedUp => RacesMixedUp'
         /\ EndMissed => EndMissed'
         /\ \A s : unusual \cap {<<s, "empty">>, <<s, "unsaved">>} # {} =>
                     unusual' \cap {<<s, "empty">>, <<s, "unsaved">>} # {}
         /\ NotExcepted' => NotExcepted
<1>1. unusual \subseteq unusual' /\ (behind => behind') /\ misled' = misled
  BY DEF Playings
<1>2. EndMissed => EndMissed'
  BY <1>1 DEF EndMissed
<1>3. RacesMixedUp => RacesMixedUp'
  BY <1>1, <1>2 DEF RacesMixedUp
<1> QED
  BY <1>1, <1>2, <1>3 DEF NotExcepted

\* A session that ended oddly did so however many follow, as long as the beginning of the
\* next is not handled.
LEMMA OddlyStays ==
  ASSUME IInv, Playings, NEW w \in Place, w.session # "", EndedOddly(w),
         NEW m \in Unseen, m.kind = "newSession"
  PROVE  EndedOddly(w)'
<1>1. unusual \subseteq unusual' /\ (behind => behind') /\ starts' = starts /\ (files' = files \/ FileWritten)
  BY DEF Playings
<1>2. CASE ~w.lapped /\ <<w.session, "empty">> \in unusual
  BY <1>1, <1>2 DEF EndedOddly
<1>3. CASE w.lapped /\ <<w.session, "unsaved">> \in unusual
  BY <1>1, <1>3 DEF EndedOddly
<1>4. CASE /\ w.lapped /\ <<w.session, "unreported">> \in unusual /\ files # <<>>
           /\ behind \/ (files[Len(files)].run = starts => files[Len(files)].type = w.session)
  <2>1. <<w.session, "unreported">> \in unusual' /\ files' # <<>>
    BY <1>1, <1>4, FilesStay
  <2>2. CASE FileWritten
    <3>1. w.session \in Types
      BY DEF Place
    <3>2. behind'
      BY <1>4, <2>2, <3>1 DEF FileWritten
    <3> QED
      BY <1>4, <2>1, <3>2 DEF EndedOddly
  <2>3. CASE files' = files
    BY <1>1, <1>4, <2>1, <2>3 DEF EndedOddly
  <2> QED
    BY <1>1, <2>2, <2>3
<1> QED
  BY <1>2, <1>3, <1>4 DEF EndedOddly

\* Messages m are sent.
Sends(m) == m \in Seq(Message) /\ m # <<>> /\ queue' = queue \o m /\ \A k \in 1 .. Len(m) : m[k].was = Now

LEMMA PendingGrows ==
  ASSUME IInv, Playings, NEW m, Sends(m), NEW p, p = Pending, NEW q, q = Pending'
  PROVE  /\ p \in Seq(Message) /\ q \in Seq(Message) /\ Len(p) \in Nat /\ Len(m) \in Nat /\ Len(m) >= 1
         /\ Len(q) = Len(p) + Len(m)
         /\ \A i \in 1 .. Len(p) : q[i] = p[i] /\ p[i] \in Unseen
         /\ \A k \in 1 .. Len(m) : q[Len(p) + k] = m[k]
         /\ \A i \in 1 .. (Len(p) + 1) : View(q, i)' = View(p, i)
         /\ \A k \in 1 .. Len(m) : View(q, Len(p) + k)' = Now
         /\ View(q, Len(q) + 1)' = Now'
<1>1. queue \in Seq(Message) /\ m \in Seq(Message) /\ udp' = udp /\ queue' = queue \o m
  BY DEF IInv, ServerFits, Playings, Sends
<1>2. udp.pc = "handle" => udp.msg \in Message
  BY Handled
<1>3. p \in Seq(Message) /\ q = p \o m
  <2>1. CASE udp.pc = "handle"
    <3>1. PICK u \in Message : u = udp.msg
      BY <1>2, <2>1
    <3>2. p = <<u>> \o queue /\ q = <<u>> \o (queue \o m)
      BY <1>1, <2>1, <3>1 DEF Pending
    <3>3. <<u>> \in Seq(Message)
      OBVIOUS
    <3>4. (<<u>> \o queue) \o m = <<u>> \o (queue \o m)
      BY <1>1, <3>3, ConcatAssociative
    <3>5. <<u>> \o queue \in Seq(Message)
      BY <1>1, <3>3
    <3> QED
      BY <3>2, <3>4, <3>5
  <2>2. CASE udp.pc # "handle"
    BY <1>1, <2>2 DEF Pending
  <2> QED
    BY <2>1, <2>2
<1>4. /\ q \in Seq(Message) /\ Len(p) \in Nat /\ Len(m) \in Nat /\ Len(q) = Len(p) + Len(m)
      /\ \A i \in 1 .. Len(p) : q[i] = p[i]
      /\ \A k \in 1 .. Len(m) : q[Len(p) + k] = m[k]
  BY <1>1, <1>3
<1>5. Len(m) >= 1
  BY <1>1, <1>4 DEF Sends
<1>6. \A i \in 1 .. Len(p) : p[i] \in Unseen
  <2>1. \A j \in 1 .. Len(queue) : queue[j] \in Unseen
    BY DEF Unseen, ToSet
  <2>2. CASE udp.pc = "handle"
    <3>1. Len(p) = Len(queue) + 1 /\ p[1] = udp.msg /\ Len(queue) \in Nat
      BY <2>2, PendingHandled
    <3>2. udp.msg \in Unseen
      BY <2>2 DEF Unseen
    <3>3. \A j \in 1 .. Len(queue) : p[j + 1] = queue[j]
      BY <2>2, PendingHandled
    <3> SUFFICES ASSUME NEW i \in 1 .. Len(p), i # 1
                 PROVE  p[i] \in Unseen
      BY <3>1, <3>2
    <3>4. i - 1 \in 1 .. Len(queue) /\ (i - 1) + 1 = i
      BY <3>1
    <3> QED
      BY <2>1, <3>3, <3>4
  <2>3. CASE udp.pc # "handle"
    BY <2>1, <2>3 DEF Pending
  <2> QED
    BY <2>2, <2>3
<1>7. \A k \in 1 .. Len(m) : View(q, Len(p) + k)' = Now
  <2> SUFFICES ASSUME NEW k \in 1 .. Len(m)
               PROVE  View(q, Len(p) + k)' = Now
    OBVIOUS
  <2>1. Len(p) + k <= Len(q) /\ q[Len(p) + k] = m[k] /\ m[k].was = Now
    BY <1>4 DEF Sends
  <2> QED
    BY <2>1 DEF View
<1>8. \A i \in 1 .. (Len(p) + 1) : View(q, i)' = View(p, i)
  <2> SUFFICES ASSUME NEW i \in 1 .. (Len(p) + 1)
               PROVE  View(q, i)' = View(p, i)
    OBVIOUS
  <2>1. CASE i <= Len(p)
    <3>1. i <= Len(q) /\ q[i] = p[i]
      BY <1>4, <2>1
    <3> QED
      BY <2>1, <3>1 DEF View
  <2>2. CASE ~(i <= Len(p))
    <3>1. i = Len(p) + 1 /\ 1 \in 1 .. Len(m)
      BY <1>4, <1>5, <2>2
    <3>2. View(q, i)' = Now
      BY <1>7, <3>1
    <3> QED
      BY <2>2, <3>2 DEF View
  <2> QED
    BY <2>1, <2>2
<1>9. View(q, Len(q) + 1)' = Now'
  <2>1. ~(Len(q) + 1 <= Len(q))
    BY <1>4
  <2> QED
    BY <2>1 DEF View
<1> QED
  BY <1>3, <1>4, <1>5, <1>6, <1>7, <1>8, <1>9

LEMMA SentStays ==
  ASSUME IInv, Playings, NEW m, Sends(m), NEW p, p = Pending, NEW q, q = Pending',
         NEW i \in 1 .. Len(p), Sent(p, i)
  PROVE  Sent(q, i)'
<1>1. /\ Len(p) \in Nat /\ Len(m) \in Nat /\ Len(m) >= 1 /\ Len(q) = Len(p) + Len(m)
      /\ q[i] = p[i] /\ p[i] \in Unseen
      /\ \A j \in 1 .. Len(p) : q[j] = p[j]
      /\ \A j \in 1 .. (Len(p) + 1) : View(q, j)' = View(p, j)
  BY PendingGrows
<1>2. i \in 1 .. (Len(p) + 1) /\ i + 1 \in 1 .. (Len(p) + 1)
  BY <1>1
<1>3. View(q, i)' = View(p, i) /\ View(q, i + 1)' = View(p, i + 1)
  BY <1>1, <1>2
<1>4. starts' = starts /\ (files' = files \/ FileWritten)
  BY DEF Playings
<1>5. q[i].kind = "lap" => LapSent(q, i)'
  BY <1>1, <1>3 DEF Sent, LapSent
<1>6. ASSUME q[i].kind = "endSession"
      PROVE  EndSent(q, i)'
  <2>1. EndSent(p, i)
    BY <1>1, <1>6 DEF Sent
  <2>2. i < Len(p) /\ p[i + 1].kind = "newSession" /\ View(p, i + 2).session = After(View(p, i).session)
    BY <2>1 DEF EndSent
  <2>3. i + 1 \in 1 .. Len(p) /\ i + 2 \in 1 .. (Len(p) + 1) /\ i < Len(q)
    BY <1>1, <2>2
  <2>4. q[i + 1] = p[i + 1] /\ View(q, i + 2)' = View(p, i + 2)
    BY <1>1, <2>3
  <2>5. q[i].file \in 1 .. Len(files) /\ files[q[i].file] = [run |-> starts, type |-> View(p, i).session]
    BY <1>1, <2>1 DEF EndSent
  <2>6. q[i].file \in 1 .. Len(files') /\ files'[q[i].file] = [run |-> starts, type |-> View(p, i).session]
    BY <1>4, <2>5, FilesStay
  <2>7. View(p, i).session # "" /\ View(p, i + 1) = View(p, i)
    BY <2>1 DEF EndSent
  <2> QED
    BY <1>3, <1>4, <2>2, <2>3, <2>4, <2>6, <2>7 DEF EndSent
<1>7. ASSUME q[i].kind = "newSession"
      PROVE  NewSent(q, i)'
  <2>1. NewSent(p, i)
    BY <1>1, <1>7 DEF Sent
  <2>2. ASSUME i > 1, Leaves(q, i)'
        PROVE  q[i - 1].kind = "endSession" \/ EndedOddly(View(p, i))'
    <3>1. Leaves(p, i)
      BY <1>3, <2>2 DEF Leaves
    <3>2. p[i - 1].kind = "endSession" \/ EndedOddly(View(p, i))
      BY <2>1, <2>2, <3>1 DEF NewSent
    <3>3. i - 1 \in 1 .. Len(p)
      BY <1>1, <2>2
    <3>4. q[i - 1] = p[i - 1]
      BY <1>1, <3>3
    <3>5. PICK w : w = View(p, i)
      OBVIOUS
    <3>6. EndedOddly(w) => EndedOddly(w)'
      <4>1. w \in Place
        <5>1. p \in Seq(Message) /\ i \in Nat \ {0}
          BY <1>1, PendingGrows
        <5> QED
          BY <3>5, <5>1, ViewTyped
      <4>2. w.session # ""
        BY <2>2, <1>3, <3>5 DEF Leaves
      <4> QED
        BY <1>1, <1>7, <4>1, <4>2, OddlyStays
    <3>7. CASE p[i - 1].kind = "endSession"
      BY <3>4, <3>7
    <3>8. CASE EndedOddly(w)
      <4>1. View(p, i)' = w
        <5>1. CASE i <= Len(p)
          BY <3>5, <5>1 DEF View
        <5> QED
          BY <1>2, <5>1
      <4> QED
        BY <3>6, <3>8, <4>1
    <3> QED
      BY <3>2, <3>5, <3>7, <3>8
  <2>3. View(p, i)' = View(p, i) /\ View(q, i)' = View(p, i)
    BY <1>3 DEF View
  <2>4. \/ ~(i > 1 /\ Leaves(q, i)') \/ q[i - 1].kind = "endSession" \/ EndedOddly(View(q, i))'
    <3>1. PICK w : w = View(p, i)
      OBVIOUS
    <3>2. View(q, i)' = w /\ View(p, i)' = w
      BY <2>3, <3>1
    <3> QED
      BY <2>2, <3>2
  <2> QED
    BY <1>1, <1>3, <2>1, <2>4 DEF NewSent
<1> QED
  BY <1>1, <1>4, <1>5, <1>6, <1>7 DEF Sent

LEMMA ChainGrows ==
  ASSUME IInv, Playings, NEW m, Sends(m), NEW p, p = Pending, NEW q, q = Pending', Chain(p),
         \A k \in 1 .. Len(m) : Sent(q, Len(p) + k)'
  PROVE  Chain(q)'
<1>1. Len(p) \in Nat /\ Len(m) \in Nat /\ Len(q) = Len(p) + Len(m)
  BY PendingGrows
<1>2. ASSUME NEW i \in 1 .. Len(q)
      PROVE  Sent(q, i)'
  <2>1. CASE i <= Len(p)
    <3>1. i \in 1 .. Len(p)
      BY <1>1, <2>1
    <3>2. Sent(p, i)
      BY <3>1 DEF Chain
    <3> QED
      BY <3>1, <3>2, SentStays
  <2>2. CASE ~(i <= Len(p))
    <3>1. PICK k \in 1 .. Len(m) : i = Len(p) + k
      <4>1. i - Len(p) \in 1 .. Len(m) /\ i = Len(p) + (i - Len(p))
        BY <1>1, <2>2
      <4> QED
        BY <4>1
    <3> QED
      BY <3>1
  <2> QED
    BY <2>1, <2>2
<1> QED
  BY <1>2 DEF Chain

LEMMA FollowGrows ==
  ASSUME IInv, Playings, NEW m, Sends(m), NEW p, p = Pending, NEW q, q = Pending', NEW w, w = Now,
         FollowedBy(p),
         m[1].kind = "newSession" /\ Leaves(q, Len(p) + 1)' => EndedOddly(w)',
         FileWritten /\ EventSessions[current] = LastSession /\ ~RacesMixedUp' /\ ~EndMissed'
           => Finishes(q, Len(p) + 1)'
  PROVE  FollowedBy(q)'
<1>1. /\ Len(p) \in Nat /\ Len(m) \in Nat /\ Len(m) >= 1 /\ Len(q) = Len(p) + Len(m)
      /\ p \in Seq(Message) /\ q \in Seq(Message)
      /\ \A j \in 1 .. Len(p) : q[j] = p[j] /\ p[j] \in Unseen
  BY PendingGrows
<1>2. /\ \A k \in 1 .. Len(m) : q[Len(p) + k] = m[k]
      /\ \A j \in 1 .. (Len(p) + 1) : View(q, j)' = View(p, j)
  BY PendingGrows
<1>3. PICK v : v = View(p, 1)
  OBVIOUS
<1>4. View(q, 1)' = v
  <2>1. 1 \in 1 .. (Len(p) + 1)
    BY <1>1
  <2> QED
    BY <1>2, <1>3, <2>1
<1>5. /\ UNCHANGED <<starts, store, active>> /\ (files' = files \/ FileWritten)
  BY DEF Playings
<1>6. active'.on /\ ~store'.completed
  BY <1>5 DEF FollowedBy
<1>7. v.session = "" => \A s \in Types : ~store'.sessions[s].found
  BY <1>3, <1>5 DEF FollowedBy
<1>8. /\ Leaving(q)' => EndedOddly(v)' \/ (Leaving(p) /\ \E u \in Unseen : u.kind = "newSession")
      /\ Leaving(p) => Leaving(q)'
  <2>1. CASE p = <<>>
    <3>1. Len(p) = 0 /\ Len(p) + 1 = 1
      BY <2>1
    <3>2. q[1] = m[1] /\ v = w
      <4>1. q[1] = m[1]
        <5>1. 1 \in 1 .. Len(m) /\ 0 + 1 = 1
          BY <1>1
        <5> QED
          BY <1>2, <3>1, <5>1
      <4>2. View(p, 1) = Now
        BY <3>1 DEF View
      <4> QED
        BY <1>3, <4>1, <4>2
    <3> QED
      BY <2>1, <3>1, <3>2 DEF Leaving
  <2>2. CASE p # <<>>
    <3>1. 1 \in 1 .. Len(p) /\ 1 + 1 \in 1 .. (Len(p) + 1) /\ q # <<>>
      BY <1>1, <2>2
    <3>2. q[1] = p[1] /\ p[1] \in Unseen /\ View(q, 1 + 1)' = View(p, 1 + 1)
      BY <1>1, <1>2, <3>1
    <3>3. Leaves(q, 1)' <=> Leaves(p, 1)
      BY <1>3, <1>4, <3>2 DEF Leaves
    <3> QED
      BY <2>2, <3>1, <3>2, <3>3 DEF Leaving
  <2> QED
    BY <2>1, <2>2
<1>9. ASSUME v.session # ""
      PROVE  SessionKnown(store, active, v)' /\ RacesTold(store, v, q)' /\ EndKnown(store, v, q)'
  <2>1. SessionKnown(store, active, v) /\ RacesTold(store, v, p) /\ EndKnown(store, v, p)
    BY <1>3, <1>9 DEF FollowedBy
  <2>2. RacesMixedUp => RacesMixedUp'
    BY ExceptionsStay
  <2>3. SessionKnown(store, active, v)'
    BY <1>5, <2>1, <2>2 DEF SessionKnown
  <2>4. RacesTold(store, v, q)'
    BY <1>5, <1>8, <2>1, <2>2 DEF RacesTold
  <2>5. EndKnown(store, v, q)'
    <3>1. ASSUME Leaving(q)', ~RacesMixedUp' \/ v.session = "practice"
          PROVE  store'.sessions[v.session].done \/ EndedOddly(v)'
      <4>1. CASE EndedOddly(v)'
        BY <4>1
      <4>2. CASE Leaving(p) /\ \E u \in Unseen : u.kind = "newSession"
        <5>1. store.sessions[v.session].done \/ EndedOddly(v)
          BY <2>1, <2>2, <3>1, <4>2 DEF EndKnown
        <5>2. v \in Place
          BY <1>1, <1>3, ViewTyped
        <5> QED
          BY <1>5, <1>9, <4>2, <5>1, <5>2, OddlyStays
      <4> QED
        BY <1>8, <3>1, <4>1, <4>2
    <3>2. ASSUME "practice" \in Types, v.session # "practice", ~store'.sessions["practice"].done
          PROVE  unusual' \cap {<<"practice", "empty">>, <<"practice", "unsaved">>} # {}
      BY <1>5, <2>1, <3>2, ExceptionsStay DEF EndKnown
    <3> QED
      BY <3>1, <3>2 DEF EndKnown
  <2> QED
    BY <2>3, <2>4, <2>5
<1>10. LastKnown(q)'
  <2> SUFFICES ASSUME ~RacesMixedUp', ~EndMissed',
                      NEW f \in 1 .. Len(files'), files'[f] = [run |-> starts, type |-> LastSession]
               PROVE  \E i \in 1 .. Len(q) : Finishes(q, i)'
    BY <1>5 DEF LastKnown
  <2>1. ~RacesMixedUp /\ ~EndMissed
    BY ExceptionsStay
  <2>2. CASE f \in 1 .. Len(files)
    <3>1. files[f] = [run |-> starts, type |-> LastSession]
      BY <1>5, <2>2, FilesStay
    <3>2. PICK i \in 1 .. Len(p) : Finishes(p, i)
      BY <2>1, <2>2, <3>1 DEF FollowedBy, LastKnown
    <3>3. i \in 1 .. (Len(p) + 1) /\ i + 1 \in 1 .. (Len(p) + 1) /\ i \in 1 .. Len(q)
      BY <1>1
    <3>4. q[i] = p[i] /\ View(q, i)' = View(p, i) /\ View(q, i + 1)' = View(p, i + 1)
      BY <1>1, <1>2, <3>3
    <3>5. Finishes(q, i)'
      BY <3>2, <3>4 DEF Finishes, Leaves
    <3> QED
      BY <3>3, <3>5
  <2>3. CASE f \notin 1 .. Len(files)
    <3>1. FileWritten /\ f = Len(files')
      BY <1>5, <2>3, FilesStay
    <3>2. EventSessions[current] = LastSession
      BY <3>1, FilesStay
    <3>3. Finishes(q, Len(p) + 1)'
      BY <2>1, <3>1, <3>2
    <3>4. Len(p) + 1 \in 1 .. Len(q)
      BY <1>1
    <3> QED
      BY <3>3, <3>4
  <2> QED
    BY <2>2, <2>3
<1>11. View(q, 1)'.session = "" => \A s \in Types : ~store'.sessions[s].found
  BY <1>4, <1>7
<1>12. ASSUME View(q, 1)'.session # ""
       PROVE  SessionKnown(store, active, View(q, 1))' /\ RacesTold(store, View(q, 1), q)' /\ EndKnown(store, View(q, 1), q)'
  BY <1>4, <1>9, <1>12
<1> QED
  BY <1>6, <1>10, <1>11, <1>12 DEF FollowedBy

\* Where acServer is, and where it goes.
LEMMA Moves ==
  ASSUME IInv
  PROVE  /\ current = 0 => Now.session = ""
         /\ current # 0 => /\ Now.session = EventSessions[current] /\ Now.session \in Types
                           /\ Name(current) = NameOf(Now.session)
         /\ Now.lapped = lapped
         /\ EventSessions[NextOf(current)] = After(Now.session) /\ After(Now.session) \in Types
         /\ Name(NextOf(current)) = NameOf(After(Now.session))
         /\ current' = NextOf(current) => Now'.session = After(Now.session)
         /\ current' = current => Now'.session = Now.session
         /\ Now'.lapped = lapped' /\ "" \notin Types
<1>1. current # 0 => current \in 1 .. Len(EventSessions)
  BY CurrentAt
<1>2. NextOf(current) \in 1 .. Len(EventSessions)
  BY CurrentAt
<1>3. /\ current = 0 => Now.session = ""
      /\ current # 0 => Now.session = EventSessions[current]
      /\ Now.lapped = lapped
      /\ current' = 0 => Now'.session = ""
      /\ current' # 0 => Now'.session = EventSessions[current']
      /\ Now'.lapped = lapped'
  BY DEF Now
<1>4. EventSessions[NextOf(current)] = After(Now.session)
  BY <1>1, <1>3, Shape
<1>5. After(Now.session) \in Types /\ Name(NextOf(current)) = NameOf(After(Now.session))
  BY <1>2, <1>4, Shape, SessionAt
<1>6. current # 0 => Now.session \in Types /\ Name(current) = NameOf(Now.session)
  BY <1>1, <1>3, Shape, SessionAt
<1>7. NextOf(current) # 0
  <2> DEFINE n == Len(EventSessions)
  <2>1. n \in Nat /\ NextOf(current) \in 1 .. n
    BY <1>2, Bounds
  <2> HIDE DEF n
  <2> QED
    BY <2>1
<1>8. current' = NextOf(current) => Now'.session = After(Now.session)
  BY <1>3, <1>4, <1>7
<1>9. current' = current => Now'.session = Now.session
  BY <1>3
<1> QED
  BY <1>3, <1>4, <1>5, <1>6, <1>8, <1>9, Bounds

LEMMA FollowPlays ==
  ASSUME IInv, FollowInv, Playings, NEW m, Sends(m), NEW p, p = Pending, NEW q, q = Pending',
         NEW w, w = Now,
         Chain(p) => \A k \in 1 .. Len(m) : Sent(q, Len(p) + k)',
         m[1].kind = "newSession" /\ Leaves(q, Len(p) + 1)' => EndedOddly(w)',
         FileWritten /\ EventSessions[current] = LastSession /\ ~RacesMixedUp' /\ ~EndMissed'
           => Finishes(q, Len(p) + 1)'
  PROVE  FollowInv'
<1>1. Following' => Following
  BY DEF Following, Playings
<1>2. Following => Chain(p) /\ FollowedBy(p)
  BY DEF FollowInv
<1>3. Following => Chain(q)' /\ FollowedBy(q)'
  BY <1>2, ChainGrows, FollowGrows
<1> QED
  BY <1>1, <1>3 DEF FollowInv

\* The message x is sent.
LEMMA OneSent ==
  ASSUME IInv, Playings, NEW x \in Message, x.was = Now, Send(<<x>>), NEW p, p = Pending, NEW q, q = Pending'
  PROVE  /\ Sends(<<x>>) /\ Len(<<x>>) = 1 /\ <<x>>[1] = x
         /\ Len(p) \in Nat /\ Len(q) = Len(p) + 1 /\ q[Len(p) + 1] = x
         /\ View(q, Len(p) + 1)' = Now /\ View(q, (Len(p) + 1) + 1)' = Now'
<1>1. <<x>> \in Seq(Message) /\ <<x>> # <<>> /\ Len(<<x>>) = 1 /\ <<x>>[1] = x
  OBVIOUS
<1>2. Sends(<<x>>)
  BY <1>1 DEF Sends, Send
<1>3. PICK m : m = <<x>>
  OBVIOUS
<1>4. Sends(m) /\ Len(m) = 1 /\ m[1] = x
  BY <1>1, <1>2, <1>3
<1>5. /\ Len(p) \in Nat /\ Len(q) = Len(p) + Len(m)
      /\ \A k \in 1 .. Len(m) : q[Len(p) + k] = m[k]
  BY <1>4, PendingGrows
<1>6. /\ \A k \in 1 .. Len(m) : View(q, Len(p) + k)' = Now
      /\ View(q, Len(q) + 1)' = Now'
  BY <1>4, PendingGrows
<1>7. 1 \in 1 .. Len(m)
  BY <1>4
<1>8. q[Len(p) + 1] = x /\ View(q, Len(p) + 1)' = Now /\ View(q, (Len(p) + 1) + 1)' = Now'
  BY <1>4, <1>5, <1>6, <1>7
<1> QED
  BY <1>1, <1>2, <1>4, <1>5, <1>8

LEMMA LapFollows ==
  ASSUME IInv, FollowInv, LapCompleted
  PROVE  FollowInv'
<1>1. /\ Playing /\ current # 0 /\ lapped' = TRUE /\ Send(<<LapDone>>)
      /\ UNCHANGED <<current, files, unusual, behind, starts>>
  BY DEF LapCompleted, Playing
<1>2. Playings
  BY <1>1 DEF Playing, Playings
<1>3. PICK x : x = LapDone
  OBVIOUS
<1>4. x \in Message /\ x.was = Now /\ x.kind = "lap" /\ x.run = starts
  BY <1>3, SentMessages DEF LapDone
<1>5. PICK p : p = Pending
  OBVIOUS
<1>6. PICK q : q = Pending'
  OBVIOUS
<1>7. PICK w : w = Now
  OBVIOUS
<1>8. /\ Sends(<<x>>) /\ Len(<<x>>) = 1 /\ <<x>>[1] = x
      /\ Len(p) \in Nat /\ Len(q) = Len(p) + 1 /\ q[Len(p) + 1] = x
      /\ View(q, Len(p) + 1)' = w /\ View(q, (Len(p) + 1) + 1)' = Now'
  BY <1>1, <1>2, <1>3, <1>4, <1>5, <1>6, <1>7, OneSent
<1>9. Sent(q, Len(p) + 1)'
  <2>1. w.session # "" /\ Now'.session = w.session /\ Now'.lapped
    BY <1>1, <1>7, Moves
  <2>2. LapSent(q, Len(p) + 1)'
    BY <1>8, <2>1 DEF LapSent
  <2> QED
    BY <1>1, <1>4, <1>8, <2>2 DEF Sent
<1>10. \A k \in 1 .. Len(<<x>>) : Sent(q, Len(p) + k)'
  BY <1>8, <1>9
<1>11. ~FileWritten
  BY <1>1, FilesStay
<1> QED
  BY <1>2, <1>4, <1>5, <1>6, <1>7, <1>8, <1>10, <1>11, FollowPlays

\* A session begins, after one that was not reported or after nothing, or again: acServer,
\* which is at w, goes to n.
Turns(w, n, j) ==
  /\ n.session \in {w.session, After(w.session)} /\ n.session # "" /\ Name(j) = NameOf(n.session)
  /\ ~n.lapped
Parts(w, n) == w.session # "" /\ n.session # w.session
FileWrittenLast(w, n) ==
  /\ w.session = EventSessions[current] /\ w.lapped
  /\ w.session = LastSession /\ ~EndMissed' => Parts(w, n)

LEMMA NewSessionFollows ==
  ASSUME IInv, FollowInv, Playings, NEW j \in 1 .. Len(EventSessions), Send(<<NewSession(j)>>),
         NEW w, w = Now, NEW n, n = Now', Turns(w, n, j), Parts(w, n) => EndedOddly(w)',
         FileWritten => FileWrittenLast(w, n)
  PROVE  FollowInv'
<1>1. PICK x : x = NewSession(j)
  OBVIOUS
<1>2. /\ x \in Message /\ x.was = Now /\ x.kind = "newSession" /\ x.run = starts /\ x.name = Name(j)
  BY <1>1, SentMessages DEF NewSession
<1>3. PICK p : p = Pending
  OBVIOUS
<1>4. PICK q : q = Pending'
  OBVIOUS
<1>5. Send(<<x>>)
  BY <1>1
<1>6. /\ Sends(<<x>>) /\ Len(<<x>>) = 1 /\ <<x>>[1] = x
      /\ Len(p) \in Nat /\ Len(q) = Len(p) + 1 /\ q[Len(p) + 1] = x
      /\ View(q, Len(p) + 1)' = w /\ View(q, (Len(p) + 1) + 1)' = n
  BY <1>2, <1>3, <1>4, <1>5, OneSent
<1>7. Leaves(q, Len(p) + 1)' <=> Parts(w, n)
  BY <1>6 DEF Leaves, Parts
<1>8. Sent(q, Len(p) + 1)'
  <2>1. EndedOddly(w)' <=> EndedOddly(View(q, Len(p) + 1))'
    BY <1>6 DEF EndedOddly
  <2>2. NewSent(q, Len(p) + 1)'
    BY <1>2, <1>6, <1>7, <2>1 DEF NewSent, Turns
  <2> QED
    BY <1>2, <1>6, <2>2 DEF Sent, Playings
<1>9. \A k \in 1 .. Len(<<x>>) : Sent(q, Len(p) + k)'
  <2>1. 1 .. Len(<<x>>) = {1}
    BY <1>6
  <2> QED
    BY <1>8, <2>1
<1>10. FileWritten /\ EventSessions[current] = LastSession /\ ~RacesMixedUp' /\ ~EndMissed'
         => Finishes(q, Len(p) + 1)'
  BY <1>2, <1>6, <1>7 DEF Finishes, FileWrittenLast
<1> QED
  BY <1>2, <1>3, <1>4, <1>5, <1>6, <1>7, <1>9, <1>10, FollowPlays

LEMMA UnreportedFollows ==
  ASSUME IInv, FollowInv, SessionEndsUnreported
  PROVE  FollowInv'
<1>1. /\ Playing /\ lapped /\ FileWritten /\ EndsUnusually("unreported")
      /\ Send(<<NewSession(NextOf(current))>>) /\ current' = NextOf(current) /\ lapped' = FALSE
      /\ current # 0 /\ starts' = starts /\ unusual \subseteq unusual' /\ (behind => behind')
      /\ <<EventSessions[current], "unreported">> \in unusual'
  BY DEF SessionEndsUnreported, EndsUnusually, FileWritten, Playing
<1>2. Playings
  BY <1>1 DEF Playing, Playings
<1>3. NextOf(current) \in 1 .. Len(EventSessions)
  BY CurrentAt
<1>4. PICK w : w = Now
  OBVIOUS
<1>5. PICK n : n = Now'
  OBVIOUS
<1>6. /\ w.session = EventSessions[current] /\ w.session \in Types /\ w.lapped
      /\ n.session = After(w.session) /\ n.session \in Types /\ ~n.lapped
      /\ Name(NextOf(current)) = NameOf(n.session) /\ "" \notin Types
  BY <1>1, <1>4, <1>5, Moves
<1>7. Turns(w, n, NextOf(current))
  BY <1>6 DEF Turns
<1>8. EndedOddly(w)'
  <2>1. files' # <<>> /\ files'[Len(files')] = [run |-> starts, type |-> EventSessions[current]]
    BY <1>1, FilesStay
  <2>2. PICK s : s = EventSessions[current]
    OBVIOUS
  <2>3. files'[Len(files')] = [run |-> starts, type |-> s] /\ w.session = s
    BY <1>6, <2>1, <2>2
  <2>4. files'[Len(files')].type = w.session
    BY <2>3
  <2> QED
    BY <1>1, <1>6, <2>1, <2>4 DEF EndedOddly
<1>9. FileWrittenLast(w, n)
  <2>1. ASSUME w.session = LastSession, n.session = w.session
        PROVE  EndMissed'
    <3>1. "practice" \notin Types
      BY <1>6, <2>1, Shape DEF After
    <3> QED
      BY <1>1, <1>6, <2>1, <3>1 DEF EndMissed
  <2> QED
    BY <1>6, <2>1 DEF FileWrittenLast, Parts
<1> QED
  BY <1>1, <1>2, <1>3, <1>4, <1>5, <1>7, <1>8, <1>9, NewSessionFollows

LEMMA BeginsFollows ==
  ASSUME IInv, FollowInv, SessionBegins
  PROVE  FollowInv'
<1>1. /\ Playing /\ Send(<<NewSession(NextOf(current))>>) /\ current' = NextOf(current) /\ lapped' = FALSE
      /\ UNCHANGED <<files, behind, starts>> /\ unusual \subseteq unusual'
      /\ current # 0 => <<EventSessions[current], IF lapped THEN "unsaved" ELSE "empty">> \in unusual'
  BY DEF SessionBegins, EndsUnusually, Playing
<1>2. Playings
  BY <1>1 DEF Playing, Playings
<1>3. NextOf(current) \in 1 .. Len(EventSessions)
  BY CurrentAt
<1>4. PICK w : w = Now
  OBVIOUS
<1>5. PICK n : n = Now'
  OBVIOUS
<1>6. /\ current = 0 => w.session = ""
      /\ current # 0 => w.session = EventSessions[current]
      /\ w.lapped = lapped
      /\ n.session = After(w.session) /\ n.session \in Types /\ ~n.lapped
      /\ Name(NextOf(current)) = NameOf(n.session) /\ "" \notin Types
  BY <1>1, <1>4, <1>5, Moves
<1>7. Turns(w, n, NextOf(current))
  BY <1>6 DEF Turns
<1>8. Parts(w, n) => EndedOddly(w)'
  <2> SUFFICES ASSUME w.session # ""
               PROVE  EndedOddly(w)'
    BY DEF Parts
  <2>1. <<w.session, IF lapped THEN "unsaved" ELSE "empty">> \in unusual' /\ w.lapped = lapped
    BY <1>1, <1>6
  <2>2. CASE lapped
    BY <2>1, <2>2 DEF EndedOddly
  <2>3. CASE ~lapped
    BY <2>1, <2>3 DEF EndedOddly
  <2> QED
    BY <2>2, <2>3
<1>9. ~FileWritten
  BY <1>1, FilesStay
<1> QED
  BY <1>1, <1>2, <1>3, <1>4, <1>5, <1>7, <1>8, <1>9, NewSessionFollows

LEMMA RestartsFollows ==
  ASSUME IInv, FollowInv, SessionRestarts
  PROVE  FollowInv'
<1>1. /\ Playing /\ current # 0 /\ Send(<<NewSession(current)>>) /\ lapped' = FALSE
      /\ UNCHANGED <<current, files, unusual, behind, starts>>
  BY DEF SessionRestarts, Playing
<1>2. Playings
  BY <1>1 DEF Playing, Playings
<1>3. current \in 1 .. Len(EventSessions)
  BY <1>1, CurrentAt
<1>4. PICK w : w = Now
  OBVIOUS
<1>5. PICK n : n = Now'
  OBVIOUS
<1>6. /\ w.session \in Types /\ Name(current) = NameOf(w.session)
      /\ n.session = w.session /\ ~n.lapped /\ "" \notin Types
  BY <1>1, <1>4, <1>5, Moves
<1>7. Turns(w, n, current) /\ ~Parts(w, n)
  BY <1>6 DEF Turns, Parts
<1>8. ~FileWritten
  BY <1>1, FilesStay
<1> QED
  BY <1>1, <1>2, <1>3, <1>4, <1>5, <1>7, <1>8, NewSessionFollows

\* A session ends and is reported, and the next one begins.
LEMMA EndsFollows ==
  ASSUME IInv, FollowInv, SessionEnds
  PROVE  FollowInv'
<1>1. /\ Playing /\ FileWritten /\ current' = NextOf(current) /\ lapped' = FALSE /\ current # 0
      /\ UNCHANGED <<unusual, starts>> /\ (behind => behind')
      /\ Send(<<EndSession(Len(files')), NewSession(NextOf(current))>>)
  BY DEF SessionEnds, Playing, FileWritten
<1>2. Playings
  BY <1>1 DEF Playing, Playings
<1>3. PICK x : x = EndSession(Len(files'))
  OBVIOUS
<1>4. PICK y : y = NewSession(NextOf(current))
  OBVIOUS
<1>5. PICK w : w = Now
  OBVIOUS
<1>6. PICK n : n = Now'
  OBVIOUS
<1>7. PICK p : p = Pending
  OBVIOUS
<1>8. PICK q : q = Pending'
  OBVIOUS
<1>9. /\ x \in Message /\ x.was = Now /\ x.kind = "endSession" /\ x.run = starts /\ x.file = Len(files')
      /\ y \in Message /\ y.was = Now /\ y.kind = "newSession" /\ y.run = starts
      /\ y.name = Name(NextOf(current))
  <2>1. Len(files') \in 1 .. MaxFiles /\ NextOf(current) \in 1 .. Len(EventSessions)
    BY <1>1, WrittenFiles, CurrentAt
  <2> QED
    BY <1>3, <1>4, <2>1, SentMessages DEF EndSession, NewSession
<1>10. /\ w.session = EventSessions[current] /\ w.session # ""
       /\ n.session = After(w.session) /\ n.session # "" /\ ~n.lapped
       /\ Name(NextOf(current)) = NameOf(n.session)
  BY <1>1, <1>5, <1>6, Moves
<1>11. PICK m : m = <<x, y>>
  OBVIOUS
<1>12. Sends(m) /\ Len(m) = 2 /\ m[1] = x /\ m[2] = y
  <2>1. m \in Seq(Message) /\ Len(m) = 2 /\ m[1] = x /\ m[2] = y /\ m # <<>>
    BY <1>9, <1>11
  <2>2. \A k \in 1 .. Len(m) : k = 1 \/ k = 2
    BY <2>1
  <2>3. queue' = queue \o m
    BY <1>1, <1>3, <1>4, <1>11 DEF Send
  <2> QED
    BY <1>9, <2>1, <2>2, <2>3 DEF Sends
<1>13. /\ Len(p) \in Nat /\ Len(q) = Len(p) + Len(m)
       /\ \A k \in 1 .. Len(m) : q[Len(p) + k] = m[k]
  <2>1. Sends(m)
    BY <1>12
  <2> QED
    BY <1>2, <1>7, <1>8, <2>1, PendingGrows
<1>14. /\ \A k \in 1 .. Len(m) : View(q, Len(p) + k)' = Now
       /\ View(q, Len(q) + 1)' = Now'
  BY <1>2, <1>7, <1>8, <1>12, PendingGrows
<1>15. PICK l \in Nat : l = Len(p)
  BY <1>13
<1>16. 1 \in 1 .. Len(m) /\ 2 \in 1 .. Len(m) /\ Len(q) = l + 2
  BY <1>12, <1>13, <1>15
<1>17. /\ q[l + 1] = x /\ q[l + 2] = y /\ l + 1 < Len(q)
       /\ View(q, l + 1)' = w /\ View(q, l + 2)' = w
       /\ View(q, (l + 2) + 1)' = n
  <2>1. q[l + 1] = x /\ q[l + 2] = y
    BY <1>12, <1>13, <1>15, <1>16
  <2>2. View(q, l + 1)' = w /\ View(q, l + 2)' = w
    BY <1>5, <1>14, <1>15, <1>16
  <2>3. l + 1 < Len(q)
    BY <1>16
  <2>4. View(q, (l + 2) + 1)' = n
    BY <1>6, <1>14, <1>16
  <2> QED
    BY <2>1, <2>2, <2>3, <2>4
<1>18. (l + 1) + 1 = l + 2 /\ (l + 2) - 1 = l + 1 /\ (l + 1) + 2 = (l + 2) + 1
  OBVIOUS
<1>19. Sent(q, l + 1)'
  <2>1. Len(files') \in 1 .. Len(files') /\ files'[Len(files')] = [run |-> starts, type |-> w.session]
    BY <1>1, <1>10, FilesStay
  <2>2. EndSent(q, l + 1)'
    BY <1>1, <1>9, <1>10, <1>17, <1>18, <2>1 DEF EndSent
  <2> QED
    BY <1>1, <1>9, <1>17, <2>2 DEF Sent
<1>20. Sent(q, l + 2)'
  <2>1. NewSent(q, l + 2)'
    BY <1>9, <1>10, <1>17, <1>18 DEF NewSent
  <2> QED
    BY <1>1, <1>9, <1>17, <2>1 DEF Sent
<1>21. \A k \in 1 .. Len(m) : Sent(q, Len(p) + k)'
  <2>1. 1 .. Len(m) = {1, 2}
    BY <1>12
  <2> QED
    BY <1>15, <1>19, <1>20, <2>1
<1>22. FileWritten /\ EventSessions[current] = LastSession /\ ~RacesMixedUp' /\ ~EndMissed'
         => Finishes(q, Len(p) + 1)'
  BY <1>9, <1>10, <1>15, <1>17 DEF Finishes
<1>23. ~(m[1].kind = "newSession")
  BY <1>9, <1>12
<1> QED
  BY <1>2, <1>5, <1>7, <1>8, <1>12, <1>21, <1>22, <1>23, FollowPlays

------------------------------------------------------------------------------
(* A message is received.                                                       *)

LEMMA ChainSame ==
  ASSUME UNCHANGED <<starts, current, lapped, files, unusual, behind>>, NEW q, Chain(q)
  PROVE  Chain(q)'
<1>1. UNCHANGED <<starts, current, lapped, files>>
  BY DEF acServer
<1>2. Now' = Now
  BY <1>1 DEF Now
<1>3. \A i : View(q, i)' = View(q, i)
  BY <1>2 DEF View
<1>4. \A w : EndedOddly(w)' <=> EndedOddly(w)
  BY <1>1 DEF EndedOddly
<1>5. \A i : EndedOddly(View(q, i))' <=> EndedOddly(View(q, i))
  <2> SUFFICES ASSUME NEW i
               PROVE  EndedOddly(View(q, i))' <=> EndedOddly(View(q, i))
    OBVIOUS
  <2>1. PICK w : w = View(q, i)
    OBVIOUS
  <2>2. View(q, i)' = w
    BY <1>3, <2>1
  <2> QED
    BY <1>1, <2>1, <2>2 DEF EndedOddly
<1>6. \A i : Sent(q, i) => Sent(q, i)'
  BY <1>1, <1>3, <1>5 DEF Sent, LapSent, EndSent, NewSent, Leaves
<1> QED
  BY <1>6 DEF Chain

LEMMA FollowedSame ==
  ASSUME UNCHANGED <<starts, current, lapped, files, unusual, behind, active>>, UNCHANGED <<store.sessions, store.completed>>,
         NEW q, FollowedBy(q)
  PROVE  FollowedBy(q)'
<1>1. UNCHANGED <<starts, current, lapped, files>>
  BY DEF acServer
<1>2. Now' = Now
  BY <1>1 DEF Now
<1>3. \A i : View(q, i)' = View(q, i)
  BY <1>2 DEF View
<1>4. PICK v : v = View(q, 1)
  OBVIOUS
<1>5. View(q, 1)' = v
  BY <1>3, <1>4
<1>6. \A i : Leaves(q, i)' <=> Leaves(q, i)
  <2> SUFFICES ASSUME NEW i
               PROVE  Leaves(q, i)' <=> Leaves(q, i)
    OBVIOUS
  <2>1. View(q, i)' = View(q, i) /\ View(q, i + 1)' = View(q, i + 1)
    BY <1>3
  <2> QED
    BY <2>1 DEF Leaves
<1>7. Leaving(q)' <=> Leaving(q)
  BY <1>6 DEF Leaving
<1>8. EndedOddly(v)' <=> EndedOddly(v)
  BY <1>1 DEF EndedOddly
<1>9. (RacesMixedUp' <=> RacesMixedUp) /\ (EndMissed' <=> EndMissed)
  BY DEF RacesMixedUp, EndMissed
<1>10. ASSUME v.session # ""
       PROVE  SessionKnown(store, active, v)' /\ RacesTold(store, v, q)' /\ EndKnown(store, v, q)'
  <2>1. SessionKnown(store, active, v) /\ RacesTold(store, v, q) /\ EndKnown(store, v, q)
    BY <1>4, <1>10 DEF FollowedBy
  <2>2. SessionKnown(store, active, v)'
    BY <1>9, <2>1 DEF SessionKnown
  <2>3. RacesTold(store, v, q)'
    BY <1>7, <1>9, <2>1 DEF RacesTold
  <2>4. EndKnown(store, v, q)'
    BY <1>7, <1>8, <1>9, <2>1 DEF EndKnown
  <2> QED
    BY <2>2, <2>3, <2>4
<1>11. LastKnown(q)'
  <2>1. \A i : Finishes(q, i)' <=> Finishes(q, i)
    BY <1>3, <1>6 DEF Finishes
  <2> QED
    BY <1>1, <1>9, <2>1 DEF LastKnown, FollowedBy
<1>12. active'.on /\ ~store'.completed
  BY DEF FollowedBy
<1>13. View(q, 1)'.session = "" => \A s \in Types : ~store'.sessions[s].found
  BY <1>4, <1>5 DEF FollowedBy
<1>14. ASSUME View(q, 1)'.session # ""
       PROVE  SessionKnown(store, active, View(q, 1))' /\ RacesTold(store, View(q, 1), q)' /\ EndKnown(store, View(q, 1), q)'
  BY <1>5, <1>10, <1>14
<1> QED
  BY <1>11, <1>12, <1>13, <1>14 DEF FollowedBy

LEMMA FirstRemoved ==
  ASSUME NEW S, NEW s \in Seq(S), 1 \in 1 .. Len(s)
  PROVE  <<s[1]>> \o RemoveAt(s, 1) = s
<1>1. Len(s) \in Nat /\ Len(s) >= 1
  OBVIOUS
<1>2. PICK a : a = SubSeq(s, 1, 1 - 1)
  OBVIOUS
<1>3. PICK b : b = SubSeq(s, 1 + 1, Len(s))
  OBVIOUS
<1>4. a = <<>>
  BY <1>2
<1>5. b \in Seq(S) /\ Len(b) = Len(s) - 1 /\ \A k \in 1 .. Len(b) : b[k] = s[k + 1]
  <2>1. \A k \in 2 .. Len(s) : s[k] \in S
    BY <1>1
  <2>2. b = SubSeq(s, 2, Len(s)) /\ 2 \in Int /\ Len(s) \in Int
    BY <1>1, <1>3
  <2>3. b \in Seq(S) /\ \A k \in 1 .. Len(s) - 2 + 1 : b[k] = s[2 + k - 1]
    BY <2>1, <2>2, SubSeqProperties
  <2>4. Len(b) = Len(s) - 1
    <3>1. Len(b) = IF 2 <= Len(s) THEN Len(s) - 2 + 1 ELSE 0
      BY <2>1, <2>2, SubSeqProperties
    <3>2. CASE Len(s) = 1
      BY <1>1, <3>1, <3>2
    <3>3. CASE 2 <= Len(s)
      BY <1>1, <3>1, <3>3
    <3>4. Len(s) = 1 \/ 2 <= Len(s)
      <4> DEFINE n == Len(s)
      <4>1. n \in Nat /\ n >= 1
        BY <1>1
      <4> HIDE DEF n
      <4>2. n = 1 \/ 2 <= n
        BY <4>1
      <4> QED
        BY <4>2 DEF n
    <3> QED
      BY <3>2, <3>3, <3>4
  <2>5. ASSUME NEW k \in 1 .. Len(b)
        PROVE  b[k] = s[k + 1]
    <3>1. k \in 1 .. Len(s) - 2 + 1 /\ 2 + k - 1 = k + 1
      BY <1>1, <2>4
    <3> QED
      BY <2>3, <3>1
  <2> QED
    BY <2>3, <2>4, <2>5
<1>6. RemoveAt(s, 1) = b
  BY <1>2, <1>3, <1>4, <1>5 DEF RemoveAt
<1>7. PICK c \in S : c = s[1]
  BY <1>1
<1>8. /\ <<c>> \o b \in Seq(S) /\ Len(<<c>> \o b) = Len(s)
      /\ \A k \in 1 .. Len(s) : (<<c>> \o b)[k] = s[k]
  BY <1>1, <1>5, <1>7
<1>9. <<c>> \o b = s
  BY <1>8
<1> QED
  BY <1>6, <1>7, <1>9

\* All the messages are of this run, so the first one is received.
LEMMA ReceiveFollows ==
  ASSUME IInv, FollowInv, NEW i, Receive(i)
  PROVE  FollowInv'
<1> SUFFICES ASSUME Following'
             PROVE  Chain(Pending)' /\ FollowedBy(Pending)'
  BY DEF FollowInv
<1>1. /\ disturbed = {} /\ queue[i].run = starts /\ i \in Heads /\ udp = NotBusy
      /\ UNCHANGED <<starts, current, lapped, files, server, store, active, unusual, behind>>
      /\ queue' = RemoveAt(queue, i)
  BY DEF Receive, Following, acServer
<1>2. udp.pc = "idle"
  BY <1>1, TasksNamed
<1>3. server = "champ"
  <2>1. CASE udp' = NotBusy
    BY <1>1, <2>1, TasksNamed DEF Following
  <2>2. CASE udp' # NotBusy
    BY <2>2 DEF Receive, EventIsRunning
  <2> QED
    BY <2>1, <2>2
<1>4. Pending = queue /\ Chain(queue) /\ FollowedBy(queue)
  BY <1>1, <1>2, <1>3 DEF FollowInv, Following, Pending
<1>5. udp' = [pc |-> "handle", msg |-> queue[i], copy |-> store, stale |-> FALSE]
  BY <1>3, <1>4 DEF Receive, EventIsRunning, FollowedBy
<1>6. i \in 1 .. Len(queue) /\ queue \in Seq(Message) /\ Len(queue) \in Nat
  BY <1>1 DEF Heads, IInv, ServerFits
<1>7. i = 1
  <2> SUFFICES ASSUME i # 1
               PROVE  FALSE
    OBVIOUS
  <2>1. 1 \in 1 .. (i - 1) /\ 1 \in 1 .. Len(queue)
    BY <1>6
  <2>2. queue[1].run # queue[i].run
    BY <1>1, <2>1 DEF Heads
  <2>3. Sent(queue, 1)
    BY <1>4, <2>1 DEF Chain
  <2>4. queue[1].run = starts
    BY <2>3 DEF Sent
  <2> QED
    BY <1>1, <2>2, <2>4
<1>8. PICK q : q = queue
  OBVIOUS
<1>9. Pending' = q
  <2>1. udp'.pc = "handle" /\ udp'.msg = q[1] /\ queue' = RemoveAt(q, 1)
    BY <1>1, <1>5, <1>7, <1>8
  <2>2. <<q[1]>> \o RemoveAt(q, 1) = q
    BY <1>6, <1>7, <1>8, FirstRemoved
  <2> QED
    BY <2>1, <2>2 DEF Pending
<1>10. Chain(q)' /\ FollowedBy(q)'
  BY <1>1, <1>4, <1>8, ChainSame, FollowedSame
<1> QED
  BY <1>9, <1>10

------------------------------------------------------------------------------
(* A message is handled, by a thread whose copy is the championship that is     *)
(* stored.                                                                      *)

LEMMA RecordsSame ==
  ASSUME UNCHANGED <<files, starts, unusual, behind>>, misled => misled', NEW d
  PROVE  (Belong(d) => Belong(d)') /\ (Complete(d) => Complete(d)')
<1>1. (RacesMixedUp' <=> RacesMixedUp) /\ (EndMissed' <=> EndMissed)
  BY DEF RacesMixedUp, EndMissed
<1>2. NotExcepted' => NotExcepted
  BY <1>1 DEF NotExcepted
<1>3. Belong(d) => Belong(d)'
  BY <1>2 DEF Belong
<1>4. Complete(d) => Complete(d)'
  BY DEF Complete
<1> QED
  BY <1>3, <1>4

LEMMA RecordsSaved ==
  ASSUME IInv, RecordedInv, disturbed = {}, udp.pc = "handle", UNCHANGED <<files, starts, unusual, behind>>,
         misled => misled', NEW d, Save(d), udp' = NotBusy, Belong(d) \/ misled', Complete(d),
         ~store.completed /\ (active.on => active'.on)
  PROVE  RecordedInv'
<1>1. store' = d /\ th' = [h \in Handlers |-> Aged(th[h])]
  BY DEF Save
<1>2. \A h \in Handlers : th[h] \in {NotBusy} \cup Starting \cup Cancelling \cup SigningUp
  BY HandlerTask
<1>3. \A h \in Handlers :
        /\ th'[h].pc = th[h].pc
        /\ th[h].pc \in {"stop", "cancel", "signUp"} => th'[h].stale
  BY <1>1, <1>2, AgedTask
<1>4. udp'.pc = "idle"
  BY TasksNamed
<1>5. Belong(store)' /\ Complete(store)'
  <2>1. Complete(d)' /\ (Belong(d) => Belong(d)')
    BY RecordsSame
  <2>2. misled' => Belong(d)'
    BY DEF Belong, NotExcepted
  <2> QED
    BY <1>1, <2>1, <2>2
<1>6. \A h \in Handlers : th[h].pc = "launch" => active.on
  BY DEF RecordedInv
<1>7. \A h \in Handlers : th'[h].pc = "launch" => active'.on
  BY <1>3, <1>6
<1> QED
  BY <1>3, <1>4, <1>5, <1>7 DEF RecordedInv

LEMMA RecordsEnd ==
  ASSUME RecordedInv, disturbed = {}, UNCHANGED <<files, starts, unusual, behind, store, th, server>>,
         misled => misled', NEW d, udp'.pc = "stop", udp'.copy = d,
         ~udp'.stale => (Belong(d) \/ misled') /\ Complete(d)
  PROVE  RecordedInv'
<1>1. Belong(store) /\ Complete(store)
  BY DEF RecordedInv
<1>2. PICK c : c = store
  OBVIOUS
<1>5. misled' => Belong(d)'
  BY DEF Belong, NotExcepted
<1>3. Belong(c)' /\ Complete(c)' /\ (~udp'.stale => Belong(d)' /\ Complete(d)')
  BY <1>1, <1>2, <1>5, RecordsSame
<1>4. Belong(store)' /\ Complete(store)' /\ (~udp'.stale => Belong(udp.copy)' /\ Complete(udp.copy)')
  BY <1>2, <1>3
<1> QED
  BY <1>4 DEF RecordedInv

\* What is known when a message is handled.
LEMMA Caught ==
  ASSUME IInv, WholeInv, RecordedInv, FollowInv, udp.pc = "handle", disturbed = {}, ~udp.stale,
         NEW w, w = udp.msg.was
  PROVE  /\ udp.copy = store /\ Sound(store) /\ Whole(store) /\ ~store.completed /\ active.on
         /\ Belong(store) /\ Complete(store) /\ Chain(Pending) /\ LastKnown(Pending)
         /\ w.session = "" => \A s \in Types : ~store.sessions[s].found
         /\ w.session # "" => /\ SessionKnown(store, active, w) /\ RacesTold(store, w, Pending)
                              /\ EndKnown(store, w, Pending)
<1>1. Following
  BY DEF Following
<1>2. Chain(Pending) /\ FollowedBy(Pending)
  BY <1>1 DEF FollowInv
<1>3. View(Pending, 1) = w
  BY PendingHandled
<1>4. Sound(store) /\ Whole(store)
  BY RestNow DEF WholeInv
<1>5. udp.copy = store /\ Belong(store) /\ Complete(store)
  BY DEF RecordedInv
<1> QED
  BY <1>2, <1>3, <1>4, <1>5 DEF FollowedBy

\* What is to be shown of those that follow.
LEMMA FollowsOn ==
  ASSUME IInv, UNCHANGED <<starts, current, lapped, files, unusual, behind, queue>>, udp.pc = "handle", udp' = NotBusy,
         Chain(Pending), NEW v, v = View(queue, 1), v.session # "",
         active'.on, ~store'.completed, NEW c, c = store', NEW a, a = active',
         SessionKnown(c, a, v), RacesTold(c, v, queue), EndKnown(c, v, queue), LastKnown(queue)
  PROVE  FollowInv'
<1>1. Chain(queue)
  BY ChainShrinks
<1>2. PICK q : q = queue
  OBVIOUS
<1>3. Chain(q)'
  BY <1>1, <1>2, ChainSame
<1>4. UNCHANGED <<starts, current, lapped, files>>
  BY DEF acServer
<1>5. Now' = Now
  BY <1>4 DEF Now
<1>6. \A i : View(q, i)' = View(q, i)
  BY <1>5 DEF View
<1>7. \A i : Leaves(q, i)' <=> Leaves(q, i)
  <2> SUFFICES ASSUME NEW i
               PROVE  Leaves(q, i)' <=> Leaves(q, i)
    OBVIOUS
  <2>1. View(q, i)' = View(q, i) /\ View(q, i + 1)' = View(q, i + 1)
    BY <1>6
  <2> QED
    BY <2>1 DEF Leaves
<1>8. Leaving(q)' <=> Leaving(q)
  BY <1>7 DEF Leaving
<1>9. EndedOddly(v)' <=> EndedOddly(v)
  BY <1>4 DEF EndedOddly
<1>10. (RacesMixedUp' <=> RacesMixedUp) /\ (EndMissed' <=> EndMissed)
  BY DEF RacesMixedUp, EndMissed
<1>11. SessionKnown(c, a, v)'
  BY <1>10 DEF SessionKnown
<1>12. RacesTold(c, v, q)'
  BY <1>2, <1>8, <1>10 DEF RacesTold
<1>13. EndKnown(c, v, q)'
  BY <1>2, <1>8, <1>9, <1>10 DEF EndKnown
<1>14. LastKnown(q)'
  <2>1. \A i : Finishes(q, i)' <=> Finishes(q, i)
    BY <1>6, <1>7 DEF Finishes
  <2> QED
    BY <1>2, <1>4, <1>10, <2>1 DEF LastKnown
<1>15. View(q, 1)' = v
  BY <1>2, <1>6
<1>16. SessionKnown(store, active, View(q, 1))' /\ RacesTold(store, View(q, 1), q)'
       /\ EndKnown(store, View(q, 1), q)'
  BY <1>11, <1>12, <1>13, <1>15
<1>17. FollowedBy(q)'
  BY <1>14, <1>15, <1>16 DEF FollowedBy
<1>18. Pending' = q
  <2>1. udp'.pc # "handle"
    BY TasksNamed
  <2> QED
    BY <1>2, <2>1 DEF Pending
<1> QED
  BY <1>3, <1>17, <1>18 DEF FollowInv

LEMMA HandleLapRight ==
  ASSUME IInv, WholeInv, RecordedInv, FollowInv, HandleLap, disturbed' = {}
  PROVE  RecordedInv' /\ FollowInv'
<1>1. /\ udp.pc = "handle" /\ udp.msg.kind = "lap" /\ active' = [active EXCEPT !.laps = active.on]
      /\ Save(udp.copy) /\ udp' = NotBusy /\ disturbed = {} /\ ~udp.stale
      /\ UNCHANGED <<starts, current, lapped, files, server, queue, unusual, behind, misled>>
  BY DEF HandleLap, Lost, acServer
<1>2. PICK w : w = udp.msg.was
  OBVIOUS
<1>3. PICK v : v = View(queue, 1)
  OBVIOUS
<1>4. PICK c : c = store
  OBVIOUS
<1>5. PICK a : a = active'
  OBVIOUS
<1>6. /\ udp.copy = c /\ ~c.completed /\ active.on /\ Belong(c) /\ Complete(c) /\ Chain(Pending)
      /\ LastKnown(Pending)
      /\ w.session # "" => SessionKnown(c, active, w) /\ RacesTold(c, w, Pending) /\ EndKnown(c, w, Pending)
  BY <1>1, <1>2, <1>4, Caught
<1>7. w.session # "" /\ v.session = w.session /\ v.lapped /\ w \in Place /\ v \in Place
  BY <1>1, <1>2, <1>3, <1>6, MessageHandled
<1>8. store' = c
  BY <1>1, <1>6 DEF Save
<1>9. a.on /\ a.type = active.type /\ a.laps = active.on
  <2>1. active \in Active
    BY RestNow
  <2> QED
    BY <1>1, <1>5, <1>6, <2>1 DEF Active
<1>10. RecordedInv'
  BY <1>1, <1>4, <1>5, <1>6, <1>9, RecordsSaved
<1>11. SessionKnown(c, a, v)
  <2>1. a.laps = v.lapped
    BY <1>6, <1>7, <1>9, RestNow DEF Active, Place
  <2> QED
    BY <1>6, <1>7, <1>9, <2>1 DEF SessionKnown
<1>12. ~Leaving(Pending) /\ (Leaving(queue) => EndedOddly(v))
  BY <1>1, <1>3, <1>6, ChainShrinks
<1>13. RacesTold(c, v, queue)
  BY <1>6, <1>7, <1>12 DEF RacesTold
<1>14. EndKnown(c, v, queue)
  BY <1>6, <1>7, <1>12 DEF EndKnown
<1>15. LastKnown(queue)
  <2>1. (\E i \in 1 .. Len(Pending) : Finishes(Pending, i)) => \E i \in 1 .. Len(queue) : Finishes(queue, i)
    BY <1>1, <1>6, ChainShrinks
  <2> QED
    BY <1>6, <2>1 DEF LastKnown
<1>16. FollowInv'
  BY <1>1, <1>3, <1>5, <1>6, <1>7, <1>8, <1>9, <1>11, <1>13, <1>14, <1>15, FollowsOn
<1> QED
  BY <1>10, <1>16

\* The results in a file are recorded for the session that was on.
LEMMA BelongRecorded ==
  ASSUME NEW c, Sound(c), active.type \in Types, c.sessions[active.type].found, Belong(c),
         NEW file \in 1 .. Len(files), file \in 0 .. MaxFiles,
         NotExcepted => files[file] = [run |-> starts, type |-> active.type]
  PROVE  Belong(Recorded(c, file))
<1>1. PICK d : d = Recorded(c, file)
  OBVIOUS
<1>2. /\ d.sessions[active.type].results = file
      /\ \A s \in Types \ {active.type} : d.sessions[s] = c.sessions[s]
  BY <1>1, RecordedIs
<1>3. ASSUME NotExcepted, NEW s \in Types, d.sessions[s].results # 0
      PROVE  /\ d.sessions[s].results \in 1 .. Len(files)
             /\ files[d.sessions[s].results] = [run |-> starts, type |-> s]
  <2>1. CASE s = active.type
    BY <1>2, <1>3, <2>1
  <2>2. CASE s # active.type
    BY <1>2, <1>3, <2>2 DEF Belong
  <2> QED
    BY <2>1, <2>2
<1> QED
  BY <1>1, <1>3 DEF Belong

\* When the last session is recorded, those before it are, or ended without results.
LEMMA CompleteRecorded ==
  ASSUME NEW c, Sound(c), Whole(c), active.type \in Types, c.sessions[active.type].found,
         active.type = LastSession, NEW file \in 0 .. MaxFiles,
         "practice" \in Types /\ ~c.sessions["practice"].done =>
           unusual \cap {<<"practice", "empty">>, <<"practice", "unsaved">>} # {}
  PROVE  Complete(Recorded(c, file))
<1>1. PICK d : d = Recorded(c, file)
  OBVIOUS
<1>2. /\ d.sessions[active.type].done
      /\ \A s \in Types \ {active.type} : d.sessions[s] = c.sessions[s]
  BY <1>1, RecordedIs
<1>3. ASSUME NEW s \in Types, d.sessions[s].found, ~d.sessions[s].done
      PROVE  unusual \cap {<<s, "empty">>, <<s, "unsaved">>} # {}
  <2>1. s # active.type /\ ~c.sessions[s].done
    BY <1>2, <1>3
  <2>2. s \in {"practice", "race", "secondRace"}
    BY Bounds
  <2>3. CASE s = "practice"
    BY <2>1, <2>3
  <2>4. CASE s = "race"
    <3>1. active.type = "secondRace"
      BY <2>1, <2>4, Shape
    <3>2. c.sessions["race"].done
      BY <3>1 DEF Whole
    <3> QED
      BY <2>1, <2>4, <3>2
  <2>5. CASE s = "secondRace"
    BY <2>1, <2>5, Shape
  <2> QED
    BY <2>2, <2>3, <2>4, <2>5
<1> QED
  BY <1>1, <1>3 DEF Complete

\* Results are recorded.  If they are those of the last session, the event is over.
LEMMA LastRecorded ==
  ASSUME IInv, WholeInv, RecordedInv, disturbed' = {}, NEW c, NEW file, NEW type,
         RecordAndSave(c, file, type), active.type \in Types /\ c.sessions[active.type].found,
         active.type = LastSession, UNCHANGED <<starts, current, lapped, files, unusual, behind, server>>,
         misled => misled', ~udp.stale => (Belong(Recorded(c, file)) \/ misled') /\ Complete(Recorded(c, file))
  PROVE  RecordedInv' /\ FollowInv'
<1>1. PICK d : d = Recorded(c, file)
  OBVIOUS
<1>2. /\ UNCHANGED <<store, th, disturbed>>
      /\ udp' = [pc |-> "stop", copy |-> d, next |-> type, stale |-> udp.stale]
  BY <1>1 DEF RecordAndSave
<1>3. udp'.pc = "stop" /\ udp'.copy = d /\ udp'.stale = udp.stale
  BY <1>2
<1>4. UNCHANGED <<files, starts>>
  BY DEF acServer
<1>5. RecordedInv'
  BY <1>1, <1>2, <1>3, <1>4, RecordsEnd
<1>6. ~Following'
  BY <1>3, TasksNamed DEF Following
<1> QED
  BY <1>5, <1>6 DEF FollowInv

LEMMA HandleEndRight ==
  ASSUME IInv, WholeInv, RecordedInv, FollowInv, HandleEndSession, disturbed' = {}
  PROVE  RecordedInv' /\ FollowInv'
<1> DEFINE last == active.type \in Types /\ udp.copy.sessions[active.type].found /\ active.type = LastSession
<1>1. /\ udp.pc = "handle" /\ udp.msg.kind = "endSession" /\ RecordAndSave(udp.copy, udp.msg.file, "")
      /\ UNCHANGED <<starts, current, lapped, files, server, queue, unusual, behind, misled>>
  BY DEF HandleEndSession, acServer
<1>2. disturbed = {} /\ (~last => ~udp.stale)
  BY <1>1 DEF RecordAndSave, Lost
<1>3. CASE udp.stale
  BY <1>1, <1>2, <1>3, LastRecorded
<1>4. CASE ~udp.stale
  <2>1. PICK w : w = udp.msg.was
    OBVIOUS
  <2>2. PICK v : v = View(queue, 1)
    OBVIOUS
  <2>3. PICK c : c = store
    OBVIOUS
  <2>4. /\ udp.copy = c /\ ~c.completed /\ active.on /\ Belong(c) /\ Complete(c) /\ Chain(Pending)
        /\ LastKnown(Pending) /\ Sound(c) /\ Whole(c)
        /\ w.session # "" => SessionKnown(c, active, w) /\ RacesTold(c, w, Pending) /\ EndKnown(c, w, Pending)
    BY <1>1, <1>2, <1>4, <2>1, <2>3, Caught
  <2>5. /\ w.session # "" /\ v = w /\ w \in Place
        /\ udp.msg.file \in 1 .. Len(files) /\ files[udp.msg.file] = [run |-> starts, type |-> w.session]
        /\ queue # <<>> /\ queue[1].kind = "newSession" /\ View(queue, 2).session = After(w.session)
    BY <1>1, <2>1, <2>2, <2>4, MessageHandled
  <2>6. PICK f : f = udp.msg.file
    OBVIOUS
  <2>7. f \in 0 .. MaxFiles /\ f \in 1 .. Len(files)
    BY <1>1, <2>5, <2>6, Handled
  <2>8. SessionKnown(c, active, w) /\ RacesTold(c, w, Pending) /\ EndKnown(c, w, Pending)
    BY <2>4, <2>5
  <2>9. active.type \in Types /\ c.sessions[active.type].found
    BY <2>8 DEF SessionKnown
  <2>10. PICK d : d = Recorded(c, f)
    OBVIOUS
  <2>11. NotExcepted => files[f] = [run |-> starts, type |-> active.type]
    BY <2>5, <2>6, <2>8 DEF NotExcepted, SessionKnown
  <2>12. Belong(d)
    BY <2>4, <2>7, <2>9, <2>10, <2>11, BelongRecorded
  <2>13. /\ d.sessions[active.type].found /\ d.sessions[active.type].done
         /\ \A s \in Types \ {active.type} : d.sessions[s] = c.sessions[s]
         /\ d.completed = (active.type = LastSession)
    <3>1. Sound(c) /\ f \in 0 .. MaxFiles
      BY <2>4, <2>7
    <3> QED
      BY <2>9, <2>10, <3>1, RecordedIs
  <2>14. CASE last
    <3>1. active.type = LastSession /\ LastSession # "practice"
      BY <2>14, Shape
    <3>2. w.session # "practice"
      BY <2>8, <3>1 DEF SessionKnown
    <3>3. "practice" \in Types /\ ~c.sessions["practice"].done =>
             unusual \cap {<<"practice", "empty">>, <<"practice", "unsaved">>} # {}
      BY <2>8, <3>2 DEF EndKnown
    <3>4. Complete(d)
      BY <2>4, <2>7, <2>9, <2>10, <3>1, <3>3, CompleteRecorded
    <3> QED
      BY <1>1, <2>4, <2>6, <2>10, <2>12, <2>14, <3>4, LastRecorded
  <2>15. CASE ~last
    <3>1. active.type # LastSession /\ ~d.completed
      BY <2>4, <2>9, <2>13, <2>15
    <3>2. active' = Entered("") /\ Save(d) /\ udp' = NotBusy
      BY <1>1, <2>4, <2>6, <2>9, <2>10, <2>15 DEF RecordAndSave
    <3>3. active' = active /\ store' = d
      BY <3>2 DEF Entered, Save
    <3>4. Complete(d)
      BY <3>1 DEF Complete
    <3>5. RecordedInv'
      BY <1>1, <1>2, <2>3, <2>4, <2>12, <3>2, <3>3, <3>4, RecordsSaved
    <3>6. PICK a : a = active
      OBVIOUS
    <3>7. SessionKnown(d, a, v)
      <4>1. "practice" \in Types => d.sessions["practice"].found
        BY <2>8, <2>13 DEF SessionKnown
      <4> QED
        BY <2>5, <2>8, <2>13, <3>6, <4>1 DEF SessionKnown
    <3>8. ~RacesMixedUp \/ w.session = "practice" \/ active.type = "practice" => active.type = w.session
      BY <2>8 DEF SessionKnown
    <3>9. RacesTold(d, v, queue)
      <4> SUFFICES ASSUME ~RacesMixedUp, "secondRace" \in Types
                   PROVE  /\ w.session # "secondRace"
                          /\ d.sessions["race"].done => w.session = "race" /\ Leaving(queue)
        BY <2>5 DEF RacesTold
      <4>1. LastSession = "secondRace" /\ active.type = w.session
        BY <3>8, Shape
      <4>2. w.session # "secondRace"
        BY <3>1, <4>1
      <4>3. ASSUME d.sessions["race"].done
            PROVE  w.session = "race"
        <5> SUFFICES ASSUME w.session # "race"
                     PROVE  FALSE
          OBVIOUS
        <5>1. "race" \in Types
          BY Bounds
        <5>2. c.sessions["race"].done
          BY <2>13, <4>1, <4>3, <5>1
        <5> QED
          BY <2>8, <4>2, <5>2 DEF RacesTold
      <4>4. w.session = "race" => Leaving(queue)
        <5> SUFFICES ASSUME w.session = "race"
                     PROVE  Leaving(queue)
          OBVIOUS
        <5>1. After("race") = "secondRace"
          BY DEF After
        <5>2. View(queue, 1).session = "race" /\ View(queue, 1 + 1).session = "secondRace"
          BY <2>2, <2>5, <5>1
        <5> QED
          BY <2>5, <5>2 DEF Leaving, Leaves
      <4> QED
        BY <4>2, <4>3, <4>4
    <3>10. EndKnown(d, v, queue)
      <4>1. ~RacesMixedUp \/ w.session = "practice" => d.sessions[w.session].done
        BY <2>13, <3>8
      <4>2. "practice" \in Types /\ w.session # "practice" /\ ~d.sessions["practice"].done =>
              unusual \cap {<<"practice", "empty">>, <<"practice", "unsaved">>} # {}
        BY <2>8, <2>13 DEF EndKnown
      <4> QED
        BY <2>5, <4>1, <4>2 DEF EndKnown
    <3>11. LastKnown(queue)
      <4>1. (\E i \in 1 .. Len(Pending) : Finishes(Pending, i)) =>
               \/ \E i \in 1 .. Len(queue) : Finishes(queue, i)
               \/ w.session = LastSession
        BY <1>1, <2>1, <2>4, ChainShrinks
      <4>2. ~RacesMixedUp => w.session # LastSession
        BY <3>1, <3>8
      <4> QED
        BY <2>4, <4>1, <4>2 DEF LastKnown
    <3>12. FollowInv'
      BY <1>1, <2>2, <2>4, <2>5, <3>1, <3>2, <3>3, <3>6, <3>7, <3>9, <3>10, <3>11, FollowsOn
    <3> QED
      BY <3>5, <3>12
  <2> QED
    BY <2>14, <2>15
<1> QED
  BY <1>3, <1>4

\* What is known when it is handled that a session began: the championship, where acServer was
\* when it said so, and where it was next.
Heard(c, w, v) ==
  /\ Sound(c) /\ Whole(c) /\ ~c.completed /\ active \in Active
  /\ w \in Place /\ v \in Place /\ v.session # "" /\ ~v.lapped
  /\ v.session \in {w.session, After(w.session)}
  /\ Leaving(Pending) <=> w.session # "" /\ v.session # w.session
  /\ w.session = "" => \A s \in Types : ~c.sessions[s].found
  /\ w.session # "" =>
       SessionKnown(c, active, w) /\ RacesTold(c, w, Pending) /\ EndKnown(c, w, Pending)

\* No session ended oddly that mixes up the races.
LEMMA RacesEndWell ==
  ASSUME ~RacesMixedUp, "secondRace" \in Types, NEW w, EndedOddly(w)
  PROVE  /\ w.session # "race"
         /\ w.session = "secondRace" =>
              w.lapped /\ files # <<>> /\ "practice" \in Types
<1>1. /\ <<"race", "empty">> \notin unusual /\ <<"race", "unsaved">> \notin unusual
      /\ <<"race", "unreported">> \notin unusual
      /\ <<"secondRace", "empty">> \notin unusual /\ <<"secondRace", "unsaved">> \notin unusual
  BY DEF RacesMixedUp
<1>2. w.session # "race"
  BY <1>1 DEF EndedOddly
<1>3. w.session = "secondRace" => w.lapped /\ <<"secondRace", "unreported">> \in unusual /\ files # <<>>
  BY <1>1 DEF EndedOddly
<1>4. <<"secondRace", "unreported">> \in unusual => "practice" \in Types
  <2>1. LastSession = "secondRace"
    BY Shape
  <2> QED
    BY <2>1 DEF RacesMixedUp, EndMissed
<1> QED
  BY <1>2, <1>3, <1>4

LEMMA TypeTold ==
  ASSUME NEW c, NEW w, NEW v, Heard(c, w, v), NEW name, name = NameOf(v.session),
         NEW type, type = TypeNamed(c, name)
  PROVE  /\ type \in Types
         /\ v.session = "practice" <=> type = "practice"
         /\ ~RacesMixedUp => type = v.session
<1>1. v.session \in Types /\ v.session \in {"practice", "race", "secondRace"} /\ "race" \in Types
  BY Bounds DEF Heard, Place
<1>2. CASE v.session = "practice"
  <2>1. type = "practice"
    BY <1>2 DEF NameOf, TypeNamed
  <2> QED
    BY <1>1, <1>2, <2>1
<1>3. CASE v.session # "practice"
  <2>1. name = "race"
    BY <1>1, <1>3 DEF NameOf
  <2>2. type = IF "secondRace" \in Types /\ c.sessions["race"].done THEN "secondRace" ELSE "race"
    BY <2>1 DEF TypeNamed
  <2>3. type \in Types /\ type # "practice"
    BY <1>1, <2>2
  <2> SUFFICES ASSUME ~RacesMixedUp
               PROVE  type = v.session
    BY <1>3, <2>3
  <2>4. CASE v.session = "race"
    <3> SUFFICES ASSUME "secondRace" \in Types, c.sessions["race"].done
                 PROVE  FALSE
      BY <2>2, <2>4
    <3>1. w.session # ""
      BY <1>1 DEF Heard, Whole
    <3>2. RacesTold(c, w, Pending) /\ EndKnown(c, w, Pending)
      BY <3>1 DEF Heard
    <3>3. After("race") = "secondRace"
      BY DEF After
    <3>4. w.session = "secondRace"
      <4>1. w.session # "secondRace" => w.session = "race" /\ Leaving(Pending)
        BY <3>2 DEF RacesTold
      <4>2. w.session = "race" => ~Leaving(Pending)
        BY <2>4 DEF Heard
      <4> QED
        BY <4>1, <4>2
    <3>5. Leaving(Pending)
      BY <2>4, <3>4 DEF Heard
    <3>6. LastSession = "secondRace"
      BY Shape
    <3>7. ~c.sessions["secondRace"].done
      BY <3>6 DEF Heard, Whole
    <3>8. EndedOddly(w)
      BY <3>2, <3>4, <3>5, <3>7 DEF EndKnown
    <3>9. "practice" \in Types
      BY <3>4, <3>8, RacesEndWell
    <3>10. After(w.session) = "practice"
      BY <3>4, <3>9 DEF After
    <3> QED
      BY <2>4, <3>4, <3>10 DEF Heard
  <2>5. CASE v.session = "secondRace"
    <3>1. w.session \in {"race", "secondRace"}
      <4>1. w.session # "secondRace" => v.session = After(w.session)
        BY <2>5 DEF Heard
      <4>2. After(w.session) = "secondRace" => w.session = "race"
        BY DEF After
      <4> QED
        BY <2>5, <4>1, <4>2
    <3>2. RacesTold(c, w, Pending) /\ EndKnown(c, w, Pending)
      BY <3>1 DEF Heard
    <3>3. CASE w.session = "secondRace"
      BY <1>1, <2>2, <2>5, <3>2, <3>3 DEF RacesTold
    <3>4. CASE w.session = "race"
      <4>1. Leaving(Pending)
        BY <2>5, <3>4 DEF Heard
      <4>2. c.sessions["race"].done \/ EndedOddly(w)
        BY <3>2, <3>4, <4>1 DEF EndKnown
      <4>3. ~EndedOddly(w)
        BY <1>1, <2>5, <3>4, RacesEndWell
      <4> QED
        BY <1>1, <2>2, <2>5, <4>2, <4>3
    <3> QED
      BY <3>1, <3>3, <3>4
  <2> QED
    BY <1>1, <1>3, <2>4, <2>5
<1> QED
  BY <1>2, <1>3

\* A session that begins changes nothing of what is recorded.
LEMMA BegunSame ==
  ASSUME NEW c0, Sound(c0), Whole(c0), NEW t \in Types, NEW c, c = Begun(c0, t)
  PROVE  /\ \A s \in Types : /\ c.sessions[s].done = c0.sessions[s].done
                             /\ c.sessions[s].results = c0.sessions[s].results
                             /\ c0.sessions[s].found => c.sessions[s] = c0.sessions[s]
         /\ c.sessions[t].found /\ c.completed = c0.completed
         /\ \A s \in Types \ {t} : c.sessions[s] = c0.sessions[s]
<1>1. /\ c.sessions[t] = IF c0.sessions[t].found THEN c0.sessions[t] ELSE Fresh
      /\ \A s \in Types \ {t} : c.sessions[s] = c0.sessions[s]
      /\ c.completed = c0.completed
  BY BegunIs
<1>2. c.sessions[t].found
  BY <1>1, FreshIs
<1>3. c0.sessions[t].found => c.sessions[t] = c0.sessions[t]
  BY <1>1
<1>4. ~c0.sessions[t].found => c.sessions[t] = Fresh /\ ~c0.sessions[t].done /\ c0.sessions[t].results = 0
  BY <1>1 DEF Whole
<1>5. c0.sessions[t].done \in BOOLEAN /\ c.sessions[t].done \in BOOLEAN
  <2>1. Sound(c)
    BY BegunSound
  <2> QED
    BY <2>1, SessionsTyped
<1>6. c.sessions[t].done = c0.sessions[t].done /\ c.sessions[t].results = c0.sessions[t].results
  BY <1>3, <1>4, <1>5, FreshIs
<1> QED
  BY <1>1, <1>2, <1>3, <1>6

\* If the results of the session before are looked for, it had laps and was left, and the file
\* written last is its own unless there is an exception.
LEMMA UnfinishedKnown ==
  ASSUME IInv, NEW c0, NEW w, NEW v, Heard(c0, w, v), NEW type \in Types, ~RacesMixedUp => type = v.session,
         NEW c, c = Begun(c0, type), Unfinished(c, type)
  PROVE  /\ w.session # "" /\ active.type \in Types /\ active.type # type
         /\ c.sessions[active.type].found /\ ~c0.sessions[active.type].done
         /\ Len(files) \in 1 .. Len(files)
         /\ NotExcepted /\ files[Len(files)].run = starts =>
              files[Len(files)] = [run |-> starts, type |-> active.type]
<1>1. /\ active.type \in Types /\ active.type # type /\ active.laps
      /\ c.sessions[active.type].found /\ ~c.sessions[active.type].done /\ files # <<>>
  BY DEF Unfinished
<1>2. Sound(c0) /\ Whole(c0)
  BY DEF Heard
<1>3. c.sessions[active.type] = c0.sessions[active.type]
  BY <1>1, <1>2, BegunSame
<1>4. w.session # ""
  BY <1>1, <1>3 DEF Heard
<1>5. Len(files) \in 1 .. Len(files)
  <2> DEFINE n == Len(files)
  <2>1. n \in Nat /\ n # 0
    BY <1>1 DEF IInv, ServerFits
  <2> HIDE DEF n
  <2>2. n \in 1 .. n
    BY <2>1
  <2> QED
    BY <2>2 DEF n
<1>6. ASSUME NotExcepted, files[Len(files)].run = starts
      PROVE  files[Len(files)] = [run |-> starts, type |-> active.type]
  <2>1. ~RacesMixedUp /\ ~behind /\ <<active.type, "unsaved">> \notin unusual
    BY <1>1, <1>6 DEF NotExcepted
  <2>2. SessionKnown(c0, active, w) /\ EndKnown(c0, w, Pending)
    BY <1>4 DEF Heard
  <2>3. active.type = w.session /\ w.lapped
    BY <1>1, <2>1, <2>2 DEF SessionKnown
  <2>4. Leaving(Pending)
    BY <1>1, <1>4, <2>1, <2>3 DEF Heard
  <2>5. EndedOddly(w)
    BY <1>1, <1>3, <2>1, <2>2, <2>3, <2>4 DEF EndKnown
  <2>6. files[Len(files)].type = active.type
    BY <1>6, <2>1, <2>3, <2>5 DEF EndedOddly
  <2>7. files[Len(files)] \in File
    BY <1>5 DEF IInv, ServerFits
  <2> QED
    BY <1>6, <2>6, <2>7 DEF File
<1> QED
  BY <1>1, <1>3, <1>4, <1>5, <1>6

\* What a session is taken for when it begins, and what is recorded then.
Taken(c0, v, type) ==
  /\ type \in Types /\ (v.session = "practice" <=> type = "practice")
  /\ ~RacesMixedUp => type = v.session
  /\ type = "secondRace" => c0.sessions["race"].done
Entering(c, type, d, a) ==
  /\ a.type = type /\ a.laps = FALSE
  /\ ~(Unfinished(c, type) /\ active.type = LastSession)
  /\ \A s \in Types :
       /\ c.sessions[s].found => d.sessions[s].found
       /\ d.sessions[s].done <=> c.sessions[s].done \/ (Unfinished(c, type) /\ s = active.type)

\* What is known of those that follow, once the session of the type began in d, and the results
\* of the session before were recorded in it if they had been looked for.
LEMMA NewSessionKnown ==
  ASSUME IInv, NEW c0, NEW w, NEW v, Heard(c0, w, v), NEW type \in Types, Taken(c0, v, type),
         NEW c, c = Begun(c0, type), NEW d, NEW a, Entering(c, type, d, a),
         Leaving(queue) => EndedOddly(v)
  PROVE  SessionKnown(d, a, v) /\ RacesTold(d, v, queue) /\ EndKnown(d, v, queue)
<1>1. /\ \A s \in Types : /\ c.sessions[s].done = c0.sessions[s].done
                          /\ c0.sessions[s].found => c.sessions[s].found
      /\ c.sessions[type].found
  <2>1. Sound(c0) /\ Whole(c0)
    BY DEF Heard
  <2> QED
    BY <2>1, BegunSame
<1>9. /\ v.session = "practice" <=> type = "practice"
      /\ ~RacesMixedUp => type = v.session
      /\ type = "secondRace" => c0.sessions["race"].done
  BY DEF Taken
<1>10. /\ a.type = type /\ a.laps = FALSE
       /\ ~(Unfinished(c, type) /\ active.type = LastSession)
       /\ \A s \in Types :
            /\ c.sessions[s].found => d.sessions[s].found
            /\ d.sessions[s].done <=> c.sessions[s].done \/ (Unfinished(c, type) /\ s = active.type)
  BY DEF Entering
<1>2. \A s \in Types : d.sessions[s].done <=> c0.sessions[s].done \/ (Unfinished(c, type) /\ s = active.type)
  BY <1>1, <1>10
<1>3. /\ v.session \in Types /\ "race" \in Types /\ v.lapped = FALSE
      /\ Types \subseteq {"practice", "race", "secondRace"}
  BY Bounds DEF Heard, Place
<1>4. w.session # "" => /\ SessionKnown(c0, active, w) /\ RacesTold(c0, w, Pending)
                        /\ EndKnown(c0, w, Pending)
  BY DEF Heard
<1>5. \* Looked for, if laps were completed in the session before and it was not recorded.
      ASSUME w.session # "", w.lapped, active.type # type, ~c0.sessions[active.type].done, files # <<>>
      PROVE  Unfinished(c, type)
  <2>1. active.type \in Types /\ c0.sessions[active.type].found /\ active.laps
    BY <1>4, <1>5 DEF SessionKnown
  <2> QED
    BY <1>1, <1>5, <2>1 DEF Unfinished
<1>6. SessionKnown(d, a, v)
  <2>1. d.sessions[type].found
    BY <1>1, <1>10
  <2>2. ASSUME "practice" \in Types
        PROVE  d.sessions["practice"].found
    <3>1. CASE w.session = ""
      <4>1. v.session = "practice" /\ type = "practice"
        BY <1>9, <2>2, <3>1 DEF Heard, After
      <4> QED
        BY <2>1, <4>1
    <3>2. CASE w.session # ""
      BY <1>1, <1>4, <1>10, <2>2, <3>2 DEF SessionKnown
    <3> QED
      BY <3>1, <3>2
  <2> QED
    BY <1>3, <1>9, <1>10, <2>1, <2>2 DEF SessionKnown
<1>7. RacesTold(d, v, queue)
  <2> SUFFICES ASSUME ~RacesMixedUp, "secondRace" \in Types
               PROVE  /\ v.session = "secondRace" => d.sessions["race"].done
                      /\ v.session # "secondRace" => ~d.sessions["race"].done
    BY DEF RacesTold
  <2>1. v.session = type /\ LastSession = "secondRace" /\ After("race") = "secondRace"
    BY <1>9, Shape DEF After
  <2>2. v.session = "secondRace" => d.sessions["race"].done
    BY <1>2, <1>3, <1>9, <2>1
  <2>3. ASSUME v.session # "secondRace", d.sessions["race"].done
        PROVE  FALSE
    <3>1. CASE Unfinished(c, type) /\ active.type = "race"
      <4>1. w.session # ""
        BY <1>9, <3>1, UnfinishedKnown
      <4>2. w.session = "race" /\ v.session # "race"
        BY <1>4, <2>1, <3>1, <4>1 DEF SessionKnown, Unfinished
      <4> QED
        BY <2>1, <2>3, <4>2 DEF Heard
    <3>2. CASE c0.sessions["race"].done
      <4>1. w.session # ""
        BY <1>3, <3>2 DEF Heard, Whole
      <4>2. RacesTold(c0, w, Pending) /\ EndKnown(c0, w, Pending) /\ SessionKnown(c0, active, w)
        BY <1>4, <4>1
      <4>3. w.session = "secondRace"
        <5>1. w.session # "secondRace" => w.session = "race" /\ Leaving(Pending)
          BY <3>2, <4>2 DEF RacesTold
        <5>2. w.session = "race" => ~Leaving(Pending)
          BY <2>1, <2>3 DEF Heard
        <5> QED
          BY <5>1, <5>2
      <4>4. Leaving(Pending)
        BY <2>3, <4>3 DEF Heard
      <4>5. ~c0.sessions["secondRace"].done
        BY <2>1 DEF Heard, Whole
      <4>6. EndedOddly(w)
        BY <4>2, <4>3, <4>4, <4>5 DEF EndKnown
      <4>7. w.lapped /\ files # <<>>
        BY <4>3, <4>6, RacesEndWell
      <4>8. active.type = "secondRace"
        BY <4>2, <4>3 DEF SessionKnown
      <4>9. Unfinished(c, type)
        BY <1>5, <2>1, <2>3, <4>3, <4>5, <4>7, <4>8
      <4> QED
        BY <1>10, <2>1, <4>8, <4>9
    <3> QED
      BY <1>2, <1>3, <2>3, <3>1, <3>2
  <2> QED
    BY <2>2, <2>3
<1>8. EndKnown(d, v, queue)
  <2> SUFFICES ASSUME "practice" \in Types, v.session # "practice", ~d.sessions["practice"].done
               PROVE  unusual \cap {<<"practice", "empty">>, <<"practice", "unsaved">>} # {}
    BY DEF EndKnown
  <2>1. w.session # ""
    BY DEF Heard, After
  <2>2. EndKnown(c0, w, Pending) /\ SessionKnown(c0, active, w)
    BY <1>4, <2>1
  <2>3. ~c0.sessions["practice"].done
    BY <1>2
  <2>4. CASE w.session # "practice"
    BY <2>2, <2>3, <2>4 DEF EndKnown
  <2>5. CASE w.session = "practice"
    <3>1. Leaving(Pending)
      BY <2>1, <2>5 DEF Heard
    <3>2. EndedOddly(w)
      BY <2>2, <2>3, <2>5, <3>1 DEF EndKnown
    <3>3. active.type = "practice" /\ type # "practice"
      BY <1>9, <2>2, <2>5 DEF SessionKnown
    <3>4. ~Unfinished(c, type)
      BY <1>2, <3>3
    <3>5. ~(w.lapped /\ files # <<>>)
      BY <1>5, <2>1, <2>3, <3>3, <3>4
    <3> QED
      BY <2>5, <3>2, <3>5 DEF EndedOddly
  <2> QED
    BY <2>4, <2>5
<1> QED
  BY <1>6, <1>7, <1>8

LEMMA HandleNewRight ==
  ASSUME IInv, WholeInv, RecordedInv, FollowInv, HandleNewSession, disturbed' = {}
  PROVE  RecordedInv' /\ FollowInv'
<1>1. /\ udp.pc = "handle" /\ udp.msg.kind = "newSession"
      /\ UNCHANGED <<starts, current, lapped, files, server, queue, unusual, behind>>
  BY DEF HandleNewSession, acServer
<1>2. PICK name : name = udp.msg.name
  OBVIOUS
<1>3. PICK type : type = TypeNamed(udp.copy, name)
  OBVIOUS
<1>4. PICK c : c = Begun(udp.copy, type)
  OBVIOUS
<1>5. IF Unfinished(c, type)
        THEN /\ RecordAndSave(c, newest, type)
             /\ misled' = (misled \/ newest # Len(files) \/ files[newest].run # starts)
        ELSE /\ active' = Entered(type) /\ Save(c) /\ udp' = NotBusy /\ disturbed' = disturbed \cup Lost(udp)
             /\ misled' = misled
  BY <1>2, <1>3, <1>4, Zenon DEF HandleNewSession, Begun, LastWritten
<1>10. misled => misled'
  BY <1>5, Zenon
<1> DEFINE last == Unfinished(c, type) /\ active.type = LastSession
<1>6. disturbed = {} /\ (~last => ~udp.stale)
  BY <1>5 DEF RecordAndSave, Lost
<1>7. last => active.type \in Types /\ c.sessions[active.type].found /\ active.type = LastSession
  BY DEF Unfinished
<1>8. CASE udp.stale
  BY <1>1, <1>5, <1>6, <1>7, <1>8, <1>10, LastRecorded
<1>9. CASE ~udp.stale
  <2>1. PICK w : w = udp.msg.was
    OBVIOUS
  <2>2. PICK v : v = View(queue, 1)
    OBVIOUS
  <2>3. PICK c0 : c0 = store
    OBVIOUS
  <2>4. /\ udp.copy = c0 /\ ~c0.completed /\ active.on /\ Belong(c0) /\ Complete(c0) /\ Chain(Pending)
        /\ LastKnown(Pending) /\ Sound(c0) /\ Whole(c0)
    BY <1>1, <1>6, <1>9, <2>1, <2>3, Caught
  <2>20. /\ w.session = "" => \A s \in Types : ~c0.sessions[s].found
         /\ w.session # "" => SessionKnown(c0, active, w) /\ RacesTold(c0, w, Pending) /\ EndKnown(c0, w, Pending)
    BY <1>1, <1>6, <1>9, <2>1, <2>3, Caught
  <2>5. /\ v.session # "" /\ ~v.lapped /\ w \in Place /\ v \in Place /\ name = NameOf(v.session)
        /\ v.session \in {w.session, After(w.session)}
    BY <1>1, <1>2, <2>1, <2>2, <2>4, MessageHandled
  <2>6. Leaving(queue) => EndedOddly(v)
    BY <1>1, <2>2, <2>4, ChainShrinks
  <2>21. Leaving(Pending) <=> w.session # "" /\ v.session # w.session
    BY <1>1, <2>1, <2>2, <2>4, ChainShrinks
  <2>7. Heard(c0, w, v)
    BY <2>4, <2>5, <2>20, <2>21, RestNow DEF Heard
  <2>8. /\ type \in Types /\ (v.session = "practice" <=> type = "practice")
        /\ ~RacesMixedUp => type = v.session
    BY <1>3, <2>4, <2>5, <2>7, TypeTold
  <2>9. c = Begun(c0, type)
    BY <1>4, <2>4
  <2>10. /\ \A s \in Types : /\ c.sessions[s].done = c0.sessions[s].done
                             /\ c.sessions[s].results = c0.sessions[s].results
         /\ c.completed = c0.completed
    BY <2>4, <2>8, <2>9, BegunSame
  <2>11. Sound(c)
    BY <2>4, <2>8, <2>9, BegunSound
  <2>12. Belong(c) /\ Complete(c)
    BY <2>4, <2>10 DEF Belong, Complete
  <2>13. PICK n : n = newest
    OBVIOUS
  <2>14. PICK d : d = IF Unfinished(c, type) THEN Recorded(c, n) ELSE c
    OBVIOUS
  <2>15. Unfinished(c, type) =>
           /\ active.type \in Types /\ c.sessions[active.type].found
           /\ n \in 0 .. MaxFiles
           /\ ~misled' => /\ n \in 1 .. Len(files)
                          /\ NotExcepted => files[n] = [run |-> starts, type |-> active.type]
    <3> SUFFICES ASSUME Unfinished(c, type)
                 PROVE  /\ active.type \in Types /\ c.sessions[active.type].found
                        /\ n \in 0 .. MaxFiles
                        /\ ~misled' => /\ n \in 1 .. Len(files)
                                       /\ NotExcepted => files[n] = [run |-> starts, type |-> active.type]
      OBVIOUS
    <3>1. /\ active.type \in Types /\ c.sessions[active.type].found /\ Len(files) \in 1 .. Len(files)
          /\ NotExcepted /\ files[Len(files)].run = starts =>
               files[Len(files)] = [run |-> starts, type |-> active.type]
      BY <2>7, <2>8, <2>9, UnfinishedKnown
    <3>2. ~misled' => n = Len(files) /\ files[n].run = starts
      BY <1>5, <2>13
    <3>3. n \in 0 .. MaxFiles
      BY <2>13 DEF IInv, ServerFits
    <3> QED
      BY <3>1, <3>2, <3>3
  <2>16. Belong(d) \/ misled'
    BY <2>11, <2>12, <2>14, <2>15, BelongRecorded
  <2>17. Unfinished(c, type) =>
           /\ d.sessions[active.type].found /\ d.sessions[active.type].done
           /\ \A s \in Types \ {active.type} : d.sessions[s] = c.sessions[s]
           /\ d.completed = (active.type = LastSession)
    BY <2>11, <2>14, <2>15, RecordedIs
  <2>18. CASE last
    <3>1. active.type = LastSession /\ LastSession # "practice" /\ Unfinished(c, type)
      BY <2>18, Shape
    <3>7. SessionKnown(c0, active, w) /\ EndKnown(c0, w, Pending)
      <4>1. w.session # ""
        BY <2>7, <2>8, <2>9, <3>1, UnfinishedKnown
      <4> QED
        BY <2>20, <4>1
    <3>2. w.session # "practice"
      BY <3>1, <3>7 DEF SessionKnown
    <3>3. "practice" \in Types /\ ~c.sessions["practice"].done =>
             unusual \cap {<<"practice", "empty">>, <<"practice", "unsaved">>} # {}
      BY <2>10, <3>2, <3>7 DEF EndKnown
    <3>4. Whole(c)
      <4>1. udp.msg.name \in Types \ {"secondRace"}
        BY <1>1, Handled
      <4> QED
        BY <1>2, <1>3, <2>4, <2>9, <4>1, WholeBegun
    <3>5. Complete(d)
      BY <2>11, <2>14, <2>15, <3>1, <3>3, <3>4, CompleteRecorded
    <3>6. RecordAndSave(c, n, type) /\ d = Recorded(c, n)
      BY <1>5, <2>13, <2>14, <3>1
    <3> QED
      BY <1>1, <1>7, <1>10, <2>16, <2>18, <3>5, <3>6, LastRecorded
  <2>19. CASE ~last
    <3>1. active' = Entered(type) /\ Save(d) /\ udp' = NotBusy
      <4>1. CASE Unfinished(c, type)
        BY <1>5, <2>13, <2>14, <2>15, <2>19, <4>1 DEF RecordAndSave
      <4>2. CASE ~Unfinished(c, type)
        BY <1>5, <2>14, <4>2
      <4> QED
        BY <4>1, <4>2
    <3>2. ~d.completed
      BY <2>4, <2>10, <2>14, <2>17, <2>19
    <3>3. Complete(d)
      BY <3>2 DEF Complete
    <3>4. store' = d /\ active'.on
      <4>1. active \in Active
        BY RestNow
      <4> QED
        BY <2>4, <3>1, <4>1 DEF Entered, Save, Active
    <3>5. RecordedInv'
      BY <1>1, <1>6, <1>10, <2>3, <2>4, <2>16, <3>1, <3>3, <3>4, RecordsSaved
    <3>6. CASE server # "champ"
      <4>1. ~Following'
        BY <1>1, <3>1, <3>6, TasksNamed DEF Following
      <4> QED
        BY <3>5, <4>1 DEF FollowInv
    <3>7. CASE server = "champ"
      <4>1. PICK a : a = active'
        OBVIOUS
      <4>2. a.type = type /\ a.laps = FALSE
        <5>1. active \in Active /\ type # ""
          BY <2>8, RestNow, Bounds
        <5> QED
          BY <2>4, <3>1, <3>7, <4>1, <5>1 DEF Entered, EventIsRunning, Active
      <4>3. \A s \in Types : /\ c.sessions[s].found => d.sessions[s].found
                             /\ d.sessions[s].done <=>
                                  c.sessions[s].done \/ (Unfinished(c, type) /\ s = active.type)
        BY <2>14, <2>17
      <4>4. type = "secondRace" => c0.sessions["race"].done
        <5>1. name # "secondRace"
          BY <2>5 DEF NameOf
        <5> QED
          BY <1>3, <2>4, <5>1 DEF TypeNamed
      <4>5. SessionKnown(d, a, v) /\ RacesTold(d, v, queue) /\ EndKnown(d, v, queue)
        <5>1. Taken(c0, v, type)
          BY <2>8, <4>4 DEF Taken
        <5>2. Entering(c, type, d, a)
          BY <2>19, <4>2, <4>3 DEF Entering
        <5> QED
          BY <2>6, <2>7, <2>8, <2>9, <5>1, <5>2, NewSessionKnown
      <4>6. LastKnown(queue)
        <5>1. (\E i \in 1 .. Len(Pending) : Finishes(Pending, i)) =>
                 \/ \E i \in 1 .. Len(queue) : Finishes(queue, i)
                 \/ w.session = LastSession /\ w.lapped /\ v.session # w.session
          BY <1>1, <2>1, <2>2, <2>4, ChainShrinks
        <5>2. ASSUME ~RacesMixedUp, NEW f \in 1 .. Len(files),
                     w.session = LastSession, w.lapped, v.session # w.session
              PROVE  FALSE
          <6>1. LastSession \in Types /\ files # <<>>
            <7>1. files # <<>>
              BY <5>2
            <7>2. LastSession \in Types
              BY Bounds
            <7> QED
              BY <7>1, <7>2
          <6>5. "" \notin Types
            BY Bounds
          <6>4. SessionKnown(c0, active, w)
            <7>1. w.session # ""
              BY <5>2, <6>1, <6>5
            <7> QED
              BY <2>20, <7>1
          <6>2. /\ active.type = LastSession /\ active.laps /\ c0.sessions[LastSession].found
                /\ ~c0.sessions[LastSession].done
            BY <2>4, <5>2, <6>1, <6>4 DEF SessionKnown, Whole
          <6>3. c.sessions[LastSession].found /\ ~c.sessions[LastSession].done /\ type # LastSession
            BY <2>4, <2>8, <2>9, <2>10, <5>2, <6>1, <6>2, BegunSame
          <6> QED
            BY <2>19, <6>1, <6>2, <6>3 DEF Unfinished
        <5> QED
          BY <2>4, <5>1, <5>2 DEF LastKnown
      <4>7. FollowInv'
        BY <1>1, <2>2, <2>4, <2>5, <3>1, <3>2, <3>4, <4>1, <4>5, <4>6, FollowsOn
      <4> QED
        BY <3>5, <4>7
    <3> QED
      BY <3>6, <3>7
  <2> QED
    BY <2>18, <2>19
<1> QED
  BY <1>8, <1>9

------------------------------------------------------------------------------
(* The other steps.                                                             *)

LEMMA PlayingRecorded ==
  ASSUME IInv, RecordedInv, Playings
  PROVE  RecordedInv'
<1>1. /\ UNCHANGED <<server, starts, store, active, udp, th, misled, disturbed>>
      /\ files' = files \/ FileWritten
  BY DEF Playings
<1>2. NotExcepted' => NotExcepted
  BY ExceptionsStay
<1>3. \A f \in 1 .. Len(files) : f \in 1 .. Len(files') /\ files'[f] = files[f]
  BY <1>1, FilesStay
<1>4. \A s : unusual \cap {<<s, "empty">>, <<s, "unsaved">>} # {} =>
               unusual' \cap {<<s, "empty">>, <<s, "unsaved">>} # {}
  BY ExceptionsStay
<1>5. ASSUME NEW d, Belong(d)
      PROVE  Belong(d)'
  BY <1>1, <1>2, <1>3, <1>5 DEF Belong
<1>6. ASSUME NEW d, Complete(d)
      PROVE  Complete(d)'
  BY <1>4, <1>6 DEF Complete
<1> SUFFICES ASSUME disturbed = {}
             PROVE  RecordedInv'
  BY <1>1 DEF RecordedInv
<1>7. PICK c : c = store
  OBVIOUS
<1>8. PICK d : d = udp.copy
  OBVIOUS
<1>9. Belong(c)' /\ Complete(c)'
  BY <1>5, <1>6, <1>7 DEF RecordedInv
<1>10. udp.pc \in {"stop", "save"} /\ ~udp.stale => Belong(d)' /\ Complete(d)'
  BY <1>5, <1>6, <1>8 DEF RecordedInv
<1>11. Belong(store)' /\ Complete(store)'
  BY <1>1, <1>7, <1>9
<1>12. udp'.pc \in {"stop", "save"} /\ ~udp'.stale => Belong(udp.copy)' /\ Complete(udp.copy)'
  BY <1>1, <1>8, <1>10
<1>13. udp'.pc = "handle" /\ ~udp'.stale => udp'.copy = store'
  BY <1>1 DEF RecordedInv
<1> QED
  BY <1>1, <1>11, <1>12, <1>13 DEF RecordedInv

LEMMA PlayingRight ==
  ASSUME IInv, RecordedInv, FollowInv,
         LapCompleted \/ SessionEnds \/ SessionEndsUnreported \/ SessionBegins \/ SessionRestarts
  PROVE  RecordedInv' /\ FollowInv'
<1>1. Playings
  <2>1. UNCHANGED <<server, starts, store, active, udp, th, misled, disturbed>>
    BY DEF LapCompleted, SessionEnds, SessionEndsUnreported, SessionBegins, SessionRestarts, Playing
  <2>2. files' = files \/ FileWritten
    BY DEF LapCompleted, SessionEnds, SessionEndsUnreported, SessionBegins, SessionRestarts
  <2>3. FileWritten => (behind => behind')
    BY DEF FileWritten
  <2>4. ASSUME NEW how, EndsUnusually(how)
        PROVE  unusual \subseteq unusual'
    BY <2>4 DEF EndsUnusually
  <2>5. behind => behind'
    BY <2>3 DEF LapCompleted, SessionEnds, SessionEndsUnreported, SessionBegins, SessionRestarts
  <2>6. unusual \subseteq unusual'
    <3>1. CASE SessionEndsUnreported
      BY <2>4, <3>1 DEF SessionEndsUnreported
    <3>2. CASE SessionBegins
      <4>1. CASE current = 0
        BY <3>2, <4>1 DEF SessionBegins
      <4>2. CASE current # 0
        BY <2>4, <3>2, <4>2 DEF SessionBegins
      <4> QED
        BY <4>1, <4>2
    <3>3. CASE LapCompleted \/ SessionEnds \/ SessionRestarts
      BY <3>3 DEF LapCompleted, SessionEnds, SessionRestarts
    <3> QED
      BY <3>1, <3>2, <3>3
  <2> QED
    BY <2>1, <2>2, <2>5, <2>6 DEF Playings
<1> QED
  BY <1>1, PlayingRecorded, LapFollows, EndsFollows, UnreportedFollows, BeginsFollows, RestartsFollows

LEMMA ReceiveRight ==
  ASSUME IInv, RecordedInv, FollowInv, NEW i, Receive(i), disturbed' = {}
  PROVE  RecordedInv' /\ FollowInv'
<1>1. /\ UNCHANGED <<starts, current, lapped, files, server, store, active, th, unusual, behind, misled>> /\ udp = NotBusy
      /\ disturbed = {}
  BY DEF Receive, acServer
<1>2. \/ udp'.pc = "idle"
      \/ udp'.pc = "handle" /\ udp'.copy = store
  BY TasksNamed DEF Receive
<1>3. PICK c : c = store
  OBVIOUS
<1>4. Belong(c)' /\ Complete(c)'
  BY <1>1, <1>3, RecordsSame DEF RecordedInv
<1>5. Belong(store)' /\ Complete(store)'
  BY <1>1, <1>3, <1>4
<1>6. udp.pc = "idle"
  BY <1>1, TasksNamed
<1>7. RecordedInv'
  BY <1>1, <1>2, <1>5, <1>6 DEF RecordedInv
<1> QED
  BY <1>7, ReceiveFollows

LEMMA EndRight ==
  ASSUME IInv, WholeInv, RecordedInv, Stop \/ SaveCompleted, disturbed' = {}
  PROVE  RecordedInv' /\ FollowInv'
<1>1. /\ UNCHANGED <<starts, current, lapped, files, unusual, behind, misled>>
      /\ disturbed = {}
  BY DEF Stop, SaveCompleted, acServer
<1>2. Belong(store) /\ Complete(store)
  BY <1>1 DEF RecordedInv
<1>3. CASE Stop
  <2>1. /\ udp' = [udp EXCEPT !.pc = "save"] /\ server' = "none" /\ UNCHANGED <<store, th, active>>
        /\ udp.pc = "stop"
    BY <1>3 DEF Stop
  <2>2. udp \in Ending
    BY <2>1, UdpTask
  <2>3. udp'.pc = "save" /\ udp'.copy = udp.copy /\ udp'.stale = udp.stale
    BY <2>1, <2>2 DEF Ending
  <2>4. PICK c : c = store
    OBVIOUS
  <2>5. PICK d : d = udp.copy
    OBVIOUS
  <2>6. ~udp.stale => Belong(d) /\ Complete(d)
    BY <1>1, <2>1, <2>5 DEF RecordedInv
  <2>7. Belong(c)' /\ Complete(c)' /\ (~udp.stale => Belong(d)' /\ Complete(d)')
    BY <1>1, <1>2, <2>4, <2>6, RecordsSame
  <2>8. Belong(store)' /\ Complete(store)' /\ (~udp'.stale => Belong(udp.copy)' /\ Complete(udp.copy)')
    BY <2>1, <2>3, <2>4, <2>5, <2>7
  <2>9. RecordedInv'
    BY <1>1, <2>1, <2>3, <2>8 DEF RecordedInv
  <2>10. ~Following'
    BY <2>3, TasksNamed DEF Following
  <2> QED
    BY <2>9, <2>10 DEF FollowInv
<1>4. CASE SaveCompleted
  <2>1. PICK d : d = udp.copy
    OBVIOUS
  <2>2. /\ Save(d) /\ udp' = NotBusy /\ server' = server /\ udp.pc = "save" /\ ~udp.stale
    BY <1>4, <2>1 DEF SaveCompleted, Lost
  <2>3. server # "champ" /\ Belong(d) /\ Complete(d)
    BY <1>1, <2>1, <2>2 DEF RecordedInv
  <2>4. d.completed
    BY <2>1, <2>2 DEF WholeInv
  <2>5. store' = d /\ th' = [h \in Handlers |-> Aged(th[h])]
    BY <2>2 DEF Save
  <2>6. \A h \in Handlers : th[h] \in {NotBusy} \cup Starting \cup Cancelling \cup SigningUp
    BY HandlerTask
  <2>7. \A h \in Handlers : th'[h].pc \in {"stop", "cancel", "signUp"} => th'[h].stale
    BY <2>5, <2>6, AgedTask
  <2>8. Belong(d)' /\ Complete(d)'
    BY <1>1, <2>3, RecordsSame
  <2>9. Belong(store)' /\ Complete(store)'
    BY <2>5, <2>8
  <2>10. udp'.pc = "idle"
    BY <2>2, TasksNamed
  <2>11. RecordedInv'
    BY <2>4, <2>5, <2>7, <2>9, <2>10 DEF RecordedInv
  <2>12. ~Following'
    BY <2>2, <2>3, <2>10 DEF Following
  <2> QED
    BY <2>11, <2>12 DEF FollowInv
<1> QED
  BY <1>3, <1>4

\* A handler goes on with x, and nothing is saved.
LEMMA GoesOnRight ==
  ASSUME IInv, RecordedInv, FollowInv, NEW h \in Handlers, NEW x, th' = [th EXCEPT ![h] = x],
         UNCHANGED <<starts, current, lapped, files, unusual, behind, misled, store, udp, active, queue, disturbed>>,
         server' = server \/ server' # "champ", disturbed = {},
         x.pc # "launch",
         x.pc = "signUp" => x.copy = store,
         x.pc \in {"stop", "cancel"} /\ ~x.stale => store.started /\ ~store.completed,
         x.pc = "cancel" => server' # "champ"
  PROVE  RecordedInv' /\ FollowInv'
<1>1. th'[h] = x /\ \A o \in Handlers \ {h} : th'[o] = th[o]
  BY DEF IInv, ThreadsFit
<1>2. PICK c : c = store
  OBVIOUS
<1>3. PICK d : d = udp.copy
  OBVIOUS
<1>4. /\ Belong(c) /\ Complete(c)
      /\ udp.pc \in {"stop", "save"} /\ ~udp.stale => Belong(d) /\ Complete(d)
  BY <1>2, <1>3 DEF RecordedInv
<1>5. /\ Belong(c)' /\ Complete(c)'
      /\ udp.pc \in {"stop", "save"} /\ ~udp.stale => Belong(d)' /\ Complete(d)'
  BY <1>4, RecordsSame
<1>6. /\ Belong(store)' /\ Complete(store)'
      /\ udp'.pc \in {"stop", "save"} /\ ~udp'.stale => Belong(udp.copy)' /\ Complete(udp.copy)'
  BY <1>2, <1>3, <1>5
<1>7. \A o \in Handlers :
         /\ th'[o].pc = "signUp" /\ ~th'[o].stale => th'[o].copy = store'
         /\ th'[o].pc \in {"stop", "cancel"} /\ ~th'[o].stale => store'.started /\ ~store'.completed
         /\ th'[o].pc = "cancel" /\ ~th'[o].stale => server' # "champ"
         /\ th'[o].pc = "launch" /\ udp'.pc \notin {"stop", "save"} /\ ~store'.completed => active'.on
  BY <1>1 DEF RecordedInv
<1>8. /\ udp'.pc = "handle" /\ ~udp'.stale => udp'.copy = store'
      /\ udp'.pc = "save" => server' # "champ"
  BY DEF RecordedInv
<1>9. RecordedInv'
  BY <1>6, <1>7, <1>8 DEF RecordedInv
<1>10. Following' => Following
  BY DEF Following
<1>11. PICK q : q = Pending
  OBVIOUS
<1>12. Pending' = q
  BY <1>11 DEF Pending
<1>13. UNCHANGED <<store.sessions, store.completed>>
  OBVIOUS
<1>14. Following' => Chain(q)' /\ FollowedBy(q)'
  BY <1>10, <1>11, <1>13, ChainSame, FollowedSame DEF FollowInv
<1>15. FollowInv'
  BY <1>12, <1>14 DEF FollowInv
<1> QED
  BY <1>9, <1>15

LEMMA QuietRequests ==
  ASSUME IInv, WholeInv, RecordedInv, FollowInv, NEW h \in Handlers, disturbed' = {},
         CallStart(h) \/ LaunchFails(h) \/ CallCancel(h) \/ StopBy(h) \/ StartOther(h) \/ CallSignUp(h)
  PROVE  RecordedInv' /\ FollowInv'
<1>1. /\ UNCHANGED <<starts, current, lapped, files, unusual, behind, misled, store, udp, active, queue, disturbed>>
      /\ disturbed = {} /\ (server' = server \/ server' # "champ")
  BY DEF CallStart, LaunchFails, CallCancel, StopBy, StartOther, CallSignUp, acServer
<1>2. CASE CallStart(h) \/ LaunchFails(h)
  <2>1. PICK x : Become(h, x) /\ x \in {[pc |-> "start", stale |-> FALSE], NotBusy}
    BY <1>2 DEF CallStart, LaunchFails
  <2>2. x.pc \in {"start", "idle"}
    BY <2>1, TasksNamed
  <2> QED
    BY <1>1, <2>1, <2>2, GoesOnRight DEF Become
<1>3. CASE CallCancel(h)
  <2>1. PICK c : c = Emptied(store)
    OBVIOUS
  <2>2. PICK next \in {"cancelled", "start"} :
          Become(h, [pc |-> "stop", next |-> next, stale |-> FALSE, copy |-> c])
    BY <1>3, <2>1, Zenon DEF CallCancel, Emptied
  <2>3. PICK x : x = [pc |-> "stop", next |-> next, stale |-> FALSE, copy |-> c]
    OBVIOUS
  <2>4. x.pc = "stop" /\ store.started /\ ~store.completed
    BY <1>3, <2>3 DEF CallCancel
  <2>5. th' = [th EXCEPT ![h] = x]
    BY <2>2, <2>3 DEF Become
  <2> QED
    BY <1>1, <2>4, <2>5, GoesOnRight
<1>4. CASE StopBy(h)
  <2>1. th[h] \in Cancelling
    BY <1>4, HandlerTask DEF StopBy
  <2>2. PICK x : x = [th[h] EXCEPT !.pc = "cancel"]
    OBVIOUS
  <2>3. x.pc = "cancel" /\ x.stale = th[h].stale
    BY <2>1, <2>2 DEF Cancelling
  <2>4. th' = [th EXCEPT ![h] = x] /\ server' # "champ" /\ th[h].pc = "stop"
    BY <1>4, <2>2 DEF StopBy, Become
  <2>5. ~th[h].stale => store.started /\ ~store.completed
    BY <1>1, <2>4 DEF RecordedInv
  <2> QED
    BY <1>1, <2>3, <2>4, <2>5, GoesOnRight
<1>5. CASE StartOther(h)
  <2>1. th[h] = NotBusy /\ th' = th
    BY <1>5 DEF StartOther, Request
  <2>2. PICK x : x = th[h]
    OBVIOUS
  <2>3. th' = [th EXCEPT ![h] = x] /\ x.pc = "idle"
    BY <2>1, <2>2, TasksNamed DEF IInv, ThreadsFit
  <2> QED
    BY <1>1, <2>3, GoesOnRight
<1>6. CASE CallSignUp(h)
  <2>1. PICK x : x = [pc |-> "signUp", no |-> calls', copy |-> store, stale |-> FALSE]
    OBVIOUS
  <2>2. x.pc = "signUp" /\ x.copy = store
    BY <2>1
  <2>3. th' = [th EXCEPT ![h] = x]
    BY <1>6, <2>1 DEF CallSignUp, Become
  <2> QED
    BY <1>1, <2>2, <2>3, GoesOnRight
<1> QED
  BY <1>2, <1>3, <1>4, <1>5, <1>6

LEMMA SetActiveRight ==
  ASSUME IInv, RecordedInv, NEW h \in Handlers, SetActive(h), disturbed' = {}
  PROVE  RecordedInv' /\ FollowInv'
<1>1. /\ UNCHANGED <<starts, current, lapped, files, server, store, udp, unusual, behind, misled>>
      /\ disturbed = {} /\ server # "champ" /\ udp = NotBusy
      /\ active' = Started /\ Become(h, [pc |-> "launch", stale |-> FALSE])
  BY DEF SetActive, acServer
<1>2. PICK x : x = [pc |-> "launch", stale |-> FALSE]
  OBVIOUS
<1>3. x.pc = "launch" /\ th'[h] = x /\ \A o \in Handlers \ {h} : th'[o] = th[o]
  BY <1>1, <1>2 DEF Become, IInv, ThreadsFit
<1>4. active'.on
  BY <1>1 DEF Started
<1>5. PICK c : c = store
  OBVIOUS
<1>6. Belong(c)' /\ Complete(c)'
  BY <1>1, <1>5, RecordsSame DEF RecordedInv
<1>7. Belong(store)' /\ Complete(store)'
  BY <1>1, <1>5, <1>6
<1>8. udp'.pc = "idle"
  BY <1>1, TasksNamed
<1>9. RecordedInv'
  BY <1>1, <1>3, <1>4, <1>7, <1>8 DEF RecordedInv
<1>10. ~Following'
  BY <1>1, <1>8 DEF Following
<1> QED
  BY <1>9, <1>10 DEF FollowInv

\* An event is started that is not going on: nothing of this run has happened.
LEMMA LaunchRight ==
  ASSUME IInv, WholeInv, RecordedInv, NEW h \in Handlers, Launch(h), disturbed' = {}
  PROVE  RecordedInv' /\ FollowInv'
<1>1. /\ UNCHANGED <<files, queue, store, active, udp>> /\ starts' = starts + 1 /\ current' = 0
      /\ disturbed = {} /\ queue = <<>> /\ udp = NotBusy /\ ~store.started
      /\ th' = [th EXCEPT ![h] = NotBusy] /\ th[h].pc = "launch"
  BY DEF Launch, Become
<1>2. /\ NotBusy.pc = "idle" /\ th'[h] = NotBusy
      /\ \A o \in Handlers \ {h} : th'[o] = th[o]
  BY <1>1, TasksNamed DEF IInv, ThreadsFit
<1>3. \A s \in Types : ~store.sessions[s].found /\ ~store.sessions[s].done /\ store.sessions[s].results = 0
  BY <1>1, RestNow DEF Sound, WholeInv, Whole
<1>4. ~store.completed
  BY <1>1, RestNow DEF Sound
<1>5. Belong(store)' /\ Complete(store)'
  BY <1>1, <1>3 DEF Belong, Complete
<1>6. active.on
  BY <1>1, <1>2, <1>4 DEF RecordedInv
<1>7. udp'.pc = "idle"
  BY <1>1, <1>2
<1>8. \A o \in Handlers :
         /\ th'[o].pc = "signUp" /\ ~th'[o].stale => th'[o].copy = store'
         /\ th'[o].pc \in {"stop", "cancel"} => th'[o].stale
         /\ th'[o].pc = "launch" => active'.on
  BY <1>1, <1>2, <1>6 DEF RecordedInv
<1>9. RecordedInv'
  BY <1>5, <1>7, <1>8 DEF RecordedInv
<1>10. Pending' = <<>>
  BY <1>1, <1>7 DEF Pending
<1>11. Chain(<<>>)'
  BY DEF Chain
<1>12. View(<<>>, 1)'.session = ""
  BY <1>1 DEF View, Now
<1>13. LastKnown(<<>>)'
  <2>1. ASSUME NEW f \in 1 .. Len(files)
        PROVE  files[f].run <= starts /\ files[f].run \in Nat /\ starts \in Nat
    <3>1. files[f].run <= starts
      BY DEF WholeInv
    <3>2. files \in Seq(File)
      BY DEF IInv, ServerFits
    <3>3. files[f] \in File
      BY <3>2
    <3>4. files[f].run \in Nat
      BY <3>3 DEF File
    <3> QED
      BY <3>1, <3>4, SentMessages
  <2>2. ASSUME NEW f \in 1 .. Len(files)
        PROVE  files[f].run # starts + 1
    <3>1. PICK r \in Nat : r = files[f].run
      BY <2>1
    <3>2. r <= starts /\ starts \in Nat
      BY <2>1, <3>1
    <3> QED
      BY <3>1, <3>2
  <2>3. ASSUME NEW f \in 1 .. Len(files), files[f] = [run |-> starts + 1, type |-> LastSession]
        PROVE  files[f].run = starts + 1
    BY <2>3
  <2> QED
    BY <1>1, <2>2, <2>3 DEF LastKnown
<1>14. FollowedBy(<<>>)'
  BY <1>1, <1>3, <1>4, <1>6, <1>12, <1>13 DEF FollowedBy
<1> QED
  BY <1>9, <1>10, <1>11, <1>14 DEF FollowInv

\* A handler saved, so the copies of all the others are stale.
LEMMA SavedByOthers ==
  ASSUME IInv, NEW h \in Handlers, NEW c, NEW x \in {NotBusy} \cup Starting, SaveBy(h, c, x)
  PROVE  /\ store' = c /\ udp'.pc = udp.pc
         /\ udp'.pc # "idle" => udp'.stale
         /\ udp' = NotBusy => udp = NotBusy
         /\ \A o \in Handlers : /\ th'[o].pc \in {"stop", "cancel", "signUp"} => th'[o].stale
                                /\ o # h => th'[o].pc = th[o].pc
         /\ th'[h] = x
<1>1. /\ store' = c /\ udp' = Aged(udp)
      /\ th' = [o \in Handlers |-> IF o = h THEN x ELSE Aged(th[o])]
  BY DEF SaveBy
<1>2. \A o \in Handlers : th[o] \in {NotBusy} \cup Starting \cup Cancelling \cup SigningUp
  BY HandlerTask
<1>3. \A o \in Handlers \ {h} :
        /\ th'[o].pc = th[o].pc
        /\ th'[o].pc \in {"stop", "cancel", "signUp"} => th'[o].stale
  BY <1>1, <1>2, AgedTask
<1>4. th'[h] = x /\ x.pc \notin {"stop", "cancel", "signUp"}
  BY <1>1, StartingTasks
<1>5. /\ udp'.pc = udp.pc
      /\ udp # NotBusy => udp' # NotBusy /\ udp'.stale
  BY <1>1, AgedUdp DEF IInv, ThreadsFit
<1>6. udp.pc # "idle" => udp # NotBusy
  BY TasksNamed
<1> QED
  BY <1>1, <1>3, <1>4, <1>5, <1>6

\* What was known of the store is known of what is saved.
LEMMA SavesRight ==
  ASSUME IInv, RecordedInv, NEW h \in Handlers, NEW c, NEW x \in {NotBusy} \cup Starting, SaveBy(h, c, x),
         UNCHANGED <<files, starts, unusual, behind, misled, server, active>>, disturbed = {},
         Belong(c), Complete(c), x.pc # "launch", c.completed = store.completed
  PROVE  RecordedInv'
<1>1. /\ store' = c /\ udp'.pc = udp.pc
      /\ udp'.pc # "idle" => udp'.stale
      /\ \A o \in Handlers : /\ th'[o].pc \in {"stop", "cancel", "signUp"} => th'[o].stale
                             /\ o # h => th'[o].pc = th[o].pc
      /\ th'[h] = x
  BY SavedByOthers
<1>2. Belong(c)' /\ Complete(c)'
  BY RecordsSame
<1>3. Belong(store)' /\ Complete(store)'
  BY <1>1, <1>2
<1>4. \A o \in Handlers :
        th'[o].pc = "launch" /\ udp'.pc \notin {"stop", "save"} /\ ~store'.completed => active'.on
  BY <1>1 DEF RecordedInv
<1>5. udp'.pc = "save" => server' # "champ"
  BY <1>1 DEF RecordedInv
<1> QED
  BY <1>1, <1>3, <1>4, <1>5 DEF RecordedInv

LEMMA SaveCancelledRight ==
  ASSUME IInv, WholeInv, RecordedInv, NEW h \in Handlers, SaveCancelled(h), disturbed' = {}
  PROVE  RecordedInv' /\ FollowInv'
<1>1. /\ UNCHANGED <<starts, current, lapped, files, server, active, unusual, behind, misled>>
      /\ disturbed = {} /\ ~th[h].stale /\ th[h].pc = "cancel"
  BY DEF SaveCancelled, Lost, acServer
<1>2. PICK x \in {NotBusy} \cup Starting : SaveBy(h, th[h].copy, x) /\ x.pc # "launch"
  BY StartingTasks, TasksNamed DEF SaveCancelled
<1>3. PICK c : c = th[h].copy
  OBVIOUS
<1>4. c.sessions = NoSessions /\ ~c.completed /\ Sound(c) /\ Sound(store)
  BY <1>1, <1>3, HandlerTask, RestNow DEF WholeInv
<1>5. server # "champ" /\ ~store.completed
  BY <1>1 DEF RecordedInv
<1>6. Belong(c) /\ Complete(c)
  BY <1>4, MissingIs DEF Belong, Complete
<1>7. c.completed = store.completed
  <2>1. c.completed \in BOOLEAN /\ store.completed \in BOOLEAN
    BY <1>4 DEF Sound, Championship
  <2> QED
    BY <1>4, <1>5, <2>1
<1>8. RecordedInv'
  BY <1>1, <1>2, <1>3, <1>6, <1>7, SavesRight
<1>9. udp'.pc # "idle" => udp'.stale
  BY <1>2, <1>3, SavedByOthers
<1>10. ~Following'
  BY <1>1, <1>5, <1>9 DEF Following
<1> QED
  BY <1>8, <1>10 DEF FollowInv

LEMMA SaveSignUpRight ==
  ASSUME IInv, WholeInv, RecordedInv, FollowInv, NEW h \in Handlers, SaveSignUp(h), disturbed' = {}
  PROVE  RecordedInv' /\ FollowInv'
<1>1. /\ UNCHANGED <<starts, current, lapped, files, server, active, queue, unusual, behind, misled>>
      /\ disturbed = {} /\ ~th[h].stale /\ th[h].pc = "signUp"
  BY DEF SaveSignUp, Lost, acServer
<1>2. PICK c : c = WithSignUp(th[h].copy, th[h].no)
  OBVIOUS
<1>3. SaveBy(h, c, NotBusy)
  BY <1>2, Zenon DEF SaveSignUp, WithSignUp
<1>4. th[h].copy = store /\ store \in Championship /\ Belong(store) /\ Complete(store)
  BY <1>1, RestNow DEF RecordedInv
<1>5. c.sessions = store.sessions /\ c.completed = store.completed
  BY <1>2, <1>4, SignUpAdded
<1>6. Belong(c) /\ Complete(c)
  BY <1>4, <1>5 DEF Belong, Complete
<1>7. RecordedInv'
  <2>1. NotBusy.pc # "launch"
    BY TasksNamed
  <2> QED
    BY <1>1, <1>3, <1>5, <1>6, <2>1, SavesRight
<1>8. /\ store' = c /\ udp'.pc = udp.pc /\ (udp'.pc # "idle" => udp'.stale)
      /\ udp' = NotBusy => udp = NotBusy
  BY <1>3, SavedByOthers
<1>9. PICK q : q = queue
  OBVIOUS
<1>10. ASSUME Following'
       PROVE  Chain(Pending)' /\ FollowedBy(Pending)'
  <2>1. udp = NotBusy /\ server = "champ" /\ udp.pc = "idle" /\ udp'.pc = "idle"
    BY <1>1, <1>8, <1>10, TasksNamed DEF Following
  <2>2. Following /\ Pending = q /\ Pending' = q
    BY <1>1, <1>9, <2>1 DEF Following, Pending
  <2>3. Chain(q) /\ FollowedBy(q)
    BY <2>2 DEF FollowInv
  <2>4. UNCHANGED <<store.sessions, store.completed>>
    BY <1>5, <1>8
  <2>5. Chain(q)' /\ FollowedBy(q)'
    BY <1>1, <2>3, <2>4, ChainSame, FollowedSame
  <2> QED
    BY <2>2, <2>5
<1> QED
  BY <1>7, <1>10 DEF FollowInv

------------------------------------------------------------------------------
(* Results files that do not come from this run of the event.                   *)

LEMMA OthersFiles ==
  ASSUME IInv, files' = files \/ OtherFile
  PROVE  /\ Len(files) \in Nat /\ Len(files') \in Nat /\ Len(files) <= Len(files')
         /\ \A f \in 1 .. Len(files) : f \in 1 .. Len(files') /\ files'[f] = files[f]
         /\ files # <<>> => files' # <<>>
         /\ OtherFile => files'[Len(files')].run = 0
         /\ \A f \in 1 .. Len(files') : f \in 1 .. Len(files) \/ files'[f].run = 0
<1>1. files \in Seq(File) /\ Len(files) \in Nat
  BY DEF IInv, ServerFits
<1>2. CASE OtherFile
  <2>1. PICK x : files' = Append(files, x) /\ x = [run |-> 0, type |-> LastSession]
    BY <1>2 DEF OtherFile
  <2>2. /\ Len(files') = Len(files) + 1 /\ files'[Len(files) + 1] = x
        /\ \A f \in 1 .. Len(files) : files'[f] = files[f]
    BY <1>1, <2>1
  <2>3. files' # <<>>
    BY <1>1, <2>1
  <2>4. x.run = 0
    BY <2>1
  <2>5. \A f \in 1 .. Len(files') : f \in 1 .. Len(files) \/ files'[f].run = 0
    <3> SUFFICES ASSUME NEW f \in 1 .. Len(files'), f \notin 1 .. Len(files)
                 PROVE  files'[f].run = 0
      OBVIOUS
    <3>1. f = Len(files) + 1
      BY <1>1, <2>2
    <3> QED
      BY <2>2, <2>4, <3>1
  <2> QED
    BY <1>1, <2>2, <2>3, <2>4, <2>5
<1>3. CASE files' = files /\ ~OtherFile
  BY <1>1, <1>3
<1> QED
  BY <1>2, <1>3

LEMMA OthersRecorded ==
  ASSUME IInv, RecordedInv, files' = files \/ OtherFile,
         UNCHANGED <<server, starts, store, active, udp, th, unusual, behind, misled, disturbed>>
  PROVE  RecordedInv'
<1>1. \A f \in 1 .. Len(files) : f \in 1 .. Len(files') /\ files'[f] = files[f]
  BY OthersFiles
<1>2. NotExcepted' <=> NotExcepted
  BY DEF NotExcepted, RacesMixedUp, EndMissed
<1>3. ASSUME NEW d, Belong(d)
      PROVE  Belong(d)'
  BY <1>1, <1>2, <1>3 DEF Belong
<1>4. ASSUME NEW d, Complete(d)
      PROVE  Complete(d)'
  BY <1>4 DEF Complete
<1> SUFFICES ASSUME disturbed = {}
             PROVE  RecordedInv'
  BY DEF RecordedInv
<1>5. PICK c : c = store
  OBVIOUS
<1>6. PICK d : d = udp.copy
  OBVIOUS
<1>7. Belong(c)' /\ Complete(c)'
  BY <1>3, <1>4, <1>5 DEF RecordedInv
<1>8. udp.pc \in {"stop", "save"} /\ ~udp.stale => Belong(d)' /\ Complete(d)'
  BY <1>3, <1>4, <1>6 DEF RecordedInv
<1>9. /\ Belong(store)' /\ Complete(store)'
      /\ udp'.pc \in {"stop", "save"} /\ ~udp'.stale => Belong(udp.copy)' /\ Complete(udp.copy)'
  BY <1>5, <1>6, <1>7, <1>8
<1>10. udp'.pc = "handle" /\ ~udp'.stale => udp'.copy = store'
  BY DEF RecordedInv
<1> QED
  BY <1>9, <1>10 DEF RecordedInv

LEMMA OthersOddly ==
  ASSUME IInv, files' = files \/ OtherFile, UNCHANGED <<starts, unusual, behind>>, starts # 0,
         NEW w, EndedOddly(w)
  PROVE  EndedOddly(w)'
<1>1. CASE ~w.lapped /\ <<w.session, "empty">> \in unusual
  BY <1>1 DEF EndedOddly
<1>2. CASE w.lapped /\ <<w.session, "unsaved">> \in unusual
  BY <1>2 DEF EndedOddly
<1>3. CASE /\ w.lapped /\ <<w.session, "unreported">> \in unusual /\ files # <<>>
           /\ behind \/ (files[Len(files)].run = starts => files[Len(files)].type = w.session)
  <2>1. files' # <<>>
    BY <1>3, OthersFiles
  <2>2. CASE OtherFile
    <3>1. files'[Len(files')].run # starts'
      BY <2>2, OthersFiles
    <3> QED
      BY <1>3, <2>1, <3>1 DEF EndedOddly
  <2>3. CASE files' = files
    BY <1>3, <2>3 DEF EndedOddly
  <2> QED
    BY <2>2, <2>3
<1> QED
  BY <1>1, <1>2, <1>3 DEF EndedOddly

LEMMA OthersChain ==
  ASSUME IInv, files' = files \/ OtherFile, UNCHANGED <<starts, current, lapped, unusual, behind>>, starts # 0,
         NEW q, Chain(q)
  PROVE  Chain(q)'
<1>1. Now' = Now
  BY DEF Now
<1>2. \A i : View(q, i)' = View(q, i)
  BY <1>1 DEF View
<1>3. ASSUME NEW i, EndedOddly(View(q, i))
      PROVE  EndedOddly(View(q, i))'
  <2>1. PICK w : w = View(q, i)
    OBVIOUS
  <2>2. View(q, i)' = w /\ EndedOddly(w)
    BY <1>2, <1>3, <2>1
  <2>3. EndedOddly(w)'
    BY <2>2, OthersOddly
  <2> QED
    BY <2>2, <2>3 DEF EndedOddly
<1>4. \A f \in 1 .. Len(files) : f \in 1 .. Len(files') /\ files'[f] = files[f]
  BY OthersFiles
<1>5. \A i : NewSent(q, i) => NewSent(q, i)'
  BY <1>2, <1>3 DEF NewSent, Leaves
<1>6. \A i : EndSent(q, i) => EndSent(q, i)'
  BY <1>2, <1>4 DEF EndSent
<1>7. \A i : LapSent(q, i) => LapSent(q, i)'
  BY <1>2 DEF LapSent
<1>8. \A i : Sent(q, i) => Sent(q, i)'
  BY <1>5, <1>6, <1>7 DEF Sent
<1> QED
  BY <1>8 DEF Chain

LEMMA OthersFollowed ==
  ASSUME IInv, files' = files \/ OtherFile,
         UNCHANGED <<starts, current, lapped, unusual, behind, active, store>>, starts # 0,
         NEW q, FollowedBy(q)
  PROVE  FollowedBy(q)'
<1>1. Now' = Now
  BY DEF Now
<1>2. \A i : View(q, i)' = View(q, i)
  BY <1>1 DEF View
<1>3. PICK v : v = View(q, 1)
  OBVIOUS
<1>4. View(q, 1)' = v
  BY <1>2, <1>3
<1>5. \A i : Leaves(q, i)' <=> Leaves(q, i)
  <2> SUFFICES ASSUME NEW i
               PROVE  Leaves(q, i)' <=> Leaves(q, i)
    OBVIOUS
  <2>1. View(q, i)' = View(q, i) /\ View(q, i + 1)' = View(q, i + 1)
    BY <1>2
  <2> QED
    BY <2>1 DEF Leaves
<1>6. Leaving(q)' <=> Leaving(q)
  BY <1>5 DEF Leaving
<1>7. EndedOddly(v) => EndedOddly(v)'
  BY OthersOddly
<1>8. (RacesMixedUp' <=> RacesMixedUp) /\ (EndMissed' <=> EndMissed)
  BY DEF RacesMixedUp, EndMissed
<1>9. ASSUME v.session # ""
      PROVE  SessionKnown(store, active, v)' /\ RacesTold(store, v, q)' /\ EndKnown(store, v, q)'
  <2>1. SessionKnown(store, active, v) /\ RacesTold(store, v, q) /\ EndKnown(store, v, q)
    BY <1>3, <1>9 DEF FollowedBy
  <2>2. SessionKnown(store, active, v)'
    BY <1>8, <2>1 DEF SessionKnown
  <2>3. RacesTold(store, v, q)'
    BY <1>6, <1>8, <2>1 DEF RacesTold
  <2>4. EndKnown(store, v, q)'
    BY <1>6, <1>7, <1>8, <2>1 DEF EndKnown
  <2> QED
    BY <2>2, <2>3, <2>4
<1>10. LastKnown(q)'
  <2>1. \A i : Finishes(q, i)' <=> Finishes(q, i)
    BY <1>2, <1>5 DEF Finishes
  <2> SUFFICES ASSUME ~RacesMixedUp', ~EndMissed',
                      NEW f \in 1 .. Len(files'), files'[f] = [run |-> starts, type |-> LastSession]
               PROVE  \E i \in 1 .. Len(q) : Finishes(q, i)'
    BY DEF LastKnown
  <2>2. files'[f].run = starts
    OBVIOUS
  <2>3. f \in 1 .. Len(files) /\ files'[f] = files[f]
    BY <2>2, OthersFiles
  <2> QED
    BY <1>8, <2>1, <2>3 DEF LastKnown, FollowedBy
<1>11. active'.on /\ ~store'.completed
  BY DEF FollowedBy
<1>12. View(q, 1)'.session = "" => \A s \in Types : ~store'.sessions[s].found
  BY <1>3, <1>4 DEF FollowedBy
<1>13. ASSUME View(q, 1)'.session # ""
       PROVE  SessionKnown(store, active, View(q, 1))' /\ RacesTold(store, View(q, 1), q)' /\ EndKnown(store, View(q, 1), q)'
  BY <1>4, <1>9, <1>13
<1> QED
  BY <1>10, <1>11, <1>12, <1>13 DEF FollowedBy

\* Somebody saves results, but acServer does not; or nothing happens.
LEMMA OthersRight ==
  ASSUME IInv, Ran, RecordedInv, FollowInv, files' = files \/ OtherFile,
         UNCHANGED <<server, starts, current, lapped, queue, store, active, udp, th, unusual, behind, misled, disturbed>>
  PROVE  RecordedInv' /\ FollowInv'
<1>1. RecordedInv'
  BY OthersRecorded
<1>2. PICK q : q = Pending
  OBVIOUS
<1>3. Pending' = q
  BY <1>2 DEF Pending
<1>4. ASSUME Following'
      PROVE  Chain(q)' /\ FollowedBy(q)'
  <2>1. Following
    BY <1>4 DEF Following
  <2>2. starts # 0
    BY <2>1, TasksNamed DEF Following, Ran
  <2>3. Chain(q) /\ FollowedBy(q)
    BY <1>2, <2>1 DEF FollowInv
  <2> QED
    BY <2>2, <2>3, OthersChain, OthersFollowed
<1>5. FollowInv'
  BY <1>3, <1>4 DEF FollowInv
<1> QED
  BY <1>1, <1>5

------------------------------------------------------------------------------
(* All the steps.                                                               *)

LEMMA RanNext ==
  ASSUME IInv, Ran, [SessionsNext]_sessionVars
  PROVE  Ran'
<1>1. ASSUME starts' = starts, server' = server \/ server' # "champ", udp = NotBusy => udp' = NotBusy
      PROVE  Ran'
  BY <1>1 DEF Ran
<1>2. CASE UNCHANGED sessionVars
  BY <1>1, <1>2 DEF sessionVars
<1>3. CASE LapCompleted \/ OtherFileWritten \/ SessionEnds \/ SessionEndsUnreported \/ SessionBegins \/ SessionRestarts
  <2>1. UNCHANGED <<server, starts, udp>>
    BY <1>3 DEF LapCompleted, OtherFileWritten, SessionEnds, SessionEndsUnreported, SessionBegins, SessionRestarts,
                Playing
  <2> QED
    BY <1>1, <2>1
<1>4. CASE \E i \in 1 .. MaxQueue : Receive(i)
  <2>1. UNCHANGED <<server, starts>> /\ (server = "champ" \/ udp' = NotBusy)
    BY <1>4 DEF Receive, acServer, EventIsRunning
  <2> QED
    BY <2>1 DEF Ran
<1>5. CASE HandleEndSession \/ HandleLap \/ HandleNewSession \/ Stop \/ SaveCompleted
  <2>1. udp # NotBusy /\ starts' = starts /\ (server' = server \/ server' # "champ")
    BY <1>5, TasksNamed DEF HandleEndSession, HandleLap, HandleNewSession, Stop, SaveCompleted, acServer
  <2> QED
    BY <1>1, <2>1
<1>6. ASSUME NEW h \in Handlers,
             \/ CallStart(h) \/ SetActive(h) \/ LaunchFails(h) \/ CallCancel(h) \/ StopBy(h)
             \/ StartOther(h) \/ SaveResults(h) \/ CallSignUp(h)
      PROVE  Ran'
  <2>1. UNCHANGED <<starts, udp>> /\ (server' = server \/ server' # "champ")
    BY <1>6 DEF CallStart, SetActive, LaunchFails, CallCancel, StopBy, StartOther, SaveResults, CallSignUp, acServer
  <2> QED
    BY <1>1, <2>1
<1>7. ASSUME NEW h \in Handlers, SaveCancelled(h) \/ SaveSignUp(h)
      PROVE  Ran'
  <2>1. UNCHANGED <<server, starts>> /\ udp' = Aged(udp)
    BY <1>7 DEF SaveCancelled, SaveSignUp, SaveBy, acServer
  <2>2. udp = NotBusy => udp' = NotBusy
    BY <2>1 DEF Aged
  <2> QED
    BY <1>1, <2>1, <2>2
<1>8. ASSUME NEW h \in Handlers, Launch(h)
      PROVE  Ran'
  <2>1. starts' = starts + 1 /\ starts \in Nat
    BY <1>8, SentMessages DEF Launch
  <2>2. starts' # 0
    BY <2>1
  <2> QED
    BY <2>2 DEF Ran
<1> QED
  BY <1>2, <1>3, <1>4, <1>5, <1>6, <1>7, <1>8 DEF SessionsNext

LEMMA DisturbedStays == [SessionsNext]_sessionVars => disturbed \subseteq disturbed'
<1> SUFFICES ASSUME [SessionsNext]_sessionVars
             PROVE  disturbed \subseteq disturbed'
  OBVIOUS
<1>1. CASE UNCHANGED sessionVars
  BY <1>1 DEF sessionVars
<1>2. CASE LapCompleted \/ OtherFileWritten \/ SessionEnds \/ SessionEndsUnreported \/ SessionBegins \/ SessionRestarts
  BY <1>2 DEF LapCompleted, OtherFileWritten, SessionEnds, SessionEndsUnreported, SessionBegins, SessionRestarts, Playing
<1>3. CASE \E i \in 1 .. MaxQueue : Receive(i)
  BY <1>3 DEF Receive
<1>4. ASSUME NEW c, NEW f, NEW t, RecordAndSave(c, f, t)
      PROVE  disturbed \subseteq disturbed'
  BY <1>4 DEF RecordAndSave
<1>5. CASE HandleEndSession \/ HandleLap \/ HandleNewSession \/ Stop \/ SaveCompleted
  BY <1>4, <1>5 DEF HandleEndSession, HandleLap, HandleNewSession, Stop, SaveCompleted
<1>6. ASSUME NEW h \in Handlers,
             \/ CallStart(h) \/ SetActive(h) \/ Launch(h) \/ LaunchFails(h)
             \/ CallCancel(h) \/ StopBy(h) \/ SaveCancelled(h)
             \/ StartOther(h) \/ SaveResults(h) \/ CallSignUp(h) \/ SaveSignUp(h)
      PROVE  disturbed \subseteq disturbed'
  BY <1>6 DEF CallStart, SetActive, Launch, LaunchFails, CallCancel, StopBy, SaveCancelled,
              StartOther, SaveResults, CallSignUp, SaveSignUp
<1> QED
  BY <1>1, <1>2, <1>3, <1>5, <1>6 DEF SessionsNext

AllInv == WholeInv /\ Ran /\ RecordedInv /\ FollowInv

LEMMA AllInit == SessionsInit => AllInv
<1> SUFFICES ASSUME SessionsInit
             PROVE  AllInv
  OBVIOUS
<1>1. /\ server = "none" /\ starts = 0 /\ files = <<>> /\ udp = NotBusy /\ th = [h \in Handlers |-> NotBusy]
      /\ store.started = FALSE /\ store.completed = FALSE /\ store.sessions = NoSessions
  BY DEF SessionsInit
<1>2. udp.pc = "idle" /\ \A h \in Handlers : th[h].pc = "idle"
  BY <1>1, TasksNamed
<1>3. Whole(store)
  <2>1. LastSession \in Types
    BY Bounds
  <2>2. ~store.sessions[LastSession].done
    BY <1>1, <2>1, MissingIs
  <2>3. /\ \A s \in Types : ~store.sessions[s].found /\ ~store.sessions[s].done /\ store.sessions[s].results = 0
        /\ NoSessions[LastSession].done = FALSE
    BY <1>1, MissingIs, <2>1 DEF NoSessions, Missing
  <2> QED
    BY <1>1, <2>2, <2>3 DEF Whole
<1>4. WholeInv
  BY <1>1, <1>2, <1>3 DEF WholeInv
<1>5. Belong(store) /\ Complete(store)
  BY <1>1, MissingIs DEF Belong, Complete
<1>6. RecordedInv
  BY <1>2, <1>5 DEF RecordedInv
<1>7. ~Following
  BY <1>1, <1>2 DEF Following
<1> QED
  BY <1>1, <1>4, <1>6, <1>7 DEF AllInv, Ran, FollowInv

LEMMA RightNext ==
  ASSUME IInv, AllInv, SessionsNext, disturbed' = {}
  PROVE  RecordedInv' /\ FollowInv'
<1>1. WholeInv /\ Ran /\ RecordedInv /\ FollowInv
  BY DEF AllInv
<1>2. CASE LapCompleted \/ SessionEnds \/ SessionEndsUnreported \/ SessionBegins \/ SessionRestarts
  BY <1>1, <1>2, PlayingRight
<1>3. CASE OtherFileWritten
  BY <1>1, <1>3, OthersRight DEF OtherFileWritten
<1>4. CASE \E i \in 1 .. MaxQueue : Receive(i)
  BY <1>1, <1>4, ReceiveRight
<1>5. CASE HandleEndSession \/ HandleLap \/ HandleNewSession \/ Stop \/ SaveCompleted
  BY <1>1, <1>5, HandleEndRight, HandleLapRight, HandleNewRight, EndRight
<1>6. ASSUME NEW h \in Handlers,
             CallStart(h) \/ LaunchFails(h) \/ CallCancel(h) \/ StopBy(h) \/ StartOther(h) \/ CallSignUp(h)
      PROVE  RecordedInv' /\ FollowInv'
  BY <1>1, <1>6, QuietRequests
<1>7. ASSUME NEW h \in Handlers, SaveResults(h)
      PROVE  RecordedInv' /\ FollowInv'
  BY <1>1, <1>7, OthersRight DEF SaveResults
<1>8. ASSUME NEW h \in Handlers, SetActive(h) \/ Launch(h) \/ SaveCancelled(h) \/ SaveSignUp(h)
      PROVE  RecordedInv' /\ FollowInv'
  BY <1>1, <1>8, SetActiveRight, LaunchRight, SaveCancelledRight, SaveSignUpRight
<1> QED
  BY <1>2, <1>3, <1>4, <1>5, <1>6, <1>7, <1>8 DEF SessionsNext

LEMMA AllNext ==
  ASSUME IInv, AllInv, [SessionsNext]_sessionVars
  PROVE  AllInv'
<1>1. WholeInv' /\ Ran'
  BY WholeNext, RanNext DEF AllInv
<1>2. RecordedInv' /\ FollowInv'
  <2>1. CASE disturbed' # {}
    BY <2>1 DEF RecordedInv, FollowInv, Following
  <2>2. CASE disturbed' = {} /\ SessionsNext
    BY <2>2, RightNext
  <2>3. CASE UNCHANGED sessionVars
    BY <2>3, OthersRight DEF AllInv, sessionVars
  <2> QED
    BY <2>1, <2>2, <2>3
<1> QED
  BY <1>1, <1>2 DEF AllInv

\* What a championship shows of its event is what happened in it, with the exceptions that
\* EventRecorded names: the results recorded for a session are its own, an event that is
\* complete has no session left open, and an event whose last session left results is
\* complete once all messages are handled.
THEOREM EventIsRecorded == SessionsSpec => []EventRecorded
<1>1. IInv /\ AllInv => EventRecorded
  <2> SUFFICES ASSUME IInv, AllInv
               PROVE  EventRecorded
    OBVIOUS
  <2>1. RecordedInv /\ FollowInv
    BY DEF AllInv
  <2>2. ResultsBelong
    <3> SUFFICES ASSUME disturbed = {}, NotExcepted, NEW s \in Types, store.sessions[s].results # 0
                 PROVE  files[store.sessions[s].results] = [run |-> starts, type |-> s]
      BY DEF ResultsBelong, NotExcepted
    <3> QED
      BY <2>1 DEF RecordedInv, Belong
  <2>3. CompletedSessions
    BY <2>1 DEF CompletedSessions, RecordedInv, Complete
  <2>4. LastSessionEndsEvent
    <3> SUFFICES ASSUME disturbed = {}, ~RacesMixedUp, ~EndMissed, queue = <<>>, udp = NotBusy, server = "champ",
                        NEW f \in 1 .. Len(files), files[f] = [run |-> starts, type |-> LastSession]
                 PROVE  FALSE
      BY DEF LastSessionEndsEvent
    <3>1. Following /\ Pending = <<>>
      BY TasksNamed DEF Following, Pending
    <3>2. LastKnown(<<>>)
      BY <2>1, <3>1 DEF FollowInv, FollowedBy
    <3>3. 1 .. Len(<<>>) = {}
      OBVIOUS
    <3> QED
      BY <3>2, <3>3 DEF LastKnown
  <2> QED
    BY <2>2, <2>3, <2>4 DEF EventRecorded
<1>2. IInv /\ AllInv /\ [SessionsNext]_sessionVars => AllInv'
  BY AllNext
<1> QED
  BY <1>1, <1>2, AllInit, SessionsInvariant, PTL DEF SessionsSpec
==============================================================================
