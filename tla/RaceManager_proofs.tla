------------------------ MODULE RaceManager_proofs ------------------------
(* For any number of users and races: what RaceManager takes for the running *)
(* event is it, and events run as long as they should.                       *)
EXTENDS RaceManager, FiniteSetTheorems, TLAPS

----------------------------------------------------------------------------
(* The inductive invariant                                                 *)

RaceOrNone == Races \union {NoRace}
Calls == [pc : {"idle", "ended", "list", "find", "want", "stop", "launch", "finish", "save"},
          race : RaceOrNone, looping : BOOLEAN, kind : {"start", "scheduled", "restart"}]
Runs == [race : RaceOrNone, looping : BOOLEAN, at : Nat, races : 0..2, leftover : BOOLEAN,
         lost : BOOLEAN]
Exceptions == [overtaken : BOOLEAN, robbed : BOOLEAN, misled : BOOLEAN, failed : BOOLEAN,
               overlap : BOOLEAN, announced : BOOLEAN]
Kinds == {"booking", "practice", "qualifying", "race"}

StoreTyped == order \in Seq(Races) /\ loop \in SUBSET Races
CallsTyped ==
    /\ call \in [Callers -> Calls]
    /\ mutex \in Callers \union {NoRace} /\ startMutex \in Callers \union {NoRace}
RunTyped ==
    /\ run \in Runs /\ inbox \in Kinds \union {"none", "late"} /\ callback \in {"idle", "own", "late"}
ManagerTyped ==
    /\ current \in RaceOrNone /\ timeAttack \in RaceOrNone
    /\ types \subseteq Kinds \union {"secondRace", "nil"} /\ wait \in BOOLEAN
    /\ index \in Nat /\ budget \in 0..MaxEvents /\ notes \in Exceptions
TimersTyped == armed \in {"no", "own", "stale", "kept"} /\ fired \subseteq {"own", "late", "astray"}

TypeOK == StoreTyped /\ CallsTyped /\ RunTyped /\ ManagerTyped /\ TimersTyped

\* Who holds which mutex is who is where.
HoldsMutex(c) == call[c].pc \in {"stop", "launch", "finish"} /\ call[c].kind # "restart"
Held == \A c \in Callers : /\ mutex = c <=> HoldsMutex(c)
                           /\ startMutex = c <=> call[c].pc = "launch"

\* Only LoopRaces starts events that are to be repeated, and restarts use process.Start alone.
Kept ==
    \A c \in Callers :
        /\ call[c].kind = "restart" => call[c].pc \in {"stop", "launch"} /\ c # Looper
        /\ c # Looper => call[c].pc \notin {"list", "find", "ended"}
        /\ call[c].looping /\ call[c].kind # "restart" => c = Looper
        /\ call[c].pc \in {"want", "stop", "launch", "finish", "save"} => call[c].race \in Races
LooperKept ==
    /\ call[Looper].kind = "start"
    /\ call[Looper].pc \in {"want", "stop", "launch", "finish"} => call[Looper].looping

\* What runs, and what is on its way from it.
RunSound ==
    /\ startMutex # NoRace => ~IsRunning
    /\ IsRunning => run.at # 0 /\ run.race \in Races
    /\ inbox \in Kinds => IsRunning
    /\ callback = "own" => IsRunning
PlaceSound == IsRunning => run.at \in DOMAIN Sessions(run.race) \/ Len(Sessions(run.race)) = 0
RacesCounted ==
    /\ run.races > 0 => "race" \in Setup[run.race].sessions
    /\ inbox = "race" => run.races > 0

\* rm.currentRace
CurrentSound ==
    /\ \A c \in Callers : HoldsMutex(c) => current = call[c].race
    /\ IsRunning => \/ current = run.race \/ notes.misled
                    \/ \E c \in Callers : HoldsMutex(c) /\ call[c].pc = "stop"

\* The time attack of race control
Starts(c) == call[c].pc \in {"want", "stop", "launch", "finish", "save"}
TimeAttackOf(r) == IF r # NoRace /\ Setup[r].timeAttack THEN r ELSE NoRace
OneStarts == ~notes.overlap => \A c, d \in Callers : Starts(c) /\ Starts(d) => c = d
TimeAttackSound ==
    ~notes.overlap /\ ~notes.announced =>
        /\ \A c \in Callers :
              call[c].pc = "want" /\ Setup[call[c].race].timeAttack => timeAttack = call[c].race
        /\ (\A c \in Callers : call[c].pc # "want") => timeAttack = TimeAttackOf(current)

\* The session types that are stored
TypesStored ==
    call[Looper].pc \in {"find", "want", "stop", "launch"} =>
        types = LoopedTypes(call[Looper].race) \/ notes.robbed
TypesOfLooper ==
    call[Looper].pc \in {"find", "want", "stop", "launch"} =>
        types = NoTypes \/ types = LoopedTypes(call[Looper].race)
TypesOfRun ==
    IsRunning /\ run.looping /\ ~notes.overtaken =>
        types = NoTypes \/ types = LoopedTypes(run.race)

\* Whether a start overtook LoopRaces
OvertakenSound ==
    /\ IsRunning /\ call[Looper].pc \in {"list", "find", "want", "stop"} => notes.overtaken
    /\ IsRunning /\ ~run.looping => notes.overtaken

\* The timer of an earlier event
TimersSound ==
    /\ "astray" \notin fired
    /\ armed = "stale" => notes.failed \/ \E c \in Callers : call[c].pc = "finish"

\* Waiting for the second race
Regular ==
    /\ IsRunning /\ run.looping /\ Setup[run.race].reversed /\ "race" \in Setup[run.race].sessions
    /\ ~run.leftover /\ ~run.lost /\ ~notes.overtaken /\ run.races < 2
WaitSound ==
    Regular =>
        /\ callback # "own"
        /\ types # NoTypes => (wait <=> run.races = 1 /\ inbox # "race")

Inv1 == Held /\ Kept /\ LooperKept /\ RunSound
IInv == /\ TypeOK /\ Inv1 /\ PlaceSound /\ RacesCounted /\ CurrentSound /\ OneStarts /\ TimeAttackSound
        /\ TypesStored /\ LoopedRaceEnds /\ TypesOfLooper /\ TypesOfRun /\ OvertakenSound
        /\ TimersSound /\ WaitSound
USE CallersAssumption, SetupAssumption, EventBoundAssumption DEF NoMessage

----------------------------------------------------------------------------
(* Lemmas on records and sequences                                          *)

Points == {"idle", "ended", "list", "find", "want", "stop", "launch", "finish", "save"}

LEMMA CallersAre == Looper \in Callers /\ Users \subseteq Callers /\ NoRace \notin Callers /\ NoRace \notin Races
BY DEF Callers

LEMMA IdleTyped == Idle \in Calls /\ Idle.pc = "idle" /\ Idle.looping = FALSE /\ Idle.kind = "start"
BY DEF Idle, Calls, RaceOrNone

LEMMA NoRunTyped ==
    /\ NoRun \in Runs /\ NoRun.looping = FALSE /\ NoRun.races = 0 /\ NoRun.at = 0
BY DEF NoRun, Runs, RaceOrNone

LEMMA WithPc ==
    ASSUME NEW k \in Calls, NEW p \in Points
    PROVE  LET x == [k EXCEPT !.pc = p]
           IN  x \in Calls /\ x.pc = p /\ x.race = k.race /\ x.looping = k.looping /\ x.kind = k.kind
BY DEF Calls, Points

\* c moves, and nobody else does.
Moves(c, x) ==
    /\ call' \in [Callers -> Calls] /\ call'[c] = x /\ x \in Calls
    /\ \A d \in Callers \ {c} : call'[d] = call[d]

LEMMA CallMoves ==
    ASSUME call \in [Callers -> Calls], NEW c \in Callers, NEW x \in Calls, call' = [call EXCEPT ![c] = x]
    PROVE  Moves(c, x)
BY DEF Moves

LEMMA GotoMoves ==
    ASSUME call \in [Callers -> Calls], NEW c \in Callers, NEW p \in Points, Goto(c, p)
    PROVE  Moves(c, [call[c] EXCEPT !.pc = p])
<1>1. [call[c] EXCEPT !.pc = p] \in Calls
  BY WithPc
<1>2. call' = [call EXCEPT ![c] = [call[c] EXCEPT !.pc = p]]
  BY DEF Goto
<1> QED
  BY <1>1, <1>2, CallMoves

LEMMA NoteOverlap ==
    ASSUME NEW n \in Exceptions, NEW b \in BOOLEAN
    PROVE  LET m == [n EXCEPT !.overlap = b]
           IN  /\ m \in Exceptions /\ m.overlap = b /\ m.overtaken = n.overtaken
               /\ m.robbed = n.robbed /\ m.misled = n.misled /\ m.failed = n.failed
BY DEF Exceptions

LEMMA NoteStart ==
    ASSUME NEW n \in Exceptions, NEW b \in BOOLEAN
    PROVE  LET m == [n EXCEPT !.overlap = b, !.announced = FALSE]
           IN  /\ m \in Exceptions /\ m.overlap = b /\ m.overtaken = n.overtaken
               /\ m.robbed = n.robbed /\ m.misled = n.misled /\ m.failed = n.failed
BY DEF Exceptions

LEMMA NoteAnnounced ==
    ASSUME NEW n \in Exceptions, NEW b \in BOOLEAN
    PROVE  LET m == [n EXCEPT !.announced = b]
           IN  /\ m \in Exceptions /\ m.announced = b /\ m.overtaken = n.overtaken /\ m.overlap = n.overlap
               /\ m.robbed = n.robbed /\ m.misled = n.misled /\ m.failed = n.failed
BY DEF Exceptions

LEMMA NoteRobbed ==
    ASSUME NEW n \in Exceptions, NEW b \in BOOLEAN
    PROVE  LET m == [n EXCEPT !.robbed = b]
           IN  /\ m \in Exceptions /\ m.robbed = b /\ m.overtaken = n.overtaken
               /\ m.overlap = n.overlap /\ m.announced = n.announced /\ m.misled = n.misled /\ m.failed = n.failed
BY DEF Exceptions

LEMMA NoteOvertaken ==
    ASSUME NEW n \in Exceptions, NEW b \in BOOLEAN
    PROVE  LET m == [n EXCEPT !.overtaken = b]
           IN  /\ m \in Exceptions /\ m.overtaken = b /\ m.robbed = n.robbed
               /\ m.overlap = n.overlap /\ m.announced = n.announced /\ m.misled = n.misled /\ m.failed = n.failed
BY DEF Exceptions

LEMMA NoteFailed ==
    ASSUME NEW n \in Exceptions, NEW b \in BOOLEAN
    PROVE  LET m == [n EXCEPT !.failed = b]
           IN  /\ m \in Exceptions /\ m.failed = b /\ m.robbed = n.robbed
               /\ m.overlap = n.overlap /\ m.announced = n.announced /\ m.misled = n.misled /\ m.overtaken = n.overtaken
BY DEF Exceptions

LEMMA RemoveTyped ==
    ASSUME NEW s \in Seq(Races), NEW i \in DOMAIN s
    PROVE  RemoveAt(s, i) \in Seq(Races)
BY DEF RemoveAt

LEMMA WithoutTyped ==
    ASSUME NEW s \in Seq(Races), NEW r
    PROVE  Without(s, r) \in Seq(Races)
<1>1. CASE r \in ToSet(s)
  <2>1. \E i \in DOMAIN s : s[i] = r
    BY <1>1 DEF ToSet
  <2>2. (CHOOSE i \in DOMAIN s : s[i] = r) \in DOMAIN s
    BY <2>1
  <2> QED
    BY <1>1, <2>2, RemoveTyped DEF Without
<1> QED
  BY <1>1 DEF Without

LEMMA ToFrontTyped ==
    ASSUME NEW s \in Seq(Races), NEW r \in Races
    PROVE  ToFront(s, r) \in Seq(Races)
BY WithoutTyped DEF ToFront

LEMMA SetupTyped ==
    ASSUME NEW r \in Races
    PROVE  /\ Setup[r].sessions \subseteq Kinds /\ Setup[r].reversed \in BOOLEAN
           /\ Setup[r].timeAttack \in BOOLEAN
           /\ LoopedTypes(r) \subseteq Kinds \union {"secondRace"}
<1>1. ToSet(SessionTypes) = Kinds
  BY DEF ToSet, SessionTypes, Kinds
<1> QED
  BY <1>1 DEF SetupType, LoopedTypes

LEMMA ConfiguredTyped ==
    ASSUME NEW r \in Races, NEW s \in Kinds
    PROVE  /\ Configured(r, s) \in Seq(Kinds)
           /\ \A i \in DOMAIN Configured(r, s) : Configured(r, s)[i] \in Setup[r].sessions
BY DEF Configured

LEMMA Joins ==
    ASSUME NEW S, NEW s \in Seq(S), NEW t \in Seq(S), NEW P,
           \A i \in DOMAIN s : s[i] \in P, \A i \in DOMAIN t : t[i] \in P
    PROVE  s \o t \in Seq(S) /\ \A i \in DOMAIN (s \o t) : (s \o t)[i] \in P
OBVIOUS

LEMMA SessionsTyped ==
    ASSUME NEW r \in Races
    PROVE  /\ Sessions(r) \in Seq(Kinds)
           /\ \A i \in DOMAIN Sessions(r) : Sessions(r)[i] \in Setup[r].sessions
<1> DEFINE a == Configured(r, "booking")
           b == Configured(r, "practice")
           c == Configured(r, "qualifying")
           d == Configured(r, "race")
           e == IF Setup[r].reversed THEN d ELSE <<>>
           Fine(s) == s \in Seq(Kinds) /\ \A i \in DOMAIN s : s[i] \in Setup[r].sessions
<1>1. Fine(a) /\ Fine(b) /\ Fine(c) /\ Fine(d)
  BY ConfiguredTyped DEF Kinds
<1>2. Fine(e)
  BY <1>1
<1>3. Sessions(r) = a \o b \o c \o d \o e
  BY DEF Sessions
<1> HIDE DEF a, b, c, d, e
<1>4. Fine(a \o b)
  BY <1>1, Joins
<1>5. Fine(a \o b \o c)
  BY <1>1, <1>4, Joins
<1>6. Fine(a \o b \o c \o d)
  BY <1>1, <1>5, Joins
<1>7. Fine(a \o b \o c \o d \o e)
  BY <1>2, <1>6, Joins
<1> QED
  BY <1>3, <1>7

\* The race is the last of the sessions that are stored.
LEMMA RaceIsLast ==
    ASSUME "race" \in types
    PROVE  LastSession = "race"
<1> DEFINE stored == {i \in DOMAIN SessionTypes : SessionTypes[i] \in types}
<1>1. 4 \in stored /\ stored \subseteq 1..4
  BY DEF SessionTypes
<1>2. \A i \in stored : (\A j \in stored : j <= i) <=> i = 4
  BY <1>1
<1>3. (CHOOSE i \in stored : \A j \in stored : j <= i) = 4
  BY <1>1, <1>2
<1> QED
  BY <1>1, <1>3 DEF LastSession, SessionTypes

----------------------------------------------------------------------------
(* What a step leaves alone                                                 *)

LEMMA Framed ==
    ASSUME IInv
    PROVE  /\ UNCHANGED store => StoreTyped'
           /\ UNCHANGED <<call, mutex, startMutex>> => CallsTyped' /\ Held'
           /\ UNCHANGED <<run, inbox, callback>> => RunTyped' /\ RacesCounted'
           /\ UNCHANGED <<current, timeAttack, types, wait, index, budget, notes>> => ManagerTyped'
           /\ UNCHANGED <<armed, fired>> => TimersTyped'
           /\ UNCHANGED call => Kept'
           /\ UNCHANGED call[Looper] => LooperKept'
           /\ UNCHANGED <<startMutex, run, inbox, callback>> => RunSound'
           /\ UNCHANGED run => PlaceSound'
           /\ UNCHANGED <<call, current, run, notes.misled>> => CurrentSound'
           /\ UNCHANGED <<call, notes.overlap>> => OneStarts'
           /\ UNCHANGED <<call, timeAttack, current, notes.overlap, notes.announced>> => TimeAttackSound'
           /\ UNCHANGED <<call[Looper], types, notes.robbed>> => TypesStored' /\ TypesOfLooper'
           /\ UNCHANGED <<call[Looper], types, notes.robbed, run, callback>> => LoopedRaceEnds'
           /\ UNCHANGED <<run, types, notes.overtaken>> => TypesOfRun'
           /\ UNCHANGED <<call[Looper], run, notes.overtaken>> => OvertakenSound'
           /\ UNCHANGED <<call, armed, fired, notes.failed>> => TimersSound'
           /\ UNCHANGED <<run, wait, types, inbox, callback, notes.overtaken>> => WaitSound'
<1> USE DEF IInv, Inv1, TypeOK
<1>1. UNCHANGED store => StoreTyped'
  BY DEF StoreTyped, store
<1>2. UNCHANGED <<call, mutex, startMutex>> => CallsTyped' /\ Held'
  BY DEF CallsTyped, Held, HoldsMutex
<1>3. UNCHANGED <<run, inbox, callback>> => RunTyped' /\ RacesCounted'
  BY DEF RunTyped, RacesCounted
<1>4. UNCHANGED <<current, timeAttack, types, wait, index, budget, notes>> => ManagerTyped'
  BY DEF ManagerTyped
<1>5. UNCHANGED <<armed, fired>> => TimersTyped'
  BY DEF TimersTyped
<1>6. UNCHANGED call => Kept'
  BY DEF Kept
<1>7. UNCHANGED call[Looper] => LooperKept'
  BY DEF LooperKept
<1>8. UNCHANGED <<startMutex, run, inbox, callback>> => RunSound'
  BY DEF RunSound, IsRunning
<1>9. UNCHANGED run => PlaceSound'
  BY DEF PlaceSound, IsRunning
<1>10. UNCHANGED <<call, current, run, notes.misled>> => CurrentSound'
  BY DEF CurrentSound, HoldsMutex, IsRunning
<1>11. UNCHANGED <<call, notes.overlap>> => OneStarts'
  BY DEF OneStarts, Starts
<1>12. UNCHANGED <<call, timeAttack, current, notes.overlap, notes.announced>> => TimeAttackSound'
  BY DEF TimeAttackSound, TimeAttackOf
<1>13. UNCHANGED <<call[Looper], types, notes.robbed>> => TypesStored' /\ TypesOfLooper'
  BY DEF TypesStored, TypesOfLooper
<1>14. UNCHANGED <<call[Looper], types, notes.robbed, run, callback>> => LoopedRaceEnds'
  BY DEF LoopedRaceEnds
<1>15. UNCHANGED <<run, types, notes.overtaken>> => TypesOfRun'
  BY DEF TypesOfRun, IsRunning
<1>16. UNCHANGED <<call[Looper], run, notes.overtaken>> => OvertakenSound'
  BY DEF OvertakenSound, IsRunning
<1>17. UNCHANGED <<call, armed, fired, notes.failed>> => TimersSound'
  BY DEF TimersSound
<1>18. UNCHANGED <<run, wait, types, inbox, callback, notes.overtaken>> => WaitSound'
  BY DEF WaitSound, Regular, IsRunning
<1> QED
  BY <1>1, <1>2, <1>3, <1>4, <1>5, <1>6, <1>7, <1>8, <1>9, <1>10, <1>11, <1>12, <1>13, <1>14, <1>15,
     <1>16, <1>17, <1>18

\* Nothing runs any more.
LEMMA EndsSound ==
    ASSUME IInv, run' = NoRun, inbox' \in {"none", "late"}, callback' \in {"idle", "late"}
    PROVE  /\ RunTyped' /\ RunSound' /\ PlaceSound' /\ RacesCounted' /\ ~IsRunning'
           /\ LoopedRaceEnds' /\ TypesOfRun' /\ OvertakenSound' /\ WaitSound'
           /\ (\A c \in Callers : HoldsMutex(c)' => current' = call'[c].race) => CurrentSound'
<1>1. ~IsRunning' /\ run'.looping = FALSE /\ run'.races = 0
  BY NoRunTyped DEF IsRunning
<1>2. RunTyped'
  BY NoRunTyped DEF RunTyped
<1>3. RunSound' /\ PlaceSound' /\ RacesCounted'
  BY <1>1 DEF RunSound, PlaceSound, RacesCounted, Kinds
<1>4. LoopedRaceEnds' /\ TypesOfRun' /\ OvertakenSound' /\ WaitSound'
  BY <1>1 DEF LoopedRaceEnds, TypesOfRun, OvertakenSound, WaitSound, Regular
<1>5. (\A c \in Callers : HoldsMutex(c)' => current' = call'[c].race) => CurrentSound'
  BY <1>1 DEF CurrentSound
<1> QED
  BY <1>1, <1>2, <1>3, <1>4, <1>5

LEMMA EndsRunSound ==
    ASSUME IInv, EndsRun
    PROVE  run' = NoRun /\ inbox' \in {"none", "late"} /\ callback' \in {"idle", "late"}
BY DEF IInv, TypeOK, RunTyped, EndsRun

\* A user begins or ends something outside of the mutexes.
LEMMA UserMoves ==
    ASSUME IInv, NEW u \in Users, NEW x, Moves(u, x), UNCHANGED <<mutex, startMutex, armed, fired, notes.failed>>,
           call[u].pc \in {"idle", "save"},
           x.pc \in {"idle", "want"} \/ (x.pc = "stop" /\ x.kind = "restart"),
           x.kind = "restart" => x.pc = "stop",
           x.looping => x.kind = "restart",
           x.pc # "idle" => x.race \in Races
    PROVE  /\ CallsTyped' /\ Held' /\ Kept' /\ LooperKept' /\ TimersSound'
           /\ UNCHANGED <<current, run, notes.misled>> => CurrentSound'
           /\ UNCHANGED <<run, notes.overtaken>> => OvertakenSound'
<1>1. u \in Callers /\ u # Looper /\ Looper \in Callers \ {u}
  BY CallersAre
<1>2. call'[Looper] = call[Looper] /\ call'[u] = x
  BY <1>1 DEF Moves
<1>3. CallsTyped' /\ LooperKept'
  BY <1>2, Framed DEF IInv, TypeOK, CallsTyped, Moves
<1>4. ~HoldsMutex(u) /\ ~HoldsMutex(u)' /\ call[u].pc # "launch" /\ call'[u].pc # "launch"
  BY <1>2 DEF HoldsMutex
<1>5. \A c \in Callers : /\ HoldsMutex(c)' <=> HoldsMutex(c)
                         /\ call'[c].pc = "launch" <=> call[c].pc = "launch"
                         /\ call'[c].pc = "finish" <=> call[c].pc = "finish"
                         /\ HoldsMutex(c) => call'[c] = call[c]
  BY <1>2, <1>4 DEF Moves, HoldsMutex
<1>6. Held'
  BY <1>5 DEF IInv, Inv1, Held
<1>7. Kept'
  BY <1>1, <1>2 DEF IInv, Inv1, Kept, Moves
<1>8. TimersSound'
  BY <1>5 DEF IInv, TimersSound
<1>9. UNCHANGED <<current, run, notes.misled>> => CurrentSound'
  <2> SUFFICES ASSUME UNCHANGED <<current, run, notes.misled>> PROVE CurrentSound'
    OBVIOUS
  <2>1. \A c \in Callers : HoldsMutex(c)' => current' = call'[c].race
    BY <1>5 DEF IInv, CurrentSound
  <2>2. IsRunning' <=> IsRunning
    BY DEF IsRunning
  <2>3. \A c \in Callers : HoldsMutex(c) /\ call[c].pc = "stop" => HoldsMutex(c)' /\ call'[c].pc = "stop"
    BY <1>5
  <2> QED
    BY <2>1, <2>2, <2>3 DEF IInv, CurrentSound
<1>10. UNCHANGED <<run, notes.overtaken>> => OvertakenSound'
  BY <1>2, Framed
<1> QED
  BY <1>3, <1>6, <1>7, <1>8, <1>9, <1>10

----------------------------------------------------------------------------
(* Every action preserves the invariant: requests of users                  *)

LEMMA BudgetTyped ==
    ASSUME IInv, Request \/ Fault
    PROVE  budget' \in 0..MaxEvents
BY DEF IInv, TypeOK, ManagerTyped, Request, Fault

LEMMA StorePreserves ==
    ASSUME IInv, Request, order' \in Seq(Races), loop' \in SUBSET Races,
           UNCHANGED <<mutex, startMutex, call, server, current, looped, timeAttack, fired, index, notes>>
    PROVE  IInv'
<1>1. StoreTyped'
  BY DEF StoreTyped
<1>2. ManagerTyped'
  BY BudgetTyped DEF IInv, TypeOK, ManagerTyped, looped
<1> QED
  BY <1>1, <1>2, Framed DEF IInv, Inv1, TypeOK, server, looped

LEMMA TogglePreserves ==
    ASSUME IInv, NEW r \in Races, ToggleLoopCustomRace(r)
    PROVE  IInv'
<1>1. order' \in Seq(Races)
  BY ToFrontTyped DEF ToggleLoopCustomRace, IInv, TypeOK, StoreTyped
<1>2. loop' \in SUBSET Races
  BY DEF ToggleLoopCustomRace, IInv, TypeOK, StoreTyped
<1> QED
  BY <1>1, <1>2, StorePreserves DEF ToggleLoopCustomRace

LEMMA DeletePreserves ==
    ASSUME IInv, NEW r \in Races, DeleteCustomRace(r)
    PROVE  IInv'
<1>1. order' \in Seq(Races)
  BY WithoutTyped DEF DeleteCustomRace, IInv, TypeOK, StoreTyped
<1>2. loop' \in SUBSET Races
  BY DEF DeleteCustomRace, IInv, TypeOK, StoreTyped
<1> QED
  BY <1>1, <1>2, StorePreserves DEF DeleteCustomRace

\* What StartCustomRace makes of the call, of the time attack and of the overlap.
LEMMA StartMoves ==
    ASSUME IInv, NEW c \in Callers, NEW r \in Races, NEW looping \in BOOLEAN, NEW kind \in {"start", "scheduled"},
           StartCustomRace(c, r, looping, kind), ~Starts(c), UNCHANGED <<types, wait, current, index>>,
           budget' \in 0..MaxEvents
    PROVE  /\ Moves(c, [pc |-> "want", race |-> r, looping |-> looping, kind |-> kind])
           /\ ManagerTyped' /\ OneStarts' /\ TimeAttackSound'
           /\ notes'.overtaken = notes.overtaken /\ notes'.robbed = notes.robbed
           /\ notes'.misled = notes.misled /\ notes'.failed = notes.failed
<1> DEFINE x == [pc |-> "want", race |-> r, looping |-> looping, kind |-> kind]
           b == \E d \in Callers \ {c} : Busy(d)
<1>1. x \in Calls
  BY DEF Calls, RaceOrNone
<1>2. Moves(c, x)
  BY <1>1, CallMoves DEF StartCustomRace, IInv, TypeOK, CallsTyped
<1>3. notes' = [notes EXCEPT !.overlap = b, !.announced = FALSE] /\ b \in BOOLEAN /\ notes \in Exceptions
  BY DEF StartCustomRace, IInv, TypeOK, ManagerTyped
<1> HIDE DEF b
<1>4. /\ notes' \in Exceptions /\ notes'.overlap = b /\ notes'.overtaken = notes.overtaken
      /\ notes'.robbed = notes.robbed /\ notes'.misled = notes.misled /\ notes'.failed = notes.failed
  BY <1>3, NoteStart
<1>5. ManagerTyped'
  BY <1>4 DEF IInv, TypeOK, ManagerTyped, StartCustomRace, RaceOrNone
<1>6. ~notes'.overlap => \A d \in Callers \ {c} : ~Starts(d) /\ ~Starts(d)' /\ call'[d].pc # "want"
  BY <1>2, <1>4 DEF b, Busy, Starts, Moves
<1>7. OneStarts'
  BY <1>6 DEF OneStarts
<1>8. call'[c] = x
  BY <1>2 DEF Moves
<1>9. TimeAttackSound'
  <2> SUFFICES ASSUME ~notes'.overlap
               PROVE  /\ \A d \in Callers : call'[d].pc = "want" /\ Setup[call'[d].race].timeAttack
                                               => timeAttack' = call'[d].race
                      /\ (\A d \in Callers : call'[d].pc # "want") => timeAttack' = TimeAttackOf(current)'
    BY DEF TimeAttackSound
  <2>1. \A d \in Callers : call'[d].pc = "want" => d = c
    BY <1>6
  <2>2. Setup[r].timeAttack => timeAttack' = r
    BY DEF StartCustomRace
  <2> QED
    BY <1>8, <2>1, <2>2
<1> QED
  BY <1>2, <1>4, <1>5, <1>7, <1>9

LEMMA UserStartsPreserves ==
    ASSUME IInv, NEW u \in Users, NEW r \in Races, NEW k \in {"start", "scheduled"}, UserStarts(u, r, k)
    PROVE  IInv'
<1>1. u \in Callers /\ u # Looper /\ call[u].pc = "idle" /\ ~Starts(u) /\ Looper \in Callers \ {u}
  BY CallersAre DEF UserStarts, Starts
<1>2. /\ UNCHANGED <<order, loop, mutex, startMutex, run, inbox, callback, armed, current, types, wait, fired, index>>
      /\ StartCustomRace(u, r, FALSE, k) /\ Request
  BY DEF UserStarts, store, server, looped
<1> DEFINE x == [pc |-> "want", race |-> r, looping |-> FALSE, kind |-> k]
<1>3. /\ Moves(u, x) /\ ManagerTyped' /\ OneStarts' /\ TimeAttackSound'
      /\ notes'.overtaken = notes.overtaken /\ notes'.robbed = notes.robbed
      /\ notes'.misled = notes.misled /\ notes'.failed = notes.failed
  BY <1>1, <1>2, StartMoves, BudgetTyped
<1>4. call'[Looper] = call[Looper]
  BY <1>1, <1>3 DEF Moves
<1>5. /\ CallsTyped' /\ Held' /\ Kept' /\ LooperKept' /\ TimersSound'
      /\ UNCHANGED <<current, run, notes.misled>> => CurrentSound'
      /\ UNCHANGED <<run, notes.overtaken>> => OvertakenSound'
  BY <1>1, <1>2, <1>3, UserMoves
<1> QED
  BY <1>2, <1>3, <1>4, <1>5, Framed DEF IInv, Inv1, TypeOK, store

\* A new race is stored, and started at once, announced or only scheduled.
LEMMA SetupPreserves ==
    ASSUME IInv, NEW u \in Users, NEW r \in Races, NEW a \in {"start", "justSave", "schedule"},
           SetupCustomRace(u, r, a)
    PROVE  IInv'
<1>1. u \in Callers /\ u # Looper /\ call[u].pc = "idle" /\ ~Starts(u) /\ Looper \in Callers \ {u}
  BY CallersAre DEF SetupCustomRace, Starts
<1>2. /\ UNCHANGED <<loop, mutex, startMutex, run, inbox, callback, armed, current, types, wait, fired, index>>
      /\ Request /\ order' = <<r>> \o order
  BY DEF SetupCustomRace, server, looped
<1>3. StoreTyped'
  BY <1>2 DEF StoreTyped, IInv, TypeOK
<1>4. CASE StartCustomRace(u, r, FALSE, "start")
  <2> DEFINE x == [pc |-> "want", race |-> r, looping |-> FALSE, kind |-> "start"]
  <2>3. /\ Moves(u, x) /\ ManagerTyped' /\ OneStarts' /\ TimeAttackSound'
        /\ notes'.overtaken = notes.overtaken /\ notes'.robbed = notes.robbed
        /\ notes'.misled = notes.misled /\ notes'.failed = notes.failed
    BY <1>1, <1>2, <1>4, StartMoves, BudgetTyped
  <2>4. call'[Looper] = call[Looper]
    BY <1>1, <2>3 DEF Moves
  <2>5. /\ CallsTyped' /\ Held' /\ Kept' /\ LooperKept' /\ TimersSound'
        /\ UNCHANGED <<current, run, notes.misled>> => CurrentSound'
        /\ UNCHANGED <<run, notes.overtaken>> => OvertakenSound'
    BY <1>1, <1>2, <2>3, UserMoves
  <2> QED
    BY <1>2, <1>3, <2>3, <2>4, <2>5, Framed DEF IInv, Inv1, TypeOK
<1>5. CASE /\ timeAttack' = IF Setup[r].timeAttack THEN r ELSE timeAttack
           /\ notes' = [notes EXCEPT !.announced = @ \/ Setup[r].timeAttack]
           /\ UNCHANGED call
  <2> DEFINE b == notes.announced \/ Setup[r].timeAttack
  <2>1. notes \in Exceptions /\ b \in BOOLEAN
    BY SetupTyped DEF IInv, TypeOK, ManagerTyped, Exceptions
  <2>2. notes' = [notes EXCEPT !.announced = b]
    BY <1>5
  <2>3. ~b => UNCHANGED timeAttack /\ ~notes.announced
    BY <1>5
  <2> HIDE DEF b
  <2>4. /\ notes' \in Exceptions /\ notes'.announced = b /\ notes'.overtaken = notes.overtaken
        /\ notes'.overlap = notes.overlap /\ notes'.robbed = notes.robbed
        /\ notes'.misled = notes.misled /\ notes'.failed = notes.failed
    BY <2>1, <2>2, NoteAnnounced
  <2>5. TimeAttackSound'
    BY <1>2, <1>5, <2>3, <2>4 DEF IInv, TimeAttackSound, TimeAttackOf
  <2>6. ManagerTyped'
    BY <1>2, <1>5, <2>4, BudgetTyped DEF IInv, TypeOK, ManagerTyped, RaceOrNone
  <2> QED
    BY <1>2, <1>3, <1>5, <2>4, <2>5, <2>6, Framed DEF IInv, Inv1, TypeOK
<1>6. CASE UNCHANGED <<call, timeAttack, notes>>
  <2>1. ManagerTyped'
    BY <1>2, <1>6, BudgetTyped DEF IInv, TypeOK, ManagerTyped
  <2> QED
    BY <1>2, <1>3, <1>6, <2>1, Framed DEF IInv, Inv1, TypeOK
<1> QED
  BY <1>4, <1>5, <1>6 DEF SetupCustomRace

LEMMA RestartPreserves ==
    ASSUME IInv, NEW u \in Users, Restart(u)
    PROVE  IInv'
<1>1. u \in Callers /\ u # Looper /\ call[u].pc = "idle" /\ Looper \in Callers \ {u} /\ IsRunning
  BY CallersAre DEF Restart
<1>2. /\ UNCHANGED <<order, loop, mutex, startMutex, run, inbox, callback, armed, current, types, wait, timeAttack, fired, index>>
      /\ Request /\ notes' = [notes EXCEPT !.overlap = TRUE]
  BY DEF Restart, store, server, looped
<1> DEFINE x == [pc |-> "stop", race |-> run.race, looping |-> run.looping, kind |-> "restart"]
<1>3. run.race \in Races /\ run.looping \in BOOLEAN
  BY <1>1 DEF IInv, Inv1, RunSound, TypeOK, RunTyped, Runs
<1>4. Moves(u, x)
  <2>1. x \in Calls
    BY <1>3 DEF Calls, RaceOrNone
  <2> QED
    BY <1>1, <2>1, CallMoves DEF Restart, IInv, TypeOK, CallsTyped
<1>5. /\ notes' \in Exceptions /\ notes'.overlap /\ notes'.overtaken = notes.overtaken
      /\ notes'.robbed = notes.robbed /\ notes'.misled = notes.misled /\ notes'.failed = notes.failed
  BY <1>2, NoteOverlap DEF IInv, TypeOK, ManagerTyped
<1>6. call'[Looper] = call[Looper]
  BY <1>1, <1>4 DEF Moves
<1>7. /\ CallsTyped' /\ Held' /\ Kept' /\ LooperKept' /\ TimersSound'
      /\ UNCHANGED <<current, run, notes.misled>> => CurrentSound'
      /\ UNCHANGED <<run, notes.overtaken>> => OvertakenSound'
  BY <1>1, <1>2, <1>3, <1>4, <1>5, UserMoves
<1>8. ManagerTyped'
  BY <1>2, <1>5, BudgetTyped DEF IInv, TypeOK, ManagerTyped
<1>9. OneStarts' /\ TimeAttackSound'
  BY <1>5 DEF OneStarts, TimeAttackSound
<1> QED
  BY <1>2, <1>5, <1>6, <1>7, <1>8, <1>9, Framed DEF IInv, Inv1, TypeOK, store

LEMMA SaveStartedPreserves ==
    ASSUME IInv, NEW u \in Users, SaveStarted(u)
    PROVE  IInv'
<1>1. u \in Callers /\ u # Looper /\ call[u].pc = "save" /\ Looper \in Callers \ {u}
  BY CallersAre DEF SaveStarted
<1>2. UNCHANGED <<mutex, startMutex, run, inbox, callback, armed, current, types, wait, timeAttack, fired, index, budget, notes>>
  BY DEF SaveStarted, server, looped
<1>3. Moves(u, Idle)
  BY <1>1, IdleTyped, CallMoves DEF SaveStarted, IInv, TypeOK, CallsTyped
<1>4. call'[Looper] = call[Looper] /\ call'[u] = Idle
  BY <1>1, <1>3 DEF Moves
<1>5. /\ CallsTyped' /\ Held' /\ Kept' /\ LooperKept' /\ TimersSound'
      /\ UNCHANGED <<current, run, notes.misled>> => CurrentSound'
      /\ UNCHANGED <<run, notes.overtaken>> => OvertakenSound'
  BY <1>1, <1>2, <1>3, IdleTyped, UserMoves
<1>6. StoreTyped'
  <2>1. call[u].race \in Races
    BY <1>1 DEF IInv, Inv1, Kept
  <2> QED
    BY <2>1, ToFrontTyped DEF SaveStarted, IInv, TypeOK, StoreTyped
<1>7. \A d \in Callers : (Starts(d)' => Starts(d)) /\ (call'[d].pc = "want" <=> call[d].pc = "want")
                         /\ (call'[d].pc = "want" => call'[d] = call[d])
  BY <1>1, <1>3, <1>4, IdleTyped DEF Starts, Moves
<1>8. OneStarts'
  BY <1>2, <1>7 DEF IInv, OneStarts
<1>9. TimeAttackSound'
  BY <1>2, <1>7 DEF IInv, TimeAttackSound, TimeAttackOf
<1> QED
  BY <1>2, <1>4, <1>5, <1>6, <1>8, <1>9, Framed DEF IInv, Inv1, TypeOK

LEMMA StopPreserves ==
    ASSUME IInv, Stop
    PROVE  IInv'
<1>1. /\ UNCHANGED <<order, loop, mutex, startMutex, call, current, types, wait, timeAttack, armed, fired, index, notes>>
      /\ Request /\ EndsRun
  BY DEF Stop, store, looped
<1>2. ManagerTyped'
  BY <1>1, BudgetTyped DEF IInv, TypeOK, ManagerTyped
<1>3. CurrentSound'
  <2>1. \A c \in Callers : HoldsMutex(c)' => current' = call'[c].race
    BY <1>1 DEF IInv, CurrentSound, HoldsMutex
  <2> QED
    BY <1>1, <2>1, EndsRunSound, EndsSound
<1> QED
  BY <1>1, <1>2, <1>3, EndsRunSound, EndsSound, Framed DEF IInv, Inv1, TypeOK, store

----------------------------------------------------------------------------
(* Every action preserves the invariant: starts                             *)

\* What an error makes of the caller and of the exceptions.
LEMMA FailsMoves ==
    ASSUME IInv, NEW c \in Callers, NEW from, Fails(c, from)
    PROVE  /\ call' \in [Callers -> Calls] /\ call'[c].kind = "start" /\ ~call'[c].looping
           /\ call'[c].pc = IF c = Looper THEN "ended" ELSE "idle"
           /\ \A d \in Callers \ {c} : call'[d] = call[d]
           /\ notes' \in Exceptions /\ notes'.overlap
           /\ notes.failed \/ from = "launched" => notes'.failed
           /\ notes.overtaken \/ from = "launched" => notes'.overtaken
           /\ notes.misled \/ from = "stop" \/ (from = "launched" /\ current # call[c].race) => notes'.misled
           /\ \/ notes.robbed \/ c = Looper \/ (from = "want" /\ Robs(c))
              \/ (from = "launched" /\ call[c].kind = "restart")
              => notes'.robbed
<1> DEFINE p == IF c = Looper THEN "ended" ELSE "idle"
           fa == notes.failed \/ from = "launched"
           ov == notes.overtaken \/ from = "launched"
           mi == notes.misled \/ from = "stop" \/ (from = "launched" /\ current # call[c].race)
           ro == notes.robbed \/ c = Looper \/ (from = "want" /\ Robs(c))
                    \/ (from = "launched" /\ call[c].kind = "restart")
<1>1. notes \in Exceptions
  BY DEF IInv, TypeOK, ManagerTyped
<1>2. notes.failed \in BOOLEAN /\ notes.overtaken \in BOOLEAN /\ notes.misled \in BOOLEAN /\ notes.robbed \in BOOLEAN
  BY <1>1 DEF Exceptions
<1>3. fa \in BOOLEAN /\ ov \in BOOLEAN /\ mi \in BOOLEAN /\ ro \in BOOLEAN
  OBVIOUS
<1>4. notes' = [notes EXCEPT !.overlap = TRUE, !.failed = fa, !.overtaken = ov, !.misled = mi, !.robbed = ro]
  BY <1>1 DEF Fails, Exceptions
<1>5. (notes.failed \/ from = "launched" => fa) /\ (notes.overtaken \/ from = "launched" => ov)
  OBVIOUS
<1>6. notes.misled \/ from = "stop" \/ (from = "launched" /\ current # call[c].race) => mi
  OBVIOUS
<1>7. notes.robbed \/ c = Looper \/ (from = "want" /\ Robs(c)) \/ (from = "launched" /\ call[c].kind = "restart") => ro
  OBVIOUS
<1> HIDE DEF fa, ov, mi, ro
<1>8. /\ notes' \in Exceptions /\ notes'.overlap /\ notes'.failed = fa /\ notes'.overtaken = ov
      /\ notes'.misled = mi /\ notes'.robbed = ro
  BY <1>1, <1>3, <1>4 DEF Exceptions
<1>9. p \in Points
  BY DEF Points
<1> DEFINE x == [Idle EXCEPT !.pc = p]
<1>10. x \in Calls /\ x.pc = p /\ x.looping = FALSE /\ x.kind = "start"
  BY <1>9, IdleTyped, WithPc
<1>11. call' = [call EXCEPT ![c] = x]
  BY DEF Fails
<1> HIDE DEF x
<1>12. Moves(c, x)
  BY <1>10, <1>11, CallMoves DEF IInv, TypeOK, CallsTyped
<1>13. /\ call' \in [Callers -> Calls] /\ call'[c].kind = "start" /\ ~call'[c].looping
       /\ call'[c].pc = p /\ \A d \in Callers \ {c} : call'[d] = call[d]
  BY <1>10, <1>12 DEF Moves
<1> QED
  BY <1>5, <1>6, <1>7, <1>8, <1>13

LEMMA FailsSound ==
    ASSUME IInv, NEW c \in Callers, NEW from, Fails(c, from)
    PROVE  /\ CallsTyped' /\ Held' /\ Kept' /\ LooperKept' /\ OneStarts' /\ TimeAttackSound'
           /\ UNCHANGED types => TypesStored' /\ TypesOfLooper'
           /\ UNCHANGED <<types, run, callback>> => LoopedRaceEnds'
           /\ UNCHANGED <<types, run>> => TypesOfRun'
           /\ UNCHANGED run => OvertakenSound'
           /\ UNCHANGED <<armed, fired>> /\ call[c].pc # "finish" => TimersSound'
           /\ UNCHANGED <<run, wait, types, inbox, callback>> => WaitSound'
           /\ UNCHANGED <<run, current>> /\ (from = "stop" \/ call[c].pc # "stop") => CurrentSound'
           /\ UNCHANGED <<run, inbox, callback>> => RunSound'
<1>1. /\ call' \in [Callers -> Calls] /\ call'[c].kind = "start" /\ ~call'[c].looping
      /\ call'[c].pc = IF c = Looper THEN "ended" ELSE "idle"
      /\ \A d \in Callers \ {c} : call'[d] = call[d]
  BY FailsMoves
<1>2. /\ notes' \in Exceptions /\ notes'.overlap
      /\ notes.failed => notes'.failed
      /\ notes.overtaken => notes'.overtaken
      /\ notes.misled \/ from = "stop" => notes'.misled
      /\ notes.robbed \/ c = Looper => notes'.robbed
  BY FailsMoves
<1>3. Looper \in Callers /\ NoRace \notin Callers
  BY CallersAre
<1>4. /\ mutex' = IF mutex = c THEN NoRace ELSE mutex
      /\ startMutex' = IF startMutex = c THEN NoRace ELSE startMutex
  BY DEF Fails
<1>5. CallsTyped'
  BY <1>1, <1>4 DEF IInv, TypeOK, CallsTyped
<1>6. ~HoldsMutex(c)' /\ \A d \in Callers \ {c} : HoldsMutex(d)' <=> HoldsMutex(d)
  BY <1>1 DEF HoldsMutex
<1>7. Held'
  BY <1>1, <1>3, <1>4, <1>6 DEF IInv, Inv1, Held
<1>8. Kept' /\ LooperKept'
  BY <1>1, <1>3 DEF IInv, Inv1, Kept, LooperKept
<1>9. OneStarts' /\ TimeAttackSound'
  BY <1>2 DEF OneStarts, TimeAttackSound
<1>10. call'[Looper].pc = "ended" \/ (call'[Looper] = call[Looper] /\ c # Looper)
  BY <1>1, <1>3
<1>11. UNCHANGED types => TypesStored' /\ TypesOfLooper'
  <2> SUFFICES ASSUME UNCHANGED types PROVE TypesStored' /\ TypesOfLooper'
    OBVIOUS
  <2>1. CASE call'[Looper].pc = "ended"
    BY <2>1 DEF TypesStored, TypesOfLooper
  <2>2. CASE call'[Looper] = call[Looper]
    BY <1>2, <2>2 DEF IInv, TypesStored, TypesOfLooper
  <2> QED
    BY <1>10, <2>1, <2>2
<1>12. UNCHANGED <<types, run, callback>> => LoopedRaceEnds'
  <2> SUFFICES ASSUME UNCHANGED <<types, run, callback>> PROVE LoopedRaceEnds'
    OBVIOUS
  <2>1. CASE c = Looper
    BY <1>2, <2>1 DEF LoopedRaceEnds
  <2>2. CASE c # Looper
    <3>1. call'[Looper] = call[Looper] /\ (notes.robbed => notes'.robbed)
      BY <1>1, <1>2, <1>3, <2>2
    <3> QED
      BY <3>1 DEF IInv, LoopedRaceEnds
  <2> QED
    BY <2>1, <2>2
<1>13. UNCHANGED <<types, run>> => TypesOfRun'
  BY <1>2 DEF IInv, TypesOfRun, IsRunning
<1>14. UNCHANGED run => OvertakenSound'
  BY <1>2, <1>10 DEF IInv, OvertakenSound, IsRunning
<1>15. UNCHANGED <<armed, fired>> /\ call[c].pc # "finish" => TimersSound'
  <2> SUFFICES ASSUME UNCHANGED <<armed, fired>>, call[c].pc # "finish" PROVE TimersSound'
    OBVIOUS
  <2>1. \A d \in Callers : call[d].pc = "finish" => call'[d].pc = "finish"
    BY <1>1
  <2> QED
    BY <1>2, <2>1 DEF IInv, TimersSound
<1>16. UNCHANGED <<run, wait, types, inbox, callback>> => WaitSound'
  BY <1>2 DEF IInv, WaitSound, Regular, IsRunning
<1>17. UNCHANGED <<run, current>> /\ (from = "stop" \/ call[c].pc # "stop") => CurrentSound'
  <2> SUFFICES ASSUME UNCHANGED <<run, current>>, from = "stop" \/ call[c].pc # "stop" PROVE CurrentSound'
    OBVIOUS
  <2>1. \A d \in Callers : HoldsMutex(d)' => current' = call'[d].race
    BY <1>1, <1>6 DEF IInv, CurrentSound
  <2>2. CASE from = "stop"
    BY <1>2, <2>1, <2>2 DEF CurrentSound
  <2>3. CASE call[c].pc # "stop"
    <3>1. \A d \in Callers : HoldsMutex(d) /\ call[d].pc = "stop" => HoldsMutex(d)' /\ call'[d].pc = "stop"
      BY <1>1, <1>6, <2>3
    <3> QED
      BY <1>2, <2>1, <3>1 DEF IInv, CurrentSound, IsRunning
  <2> QED
    BY <2>2, <2>3
<1>18. UNCHANGED <<run, inbox, callback>> => RunSound'
  BY <1>4 DEF IInv, Inv1, RunSound, IsRunning
<1> QED
  BY <1>5, <1>7, <1>8, <1>9, <1>11, <1>12, <1>13, <1>14, <1>15, <1>16, <1>17, <1>18

LEMMA ListFailsPreserves ==
    ASSUME IInv, ListFails
    PROVE  IInv'
<1>1. /\ UNCHANGED <<order, loop, run, inbox, callback, armed, current, types, wait, timeAttack, fired, index>>
      /\ Fails(Looper, "list") /\ Fault /\ call[Looper].pc = "list" /\ Looper \in Callers
  BY CallersAre DEF ListFails, store, server, looped
<1>2. /\ CallsTyped' /\ Held' /\ Kept' /\ LooperKept' /\ OneStarts' /\ TimeAttackSound' /\ TypesStored'
      /\ TypesOfLooper' /\ LoopedRaceEnds' /\ TypesOfRun' /\ OvertakenSound' /\ TimersSound' /\ WaitSound'
      /\ CurrentSound' /\ RunSound'
  BY <1>1, FailsSound
<1>3. ManagerTyped'
  <2>1. notes' \in Exceptions
    BY <1>1, FailsMoves
  <2> QED
    BY <1>1, <2>1, BudgetTyped DEF IInv, TypeOK, ManagerTyped
<1> QED
  BY <1>1, <1>2, <1>3, Framed DEF IInv, Inv1, TypeOK, store

LEMMA LooperStartsPreserves ==
    ASSUME IInv, LooperStarts
    PROVE  IInv'
<1>1. /\ UNCHANGED <<order, loop, run, inbox, callback, armed, current, types, wait, fired, index, budget>>
      /\ call[Looper].pc = "find" /\ Looper \in Callers
  BY CallersAre DEF LooperStarts, store, server, looped
<1> DEFINE r == call[Looper].race
<1>2. CASE r \in ToSet(order)
  <2>1. r \in Races
    BY <1>2 DEF ToSet, IInv, TypeOK, StoreTyped
  <2>2. StartCustomRace(Looper, r, TRUE, "start") /\ UNCHANGED <<mutex, startMutex>>
    BY <1>2 DEF LooperStarts
  <2>3. ~Starts(Looper) /\ budget' \in 0..MaxEvents
    BY <1>1 DEF Starts, IInv, TypeOK, ManagerTyped
  <2> DEFINE x == [pc |-> "want", race |-> r, looping |-> TRUE, kind |-> "start"]
  <2>4. /\ Moves(Looper, x)
        /\ ManagerTyped' /\ OneStarts' /\ TimeAttackSound'
        /\ notes'.overtaken = notes.overtaken /\ notes'.robbed = notes.robbed
        /\ notes'.misled = notes.misled /\ notes'.failed = notes.failed
    BY <1>1, <2>1, <2>2, <2>3, StartMoves
  <2>5. /\ call' \in [Callers -> Calls] /\ call'[Looper] = x
        /\ \A d \in Callers \ {Looper} : call'[d] = call[d]
    BY <2>4 DEF Moves
  <2>6. ~HoldsMutex(Looper) /\ ~HoldsMutex(Looper)' /\ \A d \in Callers \ {Looper} : HoldsMutex(d)' <=> HoldsMutex(d)
    BY <1>1, <2>5 DEF HoldsMutex
  <2>7. CallsTyped' /\ Held'
    BY <1>1, <2>2, <2>5, <2>6 DEF IInv, Inv1, TypeOK, CallsTyped, Held
  <2>8. Kept' /\ LooperKept'
    BY <1>1, <2>1, <2>5 DEF IInv, Inv1, Kept, LooperKept
  <2>9. TypesStored' /\ TypesOfLooper'
    BY <1>1, <2>4, <2>5 DEF IInv, TypesStored, TypesOfLooper
  <2>10. LoopedRaceEnds' /\ OvertakenSound'
    BY <1>1, <2>4, <2>5 DEF IInv, LoopedRaceEnds, OvertakenSound, IsRunning
  <2>11. TimersSound'
    <3>1. \A d \in Callers : call[d].pc = "finish" => call'[d].pc = "finish"
      BY <1>1, <2>5
    <3> QED
      BY <1>1, <2>4, <3>1 DEF IInv, TimersSound
  <2>12. CurrentSound'
    <3>1. \A d \in Callers : HoldsMutex(d)' => current' = call'[d].race
      BY <1>1, <2>5, <2>6 DEF IInv, CurrentSound
    <3>2. \A d \in Callers : HoldsMutex(d) /\ call[d].pc = "stop" => HoldsMutex(d)' /\ call'[d].pc = "stop"
      BY <1>1, <2>5, <2>6
    <3> QED
      BY <1>1, <2>4, <3>1, <3>2 DEF IInv, CurrentSound, IsRunning
  <2> QED
    BY <1>1, <2>2, <2>4, <2>7, <2>8, <2>9, <2>10, <2>11, <2>12, Framed DEF IInv, Inv1, TypeOK, store
<1>3. CASE r \notin ToSet(order)
  <2>1. Fails(Looper, "find") /\ UNCHANGED timeAttack
    BY <1>3 DEF LooperStarts
  <2>2. /\ CallsTyped' /\ Held' /\ Kept' /\ LooperKept' /\ OneStarts' /\ TimeAttackSound' /\ TypesStored'
        /\ TypesOfLooper' /\ LoopedRaceEnds' /\ TypesOfRun' /\ OvertakenSound' /\ TimersSound' /\ WaitSound'
        /\ CurrentSound' /\ RunSound'
    BY <1>1, <2>1, FailsSound
  <2>3. ManagerTyped'
    <3>1. notes' \in Exceptions
      BY <1>1, <2>1, FailsMoves
    <3> QED
      BY <1>1, <2>1, <3>1 DEF IInv, TypeOK, ManagerTyped
  <2> QED
    BY <1>1, <2>1, <2>2, <2>3, Framed DEF IInv, Inv1, TypeOK, store
<1> QED
  BY <1>2, <1>3

\* What a start that is not a looped one does to the session types of a looped one.
LEMMA ApplyTypes ==
    ASSUME IInv, NEW c \in Callers, call[c].pc = "want", mutex = NoRace, types' = TypesAfter(c),
           UNCHANGED <<run, wait, inbox, callback>>,
           notes.robbed \/ Robs(c) => notes'.robbed, notes.overtaken => notes'.overtaken,
           \/ c # Looper /\ call'[Looper] = call[Looper]
           \/ c = Looper /\ call'[Looper].race = call[Looper].race /\ call'[Looper].pc = "stop"
           \/ c = Looper /\ call'[Looper].pc = "ended" /\ notes'.robbed
    PROVE  TypesStored' /\ TypesOfLooper' /\ LoopedRaceEnds' /\ TypesOfRun' /\ WaitSound'
<1>1. types' = types \/ types' = NoTypes
  BY DEF TypesAfter
<1>2. Looper \in Callers /\ \A d \in Callers : ~HoldsMutex(d)
  BY CallersAre DEF IInv, Inv1, Held
<1>3. call[Looper].pc \notin {"stop", "launch"}
  BY <1>2 DEF HoldsMutex, IInv, Inv1, LooperKept
<1>4. c = Looper => types' = types
  BY DEF TypesAfter, IInv, Inv1, LooperKept
<1>5. call[c].looping => types' = types
  BY DEF TypesAfter
<1>6. types' = types \/ run.looping \/ call[Looper].pc \in {"find", "want"} => types' = types \/ notes'.robbed
  BY <1>5 DEF Robs
<1>7. TypesOfRun' /\ WaitSound'
  BY <1>1 DEF IInv, TypesOfRun, WaitSound, Regular, IsRunning
<1>8. CASE c # Looper /\ call'[Looper] = call[Looper]
  <2>1. call'[Looper].pc \in {"find", "want", "stop", "launch"} => call[Looper].pc \in {"find", "want"}
    BY <1>3, <1>8
  <2>2. TypesStored' /\ TypesOfLooper'
    BY <1>1, <1>6, <1>8, <2>1 DEF IInv, TypesStored, TypesOfLooper, LoopedTypes
  <2>3. LoopedRaceEnds'
    BY <1>6, <1>8 DEF IInv, LoopedRaceEnds, LoopedTypes
  <2> QED
    BY <1>7, <2>2, <2>3
<1>9. CASE c = Looper /\ call'[Looper].race = call[Looper].race /\ call'[Looper].pc = "stop"
  BY <1>4, <1>7, <1>9 DEF IInv, TypesStored, TypesOfLooper, LoopedRaceEnds, LoopedTypes
<1>10. CASE c = Looper /\ call'[Looper].pc = "ended" /\ notes'.robbed
  BY <1>7, <1>10 DEF TypesStored, TypesOfLooper, LoopedRaceEnds
<1> QED
  BY <1>8, <1>9, <1>10

LEMMA ApplyConfigPreserves ==
    ASSUME IInv, NEW c \in Callers, ApplyConfig(c)
    PROVE  IInv'
<1>1. /\ UNCHANGED <<order, loop, run, inbox, callback, armed, wait, fired, index>>
      /\ call[c].pc = "want" /\ mutex = NoRace /\ types' = TypesAfter(c)
      /\ timeAttack' = IF Setup[call[c].race].timeAttack THEN timeAttack ELSE NoRace
  BY DEF ApplyConfig, store, server, Free
<1>2. Looper \in Callers /\ (\A d \in Callers : ~HoldsMutex(d)) /\ NoRace \notin Callers /\ NoRace \notin Races
  BY <1>1, CallersAre DEF IInv, Inv1, Held
<1>3. call[c] \in Calls /\ call[c].race \in Races /\ call[c].kind # "restart"
  BY <1>1 DEF IInv, Inv1, Kept, TypeOK, CallsTyped
<1>4. types' \subseteq Kinds \union {"secondRace", "nil"} /\ timeAttack' \in RaceOrNone
  BY <1>1 DEF TypesAfter, NoTypes, IInv, TypeOK, ManagerTyped, RaceOrNone
<1>5. CASE /\ mutex' = c /\ current' = call[c].race /\ Goto(c, "stop")
           /\ notes' = [notes EXCEPT !.robbed = @ \/ Robs(c)] /\ UNCHANGED <<startMutex, budget>>
  <2> DEFINE x == [call[c] EXCEPT !.pc = "stop"]
             b == notes.robbed \/ Robs(c)
  <2>1. x \in Calls /\ x.pc = "stop" /\ x.race = call[c].race /\ x.looping = call[c].looping /\ x.kind = call[c].kind
    BY <1>3, WithPc DEF Points
  <2>2. Moves(c, x)
    BY <1>5, GotoMoves DEF Points, IInv, TypeOK, CallsTyped
  <2>3. notes \in Exceptions /\ notes.robbed \in BOOLEAN
    BY DEF IInv, TypeOK, ManagerTyped, Exceptions
  <2>4. notes' = [notes EXCEPT !.robbed = b] /\ b \in BOOLEAN
    BY <1>5, <2>3 DEF Robs
  <2>5. notes.robbed \/ Robs(c) => b
    OBVIOUS
  <2> HIDE DEF b, x
  <2>6. /\ notes' \in Exceptions /\ notes'.robbed = b /\ notes'.overtaken = notes.overtaken
        /\ notes'.overlap = notes.overlap /\ notes'.announced = notes.announced /\ notes'.misled = notes.misled /\ notes'.failed = notes.failed
    BY <2>3, <2>4, NoteRobbed
  <2>7. /\ call' \in [Callers -> Calls] /\ call'[c] = x /\ \A d \in Callers \ {c} : call'[d] = call[d]
    BY <2>2 DEF Moves
  <2>8. HoldsMutex(c)' /\ \A d \in Callers \ {c} : ~HoldsMutex(d)'
    BY <1>2, <1>3, <2>1, <2>7 DEF HoldsMutex
  <2>9. CallsTyped' /\ Held'
    BY <1>1, <1>2, <1>5, <2>1, <2>7, <2>8 DEF IInv, Inv1, TypeOK, CallsTyped, Held
  <2>10. Kept' /\ LooperKept'
    <3>1. call[c].looping => c = Looper
      BY <1>3 DEF IInv, Inv1, Kept
    <3>2. Kept'
      BY <1>3, <2>1, <2>7, <3>1 DEF IInv, Inv1, Kept
    <3>3. LooperKept'
      BY <1>1, <1>2, <2>1, <2>7 DEF IInv, Inv1, LooperKept
    <3> QED
      BY <3>2, <3>3
  <2>11. ManagerTyped'
    BY <1>1, <1>3, <1>4, <1>5, <2>6 DEF IInv, TypeOK, ManagerTyped, RaceOrNone
  <2>12. CurrentSound'
    <3>1. \A d \in Callers : HoldsMutex(d)' => current' = call'[d].race
      BY <1>5, <2>1, <2>7, <2>8
    <3>2. \E d \in Callers : HoldsMutex(d)' /\ call'[d].pc = "stop"
      BY <2>1, <2>7, <2>8
    <3> QED
      BY <3>1, <3>2 DEF CurrentSound
  <2>13. \A d \in Callers : Starts(d)' <=> Starts(d)
    BY <1>1, <2>1, <2>7 DEF Starts
  <2>14. OneStarts'
    BY <2>6, <2>13 DEF IInv, OneStarts
  <2>15. TimeAttackSound'
    <3> SUFFICES ASSUME ~notes'.overlap, ~notes'.announced
                 PROVE  (\A d \in Callers : call'[d].pc # "want") /\ timeAttack' = TimeAttackOf(current)'
      BY DEF TimeAttackSound
    <3>1. Starts(c) /\ ~notes.overlap /\ ~notes.announced
      BY <1>1, <2>6 DEF Starts
    <3>2. \A d \in Callers \ {c} : ~Starts(d)
      BY <3>1 DEF IInv, OneStarts
    <3>3. \A d \in Callers : call'[d].pc # "want"
      BY <2>1, <2>7, <3>2 DEF Starts
    <3>4. Setup[call[c].race].timeAttack => timeAttack = call[c].race
      BY <1>1, <3>1 DEF IInv, TimeAttackSound
    <3>5. timeAttack' = TimeAttackOf(current)'
      BY <1>1, <1>2, <1>3, <1>5, <3>4 DEF TimeAttackOf
    <3> QED
      BY <3>3, <3>5
  <2>16. TypesStored' /\ TypesOfLooper' /\ LoopedRaceEnds' /\ TypesOfRun' /\ WaitSound'
    <3>1. \/ c # Looper /\ call'[Looper] = call[Looper]
          \/ c = Looper /\ call'[Looper].race = call[Looper].race /\ call'[Looper].pc = "stop"
      BY <1>2, <2>1, <2>7
    <3>2. notes.robbed \/ Robs(c) => notes'.robbed
      BY <2>5, <2>6
    <3>3. notes.overtaken => notes'.overtaken
      BY <2>6
    <3> QED
      BY <1>1, <3>1, <3>2, <3>3, ApplyTypes
  <2>17. OvertakenSound'
    <3>1. call'[Looper].pc \in {"list", "find", "want", "stop"} => call[Looper].pc \in {"list", "find", "want", "stop"}
      BY <1>1, <1>2, <2>7
    <3> QED
      BY <1>1, <2>6, <3>1 DEF IInv, OvertakenSound, IsRunning
  <2>18. TimersSound'
    <3>1. \A d \in Callers : call[d].pc = "finish" => call'[d].pc = "finish"
      BY <1>1, <2>7
    <3> QED
      BY <1>1, <2>6, <3>1 DEF IInv, TimersSound
  <2> QED
    BY <1>1, <1>5, <2>9, <2>10, <2>11, <2>12, <2>14, <2>15, <2>16, <2>17, <2>18, Framed
    DEF IInv, Inv1, TypeOK, store
<1>6. CASE Fault /\ Fails(c, "want") /\ UNCHANGED current
  <2>1. /\ CallsTyped' /\ Held' /\ Kept' /\ LooperKept' /\ OneStarts' /\ TimeAttackSound'
        /\ OvertakenSound' /\ TimersSound' /\ CurrentSound' /\ RunSound'
    BY <1>1, <1>6, FailsSound
  <2>2. /\ call'[c].pc = IF c = Looper THEN "ended" ELSE "idle"
        /\ \A d \in Callers \ {c} : call'[d] = call[d]
        /\ notes' \in Exceptions /\ (notes.overtaken => notes'.overtaken)
        /\ notes.robbed \/ c = Looper \/ Robs(c) => notes'.robbed
    BY <1>6, FailsMoves
  <2>3. ManagerTyped'
    BY <1>1, <1>4, <1>6, <2>2, BudgetTyped DEF IInv, TypeOK, ManagerTyped
  <2>4. TypesStored' /\ TypesOfLooper' /\ LoopedRaceEnds' /\ TypesOfRun' /\ WaitSound'
    <3>1. \/ c # Looper /\ call'[Looper] = call[Looper]
          \/ c = Looper /\ call'[Looper].pc = "ended" /\ notes'.robbed
      BY <1>2, <2>2
    <3> QED
      BY <1>1, <2>2, <3>1, ApplyTypes
  <2> QED
    BY <1>1, <2>1, <2>3, <2>4, Framed DEF IInv, Inv1, TypeOK, store
<1> QED
  BY <1>5, <1>6 DEF ApplyConfig

LEMMA StopOldPreserves ==
    ASSUME IInv, NEW c \in Callers, StopOld(c)
    PROVE  IInv'
<1>1. /\ UNCHANGED <<order, loop, current, types, wait, timeAttack, armed, fired, index>>
      /\ call[c].pc = "stop" /\ startMutex = NoRace
  BY DEF StopOld, store, looped
<1>2. Looper \in Callers /\ NoRace \notin Callers /\ \A d \in Callers : call[d].pc # "launch"
  BY <1>1, CallersAre DEF IInv, Inv1, Held
<1>3. CASE /\ startMutex' = c /\ Goto(c, "launch")
           /\ IF IsRunning THEN EndsRun ELSE UNCHANGED <<run, inbox, callback>>
           /\ UNCHANGED <<mutex, budget, notes>>
  <2> DEFINE x == [call[c] EXCEPT !.pc = "launch"]
  <2>1. x \in Calls /\ x.pc = "launch" /\ x.race = call[c].race /\ x.looping = call[c].looping /\ x.kind = call[c].kind
    BY WithPc DEF Points, IInv, TypeOK, CallsTyped
  <2>2. Moves(c, x)
    BY <1>3, GotoMoves DEF Points, IInv, TypeOK, CallsTyped
  <2> HIDE DEF x
  <2>3. /\ call' \in [Callers -> Calls] /\ call'[c] = x /\ \A d \in Callers \ {c} : call'[d] = call[d]
    BY <2>2 DEF Moves
  <2>4. run' = NoRun /\ inbox' \in {"none", "late"} /\ callback' \in {"idle", "late"}
    <3>1. CASE IsRunning
      BY <1>3, <3>1, EndsRunSound
    <3>2. CASE ~IsRunning
      BY <1>3, <3>2 DEF IsRunning, IInv, Inv1, RunSound, TypeOK, RunTyped
    <3> QED
      BY <3>1, <3>2
  <2>5. \A d \in Callers : HoldsMutex(d)' <=> HoldsMutex(d)
    BY <1>1, <2>1, <2>3 DEF HoldsMutex
  <2>6. CallsTyped' /\ Held'
    BY <1>2, <1>3, <2>1, <2>3, <2>5 DEF IInv, Inv1, TypeOK, CallsTyped, Held
  <2>7. Kept'
    <3>1. /\ call[c].kind = "restart" => c # Looper
          /\ call[c].looping /\ call[c].kind # "restart" => c = Looper
          /\ call[c].race \in Races
      BY <1>1 DEF IInv, Inv1, Kept
    <3> QED
      BY <2>1, <2>3, <3>1 DEF IInv, Inv1, Kept
  <2>8. LooperKept'
    BY <1>1, <1>2, <2>1, <2>3 DEF IInv, Inv1, LooperKept
  <2>9. \A d \in Callers : /\ Starts(d)' <=> Starts(d)
                           /\ call'[d].pc = "want" <=> call[d].pc = "want"
                           /\ call'[d].pc = "finish" <=> call[d].pc = "finish"
                           /\ call'[d].race = call[d].race
    BY <1>1, <2>1, <2>3 DEF Starts
  <2>10. OneStarts'
    BY <1>3, <2>9 DEF IInv, OneStarts
  <2>11. TimeAttackSound'
    BY <1>1, <1>3, <2>9 DEF IInv, TimeAttackSound, TimeAttackOf
  <2>12. TypesStored' /\ TypesOfLooper'
    <3>1. call'[Looper].pc \in {"find", "want", "stop", "launch"} => call[Looper].pc \in {"find", "want", "stop", "launch"}
      BY <1>1, <1>2, <2>3
    <3> QED
      BY <1>1, <1>2, <1>3, <2>9, <3>1 DEF IInv, TypesStored, TypesOfLooper, LoopedTypes
  <2>13. TimersSound'
    BY <1>1, <1>3, <2>9 DEF IInv, TimersSound
  <2>14. \A d \in Callers : HoldsMutex(d)' => current' = call'[d].race
    BY <1>1, <2>5, <2>9 DEF IInv, CurrentSound
  <2>15. /\ RunTyped' /\ RunSound' /\ PlaceSound' /\ RacesCounted' /\ LoopedRaceEnds' /\ TypesOfRun'
         /\ OvertakenSound' /\ WaitSound' /\ CurrentSound'
    BY <2>4, <2>14, EndsSound
  <2> QED
    BY <1>1, <1>3, <2>6, <2>7, <2>8, <2>10, <2>11, <2>12, <2>13, <2>15, Framed DEF IInv, Inv1, TypeOK, store
<1>4. CASE IsRunning /\ Fault /\ Fails(c, "stop") /\ UNCHANGED <<run, inbox, callback>>
  <2>1. /\ CallsTyped' /\ Held' /\ Kept' /\ LooperKept' /\ OneStarts' /\ TimeAttackSound' /\ TypesStored'
        /\ TypesOfLooper' /\ LoopedRaceEnds' /\ TypesOfRun' /\ OvertakenSound' /\ TimersSound' /\ WaitSound'
        /\ CurrentSound' /\ RunSound'
    BY <1>1, <1>4, FailsSound
  <2>2. ManagerTyped'
    <3>1. notes' \in Exceptions
      BY <1>4, FailsMoves
    <3> QED
      BY <1>1, <1>4, <3>1, BudgetTyped DEF IInv, TypeOK, ManagerTyped
  <2> QED
    BY <1>1, <1>4, <2>1, <2>2, Framed DEF IInv, Inv1, TypeOK, store
<1> QED
  BY <1>3, <1>4 DEF StopOld

LEMMA FinishPreserves ==
    ASSUME IInv, NEW c \in Callers, Finish(c)
    PROVE  IInv'
<1>1. /\ UNCHANGED <<order, loop, startMutex, run, current, types, wait, timeAttack, fired, inbox, callback, budget>>
      /\ call[c].pc = "finish" /\ mutex' = NoRace /\ armed' = ForceStopTimer(call[c].race)
      /\ index' = NextIndex(c) /\ notes' = [notes EXCEPT !.failed = FALSE]
  BY DEF Finish, store, looped
<1>2. Looper \in Callers /\ NoRace \notin Callers
  BY CallersAre
<1>3. call[c] \in Calls /\ call[c].kind # "restart" /\ HoldsMutex(c) /\ mutex = c /\ call[c].race \in Races
  BY <1>1 DEF IInv, Inv1, Kept, Held, HoldsMutex, TypeOK, CallsTyped
<1>4. \A d \in Callers \ {c} : ~HoldsMutex(d)
  BY <1>3 DEF IInv, Inv1, Held
<1> DEFINE x == IF call[c].kind = "scheduled" THEN [call[c] EXCEPT !.pc = "save"] ELSE Idle
<1>5. \/ /\ x \in Calls /\ x.pc = "save" /\ x.race = call[c].race /\ ~x.looping /\ x.kind = "scheduled"
         /\ c # Looper
      \/ x = Idle
  <2>1. CASE call[c].kind = "scheduled"
    <3>1. c # Looper
      BY <2>1 DEF IInv, Inv1, LooperKept
    <3>2. ~call[c].looping
      BY <2>1, <3>1 DEF IInv, Inv1, Kept, TypeOK, CallsTyped, Calls
    <3>3. "save" \in Points
      BY DEF Points
    <3>4. x = [call[c] EXCEPT !.pc = "save"]
      BY <2>1
    <3> HIDE DEF x
    <3>5. /\ x \in Calls /\ x.pc = "save" /\ x.race = call[c].race /\ x.looping = call[c].looping
          /\ x.kind = call[c].kind
      BY <1>3, <3>3, <3>4, WithPc
    <3> QED
      BY <2>1, <3>1, <3>2, <3>5
  <2>2. CASE call[c].kind # "scheduled"
    BY <2>2, IdleTyped
  <2> QED
    BY <2>1, <2>2
<1>6. x \in Calls /\ ~x.looping /\ x.kind # "restart" /\ x.pc \in {"save", "idle"} /\ (x.pc = "save" => c # Looper /\ x.race \in Races)
  <2>1. call[Looper].kind = "start"
    BY DEF IInv, Inv1, LooperKept
  <2> QED
    BY <1>3, <1>5, <2>1, IdleTyped
<1>7. call' = [call EXCEPT ![c] = x]
  BY DEF Finish
<1> HIDE DEF x
<1>8. Moves(c, x)
  BY <1>6, <1>7, CallMoves DEF IInv, TypeOK, CallsTyped
<1>9. /\ call' \in [Callers -> Calls] /\ call'[c] = x /\ \A d \in Callers \ {c} : call'[d] = call[d]
  BY <1>8 DEF Moves
<1>10. \A d \in Callers : ~HoldsMutex(d)' /\ (call'[d].pc = "launch" <=> call[d].pc = "launch")
  BY <1>1, <1>4, <1>6, <1>9 DEF HoldsMutex
<1>11. CallsTyped' /\ Held'
  BY <1>1, <1>2, <1>9, <1>10 DEF IInv, Inv1, TypeOK, CallsTyped, Held
<1>12. x.kind = "start" \/ c # Looper
  BY <1>5, <1>6, IdleTyped
<1>13. Kept'
  BY <1>6, <1>9 DEF IInv, Inv1, Kept
<1>14. LooperKept'
  BY <1>2, <1>6, <1>9, <1>12 DEF IInv, Inv1, LooperKept
<1>15. /\ notes' \in Exceptions /\ notes'.failed = FALSE /\ notes'.overtaken = notes.overtaken
       /\ notes'.overlap = notes.overlap /\ notes'.announced = notes.announced /\ notes'.misled = notes.misled /\ notes'.robbed = notes.robbed
  BY <1>1, NoteFailed DEF IInv, TypeOK, ManagerTyped
<1>16. ManagerTyped'
  BY <1>1, <1>15 DEF IInv, TypeOK, ManagerTyped, NextIndex
<1>17. \A d \in Callers : (Starts(d)' => Starts(d)) /\ (call'[d].pc = "want" <=> call[d].pc = "want")
                          /\ (call'[d].pc = "want" => call'[d] = call[d])
  BY <1>1, <1>6, <1>9 DEF Starts
<1>18. OneStarts'
  BY <1>15, <1>17 DEF IInv, OneStarts
<1>19. TimeAttackSound'
  BY <1>1, <1>15, <1>17 DEF IInv, TimeAttackSound, TimeAttackOf
<1>20. call'[Looper].pc \in {"find", "want", "stop", "launch"} => c # Looper /\ call'[Looper] = call[Looper]
  BY <1>2, <1>6, <1>9
<1>21. TypesStored' /\ TypesOfLooper'
  BY <1>1, <1>15, <1>20 DEF IInv, TypesStored, TypesOfLooper, LoopedTypes
<1>22. LoopedRaceEnds'
  <2>1. call'[Looper].pc \notin {"find", "want", "stop"} => call[Looper].pc \notin {"find", "want", "stop"}
    BY <1>1, <1>2, <1>9
  <2> QED
    BY <1>1, <1>15, <2>1 DEF IInv, LoopedRaceEnds, LoopedTypes
<1>23. OvertakenSound'
  <2>1. call'[Looper].pc \in {"list", "find", "want", "stop"} => call[Looper].pc \in {"list", "find", "want", "stop"}
    BY <1>2, <1>6, <1>9
  <2> QED
    BY <1>1, <1>15, <2>1 DEF IInv, OvertakenSound, IsRunning
<1>24. armed' \in {"own", "no"}
  BY <1>1 DEF ForceStopTimer
<1>25. TimersTyped' /\ TimersSound'
  BY <1>1, <1>24 DEF IInv, TypeOK, TimersTyped, TimersSound
<1>26. CurrentSound'
  <2>1. \A d \in Callers : ~(HoldsMutex(d) /\ call[d].pc = "stop")
    BY <1>1, <1>4
  <2> QED
    BY <1>1, <1>10, <1>15, <2>1 DEF IInv, CurrentSound, IsRunning
<1> QED
  BY <1>1, <1>11, <1>13, <1>14, <1>15, <1>16, <1>18, <1>19, <1>21, <1>22, <1>23, <1>25, <1>26, Framed
  DEF IInv, Inv1, TypeOK, store

\* The new run, whether or not its launch is taken for an error.
LEMMA LaunchesSound ==
    ASSUME IInv, NEW c \in Callers, call[c].pc = "launch", Launches(c), startMutex' = NoRace,
           UNCHANGED <<inbox, callback, current, wait, types>>
    PROVE  /\ RunTyped' /\ RunSound' /\ PlaceSound' /\ RacesCounted' /\ WaitSound' /\ TimersTyped'
           /\ IsRunning' /\ run'.race = call[c].race /\ run'.looping = call[c].looping /\ "astray" \notin fired'
           /\ armed' = "stale" => call[c].kind # "restart"
<1> DEFINE r == call[c].race
           l == call[c].looping
<1>1. r \in Races /\ l \in BOOLEAN /\ NoRace \notin Races /\ wait \in BOOLEAN
  BY CallersAre DEF IInv, Inv1, Kept, TypeOK, CallsTyped, Calls, ManagerTyped
<1>2. ~IsRunning /\ inbox \in {"none", "late"} /\ callback \in {"idle", "late"}
  <2>1. startMutex = c /\ c # NoRace
    BY CallersAre DEF IInv, Inv1, Held
  <2> QED
    BY <2>1 DEF IInv, Inv1, RunSound, TypeOK, RunTyped
<1>3. run' = [race |-> r, looping |-> l, at |-> 1, races |-> 0, leftover |-> wait, lost |-> FALSE]
  BY DEF Launches
<1> HIDE DEF r, l
<1>4. /\ run' \in Runs /\ run'.race = r /\ run'.looping = l /\ run'.at = 1 /\ run'.races = 0
      /\ run'.leftover = wait /\ run'.lost = FALSE
  BY <1>1, <1>3 DEF Runs, RaceOrNone
<1>5. IsRunning'
  BY <1>1, <1>4 DEF IsRunning, NoRun
<1>6. RunTyped'
  BY <1>2, <1>4 DEF RunTyped
<1>7. RunSound'
  BY <1>1, <1>2, <1>4 DEF RunSound, Kinds
<1>8. PlaceSound'
  <2>1. Sessions(r) \in Seq(Kinds)
    BY <1>1, SessionsTyped
  <2>2. 1 \in DOMAIN Sessions(r) \/ Len(Sessions(r)) = 0
    BY <2>1
  <2>3. Sessions(run.race)' = Sessions(r)
    BY <1>4 DEF Sessions, Configured
  <2> QED
    BY <1>4, <2>2, <2>3 DEF PlaceSound
<1>9. RacesCounted'
  BY <1>2, <1>4 DEF RacesCounted
<1>10. WaitSound'
  BY <1>2, <1>4 DEF WaitSound, Regular
<1>11. armed \in {"no", "own", "stale", "kept"} /\ fired \subseteq {"own", "late", "astray"} /\ "astray" \notin fired
  BY DEF IInv, TypeOK, TimersTyped, TimersSound
<1>12. TimersTyped' /\ "astray" \notin fired'
  BY <1>11 DEF Launches, TimersTyped
<1>13. armed' = "stale" => call[c].kind # "restart"
  BY <1>11 DEF Launches
<1> QED
  BY <1>4, <1>5, <1>6, <1>7, <1>8, <1>9, <1>10, <1>12, <1>13 DEF r, l

LEMMA LaunchPreserves ==
    ASSUME IInv, NEW c \in Callers, Launch(c)
    PROVE  IInv'
<1>1. /\ UNCHANGED <<order, loop, current, types, wait, timeAttack, index, inbox, callback>>
      /\ call[c].pc = "launch"
  BY DEF Launch, store, looped
<1>2. Looper \in Callers /\ NoRace \notin Callers /\ startMutex = c /\ \A d \in Callers \ {c} : call[d].pc # "launch"
  BY <1>1, CallersAre DEF IInv, Inv1, Held
<1>3. /\ call[c] \in Calls /\ call[c].race \in Races
      /\ call[c].kind = "restart" => c # Looper
      /\ call[c].looping /\ call[c].kind # "restart" => c = Looper
      /\ c = Looper => call[c].looping
  BY <1>1 DEF IInv, Inv1, Kept, LooperKept, TypeOK, CallsTyped
<1>4. call[c].kind # "restart" => HoldsMutex(c) /\ current = call[c].race
  BY <1>1 DEF IInv, CurrentSound, HoldsMutex
<1>5. CASE /\ Launches(c) /\ startMutex' = NoRace
           /\ call' = [call EXCEPT ![c] = IF @.kind = "restart" THEN Idle ELSE [@ EXCEPT !.pc = "finish"]]
           /\ notes' = [notes EXCEPT
                         !.overtaken = @ \/ c # Looper,
                         !.robbed = @ \/ (/\ call[c].kind = "restart"
                                            /\ types # LoopedTypes(call[c].race)),
                         !.misled = call[c].kind = "restart" /\ current # call[c].race]
           /\ UNCHANGED <<mutex, budget>>
  <2> DEFINE x == IF call[c].kind = "restart" THEN Idle ELSE [call[c] EXCEPT !.pc = "finish"]
  <2>1. \/ /\ call[c].kind = "restart" /\ x = Idle
        \/ /\ call[c].kind # "restart" /\ x \in Calls /\ x.pc = "finish" /\ x.race = call[c].race
           /\ x.looping = call[c].looping /\ x.kind = call[c].kind
    <3>1. CASE call[c].kind = "restart"
      BY <3>1
    <3>2. CASE call[c].kind # "restart"
      <4>1. x = [call[c] EXCEPT !.pc = "finish"] /\ "finish" \in Points
        BY <3>2 DEF Points
      <4> HIDE DEF x
      <4>2. /\ x \in Calls /\ x.pc = "finish" /\ x.race = call[c].race
            /\ x.looping = call[c].looping /\ x.kind = call[c].kind
        BY <1>3, <4>1, WithPc
      <4> QED
        BY <3>2, <4>2
    <3> QED
      BY <3>1, <3>2
  <2>2. call' = [call EXCEPT ![c] = x]
    BY <1>5
  <2> HIDE DEF x
  <2>3. x \in Calls /\ x.pc \in {"idle", "finish"} /\ x.kind # "restart"
    BY <2>1, IdleTyped
  <2>4. Moves(c, x)
    BY <2>2, <2>3, CallMoves DEF IInv, TypeOK, CallsTyped
  <2>5. call' \in [Callers -> Calls] /\ call'[c] = x /\ \A d \in Callers \ {c} : call'[d] = call[d]
    BY <2>4 DEF Moves
  <2>6. HoldsMutex(c)' <=> HoldsMutex(c)
    BY <1>1, <2>1, <2>5, IdleTyped DEF HoldsMutex
  <2>7. \A d \in Callers : (HoldsMutex(d)' <=> HoldsMutex(d)) /\ call'[d].pc # "launch"
    BY <1>2, <2>3, <2>5, <2>6 DEF HoldsMutex
  <2>8. CallsTyped' /\ Held'
    BY <1>2, <1>5, <2>5, <2>7 DEF IInv, Inv1, TypeOK, CallsTyped, Held
  <2>9. Kept'
    BY <1>3, <2>1, <2>3, <2>5, IdleTyped DEF IInv, Inv1, Kept
  <2>10. LooperKept'
    BY <1>2, <1>3, <2>1, <2>5, IdleTyped DEF IInv, Inv1, LooperKept
  <2> DEFINE ov == notes.overtaken \/ c # Looper
             ro == notes.robbed \/ (call[c].kind = "restart" /\ types # LoopedTypes(call[c].race))
             mi == call[c].kind = "restart" /\ current # call[c].race
  <2>11. notes \in Exceptions /\ notes.overtaken \in BOOLEAN /\ notes.robbed \in BOOLEAN
    BY DEF IInv, TypeOK, ManagerTyped, Exceptions
  <2>12. ov \in BOOLEAN /\ ro \in BOOLEAN /\ mi \in BOOLEAN
    BY <2>11
  <2>13. notes' = [notes EXCEPT !.overtaken = ov, !.robbed = ro, !.misled = mi]
    BY <1>5, <2>11 DEF Exceptions
  <2>14. /\ notes.overtaken \/ c # Looper => ov
         /\ notes.robbed => ro
         /\ call[c].kind = "restart" /\ types # LoopedTypes(call[c].race) => ro
         /\ call[c].kind = "restart" /\ current # call[c].race => mi
    OBVIOUS
  <2> HIDE DEF ov, ro, mi
  <2>15. /\ notes' \in Exceptions /\ notes'.overtaken = ov /\ notes'.robbed = ro /\ notes'.misled = mi
         /\ notes'.overlap = notes.overlap /\ notes'.announced = notes.announced /\ notes'.failed = notes.failed
    BY <2>11, <2>12, <2>13 DEF Exceptions
  <2>16. ManagerTyped'
    BY <1>1, <1>5, <2>15 DEF IInv, TypeOK, ManagerTyped
  <2>17. /\ RunTyped' /\ RunSound' /\ PlaceSound' /\ RacesCounted' /\ WaitSound' /\ TimersTyped'
         /\ IsRunning' /\ run'.race = call[c].race /\ run'.looping = call[c].looping /\ "astray" \notin fired'
         /\ armed' = "stale" => call[c].kind # "restart"
    BY <1>1, <1>5, LaunchesSound
  <2>18. TimersSound'
    BY <2>1, <2>5, <2>17 DEF TimersSound
  <2>19. CurrentSound'
    <3>1. \A d \in Callers : HoldsMutex(d)' => current' = call'[d].race
      BY <1>1, <2>1, <2>5, <2>6, <2>7, IdleTyped DEF IInv, CurrentSound, HoldsMutex
    <3>2. current' = run'.race \/ notes'.misled
      BY <1>1, <1>4, <2>14, <2>15, <2>17
    <3> QED
      BY <3>1, <3>2 DEF CurrentSound
  <2>20. \A d \in Callers : /\ Starts(d)' => Starts(d)
                            /\ call'[d].pc = "want" <=> call[d].pc = "want"
                            /\ call'[d].pc = "want" => call'[d] = call[d]
    BY <1>1, <2>3, <2>5 DEF Starts
  <2>21. OneStarts'
    BY <2>15, <2>20 DEF IInv, OneStarts
  <2>22. TimeAttackSound'
    BY <1>1, <2>15, <2>20 DEF IInv, TimeAttackSound, TimeAttackOf
  <2>23. call'[Looper].pc \in {"list", "find", "want", "stop", "launch"} => c # Looper /\ call'[Looper] = call[Looper]
    BY <1>2, <2>3, <2>5
  <2>24. TypesStored' /\ TypesOfLooper'
    BY <1>1, <2>14, <2>15, <2>23 DEF IInv, TypesStored, TypesOfLooper, LoopedTypes
  <2>25. OvertakenSound'
    BY <1>3, <2>14, <2>15, <2>17, <2>23 DEF OvertakenSound
  <2>26. c = Looper => types = NoTypes \/ types = LoopedTypes(call[c].race)
    BY <1>1 DEF IInv, TypesOfLooper
  <2>27. c = Looper => types = LoopedTypes(call[c].race) \/ notes.robbed
    BY <1>1 DEF IInv, TypesStored
  <2>28. types' = types /\ LoopedTypes(run.race)' = LoopedTypes(call[c].race)
    BY <1>1, <2>17 DEF LoopedTypes
  <2>29. TypesOfRun'
    BY <2>14, <2>15, <2>26, <2>28 DEF TypesOfRun, NoTypes
  <2>30. LoopedRaceEnds'
    <3>1. run'.looping => c = Looper \/ call[c].kind = "restart"
      BY <1>3, <2>17
    <3>2. c = Looper => types = LoopedTypes(call[c].race) \/ notes'.robbed
      BY <2>14, <2>15, <2>27
    <3>3. call[c].kind = "restart" => types = LoopedTypes(call[c].race) \/ notes'.robbed
      BY <2>14, <2>15
    <3> QED
      BY <2>28, <3>1, <3>2, <3>3 DEF LoopedRaceEnds
  <2> QED
    BY <1>1, <2>8, <2>9, <2>10, <2>16, <2>17, <2>18, <2>19, <2>21, <2>22, <2>24, <2>25, <2>29, <2>30, Framed
    DEF IInv, Inv1, TypeOK, store
<1>6. CASE Fault /\ Fails(c, "launch") /\ UNCHANGED <<run, armed, fired>>
  <2>1. /\ CallsTyped' /\ Held' /\ Kept' /\ LooperKept' /\ OneStarts' /\ TimeAttackSound' /\ TypesStored'
        /\ TypesOfLooper' /\ LoopedRaceEnds' /\ TypesOfRun' /\ OvertakenSound' /\ TimersSound' /\ WaitSound'
        /\ CurrentSound' /\ RunSound'
    BY <1>1, <1>6, FailsSound
  <2>2. ManagerTyped'
    <3>1. notes' \in Exceptions
      BY <1>6, FailsMoves
    <3> QED
      BY <1>1, <1>6, <3>1, BudgetTyped DEF IInv, TypeOK, ManagerTyped
  <2> QED
    BY <1>1, <1>6, <2>1, <2>2, Framed DEF IInv, Inv1, TypeOK, store
<1>7. CASE Fault /\ Launches(c) /\ Fails(c, "launched")
  <2>1. /\ CallsTyped' /\ Held' /\ Kept' /\ LooperKept' /\ OneStarts' /\ TimeAttackSound' /\ TypesStored'
        /\ TypesOfLooper'
    BY <1>1, <1>7, FailsSound
  <2>2. /\ call'[c].pc = IF c = Looper THEN "ended" ELSE "idle"
        /\ \A d \in Callers \ {c} : call'[d] = call[d]
        /\ notes' \in Exceptions /\ notes'.failed /\ notes'.overtaken
        /\ current # call[c].race => notes'.misled
        /\ c = Looper \/ call[c].kind = "restart" => notes'.robbed
    BY <1>7, FailsMoves
  <2>3. ManagerTyped'
    BY <1>1, <1>7, <2>2, BudgetTyped DEF IInv, TypeOK, ManagerTyped
  <2>4. startMutex' = NoRace
    BY <1>2, <1>7 DEF Fails
  <2>5. /\ RunTyped' /\ RunSound' /\ PlaceSound' /\ RacesCounted' /\ WaitSound' /\ TimersTyped'
        /\ IsRunning' /\ run'.race = call[c].race /\ run'.looping = call[c].looping /\ "astray" \notin fired'
    BY <1>1, <1>7, <2>4, LaunchesSound
  <2>6. TimersSound' /\ OvertakenSound' /\ TypesOfRun'
    BY <2>2, <2>5 DEF TimersSound, OvertakenSound, TypesOfRun
  <2>7. LoopedRaceEnds'
    <3>1. run'.looping => notes'.robbed
      BY <1>3, <2>2, <2>5
    <3> QED
      BY <3>1 DEF LoopedRaceEnds
  <2>8. CurrentSound'
    <3>1. \A d \in Callers : HoldsMutex(d)' => d # c /\ HoldsMutex(d) /\ call'[d] = call[d]
      BY <2>2 DEF HoldsMutex
    <3>2. \A d \in Callers : HoldsMutex(d)' => current' = call'[d].race
      BY <1>1, <3>1 DEF IInv, CurrentSound
    <3>3. current' = run'.race \/ notes'.misled
      BY <1>1, <2>2, <2>5
    <3> QED
      BY <3>2, <3>3 DEF CurrentSound
  <2> QED
    BY <1>1, <2>1, <2>3, <2>5, <2>6, <2>7, <2>8, Framed DEF IInv, Inv1, TypeOK, store
<1> QED
  BY <1>5, <1>6, <1>7 DEF Launch

----------------------------------------------------------------------------
(* Every action preserves the invariant: LoopRaces                          *)

\* LoopRaces moves on outside of a start.
LEMMA LooperMoves ==
    ASSUME IInv, NEW x, Moves(Looper, x), call[Looper].pc \in {"idle", "list"},
           x.pc \in {"idle", "list", "find"}, x.kind = "start",
           UNCHANGED <<mutex, startMutex, run, current, timeAttack, armed, fired, notes.overlap, notes.announced,
                      notes.misled, notes.failed>>
    PROVE  CallsTyped' /\ Held' /\ Kept' /\ LooperKept' /\ OneStarts' /\ TimeAttackSound' /\ TimersSound' /\ CurrentSound'
<1>1. /\ call' \in [Callers -> Calls] /\ call'[Looper] = x /\ \A d \in Callers \ {Looper} : call'[d] = call[d]
  BY DEF Moves
<1>2. \A d \in Callers : /\ HoldsMutex(d)' <=> HoldsMutex(d)
                         /\ Starts(d)' <=> Starts(d)
                         /\ Starts(d) => call'[d] = call[d]
                         /\ call'[d].pc = "launch" <=> call[d].pc = "launch"
  BY <1>1 DEF HoldsMutex, Starts
<1>3. CallsTyped' /\ Held'
  BY <1>1, <1>2 DEF IInv, Inv1, TypeOK, CallsTyped, Held
<1>4. Kept'
  BY <1>1 DEF IInv, Inv1, Kept
<1>5. LooperKept'
  BY <1>1 DEF LooperKept
<1>6. OneStarts'
  BY <1>2 DEF IInv, OneStarts
<1>7. \A d \in Callers : (call[d].pc = "want" \/ call'[d].pc = "want") => call'[d] = call[d]
  BY <1>2 DEF Starts
<1>8. TimeAttackSound'
  BY <1>7 DEF IInv, TimeAttackSound, TimeAttackOf
<1>9. \A d \in Callers : (call[d].pc = "finish" => call'[d].pc = "finish")
                         /\ (HoldsMutex(d) => call'[d] = call[d])
  BY <1>2 DEF Starts, HoldsMutex
<1>10. TimersSound'
  BY <1>9 DEF IInv, TimersSound
<1>11. CurrentSound'
  <2>1. \A d \in Callers : HoldsMutex(d)' => current' = call'[d].race
    BY <1>2, <1>9 DEF IInv, CurrentSound
  <2>2. \A d \in Callers : HoldsMutex(d) /\ call[d].pc = "stop" => HoldsMutex(d)' /\ call'[d].pc = "stop"
    BY <1>2, <1>9
  <2> QED
    BY <2>1, <2>2 DEF IInv, CurrentSound, IsRunning
<1> QED
  BY <1>3, <1>4, <1>5, <1>6, <1>8, <1>10, <1>11

LEMMA TickPreserves ==
    ASSUME IInv, Tick
    PROVE  IInv'
<1>1. /\ UNCHANGED <<order, loop, mutex, startMutex, run, inbox, callback, armed, current, types, wait, timeAttack,
                     fired, index, budget>>
      /\ call[Looper].pc = "idle" /\ ~IsRunning /\ Looper \in Callers
  BY CallersAre DEF Tick, store, server, looped, NothingRuns
<1> DEFINE x == [Idle EXCEPT !.pc = "list"]
<1>2. "list" \in Points
  BY DEF Points
<1>3. call' = [call EXCEPT ![Looper] = x]
  BY DEF Tick
<1>4. x \in Calls /\ x.pc = "list" /\ x.looping = FALSE /\ x.kind = "start"
  BY <1>2, IdleTyped, WithPc
<1> HIDE DEF x
<1>5. Moves(Looper, x)
  BY <1>1, <1>3, <1>4, CallMoves DEF IInv, TypeOK, CallsTyped
<1>6. /\ notes' \in Exceptions /\ notes'.overlap = notes.overlap /\ notes'.announced = notes.announced /\ notes'.misled = notes.misled
      /\ notes'.failed = notes.failed /\ notes'.robbed = notes.robbed
  BY NoteOvertaken DEF Tick, IInv, TypeOK, ManagerTyped
<1>7. CallsTyped' /\ Held' /\ Kept' /\ LooperKept' /\ OneStarts' /\ TimeAttackSound' /\ TimersSound' /\ CurrentSound'
  BY <1>1, <1>4, <1>5, <1>6, LooperMoves
<1>8. ManagerTyped'
  BY <1>1, <1>6 DEF IInv, TypeOK, ManagerTyped
<1>9. ~IsRunning' /\ run'.looping = FALSE
  BY <1>1, NoRunTyped DEF IsRunning
<1>10. LoopedRaceEnds' /\ TypesOfRun' /\ OvertakenSound' /\ WaitSound'
  BY <1>9 DEF LoopedRaceEnds, TypesOfRun, OvertakenSound, WaitSound, Regular
<1>11. TypesStored' /\ TypesOfLooper'
  BY <1>4, <1>5 DEF TypesStored, TypesOfLooper, Moves
<1> QED
  BY <1>1, <1>7, <1>8, <1>10, <1>11, Framed DEF IInv, Inv1, TypeOK, store

LEMMA ListLoopedPreserves ==
    ASSUME IInv, ListLooped
    PROVE  IInv'
<1>1. /\ UNCHANGED <<order, loop, mutex, startMutex, run, inbox, callback, armed, current, wait, timeAttack,
                     fired, budget>>
      /\ call[Looper].pc = "list" /\ Looper \in Callers
  BY CallersAre DEF ListLooped, store, server
<1>2. IsRunning => notes.overtaken
  BY <1>1 DEF IInv, OvertakenSound
<1>3. CASE call' = [call EXCEPT ![Looper] = Idle] /\ UNCHANGED <<types, index, notes>>
  <2>1. Moves(Looper, Idle)
    BY <1>1, <1>3, IdleTyped, CallMoves DEF IInv, TypeOK, CallsTyped
  <2>2. CallsTyped' /\ Held' /\ Kept' /\ LooperKept' /\ OneStarts' /\ TimeAttackSound' /\ TimersSound' /\ CurrentSound'
    BY <1>1, <1>3, <2>1, IdleTyped, LooperMoves
  <2>3. call'[Looper].pc = "idle"
    BY <2>1, IdleTyped DEF Moves
  <2>4. TypesStored' /\ TypesOfLooper'
    BY <2>3 DEF TypesStored, TypesOfLooper
  <2>5. LoopedRaceEnds' /\ OvertakenSound'
    BY <1>1, <1>2, <1>3, <2>3 DEF IInv, LoopedRaceEnds, OvertakenSound, LoopedTypes, IsRunning
  <2> QED
    BY <1>1, <1>3, <2>2, <2>4, <2>5, Framed DEF IInv, Inv1, TypeOK, store
<1>4. CASE /\ index' = IF index > Cardinality(LoopedPlaces) THEN 1 ELSE index
           /\ \E k \in Turn(index') :
                 /\ types' = LoopedTypes(order[k])
                 /\ call' = [call EXCEPT ![Looper].pc = "find", ![Looper].race = order[k]]
           /\ notes' = [notes EXCEPT !.robbed = FALSE]
  <2>1. PICK k \in Turn(index') :
                 /\ types' = LoopedTypes(order[k])
                 /\ call' = [call EXCEPT ![Looper].pc = "find", ![Looper].race = order[k]]
    BY <1>4
  <2>2. order[k] \in Races
    BY <2>1 DEF Turn, LoopedPlaces, IInv, TypeOK, StoreTyped
  <2> DEFINE x == [call[Looper] EXCEPT !.pc = "find", !.race = order[k]]
  <2>3. call[Looper] \in Calls /\ call[Looper].kind = "start" /\ call \in [Callers -> Calls]
    BY <1>1 DEF IInv, Inv1, LooperKept, TypeOK, CallsTyped
  <2>4. x \in Calls /\ x.pc = "find" /\ x.race = order[k] /\ x.kind = "start"
    BY <2>2, <2>3 DEF Calls, RaceOrNone
  <2>5. call' = [call EXCEPT ![Looper] = x]
    BY <1>1, <2>1, <2>3
  <2> HIDE DEF x
  <2>6. Moves(Looper, x)
    BY <1>1, <2>3, <2>4, <2>5, CallMoves
  <2>7. /\ notes' \in Exceptions /\ notes'.overlap = notes.overlap /\ notes'.announced = notes.announced /\ notes'.misled = notes.misled
        /\ notes'.failed = notes.failed /\ notes'.overtaken = notes.overtaken
    BY <1>4, NoteRobbed DEF IInv, TypeOK, ManagerTyped
  <2>8. CallsTyped' /\ Held' /\ Kept' /\ LooperKept' /\ OneStarts' /\ TimeAttackSound' /\ TimersSound' /\ CurrentSound'
    BY <1>1, <2>4, <2>6, <2>7, LooperMoves
  <2>9. call'[Looper] = x
    BY <2>6 DEF Moves
  <2>10. ManagerTyped'
    <3>1. index' \in Nat
      BY <1>4 DEF IInv, TypeOK, ManagerTyped
    <3>2. types' \subseteq Kinds \union {"secondRace", "nil"}
      BY <2>1, <2>2, SetupTyped
    <3> QED
      BY <1>1, <2>7, <3>1, <3>2 DEF IInv, TypeOK, ManagerTyped
  <2>11. types' = LoopedTypes(call[Looper].race)'
    BY <2>1, <2>4, <2>9 DEF LoopedTypes
  <2>12. TypesStored' /\ TypesOfLooper'
    BY <2>11 DEF TypesStored, TypesOfLooper
  <2>13. LoopedRaceEnds'
    BY <2>4, <2>9 DEF LoopedRaceEnds
  <2>14. IsRunning' => notes'.overtaken
    BY <1>1, <1>2, <2>7 DEF IsRunning
  <2>15. OvertakenSound' /\ TypesOfRun' /\ WaitSound'
    BY <2>14 DEF OvertakenSound, TypesOfRun, WaitSound, Regular
  <2> QED
    BY <1>1, <2>8, <2>10, <2>12, <2>13, <2>15, Framed DEF IInv, Inv1, TypeOK, store
<1> QED
  BY <1>3, <1>4 DEF ListLooped

----------------------------------------------------------------------------
(* Every action preserves the invariant: acServer and the timers            *)

\* The run goes on.
LEMMA SameRun ==
    ASSUME IInv, run'.race = run.race, run'.looping = run.looping, IsRunning' <=> IsRunning,
           UNCHANGED <<call, current, notes.overtaken, notes.misled>>
    PROVE  /\ CurrentSound' /\ OvertakenSound' /\ LoopedTypes(run.race)' = LoopedTypes(run.race)
           /\ UNCHANGED types => TypesOfRun'
           /\ UNCHANGED <<types, callback, notes.robbed>> => LoopedRaceEnds'
<1>1. CurrentSound'
  BY DEF IInv, CurrentSound, HoldsMutex
<1>2. OvertakenSound'
  BY DEF IInv, OvertakenSound
<1>3. LoopedTypes(run.race)' = LoopedTypes(run.race)
  BY DEF LoopedTypes
<1>4. UNCHANGED types => TypesOfRun'
  BY <1>3 DEF IInv, TypesOfRun
<1>5. UNCHANGED <<types, callback, notes.robbed>> => LoopedRaceEnds'
  BY <1>3 DEF IInv, LoopedRaceEnds
<1> QED
  BY <1>1, <1>2, <1>3, <1>4, <1>5

LEMMA EndSessionPreserves ==
    ASSUME IInv, EndSession
    PROVE  IInv'
<1> DEFINE all == Sessions(run.race)
<1>1. /\ UNCHANGED <<order, loop, mutex, startMutex, call, current, types, wait, timeAttack, armed, fired,
                     index, budget, notes>>
      /\ IsRunning /\ inbox = "none" /\ Len(all) > 0
  BY DEF EndSession, store, looped
<1>2. CASE /\ run' = [run EXCEPT !.at = IF @ < Len(all) THEN @ + 1 ELSE 1,
                                 !.races = IF all[run.at] = "race" /\ @ < 2 THEN @ + 1 ELSE @]
           /\ inbox' = all[run.at] /\ UNCHANGED callback
  <2>1. run \in Runs /\ run.race \in Races /\ NoRace \notin Races
    BY <1>1, CallersAre DEF IInv, Inv1, TypeOK, RunTyped, RunSound
  <2>2. all \in Seq(Kinds) /\ \A i \in DOMAIN all : all[i] \in Setup[run.race].sessions
    BY <2>1, SessionsTyped
  <2>3. run.at \in DOMAIN all
    BY <1>1 DEF IInv, PlaceSound
  <2>4. all[run.at] \in Kinds /\ all[run.at] \in Setup[run.race].sessions
    BY <2>2, <2>3
  <2> DEFINE s == all[run.at]
             at == IF run.at < Len(all) THEN run.at + 1 ELSE 1
             races == IF s = "race" /\ run.races < 2 THEN run.races + 1 ELSE run.races
  <2>5. at \in DOMAIN all /\ at \in Nat
    BY <1>1, <2>2, <2>3
  <2>6. run.races \in 0..2 /\ races \in 0..2 /\ (s = "race" => races > 0) /\ (s # "race" => races = run.races)
        /\ (s = "race" /\ races < 2 => run.races = 0 /\ races = 1)
    BY <2>1 DEF Runs
  <2>7. run' = [run EXCEPT !.at = at, !.races = races] /\ inbox' = s
    BY <1>2, <2>1 DEF Runs
  <2> HIDE DEF at, races, s
  <2>8. /\ run' \in Runs /\ run'.race = run.race /\ run'.looping = run.looping /\ run'.at = at /\ run'.races = races
        /\ run'.leftover = run.leftover /\ run'.lost = run.lost
    BY <2>1, <2>5, <2>6, <2>7 DEF Runs
  <2>9. IsRunning'
    BY <2>1, <2>8 DEF IsRunning, NoRun
  <2>10. RunTyped'
    BY <1>2, <2>4, <2>8 DEF RunTyped, IInv, TypeOK
  <2>11. at # 0 /\ startMutex = NoRace
    BY <1>1, <2>2, <2>5 DEF IInv, Inv1, RunSound
  <2>12. RunSound'
    BY <1>1, <2>1, <2>8, <2>9, <2>11 DEF RunSound
  <2>13. Sessions(run.race)' = all
    BY <2>8 DEF Sessions, Configured
  <2>14. PlaceSound'
    BY <2>5, <2>8, <2>13 DEF PlaceSound
  <2>15. "race" = s => "race" \in Setup[run.race].sessions
    BY <2>4 DEF s
  <2>16. RacesCounted'
    BY <2>6, <2>7, <2>8, <2>15 DEF IInv, RacesCounted
  <2>17. /\ CurrentSound' /\ OvertakenSound' /\ TypesOfRun' /\ LoopedRaceEnds'
    BY <1>1, <1>2, <2>8, <2>9, SameRun
  <2>18. WaitSound'
    <3> SUFFICES ASSUME Regular'
                 PROVE  callback' # "own" /\ (types' # NoTypes' => (wait' <=> races = 1 /\ s # "race"))
      BY <2>7, <2>8 DEF WaitSound
    <3>1. races < 2
      BY <2>8 DEF Regular
    <3>2. run.races < 2
      BY <2>6, <3>1
    <3>3. Regular
      BY <1>1, <2>8, <3>2 DEF Regular
    <3>4. callback # "own" /\ (types # NoTypes => (wait <=> run.races = 1))
      BY <1>1, <3>3 DEF IInv, WaitSound
    <3> QED
      BY <1>1, <1>2, <2>6, <3>1, <3>4 DEF NoTypes
  <2> QED
    BY <1>1, <1>2, <2>10, <2>12, <2>14, <2>16, <2>17, <2>18, Framed DEF IInv, Inv1, TypeOK, store
<1>3. CASE run' = NoRun /\ inbox' = "late" /\ callback' = IF callback = "idle" THEN callback ELSE "late"
  <2>1. \A c \in Callers : HoldsMutex(c)' => current' = call'[c].race
    BY <1>1 DEF IInv, CurrentSound, HoldsMutex
  <2> QED
    BY <1>1, <1>3, <2>1, EndsSound, Framed DEF IInv, Inv1, TypeOK, store
<1> QED
  BY <1>2, <1>3 DEF EndSession

LEMMA LostPreserves ==
    ASSUME IInv, Lost
    PROVE  IInv'
<1>1. /\ UNCHANGED <<order, loop, mutex, startMutex, call, current, types, wait, timeAttack, armed, fired,
                     index, callback, notes>>
      /\ inbox # "none" /\ inbox' = "none" /\ (IF inbox = "late" THEN UNCHANGED budget ELSE Fault)
      /\ run' = IF inbox = "late" THEN run ELSE [run EXCEPT !.lost = TRUE]
  BY DEF Lost, store, looped
<1>2. run \in Runs /\ NoRace \notin Races /\ inbox \in Kinds \union {"late"}
  BY <1>1, CallersAre DEF IInv, Inv1, TypeOK, RunTyped
<1>3. /\ run' \in Runs /\ run'.race = run.race /\ run'.looping = run.looping /\ run'.at = run.at
      /\ run'.races = run.races /\ run'.leftover = run.leftover
      /\ inbox # "late" => run'.lost
  BY <1>1, <1>2 DEF Runs
<1>4. IsRunning' <=> IsRunning
  <2>1. CASE inbox = "late"
    BY <1>1, <2>1 DEF IsRunning
  <2>2. CASE inbox # "late"
    <3>1. IsRunning /\ run.race \in Races
      BY <1>2, <2>2 DEF IInv, Inv1, RunSound
    <3> QED
      BY <1>2, <1>3, <3>1 DEF IsRunning, NoRun
  <2> QED
    BY <2>1, <2>2
<1>5. RunTyped' /\ RacesCounted'
  BY <1>1, <1>3 DEF IInv, TypeOK, RunTyped, RacesCounted
<1>6. RunSound'
  BY <1>1, <1>3, <1>4 DEF IInv, Inv1, RunSound, Kinds
<1>7. Sessions(run.race)' = Sessions(run.race)
  BY <1>3 DEF Sessions, Configured
<1>8. PlaceSound'
  BY <1>3, <1>4, <1>7 DEF IInv, PlaceSound
<1>9. /\ CurrentSound' /\ OvertakenSound' /\ TypesOfRun' /\ LoopedRaceEnds'
  BY <1>1, <1>3, <1>4, SameRun
<1>10. WaitSound'
  <2>1. CASE inbox = "late"
    BY <1>1, <2>1 DEF IInv, WaitSound, Regular, IsRunning
  <2>2. CASE inbox # "late"
    BY <1>3, <2>2 DEF WaitSound, Regular
  <2> QED
    BY <2>1, <2>2
<1>11. ManagerTyped'
  BY <1>1, BudgetTyped DEF IInv, TypeOK, ManagerTyped
<1> QED
  BY <1>1, <1>5, <1>6, <1>8, <1>9, <1>10, <1>11, Framed DEF IInv, Inv1, TypeOK, store

LEMMA CallbackStopPreserves ==
    ASSUME IInv, CallbackStop
    PROVE  IInv'
<1>1. /\ UNCHANGED <<order, loop, mutex, startMutex, call, current, types, wait, timeAttack, armed, fired,
                     index, budget, notes>>
      /\ callback' = "idle"
  BY DEF CallbackStop, store, looped
<1>2. run' = NoRun /\ inbox' \in {"none", "late"}
  BY DEF CallbackStop, IsRunning, IInv, Inv1, RunSound, TypeOK, RunTyped
<1>3. \A c \in Callers : HoldsMutex(c)' => current' = call'[c].race
  BY <1>1 DEF IInv, CurrentSound, HoldsMutex
<1> QED
  BY <1>1, <1>2, <1>3, EndsSound, Framed DEF IInv, Inv1, TypeOK, store

LEMMA FireTimerPreserves ==
    ASSUME IInv, FireTimer
    PROVE  IInv'
<1>1. /\ UNCHANGED <<order, loop, mutex, startMutex, call, run, current, types, wait, timeAttack, index, inbox,
                     callback, budget, notes>>
      /\ armed # "no" /\ armed' = "no"
      /\ fired' = {IF armed = "own" THEN "own"
                   ELSE IF armed = "kept" \/ mutex # NoRace \/ notes.failed THEN "late"
                   ELSE "astray"}
  BY DEF FireTimer, store, looped
<1>2. armed = "stale" => mutex # NoRace \/ notes.failed
  <2> SUFFICES ASSUME armed = "stale", ~notes.failed PROVE mutex # NoRace
    OBVIOUS
  <2>1. PICK c \in Callers : call[c].pc = "finish"
    BY DEF IInv, TimersSound
  <2>2. HoldsMutex(c)
    BY <2>1 DEF IInv, Inv1, Kept, HoldsMutex
  <2> QED
    BY <2>2, CallersAre DEF IInv, Inv1, Held
<1>3. armed \in {"no", "own", "stale", "kept"}
  BY DEF IInv, TypeOK, TimersTyped
<1>4. TimersTyped' /\ TimersSound'
  BY <1>1, <1>2, <1>3 DEF TimersTyped, TimersSound
<1> QED
  BY <1>1, <1>4, Framed DEF IInv, Inv1, TypeOK, store

LEMMA ForceStopPreserves ==
    ASSUME IInv, NEW f \in fired, ForceStop(f)
    PROVE  IInv'
<1>1. /\ UNCHANGED <<order, loop, mutex, startMutex, call, current, types, wait, timeAttack, armed, index,
                     budget, notes>>
      /\ fired' = fired \ {f}
  BY DEF ForceStop, store, looped
<1>2. TimersTyped' /\ TimersSound'
  BY <1>1 DEF IInv, TypeOK, TimersTyped, TimersSound
<1>3. CASE EndsRun
  <2>1. \A c \in Callers : HoldsMutex(c)' => current' = call'[c].race
    BY <1>1 DEF IInv, CurrentSound, HoldsMutex
  <2> QED
    BY <1>1, <1>2, <1>3, <2>1, EndsRunSound, EndsSound, Framed DEF IInv, Inv1, TypeOK, store
<1>4. CASE UNCHANGED <<run, inbox, callback>>
  BY <1>1, <1>2, <1>4, Framed DEF IInv, Inv1, TypeOK, store
<1> QED
  BY <1>3, <1>4 DEF ForceStop

LEMMA LoopCallbackPreserves ==
    ASSUME IInv, NEW type \in ToSet(SessionTypes), LoopCallback(type)
    PROVE  IInv'
<1>1. /\ UNCHANGED <<order, loop, mutex, startMutex, call, current, timeAttack, armed, fired, index, budget>>
      /\ callback = "idle" /\ inbox # "none" /\ inbox \in {type, "late"} /\ inbox' = "none"
      /\ run' = IF inbox = "late" /\ wait' # wait /\ IsRunning THEN [run EXCEPT !.leftover = TRUE] ELSE run
  BY DEF LoopCallback, store
<1>2. type \in Kinds /\ ToSet(SessionTypes) = Kinds
  BY DEF ToSet, SessionTypes, Kinds
<1>3. run \in Runs /\ NoRace \notin Races /\ wait \in BOOLEAN /\ (inbox # "late" => inbox = type /\ IsRunning)
  BY <1>1, <1>2, CallersAre DEF IInv, Inv1, TypeOK, RunTyped, ManagerTyped, RunSound
<1>4. /\ run' \in Runs /\ run'.race = run.race /\ run'.looping = run.looping /\ run'.at = run.at
      /\ run'.races = run.races /\ run'.lost = run.lost /\ (run.leftover => run'.leftover)
      /\ inbox = "late" /\ wait' # wait /\ IsRunning => run'.leftover
  BY <1>1, <1>3 DEF Runs
<1>5. IsRunning' <=> IsRunning
  <2>1. CASE IsRunning
    <3>1. run.race \in Races
      BY <2>1 DEF IInv, Inv1, RunSound
    <3> QED
      BY <1>3, <1>4, <2>1, <3>1 DEF IsRunning, NoRun
  <2>2. CASE ~IsRunning
    BY <1>1, <2>2 DEF IsRunning
  <2> QED
    BY <2>1, <2>2
<1> DEFINE Unset == types = NoTypes /\ UNCHANGED <<types, wait, callback>>
           Awaits == /\ types # NoTypes /\ type = "race" /\ "secondRace" \in types /\ ~wait
                     /\ wait' /\ UNCHANGED <<types, callback>>
           Other == /\ types # NoTypes /\ wait' = (wait /\ ~(type = "race" /\ "secondRace" \in types))
                    /\ (type = "race" /\ "secondRace" \in types => wait)
                    /\ \/ /\ type = LastSession /\ types' = NoTypes
                          /\ callback' = IF inbox = "late" THEN "late" ELSE "own"
                       \/ type # LastSession /\ UNCHANGED <<types, callback>>
<1>6. Unset \/ Awaits \/ Other
  <2>1. CASE types = NoTypes
    BY <2>1 DEF LoopCallback, looped
  <2>2. CASE types # NoTypes /\ AwaitsSecond(type)
    BY <1>3, <2>2 DEF LoopCallback, AwaitsSecond
  <2>3. CASE types # NoTypes /\ ~AwaitsSecond(type)
    BY <1>3, <2>3 DEF LoopCallback, AwaitsSecond
  <2> QED
    BY <2>1, <2>2, <2>3
<1>7. /\ wait' \in BOOLEAN
      /\ types' = types \/ types' = NoTypes
      /\ types' # types => callback' # "idle" /\ (callback' = "own" => inbox # "late")
      /\ types' = types => callback' = callback
      /\ callback' \in {"idle", "own", "late"}
  BY <1>1, <1>3, <1>6
<1>8. ManagerTyped' /\ (notes'.robbed = (notes.robbed \/ (types' # types /\ (inbox = "late" \/ ~run.looping
                                              \/ call[Looper].pc \in {"find", "want", "stop"}))))
      /\ notes'.overtaken = notes.overtaken /\ notes'.misled = notes.misled
      /\ notes'.overlap = notes.overlap /\ notes'.announced = notes.announced /\ notes'.failed = notes.failed
  <2> DEFINE b == notes.robbed \/ (types' # types /\ (inbox = "late" \/ ~run.looping
                                     \/ call[Looper].pc \in {"find", "want", "stop"}))
  <2>1. notes \in Exceptions /\ notes.robbed \in BOOLEAN
    BY DEF IInv, TypeOK, ManagerTyped, Exceptions
  <2>2. b \in BOOLEAN
    BY <2>1
  <2>3. notes' = [notes EXCEPT !.robbed = b]
    BY <2>1 DEF LoopCallback, Exceptions
  <2> HIDE DEF b
  <2>4. /\ notes' \in Exceptions /\ notes'.robbed = b /\ notes'.overtaken = notes.overtaken
        /\ notes'.misled = notes.misled /\ notes'.overlap = notes.overlap /\ notes'.announced = notes.announced /\ notes'.failed = notes.failed
    BY <2>1, <2>2, <2>3, NoteRobbed
  <2>5. types' \subseteq Kinds \union {"secondRace", "nil"}
    BY <1>7 DEF NoTypes, IInv, TypeOK, ManagerTyped
  <2>6. ManagerTyped'
    BY <1>1, <1>7, <2>4, <2>5 DEF IInv, TypeOK, ManagerTyped
  <2> QED
    BY <2>4, <2>6 DEF b
<1>9. RunTyped' /\ RacesCounted'
  BY <1>1, <1>4, <1>7 DEF IInv, RunTyped, RacesCounted
<1>10. RunSound'
  BY <1>1, <1>3, <1>4, <1>5, <1>7 DEF IInv, Inv1, RunSound, Kinds
<1>11. Sessions(run.race)' = Sessions(run.race)
  BY <1>4 DEF Sessions, Configured
<1>12. PlaceSound'
  BY <1>4, <1>5, <1>11 DEF IInv, PlaceSound
<1>13. CurrentSound' /\ OvertakenSound' /\ LoopedTypes(run.race)' = LoopedTypes(run.race)
  BY <1>1, <1>4, <1>5, <1>8, SameRun
<1>14. TypesOfRun'
  BY <1>4, <1>5, <1>7, <1>8, <1>13 DEF IInv, TypesOfRun
<1>15. LoopedRaceEnds'
  BY <1>1, <1>4, <1>7, <1>8, <1>13 DEF IInv, LoopedRaceEnds
<1>16. TypesStored' /\ TypesOfLooper'
  <2>1. call[Looper].pc = "launch" => run.looping = FALSE
    <3> SUFFICES ASSUME call[Looper].pc = "launch" PROVE run.looping = FALSE
      OBVIOUS
    <3>1. startMutex # NoRace
      BY CallersAre DEF IInv, Inv1, Held
    <3> QED
      BY <3>1, NoRunTyped DEF IInv, Inv1, RunSound, IsRunning
  <2>2. call[Looper].pc \in {"find", "want", "stop", "launch"} => types' = types \/ notes'.robbed
    BY <1>8, <2>1
  <2>3. notes.robbed => notes'.robbed
    BY <1>8
  <2> QED
    BY <1>1, <1>7, <2>2, <2>3 DEF IInv, TypesStored, TypesOfLooper, LoopedTypes
<1>17. WaitSound'
  <2> SUFFICES ASSUME Regular' PROVE callback' # "own" /\ (types' # NoTypes => (wait' <=> run.races = 1))
    BY <1>1, <1>4 DEF WaitSound, NoTypes
  <2>1. Regular /\ (inbox = "late" => wait' = wait)
    BY <1>4, <1>5, <1>8 DEF Regular
  <2>2. callback # "own" /\ (types # NoTypes => (wait <=> run.races = 1 /\ inbox # "race"))
    BY <2>1 DEF IInv, WaitSound
  <2>3. types # NoTypes => "race" \in types /\ "secondRace" \in types
    BY <2>1 DEF Regular, IInv, TypesOfRun, LoopedTypes
  <2>4. inbox = "race" => run.races = 1
    BY <1>3, <2>1 DEF IInv, RacesCounted, Regular, Runs
  <2>5. CASE Unset
    BY <2>2, <2>5
  <2>6. CASE Awaits
    <3>1. inbox = "race"
      BY <1>1, <2>1, <2>6
    <3> QED
      BY <2>2, <2>4, <2>6, <3>1
  <2>7. CASE Other
    <3>1. "race" \in types /\ "secondRace" \in types
      BY <2>3, <2>7
    <3>2. type # "race"
      <4> SUFFICES ASSUME type = "race" PROVE FALSE
        OBVIOUS
      <4>1. wait /\ ~wait'
        BY <2>7, <3>1
      <4>2. inbox = "race"
        BY <1>1, <2>1, <4>1
      <4> QED
        BY <2>2, <2>7, <4>1, <4>2
    <3>3. LastSession = "race"
      BY <3>1, RaceIsLast
    <3>4. wait' = wait /\ UNCHANGED <<types, callback>>
      BY <1>3, <2>7, <3>2, <3>3
    <3>5. inbox # "race"
      BY <1>1, <3>2
    <3> QED
      BY <2>2, <2>7, <3>4, <3>5
  <2> QED
    BY <1>6, <2>5, <2>6, <2>7
<1> QED
  BY <1>1, <1>8, <1>9, <1>10, <1>12, <1>13, <1>14, <1>15, <1>16, <1>17, Framed DEF IInv, Inv1, TypeOK, store

----------------------------------------------------------------------------
(* The invariant                                                            *)

LEMMA StoreListed ==
    ASSUME NEW stored \in SUBSET Races
    PROVE  SetToSeq(stored) \in Seq(Races)
<1> DEFINE n == Cardinality(stored)
<1>1. n \in Nat /\ ExistsBijection(1..n, stored)
  BY RacesAssumption, FS_Subset, FS_CardinalityType
<1>2. \E f \in [1..n -> stored] : IsInjective(f)
  BY <1>1 DEF ExistsBijection, Bijection, Injection
<1>3. SetToSeq(stored) \in [1..n -> stored]
  BY <1>2 DEF SetToSeq
<1> HIDE DEF n
<1> QED
  BY <1>1, <1>3

LEMMA InitInvariant ==
    ASSUME Init
    PROVE  IInv
<1> USE DEF Init
<1>1. \A c \in Callers : call[c] = Idle
  OBVIOUS
<1>2. StoreTyped
  BY StoreListed DEF StoreTyped
<1>3. CallsTyped
  BY IdleTyped DEF CallsTyped
<1>4. RunTyped /\ ~IsRunning /\ run.looping = FALSE /\ run.races = 0
  BY NoRunTyped DEF RunTyped, IsRunning
<1>5. ManagerTyped
  <2>1. notes \in Exceptions
    BY DEF Exceptions
  <2>2. MaxEvents \in 0..MaxEvents
    BY EventBoundAssumption
  <2>3. types \subseteq Kinds \union {"secondRace", "nil"}
    BY DEF NoTypes
  <2> QED
    BY <2>1, <2>2, <2>3 DEF ManagerTyped, RaceOrNone
<1>6. TimersTyped /\ TimersSound
  BY DEF TimersTyped, TimersSound
<1>7. Held
  BY <1>1, IdleTyped, CallersAre DEF Held, HoldsMutex
<1>8. Kept /\ LooperKept
  BY <1>1, IdleTyped, CallersAre DEF Kept, LooperKept
<1>9. RunSound /\ PlaceSound /\ RacesCounted
  BY <1>4 DEF RunSound, PlaceSound, RacesCounted, Kinds
<1>10. CurrentSound
  BY <1>1, <1>4, IdleTyped DEF CurrentSound, HoldsMutex
<1>11. OneStarts
  BY <1>1, IdleTyped DEF OneStarts, Starts
<1>12. TimeAttackSound
  BY <1>1, IdleTyped DEF TimeAttackSound, TimeAttackOf
<1>13. TypesStored /\ TypesOfLooper
  BY <1>1, IdleTyped, CallersAre DEF TypesStored, TypesOfLooper
<1>14. LoopedRaceEnds /\ TypesOfRun /\ OvertakenSound /\ WaitSound
  BY <1>4 DEF LoopedRaceEnds, TypesOfRun, OvertakenSound, WaitSound, Regular
<1> QED
  BY <1>2, <1>3, <1>4, <1>5, <1>6, <1>7, <1>8, <1>9, <1>10, <1>11, <1>12, <1>13, <1>14 DEF IInv, Inv1, TypeOK

LEMMA NextPreserves ==
    ASSUME IInv, [Next]_vars
    PROVE  IInv'
<1>1. CASE \E r \in Races : ToggleLoopCustomRace(r) \/ DeleteCustomRace(r)
  BY <1>1, TogglePreserves, DeletePreserves
<1>2. CASE \E u \in Users, r \in Races, k \in {"start", "scheduled"} : UserStarts(u, r, k)
  BY <1>2, UserStartsPreserves
<1>10. CASE \E u \in Users, r \in Races, a \in {"start", "justSave", "schedule"} : SetupCustomRace(u, r, a)
  BY <1>10, SetupPreserves
<1>3. CASE \E u \in Users : Restart(u) \/ SaveStarted(u)
  BY <1>3, RestartPreserves, SaveStartedPreserves
<1>4. CASE Stop
  BY <1>4, StopPreserves
<1>5. CASE \E c \in Callers : Starting(c)
  BY <1>5, ApplyConfigPreserves, StopOldPreserves, LaunchPreserves, FinishPreserves DEF Starting
<1>6. CASE Looping \/ ListFails
  BY <1>6, TickPreserves, ListLoopedPreserves, LooperStartsPreserves, ListFailsPreserves DEF Looping
<1>7. CASE EndSession \/ Handling \/ Lost
  BY <1>7, EndSessionPreserves, LoopCallbackPreserves, CallbackStopPreserves, LostPreserves DEF Handling
<1>8. CASE FireTimer \/ \E f \in fired : ForceStop(f)
  BY <1>8, FireTimerPreserves, ForceStopPreserves
<1>9. CASE UNCHANGED vars
  BY <1>9, Framed DEF IInv, Inv1, TypeOK, vars, store
<1> QED
  BY <1>1, <1>2, <1>3, <1>4, <1>5, <1>6, <1>7, <1>8, <1>9, <1>10 DEF Next

LEMMA Invariance == Spec => []IInv
<1>1. Init => IInv
  BY InitInvariant
<1>2. IInv /\ [Next]_vars => IInv'
  BY NextPreserves
<1> QED
  BY <1>1, <1>2, PTL DEF Spec

----------------------------------------------------------------------------
(* The theorems                                                             *)

\* The store, the calls, the mutexes, the run, the fields of the manager and the timers
\* keep the values their types in the code allow.
THEOREM ManagerTypeCorrect == Spec => []TypeOK
<1>1. IInv => TypeOK
  BY DEF IInv
<1> QED
  BY <1>1, Invariance, PTL

\* Whenever an event runs and nobody is inside applyConfigAndStart, CurrentRace and the
\* time attack of race control are about that event, up to the named exceptions: for any
\* number of users who start, restart and stop events while LoopRaces does.
THEOREM CurrentRaceIsKnown == Spec => []CurrentRaceRuns
<1>1. IInv => CurrentRaceRuns
  <2> SUFFICES ASSUME IInv, IsRunning, mutex = NoRace
               PROVE  /\ current = run.race \/ notes.misled
                      /\ ((\A c \in Callers : ~Busy(c)) /\ ~notes.overlap /\ ~notes.misled /\ ~notes.announced) =>
                            timeAttack = IF Setup[run.race].timeAttack THEN run.race ELSE NoRace
    BY DEF CurrentRaceRuns
  <2>1. \A c \in Callers : ~HoldsMutex(c)
    BY CallersAre DEF IInv, Inv1, Held
  <2>2. current = run.race \/ notes.misled
    BY <2>1 DEF IInv, CurrentSound
  <2>3. ASSUME \A c \in Callers : ~Busy(c), ~notes.overlap, ~notes.misled, ~notes.announced
        PROVE  timeAttack = IF Setup[run.race].timeAttack THEN run.race ELSE NoRace
    <3>1. \A c \in Callers : call[c].pc # "want"
      BY <2>3 DEF Busy
    <3>2. timeAttack = TimeAttackOf(current)
      BY <2>3, <3>1 DEF IInv, TimeAttackSound
    <3>3. current = run.race /\ run.race \in Races /\ NoRace \notin Races
      BY <2>2, <2>3, CallersAre DEF IInv, Inv1, RunSound
    <3> QED
      BY <3>2, <3>3 DEF TimeAttackOf
  <2> QED
    BY <2>2, <2>3
<1> QED
  BY <1>1, Invariance, PTL

\* Only a start of LoopRaces that is about to stop what runs takes sp.startMutex for it.
LEMMA LooperStops ==
    ASSUME IInv, Next, startMutex = NoRace, startMutex' = Looper
    PROVE  call[Looper].pc = "stop"
<1>1. Looper # NoRace
  BY CallersAre
<1>2. \A c \in Callers : \A from : Fails(c, from) => startMutex' = NoRace
  BY CallersAre DEF Fails
<1>3. ~(\E r \in Races : ToggleLoopCustomRace(r) \/ DeleteCustomRace(r))
  BY <1>1 DEF ToggleLoopCustomRace, DeleteCustomRace
<1>4. ~(\E u \in Users, r \in Races, k \in {"start", "scheduled"} : UserStarts(u, r, k))
  BY <1>1 DEF UserStarts
<1>11. ~(\E u \in Users, r \in Races, a \in {"start", "justSave", "schedule"} : SetupCustomRace(u, r, a))
  BY <1>1 DEF SetupCustomRace
<1>5. ~(\E u \in Users : Restart(u) \/ SaveStarted(u)) /\ ~Stop
  BY <1>1 DEF Restart, SaveStarted, Stop
<1>6. ~(Looping \/ ListFails)
  <2>1. ~Tick /\ ~ListLooped /\ ~ListFails
    BY <1>1, <1>2, CallersAre DEF Tick, ListLooped, ListFails
  <2>2. ~LooperStarts
    BY <1>1, <1>2, CallersAre DEF LooperStarts
  <2> QED
    BY <2>1, <2>2 DEF Looping
<1>7. ~(EndSession \/ Handling \/ Lost)
  BY <1>1 DEF EndSession, Handling, Lost, CallbackStop, LoopCallback
<1>8. ~(FireTimer \/ \E f \in fired : ForceStop(f))
  BY <1>1 DEF FireTimer, ForceStop
<1>9. PICK c \in Callers : Starting(c)
  BY <1>3, <1>4, <1>5, <1>6, <1>7, <1>8, <1>11 DEF Next
<1>10. StopOld(c) /\ startMutex' = c
  BY <1>1, <1>2, <1>9 DEF Starting, ApplyConfig, StopOld, Launch, Finish
<1> QED
  BY <1>10 DEF StopOld

\* Events run as long as they should, whoever else starts, stops and restarts events and
\* whatever fails: a looped event is ended by its last session and not before its second
\* race, no timer of an earlier event ends one, and LoopRaces only ends what came after it
\* had looked; each up to the exceptions the property names.
THEOREM EventsKeepRunning == Spec => EventsRunTheirTime
<1> DEFINE Keeps == Ends => /\ startMutex' = Looper => notes.overtaken
                            /\ "astray" \in fired => fired' = fired
                            /\ EndsAtLastSession => run.looping \/ notes.overtaken
           Second == (EndsAtLastSession /\ run.looping /\ Setup[run.race].reversed /\ run.races = 1) =>
                         run.leftover \/ run.lost \/ notes.overtaken
<1>1. IInv => LoopedRaceEnds
  BY DEF IInv
<1>2. IInv /\ [Next]_vars => [Keeps]_vars
  <2> SUFFICES ASSUME IInv, Next, Ends PROVE Keeps
    BY DEF vars
  <2>1. startMutex' = Looper => notes.overtaken
    <3> SUFFICES ASSUME startMutex' = Looper PROVE notes.overtaken
      OBVIOUS
    <3>1. IsRunning /\ startMutex = NoRace
      BY DEF Ends, IInv, Inv1, RunSound
    <3>2. call[Looper].pc = "stop"
      BY <3>1, LooperStops
    <3> QED
      BY <3>1, <3>2 DEF IInv, OvertakenSound
  <2>2. "astray" \notin fired
    BY DEF IInv, TimersSound
  <2>3. ~run.looping => notes.overtaken
    BY DEF Ends, IInv, OvertakenSound
  <2> QED
    BY <2>1, <2>2, <2>3
<1>3. IInv => Second
  <2> SUFFICES ASSUME IInv, EndsAtLastSession, run.looping, Setup[run.race].reversed, run.races = 1
               PROVE  run.leftover \/ run.lost \/ notes.overtaken
    OBVIOUS
  <2>1. callback = "own" /\ IsRunning
    BY DEF EndsAtLastSession, Ends
  <2>2. "race" \in Setup[run.race].sessions
    BY DEF IInv, RacesCounted
  <2>3. ~Regular
    BY <2>1 DEF IInv, WaitSound
  <2> QED
    BY <2>1, <2>2, <2>3 DEF Regular
<1>4. Spec => [][Keeps]_vars
  BY <1>2, Invariance, PTL DEF Spec
<1>5. Spec => [][Second]_vars
  BY <1>3, Invariance, PTL DEF Spec
<1>6. Spec => []LoopedRaceEnds
  BY <1>1, Invariance, PTL
<1> QED
  BY <1>4, <1>5, <1>6 DEF EventsRunTheirTime, KeptRunning, SecondRaceRuns
=============================================================================
