---------------------------- MODULE DriverTables ----------------------------
(***************************************************************************)
(* The drivers RaceControl knows (race_control.go, race_control_driver.go):*)
(* the tables ConnectedDrivers and DisconnectedDrivers, each a map under a *)
(* RWMutex, of driver objects that have a mutex of their own.  Four kinds  *)
(* of goroutine change them: the one that handles UDP messages, the        *)
(* watcher of timed out drivers, requestSessionInfo, which is told that    *)
(* acServer stopped, and one per car that takes position updates.          *)
(*                                                                         *)
(* A step is one critical section of a table, or the acquisition of a lock *)
(* that is held across several: a driver's mutex, or the read lock of      *)
(* ConnectedDrivers inside an Each that locks drivers.  A driver keeps to  *)
(* one car, so CarIDToGUID is the identity.                                *)
(*                                                                         *)
(* The map carUpdaters has no lock.  Its accesses are single steps here;   *)
(* that two at the same instant are fatal to a Go program is not modelled. *)
(***************************************************************************)
EXTENDS Naturals, FiniteSets

CONSTANTS
    Drivers,      \* driver GUIDs
    Infos,        \* requestSessionInfo goroutines
    NoDriver,     \* nil
    LeftOver,     \* messages may be handled after the stop they were sent before
    Timeouts,     \* udp.RealtimePosIntervalMs > 0: drivers time out
    MaxObjects,   \* bound: driver objects in use at a time
    MaxMessages,  \* bound: UDP messages
    MaxServerRuns \* bound: runs of acServer

ASSUME NilAssumption == NoDriver \notin Drivers /\ Drivers \cap ({"udp", "watch"} \cup Infos) = {}
ASSUME BoundAssumption == {MaxObjects, MaxMessages, MaxServerRuns} \subseteq Nat /\ {Timeouts, LeftOver} \subseteq BOOLEAN

VARIABLES
    conn, disc,  \* ConnectedDrivers, DisconnectedDrivers: an object per driver, 0 for none
    obj,         \* per object: its driver, whether it has laps, whether it was seen lately
    mutex,       \* per object: whether its mutex is locked
    overwritten, \* history: the objects whose mutex was overwritten while locked
    readers,     \* goroutines inside an Each over ConnectedDrivers that locks drivers
    th,          \* per goroutine: control state, driver, object, drivers and objects to go
    updater,     \* the drivers with an entry in carUpdaters
    queue,       \* the drivers with a position update in their channel
    session,     \* rc.SessionInfo: "none", "practice", "race"
    persisted,   \* the live timings in the store: their session, per driver whether he has laps
    loaded,      \* what OnNewSession read of them and has not looked at yet
    server,      \* acServer: "off", "starting", "on", "draining" (stopped, messages left)
    online,      \* the drivers on the server
    serverRuns, handled

tableVars == <<conn, disc, obj, mutex, overwritten, readers, th, updater, queue, session,
          persisted, loaded, server, online, serverRuns, handled>>
tables == <<conn, disc>>
objects == <<obj, mutex, overwritten>>
cars == <<updater, queue>>
stored == <<session, persisted, loaded>>
world == <<server, online, serverRuns, handled>>

Objects == 1..MaxObjects
\* The goroutine of a car goes by the name of its driver.
Threads == {"udp", "watch"} \cup Infos \cup Drivers
Sessions == {"practice", "race"}
Idle == [at |-> "idle", d |-> NoDriver, o |-> 0, todo |-> {}, list |-> {}]

TablesInit ==
    /\ conn = [d \in Drivers |-> 0] /\ disc = [d \in Drivers |-> 0]
    /\ obj = [o \in Objects |-> [d |-> NoDriver, laps |-> FALSE, fresh |-> FALSE]]
    /\ mutex = [o \in Objects |-> FALSE] /\ overwritten = {} /\ readers = {}
    /\ th = [t \in Threads |-> Idle]
    /\ updater = {} /\ queue = {}
    /\ session = "none" /\ persisted = [session |-> "none", drivers |-> <<>>] /\ loaded = <<>>
    /\ server = "off" /\ online = {} /\ serverRuns = 0 /\ handled = 0

----------------------------------------------------------------------------
(* Locks and tables                                                        *)

\* sync.RWMutex lets no new reader in while a writer waits.
WriterWaiting == \E t \in Threads : th[t].at \in {"connAdd", "connDel"}
CanRead == ~WriterWaiting
CanWrite == readers = {}

Goto(t, at) == th' = [th EXCEPT ![t].at = at]
Holding(t) == th[t].at \in {"connAdd", "connDel", "discAdd", "lapEach", "unlock"}

\* An object nobody refers to, given to a new driver.
Used == (UNION {{conn[d], disc[d]} : d \in Drivers}) \cup (UNION {th[t].list \cup {th[t].o} : t \in Threads})
Unused == Objects \ Used
NewObject == CHOOSE o \in Unused : TRUE
\* Mutant: the object does not know its driver.
NewMut(d, laps) == [d |-> NoDriver, laps |-> laps, fresh |-> TRUE]

New(d, laps) == [d |-> d, laps |-> laps, fresh |-> TRUE]

\* t takes its object's mutex.
Lock(t) ==
    /\ ~mutex[th[t].o]
    /\ mutex' = [mutex EXCEPT ![th[t].o] = TRUE]

\* What a goroutine does when a call of OnClientDisconnect, or its message, is done.
Done(t) ==
    IF t = "watch" \/ t \in Infos
      THEN th' = [th EXCEPT ![t] = [Idle EXCEPT !.at = "next", !.list = th[t].list]]
      ELSE th' = [th EXCEPT ![t] = Idle]

\* Unlocking a mutex that is not locked is a fatal error: the program ends.
Unlock(t) ==
    /\ th[t].at = "unlock"
    /\ \/ /\ mutex[th[t].o]
          /\ mutex' = [mutex EXCEPT ![th[t].o] = FALSE]
          /\ Done(t)
          /\ UNCHANGED <<readers, server>>
       \/ /\ ~mutex[th[t].o]
          /\ th' = [s \in Threads |-> [Idle EXCEPT !.at = "dead"]]
          /\ server' = "crashed" /\ readers' = {}
          /\ UNCHANGED mutex
    /\ UNCHANGED <<tables, obj, overwritten, cars, stored, online, serverRuns, handled>>

\* Each over ConnectedDrivers with the mutex of every driver.
EachBegin(t) ==
    /\ CanRead
    /\ readers' = readers \cup {t}
    /\ th' = [th EXCEPT ![t].at = "each", ![t].todo = {d \in Drivers : conn[d] # 0}]

EachDriver(t, d) ==
    /\ th[t].at = "each" /\ d \in th[t].todo /\ ~mutex[conn[d]]
    /\ th' = [th EXCEPT ![t].todo = @ \ {d},
                        ![t].list = IF t = "watch" /\ ~obj[conn[d]].fresh THEN @ \cup {conn[d]} ELSE @]
    /\ UNCHANGED <<tables, objects, readers, cars, stored, world>>

EachEnd(t) ==
    /\ th[t].at = "each" /\ th[t].todo = {}
    /\ readers' = readers \ {t}
    /\ \/ t = "watch" /\ Goto(t, "next") /\ UNCHANGED loaded
       \/ /\ t = "udp" /\ Goto(t, "load")
          /\ loaded' = IF persisted.session = session THEN persisted.drivers ELSE <<>>
    /\ UNCHANGED <<tables, objects, cars, session, persisted, world>>

----------------------------------------------------------------------------
(* acServer and its drivers                                                *)

StartServer ==
    /\ server = "off" /\ serverRuns < MaxServerRuns
    /\ server' = "starting" /\ serverRuns' = serverRuns + 1
    /\ UNCHANGED <<tables, objects, readers, th, cars, stored, online, handled>>

\* onStop notifies without blocking: one goroutine waiting at its select, or nobody.
StopServer ==
    /\ server = "on"
    /\ server' = "draining" /\ online' = {}
    /\ \/ \E i \in Infos : th[i].at = "listen" /\ Goto(i, "stopped")
       \/ (\A i \in Infos : th[i].at # "listen") /\ UNCHANGED th
    /\ UNCHANGED <<tables, objects, readers, cars, stored, serverRuns, handled>>

\* The consumer of the closed connection has ended.
Drained ==
    /\ server = "draining" /\ th["udp"] = Idle
    /\ server' = "off"
    /\ UNCHANGED <<tables, objects, readers, th, cars, stored, online, serverRuns, handled>>

\* A driver goes and nobody is told.
Vanish(d) ==
    /\ d \in online /\ online' = online \ {d}
    /\ UNCHANGED <<tables, objects, readers, th, cars, stored, server, serverRuns, handled>>

\* Five minutes pass without an update of the driver.
Age(o) ==
    /\ obj[o].fresh /\ obj[o].d \notin queue
    /\ obj' = [obj EXCEPT ![o].fresh = FALSE]
    /\ UNCHANGED <<tables, mutex, overwritten, readers, th, cars, stored, world>>

\* The UDP goroutine takes a message, also one left over from before the stop.
Message ==
    /\ server = "on" \/ (LeftOver /\ server = "draining")
    /\ th["udp"] = Idle /\ handled < MaxMessages
    /\ handled' = handled + 1

\* A message may be about d: a driver of the server, or of the one that has just stopped.
Known(d) == d \in online \/ server = "draining"

----------------------------------------------------------------------------
(* OnVersion and requestSessionInfo                                        *)

Version(i) ==
    /\ server = "starting" /\ th["udp"] = Idle /\ th[i] = Idle
    /\ server' = "on" /\ Goto(i, "listen")
    /\ UNCHANGED <<tables, objects, readers, cars, stored, online, serverRuns, handled>>

\* Every 30 seconds the goroutine asks acServer for the session, and waits for sp.mutex.
Ticker(i) ==
    /\ th[i].at = "listen" /\ Goto(i, "asking")
    /\ UNCHANGED <<tables, objects, readers, cars, stored, world>>

Asked(i) ==
    /\ th[i].at = "asking" /\ Goto(i, "listen")
    /\ UNCHANGED <<tables, objects, readers, cars, stored, world>>

\* AllLapTimes: a connected driver hides the disconnected one.
Laps(d) == obj[IF conn[d] # 0 THEN conn[d] ELSE disc[d]].laps
Persist ==
    persisted' = [session |-> session,
                  drivers |-> [d \in {e \in Drivers : conn[e] # 0 \/ disc[e] # 0} |-> Laps(d)]]

\* The notification: timings are persisted, every connected driver will be disconnected.
Stopped(i) ==
    /\ th[i].at = "stopped" /\ CanRead
    /\ Persist
    /\ th' = [th EXCEPT ![i].at = "next", ![i].list = {conn[d] : d \in Drivers} \ {0}]
    /\ UNCHANGED <<tables, objects, readers, cars, session, loaded, world>>

\* disconnectDriver copies the car info of the next object under its mutex.
Next1(t) == \E o \in th[t].list :
    /\ ~mutex[o]
    /\ th' = [th EXCEPT ![t].at = "disconnect", ![t].d = obj[o].d, ![t].list = @ \ {o}]

NextDriver(t) ==
    /\ th[t].at = "next"
    /\ \/ th[t].list # {} /\ Next1(t)
       \/ th[t].list = {} /\ th' = [th EXCEPT ![t] = Idle]
    /\ UNCHANGED <<tables, objects, readers, cars, stored, world>>

\* watchForTimedOutDrivers, once a minute.
Watch ==
    /\ Timeouts /\ th["watch"] = Idle
    /\ EachBegin("watch")
    /\ UNCHANGED <<tables, objects, cars, stored, world>>

----------------------------------------------------------------------------
(* OnClientConnect                                                         *)

\* A driver found in DisconnectedDrivers is taken from there.
Connect(d) ==
    /\ Message /\ d \notin online
    /\ online' = IF server = "on" THEN online \cup {d} ELSE online
    /\ disc' = [disc EXCEPT ![d] = 0]
    /\ th' = [th EXCEPT !["udp"] = [Idle EXCEPT !.at = IF disc[d] = 0 THEN "connGet" ELSE "connLock",
                                                !.d = d, !.o = disc[d]]]
    /\ UNCHANGED <<conn, objects, readers, cars, stored, server, serverRuns>>

\* Else one found in ConnectedDrivers is kept, else there is a new one.
ConnectGet ==
    /\ th["udp"].at = "connGet" /\ CanRead
    /\ LET d == th["udp"].d IN
       \/ /\ conn[d] # 0
          /\ th' = [th EXCEPT !["udp"].at = "connLock", !["udp"].o = conn[d]]
          /\ UNCHANGED obj
       \/ /\ conn[d] = 0 /\ Unused # {}
          /\ th' = [th EXCEPT !["udp"].at = "connLock", !["udp"].o = NewObject]
          /\ obj' = [obj EXCEPT ![NewObject] = New(d, FALSE)]
    /\ UNCHANGED <<tables, mutex, overwritten, readers, cars, stored, world>>

\* Mutant: the car info is replaced without the mutex.
ConnectLockMut ==
    /\ th["udp"].at = "connLock"
    /\ mutex' = [mutex EXCEPT ![th["udp"].o] = TRUE]
    /\ obj' = [obj EXCEPT ![th["udp"].o].fresh = TRUE]
    /\ Goto("udp", "connAdd")
    /\ UNCHANGED <<tables, overwritten, readers, cars, stored, world>>

ConnectLock ==
    /\ th["udp"].at = "connLock" /\ Lock("udp")
    /\ obj' = [obj EXCEPT ![th["udp"].o].fresh = TRUE]
    /\ Goto("udp", "connAdd")
    /\ UNCHANGED <<tables, overwritten, readers, cars, stored, world>>

ConnectAdd ==
    /\ th["udp"].at = "connAdd" /\ CanWrite
    /\ conn' = [conn EXCEPT ![th["udp"].d] = th["udp"].o]
    /\ Goto("udp", "unlock")
    /\ UNCHANGED <<disc, objects, readers, cars, stored, world>>

----------------------------------------------------------------------------
(* OnClientDisconnect: by a message, the watcher or requestSessionInfo     *)

Disconnect(d) ==
    /\ Message /\ Known(d)
    /\ online' = online \ {d}
    /\ th' = [th EXCEPT !["udp"] = [Idle EXCEPT !.at = "disconnect", !.d = d]]
    /\ UNCHANGED <<tables, objects, readers, cars, stored, server, serverRuns>>

\* The channel of the car is forgotten whether or not the driver is connected.
DisconnectGet(t) ==
    /\ th[t].at = "disconnect" /\ CanRead
    /\ updater' = updater \ {th[t].d}
    /\ IF conn[th[t].d] = 0
         THEN Done(t)
         ELSE th' = [th EXCEPT ![t].at = "discLock", ![t].o = conn[th[t].d]]
    /\ UNCHANGED <<tables, objects, readers, queue, stored, world>>

DisconnectLock(t) ==
    /\ th[t].at = "discLock" /\ Lock(t)
    /\ Goto(t, "connDel")
    /\ UNCHANGED <<tables, obj, overwritten, readers, cars, stored, world>>

DisconnectDel(t) ==
    /\ th[t].at = "connDel" /\ CanWrite
    /\ conn' = [conn EXCEPT ![obj[th[t].o].d] = 0]
    /\ Goto(t, "discAdd")
    /\ UNCHANGED <<disc, objects, readers, cars, stored, world>>

\* Only drivers with laps are kept.
DisconnectAdd(t) ==
    /\ th[t].at = "discAdd"
    /\ disc' = IF obj[th[t].o].laps THEN [disc EXCEPT ![obj[th[t].o].d] = th[t].o] ELSE disc
    /\ Goto(t, "unlock")
    /\ UNCHANGED <<conn, objects, readers, cars, stored, world>>

----------------------------------------------------------------------------
(* Laps and positions                                                      *)

Lap(d) ==
    /\ Message /\ Known(d) /\ CanRead /\ conn[d] # 0
    /\ th' = [th EXCEPT !["udp"] = [Idle EXCEPT !.at = "lapLock", !.d = d, !.o = conn[d]]]
    /\ UNCHANGED <<tables, objects, readers, cars, stored, server, online, serverRuns>>

LapLock ==
    /\ th["udp"].at = "lapLock" /\ Lock("udp")
    /\ obj' = [obj EXCEPT ![th["udp"].o].laps = TRUE]
    /\ Goto("udp", "lapEach")
    /\ UNCHANGED <<tables, overwritten, readers, cars, stored, world>>

\* Mutant: an early return without unlocking.
LapEachMut ==
    /\ th["udp"].at = "lapEach" /\ CanRead
    /\ Persist /\ Done("udp")
    /\ UNCHANGED <<tables, objects, readers, cars, session, loaded, world>>

\* Splits and persisted timings read the tables with the driver's mutex held.
LapEach ==
    /\ th["udp"].at = "lapEach" /\ CanRead
    /\ Persist /\ Goto("udp", "unlock")
    /\ UNCHANGED <<tables, objects, readers, cars, session, loaded, world>>

\* OnCarUpdate makes the channel of the car if there is none ...  (The goroutine of a
\* channel that a disconnection took out of the map goes on waiting for it, for ever and
\* without effect: the one of the car, here, is that of its channel in the map.)
CarUpdate(d) ==
    /\ Message /\ Known(d)
    /\ updater' = updater \cup {d}
    /\ th' = [th EXCEPT !["udp"] = [Idle EXCEPT !.at = "send", !.d = d]]
    /\ UNCHANGED <<tables, objects, readers, queue, stored, server, online, serverRuns>>

\* ... and looks it up again to send: nil, should it be gone by now, blocks for ever.
SendUpdate ==
    /\ th["udp"].at = "send" /\ th["udp"].d \in updater /\ th["udp"].d \notin queue
    /\ queue' = queue \cup {th["udp"].d}
    /\ Done("udp")
    /\ UNCHANGED <<tables, objects, readers, updater, stored, world>>

TakeUpdate(d) ==
    /\ th[d] = Idle /\ d \in queue /\ CanRead
    /\ queue' = queue \ {d}
    /\ th' = IF conn[d] = 0 THEN th ELSE [th EXCEPT ![d] = [Idle EXCEPT !.at = "carLock", !.o = conn[d]]]
    /\ UNCHANGED <<tables, objects, readers, updater, stored, world>>

HandleUpdate(d) ==
    /\ th[d].at = "carLock" /\ Lock(d)
    /\ obj' = [obj EXCEPT ![th[d].o].fresh = TRUE]
    /\ Goto(d, "unlock")
    /\ UNCHANGED <<tables, overwritten, readers, cars, stored, world>>

----------------------------------------------------------------------------
(* OnNewSession                                                            *)

AnyDriver == \E d \in Drivers : conn[d] # 0 \/ disc[d] # 0
Looped(s) == AnyDriver /\ s = "practice" /\ session = "practice"
Connected == {conn[d] : d \in Drivers} \ {0}

\* Unless the session is a looped practice, each connected driver becomes a new one, its
\* mutex included, and the disconnected ones are forgotten.
NewSession(s) ==
    /\ Message /\ CanRead
    /\ session' = s
    /\ IF Looped(s)
         THEN UNCHANGED <<disc, objects>>
         ELSE /\ obj' = [o \in Objects |-> IF o \in Connected THEN New(obj[o].d, FALSE) ELSE obj[o]]
              /\ mutex' = [o \in Objects |-> mutex[o] /\ o \notin Connected]
              /\ overwritten' = overwritten \cup {o \in Connected : mutex[o]}
              /\ disc' = [d \in Drivers |-> 0]
    /\ th' = [th EXCEPT !["udp"] = [Idle EXCEPT !.at = "session"]]
    /\ UNCHANGED <<conn, readers, cars, persisted, loaded, server, online, serverRuns>>

NewSessionEach ==
    /\ th["udp"].at = "session" /\ EachBegin("udp")
    /\ UNCHANGED <<tables, objects, cars, stored, world>>

\* The timings read from the store, if they are of this session, fill DisconnectedDrivers.
LoadPersisted ==
    /\ th["udp"].at = "load" /\ CanRead
    /\ \/ DOMAIN loaded = {} /\ Done("udp") /\ UNCHANGED <<disc, obj, loaded>>
       \/ \E d \in DOMAIN loaded :
             /\ loaded' = [e \in DOMAIN loaded \ {d} |-> loaded[e]] /\ UNCHANGED th
             /\ \/ {conn[d], disc[d]} # {0} /\ UNCHANGED <<disc, obj>>
                \/ /\ {conn[d], disc[d]} = {0} /\ Unused # {}
                   /\ disc' = [disc EXCEPT ![d] = NewObject]
                   /\ obj' = [obj EXCEPT ![NewObject] = New(d, loaded[d])]
    /\ UNCHANGED <<conn, mutex, overwritten, readers, cars, session, persisted, world>>

----------------------------------------------------------------------------
\* What a goroutine does once it has begun.
ThreadStep(t) ==
    \/ \E d \in Drivers : EachDriver(t, d)
    \/ EachEnd(t) \/ NextDriver(t) \/ Unlock(t)
    \/ DisconnectGet(t) \/ DisconnectLock(t) \/ DisconnectDel(t) \/ DisconnectAdd(t)

UDPStep ==
    \/ ThreadStep("udp")
    \/ ConnectGet \/ ConnectLock \/ ConnectAdd \/ LapLock \/ LapEach \/ SendUpdate
    \/ NewSessionEach \/ LoadPersisted

InfoStep(i) == ThreadStep(i) \/ Asked(i) \/ Stopped(i)
CarStep(d) == ThreadStep(d) \/ TakeUpdate(d) \/ HandleUpdate(d)

TablesNext ==
    \/ StartServer \/ StopServer \/ Drained
    \/ Watch \/ ThreadStep("watch")
    \/ \E i \in Infos : Version(i) \/ Ticker(i) \/ InfoStep(i)
    \/ \E o \in Objects : Age(o)
    \/ \E d \in Drivers :
          \/ Vanish(d) \/ Connect(d) \/ Disconnect(d) \/ Lap(d) \/ CarUpdate(d)
          \/ CarStep(d)
    \/ \E s \in Sessions : NewSession(s)
    \/ UDPStep

\* Goroutines run and are not starved of locks: each is at one step at a time, so strong
\* fairness of its steps together is that of the step it is at.  The watcher's ticker
\* ticks and the clock goes on.
TablesFairness ==
    /\ SF_tableVars(UDPStep) /\ SF_tableVars(ThreadStep("watch"))
    /\ WF_tableVars(Watch)
    /\ \A o \in Objects : WF_tableVars(Age(o))
    /\ \A i \in Infos : SF_tableVars(InfoStep(i))
    /\ \A d \in Drivers : SF_tableVars(CarStep(d))

TablesSpec == TablesInit /\ [][TablesNext]_tableVars /\ TablesFairness

----------------------------------------------------------------------------
(* Properties                                                              *)

ThreadStates == {"idle", "dead", "listen", "asking", "stopped", "next", "each", "session", "load",
    "connGet", "connLock", "connAdd", "disconnect", "discLock", "connDel", "discAdd",
    "lapLock", "lapEach", "send", "carLock", "unlock"}

\* Types; a table holds an entry under the GUID of its driver.
TablesTypeOK ==
    /\ conn \in [Drivers -> 0..MaxObjects] /\ disc \in [Drivers -> 0..MaxObjects]
    /\ obj \in [Objects -> [d : Drivers \cup {NoDriver}, laps : BOOLEAN, fresh : BOOLEAN]]
    /\ \A d \in Drivers : \A o \in {conn[d], disc[d]} \ {0} : obj[o].d = d
    /\ mutex \in [Objects -> BOOLEAN] /\ overwritten \subseteq Objects
    /\ readers \subseteq {"udp", "watch"}
    /\ \A t \in Threads : th[t].at \in ThreadStates
    /\ updater \subseteq Drivers /\ queue \subseteq Drivers /\ online \subseteq Drivers
    /\ session \in Sessions \cup {"none"}
    /\ server \in {"off", "starting", "on", "draining", "crashed"}
    /\ serverRuns \in 0..MaxServerRuns /\ handled \in 0..MaxMessages

\* A driver's mutex does its work: it has one holder, and a goroutine unlocks what it
\* locked, except for the objects that OnNewSession overwrote under their holder: of the
\* mutexes, only these can end the program.  (carUpdaters, which no mutex protects, may
\* end it too: see CarUpdate.)
MutexesKept ==
    /\ server # "crashed" => \A o \in Objects \ overwritten :
          Cardinality({t \in Threads : Holding(t) /\ th[t].o = o}) = IF mutex[o] THEN 1 ELSE 0
    /\ server = "crashed" => overwritten # {}

\* A goroutine holds a driver's mutex and waits to write ConnectedDrivers, another reads
\* ConnectedDrivers and waits for that mutex; or the channel of a car is nil.
TablesLockedUp ==
    \/ \E t \in Threads, r \in readers :
          /\ Holding(t) /\ th[t].at \in {"connAdd", "connDel", "lapEach"}
          /\ \E d \in th[r].todo : conn[d] = th[t].o
    \/ th["udp"].at = "send" /\ th["udp"].d \notin updater
    \/ server = "crashed"

\* The UDP goroutine handles each message to its end, and every goroutine told of a stop
\* ends its work, unless they are locked up like that.
TablesNoOtherLockup ==
    /\ th["udp"] # Idle ~> th["udp"] = Idle \/ TablesLockedUp
    /\ \A i \in Infos : th[i].at = "stopped" ~> th[i] = Idle \/ TablesLockedUp

\* CHANGELOG.md:263, "drivers would persist in the connected drivers table in Live Timings
\* when they disconnect without completing a lap" is fixed: a driver who is away for good
\* leaves the table (refuted: see the README).
AbsentDriversLeave == \A d \in Drivers : <>[](d \notin online) => <>[](conn[d] = 0)
=============================================================================
