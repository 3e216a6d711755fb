----------------------------- MODULE DriverSwaps -----------------------------
(***************************************************************************)
(* Driver swaps of RaceControl (race_control.go): the drivers of one car   *)
(* take turns.  When one of them disconnects in a race, a goroutine per    *)
(* swap looks once a second who is in the car, makes the next driver wait  *)
(* and kicks or penalises him if he leaves too early.  Penalties are       *)
(* applied to the results of the session at its end.                       *)
(*                                                                         *)
(* A swap holds pointers to driver objects that the tables of connected    *)
(* and disconnected drivers may have dropped or filled anew, and its       *)
(* context is kept in the object of the driver who left.  Objects are      *)
(* therefore modelled by their address.  A driver without a lap is not     *)
(* kept when he disconnects.                                               *)
(***************************************************************************)
EXTENDS Integers, Sequences, FiniteSets, SequencesExt, FiniteSetsExt

CONSTANTS
    Drivers,        \* the GUIDs of the car's drivers
    NoDriver,
    MinTime,        \* DriverSwapMinTime, in seconds
    DisqualifyTime, \* DriverSwapDisqualifyTime
    PenaltyTime,    \* DriverSwapPenaltyTime
    MinSwaps,       \* DriverSwapMinimumNumberOfSwaps, 0 for none
    NotEnough,      \* DriverSwapNotEnoughSwapsPenalty
    MaxConnects,    \* bound: connections
    MaxSwaps,       \* bound: drivers who leave
    MaxDrives,      \* bound: times the car is driven somewhere
    MaxSeconds      \* bound: ticks of the clock

ASSUME SwapTimesAssumption ==
    {MinTime, DisqualifyTime, PenaltyTime, MinSwaps, NotEnough} \subseteq Nat /\ NoDriver \notin Drivers

VARIABLES
    heap,       \* driver objects: guid, loaded, pos (LastPos), laps, ctx (of the swap he left for)
    conn, disc, \* ConnectedDrivers, DisconnectedDrivers: an object per driver, 0 for none
    car,        \* acServer: who sits in the car, and where the car is
    stints,     \* acServer: the drivers who completed laps, in turn
    swaps,      \* the goroutines, some of an earlier session; orphan, overlap and blind
                \* are history
    penalties,  \* rc.driverSwapPenalties: seconds per driver
    over,       \* the session is over
    crashed,    \* a nil context was used
    count,      \* connections and seconds so far
    cleared     \* history: the driver in the car was told that he may go

swapVars == <<heap, conn, disc, car, stints, swaps, penalties, over, crashed, count, cleared>>
people == <<conn, disc, car, stints>>

Positions == {"box", "away"}
Zero == "zero"                 \* udp.Vec{}: no update yet
Cancelled == -1                \* a context that was cancelled
Seconds == MinTime             \* completeTime

SwapsInit ==
    /\ heap = <<>> /\ conn = [d \in Drivers |-> 0] /\ disc = [d \in Drivers |-> 0]
    /\ car = [driver |-> NoDriver, at |-> "box"] /\ stints = <<>>
    /\ swaps = <<>> /\ penalties = [d \in Drivers |-> 0]
    /\ over = FALSE
    /\ crashed = FALSE /\ count = [connects |-> 0, drives |-> 0, seconds |-> 0] /\ cleared = FALSE

NewObject(d) == [guid |-> d, loaded |-> FALSE, pos |-> Zero, laps |-> FALSE, ctx |-> 0, old |-> FALSE]
Held(s) == heap[swaps[s].current]
Live(s) == swaps[s].pc # "done"
Up == ~crashed

----------------------------------------------------------------------------
(* acServer: the drivers of the car                                        *)

\* OnClientConnect: the object of the disconnected driver, or a new one.
Connect(d) ==
    LET known == disc[d] # 0
        o == IF known THEN disc[d] ELSE Len(heap) + 1
    IN  /\ Up /\ car.driver = NoDriver /\ conn[d] = 0 /\ count.connects < MaxConnects
        /\ heap' = IF known THEN [heap EXCEPT ![o].old = TRUE] ELSE Append(heap, NewObject(d))
        /\ conn' = [conn EXCEPT ![d] = o] /\ disc' = [disc EXCEPT ![d] = 0]
        /\ car' = [driver |-> d, at |-> "box"]
        /\ count' = [count EXCEPT !.connects = @ + 1] /\ cleared' = FALSE
        /\ UNCHANGED <<stints, swaps, penalties, over, crashed>>

Seated == Up /\ car.driver # NoDriver /\ conn[car.driver] # 0
Updated == ~heap[conn[car.driver]].old /\ heap[conn[car.driver]].pos = car.at

OnClientLoaded ==
    /\ Seated /\ ~heap[conn[car.driver]].loaded
    /\ heap' = [heap EXCEPT ![conn[car.driver]].loaded = TRUE]
    /\ UNCHANGED <<people, swaps, penalties, over, crashed, count, cleared>>

\* handleCarUpdate: the first update since the driver has loaded; later ones follow the car.
CarUpdate ==
    /\ Seated /\ heap[conn[car.driver]].loaded /\ ~Updated
    /\ heap' = [heap EXCEPT ![conn[car.driver]].pos = car.at, ![conn[car.driver]].old = FALSE]
    /\ UNCHANGED <<people, swaps, penalties, over, crashed, count, cleared>>

Drive(p) ==
    /\ Seated /\ heap[conn[car.driver]].loaded /\ Updated
    /\ car.at # p /\ count.drives < MaxDrives
    /\ car' = [car EXCEPT !.at = p] /\ count' = [count EXCEPT !.drives = @ + 1]
    /\ heap' = [heap EXCEPT ![conn[car.driver]].pos = p]
    /\ UNCHANGED <<conn, disc, stints, swaps, penalties, over, crashed, cleared>>

\* The first lap of a stint; by its end the car may be back in its box.
CompleteLap ==
    /\ Seated /\ Updated /\ ~heap[conn[car.driver]].laps /\ ~over
    /\ heap' = [heap EXCEPT ![conn[car.driver]].laps = TRUE]
    /\ stints' = IF stints # <<>> /\ Last(stints) = car.driver THEN stints ELSE Append(stints, car.driver)
    /\ UNCHANGED <<conn, disc, car, swaps, penalties, over, crashed, count, cleared>>

\* A swap: its goroutine notes the position, and keeps a new context in the object.
NewSwap(o) ==
    [driver |-> o, current |-> o, pos |-> heap[o].pos, t |-> 0, new |-> FALSE, first |-> FALSE,
     resume |-> FALSE, pc |-> "wait", on |-> Len(swaps) + 1, earlier |-> FALSE, orphan |-> over,
     overlap |-> \E s \in DOMAIN swaps : Live(s), blind |-> FALSE]

\* A swap that has returned.
Returned(w) ==
    [driver |-> 0, current |-> 0, pos |-> Zero, t |-> 0, new |-> FALSE, first |-> FALSE, resume |-> FALSE,
     pc |-> "done", on |-> 0, earlier |-> FALSE, orphan |-> FALSE, overlap |-> w.overlap, blind |-> FALSE]

Leaves(d, swap) ==
    /\ heap' = [heap EXCEPT ![conn[d]].loaded = FALSE,
                            ![conn[d]].ctx = IF swap THEN Len(swaps) + 1 ELSE @]
    /\ conn' = [conn EXCEPT ![d] = 0]
    /\ disc' = [disc EXCEPT ![d] = IF heap[conn[d]].laps THEN conn[d] ELSE @]
    /\ car' = [car EXCEPT !.driver = NoDriver]

\* OnClientDisconnect of a driver who leaves or was kicked.
OnClientDisconnect ==
    /\ Seated /\ Len(swaps) < MaxSwaps /\ Leaves(car.driver, TRUE)
    /\ swaps' = Append(swaps, NewSwap(conn[car.driver]))
    /\ UNCHANGED <<stints, penalties, over, crashed, count, cleared>>

----------------------------------------------------------------------------
(* handleDriverSwap                                                        *)

\* The context of the swap, read again before every wait.
Context(s) == heap[swaps[s].driver].ctx

InCar == {conn[d] : d \in Drivers} \ {0}

\* Before the next driver is in the car: whoever is found there.
LookForDriver(w) ==
    LET o == CHOOSE x \in InCar : TRUE
        same == heap[o].guid = heap[w.current].guid
    IN  IF InCar = {} THEN w
        ELSE IF same /\ ~w.resume THEN Returned(w)
        ELSE IF ~same /\ ~heap[o].loaded THEN w
        ELSE [w EXCEPT !.current = o, !.new = TRUE, !.resume = IF same THEN FALSE ELSE @]

\* Mutant: no position of the new driver is waited for.
FirstUpdateMut(w) == TRUE

FirstUpdate(w) == w.first \/ heap[w.current].pos # Zero
Moved(w) == FirstUpdate(w) /\ heap[w.current].pos # w.pos
Countdown(w) == Seconds - w.t

Clear(w) == w.new /\ w.t >= Seconds
Kicks(w) == w.new /\ ~Clear(w) /\ Moved(w) /\ Countdown(w) >= DisqualifyTime
Penalises(w) == w.new /\ ~Clear(w) /\ Moved(w) /\ ~Kicks(w) /\ Countdown(w) >= PenaltyTime

\* Mutant: the swap goes on after the driver was told that he may go.
AfterTickMut(w) ==
    IF ~w.new THEN LookForDriver(w)
    ELSE IF Kicks(w) THEN [w EXCEPT !.pc = "kicking", !.first = TRUE]
    ELSE IF Penalises(w) THEN Returned(w)
    ELSE IF Clear(w) THEN [w EXCEPT !.t = 0]
    ELSE [w EXCEPT !.first = FirstUpdate(w)]

\* What one tick makes of a swap.
AfterTick(w) ==
    IF ~w.new THEN LookForDriver(w)
    ELSE IF Clear(w) \/ Penalises(w) THEN Returned(w)
    ELSE IF Kicks(w) THEN [w EXCEPT !.pc = "kicking", !.first = TRUE]
    ELSE [w EXCEPT !.first = FirstUpdate(w)]

\* A swap that goes on waits on the context it finds; the object may have been made anew.
Rewaits(s, w) ==
    IF w.pc # "wait" THEN w
    ELSE IF Context(s) = Cancelled THEN Returned(w)
    ELSE [w EXCEPT !.on = Context(s)]

Ticked(s) == [swaps[s] EXCEPT !.t = @ + 1]
Waiting == {s \in DOMAIN swaps : swaps[s].pc = "wait"}
Given(d) == {s \in Waiting : Penalises(Ticked(s)) /\ Held(s).guid = d}

\* One second: every ticker fires, and every swap that waits handles it.
Second ==
    /\ Up /\ Waiting # {} /\ count.seconds < MaxSeconds
    /\ count' = [count EXCEPT !.seconds = @ + 1]
    /\ swaps' = [s \in DOMAIN swaps |-> IF s \in Waiting THEN Rewaits(s, AfterTick(Ticked(s))) ELSE swaps[s]]
    /\ penalties' = [d \in Drivers |-> penalties[d] + FoldSet(LAMBDA s, sum : sum + Countdown(Ticked(s)) + 5, 0, Given(d))]
    /\ cleared' = (cleared \/ \E s \in Waiting : Clear(Ticked(s)))
    /\ crashed' = \E s \in DOMAIN swaps : swaps'[s].pc = "wait" /\ swaps'[s].on = 0
    /\ UNCHANGED <<heap, people, over>>

\* Another swap that knew the position of the driver who is kicked loses it.
Blinded(s) ==
    LET w == swaps[s]
    IN  [r \in DOMAIN swaps |-> IF swaps[r].first /\ swaps[r].current = w.current
                               THEN [swaps[r] EXCEPT !.blind = TRUE] ELSE swaps[r]]

\* Five seconds after the warning the car is kicked, whoever drives it by then, and the
\* swap waits for its driver to come back.
Kick(s) ==
    LET w == [swaps[s] EXCEPT !.pc = "wait", !.first = FALSE, !.new = FALSE, !.resume = TRUE, !.blind = FALSE]
    IN  /\ Up /\ swaps[s].pc = "kicking"
        /\ swaps' = [Blinded(s) EXCEPT ![s] = Rewaits(s, w)]
        /\ crashed' = (Context(s) = 0)
        /\ heap' = [heap EXCEPT ![w.current].pos = Zero]
        /\ UNCHANGED <<people, penalties, over, count, cleared>>

----------------------------------------------------------------------------
(* Sessions                                                                *)

InTables == InCar \union ({disc[d] : d \in Drivers} \ {0})

\* Mutant: disconnected drivers are not looked at.
CancelsMut == {heap[o].ctx : o \in InCar} \ {0}

\* OnEndSession cancels the swaps of every driver it knows.
Cancels == {heap[o].ctx : o \in InTables} \ {0}

\* NumberOfDriverSwaps, and the penalty of a row of the results.
RowPenalty ==
    LET n == IF stints = <<>> THEN 0 ELSE Len(stints) - 1
    IN  IF n < MinSwaps THEN (MinSwaps - n) * NotEnough ELSE 0
Rows == ToSet(stints)

\* Why a swap is not reached: its driver is in no table, his object has another context
\* by now, or the swap is about to kick.  A swap may also begin when its session is over.
Unreached(s) ==
    swaps[s].driver \notin InTables \/ Context(s) # swaps[s].on \/ swaps[s].pc = "kicking"
Orphan(s, why) == IF Live(s) THEN [swaps[s] EXCEPT !.orphan = @ \/ why] ELSE swaps[s]

\* Swaps that wait on a cancelled context return at once; the penalties are applied to
\* the results here.
OnEndSession ==
    /\ Up /\ ~over /\ over' = TRUE
    /\ heap' = [o \in DOMAIN heap |-> IF heap[o].ctx \in Cancels THEN [heap[o] EXCEPT !.ctx = Cancelled] ELSE heap[o]]
    /\ swaps' = [s \in DOMAIN swaps |->
                   IF s \in Waiting /\ swaps[s].on \in Cancels THEN Returned(swaps[s])
                   ELSE Orphan(s, Unreached(s))]
    /\ penalties' = [d \in Drivers |-> penalties[d] + IF d \in Rows THEN RowPenalty ELSE 0]
    /\ UNCHANGED <<people, crashed, count, cleared>>

\* Stopping acServer ends no session.  Its drivers are disconnected; the event of a process
\* that does not run has no swaps, but the next one may have started already.
OnStopped(started) ==
    /\ Up /\ ~over /\ over' = TRUE
    /\ LET marked == [s \in DOMAIN swaps |-> Orphan(s, TRUE)]
       IN  IF Seated
           THEN /\ Leaves(car.driver, started)
                /\ swaps' = IF started
                            THEN Append(marked, [NewSwap(conn[car.driver]) EXCEPT !.orphan = TRUE])
                            ELSE marked
           ELSE swaps' = marked /\ UNCHANGED <<heap, conn, disc, car>>
    /\ UNCHANGED <<stints, penalties, crashed, count, cleared>>

\* Of an object only swaps that have returned point to, nothing is left.
Collected(o) ==
    IF \E s \in DOMAIN swaps : Live(s) /\ o \in {swaps[s].driver, swaps[s].current} THEN heap[o] ELSE NewObject(heap[o].guid)

\* OnNewSession: connected drivers are made anew in place, disconnected ones forgotten.
OnNewSession ==
    /\ Up /\ over
    /\ over' = FALSE
    /\ heap' = [o \in DOMAIN heap |-> IF o \in InCar THEN NewObject(heap[o].guid) ELSE Collected(o)]
    /\ disc' = [d \in Drivers |-> 0]
    /\ penalties' = [d \in Drivers |-> 0]
    /\ stints' = <<>>
    /\ swaps' = [s \in DOMAIN swaps |-> [swaps[s] EXCEPT !.earlier = Live(s)]]
    /\ UNCHANGED <<conn, car, crashed, count, cleared>>

SwapsNext ==
    \/ \E d \in Drivers : Connect(d)
    \/ OnClientLoaded \/ CarUpdate \/ CompleteLap \/ OnClientDisconnect
    \/ \E p \in Positions : Drive(p)
    \/ \E s \in DOMAIN swaps : Kick(s)
    \/ Second
    \/ OnEndSession \/ (\E started \in BOOLEAN : OnStopped(started)) \/ OnNewSession

SwapsSpec == SwapsInit /\ [][SwapsNext]_swapVars

----------------------------------------------------------------------------
(* Properties                                                              *)

\* The tick that is handled punishes: the driver is about to be kicked, or penalised.
Punishes(s) ==
    /\ s \in Waiting /\ count'.seconds > count.seconds
    /\ swaps'[s].pc = "kicking" \/ s \in Given(Held(s).guid)

\* A driver is punished for leaving the pit box before his time: he is in the car, which
\* has moved since.  Unless his position was that of an earlier stint, or was lost when
\* another swap kicked him, or he has left the car meanwhile, or the one before him had
\* not stopped in the box, or the swap is of an earlier session.
PunishedForLeaving ==
    [][\A s \in DOMAIN swaps : Punishes(s) =>
          \/ car.driver = Held(s).guid /\ car.at = "away"
          \/ Held(s).old \/ conn[Held(s).guid] # swaps[s].current
          \/ swaps[s].pos # "box" \/ swaps[s].orphan \/ swaps[s].blind]_swapVars

\* A driver who was told that he may go is not punished in that stint, unless two swaps of
\* the car overlap.
ClearIsClear ==
    [][\A s \in DOMAIN swaps : Punishes(s) /\ cleared =>
          \E r \in DOMAIN swaps : swaps[r].overlap]_swapVars

\* A swap ends with its session, unless OnEndSession could not reach it.
SwapsEndWithSession ==
    \A s \in DOMAIN swaps : Live(s) /\ swaps[s].earlier => swaps[s].orphan

\* All that a driver may expect of a swap.
SwapsFair == []SwapsEndWithSession /\ PunishedForLeaving /\ ClearIsClear
=============================================================================
