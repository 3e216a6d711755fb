----------------------------- MODULE MCServices -----------------------------
(* What runs beside acServer, one part per behaviour: the Content Manager       *)
(* wrapper, the driver tables of race control and the hub of Live Timings.      *)
EXTENDS ContentManagerWrapper, DriverTables, RaceControlHub

VARIABLE part
vars == <<wrapperVars, tableVars, hubVars, part>>

\* The tables when they are not looked at: nobody watches for drivers that timed out.
TablesEnded ==
    /\ conn = [d \in Drivers |-> 0] /\ disc = conn /\ online = {}
    /\ obj = [o \in Objects |-> [d |-> NoDriver, laps |-> FALSE, fresh |-> FALSE]]
    /\ mutex = [o \in Objects |-> FALSE] /\ overwritten = {} /\ readers = {}
    /\ th = [t \in Threads |-> IF t = "watch" THEN [Idle EXCEPT !.at = "dead"] ELSE Idle]
    /\ updater = {} /\ queue = {}
    /\ session = "none" /\ persisted = [session |-> "none", drivers |-> <<>>] /\ loaded = <<>>
    /\ server = "off" /\ serverRuns = MaxServerRuns /\ handled = MaxMessages

Init ==
    /\ part \in {"wrapper", "tables", "hub"}
    /\ WrapperInit /\ HubInit
    /\ IF part = "tables" THEN TablesInit ELSE TablesEnded

Next ==
    \/ part = "wrapper" /\ WrapperNext /\ UNCHANGED <<tableVars, hubVars, part>>
    \/ part = "tables" /\ TablesNext /\ UNCHANGED <<wrapperVars, hubVars, part>>
    \/ part = "hub" /\ HubNext /\ UNCHANGED <<wrapperVars, tableVars, part>>

\* A step of the part that is looked at: w, t or h.
Of(w, t, h) ==
    \/ w /\ UNCHANGED <<tableVars, hubVars, part>>
    \/ t /\ UNCHANGED <<wrapperVars, hubVars, part>>
    \/ h /\ UNCHANGED <<wrapperVars, tableVars, part>>

\* Steps of one goroutine, of which at most one is enabled.
Start(r) == StarterEvaluate(r) \/ StarterListen(r)
Answer(q) == Built(q) \/ Proxied(q)
Handler(c) == SpawnPump(c) \/ SendLastUpdate(c) \/ SendChat(c) \/ UnlockChat(c)
Pump(c) == Write(c) \/ PumpClosed(c)

\* WrapperFairness, TablesFairness and HubFairness.  Nothing is enabled in two parts at once,
\* so that one formula says what each of its three actions is owed; that
\* leaves TLC fewer cases.
Fairness ==
    /\ SF_vars(Of(Shutdown, UDPStep, StoreUpdate))
    /\ SF_vars(Of(UDPHandled, ThreadStep("watch"), StoreChat))
    /\ \A r \in Runs, i \in Infos, c \in Clients :
          SF_vars(Of(StarterConfigure(r), InfoStep(i), LockUpdate(c)))
    /\ \A q \in Requests, d \in Drivers, c \in Clients :
          SF_vars(Of(Build(q), CarStep(d), LockChat(c)))
    /\ WF_vars(Of(ShutdownDone, Watch, Send))
    /\ WF_vars(Of(FALSE, FALSE, Broadcast))
    /\ \A r \in Runs, c \in Clients : WF_vars(Of(Start(r), FALSE, Handler(c)))
    /\ \A q \in Requests, o \in Objects, c \in Clients : WF_vars(Of(Answer(q), Age(o), Pump(c)))

Spec == Init /\ [][Next]_vars /\ Fairness

----------------------------------------------------------------------------
\* Types; a registered client of the hub is open, a driver in a table has its own object.
TypeOK == WrapperTypeOK /\ TablesTypeOK /\ HubTypeOK

\* Stops, requests, UDP messages, position updates and websockets are all dealt with,
\* apart from the lock-ups that the LockedUp of each part names.
NoOtherLockup == WrapperNoOtherLockup /\ TablesNoOtherLockup /\ HubNoOtherLockup

----------------------------------------------------------------------------
(* What comments and the change log say and the code does not keep.  No run lists      *)
(* these: as a property of this configuration TLC shows the trace the README describes. *)

\* content_manager_wrapper.go:317: a Stop that reached Shutdown completes.
ShutdownCompletes == loop = "shutdown" ~> loop = "idle"

\* race_control_http.go:289, "new client, send them an initial race control message".
UpdatesInOrder == [][\A c \in Clients : shown'[c] >= shown[c]]_vars

\* race_control.go:610, 655: drivers are "moved" between the two tables.
TablesDisjoint == \A d \in Drivers : conn[d] = 0 \/ disc[d] = 0

\* CHANGELOG.md:128, "Live Timings lap counts could reset if a driver does not cleanly
\* disconnect" is fixed: a driver with laps is not replaced by one without in a session.
HasLaps(d) == \E o \in {conn[d], disc[d]} \ {0} : obj[o].laps
LapCountsKept ==
    [][\A d \in Drivers : HasLaps(d) /\ conn'[d] # 0 /\ conn'[d] # conn[d] => obj'[conn'[d]].laps]_vars

\* race_control.go:426, "send disconnect messages for all connected cars".
StopDisconnectsAll ==
    server = "draining" ~> (\A d \in Drivers : conn[d] = 0) \/ server \in {"starting", "on", "crashed"}
=============================================================================
