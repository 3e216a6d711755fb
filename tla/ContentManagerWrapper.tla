----------------------- MODULE ContentManagerWrapper -----------------------
(***************************************************************************)
(* The Content Manager wrapper (content_manager_wrapper.go): an HTTP       *)
(* server started by a goroutine of every run of acServer and shut down by *)
(* onStop, which holds the mutex of the server process meanwhile.  Its own *)
(* mutex is shared with the requests it serves and with the UDP callback.  *)
(*                                                                         *)
(* A run is a number; 0 is nil, for events as for http.Servers.            *)
(***************************************************************************)
EXTENDS Naturals

CONSTANTS MaxWrapperRuns,   \* bound: runs of acServer
          Requests   \* HTTP requests that may be under way

ASSUME RunsAssumption == MaxWrapperRuns \in Nat \ {0}

VARIABLES
    spEvent,   \* sp.raceEvent: the run whose event it is
    loop,      \* loop(): "idle", "running", "stopping" (wants cmw.mutex), "shutdown"
    runs,      \* runs started so far
    starter,   \* per run: the goroutine that calls cmw.Start
    given,     \* per run: the event that goroutine evaluated sp.raceEvent to
    cmwMutex,  \* holder of cmw.mutex; "lost" after a panic of its holder
    srv,       \* cmw.srv
    cmwEvent,  \* cmw.event
    shut,      \* the http.Servers that were shut down
    port,      \* the http.Server listening on ContentManagerWrapperPort
    request,   \* per request: its state, the http.Server serving it
    callback   \* the UDP callback: "idle", "waiting" (wants cmw.mutex)

wrapperVars == <<spEvent, loop, runs, starter, given, cmwMutex, srv, cmwEvent, shut, port, request, callback>>

Runs == 1..MaxWrapperRuns
CMWFree == cmwMutex = "none"

WrapperInit ==
    /\ spEvent = 0 /\ loop = "idle" /\ runs = 0
    /\ starter = [r \in Runs |-> "none"]
    /\ given = [r \in Runs |-> 0]
    /\ cmwMutex = "none" /\ srv = 0 /\ cmwEvent = 0 /\ shut = {} /\ port = 0
    /\ request = [q \in Requests |-> [pc |-> "none", on |-> 0]]
    /\ callback = "idle"

----------------------------------------------------------------------------
(* The server process                                                      *)

\* startRaceEvent sets the event and spawns the goroutine that starts the wrapper.
StartRun ==
    /\ loop = "idle" /\ runs < MaxWrapperRuns
    /\ runs' = runs + 1 /\ spEvent' = runs + 1 /\ loop' = "running"
    /\ starter' = [starter EXCEPT ![runs + 1] = "spawned"]
    /\ UNCHANGED <<given, cmwMutex, srv, cmwEvent, shut, port, request, callback>>

\* acServer exited; onStop takes sp.mutex and clears the event.
StopRun ==
    /\ loop = "running"
    /\ spEvent' = 0 /\ loop' = "stopping"
    /\ UNCHANGED <<runs, starter, given, cmwMutex, srv, cmwEvent, shut, port, request, callback>>

\* cmw.Stop() takes cmw.mutex; Shutdown closes the listener at once.
Shutdown ==
    /\ loop = "stopping" /\ CMWFree
    /\ IF srv = 0
         THEN loop' = "idle" /\ UNCHANGED <<cmwMutex, shut, port>>
         ELSE /\ loop' = "shutdown" /\ cmwMutex' = "loop"
              /\ shut' = shut \cup {srv}
              /\ port' = IF port = srv THEN 0 ELSE port
    /\ UNCHANGED <<spEvent, runs, starter, given, srv, cmwEvent, request, callback>>

InFlight(s) == {q \in Requests : request[q].pc \in {"details", "proxied", "building"}
                                 /\ request[q].on = s}

\* Mutant: Stop returns on an error of Shutdown without unlocking.
ShutdownDoneMut ==
    /\ loop = "shutdown" /\ InFlight(srv) = {}
    /\ loop' = "idle"
    /\ UNCHANGED <<spEvent, runs, starter, given, cmwMutex, srv, cmwEvent, shut, port, request, callback>>

\* Shutdown(context.Background()) returns when no request is under way, however long
\* that takes; Stop then releases cmw.mutex.
ShutdownDone ==
    /\ loop = "shutdown" /\ InFlight(srv) = {}
    /\ loop' = "idle" /\ cmwMutex' = "none"
    /\ UNCHANGED <<spEvent, runs, starter, given, srv, cmwEvent, shut, port, request, callback>>

----------------------------------------------------------------------------
(* The goroutine that calls cmw.Start                                      *)

\* The argument sp.raceEvent is evaluated without sp.mutex.
StarterEvaluate(r) ==
    /\ starter[r] = "spawned"
    /\ starter' = [starter EXCEPT ![r] = "wanting"]
    /\ given' = [given EXCEPT ![r] = spEvent]
    /\ UNCHANGED <<spEvent, loop, runs, cmwMutex, srv, cmwEvent, shut, port, request, callback>>

\* Under cmw.mutex: options that do not load end the call; a nil event panics with the
\* mutex held (panicCapture keeps the program alive); else everything is configured.
StarterConfigure(r) ==
    /\ starter[r] = "wanting" /\ CMWFree
    /\ \/ /\ starter' = [starter EXCEPT ![r] = "done"]
          /\ UNCHANGED <<cmwMutex, srv, cmwEvent>>
       \/ /\ given[r] = 0
          /\ starter' = [starter EXCEPT ![r] = "done"]
          /\ cmwMutex' = "lost"
          /\ UNCHANGED <<srv, cmwEvent>>
       \/ /\ given[r] # 0
          /\ starter' = [starter EXCEPT ![r] = "listening"]
          /\ srv' = r /\ cmwEvent' = given[r]
          /\ UNCHANGED cmwMutex
    /\ UNCHANGED <<spEvent, loop, runs, given, shut, port, request, callback>>

\* Mutant: the wrapper listens before it is configured.
StarterListenMut(r) ==
    /\ starter[r] \in {"spawned", "listening"}
    /\ starter' = [starter EXCEPT ![r] = "done"]
    /\ port' = r
    /\ UNCHANGED <<spEvent, loop, runs, given, cmwMutex, srv, cmwEvent, shut, request, callback>>

\* cmw.srv.ListenAndServe(): cmw.srv is read again, without the mutex.  A server that was
\* shut down refuses, a port in use is an error.
StarterListen(r) ==
    /\ starter[r] = "listening"
    /\ starter' = [starter EXCEPT ![r] = "done"]
    /\ port' = IF srv \in shut \/ port # 0 THEN port ELSE srv
    /\ UNCHANGED <<spEvent, loop, runs, given, cmwMutex, srv, cmwEvent, shut, request, callback>>

----------------------------------------------------------------------------
(* Requests and the UDP callback                                           *)

SetRequest(q, state) ==
    /\ request' = [request EXCEPT ![q].pc = state]
    /\ UNCHANGED <<spEvent, loop, runs, starter, given, srv, cmwEvent, shut, port, callback>>

\* A client asks for /api/details, or for a page that is proxied to acServer.
Accept(q) ==
    /\ port # 0 /\ request[q].pc = "none"
    /\ \E kind \in {"details", "proxied"} :
          request' = [request EXCEPT ![q] = [pc |-> kind, on |-> port]]
    /\ UNCHANGED <<spEvent, loop, runs, starter, given, cmwMutex, srv, cmwEvent, shut, port, callback>>

\* buildContentManagerDetails holds cmw.mutex while it asks acServer and geoIP.
Build(q) == request[q].pc = "details" /\ CMWFree /\ cmwMutex' = "request" /\ SetRequest(q, "building")

\* Mutant: an error while the details are built leaves the mutex locked.
BuiltMut(q) == request[q].pc = "building" /\ UNCHANGED cmwMutex /\ SetRequest(q, "none")

Built(q) == request[q].pc = "building" /\ cmwMutex' = "none" /\ SetRequest(q, "none")

Proxied(q) == request[q].pc = "proxied" /\ UNCHANGED cmwMutex /\ SetRequest(q, "none")

\* cmw.UDPCallback locks cmw.mutex on the goroutine that handles every UDP message.
UDPMessage ==
    /\ callback = "idle" /\ loop = "running" /\ callback' = "waiting"
    /\ UNCHANGED <<spEvent, loop, runs, starter, given, cmwMutex, srv, cmwEvent, shut, port, request>>

UDPHandled ==
    /\ callback = "waiting" /\ CMWFree /\ callback' = "idle"
    /\ UNCHANGED <<spEvent, loop, runs, starter, given, cmwMutex, srv, cmwEvent, shut, port, request>>

----------------------------------------------------------------------------
WrapperNext ==
    \/ StartRun \/ StopRun \/ Shutdown \/ ShutdownDone
    \/ \E r \in Runs : StarterEvaluate(r) \/ StarterConfigure(r) \/ StarterListen(r)
    \/ \E q \in Requests : Accept(q) \/ Build(q) \/ Built(q) \/ Proxied(q)
    \/ UDPMessage \/ UDPHandled

\* Goroutines are scheduled, acServer and geoIP answer, and sync.Mutex hands itself to a
\* goroutine that has waited for long.
WrapperFairness ==
    /\ SF_wrapperVars(Shutdown) /\ WF_wrapperVars(ShutdownDone)
    /\ SF_wrapperVars(UDPHandled)
    /\ \A r \in Runs :
          /\ WF_wrapperVars(StarterEvaluate(r)) /\ WF_wrapperVars(StarterListen(r))
          /\ SF_wrapperVars(StarterConfigure(r))
    /\ \A q \in Requests :
          /\ SF_wrapperVars(Build(q)) /\ WF_wrapperVars(Built(q))
          /\ WF_wrapperVars(Proxied(q))

WrapperSpec == WrapperInit /\ [][WrapperNext]_wrapperVars /\ WrapperFairness

----------------------------------------------------------------------------
(* Properties                                                              *)

\* Types, and who holds cmw.mutex is where it should be.
WrapperTypeOK ==
    /\ {spEvent, runs, srv, cmwEvent, port} \subseteq 0..MaxWrapperRuns
    /\ loop \in {"idle", "running", "stopping", "shutdown"}
    /\ starter \in [Runs -> {"none", "spawned", "wanting", "listening", "done"}]
    /\ given \in [Runs -> 0..MaxWrapperRuns]
    /\ cmwMutex \in {"none", "loop", "request", "lost"}
    /\ shut \subseteq Runs
    /\ request \in [Requests -> [pc : {"none", "details", "proxied", "building"}, on : 0..MaxWrapperRuns]]
    /\ callback \in {"idle", "waiting"}
    /\ cmwMutex = "loop" <=> loop = "shutdown"
    /\ cmwMutex = "request" <=> \E q \in Requests : request[q].pc = "building"

\* Nobody can be asking for details of an event that has not been configured, although
\* the listener, the event and the server are set by different goroutines.
NilEventNeverServed ==
    \A q \in Requests : request[q].pc # "none" => cmwEvent # 0 /\ srv # 0

\* The two ways cmw.mutex is never released again: Start panicked on a nil event, or
\* Stop waits, mutex in hand, for a request that waits for the mutex.
WrapperLockedUp ==
    \/ cmwMutex = "lost"
    \/ loop = "shutdown" /\ \E q \in InFlight(srv) : request[q].pc = "details"

\* There is no third way: otherwise stops, UDP messages and requests all get through.
WrapperNoOtherLockup ==
    /\ loop = "stopping" ~> loop = "idle" \/ WrapperLockedUp
    /\ callback = "waiting" ~> callback = "idle" \/ WrapperLockedUp
    /\ \A q \in Requests : request[q].pc # "none" ~> request[q].pc = "none" \/ WrapperLockedUp
=============================================================================
