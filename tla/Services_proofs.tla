--------------------------- MODULE Services_proofs ---------------------------
(* What runs beside acServer, for any number of clients, runs, requests,        *)
(* drivers and goroutines.  The hub of Live Timings: it never closes a channel   *)
(* it has closed, nothing in it outgrows its capacity, and the two mutexes the   *)
(* UDP goroutine needs have one handler at most.  The Content Manager wrapper:   *)
(* the details of an event are served only once the wrapper has one, and         *)
(* cmw.mutex is where it should be.  The driver tables: the mutex of a driver    *)
(* has one holder, until OnNewSession overwrites it.  The three as MCServices looks *)
(* at them, one at a time.                                                      *)
EXTENDS MCServices, FiniteSetTheorems, TLAPS

------------------------------------------------------------------------------
(* The hub of Live Timings.                                                  *)

\* The UDP goroutine; an update is counted when it begins, before it becomes the last one.
Counted ==
    /\ udp \in [pc : {"idle", "send", "sendUpdate", "sendChat", "storeUpdate", "storeChat"},
                message : 0..MaxHubMessages]
    /\ hubHandled \in 0..MaxHubMessages /\ lastUpdate \in 0..hubHandled
    /\ udp.message <= hubHandled
    /\ chat \in 0..ChatMessageLimit

\* The channels of the hub and of its clients.
Channels ==
    /\ broadcast \in Seq(0..MaxHubMessages) /\ Len(broadcast) <= BroadcastCap
    /\ clients \subseteq Clients \ closed /\ closed \subseteq Clients
    /\ receive \in [Clients -> Seq(0..MaxHubMessages)]
    /\ \A c \in Clients : Len(receive[c]) <= ReceiveCap

Pumps == pump \in [Clients -> {"none", "on", "off"}] /\ shown \in [Clients -> 0..MaxHubMessages]

\* A handler that is between its lock and its unlock has the mutex, and no other has.
Handling ==
    /\ handler \in [Clients -> {"none", "registered", "lockUpdate", "sendUpdate", "lockChat",
                                "sendChat", "done", "panicked"}]
    /\ toSend \in [Clients -> 0..ChatMessageLimit]
    /\ hubMutex \in [{"update", "chat"} -> {"none", "handler", "lost"}]
    /\ hubMutex["update"] = "handler" <=> \E c \in Clients : handler[c] = "sendUpdate"
    /\ \A c \in Clients : handler[c] = "sendChat" => hubMutex["chat"] = "handler"
    /\ \A c, d \in Clients : handler[c] = "sendUpdate" /\ handler[d] = "sendUpdate" => c = d
    /\ \A c, d \in Clients : handler[c] = "sendChat" /\ handler[d] = "sendChat" => c = d

\* Only a websocket whose handler has begun is known to the hub, or was closed by it.
Registered == \A c \in clients \cup closed : handler[c] # "none"

HubInv == Counted /\ Channels /\ Pumps /\ Handling /\ Registered

\* What each part is about: it stays as long as these do.
countedVars == <<udp, hubHandled, lastUpdate, chat>>
channelVars == <<broadcast, clients, closed, receive>>
pumpVars == <<pump, shown>>
handlingVars == <<handler, toSend, hubMutex>>
registeredVars == <<clients, closed, handler>>

LEMMA Bounds ==
    /\ ReceiveCap \in Nat \ {0} /\ BroadcastCap \in Nat \ {0}
    /\ ChatMessageLimit \in Nat \ {0} /\ MaxHubMessages \in Nat \ {0}
BY HubAssumption

LEMMA HubFramed ==
    ASSUME HubInv
    PROVE  /\ UNCHANGED countedVars => Counted'
           /\ UNCHANGED channelVars => Channels'
           /\ UNCHANGED pumpVars => Pumps'
           /\ UNCHANGED handlingVars => Handling'
           /\ UNCHANGED registeredVars => Registered'
BY DEF HubInv, countedVars, channelVars, pumpVars, handlingVars, registeredVars,
       Counted, Channels, Pumps, Handling, Registered

LEMMA HubInitInv == HubInit => HubInv
BY Bounds DEF HubInit, HubInv, Counted, Channels, Pumps, Handling, Registered

\* The goroutine that handles UDP messages.
LEMMA ProducerSteps ==
    ASSUME HubInv, HubMessage \/ VersionMessage \/ Send \/ StoreUpdate \/ StoreChat
    PROVE  HubInv'
<1>1. UNCHANGED pumpVars /\ UNCHANGED handlingVars /\ UNCHANGED registeredVars
  BY DEF HubMessage, VersionMessage, Send, StoreUpdate, StoreChat, pumpVars, handlingVars, registeredVars
<1>2. Channels'
  <2>1. CASE Send
    <3>1. broadcast' \in Seq(0..MaxHubMessages) /\ Len(broadcast') <= BroadcastCap
      BY <2>1, Bounds DEF Send, HubInv, Counted, Channels
    <3> QED
      BY <2>1, <3>1 DEF Send, HubInv, Channels
  <2>2. CASE ~Send
    BY <2>2, HubFramed DEF HubMessage, VersionMessage, StoreUpdate, StoreChat, channelVars
  <2> QED
    BY <2>1, <2>2
<1>3. Counted'
  <2> USE Bounds DEF HubInv, Counted
  <2>1. CASE HubMessage
    <3>1. hubHandled' = hubHandled + 1 /\ hubHandled' \in 0..MaxHubMessages
      BY <2>1 DEF HubMessage
    <3>2. /\ udp' \in [pc : {"send", "sendUpdate", "sendChat"}, message : 0..MaxHubMessages]
          /\ udp'.message <= hubHandled'
      BY <2>1, <3>1 DEF HubMessage
    <3> QED
      BY <2>1, <3>1, <3>2 DEF HubMessage
  <2>2. CASE VersionMessage
    BY <2>2 DEF VersionMessage
  <2>3. CASE Send
    <3>1. udp' \in [pc : {"idle", "storeUpdate", "storeChat"}, message : 0..MaxHubMessages]
          /\ udp'.message = udp.message
      BY <2>3 DEF Send
    <3> QED
      BY <2>3, <3>1 DEF Send
  <2>4. CASE StoreUpdate
    BY <2>4 DEF StoreUpdate
  <2>5. CASE StoreChat
    <3>1. chat' \in 0..ChatMessageLimit
      BY <2>5 DEF StoreChat
    <3>2. udp' \in [pc : {"idle"}, message : 0..MaxHubMessages] /\ udp'.message = udp.message
      BY <2>5 DEF StoreChat
    <3> QED
      BY <2>5, <3>1, <3>2 DEF StoreChat
  <2> QED
    BY <2>1, <2>2, <2>3, <2>4, <2>5
<1> QED
  BY <1>1, <1>2, <1>3, HubFramed DEF HubInv

\* The hub closes the channels that are full and forgets their clients in one step.
LEMMA BroadcastStep == ASSUME HubInv, Broadcast PROVE HubInv'
<1>1. UNCHANGED countedVars /\ UNCHANGED pumpVars /\ UNCHANGED handlingVars
  BY DEF Broadcast, countedVars, pumpVars, handlingVars
<1>2. Channels'
  <2> USE Bounds DEF HubInv, Channels
  <2>1. broadcast' \in Seq(0..MaxHubMessages) /\ Len(broadcast') <= BroadcastCap
    BY DEF Broadcast
  <2>2. clients' \subseteq Clients \ closed' /\ closed' \subseteq Clients
    BY DEF Broadcast
  <2>3. Head(broadcast) \in 0..MaxHubMessages
    BY DEF Broadcast
  <2>4. ASSUME NEW c \in Clients
        PROVE  /\ HasRoom(c) => /\ Append(receive[c], Head(broadcast)) \in Seq(0..MaxHubMessages)
                                /\ Len(Append(receive[c], Head(broadcast))) <= ReceiveCap
               /\ receive[c] \in Seq(0..MaxHubMessages) /\ Len(receive[c]) <= ReceiveCap
    BY <2>3 DEF HasRoom
  <2>5. receive' = [c \in Clients |-> IF c \in clients /\ HasRoom(c)
                                        THEN Append(receive[c], Head(broadcast)) ELSE receive[c]]
    BY DEF Broadcast
  <2>6. /\ receive' \in [Clients -> Seq(0..MaxHubMessages)]
        /\ \A c \in Clients : Len(receive'[c]) <= ReceiveCap
    BY <2>4, <2>5
  <2> QED
    BY <2>1, <2>2, <2>6
<1>3. Registered'
  BY DEF Broadcast, HubInv, Registered
<1> QED
  BY <1>1, <1>2, <1>3, HubFramed DEF HubInv

\* The handler of a websocket sends to a channel, or panics because the hub has closed it.
LEMMA SendSteps ==
    ASSUME HubInv, NEW c \in Clients, SendLastUpdate(c) \/ SendChat(c)
    PROVE  HubInv'
<1>1. UNCHANGED countedVars /\ UNCHANGED pumpVars /\ UNCHANGED <<broadcast, clients, closed>>
  BY DEF SendLastUpdate, SendChat, HandlerSend, countedVars, pumpVars
<1>2. Channels'
  <2>1. lastUpdate \in 0..MaxHubMessages /\ 0 \in 0..MaxHubMessages
    BY Bounds DEF HubInv, Counted
  <2>2. \/ UNCHANGED receive
        \/ /\ Len(receive[c]) < ReceiveCap
           /\ \E m \in 0..MaxHubMessages : receive' = [receive EXCEPT ![c] = Append(@, m)]
    BY <2>1 DEF SendLastUpdate, SendChat, HandlerSend, HasRoom
  <2>3. CASE UNCHANGED receive
    BY <1>1, <2>3, HubFramed DEF channelVars
  <2>4. ASSUME NEW m \in 0..MaxHubMessages, Len(receive[c]) < ReceiveCap,
               receive' = [receive EXCEPT ![c] = Append(@, m)]
        PROVE  Channels'
    <3>1. /\ Append(receive[c], m) \in Seq(0..MaxHubMessages)
          /\ Len(Append(receive[c], m)) <= ReceiveCap
      BY <2>4, Bounds DEF HubInv, Channels
    <3> QED
      BY <1>1, <2>4, <3>1 DEF HubInv, Channels
  <2> QED
    BY <2>2, <2>3, <2>4
<1>3. Handling'
  <2>1. CASE SendLastUpdate(c)
    <3>1. UNCHANGED toSend /\ handler[c] = "sendUpdate" /\ hubMutex["chat"]' = hubMutex["chat"]
      BY <2>1 DEF SendLastUpdate, HandlerSend, HubInv, Handling
    <3>2. \/ /\ handler' = [handler EXCEPT ![c] = "panicked"]
             /\ hubMutex' = [hubMutex EXCEPT !["update"] = "lost"]
          \/ /\ handler' = [handler EXCEPT ![c] = "lockChat"]
             /\ hubMutex' = [hubMutex EXCEPT !["update"] = "none"]
      BY <2>1 DEF SendLastUpdate, HandlerSend
    <3> QED
      BY <3>1, <3>2 DEF HubInv, Handling
  <2>2. CASE SendChat(c)
    <3>1. toSend' \in [Clients -> 0..ChatMessageLimit]
      BY <2>2, Bounds DEF SendChat, HubInv, Handling
    <3>2. handler[c] = "sendChat"
      BY <2>2 DEF SendChat
    <3>3. \/ /\ handler' = [handler EXCEPT ![c] = "panicked"]
             /\ hubMutex' = [hubMutex EXCEPT !["chat"] = "lost"]
          \/ /\ handler' = [handler EXCEPT ![c] = "sendChat"]
             /\ hubMutex' = [hubMutex EXCEPT !["chat"] = "handler"]
      BY <2>2 DEF SendChat, HandlerSend
    <3> QED
      BY <3>1, <3>2, <3>3 DEF HubInv, Handling
  <2> QED
    BY <2>1, <2>2
<1>4. Registered'
  <2>1. \E s \in {"panicked", "lockChat", "sendChat"} : handler' = [handler EXCEPT ![c] = s]
    BY DEF SendLastUpdate, SendChat, HandlerSend
  <2> QED
    BY <1>1, <2>1 DEF HubInv, Registered, Handling, Channels
<1> QED
  BY <1>1, <1>2, <1>3, <1>4, HubFramed DEF HubInv

LEMMA HandlerSteps ==
    ASSUME HubInv, NEW c \in Clients,
           Register(c) \/ SpawnPump(c) \/ LockUpdate(c) \/ LockChat(c) \/ UnlockChat(c)
    PROVE  HubInv'
<1>1. UNCHANGED countedVars /\ Registered'
  <2>1. \E s \in {"registered", "lockUpdate", "sendUpdate", "sendChat", "done"} :
          handler' = [handler EXCEPT ![c] = s]
    BY DEF Register, SpawnPump, LockUpdate, LockChat, UnlockChat
  <2>2. clients' \subseteq clients \cup {c} /\ UNCHANGED closed /\ UNCHANGED countedVars
    BY DEF Register, SpawnPump, LockUpdate, LockChat, UnlockChat, countedVars
  <2> QED
    BY <2>1, <2>2 DEF HubInv, Registered, Handling, Channels
<1>2. CASE Register(c)
  <2>1. /\ UNCHANGED <<broadcast, receive, closed, toSend, pump, shown, hubMutex>>
        /\ clients' = clients \cup {c} /\ handler' = [handler EXCEPT ![c] = "registered"]
        /\ handler[c] = "none"
    BY <1>2 DEF Register
  <2>2. c \notin closed
    BY <2>1 DEF HubInv, Registered
  <2>3. Channels'
    BY <2>1, <2>2 DEF HubInv, Channels
  <2>4. Handling'
    BY <2>1 DEF HubInv, Handling
  <2> QED
    BY <1>1, <2>1, <2>3, <2>4, HubFramed DEF pumpVars, HubInv
<1>3. CASE SpawnPump(c)
  <2>1. UNCHANGED channelVars /\ Pumps' /\ Handling'
    BY <1>3 DEF SpawnPump, channelVars, HubInv, Pumps, Handling
  <2> QED
    BY <1>1, <2>1, HubFramed DEF HubInv
<1>4. CASE LockUpdate(c)
  <2>1. UNCHANGED channelVars /\ UNCHANGED pumpVars
    BY <1>4 DEF LockUpdate, channelVars, pumpVars
  <2>2. Handling'
    BY <1>4 DEF LockUpdate, Free, HubInv, Handling
  <2> QED
    BY <1>1, <2>1, <2>2, HubFramed DEF HubInv
<1>5. CASE LockChat(c)
  <2>1. UNCHANGED channelVars /\ UNCHANGED pumpVars /\ chat \in 0..ChatMessageLimit
    BY <1>5 DEF LockChat, channelVars, pumpVars, HubInv, Counted
  <2>2. Handling'
    BY <1>5, <2>1 DEF LockChat, Free, HubInv, Handling
  <2> QED
    BY <1>1, <2>1, <2>2, HubFramed DEF HubInv
<1>6. CASE UnlockChat(c)
  <2>1. UNCHANGED channelVars /\ UNCHANGED pumpVars
    BY <1>6 DEF UnlockChat, channelVars, pumpVars
  <2>2. Handling'
    BY <1>6 DEF UnlockChat, HubInv, Handling
  <2> QED
    BY <1>1, <2>1, <2>2, HubFramed DEF HubInv
<1> QED
  BY <1>2, <1>3, <1>4, <1>5, <1>6

LEMMA PumpSteps ==
    ASSUME HubInv, NEW c \in Clients, Write(c) \/ WriteError(c) \/ PumpClosed(c)
    PROVE  HubInv'
<1>1. UNCHANGED countedVars /\ UNCHANGED handlingVars /\ UNCHANGED registeredVars
  BY DEF Write, WriteError, PumpClosed, countedVars, handlingVars, registeredVars
<1>2. CASE Write(c)
  <2>1. /\ Head(receive[c]) \in 0..MaxHubMessages
        /\ Tail(receive[c]) \in Seq(0..MaxHubMessages) /\ Len(Tail(receive[c])) <= ReceiveCap
    BY <1>2, Bounds DEF Write, HubInv, Channels
  <2>2. Channels' /\ Pumps'
    BY <1>2, <2>1 DEF Write, HubInv, Channels, Pumps
  <2> QED
    BY <1>1, <2>2, HubFramed DEF HubInv
<1>3. CASE WriteError(c) \/ PumpClosed(c)
  <2>1. UNCHANGED channelVars /\ Pumps'
    BY <1>3 DEF WriteError, PumpClosed, channelVars, HubInv, Pumps
  <2> QED
    BY <1>1, <2>1, HubFramed DEF HubInv
<1> QED
  BY <1>2, <1>3

LEMMA HubStepInv == HubInv /\ [HubNext]_hubVars => HubInv'
<1> SUFFICES ASSUME HubInv, [HubNext]_hubVars PROVE HubInv'
  OBVIOUS
<1>1. CASE HubMessage \/ VersionMessage \/ Send \/ StoreUpdate \/ StoreChat
  BY <1>1, ProducerSteps
<1>2. CASE Broadcast
  BY <1>2, BroadcastStep
<1>3. CASE \E c \in Clients : SendLastUpdate(c) \/ SendChat(c)
  BY <1>3, SendSteps
<1>4. CASE \E c \in Clients :
              Register(c) \/ SpawnPump(c) \/ LockUpdate(c) \/ LockChat(c) \/ UnlockChat(c)
  BY <1>4, HandlerSteps
<1>5. CASE \E c \in Clients : Write(c) \/ WriteError(c) \/ PumpClosed(c)
  BY <1>5, PumpSteps
<1>6. CASE UNCHANGED hubVars
  BY <1>6, HubFramed DEF hubVars, countedVars, channelVars, pumpVars, handlingVars, registeredVars, HubInv
<1> QED
  BY <1>1, <1>2, <1>3, <1>4, <1>5, <1>6 DEF HubNext

LEMMA HubInvariance == HubSpec => []HubInv
BY HubInitInv, HubStepInv, PTL DEF HubSpec

LEMMA HubTyped == HubInv => HubTypeOK
BY Bounds DEF HubInv, HubTypeOK, Counted, Channels, Pumps, Handling

\* The hub's channels and mutexes: a registered client is open, so that no channel is
\* closed twice (which would end the hub), nothing outgrows its capacity, and the
\* mutex of the last update is held only by a handler that is about to send it.
THEOREM HubTypeCorrect == HubSpec => []HubTypeOK
BY HubTyped, HubInvariance, PTL

\* However many websockets open at once, no two handlers hold the mutex of the stored chat
\* that the UDP goroutine needs for every chat message.
ChatSentByOne ==
    \A c, d \in Clients : handler[c] = "sendChat" /\ handler[d] = "sendChat" => c = d

THEOREM OneChatSender == HubSpec => []ChatSentByOne
<1>1. HubInv => ChatSentByOne
  BY DEF HubInv, Handling, ChatSentByOne
<1> QED
  BY <1>1, HubInvariance, PTL

------------------------------------------------------------------------------
(* The Content Manager wrapper.                                              *)

Configured == cmwEvent # 0 /\ srv # 0

\* The listener is opened by a goroutine that has configured the wrapper, and nothing
\* takes its event and its server away again.
ListensConfigured ==
    /\ port # 0 => Configured
    /\ \A r \in Runs : starter[r] = "listening" => Configured

\* cmw.mutex admits one request that builds details.
OneBuilder ==
    \A p, q \in Requests : request[p].pc = "building" /\ request[q].pc = "building" => p = q

WrapperInv == WrapperTypeOK /\ ListensConfigured /\ NilEventNeverServed /\ OneBuilder

USE RunsAssumption

LEMMA WrapperInitInv == WrapperInit => WrapperInv
BY DEF WrapperInit, WrapperInv, WrapperTypeOK, ListensConfigured, NilEventNeverServed, OneBuilder,
       Runs

\* The steps of the server process: they neither configure nor answer.
LEMMA WrapperServerSteps ==
    ASSUME WrapperInv, StartRun \/ StopRun \/ Shutdown \/ ShutdownDone PROVE WrapperInv'
<1> USE DEF WrapperInv, ListensConfigured, NilEventNeverServed, OneBuilder, Configured
<1>1. CASE StartRun
  <2>1. runs + 1 \in Runs
    BY <1>1 DEF StartRun, WrapperTypeOK, Runs
  <2> QED
    BY <1>1, <2>1 DEF StartRun, WrapperTypeOK, Runs
<1>2. CASE StopRun
  BY <1>2 DEF StopRun, WrapperTypeOK
<1>3. CASE Shutdown
  <2>1. UNCHANGED <<spEvent, runs, starter, given, srv, cmwEvent, request, callback>>
    BY <1>3 DEF Shutdown
  <2>2. CASE srv = 0
    <3>1. loop' = "idle" /\ UNCHANGED <<cmwMutex, shut, port>>
      BY <1>3, <2>2 DEF Shutdown
    <3> QED
      BY <1>3, <2>1, <3>1 DEF Shutdown, CMWFree, WrapperTypeOK
  <2>3. CASE srv # 0
    <3>1. /\ cmwMutex = "none"
          /\ loop' = "shutdown" /\ cmwMutex' = "loop"
          /\ shut' = shut \cup {srv}
          /\ port' = port \/ port' = 0
      BY <1>3, <2>3 DEF Shutdown, CMWFree
    <3>2. srv \in Runs
      BY <2>3 DEF WrapperTypeOK, Runs
    <3> QED
      BY <2>1, <3>1, <3>2 DEF WrapperTypeOK
  <2> QED
    BY <2>2, <2>3
<1>4. CASE ShutdownDone
  BY <1>4 DEF ShutdownDone, WrapperTypeOK
<1> QED
  BY <1>1, <1>2, <1>3, <1>4

\* The goroutine of a run that calls Start.
LEMMA StarterSteps ==
    ASSUME WrapperInv, NEW r \in Runs,
           StarterEvaluate(r) \/ StarterConfigure(r) \/ StarterListen(r)
    PROVE  WrapperInv'
<1> USE DEF WrapperInv, ListensConfigured, NilEventNeverServed, OneBuilder, Configured
<1>1. CASE StarterEvaluate(r)
  BY <1>1 DEF StarterEvaluate, WrapperTypeOK, Runs
<1>2. CASE StarterConfigure(r)
  <2>1. r \in 0..MaxWrapperRuns /\ r # 0 /\ given[r] \in 0..MaxWrapperRuns
    BY DEF WrapperTypeOK, Runs
  <2> QED
    BY <1>2, <2>1 DEF StarterConfigure, CMWFree, WrapperTypeOK
<1>3. CASE StarterListen(r)
  BY <1>3 DEF StarterListen, WrapperTypeOK
<1> QED
  BY <1>1, <1>2, <1>3

\* Requests come in through the listener, so whatever they are told has been configured.
LEMMA RequestSteps ==
    ASSUME WrapperInv, NEW q \in Requests, Accept(q) \/ Build(q) \/ Built(q) \/ Proxied(q)
    PROVE  WrapperInv'
<1> USE DEF WrapperInv, ListensConfigured, NilEventNeverServed, OneBuilder, Configured
<1>1. CASE Accept(q)
  BY <1>1 DEF Accept, WrapperTypeOK
<1>2. CASE Build(q)
  BY <1>2 DEF Build, SetRequest, CMWFree, WrapperTypeOK
<1>3. CASE Built(q)
  BY <1>3 DEF Built, SetRequest, WrapperTypeOK
<1>4. CASE Proxied(q)
  BY <1>4 DEF Proxied, SetRequest, WrapperTypeOK
<1> QED
  BY <1>1, <1>2, <1>3, <1>4

LEMMA WrapperStepInv == WrapperInv /\ [WrapperNext]_wrapperVars => WrapperInv'
<1> SUFFICES ASSUME WrapperInv, [WrapperNext]_wrapperVars PROVE WrapperInv'
  OBVIOUS
<1>1. CASE StartRun \/ StopRun \/ Shutdown \/ ShutdownDone
  BY <1>1, WrapperServerSteps
<1>2. CASE \E r \in Runs : StarterEvaluate(r) \/ StarterConfigure(r) \/ StarterListen(r)
  BY <1>2, StarterSteps
<1>3. CASE \E q \in Requests : Accept(q) \/ Build(q) \/ Built(q) \/ Proxied(q)
  BY <1>3, RequestSteps
<1>4. CASE UDPMessage \/ UDPHandled \/ UNCHANGED wrapperVars
  BY <1>4 DEF UDPMessage, UDPHandled, wrapperVars, WrapperInv, WrapperTypeOK, ListensConfigured,
              NilEventNeverServed, OneBuilder, Configured, Runs
<1> QED
  BY <1>1, <1>2, <1>3, <1>4 DEF WrapperNext

\* cmw.mutex is held by the Stop that shuts the listener down, by one request, by a Start
\* that has panicked, or by nobody.
THEOREM WrapperTypeCorrect == WrapperSpec => []WrapperTypeOK
<1>1. WrapperInv => WrapperTypeOK
  BY DEF WrapperInv
<1> QED
  BY <1>1, WrapperInitInv, WrapperStepInv, PTL DEF WrapperSpec

\* serveHTTP and the proxy read cmw.event and cmw.srv without looking whether they are nil.
THEOREM DetailsHaveEvent == WrapperSpec => []NilEventNeverServed
<1>1. WrapperInv => NilEventNeverServed
  BY DEF WrapperInv
<1> QED
  BY <1>1, WrapperInitInv, WrapperStepInv, PTL DEF WrapperSpec

------------------------------------------------------------------------------
(* The driver tables.                                                        *)

Thread == [at : ThreadStates, d : Drivers \cup {NoDriver}, o : 0..MaxObjects,
           todo : SUBSET Drivers, list : SUBSET Objects]

\* The states in which a goroutine has an object, and those in which it has a driver.
WithObject == {"connLock", "connAdd", "discLock", "connDel", "discAdd", "lapLock", "lapEach",
               "carLock", "unlock"}
WithDriver == {"connGet", "connLock", "connAdd", "disconnect", "send"}

\* The objects a goroutine has belong to drivers; inside an Each the drivers to go are
\* still connected, because nobody may write the table.
Fits(t) ==
    /\ th[t].at \in WithObject => th[t].o # 0 /\ obj[th[t].o].d \in Drivers
    /\ th[t].at \in WithDriver => th[t].d \in Drivers
    /\ th[t].at \in {"connLock", "connAdd"} => obj[th[t].o].d = th[t].d
    /\ \A o \in th[t].list : obj[o].d \in Drivers
    /\ th[t].at = "each" => t \in readers /\ \A d \in th[t].todo : conn[d] # 0

ThreadsFit == th \in [Threads -> Thread] /\ \A t \in Threads : Fits(t)

TablesFit ==
    /\ conn \in [Drivers -> 0..MaxObjects] /\ disc \in [Drivers -> 0..MaxObjects]
    /\ obj \in [Objects -> [d : Drivers \cup {NoDriver}, laps : BOOLEAN, fresh : BOOLEAN]]
    /\ \A d \in Drivers : /\ conn[d] # 0 => obj[conn[d]].d = d
                          /\ disc[d] # 0 => obj[disc[d]].d = d

Timings(f) == DOMAIN f \subseteq Drivers /\ \A d \in DOMAIN f : f[d] \in BOOLEAN
StoreFits == Timings(persisted.drivers) /\ Timings(loaded)

WorldFits ==
    /\ readers \subseteq {"udp", "watch"}
    /\ updater \subseteq Drivers /\ queue \subseteq Drivers /\ online \subseteq Drivers
    /\ session \in Sessions \cup {"none"}
    /\ server \in {"off", "starting", "on", "draining", "crashed"}
    /\ serverRuns \in 0..MaxServerRuns /\ handled \in 0..MaxMessages

\* One holder at most, and none without locking.
Owned ==
    /\ mutex \in [Objects -> BOOLEAN] /\ overwritten \subseteq Objects
    /\ server # "crashed" => \A o \in Objects \ overwritten :
          /\ mutex[o] <=> \E t \in Threads : Holding(t) /\ th[t].o = o
          /\ \A t, u \in Threads : Holding(t) /\ Holding(u) /\ th[t].o = o /\ th[u].o = o => t = u
    /\ server = "crashed" => overwritten # {}

TablesInv == ThreadsFit /\ TablesFit /\ StoreFits /\ WorldFits /\ Owned

USE NilAssumption, BoundAssumption

----------------------------------------------------------------------------
(* Lemmas on one step of one goroutine                                      *)

LEMMA ThreadsAre == "udp" \in Threads /\ "watch" \in Threads /\ Infos \subseteq Threads /\ Drivers \subseteq Threads
BY DEF Threads

\* Only t moves: what the others know stays true when the objects in use keep their
\* drivers, and the table of connected drivers is not written under a reader.
LEMMA OneMoves ==
    ASSUME ThreadsFit, NEW t \in Threads,
           th' \in [Threads -> Thread], \A s \in Threads \ {t} : th'[s] = th[s], Fits(t)',
           UNCHANGED conn \/ readers = {}, readers \ {t} \subseteq readers',
           \A o \in Objects : o \in Used => obj'[o].d = obj[o].d
    PROVE  ThreadsFit'
<1>1. SUFFICES ASSUME NEW s \in Threads, s # t PROVE Fits(s)'
  BY DEF ThreadsFit
<1>2. th'[s] = th[s] /\ th[s] \in Thread /\ Fits(s)
  BY <1>1 DEF ThreadsFit
<1>3. \A o \in Objects : o = th[s].o \/ o \in th[s].list => obj'[o].d = obj[o].d
  <2> DEFINE held == {th[u].list \cup {th[u].o} : u \in Threads}
  <2>1. th[s].list \cup {th[s].o} \in held
    OBVIOUS
  <2>2. UNION held \subseteq Used
    BY DEF Used
  <2> HIDE DEF held
  <2>3. th[s].list \cup {th[s].o} \subseteq Used
    BY <2>1, <2>2
  <2> QED
    BY <2>3
<1>4. th[s].at = "each" => s \in readers' /\ \A d \in th[s].todo : conn'[d] # 0
  BY <1>1, <1>2 DEF Fits
<1>5. th[s].o \in 0..MaxObjects /\ th[s].list \subseteq Objects
  BY <1>2 DEF Thread
<1>6. /\ th[s].at \in WithObject => obj'[th[s].o].d = obj[th[s].o].d
      /\ \A o \in th[s].list : obj'[o].d = obj[o].d
  <2>1. th[s].at \in WithObject => th[s].o \in Objects
    BY <1>2, <1>5 DEF Fits, Objects
  <2> QED
    BY <1>3, <1>5, <2>1
<1>7. {"connLock", "connAdd"} \subseteq WithObject
  BY DEF WithObject
<1> QED
  BY <1>2, <1>4, <1>6, <1>7 DEF Fits

HoldersKept == \A s \in Threads : (Holding(s)' <=> Holding(s)) /\ (Holding(s) => th'[s].o = th[s].o)

LEMMA OwnedKept ==
    ASSUME Owned, HoldersKept, UNCHANGED <<mutex, overwritten>>,
           server' = "crashed" <=> server = "crashed"
    PROVE  Owned'
BY DEF Owned, HoldersKept

\* t takes the mutex of its object.
LEMMA OwnedLock ==
    ASSUME Owned, NEW t \in Threads, th[t].o \in Objects, Lock(t), UNCHANGED <<overwritten, server>>,
           ~Holding(t), Holding(t)', th'[t].o = th[t].o,
           \A s \in Threads \ {t} : th'[s] = th[s]
    PROVE  Owned'
<1>1. mutex' \in [Objects -> BOOLEAN] /\ overwritten' \subseteq Objects
  BY DEF Owned, Lock
<1>2. SUFFICES ASSUME server # "crashed", NEW o \in Objects \ overwritten
      PROVE  /\ mutex'[o] <=> \E s \in Threads : Holding(s)' /\ th'[s].o = o
             /\ \A s, u \in Threads : Holding(s)' /\ Holding(u)' /\ th'[s].o = o /\ th'[u].o = o => s = u
  BY <1>1 DEF Owned
<1>3. \A s \in Threads \ {t} : Holding(s)' <=> Holding(s)
  BY DEF Holding
<1>4. CASE o = th[t].o
  <2>1. mutex'[o] /\ ~mutex[o]
    BY <1>4 DEF Owned, Lock
  <2>2. \A s \in Threads : ~(Holding(s) /\ th[s].o = o)
    BY <1>2, <2>1 DEF Owned
  <2> QED
    BY <1>3, <1>4, <2>1, <2>2
<1>5. CASE o # th[t].o
  <2>1. mutex'[o] = mutex[o]
    BY <1>5 DEF Owned, Lock
  <2> QED
    BY <1>2, <1>3, <1>5, <2>1 DEF Owned
<1> QED
  BY <1>4, <1>5

LEMMA Framed ==
    ASSUME TablesInv
    PROVE  /\ UNCHANGED <<th, obj, readers, conn>> => ThreadsFit'
           /\ UNCHANGED <<conn, disc, obj>> => TablesFit'
           /\ UNCHANGED <<persisted, loaded>> => StoreFits'
           /\ UNCHANGED <<readers, updater, queue, session, server, online, serverRuns, handled>>
                => WorldFits'
           /\ UNCHANGED <<th, mutex, overwritten, server>> => Owned'
<1>1. UNCHANGED <<th, obj, readers, conn>> => ThreadsFit'
  BY DEF TablesInv, ThreadsFit, Fits
<1>2. UNCHANGED <<conn, disc, obj>> => TablesFit'
  BY DEF TablesInv, TablesFit
<1>3. UNCHANGED <<persisted, loaded>> => StoreFits'
  BY DEF TablesInv, StoreFits, Timings
<1>4. UNCHANGED <<readers, updater, queue, session, server, online, serverRuns, handled>> => WorldFits'
  BY DEF TablesInv, WorldFits
<1>5. UNCHANGED <<th, mutex, overwritten, server>> => Owned'
  BY DEF TablesInv, Owned, Holding
<1> QED
  BY <1>1, <1>2, <1>3, <1>4, <1>5

\* t goes from one state without a mutex, or with it, to another.
LEMMA GotoMoves ==
    ASSUME TablesInv, NEW t \in Threads, NEW at \in ThreadStates, Goto(t, at)
    PROVE  /\ th' \in [Threads -> Thread] /\ \A s \in Threads \ {t} : th'[s] = th[s]
           /\ th'[t].at = at /\ th'[t].d = th[t].d /\ th'[t].o = th[t].o
           /\ th'[t].todo = th[t].todo /\ th'[t].list = th[t].list
BY DEF TablesInv, ThreadsFit, Thread, Goto

LEMMA OneKeeps ==
    ASSUME NEW t \in Threads, \A s \in Threads \ {t} : th'[s] = th[s],
           Holding(t)' <=> Holding(t), Holding(t) => th'[t].o = th[t].o
    PROVE  HoldersKept
BY DEF HoldersKept, Holding

LEMMA IdleIsThread == Idle \in Thread /\ Idle.at = "idle" /\ Idle.o = 0 /\ Idle.todo = {} /\ Idle.list = {}
BY DEF Idle, Thread, ThreadStates

\* Done leaves a goroutine without an object; what it has listed it still has.
LEMMA DoneMoves ==
    ASSUME TablesInv, NEW t \in Threads, Done(t)
    PROVE  /\ th' \in [Threads -> Thread] /\ \A s \in Threads \ {t} : th'[s] = th[s]
           /\ th'[t].at \in {"next", "idle"} /\ th'[t].list \subseteq th[t].list
<1>1. th \in [Threads -> Thread] /\ th[t] \in Thread
  BY DEF TablesInv, ThreadsFit
<1> DEFINE next == [Idle EXCEPT !.at = "next", !.list = th[t].list]
<1>2. next \in Thread
  BY <1>1, IdleIsThread DEF Thread, ThreadStates
<1>3. next.at = "next" /\ next.list = th[t].list
  BY IdleIsThread DEF Thread
<1>4. th' = [th EXCEPT ![t] = next] \/ th' = [th EXCEPT ![t] = Idle]
  BY DEF Done
<1> HIDE DEF next
<1> QED
  BY <1>1, <1>2, <1>3, <1>4, IdleIsThread

----------------------------------------------------------------------------
(* acServer, and the goroutine that is told of its stop                     *)

LEMMA ServerSteps ==
    ASSUME TablesInv, StartServer \/ Drained \/ \E d \in Drivers : Vanish(d) PROVE TablesInv'
<1>1. UNCHANGED <<tables, objects, readers, th, cars, stored>>
  BY DEF StartServer, Drained, Vanish
<1>2. WorldFits'
  BY <1>1 DEF StartServer, Drained, Vanish, TablesInv, WorldFits, cars, stored
<1>3. Owned'
  BY <1>1 DEF StartServer, Drained, Vanish, TablesInv, Owned, objects, Holding, world
<1> QED
  BY <1>1, <1>2, <1>3, Framed DEF TablesInv, tables, objects, cars, stored

LEMMA AgeStep == ASSUME TablesInv, NEW o \in Objects, Age(o) PROVE TablesInv'
<1>1. UNCHANGED <<tables, mutex, overwritten, readers, th, cars, stored, world>>
  BY DEF Age
<1>2. /\ obj' \in [Objects -> [d : Drivers \cup {NoDriver}, laps : BOOLEAN, fresh : BOOLEAN]]
      /\ \A p \in Objects : obj'[p].d = obj[p].d
  BY DEF Age, TablesInv, TablesFit
<1>3. ThreadsFit'
  <2> SUFFICES ASSUME NEW s \in Threads PROVE Fits(s)'
    BY <1>1 DEF TablesInv, ThreadsFit
  <2>1. Fits(s) /\ th[s] \in Thread
    BY DEF TablesInv, ThreadsFit
  <2>2. /\ th[s].at \in WithObject => th[s].o \in Objects
        /\ th[s].list \subseteq Objects /\ {"connLock", "connAdd"} \subseteq WithObject
    BY <2>1 DEF Fits, Thread, Objects, WithObject
  <2> QED
    BY <1>1, <1>2, <2>1, <2>2 DEF Fits, tables
<1>4. TablesFit'
  <2>1. \A d \in Drivers : /\ conn[d] # 0 => conn[d] \in Objects
                           /\ disc[d] # 0 => disc[d] \in Objects
    BY DEF TablesInv, TablesFit, Objects
  <2> QED
    BY <1>1, <1>2, <2>1 DEF TablesInv, TablesFit, tables
<1> QED
  BY <1>1, <1>3, <1>4, Framed DEF TablesInv, tables, objects, cars, stored, world

\* Nothing but the state of one goroutine that has no object, and the server.
LEMMA InfoSteps ==
    ASSUME TablesInv, NEW i \in Infos, StopServer \/ Version(i) \/ Ticker(i) \/ Asked(i)
    PROVE  TablesInv'
<1>1. UNCHANGED <<tables, objects, readers, cars, stored, serverRuns, handled>>
  BY DEF StopServer, Version, Ticker, Asked, world
<1>2. WorldFits' /\ (server' = "crashed" <=> server = "crashed")
  BY <1>1 DEF StopServer, Version, Ticker, Asked, TablesInv, WorldFits, cars, stored, world
<1>3. CASE UNCHANGED th
  <2>1. Owned'
    BY <1>1, <1>2, <1>3 DEF TablesInv, Owned, objects, Holding
  <2> QED
    BY <1>1, <1>2, <1>3, <2>1, Framed DEF TablesInv, tables, objects, stored
<1>4. ASSUME NEW j \in Infos, NEW at \in {"listen", "asking", "stopped"}, Goto(j, at),
             th[j].at \in {"idle", "listen", "asking"}
      PROVE  TablesInv'
  <2>1. j \in Threads /\ at \in ThreadStates
    BY ThreadsAre DEF ThreadStates
  <2>2. /\ th' \in [Threads -> Thread] /\ \A s \in Threads \ {j} : th'[s] = th[s]
        /\ th'[j].at = at /\ th'[j].list = th[j].list
    BY <1>4, <2>1, GotoMoves
  <2>3. Fits(j)'
    BY <1>1, <2>1, <2>2 DEF TablesInv, ThreadsFit, Fits, WithObject, WithDriver, objects
  <2>4. ThreadsFit'
    BY <1>1, <2>1, <2>2, <2>3, OneMoves DEF TablesInv, tables, objects
  <2>5. HoldersKept
    BY <1>4, <2>1, <2>2, OneKeeps DEF Holding
  <2>6. Owned'
    BY <1>1, <1>2, <2>5, OwnedKept DEF TablesInv, objects
  <2> QED
    BY <1>1, <1>2, <2>4, <2>6, Framed DEF TablesInv, tables, objects, stored
<1>5. \/ UNCHANGED th
      \/ \E j \in Infos, at \in {"listen", "asking", "stopped"} :
            Goto(j, at) /\ th[j].at \in {"idle", "listen", "asking"}
  BY IdleIsThread DEF StopServer, Version, Ticker, Asked
<1> QED
  BY <1>3, <1>4, <1>5

----------------------------------------------------------------------------
(* Steps that every kind of goroutine takes                                 *)

LEMMA EachSteps ==
    ASSUME TablesInv, NEW t \in Threads, EachEnd(t) \/ \E d \in Drivers : EachDriver(t, d)
    PROVE  TablesInv'
<1>1. /\ UNCHANGED <<tables, objects, cars, session, persisted, world>> /\ th[t].at = "each"
      /\ EachEnd(t) \/ UNCHANGED loaded
  BY DEF EachEnd, EachDriver, stored
<1>2. th[t] \in Thread /\ th \in [Threads -> Thread] /\ Fits(t)
  BY DEF TablesInv, ThreadsFit
<1>3. \A s \in Threads \ {t} : th'[s] = th[s]
  BY <1>2 DEF EachEnd, EachDriver, Goto
<1>4. CASE EachEnd(t)
  <2>0. /\ Goto(t, "next") \/ Goto(t, "load")
        /\ {"next", "load"} \subseteq ThreadStates
    BY <1>4 DEF EachEnd, ThreadStates
  <2>1. th' \in [Threads -> Thread] /\ th'[t].at \in {"next", "load"} /\ th'[t].list = th[t].list
    BY <2>0, GotoMoves
  <2>2. readers' = readers \ {t}
    BY <1>4 DEF EachEnd
  <2>3. Fits(t)'
    BY <1>1, <1>2, <2>1 DEF Fits, objects, WithObject, WithDriver
  <2>4. ThreadsFit'
    BY <1>1, <1>3, <2>1, <2>2, <2>3, OneMoves DEF TablesInv, tables, objects
  <2>5. HoldersKept
    BY <1>1, <1>3, <2>1, OneKeeps DEF Holding
  <2>6. Owned' /\ WorldFits'
    BY <1>1, <2>2, <2>5, OwnedKept DEF TablesInv, WorldFits, objects, cars, world
  <2>7. StoreFits'
    <3>1. loaded' \in {loaded, persisted.drivers, <<>>} /\ Timings(<<>>)
      BY <1>4 DEF EachEnd, Timings
    <3> QED
      BY <1>1, <3>1 DEF TablesInv, StoreFits, Timings
  <2> QED
    BY <1>1, <2>4, <2>6, <2>7, Framed DEF TablesInv, tables, objects
<1>5. ASSUME NEW d \in Drivers, EachDriver(t, d) PROVE TablesInv'
  <2>1. d \in th[t].todo /\ UNCHANGED readers
    BY <1>5 DEF EachDriver
  <2>2. conn[d] \in Objects /\ obj[conn[d]].d = d
    BY <1>1, <1>2, <2>1 DEF Fits, TablesInv, TablesFit, Objects
  <2>3. /\ th' \in [Threads -> Thread] /\ th'[t].at = "each"
        /\ th'[t].todo \subseteq th[t].todo /\ th'[t].list \subseteq th[t].list \cup {conn[d]}
    BY <1>1, <1>2, <1>5, <2>2 DEF EachDriver, Thread
  <2>4. Fits(t)'
    BY <1>1, <1>2, <2>1, <2>2, <2>3 DEF Fits, objects, tables, WithObject, WithDriver
  <2>5. ThreadsFit'
    BY <1>1, <1>3, <2>1, <2>3, <2>4, OneMoves DEF TablesInv, tables, objects
  <2>6. HoldersKept
    BY <1>1, <1>3, <2>3, OneKeeps DEF Holding
  <2>7. Owned'
    BY <1>1, <2>6, OwnedKept DEF TablesInv, objects, world
  <2>8. UNCHANGED loaded
    BY <1>5 DEF EachDriver, stored
  <2> QED
    BY <1>1, <2>1, <2>5, <2>7, <2>8, Framed DEF TablesInv, tables, objects, cars, world
<1> QED
  BY <1>4, <1>5

LEMMA NextSteps == ASSUME TablesInv, NEW t \in Threads, NextDriver(t) PROVE TablesInv'
<1>1. UNCHANGED <<tables, objects, readers, cars, stored, world>> /\ th[t].at = "next"
  BY DEF NextDriver
<1>2. th[t] \in Thread /\ th \in [Threads -> Thread] /\ Fits(t)
  BY DEF TablesInv, ThreadsFit
<1>3. CASE th' = [th EXCEPT ![t] = Idle]
  <2>1. /\ th' \in [Threads -> Thread] /\ th'[t] = Idle /\ \A s \in Threads \ {t} : th'[s] = th[s]
    BY <1>2, <1>3, IdleIsThread
  <2>2. Fits(t)' /\ ~Holding(t) /\ ~Holding(t)'
    BY <1>1, <2>1, IdleIsThread DEF Fits, WithObject, WithDriver, Holding
  <2> QED
    BY <1>1, <2>1, <2>2, OneMoves, OneKeeps, OwnedKept, Framed
       DEF TablesInv, tables, objects, cars, stored, world
<1>4. ASSUME NEW o \in th[t].list,
             th' = [th EXCEPT ![t].at = "disconnect", ![t].d = obj[o].d, ![t].list = @ \ {o}]
      PROVE  TablesInv'
  <2>1. o \in Objects /\ obj[o].d \in Drivers
    BY <1>2, <1>4 DEF Fits, Thread
  <2>2. /\ th' \in [Threads -> Thread] /\ \A s \in Threads \ {t} : th'[s] = th[s]
        /\ th'[t].at = "disconnect" /\ th'[t].d = obj[o].d /\ th'[t].list \subseteq th[t].list
    BY <1>2, <1>4, <2>1 DEF Thread, ThreadStates
  <2>3. Fits(t)' /\ ~Holding(t) /\ ~Holding(t)'
    BY <1>1, <1>2, <2>1, <2>2 DEF Fits, WithObject, WithDriver, Holding, objects
  <2> QED
    BY <1>1, <2>2, <2>3, OneMoves, OneKeeps, OwnedKept, Framed
       DEF TablesInv, tables, objects, cars, stored, world
<1> QED
  BY <1>3, <1>4 DEF NextDriver, Next1

LEMMA UnlockSteps == ASSUME TablesInv, NEW t \in Threads, Unlock(t) PROVE TablesInv'
<1>1. /\ UNCHANGED <<tables, obj, overwritten, cars, stored, online, serverRuns, handled>>
      /\ th[t].at = "unlock"
  BY DEF Unlock
<1>2. th[t] \in Thread /\ th \in [Threads -> Thread] /\ Fits(t) /\ th[t].o \in Objects
  BY <1>1 DEF TablesInv, ThreadsFit, Fits, WithObject, Thread, Objects
<1>3. CASE ~mutex[th[t].o]
  <2>1. /\ th' = [s \in Threads |-> [Idle EXCEPT !.at = "dead"]]
        /\ server' = "crashed" /\ readers' = {} /\ UNCHANGED mutex
    BY <1>3 DEF Unlock
  <2>2. ThreadsFit'
    BY <2>1 DEF ThreadsFit, Fits, Idle, Thread, ThreadStates, WithObject, WithDriver
  <2>3. server # "crashed" => th[t].o \in overwritten
    BY <1>1, <1>2, <1>3 DEF TablesInv, Owned, Holding
  <2>4. Owned'
    BY <1>1, <2>1, <2>3 DEF TablesInv, Owned
  <2>5. WorldFits'
    BY <1>1, <2>1 DEF TablesInv, WorldFits, cars, stored
  <2> QED
    BY <1>1, <2>2, <2>4, <2>5, Framed DEF TablesInv, tables, stored
<1>4. CASE mutex[th[t].o]
  <2>1. UNCHANGED <<readers, server>> /\ Done(t) /\ mutex' = [mutex EXCEPT ![th[t].o] = FALSE]
    BY <1>4 DEF Unlock
  <2>2. /\ th' \in [Threads -> Thread] /\ \A s \in Threads \ {t} : th'[s] = th[s]
        /\ th'[t].at \in {"next", "idle"} /\ th'[t].list \subseteq th[t].list
    BY <2>1, DoneMoves
  <2>3. Fits(t)' /\ ~Holding(t)' /\ Holding(t)
    BY <1>1, <1>2, <2>2 DEF Fits, WithObject, WithDriver, Holding
  <2>4. ThreadsFit'
    BY <1>1, <2>1, <2>2, <2>3, OneMoves DEF TablesInv, tables
  <2>5. mutex' \in [Objects -> BOOLEAN] /\ \A s \in Threads \ {t} : Holding(s)' <=> Holding(s)
    BY <2>1, <2>2 DEF TablesInv, Owned, Holding
  <2>6. ASSUME server # "crashed", NEW o \in Objects \ overwritten
        PROVE  /\ mutex'[o] <=> \E s \in Threads : Holding(s)' /\ th'[s].o = o
               /\ \A s, u \in Threads : Holding(s)' /\ Holding(u)' /\ th'[s].o = o /\ th'[u].o = o => s = u
    <3>1. /\ mutex[o] <=> \E s \in Threads : Holding(s) /\ th[s].o = o
          /\ \A s, u \in Threads : Holding(s) /\ Holding(u) /\ th[s].o = o /\ th[u].o = o => s = u
      BY <2>6 DEF TablesInv, Owned
    <3>2. mutex'[o] = (IF o = th[t].o THEN FALSE ELSE mutex[o])
      BY <2>1 DEF TablesInv, Owned
    <3> QED
      BY <2>2, <2>3, <2>5, <3>1, <3>2
  <2>7. Owned'
    BY <1>1, <2>1, <2>5, <2>6 DEF TablesInv, Owned
  <2> QED
    BY <1>1, <2>1, <2>4, <2>7, Framed DEF TablesInv, tables, cars, stored
<1> QED
  BY <1>3, <1>4

LEMMA DisconnectSteps ==
    ASSUME TablesInv, NEW t \in Threads, DisconnectGet(t) \/ DisconnectLock(t)
    PROVE  TablesInv'
<1>1. UNCHANGED <<tables, obj, overwritten, readers, queue, stored, world>>
  BY DEF DisconnectGet, DisconnectLock, objects, cars
<1>2. th[t] \in Thread /\ th \in [Threads -> Thread] /\ Fits(t)
  BY DEF TablesInv, ThreadsFit
<1>3. WorldFits'
  BY <1>1 DEF DisconnectGet, DisconnectLock, TablesInv, WorldFits, cars, stored, world
<1>4. CASE DisconnectGet(t)
  <2>1. UNCHANGED mutex /\ th[t].at = "disconnect" /\ th[t].d \in Drivers
    BY <1>2, <1>4 DEF DisconnectGet, objects, Fits, WithDriver
  <2>2. /\ th' \in [Threads -> Thread] /\ \A s \in Threads \ {t} : th'[s] = th[s]
        /\ th'[t].at \in {"next", "idle", "discLock"} /\ th'[t].list \subseteq th[t].list
        /\ th'[t].at = "discLock" => th'[t].o \in Objects /\ obj[th'[t].o].d \in Drivers
    <3>1. CASE conn[th[t].d] = 0
      BY <1>4, <3>1, DoneMoves DEF DisconnectGet
    <3>2. CASE conn[th[t].d] # 0
      <4>1. /\ conn[th[t].d] \in 0..MaxObjects /\ conn[th[t].d] \in Objects
            /\ obj[conn[th[t].d]].d \in Drivers
        BY <2>1, <3>2 DEF TablesInv, TablesFit, Objects
      <4>2. th' = [th EXCEPT ![t].at = "discLock", ![t].o = conn[th[t].d]]
        BY <1>4, <3>2 DEF DisconnectGet
      <4> QED
        BY <1>2, <4>1, <4>2 DEF Thread, ThreadStates
    <3> QED
      BY <3>1, <3>2
  <2>3. Fits(t)' /\ ~Holding(t) /\ ~Holding(t)'
    BY <1>1, <1>2, <2>1, <2>2 DEF Fits, WithObject, WithDriver, Holding, Objects
  <2> QED
    BY <1>1, <1>3, <2>1, <2>2, <2>3, OneMoves, OneKeeps, OwnedKept, Framed
       DEF TablesInv, tables, stored, world
<1>5. CASE DisconnectLock(t)
  <2>1. th[t].at = "discLock" /\ Lock(t) /\ Goto(t, "connDel") /\ "connDel" \in ThreadStates
    BY <1>5 DEF DisconnectLock, ThreadStates
  <2>2. /\ th' \in [Threads -> Thread] /\ \A s \in Threads \ {t} : th'[s] = th[s]
        /\ th'[t].at = "connDel" /\ th'[t].o = th[t].o /\ th'[t].list = th[t].list
    BY <2>1, GotoMoves
  <2>3. Fits(t)' /\ ~Holding(t) /\ Holding(t)' /\ th[t].o \in Objects
    BY <1>1, <1>2, <2>1, <2>2 DEF Fits, WithObject, WithDriver, Holding, Objects, Thread
  <2>4. Owned'
    BY <1>1, <2>1, <2>2, <2>3, OwnedLock DEF TablesInv, world
  <2> QED
    BY <1>1, <1>3, <2>2, <2>3, <2>4, OneMoves, Framed DEF TablesInv, tables, stored
<1> QED
  BY <1>4, <1>5

\* A writer waits until nobody reads.
LEMMA WriteSteps ==
    ASSUME TablesInv, NEW t \in Threads, DisconnectDel(t) \/ DisconnectAdd(t) PROVE TablesInv'
<1>1. UNCHANGED <<objects, readers, cars, stored, world>>
  BY DEF DisconnectDel, DisconnectAdd
<1>2. th[t] \in Thread /\ th \in [Threads -> Thread] /\ Fits(t)
  BY DEF TablesInv, ThreadsFit
<1>3. th[t].o \in Objects /\ obj[th[t].o].d \in Drivers
  BY <1>2 DEF DisconnectDel, DisconnectAdd, Fits, WithObject, Thread, Objects
<1>4. /\ th' \in [Threads -> Thread] /\ \A s \in Threads \ {t} : th'[s] = th[s]
      /\ th'[t].at \in {"discAdd", "unlock"} /\ th'[t].o = th[t].o /\ th'[t].list = th[t].list
  BY GotoMoves DEF DisconnectDel, DisconnectAdd, ThreadStates
<1>5. Fits(t)' /\ Holding(t) /\ Holding(t)'
  BY <1>1, <1>2, <1>3, <1>4
     DEF DisconnectDel, DisconnectAdd, Fits, WithObject, WithDriver, Holding, Objects, objects
<1>6. UNCHANGED conn \/ readers = {}
  BY DEF DisconnectDel, DisconnectAdd, CanWrite
<1>7. ThreadsFit' /\ Owned'
  BY <1>1, <1>4, <1>5, <1>6, OneMoves, OneKeeps, OwnedKept DEF TablesInv, objects, world
<1>8. TablesFit'
  <2>1. CASE DisconnectDel(t)
    BY <1>1, <1>3, <2>1 DEF DisconnectDel, TablesInv, TablesFit, objects
  <2>2. CASE DisconnectAdd(t)
    BY <1>1, <1>3, <2>2 DEF DisconnectAdd, TablesInv, TablesFit, objects, Objects
  <2> QED
    BY <2>1, <2>2
<1> QED
  BY <1>1, <1>7, <1>8, Framed DEF TablesInv, cars, stored, world

LEMMA ThreadSteps == ASSUME TablesInv, NEW t \in Threads, ThreadStep(t) PROVE TablesInv'
BY EachSteps, NextSteps, UnlockSteps, DisconnectSteps, WriteSteps DEF ThreadStep

----------------------------------------------------------------------------
(* The goroutines that read the tables as a whole                           *)

LEMMA NewIsFree ==
    ASSUME Unused # {}
    PROVE  NewObject \in Objects /\ NewObject \notin Used
BY DEF NewObject, Unused

LEMMA UsedTables ==
    ASSUME NEW d \in Drivers PROVE conn[d] \in Used /\ disc[d] \in Used
<1> DEFINE held == {{conn[e], disc[e]} : e \in Drivers}
<1>1. {conn[d], disc[d]} \in held
  OBVIOUS
<1>2. UNION held \subseteq Used
  BY DEF Used
<1> HIDE DEF held
<1> QED
  BY <1>1, <1>2

\* What is persisted: a connected driver hides the disconnected one.
LEMMA PersistFits == ASSUME TablesInv, Persist, UNCHANGED loaded PROVE StoreFits'
<1>1. ASSUME NEW d \in Drivers, conn[d] # 0 \/ disc[d] # 0 PROVE Laps(d) \in BOOLEAN
  <2>1. (IF conn[d] # 0 THEN conn[d] ELSE disc[d]) \in Objects
    BY <1>1 DEF TablesInv, TablesFit, Objects
  <2> QED
    BY <2>1 DEF TablesInv, TablesFit, Laps
<1>2. persisted'.drivers = [d \in {e \in Drivers : conn[e] # 0 \/ disc[e] # 0} |-> Laps(d)]
  BY DEF Persist
<1> QED
  BY <1>1, <1>2 DEF TablesInv, StoreFits, Timings

LEMMA StoppedStep == ASSUME TablesInv, NEW i \in Infos, Stopped(i) PROVE TablesInv'
<1>1. UNCHANGED <<tables, objects, readers, cars, session, loaded, world>> /\ th[i].at = "stopped" /\ Persist
  BY DEF Stopped
<1>2. i \in Threads /\ th[i] \in Thread /\ th \in [Threads -> Thread] /\ Fits(i)
  BY ThreadsAre DEF TablesInv, ThreadsFit
<1> DEFINE all == {conn[d] : d \in Drivers} \ {0}
<1>3. all \in SUBSET Objects /\ \A o \in all : obj[o].d \in Drivers
  BY DEF TablesInv, TablesFit, Objects
<1>4. th' = [th EXCEPT ![i].at = "next", ![i].list = all]
  BY DEF Stopped
<1> HIDE DEF all
<1>5. /\ th' \in [Threads -> Thread] /\ \A s \in Threads \ {i} : th'[s] = th[s]
      /\ th'[i].at = "next" /\ th'[i].list = all
  BY <1>2, <1>3, <1>4 DEF Thread, ThreadStates
<1>6. Fits(i)' /\ ~Holding(i) /\ ~Holding(i)'
  BY <1>1, <1>3, <1>5 DEF Fits, WithObject, WithDriver, Holding, objects
<1> QED
  BY <1>1, <1>2, <1>5, <1>6, PersistFits, OneMoves, OneKeeps, OwnedKept, Framed
     DEF TablesInv, tables, objects, cars, world

LEMMA WatchStep == ASSUME TablesInv, Watch PROVE TablesInv'
<1>1. UNCHANGED <<tables, objects, cars, stored, world>> /\ th["watch"] = Idle /\ EachBegin("watch")
  BY DEF Watch
<1>2. "watch" \in Threads /\ th["watch"] \in Thread /\ th \in [Threads -> Thread]
  BY ThreadsAre DEF TablesInv, ThreadsFit
<1>3. readers' = readers \cup {"watch"} /\ WorldFits'
  BY <1>1 DEF EachBegin, TablesInv, WorldFits, cars, stored, world
<1>4. /\ th' \in [Threads -> Thread] /\ \A s \in Threads \ {"watch"} : th'[s] = th[s]
      /\ th'["watch"].at = "each" /\ th'["watch"].list = {}
      /\ th'["watch"].todo = {d \in Drivers : conn[d] # 0}
  BY <1>1, <1>2, IdleIsThread DEF EachBegin, Thread, ThreadStates
<1>5. Fits("watch")' /\ ~Holding("watch") /\ ~Holding("watch")'
  BY <1>1, <1>3, <1>4, IdleIsThread DEF Fits, WithObject, WithDriver, Holding, tables
<1> QED
  BY <1>1, <1>2, <1>3, <1>4, <1>5, OneMoves, OneKeeps, OwnedKept, Framed
     DEF TablesInv, tables, objects, stored, world

----------------------------------------------------------------------------
(* The goroutine that handles UDP messages, and those of the cars           *)

\* A goroutine that begins something about a driver, without and with an object.
Plain(at, d) == [Idle EXCEPT !.at = at, !.d = d]
Taken(at, d, o) == [Idle EXCEPT !.at = at, !.d = d, !.o = o]

LEMMA PlainIs ==
    ASSUME NEW at \in ThreadStates, NEW d \in Drivers
    PROVE  Plain(at, d) \in Thread /\ Plain(at, d).at = at /\ Plain(at, d).d = d /\ Plain(at, d).list = {}
BY IdleIsThread DEF Plain, Thread

LEMMA TakenIs ==
    ASSUME NEW at \in ThreadStates, NEW d \in Drivers, NEW o \in 0..MaxObjects
    PROVE  /\ Taken(at, d, o) \in Thread /\ Taken(at, d, o).at = at /\ Taken(at, d, o).d = d
           /\ Taken(at, d, o).o = o /\ Taken(at, d, o).list = {}
BY IdleIsThread DEF Taken, Thread

\* A message begins.
LEMMA MessageSteps ==
    ASSUME TablesInv, NEW d \in Drivers, Connect(d) \/ Disconnect(d) \/ Lap(d) \/ CarUpdate(d)
    PROVE  TablesInv'
<1>1. /\ UNCHANGED <<conn, objects, readers, queue, stored, server, serverRuns>> /\ th["udp"] = Idle
      /\ handled' = handled + 1 /\ handled < MaxMessages
  BY DEF Connect, Disconnect, Lap, CarUpdate, Message, tables, cars
<1>2. "udp" \in Threads /\ th["udp"] \in Thread /\ th \in [Threads -> Thread]
  BY ThreadsAre DEF TablesInv, ThreadsFit
<1>3. updater' \subseteq Drivers /\ online' \subseteq Drivers
  BY DEF Connect, Disconnect, Lap, CarUpdate, TablesInv, WorldFits, cars
<1>4. WorldFits'
  BY <1>1, <1>3 DEF TablesInv, WorldFits, stored
<1>5. disc' \in [Drivers -> 0..MaxObjects] /\ \A e \in Drivers : disc'[e] \in {0, disc[e]}
  BY DEF Connect, Disconnect, Lap, CarUpdate, TablesInv, TablesFit, tables
<1>6. TablesFit'
  BY <1>1, <1>5 DEF TablesInv, TablesFit, objects
<1>7. /\ conn[d] \in 0..MaxObjects /\ disc[d] \in 0..MaxObjects
      /\ conn[d] # 0 => obj[conn[d]].d = d /\ conn[d] \in Objects
      /\ disc[d] # 0 => obj[disc[d]].d = d /\ disc[d] \in Objects
  BY DEF TablesInv, TablesFit, Objects
<1>8. /\ th' \in [Threads -> Thread] /\ \A s \in Threads \ {"udp"} : th'[s] = th[s]
      /\ th'["udp"].list = {} /\ th'["udp"].d = d
      /\ \/ th'["udp"].at \in {"connGet", "disconnect", "send"}
         \/ th'["udp"].at \in {"connLock", "lapLock"} /\ th'["udp"].o # 0 /\ obj[th'["udp"].o].d = d
  <2>1. \/ \E at \in {"disconnect", "send"} : th' = [th EXCEPT !["udp"] = Plain(at, d)]
        \/ th' = [th EXCEPT !["udp"] = Taken("connGet", d, disc[d])]
        \/ disc[d] # 0 /\ th' = [th EXCEPT !["udp"] = Taken("connLock", d, disc[d])]
        \/ conn[d] # 0 /\ th' = [th EXCEPT !["udp"] = Taken("lapLock", d, conn[d])]
    <3>1. CASE Connect(d)
      <4>1. th' = [th EXCEPT !["udp"] = Taken(IF disc[d] = 0 THEN "connGet" ELSE "connLock", d, disc[d])]
        BY <3>1 DEF Connect, Taken
      <4> QED
        BY <4>1
    <3>2. CASE Disconnect(d)
      BY <3>2 DEF Disconnect, Plain
    <3>3. CASE Lap(d)
      BY <3>3 DEF Lap, Taken
    <3>4. CASE CarUpdate(d)
      BY <3>4 DEF CarUpdate, Plain
    <3> QED
      BY <3>1, <3>2, <3>3, <3>4
  <2>2. {"disconnect", "send", "connGet", "connLock", "lapLock"} \subseteq ThreadStates
    BY DEF ThreadStates
  <2> QED
    BY <1>2, <1>7, <2>1, <2>2, PlainIs, TakenIs
<1>9. Fits("udp")' /\ ~Holding("udp") /\ ~Holding("udp")'
  BY <1>1, <1>8, IdleIsThread DEF Fits, WithObject, WithDriver, Holding, objects
<1> QED
  BY <1>1, <1>2, <1>4, <1>6, <1>8, <1>9, OneMoves, OneKeeps, OwnedKept, Framed
     DEF TablesInv, objects, stored

\* A goroutine locks the mutex of its object and changes what is not the driver in it.
LEMMA LockSteps ==
    ASSUME TablesInv, NEW t \in Threads,
           (t = "udp" /\ (ConnectLock \/ LapLock)) \/ HandleUpdate(t)
    PROVE  TablesInv'
<1>1. /\ UNCHANGED <<tables, overwritten, readers, cars, stored, world>> /\ Lock(t)
      /\ th[t].at \in {"connLock", "lapLock", "carLock"}
      /\ \/ Goto(t, "connAdd") /\ th[t].at = "connLock"
         \/ Goto(t, "lapEach") \/ Goto(t, "unlock")
      /\ \E laps, fresh \in BOOLEAN :
            \/ obj' = [obj EXCEPT ![th[t].o].laps = laps]
            \/ obj' = [obj EXCEPT ![th[t].o].fresh = fresh]
  BY DEF ConnectLock, LapLock, HandleUpdate
<1>2. th[t] \in Thread /\ th \in [Threads -> Thread] /\ Fits(t)
  BY DEF TablesInv, ThreadsFit
<1>3. th[t].o \in Objects
  BY <1>1, <1>2 DEF Fits, WithObject, Thread, Objects
<1>4. /\ obj' \in [Objects -> [d : Drivers \cup {NoDriver}, laps : BOOLEAN, fresh : BOOLEAN]]
      /\ \A o \in Objects : obj'[o].d = obj[o].d
  BY <1>1, <1>3 DEF TablesInv, TablesFit
<1>5. {"connAdd", "lapEach", "unlock"} \subseteq ThreadStates
  BY DEF ThreadStates
<1>6. /\ th' \in [Threads -> Thread] /\ \A s \in Threads \ {t} : th'[s] = th[s]
      /\ th'[t].at \in {"connAdd", "lapEach", "unlock"} /\ th'[t].o = th[t].o /\ th'[t].d = th[t].d
      /\ th'[t].list = th[t].list
      /\ th'[t].at = "connAdd" => th[t].at = "connLock"
  BY <1>1, <1>5, GotoMoves
<1>7. Fits(t)' /\ ~Holding(t) /\ Holding(t)'
  BY <1>1, <1>2, <1>3, <1>4, <1>6 DEF Fits, WithObject, WithDriver, Holding, Thread
<1>8. Owned'
  BY <1>1, <1>3, <1>6, <1>7, OwnedLock DEF TablesInv, world
<1>9. ThreadsFit'
  BY <1>1, <1>4, <1>6, <1>7, OneMoves DEF TablesInv, tables
<1>10. TablesFit'
  <2>1. \A d \in Drivers : /\ conn[d] # 0 => conn[d] \in Objects
                           /\ disc[d] # 0 => disc[d] \in Objects
    BY DEF TablesInv, TablesFit, Objects
  <2> QED
    BY <1>1, <1>4, <2>1 DEF TablesInv, TablesFit, tables
<1> QED
  BY <1>1, <1>8, <1>9, <1>10, Framed DEF TablesInv, tables, cars, stored, world

\* A new object takes the place of none that is in use.
LEMMA ObjectMade ==
    ASSUME TablesInv, Unused # {}, NEW d \in Drivers, NEW laps \in BOOLEAN,
           obj' = [obj EXCEPT ![NewObject] = New(d, laps)]
    PROVE  /\ obj' \in [Objects -> [d : Drivers \cup {NoDriver}, laps : BOOLEAN, fresh : BOOLEAN]]
           /\ \A o \in Objects : o \in Used => obj'[o].d = obj[o].d
           /\ NewObject \in Objects /\ obj'[NewObject].d = d
           /\ \A e \in Drivers : /\ conn[e] # 0 => obj'[conn[e]].d = e
                                 /\ disc[e] # 0 => obj'[disc[e]].d = e
<1>1. NewObject \in Objects /\ NewObject \notin Used
  BY NewIsFree
<1>2. New(d, laps) \in [d : Drivers \cup {NoDriver}, laps : BOOLEAN, fresh : BOOLEAN] /\ New(d, laps).d = d
  BY DEF New
<1>3. obj \in [Objects -> [d : Drivers \cup {NoDriver}, laps : BOOLEAN, fresh : BOOLEAN]]
  BY DEF TablesInv, TablesFit
<1>4. /\ obj' \in [Objects -> [d : Drivers \cup {NoDriver}, laps : BOOLEAN, fresh : BOOLEAN]]
      /\ \A o \in Objects : o \in Used => obj'[o].d = obj[o].d
      /\ obj'[NewObject].d = d
  BY <1>1, <1>2, <1>3
<1>5. \A e \in Drivers : conn[e] \in Used /\ disc[e] \in Used
  BY UsedTables
<1>6. \A e \in Drivers : /\ conn[e] # 0 => conn[e] \in Objects /\ obj[conn[e]].d = e
                         /\ disc[e] # 0 => disc[e] \in Objects /\ obj[disc[e]].d = e
  BY DEF TablesInv, TablesFit, Objects
<1> QED
  BY <1>1, <1>4, <1>5, <1>6

LEMMA ConnectGetStep == ASSUME TablesInv, ConnectGet PROVE TablesInv'
<1> DEFINE d == th["udp"].d
<1>1. UNCHANGED <<tables, mutex, overwritten, readers, cars, stored, world>> /\ th["udp"].at = "connGet"
  BY DEF ConnectGet
<1>2. "udp" \in Threads /\ th["udp"] \in Thread /\ th \in [Threads -> Thread] /\ Fits("udp")
  BY ThreadsAre DEF TablesInv, ThreadsFit
<1>3. d \in Drivers
  BY <1>1, <1>2 DEF Fits, WithDriver
<1>4. ASSUME NEW o \in Objects, th' = [th EXCEPT !["udp"].at = "connLock", !["udp"].o = o],
             obj'[o].d = d, \A p \in Objects : p \in Used => obj'[p].d = obj[p].d
      PROVE  ThreadsFit' /\ Owned'
  <2>1. /\ th' \in [Threads -> Thread] /\ \A s \in Threads \ {"udp"} : th'[s] = th[s]
        /\ th'["udp"].at = "connLock" /\ th'["udp"].o = o /\ th'["udp"].d = d
        /\ th'["udp"].list = th["udp"].list
    <3>1. o \in 0..MaxObjects /\ "connLock" \in ThreadStates
      BY DEF Objects, ThreadStates
    <3> QED
      BY <1>2, <1>4, <3>1 DEF Thread
  <2>2. \A p \in th["udp"].list : p \in Objects /\ p \in Used
    <3> DEFINE held == {th[t].list \cup {th[t].o} : t \in Threads}
    <3>1. th["udp"].list \cup {th["udp"].o} \in held
      BY <1>2
    <3>2. UNION held \subseteq Used
      BY DEF Used
    <3>3. th["udp"].list \subseteq Objects
      BY <1>2 DEF Thread
    <3> HIDE DEF held
    <3> QED
      BY <3>1, <3>2, <3>3
  <2>3. Fits("udp")' /\ ~Holding("udp") /\ ~Holding("udp")'
    BY <1>1, <1>2, <1>3, <1>4, <2>1, <2>2 DEF Fits, WithObject, WithDriver, Holding, Objects
  <2> QED
    BY <1>1, <1>2, <1>4, <2>1, <2>3, OneMoves, OneKeeps, OwnedKept DEF TablesInv, tables, world
<1>5. CASE conn[d] # 0 /\ th' = [th EXCEPT !["udp"].at = "connLock", !["udp"].o = conn[d]] /\ UNCHANGED obj
  <2>1. conn[d] \in Objects /\ obj[conn[d]].d = d
    BY <1>3, <1>5 DEF TablesInv, TablesFit, Objects
  <2>2. ThreadsFit' /\ Owned'
    BY <1>4, <1>5, <2>1
  <2> QED
    BY <1>1, <1>5, <2>2, Framed DEF TablesInv, tables, cars, stored, world
<1>6. CASE /\ Unused # {} /\ th' = [th EXCEPT !["udp"].at = "connLock", !["udp"].o = NewObject]
           /\ obj' = [obj EXCEPT ![NewObject] = New(d, FALSE)]
  <2>1. /\ obj' \in [Objects -> [d : Drivers \cup {NoDriver}, laps : BOOLEAN, fresh : BOOLEAN]]
        /\ \A o \in Objects : o \in Used => obj'[o].d = obj[o].d
        /\ NewObject \in Objects /\ obj'[NewObject].d = d
        /\ \A e \in Drivers : /\ conn[e] # 0 => obj'[conn[e]].d = e
                              /\ disc[e] # 0 => obj'[disc[e]].d = e
    BY <1>3, <1>6, ObjectMade
  <2>2. ThreadsFit' /\ Owned'
    BY <1>4, <1>6, <2>1
  <2>3. TablesFit'
    BY <1>1, <2>1 DEF TablesInv, TablesFit, tables
  <2> QED
    BY <1>1, <2>2, <2>3, Framed DEF TablesInv, cars, stored, world
<1> QED
  BY <1>5, <1>6 DEF ConnectGet

LEMMA ConnectAddStep == ASSUME TablesInv, ConnectAdd PROVE TablesInv'
<1>1. /\ UNCHANGED <<disc, objects, readers, cars, stored, world>> /\ th["udp"].at = "connAdd"
      /\ readers = {} /\ conn' = [conn EXCEPT ![th["udp"].d] = th["udp"].o] /\ Goto("udp", "unlock")
  BY DEF ConnectAdd, CanWrite
<1>2. "udp" \in Threads /\ th["udp"] \in Thread /\ th \in [Threads -> Thread] /\ Fits("udp")
  BY ThreadsAre DEF TablesInv, ThreadsFit
<1>3. /\ th["udp"].d \in Drivers /\ th["udp"].o \in Objects /\ th["udp"].o \in 0..MaxObjects
      /\ obj[th["udp"].o].d = th["udp"].d
  BY <1>1, <1>2 DEF Fits, WithDriver, WithObject, Thread, Objects
<1>4. /\ th' \in [Threads -> Thread] /\ \A s \in Threads \ {"udp"} : th'[s] = th[s]
      /\ th'["udp"].at = "unlock" /\ th'["udp"].o = th["udp"].o /\ th'["udp"].list = th["udp"].list
  BY <1>1, <1>2, GotoMoves DEF ThreadStates
<1>5. Fits("udp")' /\ Holding("udp") /\ Holding("udp")'
  BY <1>1, <1>2, <1>3, <1>4 DEF Fits, WithObject, WithDriver, Holding, objects, Objects
<1>6. TablesFit'
  BY <1>1, <1>3 DEF TablesInv, TablesFit, objects
<1> QED
  BY <1>1, <1>2, <1>4, <1>5, <1>6, OneMoves, OneKeeps, OwnedKept, Framed
     DEF TablesInv, objects, cars, stored, world

\* Done with its message, the goroutine has no object any more.
LEMMA SendStep == ASSUME TablesInv, SendUpdate PROVE TablesInv'
<1>1. /\ UNCHANGED <<tables, objects, readers, updater, stored, world>> /\ th["udp"].at = "send"
      /\ queue' \subseteq queue \cup updater /\ Done("udp")
  BY DEF SendUpdate
<1>2. "udp" \in Threads /\ th["udp"] \in Thread /\ Fits("udp")
  BY ThreadsAre DEF TablesInv, ThreadsFit
<1>3. /\ th' \in [Threads -> Thread] /\ \A s \in Threads \ {"udp"} : th'[s] = th[s]
      /\ th'["udp"].at \in {"next", "idle"} /\ th'["udp"].list \subseteq th["udp"].list
  BY <1>1, <1>2, DoneMoves
<1>4. Fits("udp")' /\ ~Holding("udp") /\ ~Holding("udp")'
  BY <1>1, <1>2, <1>3 DEF Fits, WithObject, WithDriver, Holding, objects
<1>5. WorldFits'
  BY <1>1 DEF TablesInv, WorldFits, stored, world
<1> QED
  BY <1>1, <1>2, <1>3, <1>4, <1>5, OneMoves, OneKeeps, OwnedKept, Framed
     DEF TablesInv, tables, objects, stored, world

LEMMA TakeStep == ASSUME TablesInv, NEW d \in Drivers, TakeUpdate(d) PROVE TablesInv'
<1>1. /\ UNCHANGED <<tables, objects, readers, updater, stored, world>> /\ th[d] = Idle
      /\ queue' \subseteq queue
  BY DEF TakeUpdate
<1>2. d \in Threads /\ th \in [Threads -> Thread]
  BY ThreadsAre DEF TablesInv, ThreadsFit
<1>3. WorldFits'
  BY <1>1 DEF TablesInv, WorldFits, stored, world
<1>4. CASE UNCHANGED th
  BY <1>1, <1>3, <1>4, Framed DEF TablesInv, tables, objects, stored, world
<1>5. CASE conn[d] # 0 /\ th' = [th EXCEPT ![d] = [Idle EXCEPT !.at = "carLock", !.o = conn[d]]]
  <2>1. conn[d] \in 0..MaxObjects /\ obj[conn[d]].d = d /\ "carLock" \in ThreadStates
    BY <1>5 DEF TablesInv, TablesFit, ThreadStates
  <2> DEFINE next == [Idle EXCEPT !.at = "carLock", !.o = conn[d]]
  <2>2. next \in Thread /\ next.at = "carLock" /\ next.o = conn[d] /\ next.list = {}
    BY <2>1, IdleIsThread DEF Thread
  <2>3. th' = [th EXCEPT ![d] = next]
    BY <1>5
  <2> HIDE DEF next
  <2>4. /\ th' \in [Threads -> Thread] /\ \A s \in Threads \ {d} : th'[s] = th[s]
        /\ th'[d].at = "carLock" /\ th'[d].o = conn[d] /\ th'[d].list = {}
    BY <1>2, <2>2, <2>3
  <2>5. Fits(d)' /\ ~Holding(d) /\ ~Holding(d)'
    BY <1>1, <1>5, <2>1, <2>4, IdleIsThread DEF Fits, WithObject, WithDriver, Holding, objects
  <2> QED
    BY <1>1, <1>2, <1>3, <2>4, <2>5, OneMoves, OneKeeps, OwnedKept, Framed
       DEF TablesInv, tables, objects, stored, world
<1> QED
  BY <1>4, <1>5 DEF TakeUpdate

LEMMA LapEachStep == ASSUME TablesInv, LapEach PROVE TablesInv'
<1>1. /\ UNCHANGED <<tables, objects, readers, cars, session, loaded, world>> /\ th["udp"].at = "lapEach"
      /\ Persist /\ Goto("udp", "unlock")
  BY DEF LapEach
<1>2. "udp" \in Threads /\ th["udp"] \in Thread /\ Fits("udp")
  BY ThreadsAre DEF TablesInv, ThreadsFit
<1>3. /\ th' \in [Threads -> Thread] /\ \A s \in Threads \ {"udp"} : th'[s] = th[s]
      /\ th'["udp"].at = "unlock" /\ th'["udp"].o = th["udp"].o /\ th'["udp"].list = th["udp"].list
  BY <1>1, <1>2, GotoMoves DEF ThreadStates
<1>4. Fits("udp")' /\ Holding("udp") /\ Holding("udp")'
  BY <1>1, <1>2, <1>3 DEF Fits, WithObject, WithDriver, Holding, objects
<1> QED
  BY <1>1, <1>2, <1>3, <1>4, PersistFits, OneMoves, OneKeeps, OwnedKept, Framed
     DEF TablesInv, tables, objects, cars, world

\* The mutexes of the connected drivers are overwritten; the objects keep their drivers.
LEMMA SessionStep == ASSUME TablesInv, NEW s \in Sessions, NewSession(s) PROVE TablesInv'
<1>1. /\ UNCHANGED <<conn, readers, cars, persisted, loaded, server, online, serverRuns>>
      /\ session' = s
      /\ th["udp"] = Idle /\ th' = [th EXCEPT !["udp"] = [Idle EXCEPT !.at = "session"]]
      /\ handled' = handled + 1 /\ handled < MaxMessages
  BY DEF NewSession, Message
<1>2. "udp" \in Threads /\ th["udp"] \in Thread /\ th \in [Threads -> Thread]
  BY ThreadsAre DEF TablesInv, ThreadsFit
<1>3. WorldFits'
  BY <1>1 DEF TablesInv, WorldFits, cars
<1> DEFINE Renewed ==
      /\ obj' = [o \in Objects |-> IF o \in Connected THEN New(obj[o].d, FALSE) ELSE obj[o]]
      /\ mutex' = [o \in Objects |-> mutex[o] /\ o \notin Connected]
      /\ overwritten' = overwritten \cup {o \in Connected : mutex[o]}
      /\ disc' = [d \in Drivers |-> 0]
<1>0. UNCHANGED <<disc, obj, mutex, overwritten>> \/ Renewed
  BY DEF NewSession, objects
<1>a. UNCHANGED obj \/ obj' = [o \in Objects |-> IF o \in Connected THEN New(obj[o].d, FALSE) ELSE obj[o]]
  BY <1>0
<1>4. /\ obj' \in [Objects -> [d : Drivers \cup {NoDriver}, laps : BOOLEAN, fresh : BOOLEAN]]
      /\ \A o \in Objects : obj'[o].d = obj[o].d
  <2>1. obj \in [Objects -> [d : Drivers \cup {NoDriver}, laps : BOOLEAN, fresh : BOOLEAN]]
    BY DEF TablesInv, TablesFit
  <2>2. CASE obj' = [o \in Objects |-> IF o \in Connected THEN New(obj[o].d, FALSE) ELSE obj[o]]
    <3>1. ASSUME NEW o \in Objects
          PROVE  /\ obj'[o] \in [d : Drivers \cup {NoDriver}, laps : BOOLEAN, fresh : BOOLEAN]
                 /\ obj'[o].d = obj[o].d
      <4>1. obj[o] \in [d : Drivers \cup {NoDriver}, laps : BOOLEAN, fresh : BOOLEAN]
        BY <2>1
      <4>2. obj'[o] = obj[o] \/ obj'[o] = New(obj[o].d, FALSE)
        BY <2>2
      <4>3. /\ New(obj[o].d, FALSE) \in [d : Drivers \cup {NoDriver}, laps : BOOLEAN, fresh : BOOLEAN]
            /\ New(obj[o].d, FALSE).d = obj[o].d
        BY <4>1 DEF New
      <4> QED
        BY <4>1, <4>2, <4>3
    <3>2. obj' = [o \in Objects |-> obj'[o]]
      BY <2>2
    <3> QED
      BY <3>1, <3>2
  <2> QED
    BY <1>a, <2>1, <2>2
<1>5. disc' \in [Drivers -> 0..MaxObjects] /\ \A e \in Drivers : disc'[e] \in {0, disc[e]}
  <2>1. UNCHANGED disc \/ disc' = [d \in Drivers |-> 0]
    BY <1>0
  <2> QED
    BY <2>1 DEF TablesInv, TablesFit
<1>6. TablesFit'
  <2>1. \A d \in Drivers : /\ conn[d] # 0 => conn[d] \in Objects /\ obj[conn[d]].d = d
                           /\ disc[d] # 0 => disc[d] \in Objects /\ obj[disc[d]].d = d
    BY DEF TablesInv, TablesFit, Objects
  <2> QED
    BY <1>1, <1>4, <1>5, <2>1 DEF TablesInv, TablesFit
<1>7. /\ th' \in [Threads -> Thread] /\ \A t \in Threads \ {"udp"} : th'[t] = th[t]
      /\ th'["udp"].at = "session" /\ th'["udp"].list = {}
  BY <1>1, <1>2, IdleIsThread DEF Thread, ThreadStates
<1>8. Fits("udp")' /\ ~Holding("udp") /\ ~Holding("udp")'
  BY <1>1, <1>7, IdleIsThread DEF Fits, WithObject, WithDriver, Holding
<1>9. ThreadsFit'
  BY <1>1, <1>2, <1>4, <1>7, <1>8, OneMoves DEF TablesInv
<1>10. HoldersKept
  BY <1>2, <1>7, <1>8, OneKeeps
<1>11. /\ mutex' \in [Objects -> BOOLEAN] /\ overwritten' \subseteq Objects /\ overwritten \subseteq overwritten'
       /\ \A o \in Objects \ overwritten' : mutex'[o] = mutex[o]
  <2>1. CASE UNCHANGED <<disc, obj, mutex, overwritten>>
    BY <2>1 DEF TablesInv, Owned
  <2>2. CASE Renewed
    <3>1. Connected \subseteq Objects
      BY DEF Connected, TablesInv, TablesFit, Objects
    <3> QED
      BY <2>2, <3>1 DEF TablesInv, Owned
  <2> QED
    BY <1>0, <2>1, <2>2
<1>12. Owned'
  BY <1>1, <1>10, <1>11 DEF TablesInv, Owned, HoldersKept
<1> QED
  BY <1>1, <1>3, <1>6, <1>9, <1>12, Framed DEF TablesInv

LEMMA SessionEachStep == ASSUME TablesInv, NewSessionEach PROVE TablesInv'
<1>1. /\ UNCHANGED <<tables, objects, cars, stored, world>> /\ th["udp"].at = "session"
      /\ EachBegin("udp")
  BY DEF NewSessionEach
<1>2. "udp" \in Threads /\ th["udp"] \in Thread /\ th \in [Threads -> Thread] /\ Fits("udp")
  BY ThreadsAre DEF TablesInv, ThreadsFit
<1>3. readers' = readers \cup {"udp"} /\ WorldFits'
  BY <1>1 DEF EachBegin, TablesInv, WorldFits, cars, stored, world
<1>4. /\ th' \in [Threads -> Thread] /\ \A s \in Threads \ {"udp"} : th'[s] = th[s]
      /\ th'["udp"].at = "each" /\ th'["udp"].list = th["udp"].list
      /\ th'["udp"].todo = {d \in Drivers : conn[d] # 0}
  BY <1>1, <1>2 DEF EachBegin, Thread, ThreadStates
<1>5. Fits("udp")' /\ ~Holding("udp") /\ ~Holding("udp")'
  BY <1>1, <1>2, <1>3, <1>4 DEF Fits, WithObject, WithDriver, Holding, tables, objects
<1> QED
  BY <1>1, <1>2, <1>3, <1>4, <1>5, OneMoves, OneKeeps, OwnedKept, Framed
     DEF TablesInv, tables, objects, stored, world

LEMMA LoadStep == ASSUME TablesInv, LoadPersisted PROVE TablesInv'
<1>1. /\ UNCHANGED <<conn, mutex, overwritten, readers, cars, session, persisted, world>>
      /\ th["udp"].at = "load"
  BY DEF LoadPersisted
<1>2. "udp" \in Threads /\ th["udp"] \in Thread /\ th \in [Threads -> Thread] /\ Fits("udp")
  BY ThreadsAre DEF TablesInv, ThreadsFit
<1>3. th["udp"].list \subseteq Objects /\ \A o \in th["udp"].list : o \in Used /\ obj[o].d \in Drivers
  <2> DEFINE held == {th[t].list \cup {th[t].o} : t \in Threads}
  <2>1. th["udp"].list \cup {th["udp"].o} \in held
    BY <1>2
  <2>2. UNION held \subseteq Used
    BY DEF Used
  <2>3. th["udp"].list \subseteq Objects /\ \A o \in th["udp"].list : obj[o].d \in Drivers
    BY <1>2 DEF Thread, Fits
  <2> HIDE DEF held
  <2> QED
    BY <2>1, <2>2, <2>3
<1>4. CASE Done("udp") /\ UNCHANGED <<disc, obj, loaded>>
  <2>1. /\ th' \in [Threads -> Thread] /\ \A s \in Threads \ {"udp"} : th'[s] = th[s]
        /\ th'["udp"].at \in {"next", "idle"} /\ th'["udp"].list \subseteq th["udp"].list
    BY <1>2, <1>4, DoneMoves
  <2>2. Fits("udp")' /\ ~Holding("udp") /\ ~Holding("udp")'
    BY <1>1, <1>2, <1>4, <2>1 DEF Fits, WithObject, WithDriver, Holding
  <2> QED
    BY <1>1, <1>2, <1>4, <2>1, <2>2, OneMoves, OneKeeps, OwnedKept, Framed
       DEF TablesInv, cars, world
<1>5. ASSUME NEW d \in DOMAIN loaded, loaded' = [e \in DOMAIN loaded \ {d} |-> loaded[e]],
             UNCHANGED th,
             \/ UNCHANGED <<disc, obj>>
             \/ /\ Unused # {} /\ disc' = [disc EXCEPT ![d] = NewObject]
                /\ obj' = [obj EXCEPT ![NewObject] = New(d, loaded[d])]
      PROVE  TablesInv'
  <2>1. d \in Drivers /\ loaded[d] \in BOOLEAN /\ StoreFits'
    BY <1>1, <1>5 DEF TablesInv, StoreFits, Timings
  <2>2. /\ \A o \in Objects : o \in Used => obj'[o].d = obj[o].d
        /\ TablesFit'
    <3>1. CASE UNCHANGED <<disc, obj>>
      BY <1>1, <3>1, Framed
    <3>2. CASE /\ Unused # {} /\ disc' = [disc EXCEPT ![d] = NewObject]
               /\ obj' = [obj EXCEPT ![NewObject] = New(d, loaded[d])]
      <4>1. /\ obj' \in [Objects -> [d : Drivers \cup {NoDriver}, laps : BOOLEAN, fresh : BOOLEAN]]
            /\ \A o \in Objects : o \in Used => obj'[o].d = obj[o].d
            /\ NewObject \in Objects /\ obj'[NewObject].d = d
            /\ \A e \in Drivers : /\ conn[e] # 0 => obj'[conn[e]].d = e
                                  /\ disc[e] # 0 => obj'[disc[e]].d = e
        BY <2>1, <3>2, ObjectMade
      <4>2. NewObject \in 0..MaxObjects
        BY <4>1 DEF Objects
      <4>3. disc' \in [Drivers -> 0..MaxObjects]
        BY <3>2, <4>2 DEF TablesInv, TablesFit
      <4>4. \A e \in Drivers : disc'[e] # 0 => obj'[disc'[e]].d = e
        BY <2>1, <3>2, <4>1 DEF TablesInv, TablesFit
      <4> QED
        BY <1>1, <4>1, <4>3, <4>4 DEF TablesInv, TablesFit
    <3> QED
      BY <1>5, <3>1, <3>2
  <2>3. Fits("udp")' /\ HoldersKept
    BY <1>1, <1>2, <1>3, <1>5, <2>2 DEF Fits, WithObject, WithDriver, HoldersKept, Holding
  <2> QED
    BY <1>1, <1>2, <1>5, <2>1, <2>2, <2>3, OneMoves, OwnedKept, Framed DEF TablesInv, cars, world
<1> QED
  BY <1>4, <1>5 DEF LoadPersisted

----------------------------------------------------------------------------
(* The invariant, and what it says                                          *)

LEMMA TablesInitInv == TablesInit => TablesInv
<1> SUFFICES ASSUME TablesInit PROVE TablesInv
  OBVIOUS
<1>1. th \in [Threads -> Thread] /\ \A t \in Threads : th[t] = Idle
  BY IdleIsThread DEF TablesInit
<1>2. ThreadsFit
  BY <1>1, IdleIsThread DEF ThreadsFit, Fits, WithObject, WithDriver
<1>3. TablesFit /\ StoreFits /\ WorldFits
  BY DEF TablesInit, TablesFit, StoreFits, Timings, WorldFits, Sessions
<1>4. Owned
  BY <1>1, IdleIsThread DEF TablesInit, Owned, Holding
<1> QED
  BY <1>2, <1>3, <1>4 DEF TablesInv

LEMMA StutterFits == ASSUME TablesInv, UNCHANGED tableVars PROVE TablesInv'
BY Framed DEF TablesInv, tableVars

LEMMA TablesStepInv == TablesInv /\ [TablesNext]_tableVars => TablesInv'
<1> SUFFICES ASSUME TablesInv, TablesNext PROVE TablesInv'
  BY StutterFits
<1>1. CASE StartServer \/ Drained
  BY <1>1, ServerSteps
<1>2. CASE StopServer
  <2>1. CASE Infos # {}
    BY <1>2, <2>1, InfoSteps
  <2>2. CASE Infos = {}
    <3>1. /\ UNCHANGED <<tables, objects, readers, th, cars, stored, serverRuns, handled>>
          /\ server = "on" /\ server' = "draining" /\ online' = {}
      BY <1>2, <2>2 DEF StopServer
    <3>2. WorldFits' /\ Owned'
      BY <3>1 DEF TablesInv, WorldFits, Owned, Holding, objects, cars, stored
    <3> QED
      BY <3>1, <3>2, Framed DEF TablesInv, tables, objects, stored
  <2> QED
    BY <2>1, <2>2
<1>3. CASE Watch \/ ThreadStep("watch")
  BY <1>3, WatchStep, ThreadSteps, ThreadsAre
<1>4. ASSUME NEW i \in Infos, Version(i) \/ Ticker(i) \/ InfoStep(i) PROVE TablesInv'
  BY <1>4, InfoSteps, StoppedStep, ThreadSteps, ThreadsAre DEF InfoStep
<1>5. ASSUME NEW o \in Objects, Age(o) PROVE TablesInv'
  BY <1>5, AgeStep
<1>6. ASSUME NEW d \in Drivers, Vanish(d) \/ Connect(d) \/ Disconnect(d) \/ Lap(d) \/ CarUpdate(d)
      PROVE  TablesInv'
  BY <1>6, ServerSteps, MessageSteps
<1>7. ASSUME NEW d \in Drivers, CarStep(d) PROVE TablesInv'
  BY <1>7, ThreadSteps, TakeStep, LockSteps, ThreadsAre DEF CarStep
<1>8. ASSUME NEW s \in Sessions, NewSession(s) PROVE TablesInv'
  BY <1>8, SessionStep
<1>9. CASE UDPStep
  BY <1>9, ThreadSteps, ThreadsAre, ConnectGetStep, LockSteps, ConnectAddStep, LapEachStep, SendStep,
     SessionEachStep, LoadStep DEF UDPStep
<1> QED
  BY <1>1, <1>2, <1>3, <1>4, <1>5, <1>6, <1>7, <1>8, <1>9 DEF TablesNext

LEMMA TablesInvariance == TablesSpec => []TablesInv
<1> QED
  BY TablesInitInv, TablesStepInv, PTL DEF TablesSpec

LEMMA TablesTyped == TablesInv => TablesTypeOK
<1> SUFFICES ASSUME TablesInv PROVE TablesTypeOK
  OBVIOUS
<1>1. \A t \in Threads : th[t].at \in ThreadStates
  BY DEF TablesInv, ThreadsFit, Thread
<1>2. \A d \in Drivers : \A o \in {conn[d], disc[d]} \ {0} : obj[o].d = d
  BY DEF TablesInv, TablesFit
<1> QED
  BY <1>1, <1>2 DEF TablesInv, TablesFit, WorldFits, Owned, TablesTypeOK

\* The types of the driver tables; an object in a table is that of the driver it is under.
THEOREM TablesTypesCorrect == TablesSpec => []TablesTypeOK
BY TablesInvariance, TablesTyped, PTL

LEMMA OneHolder == TablesInv => MutexesKept
<1> SUFFICES ASSUME TablesInv PROVE MutexesKept
  OBVIOUS
<1>1. ASSUME server # "crashed", NEW o \in Objects \ overwritten
      PROVE  Cardinality({t \in Threads : Holding(t) /\ th[t].o = o}) = IF mutex[o] THEN 1 ELSE 0
  <2> DEFINE holders == {t \in Threads : Holding(t) /\ th[t].o = o}
  <2>1. /\ mutex[o] <=> \E t \in Threads : Holding(t) /\ th[t].o = o
        /\ \A t, u \in Threads : Holding(t) /\ Holding(u) /\ th[t].o = o /\ th[u].o = o => t = u
    BY <1>1 DEF TablesInv, Owned
  <2>2. CASE mutex[o]
    <3>1. PICK t \in Threads : Holding(t) /\ th[t].o = o
      BY <2>1, <2>2
    <3>2. holders = {t}
      BY <2>1, <3>1
    <3>3. Cardinality({t}) = 1
      BY FS_Singleton
    <3> QED
      BY <2>2, <3>2, <3>3
  <2>3. CASE ~mutex[o]
    <3>1. holders = {}
      BY <2>1, <2>3
    <3> QED
      BY <2>3, <3>1, FS_EmptySet
  <2> QED
    BY <2>2, <2>3
<1>2. server = "crashed" => overwritten # {}
  BY DEF TablesInv, Owned
<1> QED
  BY <1>1, <1>2 DEF MutexesKept

\* A driver's mutex has one holder and is unlocked by who locked it (race_control_driver.go),
\* in every interleaving of the goroutines; no mutex can end the program but one that
\* OnNewSession overwrote with a new driver.
THEOREM MutexHasOneHolder == TablesSpec => []MutexesKept
BY TablesInvariance, OneHolder, PTL

------------------------------------------------------------------------------
(* The three of them, as MCServices puts them side by side.                  *)

Parts == part \in {"wrapper", "tables", "hub"} /\ WrapperInv /\ TablesInv /\ HubInv

LEMMA TablesEndedInv == TablesEnded => TablesInv
<1> SUFFICES ASSUME TablesEnded PROVE TablesInv
  OBVIOUS
<1>1. th \in [Threads -> Thread] /\ \A t \in Threads : th[t] = IF t = "watch" THEN [Idle EXCEPT !.at = "dead"] ELSE Idle
  BY IdleIsThread DEF TablesEnded, Thread, ThreadStates
<1>2. \A t \in Threads : th[t].at \in {"idle", "dead"} /\ th[t].list = {}
  BY <1>1, IdleIsThread DEF Thread
<1>3. ThreadsFit
  BY <1>1, <1>2 DEF ThreadsFit, Fits, WithObject, WithDriver
<1>4. TablesFit /\ StoreFits /\ WorldFits
  BY DEF TablesEnded, TablesFit, StoreFits, Timings, WorldFits, Sessions
<1>5. Owned
  BY <1>1, <1>2 DEF TablesEnded, Owned, Holding
<1> QED
  BY <1>3, <1>4, <1>5 DEF TablesInv

LEMMA PartsInit == Init => Parts
BY WrapperInitInv, TablesInitInv, TablesEndedInv, HubInitInv DEF Init, Parts

LEMMA PartsStep == Parts /\ [Next]_vars => Parts'
<1> SUFFICES ASSUME Parts, [Next]_vars PROVE Parts'
  OBVIOUS
<1>1. [WrapperNext]_wrapperVars /\ [TablesNext]_tableVars /\ [HubNext]_hubVars /\ part' = part
  BY DEF Next, vars
<1> QED
  BY <1>1, WrapperStepInv, TablesStepInv, HubStepInv DEF Parts

\* Whichever of the three is looked at: cmw.mutex is where it should be, a driver in a table
\* has his own object, a registered client of the hub is open, and no channel outgrows its
\* capacity.
THEOREM ServicesTypeCorrect == Spec => []TypeOK
<1>1. Parts => TypeOK
  BY HubTyped, TablesTyped DEF Parts, TypeOK, WrapperInv
<1> QED
  BY <1>1, PartsInit, PartsStep, PTL DEF Spec

==============================================================================
