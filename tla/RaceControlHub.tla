--------------------------- MODULE RaceControlHub ---------------------------
(***************************************************************************)
(* Live Timings over websockets (race_control_http.go): the goroutine that *)
(* handles UDP messages broadcasts through a hub, which never waits for a  *)
(* client: one whose channel is full is closed and forgotten.  The handler *)
(* of a new websocket registers it and then sends it the last update and   *)
(* the stored chat itself, while it holds the mutexes the UDP goroutine    *)
(* needs.                                                                  *)
(*                                                                         *)
(* Updates are numbered from 1; every other message is 0.                  *)
(***************************************************************************)
EXTENDS Naturals, Sequences

CONSTANTS
    Clients,          \* websockets opened in a behaviour
    ReceiveCap,       \* capacity of client.receive (256 in the code)
    BroadcastCap,     \* capacity of hub.broadcast (1000 in the code)
    ChatMessageLimit, \* chatMessageLimit (50 in the code)
    MaxHubMessages       \* bound: messages the UDP goroutine handles

ASSUME HubAssumption == {ReceiveCap, BroadcastCap, ChatMessageLimit, MaxHubMessages} \subseteq Nat \ {0}

VARIABLES
    udp,        \* the UDP goroutine: its control state and the message it broadcasts
    hubHandled,    \* messages it began to handle
    lastUpdate, \* rc.lastUpdateMessage
    chat,       \* len(rc.ChatMessages)
    broadcast,  \* hub.broadcast
    clients,    \* hub.clients
    handler,    \* per client: the control state of its websocket handler
    toSend,     \* per client: stored chat messages the handler has still to send
    receive,    \* per client: client.receive
    closed,     \* the clients whose receive is closed
    pump,       \* per client: writePump is "none", "on", "off"
    shown,      \* per client: the last update written to the websocket
    hubMutex       \* holders of lastUpdateMessageMutex and ChatMessagesMutex

hubVars == <<udp, hubHandled, lastUpdate, chat, broadcast, clients, handler, toSend, receive,
          closed, pump, shown, hubMutex>>

Free(m) == hubMutex[m] = "none"

HubInit ==
    /\ udp = [pc |-> "idle", message |-> 0] /\ hubHandled = 0 /\ lastUpdate = 0 /\ chat = 0
    /\ broadcast = <<>> /\ clients = {} /\ closed = {}
    /\ handler = [c \in Clients |-> "none"] /\ toSend = [c \in Clients |-> 0]
    /\ receive = [c \in Clients |-> <<>>] /\ pump = [c \in Clients |-> "none"]
    /\ shown = [c \in Clients |-> 0]
    /\ hubMutex = [m \in {"update", "chat"} |-> "none"]

----------------------------------------------------------------------------
(* The goroutine that handles UDP messages                                 *)

\* A car position, an update of the race control status, or a chat message.
HubMessage ==
    /\ udp.pc = "idle" /\ hubHandled < MaxHubMessages
    /\ hubHandled' = hubHandled + 1
    /\ udp' \in {[pc |-> "send", message |-> 0], [pc |-> "sendUpdate", message |-> lastUpdate + 1],
                 [pc |-> "sendChat", message |-> 0]}
    /\ UNCHANGED <<lastUpdate, chat, broadcast, clients, handler, toSend, receive, closed, pump, shown, hubMutex>>

\* OnVersion clears the chat before it broadcasts.
VersionMessage ==
    /\ udp.pc = "idle" /\ hubHandled < MaxHubMessages /\ Free("chat")
    /\ hubHandled' = hubHandled + 1 /\ chat' = 0
    /\ udp' = [pc |-> "send", message |-> 0]
    /\ UNCHANGED <<lastUpdate, broadcast, clients, handler, toSend, receive, closed, pump, shown, hubMutex>>

\* hub.Send blocks while hub.broadcast is full.
Send ==
    /\ udp.pc \in {"send", "sendUpdate", "sendChat"}
    /\ Len(broadcast) < BroadcastCap
    /\ broadcast' = Append(broadcast, udp.message)
    /\ udp' = [udp EXCEPT !.pc = CASE udp.pc = "send" -> "idle"
                                   [] udp.pc = "sendUpdate" -> "storeUpdate"
                                   [] udp.pc = "sendChat" -> "storeChat"]
    /\ UNCHANGED <<hubHandled, lastUpdate, chat, clients, handler, toSend, receive, closed, pump, shown, hubMutex>>

StoreUpdate ==
    /\ udp.pc = "storeUpdate" /\ Free("update")
    /\ lastUpdate' = udp.message
    /\ udp' = [udp EXCEPT !.pc = "idle"]
    /\ UNCHANGED <<hubHandled, chat, broadcast, clients, handler, toSend, receive, closed, pump, shown, hubMutex>>

StoreChat ==
    /\ udp.pc = "storeChat" /\ Free("chat")
    /\ chat' = IF chat = ChatMessageLimit THEN chat ELSE chat + 1
    /\ udp' = [udp EXCEPT !.pc = "idle"]
    /\ UNCHANGED <<hubHandled, lastUpdate, broadcast, clients, handler, toSend, receive, closed, pump, shown, hubMutex>>

----------------------------------------------------------------------------
(* The hub                                                                 *)

\* hub.register is unbuffered: the handler goes on when the hub has received.
Register(c) ==
    /\ handler[c] = "none"
    /\ clients' = clients \cup {c}
    /\ handler' = [handler EXCEPT ![c] = "registered"]
    /\ UNCHANGED <<udp, hubHandled, lastUpdate, chat, broadcast, toSend, receive, closed, pump, shown, hubMutex>>

HasRoom(c) == Len(receive[c]) < ReceiveCap

\* Mutant: a slow client is closed and not deleted.
BroadcastMut ==
    /\ broadcast # <<>>
    /\ broadcast' = Tail(broadcast)
    /\ receive' = [c \in Clients |-> IF c \in clients /\ HasRoom(c)
                                       THEN Append(receive[c], Head(broadcast)) ELSE receive[c]]
    /\ closed' = closed \cup {c \in clients : ~HasRoom(c)}
    /\ UNCHANGED <<udp, hubHandled, lastUpdate, chat, clients, handler, toSend, pump, shown, hubMutex>>

Broadcast ==
    /\ broadcast # <<>>
    /\ broadcast' = Tail(broadcast)
    /\ receive' = [c \in Clients |-> IF c \in clients /\ HasRoom(c)
                                       THEN Append(receive[c], Head(broadcast)) ELSE receive[c]]
    /\ closed' = closed \cup {c \in clients : ~HasRoom(c)}
    /\ clients' = {c \in clients : HasRoom(c)}
    /\ UNCHANGED <<udp, hubHandled, lastUpdate, chat, handler, toSend, pump, shown, hubMutex>>

----------------------------------------------------------------------------
(* The websocket handler                                                   *)

SpawnPump(c) ==
    /\ handler[c] = "registered"
    /\ handler' = [handler EXCEPT ![c] = "lockUpdate"]
    /\ pump' = [pump EXCEPT ![c] = "on"]
    /\ UNCHANGED <<udp, hubHandled, lastUpdate, chat, broadcast, clients, toSend, receive, closed, shown, hubMutex>>

LockUpdate(c) ==
    /\ handler[c] = "lockUpdate" /\ Free("update")
    /\ handler' = [handler EXCEPT ![c] = "sendUpdate"]
    /\ hubMutex' = [hubMutex EXCEPT !["update"] = "handler"]
    /\ UNCHANGED <<udp, hubHandled, lastUpdate, chat, broadcast, clients, toSend, receive, closed, pump, shown>>

\* client.receive <- message: waits for room, panics once the hub has closed the channel;
\* net/http recovers the panic of a handler, the mutex it held stays locked.
HandlerSend(c, message, m, next, held) ==
    /\ \/ /\ c \in closed
          /\ handler' = [handler EXCEPT ![c] = "panicked"]
          /\ hubMutex' = [hubMutex EXCEPT ![m] = "lost"]
          /\ UNCHANGED receive
       \/ /\ c \notin closed /\ HasRoom(c)
          /\ receive' = [receive EXCEPT ![c] = Append(@, message)]
          /\ handler' = [handler EXCEPT ![c] = next]
          /\ hubMutex' = [hubMutex EXCEPT ![m] = held]
    /\ UNCHANGED <<udp, hubHandled, lastUpdate, chat, broadcast, clients, closed, pump, shown>>

SendLastUpdate(c) ==
    /\ handler[c] = "sendUpdate"
    /\ HandlerSend(c, lastUpdate, "update", "lockChat", "none")
    /\ UNCHANGED toSend

LockChat(c) ==
    /\ handler[c] = "lockChat" /\ Free("chat")
    /\ handler' = [handler EXCEPT ![c] = "sendChat"]
    /\ toSend' = [toSend EXCEPT ![c] = chat]
    /\ hubMutex' = [hubMutex EXCEPT !["chat"] = "handler"]
    /\ UNCHANGED <<udp, hubHandled, lastUpdate, chat, broadcast, clients, receive, closed, pump, shown>>

SendChat(c) ==
    /\ handler[c] = "sendChat" /\ toSend[c] > 0
    /\ toSend' = [toSend EXCEPT ![c] = @ - 1]
    /\ HandlerSend(c, 0, "chat", "sendChat", "handler")

\* Mutant: the handler returns without unlocking when there is no chat.
UnlockChatMut(c) ==
    /\ handler[c] = "sendChat" /\ toSend[c] = 0
    /\ handler' = [handler EXCEPT ![c] = "done"]
    /\ hubMutex' = IF chat = 0 THEN hubMutex ELSE [hubMutex EXCEPT !["chat"] = "none"]
    /\ UNCHANGED <<udp, hubHandled, lastUpdate, chat, broadcast, clients, toSend, receive, closed, pump, shown>>

UnlockChat(c) ==
    /\ handler[c] = "sendChat" /\ toSend[c] = 0
    /\ handler' = [handler EXCEPT ![c] = "done"]
    /\ hubMutex' = [hubMutex EXCEPT !["chat"] = "none"]
    /\ UNCHANGED <<udp, hubHandled, lastUpdate, chat, broadcast, clients, toSend, receive, closed, pump, shown>>

----------------------------------------------------------------------------
(* writePump                                                               *)

Write(c) ==
    /\ pump[c] = "on" /\ receive[c] # <<>>
    /\ receive' = [receive EXCEPT ![c] = Tail(@)]
    /\ shown' = [shown EXCEPT ![c] = IF Head(receive[c]) = 0 THEN @ ELSE Head(receive[c])]
    /\ UNCHANGED <<udp, hubHandled, lastUpdate, chat, broadcast, clients, handler, toSend, closed, pump, hubMutex>>

\* The browser has gone: a write or a ping fails.  Nobody unregisters the client.
WriteError(c) ==
    /\ pump[c] = "on"
    /\ pump' = [pump EXCEPT ![c] = "off"]
    /\ UNCHANGED <<udp, hubHandled, lastUpdate, chat, broadcast, clients, handler, toSend, receive, closed, shown, hubMutex>>

PumpClosed(c) ==
    /\ pump[c] = "on" /\ receive[c] = <<>> /\ c \in closed
    /\ pump' = [pump EXCEPT ![c] = "off"]
    /\ UNCHANGED <<udp, hubHandled, lastUpdate, chat, broadcast, clients, handler, toSend, receive, closed, shown, hubMutex>>

----------------------------------------------------------------------------
HubNext ==
    \/ HubMessage \/ VersionMessage \/ Send \/ StoreUpdate \/ StoreChat \/ Broadcast
    \/ \E c \in Clients :
          \/ Register(c) \/ SpawnPump(c) \/ LockUpdate(c) \/ SendLastUpdate(c)
          \/ LockChat(c) \/ SendChat(c) \/ UnlockChat(c)
          \/ Write(c) \/ WriteError(c) \/ PumpClosed(c)

\* Goroutines run, a websocket write ends within writeWait, mutexes are not starved.
HubFairness ==
    /\ WF_hubVars(Send) /\ WF_hubVars(Broadcast)
    /\ SF_hubVars(StoreUpdate) /\ SF_hubVars(StoreChat)
    /\ \A c \in Clients :
          /\ WF_hubVars(SpawnPump(c)) /\ SF_hubVars(LockUpdate(c))
          /\ WF_hubVars(SendLastUpdate(c)) /\ SF_hubVars(LockChat(c))
          /\ WF_hubVars(SendChat(c)) /\ WF_hubVars(UnlockChat(c))
          /\ WF_hubVars(Write(c)) /\ WF_hubVars(PumpClosed(c))

HubSpec == HubInit /\ [][HubNext]_hubVars /\ HubFairness

----------------------------------------------------------------------------
(* Properties                                                              *)

\* Types; a registered client is open (closing a channel twice would end the hub), and
\* a mutex is held by a handler that is between its lock and its unlock.
HubTypeOK ==
    /\ udp \in [pc : {"idle", "send", "sendUpdate", "sendChat", "storeUpdate", "storeChat"},
                message : 0..MaxHubMessages]
    /\ {hubHandled, lastUpdate} \subseteq 0..MaxHubMessages /\ chat \in 0..ChatMessageLimit
    /\ broadcast \in Seq(0..MaxHubMessages) /\ Len(broadcast) <= BroadcastCap
    /\ clients \subseteq Clients \ closed /\ closed \subseteq Clients
    /\ handler \in [Clients -> {"none", "registered", "lockUpdate", "sendUpdate", "lockChat",
                                "sendChat", "done", "panicked"}]
    /\ toSend \in [Clients -> 0..ChatMessageLimit]
    /\ receive \in [Clients -> Seq(0..MaxHubMessages)]
    /\ \A c \in Clients : Len(receive[c]) <= ReceiveCap
    /\ pump \in [Clients -> {"none", "on", "off"}] /\ shown \in [Clients -> 0..MaxHubMessages]
    /\ hubMutex \in [{"update", "chat"} -> {"none", "handler", "lost"}]
    /\ hubMutex["update"] = "handler" <=> \E c \in Clients : handler[c] = "sendUpdate"

\* A handler panicked with a mutex held, or waits with one held for room in a channel
\* that nobody reads any more.
HubLockedUp ==
    \/ \E m \in {"update", "chat"} : hubMutex[m] = "lost"
    \/ \E c \in Clients : handler[c] \in {"sendUpdate", "sendChat"} /\ pump[c] = "off"

\* Only a handler that panicked or whose browser has gone keeps the UDP goroutine, or
\* another handler, waiting for ever.
HubNoOtherLockup ==
    /\ udp.pc # "idle" ~> udp.pc = "idle" \/ HubLockedUp
    /\ \A c \in Clients : handler[c] = "registered" ~> handler[c] = "done" \/ HubLockedUp
=============================================================================
