----------------------------- MODULE UDPClient -----------------------------
(***************************************************************************)
(* One UDP connection to acServer (pkg/udp/messages.go): the goroutine     *)
(* serve reads datagrams into a bounded channel, a consumer handles them   *)
(* one at a time and adapts the interval at which acServer sends car       *)
(* positions, forwardServe copies the plugins' messages to acServer.       *)
(* Close is called once, by onStop.                                        *)
(*                                                                         *)
(* The queue is its length: what a datagram holds is chosen when it is     *)
(* handled.                                                                *)
(***************************************************************************)
EXTENDS Naturals

CONSTANTS
    QueueCap,      \* capacity of messageChan (1000 in the code)
    HalfSecond,    \* the messages of half a second (5 in the code)
    Base,          \* RealtimePosIntervalMs
    Wrap,          \* the interval acServer is told is a uint16 (65536 in the code)
    Modifier,      \* PosIntervalModifierEnabled: stracker is not running
    SendsMayFail,  \* writing to the socket may fail while it is open
    MaxDatagrams    \* bound: datagrams acServer sends

ASSUME QueueAssumption == {QueueCap, HalfSecond} \subseteq Nat \ {0} /\ MaxDatagrams \in Nat
ASSUME IntervalAssumption == Base \in Nat /\ Wrap \in Nat /\ Base < Wrap
ASSUME FlagAssumption == {Modifier, SendsMayFail} \subseteq BOOLEAN

VARIABLES
    reader,    \* serve: "top" of its loop, "read", "send" (on messageChan), "done"
    queued,    \* len(messageChan)
    consumer,  \* "select", "callback", "done"
    broken,    \* the consumer returned because a message could not be handled
    last,      \* lastQueueSize
    current,   \* CurrentRealtimePosIntervalMs
    told,      \* the interval acServer was last told, 0 before
    close,     \* Close: "open", "cancelled" (after cfn), "listener" (closed), "closed"
    listener,  \* the socket to acServer: "open", "closed"
    forwarder, \* the socket to the plugins: "open", "closed"
    proxy,     \* forwardServe: "read", "done"
    received   \* datagrams received

udpVars == <<reader, queued, consumer, broken, last, current, told, close, listener, forwarder, proxy, received>>

Cancelled == close # "open"

UDPInit ==
    /\ reader = "top" /\ queued = 0 /\ consumer = "select" /\ broken = FALSE
    /\ last = 0 /\ current = Base /\ told = 0
    /\ close = "open" /\ listener = "open" /\ forwarder = "open" /\ proxy = "read"
    /\ received = 0

----------------------------------------------------------------------------
(* Reading                                                                 *)

\* The context is looked at only between two datagrams.
ReaderTop ==
    /\ reader = "top"
    /\ IF Cancelled
         THEN reader' = "done" /\ listener' = "closed"
         ELSE reader' = "read" /\ UNCHANGED listener
    /\ UNCHANGED <<queued, consumer, broken, last, current, told, close, forwarder, proxy, received>>

Receive ==
    /\ reader = "read" /\ listener = "open" /\ received < MaxDatagrams
    /\ received' = received + 1 /\ reader' = "send"
    /\ UNCHANGED <<queued, consumer, broken, last, current, told, close, listener, forwarder, proxy>>

ReadError ==
    /\ reader = "read" /\ listener = "closed"
    /\ reader' = "top"
    /\ UNCHANGED <<queued, consumer, broken, last, current, told, close, listener, forwarder, proxy, received>>

\* Mutant: the send does not wait for room.
EnqueueMut ==
    /\ reader = "send"
    /\ queued' = queued + 1 /\ reader' = "top"
    /\ UNCHANGED <<consumer, broken, last, current, told, close, listener, forwarder, proxy, received>>

\* messageChan <- buf blocks while the queue is full, and does not look at the context.
Enqueue ==
    /\ reader = "send" /\ queued < QueueCap
    /\ queued' = queued + 1 /\ reader' = "top"
    /\ UNCHANGED <<consumer, broken, last, current, told, close, listener, forwarder, proxy, received>>

----------------------------------------------------------------------------
(* Handling                                                                *)

\* SendMessage(NewEnableRealtimePosInterval(ms)): told' and whether it succeeded.
\* Without the modifier nothing is sent and nothing fails.
Tell(ms, ok) ==
    /\ ~Modifier => ok
    /\ Modifier /\ listener = "closed" => ~ok
    /\ ~SendsMayFail /\ listener = "open" => ok
    /\ told' = IF Modifier /\ ok THEN ms % Wrap ELSE told

Break == consumer' = "done" /\ broken' = TRUE
Deliver == consumer' = "callback" /\ UNCHANGED broken

\* A message is taken: one that cannot be parsed ends the consumer, as does a new
\* session of which acServer cannot be told; all others reach the callback.
Handle ==
    /\ consumer = "select" /\ queued > 0
    /\ queued' = queued - 1
    /\ \/ Break /\ UNCHANGED told
       \/ Deliver /\ UNCHANGED told
       \/ Base > 0 /\ Tell(Base, TRUE) /\ Deliver
       \/ Base > 0 /\ Tell(Base, FALSE) /\ Break
    /\ UNCHANGED <<reader, last, current, close, listener, forwarder, proxy, received>>

\* The callback returned; the message is written to the plugins, errors are ignored.
CallbackReturns ==
    /\ consumer = "callback" /\ consumer' = "select"
    /\ UNCHANGED <<reader, queued, broken, last, current, told, close, listener, forwarder, proxy, received>>

\* serve has returned and closed messageChan: an empty buffer is received and not parsed.
ChannelClosed ==
    /\ consumer = "select" /\ reader = "done" /\ queued = 0
    /\ Break
    /\ UNCHANGED <<reader, queued, last, current, told, close, listener, forwarder, proxy, received>>

ConsumerDone ==
    /\ consumer = "select" /\ Cancelled
    /\ consumer' = "done"
    /\ UNCHANGED <<reader, queued, broken, last, current, told, close, listener, forwarder, proxy, received>>

FallingBehind == queued > last /\ queued > HalfSecond
CatchingUp == queued <= last /\ queued < HalfSecond /\ current > Base

Tick == consumer = "select" /\ Modifier /\ last' = queued

\* Half a second behind: acServer is asked to send positions less often.
SlowDown ==
    /\ Tick /\ FallingBehind
    /\ current' = current + 2 * queued + 1
    /\ \E ok \in BOOLEAN : Tell(current', ok)
    /\ UNCHANGED <<reader, queued, consumer, broken, close, listener, forwarder, proxy, received>>

\* Mutant: a tick that finds the queue shorter is not taken for catching up.
SpeedUpMut ==
    /\ Tick /\ CatchingUp /\ queued < last
    /\ current' = current - 1
    /\ \E ok \in BOOLEAN : Tell(current', ok)
    /\ UNCHANGED <<reader, queued, consumer, broken, close, listener, forwarder, proxy, received>>

\* Keeping up: a millisecond faster each second, down to the configured interval.
SpeedUp ==
    /\ Tick /\ CatchingUp
    /\ current' = current - 1
    /\ \E ok \in BOOLEAN : Tell(current', ok)
    /\ UNCHANGED <<reader, queued, consumer, broken, close, listener, forwarder, proxy, received>>

Steady ==
    /\ Tick /\ ~FallingBehind /\ ~CatchingUp
    /\ UNCHANGED <<reader, queued, consumer, broken, current, told, close, listener, forwarder, proxy, received>>

----------------------------------------------------------------------------
(* Closing                                                                 *)

CloseCancel ==
    /\ close = "open" /\ close' = "cancelled"
    /\ UNCHANGED <<reader, queued, consumer, broken, last, current, told, listener, forwarder, proxy, received>>

\* Mutant: the listener is left to serve to close.
CloseListenerMut ==
    /\ close = "cancelled" /\ close' = "listener"
    /\ UNCHANGED <<reader, queued, consumer, broken, last, current, told, listener, forwarder, proxy, received>>

\* Closing a listener that serve has closed already is an error, which ends Close.
CloseListener ==
    /\ close = "cancelled"
    /\ close' = IF listener = "closed" THEN "closed" ELSE "listener"
    /\ listener' = "closed"
    /\ UNCHANGED <<reader, queued, consumer, broken, last, current, told, forwarder, proxy, received>>

CloseForwarder ==
    /\ close = "listener" /\ close' = "closed" /\ forwarder' = "closed"
    /\ UNCHANGED <<reader, queued, consumer, broken, last, current, told, listener, proxy, received>>

\* forwardServe leaves its read because the forwarder was closed or because a plugin sent
\* something, and then finds the context done.
ProxyDone ==
    /\ proxy = "read" /\ Cancelled /\ forwarder = "closed"
    /\ proxy' = "done"
    /\ UNCHANGED <<reader, queued, consumer, broken, last, current, told, close, listener, forwarder, received>>

PluginSendsLast ==
    /\ proxy = "read" /\ Cancelled /\ forwarder = "open"
    /\ proxy' = "done" /\ forwarder' = "closed"
    /\ UNCHANGED <<reader, queued, consumer, broken, last, current, told, close, listener, received>>

----------------------------------------------------------------------------
UDPNext ==
    \/ ReaderTop \/ Receive \/ ReadError \/ Enqueue
    \/ Handle \/ CallbackReturns \/ ChannelClosed \/ ConsumerDone
    \/ SlowDown \/ SpeedUp \/ Steady
    \/ CloseCancel \/ CloseListener \/ CloseForwarder \/ ProxyDone \/ PluginSendsLast

\* Goroutines run, the callback returns, and select, which chooses at random, takes none
\* of its ready cases for ever less often than the others.  Nothing obliges acServer or a
\* plugin to send, or anybody to call Close.
UDPFairness ==
    /\ WF_udpVars(ReaderTop) /\ WF_udpVars(ReadError) /\ WF_udpVars(Enqueue)
    /\ SF_udpVars(Handle) /\ WF_udpVars(CallbackReturns)
    /\ SF_udpVars(ChannelClosed) /\ SF_udpVars(ConsumerDone)
    /\ SF_udpVars(SpeedUp) /\ SF_udpVars(Steady) /\ SF_udpVars(SlowDown)
    /\ WF_udpVars(CloseListener) /\ WF_udpVars(CloseForwarder)
    /\ WF_udpVars(ProxyDone)

UDPSpec == UDPInit /\ [][UDPNext]_udpVars /\ UDPFairness

----------------------------------------------------------------------------
(* Properties                                                              *)

\* Types, within the capacity of the queue.
UDPTypeOK ==
    /\ reader \in {"top", "read", "send", "done"}
    /\ queued \in 0..QueueCap /\ last \in 0..QueueCap
    /\ consumer \in {"select", "callback", "done"} /\ broken \in BOOLEAN
    /\ current \in Nat /\ told \in 0..(Wrap - 1)
    /\ close \in {"open", "cancelled", "listener", "closed"}
    /\ {listener, forwarder} \subseteq {"open", "closed"} /\ proxy \in {"read", "done"}
    /\ received \in 0..MaxDatagrams

\* The reader is left behind for ever: the consumer has gone and the queue is full.
ReaderStuck == reader = "send" /\ queued = QueueCap /\ consumer = "done"

\* The forwarder is left open: serve closed the listener before Close did.
ForwarderLeft == close = "closed" /\ forwarder = "open"

\* Close ends every goroutine of the connection, apart from these two leaks: a reader
\* that nobody drains and a forwarder that Close did not reach.
CloseEndsGoroutines ==
    Cancelled ~> /\ consumer = "done"
                 /\ reader = "done" \/ ReaderStuck
                 /\ proxy = "done" \/ ForwarderLeft

\* After a burst that the consumer survives, the interval comes back to the configured one.
IntervalRecovers == []<>(current = Base \/ consumer = "done")
=============================================================================
