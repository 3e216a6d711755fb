-------------------------- MODULE ServerLifecycle --------------------------
(***************************************************************************)
(* What the ServerProcess interface (server_process.go:26-36) promises its *)
(* users: one event at a time, from a stopped server to a stopped server.  *)
(***************************************************************************)
CONSTANTS Events, NoEvent

VARIABLES event, phase

Init == event = NoEvent /\ phase = "stopped"

Start(e) ==
    /\ phase = "stopped"
    /\ event' = e
    /\ phase' = "launching"

\* The executable is run, or cannot be.
Run == phase = "launching" /\ phase' \in {"running", "ended"} /\ UNCHANGED event

End == phase = "running" /\ phase' = "ended" /\ UNCHANGED event

\* The listeners and plugins are gone and nobody sees the event any more.
TearDown == phase = "ended" /\ phase' = "stopped" /\ event' = NoEvent

\* The teardown never ends: there is no event, and nothing starts any more.
LockUp == phase = "ended" /\ phase' = "lockedUp" /\ event' = NoEvent

Next == (\E e \in Events : Start(e)) \/ Run \/ End \/ TearDown \/ LockUp

SafeSpec == Init /\ [][Next]_<<event, phase>>

Spec == SafeSpec
        /\ WF_<<event, phase>>(Run) /\ WF_<<event, phase>>(TearDown \/ LockUp)
=============================================================================
