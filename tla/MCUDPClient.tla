---------------------------- MODULE MCUDPClient ----------------------------
(* UDPClient with a queue that can be filled, for TLC.                     *)
EXTENDS UDPClient

(* What the comments and the change log say and the code does not keep.  No run lists  *)
(* these: as a property of this configuration TLC shows the trace the README describes. *)

\* CHANGELOG.md:429: falling behind "reduces the refresh rate that the Assetto Corsa
\* Server sends messages at": whenever the interval is raised acServer is told at least
\* what it was told before.
FallingBehindSlowsDown == [][current' > current => told' >= told]_udpVars

\* race_control.go:172, "update the current refresh rate": what Live Timings shows is what
\* acServer was told.
ShownRateIsTold == told # 0 => told = current
=============================================================================
