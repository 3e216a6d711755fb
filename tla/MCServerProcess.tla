-------------------------- MODULE MCServerProcess --------------------------
(* ServerProcess with two callers, for TLC.                                *)
EXTENDS ServerProcess
=============================================================================
