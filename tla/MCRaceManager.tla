--------------------------- MODULE MCRaceManager ---------------------------
EXTENDS RaceManager

CONSTANTS r1, r2

\* One race of two races with a reversed grid, one time attack with a force stop timer.
MCSetup ==
    r1 :> [sessions |-> {"race"}, reversed |-> TRUE, loopMode |-> FALSE,
           timeAttack |-> FALSE, forceStop |-> "no"]
    @@ r2 :> [sessions |-> {"qualifying"}, reversed |-> FALSE, loopMode |-> TRUE,
              timeAttack |-> TRUE, forceStop |-> "ifEmpty"]
=============================================================================
