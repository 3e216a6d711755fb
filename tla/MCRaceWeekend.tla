---------------------------- MODULE MCRaceWeekend ----------------------------
(* RaceWeekend for TLC.                                                    *)
EXTENDS RaceWeekend, TLC

\* Two sessions, one that splits into two, two that merge, and a session whose parents are one
\* after the other.
WeekendGraphs ==
    {<< <<0>>, <<1>> >>, << <<0>>, <<1>>, <<1>> >>,
     << <<0>>, <<0>>, <<1, 2>> >>, << <<0>>, <<1>>, <<1, 2>> >>}

\* Behaviours are not followed beyond a step that some property makes an exception for.
Undisturbed == disturbed = {}

Symmetry == Permutations(Handlers)

----------------------------------------------------------------------------
(* Promises the code does not keep                                         *)

\* race_weekend.go:245 says that DelSession "also removes any parent links from the removed
\* session to any other sessions": no session has a parent that does not exist, even if
\* forms are only opened and submitted one after the other and nothing is cancelled.
LinksRemoved ==
    disturbed \cap {"outdatedForm", "overtaken"} = {}
      => \A s \in DOMAIN store : Parents(store, s) \subseteq DOMAIN store \cup {Base}
=============================================================================
