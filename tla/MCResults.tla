------------------------------ MODULE MCResults ------------------------------
(* Results files, the grids of race weekends that are made from results, and   *)
(* the results that a championship event records: three systems with nothing  *)
(* in common but the results, one per behaviour, in which the others have a    *)
(* file without cars and a weekend without drivers.                            *)
EXTENDS MCResultsFiles, WeekendGrids, ChampionshipSessions, TLC

(* The weekends: three drivers in one of its own, and four in one of a         *)
(* championship with two classes and a free slot.                              *)
Slot(g, m) == [guid |-> g, model |-> m, placeholder |-> g = "free"]
Weekend(linked, list) ==
  [linked |-> linked, list |-> list, classOf |-> [x |-> 1, y |-> 2],
   order |-> [d1 |-> 3, d2 |-> 1, d3 |-> 2, d4 |-> 4, free |-> 5],
   standings |-> << <<{"d2"}, {"d1"}>>, <<{"d4"}>> >>,
   races |-> [g \in {{"d1"}, {"d2"}, {"d3"}, {"d4"}, {"free"}} |-> IF g \in {{"d1"}, {"d2"}, {"d4"}} THEN 1 ELSE 0],
   spectator |-> {"camera"}, options |-> [g \in {{"d1"}} |-> [model |-> "x", setup |-> "fast"]]]

MCWeekends ==
  {Weekend(FALSE, <<Slot("d1", "x"), Slot("d2", "x"), Slot("d3", "x")>>),
   Weekend(TRUE, <<Slot("d1", "x"), Slot("d2", "x"), Slot("free", "y"), Slot("d3", "y"), Slot("d4", "y")>>)}

Take(from, to, sort, reverse) ==
  [split |-> "Numeric", from |-> from, to |-> to, guids |-> <<>>, classes |-> {}, start |-> 1,
   sort |-> sort, reverse |-> reverse, files |-> <<>>, tyre |-> FALSE, preview |-> FALSE]
Class(c) == [Take(1, 1, "", 0) EXCEPT !.split = "Championship Class", !.classes = {c}]
Link(p, s, f) == [from |-> p, to |-> s, filter |-> f]

MCLinks ==
  {Link("q", "a", Take(1, 2, "safety", -1)), Link("q", "b", Take(3, 9, "safety", -1)),
   Link("q", "a", Take(1, 2, "random", 0)), Link("q", "a", Class(1)), Link("q", "b", Class(2)),
          Link("b", "f", [Take(1, 9, "", 2) EXCEPT !.start = 3]),
          Link("a", "f", [Take(1, 9, "", 0) EXCEPT !.tyre = TRUE]),
          Link("q", "b", [Take(1, 1, "", 0) EXCEPT !.split = "Manual Driver Selection", !.guids = <<{"d3"}, {"d1"}>>])}

MCSorting == {[session |-> "f", sort |-> s, reverse |-> 0] :
                s \in {"fastest_lap", "championship_standings_order"}}

(* All in reverse; without the first of the grid; with the winner             *)
(* disqualified, with no lap for the cars y in the qualifying.                *)
MCRaced(session, grid, o) ==
  LET skip == session.id = "f" \/ (session.id # "q" /\ o \in {"lapless", "all"})
      how == IF skip THEN "disqualified" ELSE o
      order == IF how = "absent" /\ grid # <<>> THEN Reverse(Tail(grid)) ELSE Reverse(grid)
      lapless(e) == how = "lapless" /\ e.model = "y"
      best(k) == IF lapless(order[k]) THEN 0 ELSE 60000 + 1000 * k
      row(k) == [guid |-> order[k].guid, model |-> order[k].model, car |-> order[k].pit, best |-> best(k),
                 total |-> best(k), hasPen |-> FALSE, penTime |-> 0, lapPen |-> 0,
                 disq |-> how = "disqualified" /\ k = 1, name |-> "n",
                 class |-> IF rw.linked THEN rw.classOf[order[k].model] ELSE 0]
      lap(e, t) == [guid |-> e.guid, model |-> e.model, car |-> e.pit, time |-> t, cuts |-> 0]
      hit == [car |-> order[1].pit, type |-> "CAR"]
  IN  [type |-> session.type,
       cars |-> [k \in DOMAIN grid |-> [id |-> grid[k].pit, model |-> grid[k].model, guid |-> grid[k].guid,
                                        guids |-> SetToSeq(grid[k].guid), name |-> CHOOSE d \in grid[k].guid : TRUE]],
       laps |-> SelectSeq([k \in DOMAIN order |-> lap(order[k], best(k))], LAMBDA l : l.time # 0),
       events |-> IF how = "disqualified" /\ order # <<>> THEN <<hit>> ELSE <<>>,
       result |-> [k \in DOMAIN order |-> row(k)]]

----------------------------------------------------------------------------
(* The event of a championship.                                                *)

MCEventSessions == <<"practice", "race", "secondRace">>

\* What was lost is lost: behaviours are not followed beyond a step the properties exempt.
Undisturbed == disturbed = {}

SessionsSymmetry == Permutations(Handlers)


VARIABLE part

vars == <<rvars, gvars, sessionVars, part>>

NoCars == [type |-> Race, track |-> "a", file |-> "0", champ |-> "", weekend |-> "",
           cars |-> <<>>, laps |-> <<>>, events |-> <<>>, result |-> <<>>]

EmptyFile ==
  /\ fallBack = FALSE /\ file = NoCars /\ copy = Broken /\ rcalls = 0
  /\ combined = [of |-> <<>>, timeAttack |-> FALSE, res |-> Broken]
  /\ admin = [a \in Admins |-> Idle]
  /\ rnotes = [applied |-> <<>>, overlap |-> FALSE, failed |-> 0, stale |-> {}, forgotten |-> {}]

EmptyWeekend ==
  /\ rw = [list |-> <<>>] /\ links = <<>> /\ sorting = <<>> /\ run = <<>> /\ edits = 0

Init ==
  /\ part \in {"files", "grids", "sessions"}
  /\ IF part = "files" THEN ResultsInit ELSE EmptyFile
  /\ IF part = "grids" THEN GridInit ELSE EmptyWeekend
  /\ SessionsInit

Next ==
  \/ part = "files" /\ ResultsNext /\ UNCHANGED <<gvars, sessionVars, part>>
  \/ part = "grids" /\ GridNext /\ UNCHANGED <<rvars, sessionVars, part>>
  \/ part = "sessions" /\ SessionsNext /\ UNCHANGED <<rvars, gvars, part>>

Spec == Init /\ [][Next]_vars

(* The grid of a session has everybody who is to be in it, and in order.       *)
GridsComplete ==
  part = "grids" => HeatsPartition /\ EveryoneStarts /\ FinishersAhead /\ PreviewHolds

(* Whatever repeats a results file, says what the file says.                   *)
FilesAgree == part = "files" => CopyMatches /\ CombinedSound /\ StatisticsSound

Symmetric == MCSymmetry \cup SessionsSymmetry
=============================================================================
