------------------------------ MODULE GridFilter ------------------------------
(* How a race weekend turns the results of one session into the grid of the   *)
(* next: the filter on a link between sessions (race_weekend_filter.go), the  *)
(* sorters (race_weekend_sort.go), and the entry list and finishing grid of a *)
(* session (race_weekend.go).  What depends on Go's order of maps or on rand  *)
(* has several outcomes, so an operator that builds a grid returns a set of   *)
(* grids.                                                                     *)
(*                                                                            *)
(*   entrant  [car: [guid, guids, name, model], guid, model, best, total,     *)
(*             class, res, sid, pit, placeholder, setup]                      *)
(*   session  [id, type, completed, results, sort, reverse, base]             *)
(*   filter   [split, from, to, guids, classes, start, sort, reverse, files,  *)
(*             tyre, preview]                                                 *)
(*   weekend  [linked, classOf, order, standings, races, spectator]           *)
EXTENDS SessionResults

ReverseEntrantsMut(n, s) == IF n = 0 THEN s ELSE Reverse(s)

(* The first n, all when n is negative.                                       *)
ReverseEntrants(n, s) ==
  LET k == IF n < 0 \/ n > Len(s) THEN Len(s) ELSE n
  IN  IF n = 0 THEN s ELSE Reverse(SubSeq(s, 1, k)) \o SubSeq(s, k + 1, Len(s))

------------------------------------------------------------------------------
(* The sorters.                                                               *)

CrashesOf(e) == Crashes(e.res, e.car.guid, e.car.model, {"CAR", "ENV"})
CutsOf(e) == GetCuts(e.res, e.car.guid, e.car.model)
LapsDone(e) == GetNumLaps(e.res, e.car.guid, e.car.model)
TimeOf(e) == GetTime(e.res, e.total, e.car.guid, e.car.model, TRUE)

LessTotalEntrantTime(a, b) ==
  IF LapsDone(a) = LapsDone(b) THEN TimeOf(a) < TimeOf(b) ELSE LapsDone(a) > LapsDone(b)

LessBestLapTime(a, b) ==
  IF a.best = 0 \/ b.best = 0 THEN a.best # 0
  ELSE IF a.best # b.best THEN a.best < b.best
  ELSE IF CrashesOf(a) # CrashesOf(b) THEN CrashesOf(a) < CrashesOf(b)
  ELSE CutsOf(a) < CutsOf(b)

ByResult(session, a, b) ==
  IF session.type = Race THEN LessTotalEntrantTime(a, b) ELSE LessBestLapTime(a, b)

ByCollisions(session, a, b) ==
  IF CrashesOf(a) = CrashesOf(b) THEN ByResult(session, a, b) ELSE CrashesOf(a) < CrashesOf(b)

ByCuts(session, a, b) ==
  IF CutsOf(a) = CutsOf(b) THEN ByResult(session, a, b) ELSE CutsOf(a) < CutsOf(b)

BySafety(session, a, b) ==
  IF CrashesOf(a) = CrashesOf(b) THEN ByCuts(session, a, b) ELSE CrashesOf(a) < CrashesOf(b)

(* Best laps and laps driven over the chosen results files.                   *)
BestInFiles(files, g) ==
  LET bests == UNION {{q.best : q \in {p \in Range(f.result) : p.guid = g}} : f \in Range(files)} \ {0}
  IN  IF bests = {} THEN 0 ELSE Min(bests)

LessBestLapTimeInResults(files, a, b) ==
  LET best(e) == BestInFiles(files, e.car.guid)
  IN  best(a) # 0 /\ (best(b) = 0 \/ best(a) < best(b))

LapsInFiles(files, g) ==
  SumOver(files, LAMBDA f : SumOver(SelectSeq(f.result, LAMBDA q : q.guid = g),
                                    LAMBDA q : GetNumLaps(f, q.guid, q.model)))

MoreLapsInResults(files, a, b) == LapsInFiles(files, a.car.guid) > LapsInFiles(files, b.car.guid)

(* The position in the standings of the class of the first entrant.           *)
StandingsOrder(w, entrants) ==
  LET list == w.standings[w.classOf[entrants[1].car.model]]
      pos(e) == LET at == {k \in DOMAIN list : list[k] = e.guid} IN IF at = {} THEN Len(list) + 1 ELSE Max(at)
  IN  SortSlice(entrants, LAMBDA a, b : pos(a) < pos(b))

ByName(w, a, b) == w.order[a.car.name] < w.order[b.car.name]

(* Sorters by key.  Without a filter those of results files leave the list.   *)
Sorted(w, key, session, files, es) ==
  CASE es = <<>> -> {es}
    [] key = "fastest_lap" -> {SortSlice(es, LessBestLapTime)}
    [] key = "total_race_time" -> {SortSlice(es, LessTotalEntrantTime)}
    [] key = "fewest_collisions" -> {SortSlice(es, LAMBDA a, b : ByCollisions(session, a, b))}
    [] key = "fewest_cuts" -> {SortSlice(es, LAMBDA a, b : ByCuts(session, a, b))}
    [] key = "safety" -> {SortSlice(es, LAMBDA a, b : BySafety(session, a, b))}
    [] key = "fastest_multi_results_lap" /\ files # <<>> ->
         {SortSlice(es, LAMBDA a, b : LessBestLapTimeInResults(files, a, b))}
    [] key = "number_multi_results_lap" /\ files # <<>> ->
         {SortSlice(es, LAMBDA a, b : MoreLapsInResults(files, a, b))}
    [] key = "championship_standings_order" /\ w.linked -> {StandingsOrder(w, es)}
    [] key = "random" -> {[k \in DOMAIN es |-> es[p[k]]] : p \in Permutations(DOMAIN es)}
    [] key = "alphabetical" -> {SortSlice(es, LAMBDA a, b : ByName(w, a, b))}
    [] OTHER -> {es}

------------------------------------------------------------------------------
(* Each class is sorted and reversed by itself, and those with no time go to  *)
(* its back; classes follow each other by their best lap.                     *)

NoTimeToBackMut(es) == es
NoTimeToBack(es) == SelectSeq(es, LAMBDA e : e.total # 0) \o SelectSeq(es, LAMBDA e : e.total = 0)

NoRacesToBack(w, es) ==
  SelectSeq(es, LAMBDA e : w.races[e.guid] # 0) \o SelectSeq(es, LAMBDA e : w.races[e.guid] = 0)

ToBack(w, key, es) ==
  IF key = "championship_standings_order" /\ w.linked THEN NoRacesToBack(w, es) ELSE NoTimeToBack(es)

BestOfClass(es, c) ==
  LeastOr(es, LAMBDA e : e.class = c /\ e.best > 0, LAMBDA e : e.best, 0)

ClassOrdersMut(session, es) == SetToSeqs({es[k].class : k \in DOMAIN es})

(* Any order, when a class has no lap; by id, the same every time, for a      *)
(* session without parents.                                                   *)
ClassOrders(session, es) ==
  LET classes == {es[k].class : k \in DOMAIN es}
      ordered(key(_)) == {o \in SetToSeqs(classes) : \A i \in 1 .. Len(o) - 1 : key(o[i]) <= key(o[i + 1])}
  IN  IF \A c \in classes : BestOfClass(es, c) > 0 THEN ordered(LAMBDA c : BestOfClass(es, c))
      ELSE IF session.base THEN ordered(LAMBDA c : c)
      ELSE SetToSeqs(classes)

ClassGrids(w, key, session, files, es) ==
  {ToBack(w, key, ReverseEntrants(session.reverse, s)) : s \in Sorted(w, key, session, files, es)}

(* One of each of these sets of sequences, one after the other.               *)
Concatenations(sets) ==
  LET n == Cardinality(DOMAIN sets)
      upTo[k \in 0 .. n] == IF k = 0 THEN {<<>>} ELSE {s \o t : s \in upTo[k - 1], t \in sets[k]}
  IN  upTo[n]

OfClass(es, c) == SelectSeq(es, LAMBDA e : e.class = c)

PerClassSort(w, key, session, files, es) ==
  IF key = "championship_class" /\ w.linked
  THEN {SortSlice(es, LAMBDA a, b : w.classOf[a.car.model] < w.classOf[b.car.model])}
  ELSE UNION {Concatenations([k \in DOMAIN order |-> ClassGrids(w, key, session, files, OfClass(es, order[k]))]) :
                order \in ClassOrders(session, es)}

------------------------------------------------------------------------------
(* The filter.                                                                *)

(* No class, 0, when the weekend belongs to no championship.                  *)
ChampionshipClass(w, e) == IF w.linked THEN w.classOf[e.car.model] ELSE 0

SplitMut(w, f, es) ==
  IF f.split = "Numeric" THEN SubSeq(es, f.from + 1, IF f.to > Len(es) THEN Len(es) ELSE f.to) ELSE es

(* Results are split where they begin at or before the end: the code's slice  *)
(* panics for ResultEnd < ResultStart - 1 (race_weekend_filter.go:130), which *)
(* is an empty split here and not among the filters of any run.               *)
Split(w, f, es) ==
  CASE f.split = "Numeric" -> SubSeq(es, f.from, IF f.to > Len(es) THEN Len(es) ELSE f.to)
    [] f.split = "Manual Driver Selection" ->
         LET picked == SelectSeq(f.guids, LAMBDA g : Some(es, LAMBDA e : e.car.guid = g))
         IN  [k \in DOMAIN picked |-> FirstOr(es, LAMBDA e : e.car.guid = picked[k], <<>>)]
    [] f.split = "Championship Class" -> SelectSeq(es, LAMBDA e : ChampionshipClass(w, e) \in f.classes)

(* A setup with the tyres of the fastest lap is written for the entrant.      *)
LockedTyreSetup(f, parent, e) ==
  IF ~f.preview /\ parent.completed /\ f.tyre /\ GetDriversFastestLap(e.res, e.car.guid, e.car.model) # 0
  THEN "locked" ELSE e.setup

Placed(f, parent, split) ==
  [k \in DOMAIN split |-> [split[k] EXCEPT !.sid = parent.id, !.pit = f.start - 1 + (k - 1),
                                           !.setup = LockedTyreSetup(f, parent, split[k])]]

(* The number to reverse is the filter's: for a session that is over it is    *)
(* applied to each class of its results before they are split, for one that   *)
(* is not, to the split.  The code writes it to the parent session of the     *)
(* weekend in hand (race_weekend_filter.go:104), which is not saved; here it  *)
(* is local, which differs only where a request sorts the parent once more    *)
(* with its own number, and that happens in no weekend of the runs.           *)
Taken(w, f, parent, s) ==
  IF parent.completed THEN Split(w, f, s) ELSE ReverseEntrants(f.reverse, Split(w, f, s))

Filter(w, f, parent, child, es) ==
  {Placed(f, parent, Taken(w, f, parent, s)) :
     s \in IF parent.completed \/ child.base
           THEN PerClassSort(w, f.sort, [parent EXCEPT !.reverse = f.reverse], f.files, es) ELSE {es}}

DefaultFilter(n) ==
  [split |-> "Numeric", from |-> 1, to |-> n, guids |-> <<>>, classes |-> {}, start |-> 1,
   sort |-> "", reverse |-> 0, files |-> <<>>, tyre |-> FALSE, preview |-> FALSE]

------------------------------------------------------------------------------
(* Entry list and finishing grid of a session.                                *)

ByPitBox(es) == SortSlice(es, LAMBDA a, b : a.pit < b.pit)

(* A driver who comes from two sessions keeps the better place.               *)
WithoutDuplicates(es) ==
  FoldLeft(LAMBDA out, e : IF Some(out, LAMBDA o : o.car.guid = e.car.guid) THEN out ELSE Append(out, e), <<>>, es)

RenumberedMut(es) == es
Renumbered(es) == [k \in DOMAIN es |-> [es[k] EXCEPT !.pit = k - 1]]

(* parents: a sequence of [session, grid, filter].                            *)
Joined(w, session, parents) ==
  {ByPitBox(l) : l \in Concatenations(
     [k \in DOMAIN parents |-> Filter(w, parents[k].filter, parents[k].session, session, parents[k].grid)])}

GetRaceWeekendEntryList(w, session, parents, canRun) ==
  UNION {IF canRun
         THEN {Renumbered(WithoutDuplicates(s)) : s \in PerClassSort(w, session.sort, session, <<>>, l)}
         ELSE {l} : l \in Joined(w, session, parents)}

NewEntrant(session, car, row, res) ==
  [car |-> car, guid |-> row.guid, model |-> row.model, best |-> row.best, total |-> row.total,
   class |-> row.class, res |-> res, sid |-> session.id, pit |-> 0, placeholder |-> FALSE, setup |-> ""]

(* Those who are in the results and were not disqualified, in their order,    *)
(* then the others who were on the entry list.                                *)
FinishingGrid(w, session, entryList) ==
  LET r == session.results
      valid(q) == q.guid # {} /\ ~q.disq /\ q.guid # w.spectator /\ FindCarByGUIDAndModel(r, q.guid, q.model).id # -1
      rows == SelectSeq(r.result, valid)
      done == [k \in DOMAIN rows |->
                 NewEntrant(session, FindCarByGUIDAndModel(r, rows[k].guid, rows[k].model), rows[k], r)]
      absent(e) == /\ ~Some(done, LAMBDA d : d.car.guid = e.car.guid \/ Members(d.car) = e.car.guid)
                   /\ e.car.guid # {} /\ (session.base \/ ~e.placeholder)
      others == SelectSeq(entryList, absent)
      late(e) == [e EXCEPT !.sid = session.id, !.res = r, !.pit = 0, !.setup = "",
                           !.class = IF w.linked THEN ChampionshipClass(w, e) ELSE @]
  IN  IF session.completed THEN done \o [k \in DOMAIN others |-> late(others[k])] ELSE ByPitBox(entryList)

(* What a session starts with: no placeholders, and the options that the      *)
(* entry list of the weekend has for the driver.                              *)
StartingList(es, options) ==
  LET real == SelectSeq(es, LAMBDA e : ~e.placeholder)
  IN  [k \in DOMAIN real |->
         IF real[k].guid \notin DOMAIN options THEN real[k]
         ELSE [real[k] EXCEPT !.model = options[real[k].guid].model,
                              !.setup = IF @ = "" THEN options[real[k].guid].setup ELSE @]]

==============================================================================
