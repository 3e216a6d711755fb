---------------------------- MODULE SessionResults ----------------------------
(* A results file of acServer (results.go), and what the program computes     *)
(* from it and does to it: the repair of car numbers and driver ids, the      *)
(* sort that replaces acServer's, the combination of files, and the changes   *)
(* of a penalty.  Every operator takes the results it is a method of first.   *)
(*                                                                            *)
(* A GUID is a set of drivers: {d} for one driver, and the set of all of them *)
(* for a car they shared, which is what NormaliseEntrantGUIDs makes of the    *)
(* sorted, joined text.  Times are in milliseconds.                           *)
(*   car    [id, model, guid, guids, name]                                    *)
(*   lap    [guid, model, car, time, cuts, sectors, name]                     *)
(*   event  [car, other, guid, otherGuid, type, name, otherName]              *)
(*   row    [guid, model, car, best, total, hasPen, penTime, lapPen, disq,    *)
(*           name]: one entry of Result                                       *)
EXTENDS Sorting

Kicked == {"$#@@!$kicked"}
Race == "RACE"
Timed == {"PRACTICE", "QUALIFY"}

Members(car) == Range(car.guids)

(* The last car of a model that one of its drivers alone matches loses to     *)
(* the first that matches as a whole; car 0 when there is none.               *)
FindCarIDForGUIDAndModel(r, g, m) ==
  LET whole(c) == c.model = m /\ (c.guid = g \/ Members(c) = g)
      part(c) == c.model = m /\ \E d \in Members(c) : {d} = g
      none == [id |-> 0]
  IN  IF Some(r.cars, whole) THEN FirstOr(r.cars, whole, none).id
      ELSE LastOr(r.cars, part, none).id

FindCarByGUIDAndModel(r, g, m) ==
  FirstOr(r.cars, LAMBDA c : c.id = FindCarIDForGUIDAndModel(r, g, m), [id |-> -1])

LapsOf(r, g, m) == SelectSeq(r.laps, LAMBDA l : l.guid = g /\ l.model = m)
LapsOfCar(r, g, m) == SelectSeq(r.laps, LAMBDA l : l.car = FindCarIDForGUIDAndModel(r, g, m))
Clean(l) == l.cuts = 0
LapTime(l) == l.time

------------------------------------------------------------------------------
(* Numbers the pages show.                                                    *)

Crashes(r, g, m, types) ==
  CountIn(r.events, LAMBDA e : e.car = FindCarIDForGUIDAndModel(r, g, m) /\ e.type \in types)

GetCuts(r, g, m) == SumOver(LapsOfCar(r, g, m), LAMBDA l : l.cuts)

IsFastestLap(r, time, cuts) == cuts = 0 /\ \A k \in DOMAIN r.laps : Clean(r.laps[k]) => r.laps[k].time >= time

IsDriversFastestLap(r, g, m, time, cuts) == IsFastestLap([laps |-> LapsOf(r, g, m)], time, cuts)

GetDriversFastestLap(r, g, m) == LeastOr(LapsOf(r, g, m), Clean, LapTime, 0)

(* The laps sorted, those with a cut last: the first one even has cuts when   *)
(* all have.                                                                  *)
FasterLapMut(a, b) == a.time < b.time
FasterLap(a, b) == Clean(a) /\ (~Clean(b) \/ a.time < b.time)
FastestOf(laps) == SortSlice(laps, FasterLap)[1]
FastestLap(r) == FastestOf(r.laps)

IsFastestSector(r, n, time, cuts) ==
  cuts = 0 /\ \A k \in DOMAIN r.laps : Clean(r.laps[k]) => r.laps[k].sectors[n] >= time

(* The sum of the driver's best sectors, over laps without cuts.              *)
GetPotentialLap(r, g, m) ==
  LET best(n) == LeastOr(LapsOf(r, g, m), Clean, LAMBDA l : l.sectors[n], 0)
  IN  FoldLeftDomain(LAMBDA sum, n : sum + best(n), 0, r.laps[1].sectors)

(* The mean of the laps that have no cut, are not the first, and are within   *)
(* 107% of what the code takes for the mean so far: all the time driven,      *)
(* over the number of laps counted.                                           *)
AddLap(acc, l) ==
  LET near == acc.total = 0 \/ acc.n = 0 \/ l.time * acc.n * 100 < acc.total * 107
      counts == Clean(l) /\ acc.laps # 0 /\ near
  IN  [laps |-> acc.laps + 1, total |-> acc.total + l.time,
       n |-> acc.n + (IF counts THEN 1 ELSE 0), sum |-> acc.sum + (IF counts THEN l.time ELSE 0)]

MeanOf(laps) ==
  LET a == FoldLeft(AddLap, [laps |-> 0, total |-> 0, n |-> 0, sum |-> 0], laps)
  IN  IF a.n = 0 THEN 0 ELSE a.sum \div a.n

GetOverallAverageLapTime(r) == MeanOf(r.laps)

(* Changes of the driver's GUID from one lap of the car to the next.          *)
NumberOfDriverSwaps(r, id) ==
  LET laps == SelectSeq(r.laps, LAMBDA l : l.car = id)
  IN  Cardinality({k \in 2 .. Len(laps) : laps[k].guid # laps[k - 1].guid})

------------------------------------------------------------------------------
(* Laps, times and positions as penalties count them.                         *)

RowsOfCar(r, g, m) == SelectSeq(r.result, LAMBDA q : q.car = FindCarIDForGUIDAndModel(r, g, m))

GetNumLaps(r, g, m) ==
  Len(LapsOfCar(r, g, m)) - SumOver(RowsOfCar(r, g, m), LAMBDA q : q.lapPen)

(* One nanosecond when the car has no lap; one millisecond here.              *)
GetLastLapTime(r, g, m) ==
  LET laps == LapsOfCar(r, g, m) IN IF laps = <<>> THEN 1 ELSE Last(laps).time

GetTime(r, time, g, m, penalty) ==
  LET added(q) == IF ~q.hasPen THEN 0
                  ELSE q.penTime - (IF r.type = Race THEN q.lapPen * GetLastLapTime(r, g, m) ELSE 0)
  IN  IF GetNumLaps(r, g, m) = 0 THEN 0
      ELSE time + (IF penalty THEN SumOver(RowsOfCar(r, g, m), added) ELSE 0)

GetAverageLapTime(r, g, m) == GetTime(r, MeanOf(LapsOfCar(r, g, m)), g, m, FALSE)

(* In hundredths of a percent, rounded down.                                  *)
GetConsistency(r, g, m) ==
  LET best == GetTime(r, GetDriversFastestLap(r, g, m), g, m, FALSE)
      mean == GetAverageLapTime(r, g, m)
  IN  IF best = 0 \/ mean = 0 THEN 0 ELSE 10000 - ((mean - best) * 10000) \div best

LapAssociatedWithGUIDAndModel(r, l, g, m) ==
  \/ l.guid = g /\ l.model = m
  \/ \E k \in DOMAIN r.cars : /\ r.cars[k].model = m
                              /\ \E d \in Members(r.cars[k]) : l.guid = {d}
                              /\ g \cap Members(r.cars[k]) # {}

(* The place in which the driver completed lap number n: one more than the    *)
(* cars that had done so before.                                              *)
GetPosForLap(r, g, m, n) ==
  LET nth(k) == Cardinality({j \in 1 .. k : r.laps[j].car = r.laps[k].car}) = n
      own == {k \in DOMAIN r.laps : nth(k) /\ LapAssociatedWithGUIDAndModel(r, r.laps[k], g, m)}
  IN  IF own = {} THEN 0 ELSE 1 + Cardinality({k \in 1 .. Min(own) - 1 : nth(k)})

GetLastLapPos(r, g, m) == GetPosForLap(r, g, m, Len(LapsOf(r, g, m)))

GetDriverPosition(r, g, m) ==
  LET at == {k \in DOMAIN r.result : r.result[k].guid = g /\ r.result[k].model = m}
  IN  IF at = {} THEN 0 ELSE Min(at)

------------------------------------------------------------------------------
(* Repairs.                                                                   *)

(* A kicked driver's row takes the GUID of its car, else both take the first  *)
(* of the car's list; then a kicked car takes the GUID of its row.            *)
ClearKickedGUIDs(r) ==
  LET carOf(q) == FirstOr(r.cars, LAMBDA c : c.id = q.car, [guid |-> Kicked, guids |-> <<>>])
      known(c) == IF c.guid # Kicked \/ c.guids = <<>> THEN c.guid ELSE {c.guids[1]}
      rows == UpdateWhere(r.result, LAMBDA q : q.guid = Kicked, LAMBDA q : [q EXCEPT !.guid = known(carOf(q))])
      rowOf(c) == FirstOr(rows, LAMBDA q : q.car = c.id, [guid |-> Kicked])
  IN  [r EXCEPT !.result = rows,
                !.cars = UpdateWhere(r.cars, LAMBDA c : c.guid = Kicked, LAMBDA c : [c EXCEPT !.guid = rowOf(c).guid])]

(* Do the car numbers of the rows differ from those of the cars and laps?     *)
CarIDsDiffer(r) ==
  \E k \in DOMAIN r.result : LET q == r.result[k] IN
    \/ Some(r.cars, LAMBDA c : c.guid = q.guid /\ c.model = q.model /\ c.id # q.car)
    \/ Some(r.laps, LAMBDA l : l.guid = q.guid /\ l.model = q.model /\ l.car # q.car)

(* Each row is numbered by its place, and what belongs to it follows: cars    *)
(* and laps by GUID and model, events by GUID alone.                          *)
NormaliseCarIDs(r) ==
  LET rows == [k \in DOMAIN r.result |-> [r.result[k] EXCEPT !.car = k - 1]]
      new(g, m, old) == LastOr(rows, LAMBDA q : q.guid = g /\ q.model = m, [car |-> old]).car
      driver(g, old) == LastOr(rows, LAMBDA q : q.guid = g, [car |-> old]).car
      car(c) == [c EXCEPT !.id = new(c.guid, c.model, @)]
      lap(l) == [l EXCEPT !.car = new(l.guid, l.model, @)]
      event(e) == [e EXCEPT !.car = driver(e.guid, @), !.other = driver(e.otherGuid, @)]
  IN  IF ~CarIDsDiffer(r) THEN r
      ELSE [r EXCEPT !.result = rows,
                     !.cars = [k \in DOMAIN r.cars |-> car(r.cars[k])],
                     !.laps = [k \in DOMAIN r.laps |-> lap(r.laps[k])],
                     !.events = [k \in DOMAIN r.events |-> event(r.events[k])]]

NormaliseDriverSwapGUIDs(r) ==
  LET whole(q) == LastOr(r.cars, LAMBDA c : c.id = q.car /\ Len(c.guids) > 1, [guids |-> <<>>])
      joint(q) == IF whole(q).guids = <<>> THEN q ELSE [q EXCEPT !.guid = Members(whole(q))]
  IN  [r EXCEPT !.result = [k \in DOMAIN @ |-> joint(@[k])]]

RenameDriver(r, g, name) ==
  LET rename(x) == [x EXCEPT !.name = name]
      is(x) == x.guid = g
      event(e) == [e EXCEPT !.name = IF e.guid = g THEN name ELSE @,
                            !.otherName = IF e.otherGuid = g THEN name ELSE @]
  IN  [r EXCEPT !.cars = UpdateWhere(@, is, rename), !.laps = UpdateWhere(@, is, rename),
                !.result = UpdateWhere(@, is, rename),
                !.events = [k \in DOMAIN @ |-> event(@[k])]]

------------------------------------------------------------------------------
(* The order of the rows.                                                     *)

(* Timed sessions: best lap with penalties, those without one last.           *)
BestTime(r, q) == GetTime(r, q.best, q.guid, q.model, TRUE)
TimedLess(r, a, b) == a.best # 0 /\ (b.best = 0 \/ BestTime(r, a) < BestTime(r, b))

NumLaps(r, q) == GetNumLaps(r, q.guid, q.model)
RaceTime(r, q) == GetTime(r, q.total, q.guid, q.model, TRUE)

(* After a penalty: the disqualified last, then laps, then time.              *)
PenaltyLessMut(r, a, b) ==
  IF a.disq # b.disq THEN a.disq ELSE NumLaps(r, a) > NumLaps(r, b)
PenaltyLess(r, a, b) ==
  IF a.disq # b.disq THEN b.disq
  ELSE IF r.type \in Timed THEN TimedLess(r, a, b)
  ELSE \/ NumLaps(r, a) > NumLaps(r, b)
       \/ NumLaps(r, a) = NumLaps(r, b) /\ RaceTime(r, a) < RaceTime(r, b)

(* The fall back: with as many laps and no penalty, the order in which the    *)
(* last lap was completed.                                                    *)
FallBackLess(r, a, b) ==
  IF a.disq # b.disq THEN b.disq
  ELSE IF r.type \in Timed THEN TimedLess(r, a, b)
  ELSE \/ NumLaps(r, a) > NumLaps(r, b)
       \/ /\ NumLaps(r, a) = NumLaps(r, b)
          /\ IF a.hasPen \/ b.hasPen THEN RaceTime(r, a) < RaceTime(r, b)
             ELSE GetLastLapPos(r, a.guid, a.model) < GetLastLapPos(r, b.guid, b.model)

SortRows(r, Less(_, _, _)) ==
  [r EXCEPT !.result = SortSlice(@, LAMBDA a, b : Less(r, a, b))]

NewRow(r, g, m, id, name) ==
  [guid |-> g, model |-> m, car |-> id, best |-> GetDriversFastestLap(r, g, m), total |-> 0,
   hasPen |-> FALSE, penTime |-> 0, lapPen |-> 0, disq |-> FALSE, name |-> name]

(* A fall back that forgets who has a row already.                            *)
AddRowMut(r, g, m, id, name) ==
  IF Some(r.result, LAMBDA q : q.guid = g /\ q.car = id) THEN r
  ELSE [r EXCEPT !.result = Append(@, NewRow(r, g, m, id, name))]

AddRow(r, g, m, id, name) ==
  IF Some(r.result, LAMBDA q : q.guid = g) THEN r
  ELSE [r EXCEPT !.result = Append(@, NewRow(r, g, m, id, name))]

(* Cars and laps without a row get one, found by GUID alone.                  *)
AddMissingRows(r) ==
  LET withCars == FoldLeft(LAMBDA s, c : AddRow(s, c.guid, c.model, c.id, c.name), r, r.cars)
  IN  FoldLeft(LAMBDA s, l : AddRow(s, l.guid, l.model, l.car, l.name), withCars, r.laps)

(* The time is that of the driver's laps in any car; the seconds of a penalty *)
(* are added as milliseconds.                                                 *)
Recount(r) ==
  LET time(q) == SumOver(SelectSeq(r.laps, LAMBDA l : l.guid = q.guid), LapTime)
      recount(q) == [q EXCEPT
        !.total = time(q) + (IF q.hasPen THEN q.penTime \div 1000 ELSE 0),
        !.best = IF @ = 0 THEN GetDriversFastestLap(r, q.guid, q.model) ELSE @]
  IN  [r EXCEPT !.result = [k \in DOMAIN @ |-> recount(@[k])]]

AddMissingCars(r) ==
  LET known(s, q) == Some(s.cars, LAMBDA c : c.guid = q.guid /\ c.model = q.model)
      car(q) == [id |-> q.car, model |-> q.model, guid |-> q.guid,
                 guids |-> SetToSeq(q.guid), name |-> q.name]
      add(s, q) == IF known(s, q) THEN s ELSE [s EXCEPT !.cars = Append(@, car(q))]
  IN  FoldLeft(add, r, r.result)

FallBackSort(r) == SortRows(AddMissingCars(Recount(AddMissingRows(r))), FallBackLess)

------------------------------------------------------------------------------
(* combineResults: the first file says which track and session; the others    *)
(* are skipped when theirs differ.  Rows are left to FallBackSort.            *)

SameSession(a, b) == a.track = b.track /\ a.type = b.type

AddCar(cars, c) ==
  IF Some(cars, LAMBDA e : e.guid = c.guid /\ e.model = c.model) THEN cars ELSE Append(cars, c)

(* The ids are those of the first file when the last of the others agrees,    *)
(* and none when there is no other.                                           *)
KeptID(first, others, id) ==
  IF others # <<>> /\ Last(others)[id] = first[id] THEN first[id] ELSE ""

CombineResults(files) ==
  LET first == files[1]
      others == SelectSeq(Tail(files), LAMBDA f : SameSession(first, f))
      all == <<first>> \o others
      joined(part(_)) == FlattenSeq([k \in DOMAIN all |-> part(all[k])])
  IN  [first EXCEPT !.file = Last(all).file, !.result = <<>>,
                    !.cars = FoldLeft(AddCar, <<>>, joined(LAMBDA f : f.cars)),
                    !.events = joined(LAMBDA f : f.events),
                    !.laps = joined(LAMBDA f : f.laps),
                    !.champ = KeptID(first, others, "champ"),
                    !.weekend = KeptID(first, others, "weekend")]

------------------------------------------------------------------------------
(* LoadResult, and the change that a penalty makes (penalties.go).            *)

LoadResult(r, fallBack) ==
  LET valid == [r EXCEPT !.result = SelectSeq(@, LAMBDA q : q.total > 0)]
  IN  IF fallBack THEN FallBackSort(valid) ELSE valid

ClearedMut(q) == [q EXCEPT !.hasPen = FALSE, !.disq = FALSE, !.penTime = 0]
Cleared(q) == [q EXCEPT !.hasPen = FALSE, !.disq = FALSE, !.penTime = 0, !.lapPen = 0]

Disqualified(q) == [q EXCEPT !.disq = TRUE, !.hasPen = FALSE, !.lapPen = 0]

(* The laps of an earlier, longer penalty stay when the new one is shorter    *)
(* than a lap.                                                                *)
Penalised(r, q, p) ==
  LET lap == GetLastLapTime(r, q.guid, q.model)
  IN  [q EXCEPT !.hasPen = TRUE, !.disq = FALSE, !.penTime = p,
                !.lapPen = IF p > lap THEN p \div lap ELSE @]

(* A penalty of 0 disqualifies; the first row of driver and model changes.    *)
ChangeRow(r, op) ==
  LET at == GetDriverPosition(r, op.guid, op.model)
      new(q) == IF op.kind = "clear" THEN Cleared(q)
                ELSE IF op.penalty = 0 THEN Disqualified(q) ELSE Penalised(r, q, op.penalty)
  IN  IF at = 0 THEN r ELSE [r EXCEPT !.result[at] = new(@)]

ApplyPenalty(r, op) == SortRows(ChangeRow(r, op), PenaltyLess)

==============================================================================
