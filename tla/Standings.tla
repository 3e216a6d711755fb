------------------------------ MODULE Standings ------------------------------
(* The points of a championship, and the tables made of them                  *)
(* (championships.go): what each session gives to the drivers of a class, the *)
(* table of drivers, the table of teams, and the columns of single events.    *)
(*                                                                            *)
(*   points   [places, best, pole, car, env, cut, second]                     *)
(*   class    [id, points, drivers, teams]: the last two are penalties, by    *)
(*            GUID and by team                                                *)
(*   session  [type, started, completed, results, points]: points by class    *)
(*            id in a session of a race weekend, and NoPoints in other events *)
(*   event    [started, completed, sessions, weekend]: sessions by type, and  *)
(*            the sequence of sessions when the event is a race weekend       *)
(* Rows and laps of results have a class too, laps the time at which they     *)
(* ended, and cars a team.  Points are whole numbers here, so the multiplier  *)
(* of second races is one.                                                    *)
EXTENDS SessionResults

NoPoints == 0 :> "none"
NoResults == [none |-> TRUE]
NoCar == [none |-> TRUE]

(* The order in which the code looks for a driver's car.                      *)
championshipStandingSessionOrder == <<"SecondRace", "Race", "Qualifying", "Practice", "Booking">>
Races == {"Race", "SecondRace"}

ForPos(points, pos) == IF pos > Len(points.places) THEN 0 ELSE points.places[pos]

HasResults(s) == s.results # NoResults
SessionDone(s) == s.completed > 0 /\ HasResults(s)

(* The types of sessions of the event that have results.                      *)
WithResults(e) == {t \in DOMAIN e.sessions : HasResults(e.sessions[t])}

(* Each session of a race weekend becomes an event of one session.            *)
ExtractRaceWeekendSessionsIntoIndividualEvents(events) ==
  LET single(s) == [started |-> s.started, completed |-> s.completed, weekend |-> <<>>,
                    sessions |-> s.type :> s]
      parts(e) == IF e.weekend = <<>> THEN <<e>> ELSE [k \in DOMAIN e.weekend |-> single(e.weekend[k])]
  IN  FlattenSeq([k \in DOMAIN events |-> parts(events[k])])

------------------------------------------------------------------------------
(* Who drives what.                                                           *)

(* The cars in the order of their last lap, the latest first.  The lists of   *)
(* the results themselves are sorted, which makes no difference to the table  *)
(* of teams: all cars of a driver have the team of his entrant.               *)
LatestCars(r) ==
  LET laps(c) == {r.laps[k].at : k \in {j \in DOMAIN r.laps : r.laps[j].car = c.id}}
      last(c) == Max({0} \cup laps(c))
  IN  [r EXCEPT !.cars = SortSlice(@, LAMBDA a, b : last(a) > last(b))]

LatestFirst(e) ==
  [e EXCEPT !.sessions = [t \in DOMAIN @ |-> IF HasResults(@[t]) THEN [@[t] EXCEPT !.results = LatestCars(@)] ELSE @[t]]]

DrivenBy(c, g) == c.guid = g \/ Members(c) = g

(* The car of a driver in an event: the search goes on to the next type of    *)
(* session when it has found one, so the last type that has a car wins.       *)
CarIn(e, t, g) == FirstOr(e.sessions[t].results.cars, LAMBDA c : DrivenBy(c, g), NoCar)
CarFor(e, g) ==
  LET has(t) == t \in WithResults(e) /\ CarIn(e, t, g) # NoCar
      t == LastOr(championshipStandingSessionOrder, has, "none")
  IN  IF t = "none" THEN NoCar ELSE CarIn(e, t, g)

GetTeamName(r, g) == FirstOr(r.cars, LAMBDA c : c.guid = g, [team |-> ""]).team

(* The team of the driver in one session of the event: that of the first car, *)
(* no team when he has none there.                                            *)
TeamIn(e, t, g) == FirstOr(e.sessions[t].results.cars, LAMBDA c : DrivenBy(c, g), [team |-> ""]).team

ResultsForClass(c, champ, r) ==
  SelectSeq(r.result, LAMBDA q : q.class = c.id /\ q.total > 0 /\ q.guid # champ.spectator)

FastestLapInClass(r, c) ==
  LET laps == SelectSeq(r.laps, LAMBDA l : l.class = c.id)
  IN  IF laps = <<>> THEN [guid |-> {}] ELSE FastestOf(laps)

------------------------------------------------------------------------------
(* standings: who is given which points, event by event.  An award is         *)
(* [event, guid, points, finish].                                             *)

PolePosition(c, champ, e, s) ==
  LET rows == ResultsForClass(c, champ, s.results)
  IN  IF rows = <<>> THEN <<>>
      ELSE <<[event |-> e, guid |-> rows[1].guid, points |-> c.points.pole, finish |-> FALSE]>>

(* A disqualified driver keeps his place, and nobody gets its points.         *)
RaceAwards(c, champ, e, s, points, times) ==
  LET rows == ResultsForClass(c, champ, s.results)
      give(q, n, finish) == [event |-> e, guid |-> q.guid, points |-> n * times, finish |-> finish]
      fastest(q) == IF FastestLapInClass(s.results, c).guid = q.guid
                    THEN <<give(q, points.best, FALSE)>> ELSE <<>>
      lost(q) == points.car * Crashes(s.results, q.guid, q.model, {"CAR"})
                 + points.env * Crashes(s.results, q.guid, q.model, {"ENV"})
                 + points.cut * GetCuts(s.results, q.guid, q.model)
      taken(q) == IF s.type \in Races THEN <<give(q, -lost(q), FALSE)>> ELSE <<>>
      row(k) == IF rows[k].disq THEN <<>>
                ELSE <<give(rows[k], ForPos(points, k), TRUE)>> \o fastest(rows[k]) \o taken(rows[k])
  IN  FlattenSeq([k \in DOMAIN rows |-> row(k)])

SecondRaceTimes(c, s) == IF s.type = "SecondRace" THEN c.points.second ELSE 1

SessionAwards(c, champ, e, s) ==
  IF ~SessionDone(s) THEN <<>>
  ELSE IF s.points # NoPoints
       THEN RaceAwards(c, champ, e, s, IF c.id \in DOMAIN s.points THEN s.points[c.id] ELSE c.points, 1)
  ELSE IF s.type = "Qualifying" THEN PolePosition(c, champ, e, s)
  ELSE IF s.type \in Races THEN RaceAwards(c, champ, e, s, c.points, SecondRaceTimes(c, s))
  ELSE <<>>

Awards(c, champ, events) ==
  LET latest == SortSlice(events, LAMBDA a, b : a.completed > b.completed)
      types(e) == SelectSeq(championshipStandingSessionOrder, LAMBDA t : t \in DOMAIN e.sessions)
      of(e) == FlattenSeq([k \in DOMAIN types(e) |-> SessionAwards(c, champ, e, e.sessions[types(e)[k]])])
  IN  FlattenSeq([k \in DOMAIN latest |-> of(latest[k])])

------------------------------------------------------------------------------
(* Who of two with as many points had the better places.  The events are not  *)
(* the extracted ones: sessions of race weekends do not count.  Neither laps  *)
(* nor disqualification matter.                                               *)

RaceResults(events) ==
  LET done(e) == {t \in DOMAIN e.sessions \cap Races : SessionDone(e.sessions[t])}
  IN  UNION {{[event |-> k, results |-> events[k].sessions[t].results, type |-> t] : t \in done(events[k])}
             : k \in DOMAIN events}

CountPositionsForDriver(c, i, g, events) ==
  LET rows(r) == SelectSeq(r.result, LAMBDA q : q.class = c.id)
  IN  Cardinality({r \in RaceResults(events) : i \in DOMAIN rows(r.results) /\ rows(r.results)[i].guid = g})

(* A row counts for the class of the first car of its driver, whichever the   *)
(* class of the table is.                                                     *)
CountPositionsForTeam(i, team, events) ==
  LET car(r, q) == FirstOr(r.cars, LAMBDA k : k.guid = q.guid /\ k.class = q.class, NoCar)
      cars(r) == SelectSeq([k \in DOMAIN r.result |-> car(r, r.result[k])], LAMBDA k : k # NoCar)
  IN  Cardinality({r \in RaceResults(events) : i \in DOMAIN cars(r.results) /\ cars(r.results)[i].team = team})

(* More of the best place in which they differ.                               *)
BetterCounts(n, a(_), b(_)) ==
  LET differ == {i \in 1 .. n : a(i) # b(i)}
  IN  differ # {} /\ a(Min(differ)) > b(Min(differ))

HadBetterFinishingPositionsMut(c, g, h, events, n) ==
  \A i \in 1 .. n : CountPositionsForDriver(c, i, g, events) > CountPositionsForDriver(c, i, h, events)
HadBetterFinishingPositions(c, g, h, events, n) ==
  BetterCounts(n, LAMBDA i : CountPositionsForDriver(c, i, g, events),
                  LAMBDA i : CountPositionsForDriver(c, i, h, events))

(* The names decide when there is no difference; Before is their order.       *)
TeamHadBetterFinishingPositions(s, t, events, n, Before(_, _)) ==
  LET a(i) == CountPositionsForTeam(i, s, events)
      b(i) == CountPositionsForTeam(i, t, events)
  IN  IF \A i \in 1 .. n : a(i) = b(i) THEN Before(s, t) ELSE BetterCounts(n, a, b)

------------------------------------------------------------------------------
(* The table of drivers, as a set of rows [guid, car, teams, points], and as  *)
(* the sequences in which a page may show it.                                 *)

PenaltyFor(penalties, x) == IF x \in DOMAIN penalties THEN penalties[x] ELSE 0

SumOf(awards) == SumOver(awards, LAMBDA a : a.points)

(* Awards of drivers for whom no car is found are lost.                       *)
WithCars(awards) ==
  SelectSeq([k \in DOMAIN awards |-> [car |-> CarFor(awards[k].event, awards[k].guid), guid |-> awards[k].guid,
                                      points |-> awards[k].points, finish |-> awards[k].finish]],
            LAMBDA a : a.car # NoCar)

Standing(awards, g) ==
  LET own == SelectSeq(awards, LAMBDA a : a.guid = g)
      ends == SelectSeq(own, LAMBDA a : a.finish)
      teams == {ends[k].car.team : k \in DOMAIN ends}
  IN  [guid |-> g, car |-> own[1].car, points |-> SumOf(own),
       teams |-> [t \in teams |-> CountIn(ends, LAMBDA a : a.car.team = t)]]

(* The events as the table of drivers goes through them.                      *)
EventsOfTable(inEvents) ==
  FoldLeft(LAMBDA s, e : Append(s, LatestFirst(e)), <<>>, ExtractRaceWeekendSessionsIntoIndividualEvents(inEvents))

(* A driver whose car has no name is left out.                                *)
RowsOfAwards(awards, penalties) ==
  {[s EXCEPT !.points = @ - PenaltyFor(penalties, s.car.guid)] :
     s \in {t \in {Standing(awards, g) : g \in {awards[k].guid : k \in DOMAIN awards}} : t.car.name # ""}}

StandingRows(c, champ, inEvents, penalties) ==
  RowsOfAwards(WithCars(Awards(c, champ, EventsOfTable(inEvents))), penalties)

StandingLess(c, inEvents, n, a, b, Before(_, _)) ==
  IF a.points # b.points THEN a.points > b.points
  ELSE IF Len(inEvents) > 1 THEN HadBetterFinishingPositions(c, a.car.guid, b.car.guid, inEvents, n)
  ELSE Before(a.car.name, b.car.name)

(* The rows come out of a map before they are sorted.                         *)
SortedRows(c, inEvents, rows, Before(_, _)) ==
  {SortSlice(s, LAMBDA a, b : StandingLess(c, inEvents, Cardinality(rows), a, b, Before)) : s \in SetToSeqs(rows)}

Standings(c, champ, inEvents, penalties, Before(_, _)) ==
  SortedRows(c, inEvents, StandingRows(c, champ, inEvents, penalties), Before)

None == <<>>

StandingsForEvent(c, champ, e, Before(_, _)) == Standings(c, champ, <<e>>, None, Before)

(* The cell of a driver and an event: the first row with the GUID of his car. *)
CellMut(table, entrant) ==
  FirstOr(table, LAMBDA s : s.guid = entrant.car.guid, [entrant EXCEPT !.points = 0]).points
Cell(table, entrant) ==
  FirstOr(table, LAMBDA s : s.car.guid = entrant.car.guid, [entrant EXCEPT !.points = 0]).points

StandingsForEntrantAtEvent(c, champ, e, entrant, Before(_, _)) ==
  {Cell(t, entrant) : t \in StandingsForEvent(c, champ, e, Before)}

------------------------------------------------------------------------------
(* The table of teams.  The team of an award is looked up in the first        *)
(* session with results that an iteration over a map meets: draw says, for    *)
(* each award, which one that is.                                             *)

TeamRowsMut(c, awards, draw) ==
  LET team(k) == TeamIn(awards[k].event, draw[k], awards[k].guid)
      last(t) == Max({k \in DOMAIN awards : team(k) = t})
  IN  {[team |-> t, points |-> awards[last(t)].points - PenaltyFor(c.teams, t)] : t \in {team(k) : k \in DOMAIN awards}}
TeamRows(c, awards, draw) ==
  LET team(k) == TeamIn(awards[k].event, draw[k], awards[k].guid)
      points(t) == MapThenSumSet(LAMBDA k : awards[k].points, {k \in DOMAIN awards : team(k) = t})
  IN  {[team |-> t, points |-> points(t) - PenaltyFor(c.teams, t)] : t \in {team(k) : k \in DOMAIN awards}}

TeamLess(c, inEvents, n, a, b, Before(_, _)) ==
  IF a.points # b.points THEN a.points > b.points
  ELSE IF Len(inEvents) > 1 THEN TeamHadBetterFinishingPositions(a.team, b.team, inEvents, n, Before)
  ELSE Before(a.team, b.team)

SortedTeams(c, inEvents, rows, Before(_, _)) ==
  {SortSlice(s, LAMBDA a, b : TeamLess(c, inEvents, Cardinality(rows), a, b, Before)) : s \in SetToSeqs(rows)}

TeamStandings(c, champ, inEvents, draw, Before(_, _)) ==
  SortedTeams(c, inEvents,
              TeamRows(c, Awards(c, champ, ExtractRaceWeekendSessionsIntoIndividualEvents(inEvents)), draw), Before)

------------------------------------------------------------------------------
(* Progress.                                                                  *)

EventDone(e) == e.completed > 0

NumCompletedEvents(events) == CountIn(ExtractRaceWeekendSessionsIntoIndividualEvents(events), EventDone)

(* Events in which he has a row, once for each class.                         *)
EntrantAttendance(classes, champ, events, g) ==
  LET all == ExtractRaceWeekendSessionsIntoIndividualEvents(events)
      rows(e) == UNION {{<<c.id, s>> : s \in StandingRows(c, champ, <<e>>, None)} : c \in classes}
  IN  SumOver(SelectSeq(all, EventDone), LAMBDA e : Cardinality({r \in rows(e) : r[2].car.guid = g}))

(* In percent.  A completed race weekend counts once more than its sessions.  *)
ProgressMut(events) ==
  LET total == Len(events)
      done == SumOver(events, LAMBDA e : (IF EventDone(e) THEN 1 ELSE 0) + CountIn(e.weekend, SessionDone))
  IN  IF total = 0 THEN 0 ELSE (done * 100) \div total
Progress(events) ==
  LET total == SumOver(events, LAMBDA e : IF e.weekend = <<>> THEN 1 ELSE Len(e.weekend))
      done == SumOver(events, LAMBDA e : (IF EventDone(e) THEN 1 ELSE 0) + CountIn(e.weekend, SessionDone))
  IN  IF total = 0 THEN 0 ELSE (done * 100) \div total

(* The team of a driver in the last session that has results, and the rows    *)
(* that may be found to be his last: of each event, oldest first, the session *)
(* that started last, or, when he is not in it, perhaps an earlier one, which *)
(* depends on the order of the map.                                           *)
NoRow == [none |-> TRUE]

FindLastResultForDriver(events, g) ==
  LET all == SelectSeq(ExtractRaceWeekendSessionsIntoIndividualEvents(events),
                       LAMBDA e : EventDone(e) /\ WithResults(e) # {})
      byAge == SortSlice(all, LAMBDA a, b : a.completed < b.completed)
      last(e) == CHOOSE t \in WithResults(e) : \A u \in WithResults(e) : e.sessions[u].started <= e.sessions[t].started
      row(e, t) == FirstOr(e.sessions[t].results.result, LAMBDA q : q.guid = g, NoRow)
      found(e) == IF row(e, last(e)) # NoRow THEN {row(e, last(e))}
                  ELSE {row(e, t) : t \in WithResults(e)}
      keep(rows, e) == (found(e) \ {NoRow}) \cup (IF NoRow \in found(e) THEN rows ELSE {})
  IN  [rows |-> FoldLeft(keep, {NoRow}, byAge),
       team |-> IF byAge = <<>> THEN ""
                ELSE GetTeamName(Last(byAge).sessions[last(Last(byAge))].results, g)]

==============================================================================
