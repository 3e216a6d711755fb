-------------------------- MODULE ChampionshipSeason --------------------------
(* The season of a championship as its tables show it: sessions end and their *)
(* results are enhanced with what the championship knows of its entrants,     *)
(* penalties are given and taken back, an entrant takes the points of his     *)
(* team with him, and the events are put in another order                     *)
(* (championship_manager.go, championships.go).                               *)
(*                                                                            *)
(*   class    also has cars, the models of the class, and entrants, a         *)
(*            sequence of [guid, name, team]                                  *)
EXTENDS Standings

CONSTANTS
  Season,          \* the events of the new championship
  Klasses,         \* its classes, a sequence
  ResultsOf(_, _), \* results files acServer may write: of an event, of a type
  Teams,           \* team names an entrant may move to
  PenaltyPoints,   \* points an administrator may take away
  Champ,           \* [spectator]
  Before(_, _)     \* the order of names

VARIABLES
  events,   \* in the order of the page
  classes,
  edits     \* changes administrators made so far
svars == <<events, classes, edits>>

CONSTANT MaxEdits

SeasonInit ==
  /\ events = Season
  /\ classes = Klasses
  /\ edits = 0

------------------------------------------------------------------------------
(* EnhanceResults.                                                            *)

ClassFor(model) == FirstOr(classes, LAMBDA c : model \in c.cars, [id |-> 0])

AttachClassIDToResults(r) ==
  LET attach(x) == [x EXCEPT !.class = IF ClassFor(x.model).id # 0 THEN ClassFor(x.model).id ELSE @]
  IN  [r EXCEPT !.laps = [k \in DOMAIN @ |-> attach(@[k])], !.result = [k \in DOMAIN @ |-> attach(@[k])]]

AttachEntrantToResult(r, e, id) ==
  LET is(x) == x.guid = e.guid
      lap(l) == [l EXCEPT !.name = e.name, !.class = id]
      car(c) == [c EXCEPT !.name = e.name, !.team = e.team, !.class = id]
      event(v) == [v EXCEPT !.name = IF v.guid = e.guid THEN e.name ELSE @,
                            !.otherName = IF v.otherGuid = e.guid THEN e.name ELSE @]
  IN  [r EXCEPT !.cars = UpdateWhere(@, is, car), !.laps = UpdateWhere(@, is, lap),
                !.result = UpdateWhere(@, is, lap), !.events = [k \in DOMAIN @ |-> event(@[k])]]

EnhanceResults(r) ==
  LET attachAll(s, c) == FoldLeft(LAMBDA t, e : AttachEntrantToResult(t, e, c.id), s, c.entrants)
  IN  ClearKickedGUIDs(FoldLeft(attachAll, NormaliseDriverSwapGUIDs(AttachClassIDToResults(r)), classes))

------------------------------------------------------------------------------
(* Sessions end.                                                              *)

Now == 1 + Max({0} \cup {events[k].completed : k \in DOMAIN events}
               \cup UNION {{events[k].weekend[j].completed : j \in DOMAIN events[k].weekend} : k \in DOMAIN events})

Ended(s, r) == [s EXCEPT !.started = Now, !.completed = Now, !.results = EnhanceResults(r)]

(* Sessions of an event end in the order of their types, and the last one     *)
(* ends the event; those of a race weekend in the order of its list, and the  *)
(* event they belong to is never said to be completed.                        *)
Running(e) == {t \in DOMAIN e.sessions : e.sessions[t].completed = 0}
NextType(e) == LastOr(championshipStandingSessionOrder, LAMBDA t : t \in Running(e), "none")

FinishEventSession(k) ==
  LET t == NextType(events[k])
  IN  /\ events[k].weekend = <<>> /\ t # "none"
      /\ \E r \in ResultsOf(events[k].name, t) :
           events' = [events EXCEPT ![k].sessions[t] = Ended(@, r),
                                    ![k].completed = IF Running(events[k]) = {t} THEN Now ELSE @]
      /\ UNCHANGED <<classes, edits>>

FinishWeekendSession(k) ==
  LET open == {i \in DOMAIN events[k].weekend : events[k].weekend[i].completed = 0}
      j == Min(open)
  IN  /\ open # {}
      /\ \E r \in ResultsOf(events[k].name, events[k].weekend[j].type) :
           events' = [events EXCEPT ![k].weekend[j] = Ended(@, r)]
      /\ UNCHANGED <<classes, edits>>

------------------------------------------------------------------------------
(* Administrators.                                                            *)

Edit == edits < MaxEdits /\ edits' = edits + 1

Without(f, x) == [y \in DOMAIN f \ {x} |-> f[y]]

ModifyDriverPenalty(k, g) ==
  /\ Edit
  /\ \E p \in PenaltyPoints :
       classes' = [classes EXCEPT ![k].drivers = IF p = 0 THEN Without(@, g) ELSE (g :> p) @@ @]
  /\ UNCHANGED events

ModifyTeamPenalty(k, t) ==
  /\ Edit
  /\ \E p \in PenaltyPoints :
       classes' = [classes EXCEPT ![k].teams = IF p = 0 THEN Without(@, t) ELSE (t :> p) @@ @]
  /\ UNCHANGED events

(* HandleCreateChampionship with TransferTeamPoints: all results of the       *)
(* entrant so far are those of his new team.                                  *)
Reattached(s, e, id) == IF HasResults(s) THEN [s EXCEPT !.results = AttachEntrantToResult(@, e, id)] ELSE s

TransferTeamPoints(k, n) ==
  /\ Edit
  /\ \E t \in Teams :
       LET e == [classes[k].entrants[n] EXCEPT !.team = t]
           in(v) == [v EXCEPT !.sessions = [y \in DOMAIN @ |-> Reattached(@[y], e, classes[k].id)],
                              !.weekend = [y \in DOMAIN @ |-> Reattached(@[y], e, classes[k].id)]]
       IN  /\ classes' = [classes EXCEPT ![k].entrants[n] = e]
           /\ events' = [y \in DOMAIN events |-> in(events[y])]

(* The ids come from a page: events that are not listed are gone.             *)
ReorderChampionshipEvents ==
  /\ Edit
  /\ \E order \in {<<>>} \cup UNION {[1 .. n -> DOMAIN events] : n \in {Len(events)}} :
       /\ IsInjective(order)
       /\ events' = [y \in DOMAIN order |-> events[order[y]]]
  /\ UNCHANGED classes

SeasonNext ==
  \/ \E k \in DOMAIN events : FinishEventSession(k) \/ FinishWeekendSession(k)
  \/ \E k \in DOMAIN classes :
       \/ \E n \in DOMAIN classes[k].entrants :
            ModifyDriverPenalty(k, classes[k].entrants[n].guid) \/ TransferTeamPoints(k, n)
       \/ \E t \in Teams : ModifyTeamPenalty(k, t)
  \/ ReorderChampionshipEvents

SeasonSpec == SeasonInit /\ [][SeasonNext]_svars

------------------------------------------------------------------------------
(* The columns of the events add up to the total, less the penalty: what the  *)
(* page computes event by event with StandingsForEntrantAtEvent agrees with   *)
(* Standings.  Not so for a driver with two rows, alone and in a car that he  *)
(* shared: both lose the penalty, and a column shows the first of them.       *)
ColumnsAddUp ==
  \A k \in DOMAIN classes :
    LET c == classes[k]
        rows == StandingRows(c, Champ, events, c.drivers)
        first == StandingsForEvent(c, Champ, events[1], Before)
        last == StandingsForEvent(c, Champ, events[Len(events)], Before)
        twice(s) == \E t \in rows : t.guid # s.guid /\ t.car.guid = s.car.guid
        penalty(s) == PenaltyFor(c.drivers, s.car.guid)
    IN  \A s \in {t \in rows : ~twice(t)} :
          \A one \in first : \A two \in (IF Len(events) = 1 THEN {<<>>} ELSE last) :
            s.points + penalty(s) = Cell(one, s) + Cell(two, s)

(* The one draw in which each team is looked up in the sessions of type t as  *)
(* long as there is one.                                                      *)
DrawOf(awards, t) ==
  [k \in DOMAIN awards |->
     IF t \in WithResults(awards[k].event) THEN t ELSE CHOOSE u \in WithResults(awards[k].event) : TRUE]

(* A driver who is not in every session of the event, or not always for the   *)
(* same team.                                                                 *)
Stray(a) == \E t, u \in WithResults(a.event) : TeamIn(a.event, t, a.guid) # TeamIn(a.event, u, a.guid)

(* Whatever sessions the lookup meets first, the table of teams is the same,  *)
(* and holds the points of the drivers: TeamStandings and Standings agree.    *)
(* Drivers that change team or join late are the exception, Stray.            *)
SameTable(c, awards, table, drivers) ==
  LET team(s) == CHOOSE t \in DOMAIN s.teams : TRUE
      of(t) == MapThenSumSet(LAMBDA s : s.points, {s \in drivers : team(s) = t})
  IN  /\ \A t \in {"SecondRace", "Qualifying"} : TeamRows(c, awards, DrawOf(awards, t)) = table
      /\ (\A s \in drivers : Cardinality(DOMAIN s.teams) = 1) =>
           \A row \in table : row.points = of(row.team) - PenaltyFor(c.teams, row.team)

AwardsOf(c) == Awards(c, Champ, ExtractRaceWeekendSessionsIntoIndividualEvents(events))

TeamsHaveAllPoints ==
  \A c \in {classes[k] : k \in DOMAIN classes} : \A awards \in {AwardsOf(c)} :
    \/ Some(awards, Stray)
    \/ SameTable(c, awards, TeamRows(c, awards, DrawOf(awards, "Race")), StandingRows(c, Champ, events, None))

(* The same points make the same table: two computations differ only in the   *)
(* order of drivers, or of teams, that are tied in points and in every place  *)
(* that counts.  A row comes out of a map, so the comparison has to be an     *)
(* order.                                                                     *)
Level(rows) == \E s, t \in rows : s # t /\ s.points = t.points

TablesRepeatable ==
  Len(events) > 1 =>
  \A c \in {classes[k] : k \in DOMAIN classes} :
    LET count(s, i) == CountPositionsForDriver(c, i, s.car.guid, events)
        tied(n, s, t) == s.points = t.points /\ \A i \in 1 .. n : count(s, i) = count(t, i)
    IN  /\ Level(StandingRows(c, Champ, events, c.drivers)) =>
             \A x, y \in Standings(c, Champ, events, c.drivers, Before) :
               \A i \in DOMAIN x : x[i] = y[i] \/ tied(Len(x), x[i], y[i])
        /\ \A draw \in {DrawOf(AwardsOf(c), "Race")} :
             Level(TeamRows(c, AwardsOf(c), draw)) => Cardinality(TeamStandings(c, Champ, events, draw, Before)) <= 1

(* The numbers of the overview agree with the tables: all is done at 100      *)
(* percent and not before; at the end, who scored in an event was there       *)
(* (twice, when he drove alone and in a shared car, or in two classes), and   *)
(* a last result can be found of all that are in results.                     *)
SummariesAgree ==
  LET all == ExtractRaceWeekendSessionsIntoIndividualEvents(events)
      done == SelectSeq(all, EventDone)
      seen == UNION {UNION {{q.guid : q \in Range(e.sessions[t].results.result)} : t \in WithResults(e)}
                     : e \in Range(done)}
      scored(g, e) == \E c \in Range(classes) : Some(Awards(c, Champ, <<e>>), LAMBDA a : a.guid = g)
  IN  /\ events # <<>> => (Progress(events) = 100 <=> NumCompletedEvents(events) = Len(all))
      /\ Len(done) = Len(all) =>
           /\ \A c \in Range(classes) : \A x \in Range(c.entrants) :
                EntrantAttendance(Range(classes), Champ, events, x.guid) >= CountIn(done, LAMBDA e : scored(x.guid, e))
           /\ \A g \in seen : FindLastResultForDriver(events, g).rows # {NoRow}

(* The comment in TeamStandings: "find the team the driver was in for this    *)
(* race".  A driver who was not in a session whose results are met first      *)
(* scores for no team.                                                        *)
PointsGoToATeam ==
  \A k \in DOMAIN classes :
    LET awards == Awards(classes[k], Champ, ExtractRaceWeekendSessionsIntoIndividualEvents(events))
    IN  \A t \in Range(championshipStandingSessionOrder) :
          \A row \in TeamRows(classes[k], awards, DrawOf(awards, t)) : row.team # ""

\* The tables of drivers, of teams and the summaries tell one story.
TablesAddUp == ColumnsAddUp /\ TeamsHaveAllPoints /\ SummariesAgree
==============================================================================
