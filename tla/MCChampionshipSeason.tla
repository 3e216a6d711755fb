------------------------- MODULE MCChampionshipSeason -------------------------
(* A championship of two classes: an event with a qualifying and two races,   *)
(* and a race weekend with a qualifying and a race.  Driver c has a car of    *)
(* the second class; a and b may share a car; b may miss the qualifying, and  *)
(* c may drive a car of the first class.                                      *)
EXTENDS ChampionshipSeason

MCPoints(n) == [places |-> <<n, n \div 2>>, best |-> 1, pole |-> 3, car |-> 2, env |-> 0, cut |-> 1, second |-> 2]
Entrant(d, t) == [guid |-> {d}, name |-> d, team |-> t]
MCKlasses ==
  << [id |-> 1, cars |-> {"x"}, points |-> MCPoints(10), drivers |-> <<>>, teams |-> <<>>,
      entrants |-> <<Entrant("a", "red"), Entrant("b", "blue")>>],
     [id |-> 2, cars |-> {"y"}, points |-> MCPoints(8), drivers |-> <<>>, teams |-> <<>>,
      entrants |-> <<Entrant("c", "red")>>] >>

Session(t, points) == [type |-> t, started |-> 0, completed |-> 0, results |-> NoResults, points |-> points]
MCSeason ==
  << [name |-> "event", started |-> 0, completed |-> 0, weekend |-> <<>>,
      sessions |-> [t \in {"Qualifying", "Race", "SecondRace"} |-> Session(t, NoPoints)]],
     [name |-> "weekend", started |-> 0, completed |-> 0, sessions |-> <<>>,
      weekend |-> <<Session("Qualifying", 1 :> [MCPoints(0) EXCEPT !.pole = 0, !.best = 0]),
                    Session("Race", 1 :> MCPoints(12))>>] >>

(* Results with cars [id, model, list of drivers], in the order of their      *)
(* numbers; each has one lap, the faster the lower its number.                *)
File(cars, cuts, disq) ==
  LET n == DOMAIN cars IN
  [type |-> Race, file |-> "f",
   cars |-> [k \in n |-> [id |-> k, model |-> cars[k][1], guid |-> {Last(cars[k][2])}, guids |-> cars[k][2],
                          name |-> Last(cars[k][2]), team |-> "", class |-> 0]],
   laps |-> [k \in n |-> [guid |-> {Last(cars[k][2])}, model |-> cars[k][1], car |-> k, time |-> 60 + k,
                          at |-> 100 + k, cuts |-> IF k = 1 THEN cuts ELSE 0, name |-> "n", class |-> 0]],
   events |-> IF Len(cars) < 2 THEN <<>> ELSE
              <<[car |-> 2, other |-> 1, guid |-> {Last(cars[2][2])}, otherGuid |-> {Last(cars[1][2])},
                 type |-> "CAR", name |-> "n", otherName |-> "n"]>>,
   result |-> [k \in n |-> [guid |-> {Last(cars[k][2])}, model |-> cars[k][1], car |-> k, best |-> 60 + k,
                            total |-> 60 + k, disq |-> disq /\ k = 1, name |-> "n", class |-> 0]]]

A == <<"x", <<"a">>>>
B == <<"x", <<"b">>>>
C == <<"y", <<"c">>>>
MCResultsOf(name, t) ==
  IF t = "Qualifying" THEN {File(<<A, C>>, 0, FALSE)} \cup (IF name = "event" THEN {File(<<A, B, C>>, 0, FALSE)} ELSE {})
  ELSE IF t = "SecondRace" THEN {File(<<A, C, B>>, 0, TRUE)}
  ELSE IF name = "event" THEN {File(<<B, A, C>>, 1, FALSE), File(<< <<"x", <<"a", "b">>>>, C>>, 0, FALSE)}
  ELSE {File(<<A, B, C>>, 0, FALSE), File(<<B, <<"x", <<"c">>>>, A>>, 0, FALSE)}

MCChamp == [spectator |-> {"s"}]

MCBefore(s, t) ==
  LET order == <<"", "a", "b", "c", "blue", "red">>
      at(x) == CHOOSE k \in DOMAIN order : order[k] = x
  IN  at(s) < at(t)

==============================================================================
