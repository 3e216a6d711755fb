---------------------------- MODULE MCResultsFiles ----------------------------
(* Results of three drivers on one track: a race with a championship, one of  *)
(* a race weekend in which two drivers shared a car, and two practices in     *)
(* which the cars are numbered differently.                                   *)
EXTENDS ResultsFiles

Car(id, m, list) == [id |-> id, model |-> m, guid |-> {Last(list)}, guids |-> list, name |-> "n"]
Lap(d, m, id, t, cuts) ==
  [guid |-> {d}, model |-> m, car |-> id, time |-> t, cuts |-> cuts,
   sectors |-> <<t \div 2 + id * 1000, t - t \div 2 - id * 1000>>, name |-> "n"]
RowFor(g, m, id, best, total) ==
  [guid |-> g, model |-> m, car |-> id, best |-> best, total |-> total, hasPen |-> FALSE,
   penTime |-> 0, lapPen |-> 0, disq |-> FALSE, name |-> "n"]
Hit(id, d, other, e) == [car |-> id, other |-> other, guid |-> {d}, otherGuid |-> {e}, type |-> "CAR",
                         name |-> "n", otherName |-> "n"]

RaceFile ==
  [type |-> Race, track |-> "a", file |-> "1", champ |-> "c", weekend |-> "",
   cars |-> <<Car(0, "x", <<"d1">>), Car(1, "x", <<"d2">>), Car(2, "y", <<"d3">>)>>,
   laps |-> <<Lap("d1", "x", 0, 62000, 0), Lap("d2", "x", 1, 63000, 0), Lap("d3", "y", 2, 70000, 1),
              Lap("d1", "x", 0, 61000, 0), Lap("d2", "x", 1, 62000, 0)>>,
   events |-> <<Hit(0, "d1", 1, "d2")>>,
   result |-> <<RowFor({"d1"}, "x", 0, 61000, 123000), RowFor({"d2"}, "x", 1, 62000, 125000),
                RowFor({"d3"}, "y", 2, 0, 70000)>>]

SwapFile ==
  [type |-> Race, track |-> "a", file |-> "2", champ |-> "", weekend |-> "w",
   cars |-> <<Car(0, "x", <<"d1", "d2">>), Car(1, "x", <<"d3">>)>>,
   laps |-> <<Lap("d1", "x", 0, 60000, 0), Lap("d3", "x", 1, 61000, 0), Lap("d2", "x", 0, 62000, 0),
              Lap("d3", "x", 1, 63000, 0)>>,
   events |-> <<>>,
   result |-> <<RowFor({"d1", "d2"}, "x", 0, 60000, 122000), RowFor({"d3"}, "x", 1, 61000, 124000)>>]

PracticeFile ==
  [type |-> "PRACTICE", track |-> "a", file |-> "3", champ |-> "", weekend |-> "",
   cars |-> <<Car(0, "x", <<"d1">>), Car(1, "x", <<"d2">>)>>,
   laps |-> <<Lap("d1", "x", 0, 61000, 0), Lap("d2", "x", 1, 58000, 1), Lap("d2", "x", 1, 62000, 0)>>,
   events |-> <<>>,
   result |-> <<RowFor({"d1"}, "x", 0, 61000, 61000), RowFor({"d2"}, "x", 1, 62000, 120000)>>]

OtherPractice ==
  [type |-> "PRACTICE", track |-> "a", file |-> "4", champ |-> "", weekend |-> "",
   cars |-> <<Car(0, "x", <<"d2">>), Car(1, "y", <<"d3">>), Car(2, "x", <<"d4">>)>>,
   laps |-> <<Lap("d2", "x", 0, 60000, 0), Lap("d3", "y", 1, 64000, 0)>>,
   events |-> <<Hit(0, "d2", 1, "d3")>>,
   result |-> <<RowFor({"d2"}, "x", 0, 60000, 60000), RowFor({"d3"}, "y", 1, 64000, 64000),
                RowFor({"d4"}, "x", 2, 0, 0)>>]

MCResultFiles == {RaceFile, SwapFile, PracticeFile, OtherPractice}

MCSymmetry == Permutations(Admins)

==============================================================================
