---------------------------- MODULE MCChampionship ----------------------------
(* The tables of a championship through a season, the places of its entrants,  *)
(* and the schedule of its events: one of the three per behaviour, in which    *)
(* the other two stay as they are in a championship that has none of it yet.   *)
EXTENDS MCChampionshipSeason, ChampionshipEntrants, ChampionshipSchedule

(* Entrants of two classes: a car "x" and a slot for any car in the first, two cars of
   the second; the first class takes "x" and "z". *)
MCSlot(c, u, m) == [class |-> c, uuid |-> u, guid |-> Free, model |-> m, team |-> "", ballast |-> 0]
MCSlots == (1 :> MCSlot(1, 1, "x")) @@ (2 :> MCSlot(1, 2, AnyCarModel)) @@ (3 :> MCSlot(2, 3, "y"))
MCAvailable == <<{"x", "z"}, {}>>
MCSettings == {[open |-> TRUE, approval |-> FALSE, firstFree |-> FALSE],
               [open |-> TRUE, approval |-> TRUE, firstFree |-> FALSE],
               [open |-> FALSE, approval |-> TRUE, firstFree |-> FALSE],
               [open |-> FALSE, approval |-> FALSE, firstFree |-> TRUE]}


VARIABLE part
vars == <<svars, evars, scheduleVars, part>>

NoSeason == events = <<>> /\ classes = <<>> /\ edits = 0

NoEntrants ==
  /\ setting = (CHOOSE s \in Settings : TRUE) /\ slots = <<>> /\ answers = [d \in Drivers |-> NoAnswer]
  /\ lists = [e \in Events |-> NoList] /\ page = NoPage /\ given = [e \in Events |-> NoList]
  /\ dropped = {} /\ joined = {} /\ requests = 0

Init ==
  /\ part \in {"season", "entrants", "schedule"}
  /\ IF part = "season" THEN SeasonInit ELSE NoSeason
  /\ IF part = "entrants" THEN EntrantsInit ELSE NoEntrants
  /\ ScheduleInit

Next ==
  \/ part = "season" /\ SeasonNext /\ UNCHANGED <<evars, scheduleVars, part>>
  \/ part = "entrants" /\ EntrantsNext /\ UNCHANGED <<svars, scheduleVars, part>>
  \/ part = "schedule" /\ ScheduleNext /\ UNCHANGED <<svars, evars, part>>

Spec == Init /\ [][Next]_vars
===============================================================================
