------------------------------ MODULE MCEvents ------------------------------
(* What belongs to single events, side by side: the files and presets of races, the
   plugins that are started with them, the swaps of a car's two drivers, the schedule of
   a race, and reminders. *)
EXTENDS RaceSetup, Plugins, DriverSwaps, RaceScheduler, Reminders

(* Races: a time attack with a fixed setup, one closed at the start, with a slot of any car
   and a gap in its boxes, a booking event, an entry list over the limit of two; a championship event with
   slots of any car. *)
Entry(box, model, ballast, setup) ==
    [box |-> box, model |-> model, ballast |-> ballast, setup |-> setup]
Open(p, r) == [s \in ToSet(SessionOrder) |-> IF s = "race" THEN r ELSE p]
Form(list, enabled, open, attack) ==
    [cars |-> <<"a">>, list |-> list, enabled |-> enabled, open |-> open, pickup |-> TRUE,
     maxBallast |-> 0, timeAttack |-> attack, loopMode |-> FALSE]

TimeAttackForm == Form(<<Entry(0, "a", 10, "setup")>>, {"race"}, Open(NoJoin, FreeJoin), TRUE)
RaceForm == Form(<<Entry(2, "a", 5, "none"), Entry(0, "any", 0, "none")>>,
                 {"qualifying", "race"}, Open(NoJoin, NoJoin), FALSE)
BookingForm == Form(<<Entry(0, "a", 0, "none")>>, {"booking"}, Open(FreeJoin, FreeJoin), FALSE)
BigForm == Form([i \in 1..3 |-> Entry(i - 1, "a", 0, "none")], {"race"}, Open(FreeJoin, FreeJoin), FALSE)

MCForms == {TimeAttackForm, RaceForm, BookingForm, BigForm}
MCQuickForms == {<<"a", "b">>}
MCChampionshipEvents ==
    {[config |-> [cars |-> <<"any", "a", "b">>, sessions |-> [s \in {"race"} |-> NoJoin],
                  pickup |-> TRUE, maxBallast |-> 0, timeAttack |-> FALSE, loopMode |-> FALSE],
      list |-> <<Entry(0, "any", 0, "none"), Entry(1, "any", 1, "none")>>]}

\* Reminders: two leads, one that is often in the past.
MCLeadLists == {<<0>>, <<1>>, <<2, 0, 1>>}


CONSTANTS d1, d2
Symmetric == Permutations({d1, d2})

VARIABLE part
vars == <<setupVars, pluginVars, swapVars, schedulerVars, reminderVars, part>>

NoSchedule ==
    /\ now = 0 /\ phase = "down" /\ store = 0 /\ startTimers = 0 /\ slot = 0 /\ made = 0 /\ th = 0
    /\ wanted = 0 /\ disturbed = 0 /\ asks = 0 /\ restarts = 0

Init ==
    /\ part \in {"setup", "plugins", "swaps", "schedule", "reminders"}
    /\ IF part = "schedule" THEN SchedulerInit ELSE NoSchedule
    /\ SetupInit /\ PluginsInit /\ SwapsInit /\ RemindersInit
    /\ part # "reminders" => options = [leads |-> <<0>>, token |-> NoToken]

Next ==
    \/ /\ part = "setup" /\ SetupNext
       /\ UNCHANGED <<pluginVars, swapVars, schedulerVars, reminderVars, part>>
    \/ /\ part = "plugins" /\ PluginsNext
       /\ UNCHANGED <<setupVars, swapVars, schedulerVars, reminderVars, part>>
    \/ /\ part = "swaps" /\ SwapsNext
       /\ UNCHANGED <<setupVars, pluginVars, schedulerVars, reminderVars, part>>
    \/ /\ part = "schedule" /\ SchedulerNext
       /\ UNCHANGED <<setupVars, pluginVars, swapVars, reminderVars, part>>
    \/ /\ part = "reminders" /\ RemindersNext
       /\ UNCHANGED <<setupVars, pluginVars, swapVars, schedulerVars, part>>

Spec == Init /\ [][Next]_vars

=============================================================================
