----------------------------- MODULE RaceSetup -----------------------------
(***************************************************************************)
(* What RaceManager (race_manager.go) makes of the forms of quick races    *)
(* and custom races, the presets it saves, and the two files that          *)
(* applyConfigAndStart writes for acServer, server_cfg.ini and             *)
(* entry_list.ini (config_ini.go, entrylist_ini.go).                       *)
(*                                                                         *)
(* The files are written one after the other and read by acServer at every *)
(* launch, restarts included.  The race that is started is the object that *)
(* is changed for acServer, that race control keeps for a time attack, and *)
(* that a scheduled start saves again.                                     *)
(*                                                                         *)
(* A step is a request; that starts exclude each other and what happens    *)
(* when they overlap with timers is the subject of RaceManager and         *)
(* RaceScheduler.  That the process starts is taken for granted here.      *)
(***************************************************************************)
EXTENDS Integers, Sequences, FiniteSets, SequencesExt, FiniteSetsExt

CONSTANTS
    Forms,              \* forms of custom races: [cars, list, enabled, open, pickup, maxBallast, timeAttack, loopMode]
    QuickForms,         \* cars of quick races, in the order of the form
    ChampionshipEvents, \* what FinalEventConfigurationFiles hands to applyConfigAndStart: [config, list]
    AnyCar,             \* AnyCarModel
    FixedSetups,        \* files of fixed setups
    NoSetup,            \* ""
    Pitboxes,           \* boxes of the track
    MaxClientsOverride, \* limit of the host, 0 for none
    NoRace,             \* nil
    MaxRaces,           \* bound: presets
    MaxRequests         \* bound: requests

Min2(a, b) == IF a < b THEN a ELSE b

SessionOrder == <<"booking", "practice", "qualifying", "race">>
NoJoin == "no join"
FreeJoin == "free join"
UntilGreen == "free join until 20 seconds to the green light"
Openness == {NoJoin, FreeJoin, UntilGreen}

\* Configurations, with at least one car to drive, and the entrants of a list of cars.
ConfigFits(config) ==
    /\ config \in [cars : {config.cars}, pickup : BOOLEAN, maxBallast : Int, timeAttack : BOOLEAN, loopMode : BOOLEAN,
                   sessions : UNION {[on -> Openness] : on \in SUBSET ToSet(SessionOrder)}]
    /\ config.cars \in Seq(ToSet(config.cars)) /\ ToSet(config.cars) \ {AnyCar} # {}
Entrants(cars) ==
    [box : Int, model : ToSet(cars) \union {AnyCar}, ballast : Int, setup : FixedSetups \union {NoSetup}]

ASSUME LimitsAssumption ==
    /\ MaxClientsOverride \in Nat /\ Pitboxes \in Nat \ {0}
    /\ MaxRaces \in Nat /\ MaxRequests \in Nat
ASSUME FormsAssumption ==
    /\ \A f \in Forms :
          /\ ConfigFits([cars |-> f.cars, sessions |-> f.open, pickup |-> f.pickup, maxBallast |-> f.maxBallast,
                         timeAttack |-> f.timeAttack, loopMode |-> f.loopMode])
          /\ f.enabled \subseteq DOMAIN f.open /\ "practice" \in DOMAIN f.open
          /\ f.list \in Seq(Entrants(f.cars))
    /\ \A cars \in QuickForms : cars \in Seq(ToSet(cars)) /\ ToSet(cars) \ {AnyCar} # {}
    /\ \A e \in ChampionshipEvents :
          /\ ConfigFits(e.config) /\ ~e.config.timeAttack /\ e.list \in Seq(Entrants(e.config.cars))
          /\ "booking" \in DOMAIN e.config.sessions => e.list = <<>>

VARIABLES
    presets,    \* the store: the custom races, in the order they were saved
    files,      \* server_cfg.ini and entry_list.ini
    running,    \* what acServer runs: the event, and the files it has read
    timeAttack, \* raceControl.currentTimeAttackEvent
    setups,     \* the fixed setups that exist
    saving,     \* the started race that StartScheduledRace is about to save
    shared,     \* it is the object that race control keeps
    requests,   \* requests so far
    asked,      \* history: per preset, what the last form asked for
    rnotes      \* history: what the properties name as exceptions

setupVars == <<presets, files, running, timeAttack, setups, saving, shared, requests, asked, rnotes>>

NoFiles == [config |-> NoRace, entries |-> <<>>]
Idle == [id |-> 0, meant |-> NoFiles, read |-> NoFiles]

SetupInit ==
    /\ presets = <<>> /\ files = NoFiles /\ running = Idle
    /\ timeAttack = NoRace /\ saving = NoRace /\ shared = FALSE
    /\ setups = FixedSetups /\ requests = 0 /\ asked = <<>>
    /\ rnotes = [mixed |-> FALSE, announced |-> FALSE, foreign |-> {}, stale |-> {}]

Request == requests < MaxRequests /\ requests' = requests + 1

----------------------------------------------------------------------------
(* Entry lists: functions from keys to entrants                            *)

SortedBy(S, key) == CHOOSE s \in SetToSeqs(S) : \A i, j \in DOMAIN s : i < j => key[s[i]] <= key[s[j]]

\* AsSlice: the keys in the order of the pit boxes.
AsSlice(list) == SortedBy(DOMAIN list, [k \in DOMAIN list |-> list[k].box])

FindGreatestBallast(list) == Max({0} \union {list[k].ballast : k \in DOMAIN list})

\* "belt and braces check to make sure setup file exists"
SetupMissing(list) == \E k \in DOMAIN list : list[k].setup \notin setups \union {NoSetup}

\* Write numbers the boxes from 0, in the list it is given.
Renumbered(list) ==
    LET slice == AsSlice(list)
    IN  [k \in DOMAIN list |-> [list[k] EXCEPT !.box = (CHOOSE i \in DOMAIN slice : slice[i] = k) - 1]]

Written(list) ==
    LET slice == AsSlice(list)
        numbered == Renumbered(list)
    IN  [i \in DOMAIN slice |-> numbered[slice[i]]]

----------------------------------------------------------------------------
(* What a form asks for                                                    *)

\* A row takes the box of its EntrantID, and the place of an earlier row of that box.
BuildEntryList(form) ==
    LET row(b) == CHOOSE i \in DOMAIN form.list :
                     /\ form.list[i].box = b
                     /\ \A j \in DOMAIN form.list : j > i => form.list[j].box # b
    IN  [b \in {form.list[i].box : i \in DOMAIN form.list} |-> form.list[row(b)]]

\* A time attack has a practice session, whatever is enabled, and acServer loops.
BuildCustomRaceFromForm(form) ==
    LET on == IF form.timeAttack THEN {"practice"} ELSE form.enabled
    IN  [cars |-> form.cars, sessions |-> [s \in on |-> form.open[s]], pickup |-> form.pickup,
         maxBallast |-> form.maxBallast, timeAttack |-> form.timeAttack,
         loopMode |-> form.timeAttack \/ form.loopMode]

HasSession(config, type) == type \in DOMAIN config.sessions

CustomRace(id, rev, form) ==
    LET config == BuildCustomRaceFromForm(form)
    IN  [id |-> id, rev |-> rev, config |-> config, merged |-> {},
         list |-> IF HasSession(config, "booking") THEN <<>> ELSE BuildEntryList(form)]

\* The cars of a quick race in turn, one per box.
QuickRace(cars) ==
    LET boxes == IF MaxClientsOverride > 0 THEN Min2(Pitboxes, MaxClientsOverride) ELSE Pitboxes
    IN  [id |-> 0, rev |-> 0, merged |-> {},
         config |-> [cars |-> cars, sessions |-> [s \in {"qualifying", "race"} |-> FreeJoin],
                     pickup |-> TRUE, maxBallast |-> 0, timeAttack |-> FALSE, loopMode |-> TRUE],
         list |-> [b \in 0..(boxes - 1) |-> [model |-> cars[(b % Len(cars)) + 1], ballast |-> 0,
                                             setup |-> NoSetup, box |-> b]]]

----------------------------------------------------------------------------
(* applyConfigAndStart                                                     *)

\* Mutant: only a race is opened.
OpenedMut(sessions) ==
    [s \in DOMAIN sessions |-> IF s = "race" /\ sessions[s] = NoJoin THEN UntilGreen ELSE sessions[s]]

\* The first session cannot be closed to everyone.  The sessions of the race itself change.
FirstSession(on) == SessionOrder[Min({i \in DOMAIN SessionOrder : SessionOrder[i] \in on})]
Opened(sessions) ==
    LET first == FirstSession(DOMAIN sessions)
    IN  [s \in DOMAIN sessions |->
            IF s # first \/ sessions[s] # NoJoin THEN sessions[s]
            ELSE IF s = "race" THEN UntilGreen ELSE FreeJoin]

FinalCars(config) ==
    LET kept == {i \in DOMAIN config.cars : config.cars[i] # AnyCar}
        places == SortedBy(kept, [i \in kept |-> i])
    IN  [n \in DOMAIN places |-> config.cars[places[n]]]

\* What server_cfg.ini gets.
FinalConfig(race) ==
    [race.config EXCEPT
        !.cars = FinalCars(race.config),
        !.sessions = Opened(@),
        !.pickup = @ /\ ~HasSession(race.config, "booking"),
        !.maxBallast = Max({@, FindGreatestBallast(race.list)})]

AnySlots(list) == {k \in DOMAIN list : list[k].model = AnyCar}

\* Slots of any car take the listed cars in turn, in an order of the map's own.
Chosen(race, order) ==
    LET cars == FinalCars(race.config)
    IN  [k \in DOMAIN race.list |->
            IF k \notin AnySlots(race.list) THEN race.list[k]
            ELSE [race.list[k] EXCEPT
                    !.model = cars[(((CHOOSE i \in DOMAIN order : order[i] = k) - 1) % Len(cars)) + 1]]]

\* Mutant: the ballast is corrected in the race itself.
AfterStartMut(race, order) ==
    [race EXCEPT !.config = FinalConfig(race), !.list = Renumbered(Chosen(race, order))]

\* The race after its files were written: a struct that was copied, but for its maps.
AfterStart(race, order) ==
    [race EXCEPT !.config.sessions = Opened(@), !.list = Renumbered(Chosen(race, order))]

\* Mutant: the entry list is counted after the configuration is written.
WritesConfigMut(race) == TRUE

\* ErrEntryListTooBig comes before anything is written.
TooBig(race) == MaxClientsOverride > 0 /\ Cardinality(DOMAIN race.list) > MaxClientsOverride
WritesConfig(race) == ~TooBig(race)

\* A failed start leaves the event that runs.  A time attack stays announced; any other start
\* has removed what was.
Fails(race, order) ==
    /\ files' = IF WritesConfig(race) THEN [files EXCEPT !.config = FinalConfig(race)] ELSE files
    /\ timeAttack' = IF ~race.config.timeAttack THEN NoRace
                     ELSE IF TooBig(race) THEN race
                     ELSE [race EXCEPT !.config.sessions = Opened(@), !.list = Chosen(race, order)]
    /\ shared' = FALSE
    /\ rnotes' = [rnotes EXCEPT !.mixed = @ \/ ~TooBig(race),
                                !.announced = race.config.timeAttack]
    /\ UNCHANGED running

\* Mutant: the time attack of the event before is kept.
TimeAttackAfterMut(race) == IF race.config.timeAttack THEN race ELSE timeAttack

TimeAttackAfter(race) == IF race.config.timeAttack THEN race ELSE NoRace

Starts(race, started) ==
    LET new == [config |-> FinalConfig(race), entries |-> Written(started.list)]
    IN  /\ files' = new
        /\ running' = [id |-> race.id, meant |-> new, read |-> new]
        /\ timeAttack' = TimeAttackAfter(started)
        /\ rnotes' = [rnotes EXCEPT !.mixed = FALSE, !.announced = FALSE]

CannotStart(race) == TooBig(race) \/ SetupMissing(race.list)

\* The start of a race, and the copy that a scheduled start then saves.
ApplyConfigAndStart(race, scheduled) ==
    \E order \in SetToSeqs(AnySlots(race.list)) :
        IF CannotStart(race)
        THEN Fails(race, order) /\ UNCHANGED saving
        ELSE /\ Starts(race, AfterStart(race, order))
             /\ saving' = IF scheduled THEN AfterStart(race, order) ELSE saving
             /\ shared' = (scheduled /\ race.config.timeAttack)

----------------------------------------------------------------------------
(* Requests                                                                *)

SetupQuickRace(cars) ==
    /\ Request /\ ApplyConfigAndStart(QuickRace(cars), FALSE)
    /\ UNCHANGED <<presets, setups, asked>>

StartChampionshipEvent(e) ==
    /\ Request
    /\ ApplyConfigAndStart([id |-> 0, rev |-> 0, merged |-> {}, config |-> e.config, list |-> e.list], FALSE)
    /\ UNCHANGED <<presets, setups, asked>>

\* SetupCustomRace saves a preset, then starts it, schedules it (see RaceScheduler) or
\* leaves it; one that is only saved is announced as the time attack all the same.
SetupCustomRace(form, action) ==
    LET race == CustomRace(Len(presets) + 1, 0, form)
    IN  /\ Request /\ Len(presets) < MaxRaces
        /\ presets' = Append(presets, race) /\ asked' = Append(asked, race)
        /\ \/ /\ action = "start" /\ ApplyConfigAndStart(race, FALSE)
           \/ /\ action = "justSave"
              /\ timeAttack' = IF form.timeAttack THEN race ELSE timeAttack
              /\ shared' = (shared /\ ~form.timeAttack)
              /\ rnotes' = [rnotes EXCEPT !.announced = @ \/ form.timeAttack]
              /\ UNCHANGED <<files, running, saving>>
           \/ action = "schedule" /\ UNCHANGED <<files, running, saving, shared, timeAttack, rnotes>>
        /\ UNCHANGED setups

\* The form of a saved race: it keeps its id and the results combined so far.
EditCustomRace(id, form) ==
    LET race == [CustomRace(id, asked[id].rev + 1, form) EXCEPT !.merged = presets[id].merged]
    IN  /\ Request /\ id \in DOMAIN presets
        /\ presets' = [presets EXCEPT ![id] = race]
        /\ asked' = [asked EXCEPT ![id] = race]
        /\ rnotes' = [rnotes EXCEPT !.stale = @ \ {id}]
        /\ UNCHANGED <<files, running, timeAttack, setups, saving, shared>>

\* StartCustomRace loads the preset; a scheduled start saves it afterwards.
StartCustomRace(id, scheduled) ==
    /\ Request /\ id \in DOMAIN presets
    /\ scheduled => saving = NoRace
    /\ ApplyConfigAndStart(presets[id], scheduled)
    /\ UNCHANGED <<presets, setups, asked>>

\* A copy that was loaded before the last edit of its race undoes the edit.
SavesCopy(race, mixes) ==
    /\ presets' = [presets EXCEPT ![race.id] = race]
    /\ rnotes' = [rnotes EXCEPT !.stale = IF race.rev = asked[race.id].rev THEN @ ELSE @ \union {race.id},
                                !.foreign = @ \union mixes]

SaveStarted ==
    /\ saving # NoRace /\ SavesCopy(saving, {}) /\ saving' = NoRace /\ shared' = FALSE
    /\ UNCHANGED <<files, running, timeAttack, setups, requests, asked>>

----------------------------------------------------------------------------
(* acServer, and the files of fixed setups                                 *)

\* A session ends: its results are combined with those of the time attack, which is saved.
\* The event goes on, or is over unless acServer is to loop.
SessionEnds(over) ==
    /\ running # Idle /\ Request
    /\ over => ~running.read.config.loopMode
    /\ running' = IF over THEN Idle ELSE running
    /\ IF timeAttack = NoRace
       THEN UNCHANGED <<presets, timeAttack, saving, rnotes>>
       ELSE LET race == [timeAttack EXCEPT !.merged = @ \union {running.id}]
            IN  /\ timeAttack' = race /\ saving' = IF shared THEN race ELSE saving
                /\ SavesCopy(race, IF rnotes.announced THEN {<<race.id, running.id>>} ELSE {})
    /\ UNCHANGED <<files, setups, shared, asked>>

\* The restart button: acServer is launched for the same event and reads the files again.
Restart ==
    /\ running # Idle /\ Request
    /\ running' = [running EXCEPT !.read = files]
    /\ UNCHANGED <<presets, files, timeAttack, setups, saving, shared, asked, rnotes>>

Stop ==
    /\ running # Idle /\ Request /\ running' = Idle
    /\ UNCHANGED <<presets, files, timeAttack, setups, saving, shared, asked, rnotes>>

\* Fixed setups are deleted and uploaded by users of their own.
ToggleSetup(s) ==
    /\ Request
    /\ setups' = IF s \in setups THEN setups \ {s} ELSE setups \union {s}
    /\ UNCHANGED <<presets, files, running, timeAttack, saving, shared, asked, rnotes>>

SetupNext ==
    \/ \E cars \in QuickForms : SetupQuickRace(cars)
    \/ \E e \in ChampionshipEvents : StartChampionshipEvent(e)
    \/ \E form \in Forms, action \in {"start", "justSave", "schedule"} : SetupCustomRace(form, action)
    \/ \E id \in DOMAIN presets : \/ \E form \in Forms : EditCustomRace(id, form)
                                  \/ \E scheduled \in BOOLEAN : StartCustomRace(id, scheduled)
    \/ SaveStarted
    \/ \E over \in BOOLEAN : SessionEnds(over)
    \/ Restart \/ Stop
    \/ \E s \in FixedSetups : ToggleSetup(s)

SetupSpec == SetupInit /\ [][SetupNext]_setupVars

----------------------------------------------------------------------------
(* Properties                                                              *)

\* What acServer needs of its two files: no entrant is heavier than the limit ("the server
\* won't start if an entrant has a larger ballast"), every one has a listed car, the boxes
\* count from 0, somebody can join, and a booking event has no entry list mode.
Fit(config, entries) ==
    LET on == DOMAIN config.sessions
    IN  /\ \A i \in DOMAIN entries : /\ entries[i].ballast <= config.maxBallast
                                     /\ entries[i].model \in ToSet(config.cars)
                                     /\ entries[i].box = i - 1
        /\ on # {} => config.sessions[FirstSession(on)] # NoJoin
        /\ "booking" \in on => entries = <<>> /\ ~config.pickup
        /\ MaxClientsOverride > 0 => Len(entries) <= MaxClientsOverride

\* The files acServer has read fit, unless it was restarted after a start that failed
\* between the two.
FilesFit ==
    running # Idle => Fit(running.read.config, running.read.entries) \/ running.read # running.meant

\* A restart runs the event that was started, unless a start failed between its two files.
RestartsTheSame ==
    [][(running # Idle /\ running'.id = running.id /\ running'.meant = running.meant) =>
          \/ running'.read = running.read
          \/ running'.read = running.meant
          \/ rnotes.mixed]_setupVars

\* Of a race that was started and saved: the boxes are numbered anew, slots of any car have
\* the car they got, and the first session is open.
AsAsked(race, form) ==
    /\ DOMAIN race.list = DOMAIN form.list
    /\ \A k \in DOMAIN race.list :
          /\ race.list[k] = [form.list[k] EXCEPT !.box = race.list[k].box, !.model = race.list[k].model]
          /\ race.list[k].model = form.list[k].model \/ form.list[k].model = AnyCar
    /\ race.config \in {form.config, [form.config EXCEPT !.sessions = Opened(@)]}

\* A preset is what its last form asked for, but for what a start changes; unless a copy
\* loaded before that form was saved.
PresetsKept == \A id \in DOMAIN presets : id \in rnotes.stale \/ AsAsked(presets[id], asked[id])

\* Results are combined with those of the time attack they were driven in, unless a time
\* attack was only saved, or failed to start, while another event ran.
TimeAttackOwn ==
    \A id \in DOMAIN presets : \A event \in presets[id].merged : event = id \/ <<id, event>> \in rnotes.foreign

\* The files and the presets are those of their own requests.
FilesAndPresetsKept == FilesFit /\ PresetsKept

\* What follows a start, restarts and results of a time attack, belongs to what was started.
EventsTheirOwn == RestartsTheSame /\ [][TimeAttackOwn']_setupVars
=============================================================================
