------------------------------ MODULE Reminders ------------------------------
(***************************************************************************)
(* Reminders of scheduled events: the timers that race_manager.go,         *)
(* championship_manager.go and race_weekend_manager.go set for the leads   *)
(* of the server options, and the connection to Discord that sends them    *)
(* (notification_manager.go, discord.go).                                  *)
(*                                                                         *)
(* Several timers are set for an event, in a loop, and a map per manager   *)
(* remembers one of them: the last.  The callbacks hold the event as it    *)
(* was.  The three managers differ in what they stop and what they set     *)
(* again.                                                                  *)
(*                                                                         *)
(* A step is a request, a start of Server Manager, a pass of the check     *)
(* loop, or a minute.  A date that has passed stays in place here: how     *)
(* events start, recur and clear their dates is the subject of             *)
(* RaceScheduler, ChampionshipSchedule and RaceWeekend.                    *)
(***************************************************************************)
EXTENDS Integers, Sequences, FiniteSets

CONSTANTS
    Races,       \* custom races
    Events,      \* championship events, each of a championship of its own
    Sessions,    \* race weekend sessions
    LeadLists,   \* NotificationReminderTimers: minutes before the start, as listed
    Tokens,      \* Discord tokens
    NoToken,     \* ""
    Horizon,     \* bound: minutes
    MaxCalls,    \* bound: requests
    MaxStarts    \* bound: starts of Server Manager, and passes of the check loop

ASSUME LeadsAssumption ==
    /\ LeadLists \subseteq Seq(Nat)
    /\ NoToken \notin Tokens
    /\ {Horizon, MaxCalls, MaxStarts} \subseteq Nat

VARIABLES
    minute,   \* the time
    options,  \* the server options in the store: leads, token
    date,     \* per event the date in the store, 0 for none
    timers,   \* timers of package when: the event, its date then, the lead, when it was set
              \* (the request or start, the place in the list), and whether the map remembers it
    discord,  \* DiscordManager: enabled, and the token of the session
    calls, starts,
    excused   \* history: events whose reminders the properties make an exception for

reminderVars == <<minute, options, date, timers, discord, calls, starts, excused>>

Scheduled == Races \union Events \union Sessions

RemindersInit ==
    /\ minute = 1 /\ options \in [leads : LeadLists, token : Tokens \union {NoToken}]
    /\ date = [e \in Scheduled |-> 0] /\ timers = {}
    /\ discord = [enabled |-> options.token # NoToken, token |-> options.token, failed |-> FALSE]
    /\ calls = 0 /\ starts = 0 /\ excused = {}

Call == calls < MaxCalls /\ calls' = calls + 1

\* GetNotificationReminders: no lead of 0.
Leads(opts) == {k \in DOMAIN opts.leads : opts.leads[k] # 0}
LeadsOf(opts) == {opts.leads[k] : k \in Leads(opts)}

----------------------------------------------------------------------------
(* Timers                                                                  *)

Kept(tm, es) == tm.of \in es /\ tm.kept

\* timer.Stop() of the timers the maps remember for the events.
Stopped(tms, es) == {tm \in tms : ~Kept(tm, es)}

Forgotten(tms, es) == {IF tm.of \in es THEN [tm EXCEPT !.kept = FALSE] ELSE tm : tm \in tms}

\* The leads of an event that lie ahead.
Ahead(at, opts) == {k \in Leads(opts) : at - opts.leads[k] > minute}

\* A timer per lead ahead; the map remembers what it got last.
Timers(e, at, opts, last) ==
    {[of |-> e, date |-> at, lead |-> opts.leads[k], set |-> <<calls + starts, k>>, kept |-> \A l \in last : l <= k] :
        k \in Ahead(at, opts)}

\* Mutant: only the first lead gets a timer.
SetMut(tms, e, at, opts) == Forgotten(tms, {e}) \union {tm \in Timers(e, at, opts, {}) : tm.lead = opts.leads[1]}

\* A lead in the past is an error, whose nil timer the map remembers.
Set(tms, e, at, opts) ==
    (IF Leads(opts) = {} THEN tms ELSE Forgotten(tms, {e})) \union Timers(e, at, opts, Leads(opts))

\* The same where the time is looked at first, for those of a set whose dates lie ahead.
SetAhead(tms, which, dates, opts) ==
    Forgotten(tms, {e \in which : Ahead(dates[e], opts) # {}})
        \union UNION {Timers(e, dates[e], opts, Ahead(dates[e], opts)) : e \in which}

----------------------------------------------------------------------------
(* Requests                                                                *)

\* ScheduleRace, ScheduleEvent: the remembered timers are stopped before a date in the past
\* is refused.
Schedule(e, at) ==
    /\ Call /\ UNCHANGED <<minute, options, discord, starts>>
    /\ e \in Races \union Events
    /\ IF at > minute
       THEN /\ date' = [date EXCEPT ![e] = at]
            /\ timers' = Set(Stopped(timers, {e}), e, at, options)
            /\ excused' = excused \ {e}
       ELSE /\ timers' = Stopped(timers, {e}) /\ excused' = excused \union {e}
            /\ UNCHANGED date

\* setupScheduledSessionTimer stops no reminder.
ScheduleSession(e, at) ==
    /\ Call /\ e \in Sessions /\ at > minute
    /\ date' = [date EXCEPT ![e] = at]
    /\ timers' = SetAhead(timers, {e}, date', options)
    /\ excused' = excused \ {e}
    /\ UNCHANGED <<minute, options, discord, starts>>

\* Unscheduling, and deleting what is scheduled.
Unschedule(e) ==
    /\ Call /\ date[e] # 0 /\ date' = [date EXCEPT ![e] = 0]
    /\ timers' = IF e \in Sessions THEN timers ELSE Stopped(timers, {e})
    /\ UNCHANGED <<minute, options, discord, starts, excused>>

\* The new session, after the old one was closed; a token that does not work leaves none.
Reconnected(token, works) ==
    CASE token # NoToken /\ token # options.token ->
            IF works THEN [enabled |-> TRUE, token |-> token, failed |-> FALSE]
            ELSE [discord EXCEPT !.enabled = @ /\ options.token = NoToken, !.failed = TRUE]
      [] token = NoToken /\ options.token # NoToken -> [discord EXCEPT !.enabled = FALSE, !.failed = FALSE]
      [] OTHER -> discord

\* RescheduleNotifications: custom races only.
Rescheduled(opts) == SetAhead(Stopped(timers, Races), Races, date, opts)

\* SaveServerOptions: the options are saved first; the leads are looked at last, and not at
\* all if Discord cannot be reached.
SaveServerOptions(leads, token, works) ==
    LET changed == leads # options.leads
        connects == token # NoToken /\ token # options.token
    IN  /\ Call /\ options' = [leads |-> leads, token |-> token]
        /\ ~connects => works
        /\ discord' = Reconnected(token, works)
        /\ timers' = IF works /\ changed THEN Rescheduled(options') ELSE timers
        /\ excused' = CASE ~changed -> excused
                        [] changed /\ works -> (excused \ Races) \union Events \union Sessions
                        [] OTHER -> Scheduled
        /\ UNCHANGED <<minute, date, starts>>

----------------------------------------------------------------------------
(* Starts, the check loop, and the clock                                   *)

\* InitScheduledChampionships returns after the first event ahead.
FirstEvent == {S \in SUBSET {e \in Events : date[e] > minute} : Cardinality(S) <= 1}

\* Unlike those of a championship, all sessions ahead get their timers.
WatchForScheduledSessions(tms) == SetAhead(tms, Sessions, date, options)

\* NewDiscordManager, InitScheduledRaces, InitScheduledChampionships, WatchForScheduledSessions.
ServerManagerStarts(works) ==
    /\ starts < MaxStarts /\ starts' = starts + 1
    /\ options.token = NoToken => works
    /\ discord' = IF works THEN [enabled |-> options.token # NoToken, token |-> options.token, failed |-> FALSE]
                  ELSE [enabled |-> FALSE, token |-> NoToken, failed |-> TRUE]
    /\ \E one \in FirstEvent :
          /\ one = {} => \A e \in Events : date[e] <= minute
          /\ timers' = WatchForScheduledSessions(SetAhead({}, Races \union one, date, options))
          /\ excused' = Events \ one
    /\ UNCHANGED <<minute, options, date, calls>>

\* InitScheduledRaces from the check loop; forgotten timers stay, and are set once more.
CheckRaces ==
    /\ starts < MaxStarts /\ starts' = starts + 1
    /\ timers' = Rescheduled(options)
    /\ excused' = excused \ Races
    /\ UNCHANGED <<minute, options, date, discord, calls>>

Due(tm) == tm.date - tm.lead <= minute + 1

\* The reminders that reach the channel.
Sent == IF discord.enabled THEN {tm \in timers : Due(tm)} ELSE {}

Minute ==
    /\ minute < Horizon /\ minute' = minute + 1
    /\ timers' = {tm \in timers : ~Due(tm)}
    /\ UNCHANGED <<options, date, discord, calls, starts, excused>>

RemindersNext ==
    \/ \E e \in Races \union Events, at \in 1..Horizon : Schedule(e, at)
    \/ \E e \in Sessions, at \in 1..Horizon : ScheduleSession(e, at)
    \/ \E e \in Scheduled : Unschedule(e)
    \/ \E leads \in LeadLists, token \in Tokens \union {NoToken}, works \in BOOLEAN :
          SaveServerOptions(leads, token, works)
    \/ \E works \in BOOLEAN : ServerManagerStarts(works)
    \/ CheckRaces \/ Minute

RemindersSpec == RemindersInit /\ [][RemindersNext]_reminderVars

----------------------------------------------------------------------------
(* Properties                                                              *)

\* A reminder that is sent is of a date for which the event is scheduled, once per lead of
\* the options.  Unless the map had forgotten its timer, because the event has several
\* leads or one in the past; or it is of a race weekend session, whose reminders nothing
\* stops; or the leads were changed and the event's reminders are not set again.
RemindersTruthful ==
    [][minute' > minute =>
        \A tm \in Sent :
           \/ ~tm.kept \/ tm.of \in Sessions
           \/ date[tm.of] = tm.date /\ (tm.lead \in LeadsOf(options) \/ tm.of \in excused)]_reminderVars

\* Every scheduled event is announced for every lead, with Discord set up, unless the
\* token did not work; or an attempt to schedule it for the past stopped its timer; or the
\* leads were changed, for other events than custom races or with a token that did not
\* work; or it is an event that InitScheduledChampionships did not get to.
RemindersSent ==
    [][minute' > minute /\ options.token # NoToken /\ ~discord.failed =>
        \A e \in Scheduled \ excused, lead \in LeadsOf(options) :
            date[e] - lead = minute' =>
                \E tm \in Sent : tm.of = e /\ tm.date = date[e] /\ tm.lead = lead]_reminderVars

\* The help of the option (config_ini.go:223): "a reminder will be sent this many minutes
\* prior to race start"; one for every lead.
RemindedOnce ==
    [][minute' > minute =>
        \A t1, t2 \in Sent : t1.of = t2.of /\ t1.date = t2.date /\ t1.lead = t2.lead => t1 = t2]_reminderVars

\* Reminders are sent when, and only when, they are due.
RemindersKept == RemindersTruthful /\ RemindersSent
=============================================================================
