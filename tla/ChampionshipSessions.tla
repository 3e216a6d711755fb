------------------------ MODULE ChampionshipSessions ------------------------
(***************************************************************************)
(* The progress of one championship event (championship_manager.go): what  *)
(* acServer reports over UDP is recorded in the championship by the        *)
(* goroutine that handles messages, under cm.mutex, while HTTP handlers    *)
(* start, cancel and restart the event, start another one, or change the   *)
(* championship, none of them with that mutex.  Everybody loads the whole  *)
(* championship and saves it later; stopping acServer lies between the two *)
(* when an event is cancelled and when its last session ends.              *)
(*                                                                         *)
(* acServer is modelled from what the code expects of it: it plays the     *)
(* sessions in order and starts over after the last one.  Entry lists,     *)
(* the contents of results and errors of the store are left out.           *)
(***************************************************************************)
EXTENDS Naturals, Sequences, FiniteSets, SequencesExt

CONSTANTS
    Handlers,   \* goroutines of HTTP requests
    EventSessions, \* the sessions of the event: "practice", "race" and "secondRace" in this order
    MaxQueue,   \* bound: messages on their way
    MaxRuns,    \* bound: times the event is started
    MaxFiles,   \* bound: results files written
    MaxUnusual, \* bound: kinds of unusual ends of sessions in one run
    MaxCalls    \* bound: requests

ASSUME OrderAssumption ==
    EventSessions \in {<<"race">>, <<"practice", "race">>, <<"race", "secondRace">>,
               <<"practice", "race", "secondRace">>}
ASSUME SessionsAssumption == {MaxQueue, MaxRuns, MaxFiles, MaxUnusual, MaxCalls} \subseteq Nat

VARIABLES
    server,    \* process.Event(): "none", this championship's event "champ", or any "other"
    starts,    \* starts of the event so far
    current,   \* the session acServer is at: its place in EventSessions, 0 before the first
    lapped,    \* a lap was completed in it
    files,     \* the results files in the order they were written, run 0 for another event's
    newest,    \* the one saved last, by acServer or since: the newest on disk, 0 for none
    queue,     \* messages from acServer to the goroutine that handles them
    store,     \* the championship in the store
    active,    \* cm.activeChampionship
    udp,       \* what the goroutine that handles messages is doing
    th,        \* what each handler is doing
    signed,    \* history: sign ups that were saved
    unusual,   \* history: sessions of this run that ended without a report or without results
    behind,    \* history: after one that was not reported, a session of this run ended before
               \* its beginning was handled
    misled,    \* history: a file was taken for the results of a session, in this run, that was
               \* not the last that acServer wrote, or not one of this run
    disturbed, \* history: what else the properties make an exception for
    calls

sessionVars == <<server, starts, current, lapped, files, newest, queue, store, active, udp, th, signed,
          unusual, behind, misled, disturbed, calls>>

acServer == <<starts, current, lapped, files, newest>>

Types == ToSet(EventSessions)
LastSession == EventSessions[Len(EventSessions)]
Missing == [found |-> FALSE, done |-> FALSE, results |-> 0]
Fresh == [Missing EXCEPT !.found = TRUE]

\* Results are the number of a file, 0 for none.
SessionRecord == [found : BOOLEAN, done : BOOLEAN, results : 0..MaxFiles]
NoSessions == [s \in Types |-> Missing]
Championship == [started : BOOLEAN, completed : BOOLEAN, sessions : [Types -> SessionRecord],
                 signUps : SUBSET (1..MaxCalls)]

Inactive == [on |-> FALSE, type |-> "", laps |-> FALSE]
Started == [on |-> TRUE, type |-> "", laps |-> FALSE]

NotBusy == [pc |-> "idle"]

SessionsInit ==
    /\ server = "none" /\ starts = 0 /\ current = 0 /\ lapped = FALSE
    /\ files = <<>> /\ newest = 0 /\ queue = <<>>
    /\ store = [started |-> FALSE, completed |-> FALSE, sessions |-> NoSessions, signUps |-> {}]
    /\ active = Inactive
    /\ udp = NotBusy /\ th = [h \in Handlers |-> NotBusy]
    /\ signed = {} /\ unusual = {} /\ behind = FALSE /\ misled = FALSE /\ disturbed = {} /\ calls = 0

Become(h, s) == th' = [th EXCEPT ![h] = s]

\* A thread with a copy of the championship, after another one saved it.
Aged(s) == IF s = NotBusy THEN NotBusy ELSE [s EXCEPT !.stale = TRUE]

\* UpsertChampionship writes the whole championship: a stale copy undoes what was saved
\* since it was loaded.
Lost(s) == IF s.stale THEN {"overtaken"} ELSE {}

----------------------------------------------------------------------------
(* acServer                                                                *)

Send(msgs) == Len(queue) + Len(msgs) <= MaxQueue /\ queue' = queue \o msgs

\* Both races have the same name.
Name(i) == IF EventSessions[i] = "secondRace" THEN "race" ELSE EventSessions[i]

\* History: where acServer is when it sends a message; nobody reads it.
Now == [session |-> IF current = 0 THEN "" ELSE EventSessions[current], lapped |-> lapped]

NewSession(i) == [kind |-> "newSession", name |-> Name(i), run |-> starts, was |-> Now]
EndSession(f) == [kind |-> "endSession", file |-> f, run |-> starts, was |-> Now]
LapDone == [kind |-> "lap", run |-> starts, was |-> Now]

Playing == server = "champ" /\ UNCHANGED <<server, starts, store, active, udp, th, signed, misled, disturbed, calls>>

NextOf(i) == IF i = Len(EventSessions) THEN 1 ELSE i + 1

LapCompleted ==
    /\ Playing /\ current # 0 /\ ~lapped
    /\ lapped' = TRUE /\ Send(<<LapDone>>)
    /\ UNCHANGED <<current, files, newest, unusual, behind>>

Unseen == (IF udp.pc = "handle" THEN {udp.msg} ELSE {}) \cup ToSet(queue)

\* The session ends with its results written.
FileWritten ==
    /\ current # 0 /\ Len(files) < MaxFiles
    /\ files' = Append(files, [run |-> starts, type |-> EventSessions[current]])
    /\ newest' = Len(files')
    /\ behind' = \/ behind
                 \/ /\ \E s \in Types : <<s, "unreported">> \in unusual
                    /\ \E m \in Unseen : m.kind = "newSession"

EndsUnusually(how) ==
    /\ unusual' = unusual \cup {<<EventSessions[current], how>>}
    /\ Cardinality(unusual') <= MaxUnusual

\* A session ends with its results, and the next one begins.
SessionEnds ==
    /\ Playing /\ FileWritten
    /\ Send(<<EndSession(Len(files')), NewSession(NextOf(current))>>)
    /\ current' = NextOf(current) /\ lapped' = FALSE
    /\ UNCHANGED unusual

\* A session with laps ends with its results written, but not reported.
SessionEndsUnreported ==
    /\ Playing /\ lapped /\ FileWritten /\ EndsUnusually("unreported")
    /\ Send(<<NewSession(NextOf(current))>>)
    /\ current' = NextOf(current) /\ lapped' = FALSE

\* The first session begins, or one ends without results.
SessionBegins ==
    /\ Playing
    /\ Send(<<NewSession(NextOf(current))>>)
    /\ current' = NextOf(current) /\ lapped' = FALSE
    /\ IF current = 0 THEN UNCHANGED unusual
                      ELSE EndsUnusually(IF lapped THEN "unsaved" ELSE "empty")
    /\ UNCHANGED <<files, newest, behind>>

\* An admin restarts the session.
SessionRestarts ==
    /\ Playing /\ current # 0
    /\ Send(<<NewSession(current)>>) /\ lapped' = FALSE
    /\ UNCHANGED <<current, files, newest, unusual, behind>>

----------------------------------------------------------------------------
(* The goroutine that handles messages                                     *)

\* ChampionshipEventIsRunning
EventIsRunning == server = "champ" /\ active.on

\* Messages of an earlier run may still be delivered; those of one run stay in order.
Heads == {i \in 1..Len(queue) : \A j \in 1..(i - 1) : queue[j].run # queue[i].run}

\* ChampionshipEventCallback: the championship is loaded if its event is running.
Receive(i) ==
    /\ udp = NotBusy /\ i \in Heads
    /\ queue' = RemoveAt(queue, i)
    /\ udp' = IF EventIsRunning /\ ~store.completed
                THEN [pc |-> "handle", msg |-> queue[i], copy |-> store, stale |-> FALSE]
                ELSE NotBusy
    /\ disturbed' = disturbed \cup (IF queue[i].run # starts THEN {"late"} ELSE {})
    /\ UNCHANGED <<acServer, server, store, active, th, signed, unusual, behind, misled, calls>>

\* Saving the championship c.
Save(c) ==
    /\ store' = c
    /\ th' = [h \in Handlers |-> Aged(th[h])]

\* The championship c, and what is active, once the results in a file were recorded.
Recorded(c, file) ==
    IF c.sessions[active.type].found
      THEN [c EXCEPT !.sessions[active.type].done = TRUE, !.sessions[active.type].results = file,
                     !.completed = (active.type = LastSession)]
      ELSE c

\* The session that is now the one of the event, none for "".
Entered(type) ==
    IF type # "" /\ EventIsRunning THEN [active EXCEPT !.type = type, !.laps = FALSE] ELSE active

\* Ending the last session stops acServer before the championship is saved.
RecordAndSave(c, file, type) ==
    IF active.type \in Types /\ c.sessions[active.type].found /\ active.type = LastSession
      THEN /\ active' = Inactive
           /\ udp' = [pc |-> "stop", copy |-> Recorded(c, file), next |-> type, stale |-> udp.stale]
           /\ UNCHANGED <<store, th, disturbed>>
      ELSE /\ active' = Entered(type)
           /\ Save(IF active.type \in Types THEN Recorded(c, file) ELSE c)
           /\ udp' = NotBusy
           /\ disturbed' = disturbed \cup Lost(udp)

\* The results that were reported are saved again, with what the championship knows.
HandleEndSession ==
    /\ udp.pc = "handle" /\ udp.msg.kind = "endSession"
    /\ RecordAndSave(udp.copy, udp.msg.file, "") /\ newest' = udp.msg.file
    /\ UNCHANGED <<starts, current, lapped, files, server, queue, signed, unusual, behind, misled, calls>>

HandleLap ==
    /\ udp.pc = "handle" /\ udp.msg.kind = "lap"
    /\ active' = [active EXCEPT !.laps = active.on]
    /\ Save(udp.copy) /\ udp' = NotBusy
    /\ disturbed' = disturbed \cup Lost(udp)
    /\ UNCHANGED <<acServer, server, queue, signed, unusual, behind, misled, calls>>

\* Mutant: the second race is never told from the first.
TypeNamedMut(c, name) == name

\* findSessionWithName
TypeNamed(c, name) ==
    IF name = "race" /\ "secondRace" \in Types /\ c.sessions["race"].done THEN "secondRace" ELSE name

\* Mutant: the results are looked for whether there were laps or not.
UnfinishedMut(c, type) ==
    /\ active.type \in Types /\ active.type # type
    /\ c.sessions[active.type].found /\ ~c.sessions[active.type].done
    /\ files # <<>>

\* Mutant: nobody looks for results that were not reported.
UnfinishedNeverMut(c, type) == FALSE

\* The session that was on before has laps, and no results were reported for it.
Unfinished(c, type) ==
    /\ active.type \in Types /\ active.type # type /\ active.laps
    /\ c.sessions[active.type].found /\ ~c.sessions[active.type].done
    /\ files # <<>>

\* findLastWrittenSessionFile takes the newest file, and everybody who saves a file makes it that.
LastWritten == newest

\* A new session.  If no results were reported for the one before, the newest file is taken
\* for them.
HandleNewSession ==
    /\ udp.pc = "handle" /\ udp.msg.kind = "newSession"
    /\ LET type == TypeNamed(udp.copy, udp.msg.name)
           c == [udp.copy EXCEPT !.started = TRUE,
                                 !.sessions[type] = IF @.found THEN @ ELSE Fresh]
       IN IF Unfinished(c, type)
            THEN /\ RecordAndSave(c, LastWritten, type)
                 /\ misled' = (misled \/ LastWritten # Len(files) \/ files[LastWritten].run # starts)
            ELSE /\ active' = Entered(type)
                 /\ Save(c) /\ udp' = NotBusy
                 /\ disturbed' = disturbed \cup Lost(udp)
                 /\ UNCHANGED misled
    /\ UNCHANGED <<acServer, server, queue, signed, unusual, behind, calls>>

\* process.Stop() stops whatever is running by now.
Stop ==
    /\ udp.pc = "stop"
    /\ server' = "none" /\ udp' = [udp EXCEPT !.pc = "save"]
    /\ disturbed' = disturbed \cup (IF active.on THEN {"overtaken"} ELSE {})
    /\ UNCHANGED <<acServer, queue, store, active, th, signed, unusual, behind, misled, calls>>

SaveCompleted ==
    /\ udp.pc = "save"
    /\ Save(udp.copy) /\ udp' = NotBusy
    /\ active' = Entered(udp.next)
    /\ disturbed' = disturbed \cup Lost(udp)
    /\ UNCHANGED <<acServer, server, queue, signed, unusual, behind, misled, calls>>

----------------------------------------------------------------------------
(* Requests                                                                *)

Request(h) == th[h] = NotBusy /\ calls < MaxCalls /\ calls' = calls + 1

\* Saving by a handler.
SaveBy(h, c, s) ==
    /\ store' = c
    /\ th' = [o \in Handlers |-> IF o = h THEN s ELSE Aged(th[o])]
    /\ udp' = Aged(udp)

\* StartEvent, offered for events that are neither in progress nor completed.
CallStart(h) ==
    /\ Request(h) /\ ~store.started /\ ~store.completed
    /\ Become(h, [pc |-> "start", stale |-> FALSE])
    /\ UNCHANGED <<acServer, server, queue, store, active, udp, signed, unusual, behind, misled, disturbed>>

\* applyConfigAndStart sets the active event before acServer is started.
SetActive(h) ==
    /\ th[h].pc = "start"
    /\ active' = Started
    /\ Become(h, [pc |-> "launch", stale |-> FALSE])
    /\ disturbed' = disturbed \cup (IF server = "champ" \/ udp # NotBusy THEN {"late"} ELSE {})
    /\ UNCHANGED <<acServer, server, queue, store, udp, signed, unusual, behind, misled, calls>>

Launch(h) ==
    /\ th[h].pc = "launch" /\ starts < MaxRuns
    /\ server' = "champ" /\ starts' = starts + 1 /\ current' = 0 /\ lapped' = FALSE
    /\ unusual' = {} /\ behind' = FALSE /\ misled' = FALSE
    /\ disturbed' = disturbed \cup (IF server = "champ" \/ queue # <<>> \/ udp # NotBusy \/ store.started
                                     THEN {"late"} ELSE {})
    /\ Become(h, NotBusy)
    /\ UNCHANGED <<files, newest, queue, store, active, udp, signed, calls>>

LaunchFails(h) ==
    /\ th[h].pc = "launch" /\ server' = "none"
    /\ Become(h, NotBusy)
    /\ UNCHANGED <<acServer, queue, store, active, udp, signed, unusual, behind, misled, disturbed, calls>>

\* Mutant: the sessions of the event are kept.
CallCancelMut(h) ==
    /\ Request(h) /\ store.started /\ ~store.completed
    /\ \E next \in {"cancelled", "start"} :
          Become(h, [pc |-> "stop", next |-> next, stale |-> FALSE,
                     copy |-> [store EXCEPT !.started = FALSE, !.completed = FALSE]])
    /\ UNCHANGED <<acServer, server, queue, store, active, udp, signed, unusual, behind, misled, disturbed>>

\* CancelEvent and RestartEvent, offered for an event in progress.
CallCancel(h) ==
    /\ Request(h) /\ store.started /\ ~store.completed
    /\ \E next \in {"cancelled", "start"} :
          Become(h, [pc |-> "stop", next |-> next, stale |-> FALSE,
                     copy |-> [store EXCEPT !.started = FALSE, !.completed = FALSE, !.sessions = NoSessions]])
    /\ UNCHANGED <<acServer, server, queue, store, active, udp, signed, unusual, behind, misled, disturbed>>

StopBy(h) ==
    /\ th[h].pc = "stop"
    /\ server' = "none" /\ Become(h, [th[h] EXCEPT !.pc = "cancel"])
    /\ UNCHANGED <<acServer, queue, store, active, udp, signed, unusual, behind, misled, disturbed, calls>>

SaveCancelled(h) ==
    /\ th[h].pc = "cancel"
    /\ SaveBy(h, th[h].copy, IF th[h].next = "start" THEN [pc |-> "start", stale |-> FALSE] ELSE NotBusy)
    /\ disturbed' = disturbed \cup Lost(th[h])
    /\ UNCHANGED <<acServer, server, queue, active, signed, unusual, behind, misled, calls>>

\* Another event is started.
StartOther(h) ==
    /\ Request(h) /\ server' = "other"
    /\ UNCHANGED <<acServer, queue, store, active, udp, th, signed, unusual, behind, misled, disturbed>>

OtherFile == Len(files) < MaxFiles /\ files' = Append(files, [run |-> 0, type |-> LastSession])

\* The acServer of another event writes results.
OtherFileWritten ==
    /\ server = "other" /\ OtherFile /\ newest' = Len(files')
    /\ UNCHANGED <<server, starts, current, lapped, queue, store, active, udp, th, signed, unusual,
                   behind, misled, disturbed, calls>>

\* Somebody edits a results file, which saves it again, or saves several as a new one.
\* (Penalties then load and save the championship too, as signing up does.)
SaveResults(h) ==
    /\ Request(h) /\ files # <<>>
    /\ \/ newest' \in 1..Len(files) /\ UNCHANGED files
       \/ OtherFile /\ newest' = Len(files')
    /\ UNCHANGED <<server, starts, current, lapped, queue, store, active, udp, th, signed, unusual,
                   behind, misled, disturbed>>

CallSignUp(h) ==
    /\ Request(h)
    /\ Become(h, [pc |-> "signUp", no |-> calls', copy |-> store, stale |-> FALSE])
    /\ UNCHANGED <<acServer, server, queue, store, active, udp, signed, unusual, behind, misled, disturbed>>

\* Mutant: the sign up replaces those before it.
SaveSignUpMut(h) ==
    /\ th[h].pc = "signUp"
    /\ SaveBy(h, [th[h].copy EXCEPT !.signUps = {th[h].no}], NotBusy)
    /\ signed' = signed \cup {th[h].no}
    /\ disturbed' = disturbed \cup Lost(th[h])
    /\ UNCHANGED <<acServer, server, queue, active, unusual, behind, misled, calls>>

SaveSignUp(h) ==
    /\ th[h].pc = "signUp"
    /\ SaveBy(h, [th[h].copy EXCEPT !.signUps = @ \cup {th[h].no}], NotBusy)
    /\ signed' = signed \cup {th[h].no}
    /\ disturbed' = disturbed \cup Lost(th[h])
    /\ UNCHANGED <<acServer, server, queue, active, unusual, behind, misled, calls>>

----------------------------------------------------------------------------
SessionsNext ==
    \/ LapCompleted \/ OtherFileWritten \/ SessionEnds \/ SessionEndsUnreported \/ SessionBegins \/ SessionRestarts
    \/ \E i \in 1..MaxQueue : Receive(i)
    \/ HandleEndSession \/ HandleLap \/ HandleNewSession \/ Stop \/ SaveCompleted
    \/ \E h \in Handlers :
          \/ CallStart(h) \/ SetActive(h) \/ Launch(h) \/ LaunchFails(h)
          \/ CallCancel(h) \/ StopBy(h) \/ SaveCancelled(h)
          \/ StartOther(h) \/ SaveResults(h) \/ CallSignUp(h) \/ SaveSignUp(h)

SessionsSpec == SessionsInit /\ [][SessionsNext]_sessionVars

----------------------------------------------------------------------------
(* Properties                                                              *)

SessionsTypeOK ==
    /\ server \in {"none", "champ", "other"} /\ starts \in 0..MaxRuns
    /\ current \in 0..Len(EventSessions) /\ lapped \in BOOLEAN
    /\ Len(files) <= MaxFiles /\ newest \in 0..MaxFiles /\ Len(queue) <= MaxQueue
    /\ store \in Championship
    /\ active.on \in BOOLEAN /\ active.type \in Types \cup {""} /\ active.laps \in BOOLEAN
    /\ udp.pc \in {"idle", "handle", "stop", "save"}
    /\ \A h \in Handlers : th[h].pc \in {"idle", "start", "launch", "stop", "cancel", "signUp"}
    /\ signed \subseteq 1..MaxCalls /\ disturbed \subseteq {"overtaken", "late"}
    /\ store.completed => store.started
    /\ (\E s \in Types : store.sessions[s].found) => store.started

\* Without practice the event starts over with a session of the name of the last: if that
\* is not reported, the new one looks like a restart of it, and nobody looks for results.
EndMissed == "practice" \notin Types /\ <<LastSession, "unreported">> \in unusual

\* Both races go by one name: the second is only known by the results of the first, and
\* one without results is followed, once the event starts over, by a race taken for it.
RacesMixedUp ==
    /\ "secondRace" \in Types
    /\ \/ EndMissed
       \/ unusual \cap {<<"race", "empty">>, <<"race", "unsaved">>, <<"race", "unreported">>,
                        <<"secondRace", "empty">>, <<"secondRace", "unsaved">>} # {}

\* The results recorded for a session are those that acServer wrote for that session, in
\* this run of the event, however it was cancelled, restarted and started.  Exceptions: a
\* session whose laps left no results file is given the file of another one, and so may one
\* not reported when the next ends before its beginning is handled; a second race is taken
\* for the first one if that was not recorded, a stale copy was saved, or
\* messages of one run were handled during the next or the event was started twice.
ResultsBelong ==
    disturbed = {} /\ ~RacesMixedUp /\ ~behind /\ ~misled /\ (\A s \in Types : <<s, "unsaved">> \notin unusual)
        => \A s \in Types : store.sessions[s].results # 0
              => files[store.sessions[s].results] = [run |-> starts, type |-> s]

\* The test at championship_manager_test.go:437 asks for it: when an event was completed,
\* so was every session that was started, but for those acServer ended without results.
CompletedSessions ==
    disturbed = {} /\ store.completed
        => \A s \in Types : store.sessions[s].found /\ ~store.sessions[s].done
              => unusual \cap {<<s, "empty">>, <<s, "unsaved">>} # {}

\* Once the results of the last session were written and all messages handled, reported
\* or not, the event is complete and acServer stopped, with the same exceptions and that
\* of an end that is missed.
LastSessionEndsEvent ==
    disturbed = {} /\ ~RacesMixedUp /\ ~EndMissed /\ queue = <<>> /\ udp = NotBusy /\ server = "champ"
        => \A f \in 1..Len(files) : files[f] # [run |-> starts, type |-> LastSession]

\* What a championship shows of its event is what happened in it.
EventRecorded == ResultsBelong /\ CompletedSessions /\ LastSessionEndsEvent

\* A sign up that was accepted stays in the championship, unless a stale copy was saved.
SignUpsKept == "overtaken" \notin disturbed => signed \subseteq store.signUps
=============================================================================
