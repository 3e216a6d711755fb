# TLA+ verification of assetto-server-manager

Server Manager (package `servermanager`) runs one `acServer` process at a time and everything around it: it
configures and starts events, listens to acServer over UDP, keeps Live Timings, records the results of
championships and race weekends, and starts scheduled events. This directory holds a TLA+ model of it, the TLC
configurations that check the model, and proofs about its concurrent core.

Paths below are relative to `src/`. `PROJECT.json` maps the definitions of the model to their lines.

    tlc -workers 2 -config MCServices.cfg MCServices.tla     # a module and its .cfg
    tlapm ServerProcess_proofs.tla                           # the proofs of a module

Contents: 1 inventory, 2 modules, 3 runs, 4 exceptions and what they hide, 5 proofs, 6 findings, 7 limits,
8 plan.

## 1. Inventory

How the parts fit together:

    HTTP handlers, timers (pkg/when), check loop          goroutines without a common lock
       |            |                   |
       v            v                   v
    AccountManager  RaceManager <- ChampionshipManager, RaceWeekendManager     load a copy / save it: Store
                       | applyConfigAndStart (rm.mutex)
                       v
                AssettoServerProcess: Start/Stop/Restart -> channels -> loop() -> go cmd.Run()
                       |                     |                    |
                  pkg/udp connection   ContentManagerWrapper   plugins (stracker, kissmyrank, ...)
                       |
                  Resolver.UDPCallback, one goroutine per connection, in this order:
                  RaceControl -> ChampionshipManager -> RaceWeekendManager -> LoopCallback -> ContentManagerWrapper
                       |
                  RaceControlHub -> websockets

| component | state | operations | what is hard | what makes it correct | model |
|---|---|---|---|---|---|
| server process (`server_process.go`) | `raceEvent`, `cmd`, `cfn` under `sp.mutex`; `startMutex`; channels `start`, `run`, `started`, `stopped` | Start, Stop, Restart, UDPCallback, loop, startRaceEvent, onStop, NotifyDone | three goroutines per call, unlocked reads of `cmd` and `cfn`, dropped notifications, signal/kill timeouts, a teardown under `sp.mutex` that waits for the wrapper | one process at a time; a Stop that succeeds has stopped; every call returns unless that teardown hangs; implements the ServerProcess interface | `ServerProcess` |
| plugins and logs (`server_process.go:340`) | the chain of UDP ports, processes, log files | chain, start, stop, tidy logs | free ports promised twice, a start that fails half way | the chain meets end to end; no process is forgotten; log files stay within the limit | `Plugins` |
| Content Manager wrapper (`content_manager_wrapper.go`) | `srv`, `event`, `cmw.mutex`, the port | Start, Stop, ServeHTTP, UDPCallback | `Shutdown` with the mutex held; Start evaluated late | every stop, request and message gets through | `ContentManagerWrapper` |
| UDP connection (`pkg/udp`) | `messageChan`, two sockets, the position interval | serve, the consumer, forwardServe, SendMessage, Close | bounded channel, errors in one goroutine while another closes, 16 bit interval | Close ends all goroutines; the interval comes back | `UDPClient` |
| race control, driver tables (`race_control.go`) | `ConnectedDrivers`, `DisconnectedDrivers`, a mutex per driver, `carUpdaters`, persisted timings | OnVersion, OnClientConnect/Disconnect, OnLapCompleted, OnCarUpdate, OnNewSession, watcher, requestSessionInfo | four kinds of goroutine, two lock orders, an overwritten mutex, a lost stop notification | a mutex has one holder; no message blocks the UDP goroutine | `DriverTables` |
| driver swaps (`race_control.go:699`) | per swap a ticker, two positions, a context | driverSwap, OnEndSession, penalties | ticker against connect, disconnect and session ends; pointers to objects that were replaced | a driver is punished for leaving early only; a swap ends with its session | `DriverSwaps` |
| Live Timings hub (`race_control_http.go`) | `clients`, `broadcast`, `client.receive`, last update, chat | register, Send, run, websocket handler, writePump | slow and vanished clients, sends under a mutex, panics | nobody waits for a browser; a channel is closed once | `RaceControlHub` |
| race manager (`race_manager.go`) | `currentRace`, `rm.mutex`, `forceStopTimer`, the looped session types | applyConfigAndStart, LoopRaces, LoopCallback, force stop | `rm.mutex` covers one function; the loop returns for good on an error; a timer hits the next event | who may stop an event; a looped event ends and the next follows | `RaceManager` |
| race setup (`race_manager.go`, `config_ini.go`, `entrylist_ini.go`) | presets, `server_cfg.ini`, `entry_list.ini`, the running time attack | forms, quick races, starts, restarts | two files written in turn, one object shared by acServer, race control and the store | acServer reads files that fit and belong to one start; a preset is what its form says | `RaceSetup` |
| schedule of custom races (`race_manager.go`, `pkg/when`, `scheduled_races.go`) | the race in the store, `customRaceStartTimers`, timers | ScheduleRace, DeleteCustomRace, StartScheduledRace, ScheduleNextFromRecurrence, InitScheduledRaces, check loop, calendar | copies loaded before and saved after others, callbacks that cannot be stopped, restarts, recurrence | started when and only when scheduled; a recurrence goes on; the calendar shows it | `RaceScheduler` |
| reminders, Discord (`notification_manager.go`, `discord.go`) | reminder timers of three managers, the Discord session | schedule, reschedule, save options, send | a map that remembers one of several timers; three managers that differ | a reminder for every lead of a scheduled date, and for no other date | `Reminders` |
| schedule of championship events (`championship_manager.go`) | the championship, `championshipEventStartTimers`, the copy each timer keeps | ScheduleEvent, DeleteEvent, StartScheduledEvent, ScheduleNextEventFromRecurrence, InitScheduledChampionships | outdated copies, a restart between two saves, exhausted rules | timers follow the schedule; starting loses nothing | `ChampionshipSchedule` |
| progress of championship events (`championship_manager.go`) | `activeChampionship`, `cm.mutex`, sessions and results of the event | StartEvent, CancelEvent, RestartEvent, ChampionshipEventCallback | load/save around a Stop that takes seconds, unreported results, two races with one name, messages of the previous run | results belong to their session and run; the last session ends the event; sign-ups stay | `ChampionshipSessions` |
| championships: entrants (`championships.go`) | classes, slots, sign-up answers, entry lists of events | sign-up, accept, connect, import, admin's page | slots by uuid, pages saved as they were opened | one place per driver, that of his answer, with its settings | `ChampionshipEntrants` |
| championships: tables (`championships.go`) | points, penalties, results of events | Standings, TeamStandings, columns, attendance, last results | shared cars, ties, absences, maps in random order | columns add up to totals; teams have their drivers' points; tables are repeatable | `Standings`, `ChampionshipSeason` |
| race weekends (`race_weekend*.go`) | sessions with parents, timers, `activeRaceWeekend` | AddSession, DeleteSession, StartSession, CancelSession, UDPCallback, ImportSession | a graph edited while sessions run, outdated forms, a Stop between load and save | the graph stays acyclic without loose ends; a session runs after its parents; results belong to it | `RaceWeekend` |
| filters and sorting (`race_weekend_filter.go`, `race_weekend_sort.go`) | the filters on links, results | Filter, reverse grids, sorters, entry lists, previews | grids recomputed whenever they are wanted; splits, classes, placeholders | nobody is lost or doubled; the preview is what starts | `GridFilter`, `WeekendGrids` |
| penalties, results (`penalties.go`, `results.go`) | results files, copies of them in championships and weekends | applyPenalty, clear, edit, combine, fall back sort, statistics | several saves that may fail in turn; nothing locked | the last penalty is in force, file and copy agree, a penalty never helps | `Sorting`, `SessionResults`, `ResultsFiles` |
| stores (`store_json.go`, `store_bolt.go`) | files under a mutex, a bolt database | Upsert*, Load*, List*, Delete*, audit log | truncate and encode; read, modify, write without a transaction; crashes | both stores give the same answers; nothing is half written but by a crash | `JSONStore`, `BoltStore`, `Stores` |
| accounts (`accounts.go`) | accounts by name, sessions of browsers | log in, change, delete | a copy loaded before the handler runs is saved after it | decisions of administrators stand; there is an administrator | `Accounts` |
| administration, start-up, content, ACSR, Lua, migrations, templates, browser code, tools | forms, files | HTTP | little: rendering, files and external services | | not modelled, reasons in `PROJECT.json` |

`PROJECT.json` lists the hazards of this code, each at the line where it bites, with the properties that watch it.

## 2. Modules

Each module says at its head what it is about and what it leaves out. Common conventions:

* an action is one critical section or one step between two points where another goroutine can act; what the
  code reads without a lock is a step of its own. Where whole requests are single steps, the module says so and names
  the one that has their overlap;
* constants named `Max...` are bounds of the model and appear as guards only; history variables are marked so;
* `<Name>Mut` next to `<Name>` is a plausible bug of the same definition; the run with it must break the property it
  is paired with in `PROJECT.json`;
* what depends on Go's order of maps or on a random number has several outcomes: an operator returns a set, an action
  has a choice;
* `MC...` modules give TLC its values and put small components that share a run side by side. Some also hold
  statements that no run lists: promises of comments or of the change log the code does not keep (section 6).

Processes and connections:

* `ServerLifecycle` is the abstract specification: what users of the `ServerProcess` interface may assume. One event
  at a time, launched from a stopped server, run or not, ended, and torn down or locked up for good.
* `ServerProcess` is `AssettoServerProcess`. Callers (`pc`) walk through Start (`startMutex`, IsRunning, Stop, the
  channel `start`, the channel `started`) and Stop (IsRunning, prepare and persist, the waiter goroutine, signal, two
  timeouts, kill, `sp.cfn()`). `loop` is the state of `loop()`: select, starting, started, stopping, notify. A run
  has its command, process and goroutine in `server[r]`; `cmd` is `sp.cmd`. Notifications on `sp.stopped` go to one
  receiver or to nobody, as in the code, and waiters left over by a Stop that timed out (`leaked`) still receive.
  `OnStop` may never end, because it waits for the wrapper; from then on nobody gets `sp.mutex` (`LockedUp`). The refinement is `Lifecycle == INSTANCE ServerLifecycle WITH event <- raceEvent, phase <- ...`.
* `Plugins` is what startRaceEvent and onStop do besides acServer itself: which ports each plugin is told, which processes
  live, how many log files there are, when any of the steps fails.
* `ContentManagerWrapper` composes the part of `loop()` that starts and stops the wrapper with the goroutine that
  calls `cmw.Start`, requests, and the UDP callback, over `cmw.mutex`.
* `UDPClient` has the four goroutines of one connection: `reader`, `consumer`, `close`, `proxy`. The queue is its
  length. `current` is the global interval, `told` what acServer was last told, modulo `Wrap` because it is a `uint16`.
* `DriverTables` has one thread per goroutine (`udp`, `watch`, requestSessionInfo, one per car), tables that hold
  object numbers, and a mutex per object; readers inside an `Each` that locks drivers are explicit, and a waiting
  writer keeps new readers out, as `sync.RWMutex` does. `loaded` is the copy of the persisted timings that OnNewSession
  reads once and then goes through.
* `DriverSwaps`: a swap is a goroutine with its ticks; drivers are objects with an address, because a swap keeps pointers that
  the tables may have dropped or filled anew.
* `RaceControlHub` has the UDP goroutine as producer, the hub, and per websocket its handler and its writePump.

Events:

* `RaceManager`: requests, LoopRaces, force stop timers and LoopCallback share one RaceManager and one abstract server. A custom
  race is also made while others run (`SetupCustomRace`), and started, scheduled or just saved. `notes` says which exceptional
  overlap has happened.
* `RaceSetup`: a step is a request. The started race is one object that acServer's files, race control (for a time
  attack) and the store share, so what is changed for one is changed for all; `shared` says that the race StartScheduledRace is
  about to save is still the one race control keeps.
* `RaceScheduler`: a thread loads a copy, changes the timer, saves. Whether somebody saved since is one flag
  (`stale`), so what a goroutine overwrites is known without version numbers. `Boot`, `ScanFuture`, `ScanPast` are
  InitScheduledRaces, at the start and from the check loop. `wanted` is what the user asked for. `BuildCalendar` and
  `CommandSchedule` are what the calendar and the bot show.
* `Reminders`: minutes pass, timers fire; `kept` says whether the manager's map still knows a timer. Timers are a set, in which
  `set` (which request or start, which place in the list of leads) tells two of the same reminder apart. The three kinds of
  events differ in what is stopped and set again.
* `ChampionshipSchedule`: requests are single steps (their overlap is the subject of `RaceScheduler`), the
  callback of a timer is several, and a timer carries its `copy` of the championship. `asked` is the championship as
  all requests and callbacks mean it to be.
* `ChampionshipSessions`: acServer plays the sessions of the event and starts over, writes result files and sends messages
  (external: modelled from what the code expects); `udp` is the goroutine under `cm.mutex`, `th` are requests. `files` is the
  results directory in the order the files appeared, those of other events included; `newest` is the one saved last, which is
  what `findLastWrittenSessionFile` returns. Recording a session saves its file again, and so does a request that edits an
  older one (`SaveResults`). Messages also say where acServer was when it sent them (`was`), which nobody reads: it is history for
  the proof of `EventRecorded`.
* `RaceWeekend`: sessions are numbered in the order they were added, `parents` is `ParentIDs` with its order and its
  duplicates, 0 is the weekend itself. Forms (`OpenForm`, `SubmitForm`) offer the parents the template offers when it is
  rendered. `th` holds the handlers, the goroutine that handles messages and the callback of a timer; all three start
  sessions by the same steps: check and record the start, activate, launch. Once the graph has a cycle the model stops, as the
  program does: the next page sorts the sessions by walking the graph, and Go ends a program whose stack is full.

Results and tables:

* `Sorting` is what `sort.Slice` does to a short slice, with a comparison that need not be an order. `SessionResults` has the
  methods of a results file; `ResultsFiles` the requests of administrators, each in the steps in which it creates, writes and
  copies the file.
* `GridFilter` has the filters, sorters and entry lists as operators that return sets of grids; `WeekendGrids` a weekend
  (qualifying, two heats, final) whose filters are changed while its sessions run.
* `Standings` has the points and tables; `ChampionshipSeason` a season in which results arrive, penalties are given, a driver
  takes his points to another team and events are put in another order.
* `ChampionshipEntrants` has slots, answers and pages; `dropped` and `joined` are history.
* `JSONStore` and `BoltStore` give for each method what it reads, answers and writes; `Stores` runs the same calls of the same
  clients on both, with files that are emptied before they are written. `Accounts` has requests that are let in with a copy
  of their account.

## 3. Runs

All bounds are guards; all constants below are in the `.cfg`. Deadlock is not checked: each of these systems may
rightly come to rest (nobody calls, acServer has exited, the bounds are used up); that nobody waits for ever is what
the liveness properties say.

Five runs put components side by side that have nothing to do with each other, one per behaviour: a variable `part`, chosen
initially, says whose steps are taken, and the other components stay in a state that makes their properties hold or not
apply. Nothing of a component is lost by this; what would be seen only if two of them stepped in turn is not claimed.

| run | bounds | why enough | shows |
|---|---|---|---|
| `server_process` | 2 callers, 1 event, 2 runs, 3 calls | two overlapping calls meet the end of a run and the start of the next; a third call meets what they left | `AtMostOneServer`, `LaunchesOwnCommand`, `RunningHasRunner`, `StoppedMeansStopped`, `EveryCallReturns`, refinement of `ServerLifecycle` with its fairness (`ImplementsLifecycle`) |
| `server_process_crash` | 4 calls | | refutes `NeverCrashes`: Restart of a server that stops meanwhile |
| `services` | wrapper: 2 runs, 2 requests; tables: 1 driver, 2 objects, 2 messages, 1 run, messages left over after the stop; hub: 1 client, channels of 1, 1 stored chat message, 3 messages | the late start of one run meets the stop and start of the next while a request holds the mutex; every pair of goroutines meets on one driver (locks of different drivers are independent); both channels are full and the client is closed while its handler sends | `NilEventNeverServed`, `MutexesKept`, `NoOtherLockup`, `TypeOK` (which says that a registered client is open, so that no channel is closed twice) |
| `udp` | queue of 2, 4 datagrams, half a second = 1 message | the queue is full, falls behind and recovers; `HalfSecond < QueueCap` as in the code (5 and 1000) | `CloseEndsGoroutines`, `IntervalRecovers` |
| `race_manager` | 1 user, 2 races (one of two races with a reversed grid, one time attack with a force stop), 2 events besides | a user, LoopRaces, a timer and a late message of the event before can all act on one event | `CurrentRaceRuns`, `EventsRunTheirTime`, `LoopGoesOn` |
| `results` | files: 2 administrators, 2 requests, 4 files, 1 failing save, combinations; grids: two weekends of 3 and 4 drivers, 2 edits; sessions: practice and two races, 2 handlers, 3 requests, 2 runs, 3 result files, 3 messages under way besides the one being handled, 1 unusual end | two requests overlap at every step; every outcome of a heat meets every filter; an event can be completed, cancelled midway and started again with messages of the first run under way | `PenaltiesInForce`, `FilesAgree`, `PenaltyNeverHelps`; `GridsComplete`; `EventRecorded`, `SignUpsKept` |
| `championship` | season: 2 classes, an event of 3 sessions and a race weekend, 1 edit; entrants: 2 drivers, 3 slots, 4 requests; schedule: 3 events, 2 callbacks, 5 timers, 4 requests, 3 boots | shared cars, absences, disqualifications and ties occur; a driver gets, loses and regains a place while a page is open; a copied event, one more beside it, and a request between schedule and start | `TablesAddUp`, `TablesRepeatable`; `PlacesKept`; `TimersFollowSchedule`, `NothingLost` |
| `champ_schedule_others` | 1 callback, 3 requests | | refutes `OthersStayScheduled` |
| `team_points` | the season of `championship` | | refutes `PointsGoToATeam` |
| `race_weekend_links` | 1 handler, 2 requests | | refutes `LinksRemoved` by two deletions |
| `events` | setup: 5 requests, 2 presets; plugins: 2 races, 3 ports and one that was set, 1 extra plugin, a limit of 1 log, 1 fault; swaps: 2 drivers of a car, 3 connects, 5 seconds of which 4 are to be waited, 2 swaps, any number of sessions; schedule: 2 requests, 1 callback, 3 times, 3 timers, 1 restart, check loop; reminders: 4 events, 2 leads and more, 3 requests, 2 starts, 4 minutes | a preset is saved over its start; the same port may be offered twice; the next driver leaves in time for a kick, in time for a penalty, or after his time; a kicked driver's swap waits beside the one he starts by leaving; a timer fires while a request moves its race and the check loop scans; leads change between setting and sending | `FilesAndPresetsKept`, `EventsTheirOwn`; `PluginsSound`; `SwapsFair`; `ScheduleKept`, `CalendarTruthful`; `RemindersKept` |
| `stores` | stores: 2 clients, 1 id, 2 people, 3 calls, 1 crash; accounts: 2 browsers, 3 accounts, 4 steps; weekend: 3 sessions, 4 graphs to begin with, 2 handlers, 3 requests, 2 runs | two overlapping calls and one that sees what they left; an administrator acts between the load and the save of another; two in a row, a split, a merge and a session whose parents are one after the other are the ways three sessions can hang together | `SameAnswers`, `EntriesKept`; `AccountsSound`; `ResultsBelong`, `RunsAfterParents`, `TimersFollowDates`, `GraphKept` |

`results` and `stores` have the constraint `Undisturbed`: after the first step that the properties of the sessions (of the
weekend) make an exception for, a behaviour of these is not followed any further. The two components have also been
checked by themselves without the constraint, with smaller bounds.

Fairness. Goroutines are scheduled (weak fairness of their steps). Strong fairness is assumed where a goroutine
waits for a `sync.Mutex` (it is handed to a goroutine that has waited for a millisecond, so it does not starve),
for a channel operation that comes and goes, and for the cases of a `select`, which Go picks at random among the
ready ones. In `ServerProcess` a teardown goes on until it ends or locks up, and nothing says which. Nothing obliges acServer to exit or to send, a plugin or a browser to act, a user to call. In
`ContentManagerWrapper`, acServer and the geo IP service are assumed to answer (the code has no timeout there). In
`DriverTables` the watcher's ticker and the five minutes of a silent driver are fair. In `RaceManager` LoopRaces, the server
and the messages of a session's end are. `MCServices` has the fairness of its three components zipped: a behaviour has
one part, nothing is enabled in two, so one formula over the disjunction of an action of each says the same as three.

## 4. Exceptions the properties name

Many properties hold except in situations the code does not handle. Each exception is a named definition or a value of
a history variable, so that what is claimed can be read off; the exceptions are observations about the code.

Processes and connections:

* `ServerProcess!LockedUp`: onStop asks the Content Manager wrapper to stop, with `sp.mutex` held (`server_process.go:743`), and
  that waits without a deadline under `cmw.mutex` (`content_manager_wrapper.go:326`). Where the wrapper is locked up (the next
  exception), the run is never torn down, and Start, Stop, Restart and IsRunning wait for ever (change log, line 370: "lock up").
* `WrapperLockedUp`: Start panicked on a nil event with `cmw.mutex` held (`server_process.go:308`
  evaluates `sp.raceEvent` late), or `Shutdown` waits under the mutex for a request that waits for it.
* `UDPClient!ReaderStuck`, `ForwarderLeft`: the consumer has gone and the queue is full, so the reader blocks for
  ever (`messages.go:227`); serve closed the listener first, so Close returns an error before it closes the
  forwarder (`:92`).
* `DriverTables!overwritten`: mutexes that `*driver = *NewRaceControlDriver(...)` replaced under their holder;
  unlocking one ends the program. (It is not the only thing that can: the map `carUpdaters` is read, written and deleted
  from by several goroutines without a lock, `race_control.go:249-263` and `:657`, and Go ends a program that is caught
  doing that; the model takes each access for one step.) `TablesLockedUp`: driver mutex and table lock taken in both orders, or a send to the
  nil channel of a car whose entry was deleted meanwhile.
* `HubLockedUp`: a handler panicked sending to a channel the hub closed, a mutex in hand; or it waits,
  mutex in hand, for a browser that has gone.
* `Plugins!twice`: the system called a port free that had been promised to a plugin, or is where Server Manager forwards
  messages, already (`FreeUDPPort`); `left`: processes that
  could be neither terminated nor killed, which are forgotten.
* `DriverSwaps`: a swap OnEndSession could not reach (`orphan`: its driver has no laps, acServer was stopped, it sleeps
  before a kick, it began after the end); `old` positions of an earlier stint; two swaps that `overlap` because the
  disconnection of the kicked driver starts a second one; a swap that is `blind` because another one, of an earlier
  session perhaps, kicked the driver and cleared the position both know him by (`race_control.go:848`).

Events:

* `RaceManager!notes`: `overtaken` (a request acted between two steps of LoopRaces), `robbed` (the looped session types were
  overwritten by another start or taken by the end of another event's session), `misled` (currentRace was replaced and the
  start then failed, or a restart overtook a start), `announced` (a time attack that was only saved is what race control keeps,
  whatever runs, `race_manager.go:866`), `failed`, `overlap`; "astray" timers fire for the event before.
* `RaceSetup!rnotes`: `mixed` (a start failed between its two files, and a restart ran the mix), `announced` (a time attack
  that was only saved, or failed to start, is kept as the running one, `race_manager.go:866`), `foreign` (the presets and the
  events whose results they were combined with meanwhile), `stale` presets. A start also changes what its preset asked for
  (`AsAsked`): boxes are numbered anew, the first session is opened, and slots of any car keep the car they got.
* `RaceScheduler!disturbed`: `overtaken` (a stale copy was saved, or somebody acted between the change of a timer and the
  save), `failedSchedule` (a refused request has stopped the timer already, `race_manager.go:1286`, `:1332`), `failedStart`,
  `staleEntry` (the entry for this server is made before the rule is set, `:1278`), `afterDeletion`. The calendar is excepted while
  the entry holds the rule of before.
* `Reminders`: timers the map has forgotten (`kept` is false: several leads, or one in the past, which overwrites the timer
  with nil); sessions of race weekends, whose timers nothing stops; `excused` events (leads changed for other events than custom
  races, a date refused, events InitScheduledChampionships did not get to, a token that did not work).
* `ChampionshipSchedule!unarmed`: InitScheduledChampionships returns after the first event (`championship_manager.go:1825`,
  `:1836`), a refused request stopped the timer. `disturbed`: `outdated` (a recurring event is started from the timer's copy),
  `overtaken`, `halfway` (Server Manager ended between copying and scheduling, also by the endless recursion at `:995`).
* `ChampionshipSessions!unusual`, `behind`, `misled`, `RacesMixedUp`, `EndMissed`, `disturbed`: a session whose laps left no results
  file is given the newest file, whoever's it is (`:1141`), one that was not reported is given the file that was saved last, which
  may be an older one that was edited, or another event's (`misled`, `:1235`); without a practice session the end of the last
  session is missed when it is not reported, as the event starts over with a session of the same name; a second race is known only by the results of the first (`:1223`); a stale copy was
  saved (`overtaken`: CancelEvent and the end of the last session both stop acServer between load and save); messages of
  one run were handled during the next, or an event in progress was started again (`late`).
* `RaceWeekend!disturbed`: `outdatedForm` (the parents a form sends are not checked, `race_weekend_manager.go:426`: two forms
  make each session the parent of the other, and the walk over the graph ends Server Manager), `linkedTwice`
  (`race_weekend.go:273` adds a parent a child already has, `:768` removes one link only), `overtaken` (CancelSession stops
  acServer between load and save), `reopened` (the session that has just ended is still running and can be
  cancelled, with its results), `late` (started while another session is running, being started or about to be recorded:
  `activeRaceWeekend` is replaced first, `race_weekend_manager.go:484`), `edited`, and `dateWithdrawn`, `dateRefused`,
  `dateCleared` (timer and store go apart, `:1270`, `:1213`).

Results, tables and stores:

* `ResultsFiles!rnotes`: `overlap` (two requests at once: the last save wins), `failed` saves, `stale` lap penalties (a shorter
  penalty leaves the laps of a longer one, `penalties.go:145`), `forgotten` rows (loading drops a row whose time is 0,
  `results.go:1286`). `AllLapsTaken`: a penalty that takes all laps of a practice makes the time 0, which sorts first.
* `ColumnsAddUp` excepts a driver with two rows (alone and in a shared car: both lose the penalty); `TeamsHaveAllPoints`
  excepts `Stray` drivers, who missed a session or changed team, because the lookup is in whichever session comes first.
* `ChampionshipEntrants!dropped`, `joined`: an accepted driver loses his place to ImportEvent or a page, or an Accept without
  room; a rejected one gets a place by connecting or by import.
* `GridsComplete`'s parts speak of grids that are computed without a draw (`fixed`, `Fixed`) and of filters that keep the order
  (`Plain`).
* `Stores!hurt`, `overlapped`: entrants, audit log and options are read, changed and written, so overlapping calls lose entries;
  a crash between create and encode leaves an empty file. `Accounts!stale`, `waived`: a copy from before an
  administrator's change was saved; an administrator was made less, or one who was deleted already deleted the other.

## 5. Proofs

The `*_proofs` modules extend the module they are about (`Services_proofs` those of `MCServices`,
`Championship_proofs` `ChampionshipEntrants` and `ChampionshipSchedule`, `Events_proofs` `RaceScheduler`, `Plugins`,
`DriverSwaps`, `RaceSetup` and `Reminders`, `Stores_proofs` `Stores` and `Accounts`). What TLC checks for a few actors they prove for any number of them
and any value of the constants.

| module | theorem | says |
|---|---|---|
| `ServerProcess_proofs` | `TypeCorrect`, `Invariance` | `TypeOK`; the inductive invariant |
| | `SingleServer` | `AtMostOneServer` |
| | `OwnCommand` | `LaunchesOwnCommand` |
| | `NeverStuckRunning` | `RunningHasRunner` |
| | `StopIsTruthful` | `StoppedMeansStopped` |
| | `LifecycleRefined` | `Spec => Lifecycle!SafeSpec`: every step of `ServerProcess` is a step of `ServerLifecycle` or a stutter |
| `Services_proofs` | `WrapperTypeCorrect`, `DetailsHaveEvent` | types; `NilEventNeverServed` |
| | `HubTypeCorrect`, `OneChatSender` | types, with a registered client open; one websocket handler at a time holds the mutex of the chat history |
| | `TablesTypesCorrect`, `MutexHasOneHolder` | types; `MutexesKept` |
| | `ServicesTypeCorrect` | `MCServices!TypeOK`: the types of all three, whichever of them runs |
| `RaceManager_proofs` | `ManagerTypeCorrect` | types |
| | `CurrentRaceIsKnown` | `CurrentRaceRuns` |
| | `EventsKeepRunning` | `EventsRunTheirTime` |
| `Championship_proofs` | `EntrantsKeepPlaces` | `PlacesKept` |
| | `ScheduleTypeCorrect` | `ScheduleTypeOK` |
| | `TimersAreTheSchedule` | `TimersFollowSchedule` |
| | `StartsLoseNothing` | `NothingLost` |
| `ChampionshipSessions_proofs` | `SessionsTypeCorrect`, `SignUpsStay` | `SessionsTypeOK`; `SignUpsKept` |
| | `EventIsRecorded` | `EventRecorded`: whose results a session has, what a complete event has, when it is complete |
| `RaceWeekend_proofs` | `WeekendInvariant` | the inductive invariant: tasks, copies, what is launched |
| | `ResultsAreTheirOwn` | `ResultsBelong` |
| | `TimersAreTheDates` | `TimersFollowDates` |
| | `GraphInvariant` | the inductive invariant of the graph: links, forms, copies, what is being run |
| | `SessionsRunInOrder` | `RunsAfterParents` |
| | `GraphStaysSound` | `GraphKept`: `GraphSound` in every state, and of every deletion that it keeps the ancestors of the others |
| `Events_proofs` | `SchedulerTypeCorrect`, `ScheduleInvariant` | `TypeOK`; the inductive invariant |
| | `ScheduleIsKept` | `ScheduleKept` |
| | `CalendarIsTrue` | `CalendarTruthful` |
| | `PluginsAreSound` | `PluginsSound` |
| | `SwapsAreFair` | `SwapsFair`: the invariant on sessions and both action properties |
| | `EventsAreTheirOwn` | `EventsTheirOwn`: what restarts read, and whose results a time attack gets |
| | `FilesAndPresetsAreKept` | `FilesAndPresetsKept`: the two files fit each other, presets are what their forms asked for |
| | `RemindersAreKept` | `RemindersKept`: what is sent is due, and what is due is sent |
| `Stores_proofs` | `AnswersAreTheSame` | `SameAnswers` |
| | `WrittenIsKept` | `EntriesKept` |
| | `AccountsTypeCorrect`, `DecisionsAndAdmins` | types; `AccountsSound` |

Assumptions are the named ASSUMEs of the modules, which TLC evaluates in every run: numbers are numbers, nil is no event, no
caller and no driver, `Races` is finite (LoopRaces walks a list of them), the goroutines of UDP messages and timers are no HTTP handlers, a
custom race may be scheduled (`Until` is not 0), the names of accounts are a sequence, the slots of a new championship have a uuid each
and hold nobody twice, the port Server Manager forwards to is none of those an administrator set for stracker's proxy, a race that
is asked for has a car to drive besides "any" and entrants of its own cars, no record has the empty id, a full audit log drops at least
one entry and not more than it has, and a championship event is no time attack and has no entry list
when it can be booked (`championship_manager.go:704`), no reminder is set for after the start, and no Discord token is
empty. Nothing is assumed about how many actors there are or how large the bounds are.

`ServerProcess`. None of the four safety properties is inductive. Why can there not be two processes? Because a
command is under way only while it is the current one and IsRunning says so (`ActiveIsCurrent`), and loop starts an event
only when it is not running (`QuietLoop`). The latter needs that a Start handing over its event has seen the server stopped
and that nobody else started one since: `StartAfterStop`, which rests on `startMutex` being held by whoever is between the check
and the hand-over (`MutexHeld`) and on an event in loop having a caller that waits for it (`Requested`). A Stop on behalf
of that Start may only report success truthfully, so `StopSeen` (a success, reported or on its way through the waiter, was for a
run that ended) and `EntryBuilt` (the run a Stop saw was built, and is under way or reaped) come in, with `StoppingReaped`,
`WaiterInStop`, `FreshResult` and `CancelResult` saying where in the code those values can be set. The refinement follows
from the invariant, again per action; a step after which onStop never ends is `LockUp` of `ServerLifecycle`, and nothing of what
the five say is lost then.

`ContentManagerWrapper`, `RaceControlHub`. The page is not built of a nil event because the listener is only opened by a
goroutine that has configured the wrapper, and nothing takes event and server away again (`ListensConfigured`). The hub
closes no channel twice because a registered client is open (`Channels`, `Registered`); one handler sends the chat
history because who is between its lock and its unlock has the mutex (`Handling`).

`DriverTables`. A mutex belongs to an object, an object to a driver, and an object is replaced under its holder. The
invariant has five parts: a goroutine is at a step it can be at and its object is one that was made
(`ThreadsFit`), an object in a table is of the driver it is under (`TablesFit`), the stored timings (`StoreFits`), what acServer is
doing (`WorldFits`), and whoever is at a holding step owns the mutex unless that was overwritten (`Owned`).

`RaceManager`. The invariant follows an event from the request to its end. Who holds `rm.mutex` and `startMutex` is who is
at which step (`Held`, with what LoopRaces and restarts may do in `Kept` and `LooperKept`). `CurrentSound` and
`TimeAttackSound` say how currentRace and race control differ from what runs while a start is halfway, and `OneStarts`
that one goroutine at a time is. What runs has its place among its sessions (`RunSound`, `PlaceSound`, `RacesCounted`); the session
types are those of the event LoopRaces is starting or of the one that runs, or they are gone (`TypesStored`, `TypesOfLooper`,
`TypesOfRun`); a timer of an earlier event is armed only until the start has finished (`TimersSound`); LoopCallback waits for
the second race just between the two races (`WaitSound`). `OvertakenSound` ties history to these: what runs while LoopRaces is starting
something has overtaken it.

`ChampionshipEntrants`. The event settings are tied to uuids and uuids change slots, so the invariant says of what an event gave a
driver that it is in its entry list where his uuid leads (`GivenOnLists`), besides that the slots, and those of an open page,
have distinct uuids and distinct drivers (`Places`). Every way to a place (the class and the car of a session, the first free
slot, a cleared one) has one thing in common: one driver moves, everyone else keeps slot and uuid, and if he had a place before his
uuid goes with him (`OneMoved`); he was told that he has a place just when he has (`Outcome`). All requests but the
administrator's page follow from this. The page may bring back an old state of all slots; then only those keep
what they were given whose uuid is the same. The ballast of a driver who is on another car is left open, as the entry list is matched
by car.

`ChampionshipSchedule`. That timers are the schedule is inductive with types and with timers being numbered once
(`TimersNumbered`); it needs that a deleted or future event has no schedule (`Sound`). Clearing a fired event must not
leave a second timer of it (`FiredOnce`: slots remember one timer of an event, so there is one). That nothing is lost
needs to say how far the store is behind what is meant in the middle of a recurrence (`Behind`: just the copied event, which still has the
date its origin was fired for), for all callbacks that are there at once (`CopiesDiffer`). The first scheduled event exists
because the numbers of events are well founded. The library states induction with an operator as a parameter, which the
provers cannot instantiate, but well-foundedness of a relation, written as a set of pairs, they can use
(`LessIsWellFounded`, `LeastNumber`).

`ChampionshipSessions`. Whoever saves writes a whole championship, so the invariant is about the copies: every one is sound, an event
complete or with sessions only if it was started (`CopiesSound`), and one that is not stale has the sign ups of the store
(`CopiesFresh`), which saving keeps because it makes the copies of all other threads stale. That the results are those of the
session and that the last one ends the event (`EventRecorded`) is about the order of messages. As long as nothing has `disturbed` a
run, the messages under way are a chain (`Chain`): each was sent where the one before left acServer, and says truly which
file is whose (`Sent`). The championship shows the place where the first of them was sent (`FollowedBy`: the active
session, which of two races is over, whether the session to be left is done), so handling a message takes it to the next place. A
session that ended without a report is recognised by the way it ended (`EndedOddly`), and if the last session has results, a
message that completes the event is still under way (`LastKnown`). Files somebody else saves change none of this, unless one
is taken for a session's (`misled`). What is stored, and what will be (`RecordedInv`), is right by itself.

`RaceWeekend`. Results are those of the active session when they are handled, so what acServer plays or has reported must be the
active session, and what a thread is about to launch as well; then only one thread can be (`Launching`). It ends with the first
start that comes `late`, as the exception does. The copy a cancelling handler saves must have results of its own sessions
(`CopiesBelong`); it has the sessions and dates of the store as long as nobody saved (`CopiesFresh`). A timer that is
under way is one of three steps of one thread (`Tasks`). What the parents of a session are plays no role in any of this.

The graph is a second invariant on top of the first. Ancestors are the least set closed under parents (`LeastClosed`), from
which follow what HasParentRecursive relies on: ancestors of ancestors are ancestors, an ancestor is reached through a
parent, and without a cycle nobody is his own. A form offers no descendant, so saving it makes no cycle (`EditKeepsOrder`)
if it still offers what the weekend offers (`Fresh`); deleting a session makes none either (`DeleteKeepsOrder`), and keeps
everybody's ancestors because every child inherits all parents that exist (`ChildInherits`, `DeleteKeepsAncestors`). That a
link to the deleted session is gone needs that nobody is linked to a parent twice, which is where the exception
`linkedTwice` comes from (`Rooted`, `SessionUnlinked`). The ancestors of a session are completed not only while
acServer plays it but from the moment its start is recorded (`ParentsDone`), by whichever thread is starting it; no later
step takes results away but an edit, a stale copy or the cancellation of a completed session. These theorems need
no constraint on what the run calls `Undisturbed`.

`RaceScheduler`. A goroutine that works on the race changes the timer first and saves the reason later, so the timer is sometimes
ahead of the store. The invariant says whose it is: there is at most one (`OneTimer`), and it is at the date of whoever is
between changing and saving it (`TimerOfHolder`), or else at the date in the store, where the entry for this server counts
(`TimerOfStore`, `Cleared`). A copy nobody saved over is what the store says, but for the field about to be written
(`CopiesFresh`), the entry is the one of the schedule until a start clears the latter (`EntryFits`), and what the user wants is
what the store has once every stale copy is spoken for (`WantedFits`). These speak of states where nothing was `overtaken` and no
saver has a stale copy, who is going to be (`Excused`). Then the race that lies ahead has its timer (`FutureTimers`, `HolderTimers`), a
timer that has fired is followed by none until its callback has scheduled the next occurrence (`FiredTimers`,
`RecurrenceTimers`), and a deletion in two saves leaves none (`DeletedTimers`). The calendar reads the entry, so it shows the
date of the timer; before the parts on the entry and on a store without a date (`Cleared`) were added, it could not be proved.

`Plugins`. What is still to be started comes in order and after everything that has its ports (`TodoFits`), so a plugin finds
the one before it, and nobody else, in place: whoever was told his ports has the reversed ones of the plugin above
(`ConfFits`). Unless a port was promised twice, the links a plugin made differ from each other and from where Server Manager
listens and forwards (`RelayFits`). Who was started is alive, or left, or ended by itself (`ProcessesFit`), and log files are
removed before there is one more (`LogsFit`).

`DriverSwaps`. A punishment rests on a position that a swap keeps and on one that it reads from an object later. So the
invariant says whose the objects in the tables are, and that the position in one that is connected is that of the car or not known
yet (`PeopleFit`); a swap that noticed a first update still knows a position, or is `blind` or an `orphan` (`SwapOK`).
Cancelling at the end of a session reaches the swaps by the contexts in the objects: whoever waits has one (`on`), so a
swap that is not cancelled was not reached, and all that outlive the session are orphans. That nobody is punished after he was told
that he may go needs that there is one swap at a time where none `overlap` (`OneSwap`), and that the next one begins
with an empty car (`ClearedFits`). The rule on leaving the box used to make an exception whenever another swap of the car was
going on. The proof did not go through with it: a swap of an earlier session can kick, clear the position and return, and
then no other is going on. What is excepted now is only `blind`, which says that this happened to the swap that punishes.

`RaceSetup`. While an event runs, the files are those it was started with, unless `mixed` (`FilesMeant`), and race control keeps
either nothing or the time attack that runs, unless one was `announced` (`AttackRuns`). That the files fit needs that
everything that can be started can run: whatever was asked for has typed entrants of listed cars (`CanRun`), and every
copy of a preset, stored, started or kept by race control, is what the form of its revision asked for, but for what starts have
changed, or is of an older one (`CopyOf`), which a start makes no worse (`StartedFits`, `MeantInv`). The entry list is sorted;
that some order sorts it is an induction on its length, by a well-founded relation again (`SomeHeads`, `CanOrder`). The results
of a time attack used to be an action property, true in every run and not inductive: the late save of a scheduled start
whose race was edited, started again and failed drops a result that was combined meanwhile, with more requests than a run
has. What holds is a statement on states, with the pairs that are `foreign` as its exception.

`Reminders`. That a reminder is sent, and of the right date, is about the minute of sending; the invariant says it of all minutes
before. A timer the map remembers is of the date in the store and of a lead in the options (`RemindersInv`), because whoever
changes either stops or forgets it; an event that is not excused has a timer for each of its leads that is still ahead
(`Announced`), which setting timers for other events, and stopping those, leaves alone (`SetIs`, `SetAheadIs`, `StoppedIs`).
Timers used to be a sequence built by folds, which are opaque to the provers; as a set they have no order, which nothing looks at.

`Stores`. What has to be remembered besides the two stores is what each client read and is about to write. `StoresInv` says that a
pending write is of one file and one key of the same record with the same contents (`WritesSame`), so that the stores are alike
once it is finished, in whatever order clients finish (`RecordsSame`), and that who writes is alone, so that a file is broken
only while somebody writes it or since a crash (`ClientsFit`). Deleting and looking for accounts read other records first: a client may
have decided by what another has replaced since, and the writes are still alike because both stores were read at one instant.
Championships name a race weekend that never goes away (`WeekendFits`: deleting only marks), which is why one that was read by the
database is read by the files. Lists in one file, and default options written by a load, are the parts where two clients at once
differ: `overlapped` names these files, and for the others one client at most has them in hand (`OneLister`), so that what it
read is what there still is; for the audit log this is `AuditKept`, on the entries that were acknowledged. An operation
is shown to prepare such a write (`CustomRaceFits` to `AuditFits`), a step to keep the rest (`BeginKeeps`, `CreateKeeps`,
`FinishKeeps`, `CrashKeeps`), and both theorems follow from the invariant while nobody is in a call.

`Accounts`. An account is stored under its name and a running request has a copy whose name is still taken
(`AccountsFit`, `RequestsFit`), so that a user who saves his copy changes no decision without being `stale`. An administrator is
left because a deletion is by a request with another id (`AdminThere`). The proof showed that two exceptions the property used
to make, an account under two names and a name taken by another account, were not needed; they are gone.

Only model-checked: liveness (`EveryCallReturns`, `NoOtherLockup`, `CloseEndsGoroutines`, `IntervalRecovers`, `LoopGoesOn`), the
fairness half of the refinement, the action property `PenaltyNeverHelps`,
and everything about results, grids and tables (recursive definitions, sorting and folds over sequences are opaque to the
provers).

## 6. Findings

Refuted by a run, each with the line it contradicts in `PROJECT.json`:

* Restart hands a nil event to loop when the server stops meanwhile, which ends the program (`server_process.go:196`).
* Deleting two sessions of a race weekend one after the other leaves a link to the second (`race_weekend.go:765`): the session
  with that link can be started, is recorded as in progress, and fails for want of an entry list.
* Starting a recurring championship event saves the championship as it was when the event was scheduled
  (`championship_manager.go:972`).
* The table of teams gives points of a driver to no team when it meets a session he missed first (`championships.go:1390`).

Seen while modelling and not made a run of their own. Where an operator is named, TLC shows the trace when it is added to
the configuration of its module:

* `AbsentDriversLeave` (`DriverTables`): driver mutex and table lock are taken in both orders, and the UDP goroutine and the
  watcher wait for each other (`race_control.go:667`; change log, line 263);
* `TablesDisjoint`, `LapCountsKept` (`MCServices`): a driver who reconnects while another goroutine disconnects him is in both
  tables, or loses his laps (change log, line 128); `StopDisconnectsAll`: the stop notification is lost when
  requestSessionInfo is asking acServer for the session;
* `ShutdownCompletes` (`MCServices`): the Content Manager wrapper waits for a request that waits for it (change log, line 370:
  "lock up"); `UpdatesInOrder`: a new websocket may see newer updates before the initial one;
* `FallingBehindSlowsDown`, `ShownRateIsTold` (`MCUDPClient`): the interval has no upper limit and is truncated to 16 bits, and
  a new session resets what acServer uses but not what Live Timings shows;
* `DeletedStaysUnscheduled` (`RaceScheduler`): a race deleted while its timer starts it is scheduled again
  (`race_manager.go:1264`; change log, line 520);
* `RemindedOnce` (`Reminders`): each pass of the check loop may add a reminder that the map forgets;
* a Stop between the building of the command and the start of its process panics on the nil `Process`
  (`server_process.go:183`); `sp.cfn()` at the end of a Stop may cancel the next run (`:189`);
* after a restart only the first scheduled event of all championships has a timer; `FindNextEventRecurrence` never returns for an
  exhausted rule; a recurring event missed while Server Manager was down ends its recurrence;
* `customRaceStartTimers` and its championship counterpart are maps without a lock;
* LoopRaces returns for ever on any error; the flag of a second race survives a stop between the races;
* a weekend session is recorded as started before its entry list is built and acServer is started
  (`race_weekend_manager.go:521`); a waiting sibling is started in preference to a waiting child, and nobody looks at that
  child again when the sibling ends (`:692`); a date replaced by "start after parent" keeps its timer (`:1269`);
* grids: a disqualified or absent driver comes back into the next grid with the result of the session before
  (`race_weekend.go:718`); the comment "overwriting" at `race_weekend.go:931` does not hold, entries are appended;
* results: combined race files are sorted with car numbers that collide; under the fall back sort a disqualified driver without
  laps regains his place; an edit renames a driver in the file and not in its copies (`results.go:1592`);
* championships: ties ignore race weekends and disqualification; signing up again resets an accepted driver to pending while he keeps
  his slot; reordering events drops the ones that are not listed; event settings of an any-car slot do not apply once a
  driver has taken it;
* championship events: when results were not reported, an older file that was edited since, or one of another event, is
  recorded for the session (`championship_manager.go:1235`); without a practice session, an unreported last session is followed by
  one of the same name, and the event goes on (`:1125`);
* stores: the file store never updates an entrant it knows (`store_json.go:234`); a championship whose race weekend file is
  broken disappears from lists and cannot be deleted; the database lists championships without their race weekends; the database has no
  plugin options before server options exist; renaming an account leaves a second record with the same id;
* driver swaps: a swap that OnEndSession does not reach acts in the next session; a driver whose last position is that of an
  earlier stint is kicked at once; penalties given after the end of a session are cleared unapplied;
* presets: a scheduled race with slots of any car keeps the cars drawn at its first start, and a late save of a scheduled start loses
  results combined since (`race_manager.go:1388`);
* plugins: a forwarding address without a port panics in loop's goroutine when a plugin is on; stopping plugins may hold
  `sp.mutex` for half a minute each.

## 7. Limits

* One acServer, one store used by one Server Manager: entries other servers make in a shared store are left out.
* Outside `Stores` and `ResultsFiles` the store never fails and load and save are atomic; what the goroutines do between them is
  modelled.
* Data is abstracted to what the properties tell apart: in the concurrent modules results are file numbers, messages are their
  kind, an entry list is absent, a driver keeps to one car; in the modules on results and tables numbers are small and whole.
* Start messages, the bot's other commands, Lua scripts and what plugins write are left out; their errors are ignored by the
  code as well.
* `UDPClient` is one connection; that the global interval and queued messages of a closed connection survive into the next is
  not composed. `ContentManagerWrapper` has its own small copy of `loop()`.
* Out of the prover's reach: liveness, ENABLED, what recursive definitions and folds compute for every input.

## 8. Plan

1. Composition: two successive connections of `UDPClient` under `ServerProcess`, with the global interval and left-over messages;
   `ServerLifecycle` as the environment of `RaceManager`.
2. Abstract specifications: a schedule (what is asked is started, once) implemented by `RaceScheduler` where nothing is
   disturbed; an event (not started, in progress, complete) implemented by `ChampionshipSessions`.
