------------------------------- MODULE Plugins -------------------------------
(* What startRaceEvent and onStop do besides acServer itself                  *)
(* (server_process.go): log files are tidied, the plugins are told the UDP    *)
(* ports over which they hand messages to one another, each is started as a   *)
(* process, and all of them are stopped when acServer has ended.  loop runs   *)
(* both, one after the other, holding sp.mutex (module ServerProcess).        *)
(*                                                                            *)
(* A link is [at, to]: the port on which the upper side of a pair listens,    *)
(* and the one it sends to.                                                   *)
EXTENDS Naturals, Sequences, SequencesExt

CONSTANTS
  ListenPort,    \* forwardListenPort of the server options
  ForwardPort,   \* the port of their forwardingAddress
  Ports,         \* the ports the system may call free
  NoPort,        \* a port that is not set
  ProxyPorts,    \* ports an administrator may have set for sTracker's proxy
  Limits,        \* NumberOfACServerLogsToKeep, 0 for all
  MaxExtra,      \* plugins of the configuration file
  MaxLogs,       \* bound: log files
  MaxFaults,     \* bound: processes that end by themselves or cannot be stopped
  MaxPluginRaces       \* bound: events started

(* The administrator gives no port twice.                                     *)
ASSUME PluginsAssumption ==
  /\ NoPort \notin Ports \cup {ListenPort, ForwardPort} /\ ListenPort # ForwardPort
  /\ ForwardPort \notin ProxyPorts
  /\ Limits \subseteq Nat /\ MaxExtra \in Nat

VARIABLES
  given,     \* the options of this start: the plugins that are on, and the ports of the proxy
  started,   \* sp.raceEvent is set
  todo,      \* what is still to be done: plugins to start, or "stop"
  conf,      \* the link each plugin of the chain was given, from its own side
  relay,     \* the link each of them was told to open for the next one
  extra,     \* sp.extraProcesses
  alive,     \* the processes there are
  left,      \* history: processes that could not be stopped
  twice,     \* history: the system called a port free that was promised already
  logs,      \* session log files
  limit,     \* history: how many were to be kept when the last one was made
  races, faults
pluginVars == <<given, started, todo, conf, relay, extra, alive, left, twice, logs, limit, races, faults>>

Forward == [at |-> ListenPort, to |-> ForwardPort]
NoLink == [at |-> NoPort, to |-> NoPort]
Chain == <<"stracker", "realpenalty", "kissmyrank">>

Nothing == [plugins |-> {}, proxy |-> NoLink]

PluginsInit ==
  /\ given = Nothing
  /\ started = FALSE /\ todo = <<>> /\ conf = <<>> /\ relay = <<>> /\ extra = <<>> /\ alive = {} /\ left = {}
  /\ twice = FALSE /\ logs = 0 /\ limit = 0 /\ races = 0 /\ faults = 0

NoServer == todo = <<>>

------------------------------------------------------------------------------
(* startRaceEvent.                                                            *)

(* The newest are kept, all but one of the limit: another one follows.        *)
deleteOldLogFiles(n) == IF n > 0 /\ logs >= n THEN n - 1 ELSE logs

IfOn(p, on) == IF p \in on THEN <<p>> ELSE <<>>

(* Up to acServer: the log files and the UDP listener, one of which may fail. *)
Prepare(o, n, more, ok) ==
  /\ NoServer /\ ~started /\ races < MaxPluginRaces /\ races' = races + 1
  /\ \/ n \in Limits /\ deleteOldLogFiles(n) < MaxLogs /\ logs' = deleteOldLogFiles(n) + 1 /\ limit' = n
     \/ UNCHANGED <<logs, limit>>
  /\ started' = ok
  /\ IF ok THEN /\ given' = o
                /\ todo' = IfOn("stracker", o.plugins) \o IfOn("realpenalty", o.plugins)
                            \o IfOn("kissmyrank", o.plugins) \o [k \in 1 .. more |-> "extra"]
     ELSE UNCHANGED <<given, todo>>
  /\ UNCHANGED <<conf, relay, twice, extra, alive, left, faults>>

Told(links, p, link) == [q \in DOMAIN links \cup {p} |-> IF q = p THEN link ELSE links[q]]

(* The plugin is told what to do and started, or the start of the event fails *)
(* there; what runs by then goes on running.                                  *)
StartPlugin(p, up) ==
  \E ok \in BOOLEAN :
    IF ok THEN /\ conf' = Told(conf, p, [at |-> up.to, to |-> up.at])
               /\ extra' = Append(extra, <<p, races>>) /\ alive' = alive \cup {<<p, races>>}
               /\ todo' = Tail(todo)
    ELSE /\ todo' = <<>> /\ UNCHANGED <<conf, extra, alive>>

Promised == {ForwardPort} \cup UNION {{relay[p].at, relay[p].to} : p \in DOMAIN relay}

(* The proxy is set up when something follows; its two ports differ.          *)
StrackerRelay(follows) ==
  LET p == given.proxy
  IN  IF ~follows THEN {p}
      ELSE {l \in [at : IF p.at = NoPort THEN Ports ELSE {p.at}, to : Ports \cup {p.to}] :
              l.to # l.at /\ l.to # NoPort /\ (p.to \notin {NoPort, l.at} => l.to = p.to)}

StartStracker ==
  /\ todo # <<>> /\ Head(todo) = "stracker"
  /\ \E l \in StrackerRelay(given.plugins # {"stracker"}) :
       relay' = Told(relay, "stracker", l) /\ twice' = ({l.at, l.to} \cap Promised # {})
  /\ StartPlugin("stracker", Forward)
  /\ UNCHANGED <<given, started, left, logs, limit, races, faults>>

(* Nothing keeps the two ports apart, or apart from those of sTracker, which  *)
(* may not have opened them yet.                                              *)
StartRealPenalty ==
  /\ todo # <<>> /\ Head(todo) = "realpenalty"
  /\ \/ "kissmyrank" \notin given.plugins /\ UNCHANGED <<relay, twice>>
     \/ /\ "kissmyrank" \in given.plugins
        /\ \E l \in [at : Ports, to : Ports] :
             /\ relay' = Told(relay, "realpenalty", l)
             /\ twice' = (twice \/ l.at = l.to \/ {l.at, l.to} \cap Promised # {})
  /\ StartPlugin("realpenalty", IF "stracker" \in given.plugins THEN relay["stracker"] ELSE Forward)
  /\ UNCHANGED <<given, started, left, logs, limit, races, faults>>

(* Mutant: sTracker's proxy comes first.                                      *)
AboveKissMyRankMut ==
  IF "stracker" \in given.plugins THEN relay["stracker"]
  ELSE IF "realpenalty" \in given.plugins THEN relay["realpenalty"]
  ELSE Forward

AboveKissMyRank ==
  IF "realpenalty" \in given.plugins THEN relay["realpenalty"]
  ELSE IF "stracker" \in given.plugins THEN relay["stracker"]
  ELSE Forward

StartKissMyRank ==
  /\ todo # <<>> /\ Head(todo) = "kissmyrank"
  /\ StartPlugin("kissmyrank", AboveKissMyRank)
  /\ UNCHANGED <<given, started, relay, left, twice, logs, limit, races, faults>>

(* One of the configuration file that cannot be started is passed over.       *)
StartExtra ==
  /\ todo # <<>> /\ Head(todo) = "extra"
  /\ todo' = Tail(todo)
  /\ LET process == <<"extra", races, Len(todo)>>
     IN \/ extra' = Append(extra, process) /\ alive' = alive \cup {process}
        \/ UNCHANGED <<extra, alive>>
  /\ UNCHANGED <<given, started, conf, relay, left, twice, logs, limit, races, faults>>

------------------------------------------------------------------------------
(* The end.                                                                   *)

Ends(p) ==
  /\ p \in alive /\ alive' = alive \ {p}
  /\ faults < MaxFaults /\ faults' = faults + 1
  /\ UNCHANGED <<given, started, todo, conf, relay, extra, left, twice, logs, limit, races>>

ServerEnded ==
  /\ NoServer /\ started /\ started' = FALSE /\ todo' = <<"stop">>
  /\ UNCHANGED <<given, conf, relay, extra, alive, left, twice, logs, limit, races, faults>>

(* One after the other: KissMyRank is asked to exit first, each is terminated *)
(* and, if that takes too long, killed.  One that cannot be is forgotten.     *)
(* Nobody needs the files of the plugins after that.                          *)
stopChildProcesses ==
  /\ todo = <<"stop">>
  /\ IF extra = <<>>
     THEN /\ todo' = <<>> /\ given' = Nothing /\ conf' = <<>> /\ relay' = <<>> /\ twice' = FALSE
          /\ UNCHANGED <<extra, alive, left, faults>>
     ELSE /\ extra' = Tail(extra) /\ UNCHANGED <<todo, given, conf, relay, twice>>
          /\ \/ alive' = alive \ {Head(extra)} /\ UNCHANGED <<left, faults>>
             \/ /\ Head(extra) \in alive /\ left' = left \cup {Head(extra)} /\ UNCHANGED alive
                /\ faults < MaxFaults /\ faults' = faults + 1
  /\ UNCHANGED <<started, logs, limit, races>>

Options == [plugins : SUBSET Range(Chain), proxy : [at : ProxyPorts, to : ProxyPorts]]

PluginsNext ==
  \/ \E o \in Options, n \in Limits, more \in 0 .. MaxExtra, ok \in BOOLEAN : Prepare(o, n, more, ok)
  \/ StartStracker \/ StartRealPenalty \/ StartKissMyRank \/ StartExtra
  \/ \E p \in alive : Ends(p)
  \/ ServerEnded \/ stopChildProcesses

PluginsSpec == PluginsInit /\ [][PluginsNext]_pluginVars

------------------------------------------------------------------------------
(* Properties.                                                                *)

(* The plugin before p among those that were told their ports, none for the   *)
(* first one.                                                                 *)
Before(q, p) == \E i, j \in DOMAIN Chain : i < j /\ Chain[i] = q /\ Chain[j] = p
Above(p) == {q \in DOMAIN conf : Before(q, p) /\ ~\E r \in DOMAIN conf : Before(q, r) /\ Before(r, p)}
Meets(p, link) == conf[p].at = link.to /\ conf[p].to = link.at

(* Where p listens to the one before it and to the one behind it.             *)
Listens(p) == {conf[p].at} \cup {relay[p].at : q \in {r \in DOMAIN conf : p \in Above(r)}}

(* Each plugin talks to the one before it, the first to Server Manager, and   *)
(* no two are to listen on one port, nor one twice, unless the system called  *)
(* a port free that was promised.                                             *)
Chained ==
  /\ \A p \in DOMAIN conf : /\ Above(p) = {} => Meets(p, Forward)
                            /\ \A q \in Above(p) : Meets(p, relay[q])
  /\ \/ twice
     \/ \A p, q \in DOMAIN conf : /\ p # q => Listens(p) \cap Listens(q) = {}
                                  /\ p \in Above(q) => conf[p].at # relay[p].at

(* While acServer runs its plugins are known, even if starting one of them    *)
(* made the start fail; once it has stopped only those are left that could    *)
(* not be stopped.                                                            *)
NoneForgotten == alive \subseteq Range(extra) \cup left /\ (NoServer /\ ~started => alive \subseteq left)

(* There are never more log files than the limit in force when the last one   *)
(* was made.                                                                  *)
LogsLimited == limit > 0 => logs <= limit

(* The plugins of a server are chained, known and leave no more than they     *)
(* should.                                                                    *)
PluginsSound == Chained /\ NoneForgotten /\ LogsLimited
==============================================================================
