------------------------------- MODULE JSONStore -------------------------------
(* The store that keeps each record in a file of its own (store_json.go).     *)
(* An operation reads what it needs and then writes one file at most: it is   *)
(* [err, out, write], where out is the set of what it answers, and write maps *)
(* the name of the file to its new contents, or to nothing to remove it.      *)
(* Writing itself takes the steps of Stores.  A list reads its files at one   *)
(* instant here, and has no order.                                            *)
EXTENDS Integers, Sequences, SequencesExt

CONSTANTS
  Default,         \* the options a new installation has, by the name of their file
  MaxAuditEntries, \* maxAuditEntries, 1000 in the program
  AuditDropped     \* entries that go when the log is full, 20 in the program

VARIABLES
  disk,    \* the contents of each complete file
  broken   \* files that were created, but not written to the end

Options == <<"base", "server_options">>
Entrants == <<"shared", "entrants">>
FrameLinks == <<"base", "frame_links">>
AuditFile == <<"base", "audit">>
LiveTimings == <<"base", "live_timings">>
LastRaceEvent == <<"base", "last_race_event">>
Meta(key) == <<"meta", key>>

Answer(err, out, write) == [err |-> err, out |-> out, write |-> write]
Ok(out) == Answer("", out, <<>>)
Failed(err) == Answer(err, {}, <<>>)
Encode(file, data) == Answer("", {}, [f \in {file} |-> {data}])
Delete(file) == Answer("", {}, [f \in {file} |-> {}])

decodeFile(file) ==
  IF file \in broken THEN Failed("EOF")
  ELSE IF file \in DOMAIN disk THEN Ok({disk[file]})
  ELSE Failed("not exist")

listFiles(dir) == {file \in DOMAIN disk \cup broken : file[1] = dir}

The(answer) == CHOOSE x \in answer.out : TRUE

(* A list leaves out what cannot be read and what is deleted.                 *)
Live(dir, load(_)) ==
  LET files == {file \in listFiles(dir) : load(file).err = ""}
  IN  Ok({r \in {The(load(file)) : file \in files} : ~r.deleted})

DeletedCopy(r) == [r EXCEPT !.deleted = TRUE]

(* Deleting is loading, marking and saving.                                   *)
DeleteLoaded(loaded, file) ==
  IF loaded.err # "" THEN Failed(loaded.err) ELSE Encode(file, DeletedCopy(The(loaded)))

------------------------------------------------------------------------------
UpsertCustomRace(race) == Encode(<<"custom_races", race.id>>, race)
FindCustomRaceByID(id) == decodeFile(<<"custom_races", id>>)
ListCustomRaces == Live("custom_races", decodeFile)
DeleteCustomRace(race) == UpsertCustomRace(DeletedCopy(race))

ListEntrants ==
  LET a == decodeFile(Entrants) IN IF a.err = "not exist" THEN Ok({<<>>}) ELSE a

(* Only the loop variable is assigned when the entrant is there already: the  *)
(* list is written back as it was.                                            *)
UpsertEntrantMut(entrant) ==
  LET a == ListEntrants
  IN  IF a.err # "" THEN Failed(a.err) ELSE Encode(Entrants, Append(The(a), entrant))
UpsertEntrant(entrant) ==
  LET a == ListEntrants
      isNew == \A k \in DOMAIN The(a) : The(a)[k].guid # entrant.guid
  IN  IF a.err # "" THEN Failed(a.err)
      ELSE Encode(Entrants, IF isNew THEN Append(The(a), entrant) ELSE The(a))

DeleteEntrant(guid) ==
  LET a == ListEntrants
      at == {k \in DOMAIN The(a) : The(a)[k].guid = guid}
  IN  IF a.err # "" THEN Failed(a.err)
      ELSE IF at = {} THEN Ok({})
      ELSE Encode(Entrants, RemoveAt(The(a), CHOOSE k \in at : \A j \in at : k <= j))

UpsertServerOptions(so) == Encode(Options, so)

(* The defaults are written when there is no file.                            *)
LoadOrCreate(file) ==
  LET a == decodeFile(file)
  IN  IF a.err = "not exist" THEN Answer("", {Default[file]}, [f \in {file} |-> {Default[file]}]) ELSE a
LoadServerOptions == LoadOrCreate(Options)

UpsertPluginOptions(file, options) == Encode(file, options)
LoadPluginOptions(file) == LoadOrCreate(file)

------------------------------------------------------------------------------
UpsertRaceWeekend(rw) == Encode(<<"race_weekends", rw.id>>, rw)
LoadRaceWeekend(id) ==
  LET a == decodeFile(<<"race_weekends", id>>)
  IN  IF a.err = "not exist" THEN Failed("race weekend not found") ELSE a
ListRaceWeekends == Live("race_weekends", LAMBDA file : LoadRaceWeekend(file[2]))
DeleteRaceWeekend(id) == DeleteLoaded(LoadRaceWeekend(id), <<"race_weekends", id>>)

(* loadChampionshipRaceWeekends: a championship is not loaded without the     *)
(* race weekend it holds.                                                     *)
WithWeekend(a) ==
  IF a.err # "" \/ The(a).weekend = "" THEN a
  ELSE IF LoadRaceWeekend(The(a).weekend).err # "" THEN Failed(LoadRaceWeekend(The(a).weekend).err)
  ELSE a

UpsertChampionship(c) == Encode(<<"championships", c.id>>, c)
LoadChampionship(id) == WithWeekend(decodeFile(<<"championships", id>>))
ListChampionships == Live("championships", LAMBDA file : LoadChampionship(file[2]))
DeleteChampionship(id) == DeleteLoaded(LoadChampionship(id), <<"championships", id>>)

------------------------------------------------------------------------------
UpsertLiveFrames(links) == Encode(FrameLinks, links)
ListPrevFrames ==
  LET a == decodeFile(FrameLinks) IN IF a.err = "not exist" THEN Ok({}) ELSE a

(* The file has the name of the account.                                      *)
UpsertAccount(a) == Encode(<<"accounts", a.name>>, a)
FindAccountByName(name) ==
  LET a == decodeFile(<<"accounts", name>>)
  IN  IF a.err = "not exist" THEN Failed("account not found") ELSE a
ListAccounts == Live("accounts", LAMBDA file : FindAccountByName(file[2]))
FindAccountByID(id) ==
  LET found == {a \in ListAccounts.out : a.id = id}
  IN  IF found = {} THEN Failed("account not found") ELSE Ok({CHOOSE a \in found : TRUE})
DeleteAccount(id) ==
  LET a == FindAccountByID(id)
  IN  IF a.err # "" THEN Failed(a.err) ELSE UpsertAccount(DeletedCopy(The(a)))

SetMeta(key, value) == Encode(Meta(key), value)
GetMeta(key) ==
  LET a == decodeFile(Meta(key)) IN IF a.err = "not exist" THEN Failed("value not set") ELSE a

GetAuditEntries == decodeFile(AuditFile)

TrimmedMut(entries) ==
  IF Len(entries) > MaxAuditEntries THEN SubSeq(entries, 1, Len(entries) - AuditDropped) ELSE entries
Trimmed(entries) ==
  IF Len(entries) > MaxAuditEntries THEN SubSeq(entries, AuditDropped + 1, Len(entries)) ELSE entries

AddAuditEntry(entry) ==
  LET a == GetAuditEntries
  IN  IF a.err \notin {"", "not exist"} THEN Failed(a.err)
      ELSE Encode(AuditFile, Trimmed(Append(IF a.err = "" THEN The(a) ELSE <<>>, entry)))

UpsertLiveTimingsData(lt) == Encode(LiveTimings, lt)
LoadLiveTimingsData == decodeFile(LiveTimings)

UpsertLastRaceEvent(r) == Encode(LastRaceEvent, r)
LoadLastRaceEvent == decodeFile(LastRaceEvent)

(* That there is no file is no error.                                         *)
ClearLastRaceEvent == Delete(LastRaceEvent)

==============================================================================
