-------------------------------- MODULE Stores --------------------------------
(* The two stores of the manager side by side (store.go): the same calls, by  *)
(* the same clients in the same order, made of a store of files and of a bolt *)
(* database.  A client reads what its operation needs, and then writes.  The  *)
(* file store creates the file, which empties it, and then writes it, both    *)
(* under its mutex; the database commits a transaction.  The program may      *)
(* crash at any time.                                                         *)
EXTENDS Integers, Sequences, FiniteSets, SequencesExt

CONSTANTS
  Clients,          \* goroutines that use the store
  Ids,              \* of races, championships and race weekends
  People,           \* GUIDs of entrants, names and ids of accounts
  Versions,         \* what else is in a record
  MaxAuditEntries, AuditDropped,
  MaxOps,           \* operations that are begun
  MaxCrashes

ASSUME IdsAssumption == "" \notin Ids
ASSUME LogAssumption ==
  /\ MaxAuditEntries \in Nat /\ AuditDropped \in 1 .. MaxAuditEntries

VARIABLES
  disk, broken,     \* the files
  db, buckets,      \* the database
  client,           \* what each client is about to write
  ops, crashes,
  acked,            \* history: audit entries that were reported to be written
  overlapped,       \* history: files that two clients read and wrote at once
  hurt              \* history: files a crash left empty
storeVars == <<disk, broken, db, buckets, client, ops, crashes, acked, overlapped, hurt>>

PluginFile == <<"base", "stracker_options">>
PluginKey == <<"serverOptions", "strackerOptions">>
DefaultFiles == [f \in {<<"base", "server_options">>, PluginFile} |-> "default"]
DefaultKeys == [k \in {<<"serverOptions", "serverOptions">>, PluginKey} |-> "default"]

J == INSTANCE JSONStore WITH Default <- DefaultFiles
B == INSTANCE BoltStore WITH Default <- DefaultKeys

Idle == [state |-> "idle", err |-> "", json |-> <<>>, bolt |-> <<>>]

StoresInit ==
  /\ disk = <<>> /\ broken = {}
  /\ db = <<>> /\ buckets = {}
  /\ client = [p \in Clients |-> Idle]
  /\ ops = 0 /\ crashes = 0
  /\ acked = <<>> /\ overlapped = {} /\ hurt = {}

(* Nobody holds the mutex to write.                                           *)
UnlockedMut == TRUE
Unlocked == \A p \in Clients : client[p].state # "created"

Quiet == \A p \in Clients : client[p].state = "idle"

------------------------------------------------------------------------------
(* What a client reads, it reads at once; it answers an error without writing.*)
(* What is written after it was read: lists in one file, and default options. *)
Lists(json, bolt) ==
  (DOMAIN json \cap {J!Entrants, J!AuditFile, J!Options, PluginFile})
    \cup (IF \E key \in DOMAIN bolt : key[1] = "entrants" THEN {J!Entrants} ELSE {})

Begin(p, j, b) ==
  /\ client[p].state = "idle" /\ Unlocked /\ ops < MaxOps
  /\ ops' = ops + 1
  /\ client' = [client EXCEPT ![p] = [state |-> "begun", err |-> j.err, json |-> j.write, bolt |-> b.write]]
  /\ overlapped' = overlapped
       \cup (Lists(j.write, b.write) \cap UNION {Lists(client[q].json, client[q].bolt) : q \in Clients})
  /\ UNCHANGED <<disk, broken, db, buckets, crashes, acked, hurt>>

Written(p) == CHOOSE f \in DOMAIN client[p].json : TRUE
Writes(p) == client[p].json # <<>> /\ client[p].json[Written(p)] # {}
Removes(p) == client[p].json # <<>> /\ client[p].json[Written(p)] = {}

Data(write) == CHOOSE d \in UNION Range(write) : TRUE
Except(f, x) == [y \in DOMAIN f \ {x} |-> f[y]]
With(f, x, d) == [y \in DOMAIN f \cup {x} |-> IF y = x THEN d ELSE f[y]]

(* os.Create empties the file.                                                *)
Create(p) ==
  /\ client[p].state = "begun" /\ Unlocked /\ Writes(p)
  /\ client' = [client EXCEPT ![p].state = "created"]
  /\ disk' = Except(disk, Written(p))
  /\ broken' = broken \cup {Written(p)}
  /\ UNCHANGED <<db, buckets, ops, crashes, acked, overlapped, hurt>>

(* The database creates the bucket, puts or deletes, and commits.             *)
Committed(p) ==
  IF client[p].bolt = <<>> THEN UNCHANGED <<db, buckets>>
  ELSE LET key == CHOOSE k \in DOMAIN client[p].bolt : TRUE
       IN  /\ buckets' = buckets \cup {key[1]}
           /\ db' = IF client[p].bolt[key] = {} THEN Except(db, key) ELSE With(db, key, Data(client[p].bolt))

AddsAudit(p) == J!AuditFile \in DOMAIN client[p].json

Finish(p) ==
  /\ client[p].state = (IF Writes(p) THEN "created" ELSE "begun")
  /\ Removes(p) => Unlocked
  /\ client' = [client EXCEPT ![p] = Idle]
  /\ disk' = IF Writes(p) THEN With(disk, Written(p), Data(client[p].json))
             ELSE IF Removes(p) THEN Except(disk, Written(p)) ELSE disk
  /\ broken' = IF Writes(p) \/ Removes(p) THEN broken \ {Written(p)} ELSE broken
  /\ Committed(p)
  /\ acked' = IF AddsAudit(p) THEN Append(acked, Last(Data(client[p].json))) ELSE acked
  /\ UNCHANGED <<ops, crashes, overlapped, hurt>>

(* A file that was created and not written stays empty.                       *)
Crash ==
  /\ crashes < MaxCrashes
  /\ crashes' = crashes + 1
  /\ hurt' = hurt \cup broken
  /\ client' = [p \in Clients |-> Idle]
  /\ UNCHANGED <<disk, broken, db, buckets, ops, acked, overlapped>>

------------------------------------------------------------------------------
(* The calls.  Whoever saves a championship with a race weekend has saved the *)
(* race weekend before.                                                       *)
Record(id, v) == [id |-> id, v |-> v, deleted |-> FALSE]

CustomRace(p) ==
  \E id \in Ids, v \in Versions :
    \/ Begin(p, J!UpsertCustomRace(Record(id, v)), B!UpsertCustomRace(Record(id, v)))
    \/ Begin(p, J!DeleteCustomRace(Record(id, v)), B!DeleteCustomRace(Record(id, v)))

SavedEntrant(p) ==
  \E g \in People :
    \/ \E v \in Versions :
         LET e == [guid |-> g, v |-> v, model |-> "car"] IN Begin(p, J!UpsertEntrant(e), B!UpsertEntrant(e))
    \/ Begin(p, J!DeleteEntrant(g), B!DeleteEntrant(g))

ServerOptions(p) ==
  \/ \E v \in Versions : Begin(p, J!UpsertServerOptions(v), B!UpsertServerOptions(v))
  \/ Begin(p, J!LoadServerOptions, B!LoadServerOptions)
  \/ \E v \in Versions : Begin(p, J!UpsertPluginOptions(PluginFile, v), B!UpsertPluginOptions(PluginKey, v))
  \/ Begin(p, J!LoadPluginOptions(PluginFile), B!LoadPluginOptions(PluginKey))

RaceWeekend(p) ==
  \E id \in Ids :
    \/ Begin(p, J!UpsertRaceWeekend(Record(id, 1)), B!UpsertRaceWeekend(Record(id, 1)))
    \/ Begin(p, J!DeleteRaceWeekend(id), B!DeleteRaceWeekend(id))

Championship(p) ==
  \E id \in Ids :
    \/ \E w \in {""} \cup {i \in Ids : B!LoadRaceWeekend(i).err = ""} :
         LET c == [id |-> id, v |-> 1, deleted |-> FALSE, weekend |-> w]
         IN  Begin(p, J!UpsertChampionship(c), B!UpsertChampionship(c))
    \/ Begin(p, J!DeleteChampionship(id), B!DeleteChampionship(id))

Account(p) ==
  \/ \E name, id \in People :
       LET a == [id |-> id, v |-> 1, deleted |-> FALSE, name |-> name]
       IN  Begin(p, J!UpsertAccount(a), B!UpsertAccount(a))
  \/ \E id \in People : Begin(p, J!DeleteAccount(id), B!DeleteAccount(id))

SmallRecord(p) ==
  \/ Begin(p, J!UpsertLiveFrames(1), B!UpsertLiveFrames(1))
  \/ Begin(p, J!SetMeta("version", 1), B!SetMeta("version", 1))
  \/ Begin(p, J!UpsertLiveTimingsData(1), B!UpsertLiveTimingsData(1))
  \/ Begin(p, J!UpsertLastRaceEvent(1), B!UpsertLastRaceEvent(1))
  \/ Begin(p, J!ClearLastRaceEvent, B!ClearLastRaceEvent)

AuditEntry(p) == Begin(p, J!AddAuditEntry(ops), B!AddAuditEntry(ops))

StoresNext ==
  \/ \E p \in Clients : \/ CustomRace(p) \/ SavedEntrant(p) \/ ServerOptions(p) \/ RaceWeekend(p)
                        \/ Championship(p) \/ Account(p) \/ SmallRecord(p) \/ AuditEntry(p)
                        \/ Create(p) \/ Finish(p)
  \/ Crash

StoresSpec == StoresInit /\ [][StoresNext]_storeVars

------------------------------------------------------------------------------
(* An answer of one store is an answer of the other, unless a crash emptied   *)
(* the file (or one that the record needs): they fail together, and what they *)
(* return is the same.  Named differences: the file store never               *)
(* changes an entrant that it has, so that only the GUIDs agree; it loses     *)
(* entrants that two clients save at once, and options saved while others     *)
(* load the defaults; the database has no plugin options to load at first;    *)
(* what was never saved is an error for the one and nothing for the other.    *)
Same(j, b) == (j.err = "") = (b.err = "") /\ j.out = b.out

Unhurt(dirs) == \A f \in hurt : f[1] \notin dirs

SameEntrants ==
  LET guids(answer, elements(_)) == {e.guid : e \in elements(J!The(answer))}
  IN  {J!Entrants} \cap (hurt \cup overlapped) = {} =>
        guids(J!ListEntrants, Range) = guids(B!ListEntrants, LAMBDA x : x)

SameAnswers ==
  Quiet =>
    /\ \A id \in Ids :
         /\ <<"custom_races", id>> \notin hurt => Same(J!FindCustomRaceByID(id), B!FindCustomRaceByID(id))
         /\ <<"race_weekends", id>> \notin hurt => Same(J!LoadRaceWeekend(id), B!LoadRaceWeekend(id))
         /\ Unhurt({"championships", "race_weekends"}) => Same(J!LoadChampionship(id), B!LoadChampionship(id))
    /\ {r \in J!ListCustomRaces.out : <<"custom_races", r.id>> \notin hurt}
         = {r \in B!ListCustomRaces.out : <<"custom_races", r.id>> \notin hurt}
    /\ {r \in J!ListRaceWeekends.out : <<"race_weekends", r.id>> \notin hurt}
         = {r \in B!ListRaceWeekends.out : <<"race_weekends", r.id>> \notin hurt}
    /\ Unhurt({"championships", "race_weekends"}) => Same(J!ListChampionships, B!ListChampionships)
    /\ Unhurt({"accounts"}) =>
         /\ Same(J!ListAccounts, B!ListAccounts)
         /\ \A x \in People : /\ Same(J!FindAccountByName(x), B!FindAccountByName(x))
                              /\ Same(J!FindAccountByID(x), B!FindAccountByID(x))
    /\ SameEntrants
    /\ J!Options \notin hurt \cup overlapped => Same(J!LoadServerOptions, B!LoadServerOptions)
    /\ PluginFile \notin hurt \cup overlapped =>
         J!LoadPluginOptions(PluginFile).out = B!LoadPluginOptions(PluginKey).out
    /\ J!FrameLinks \notin hurt => Same(J!ListPrevFrames, B!ListPrevFrames)
    /\ J!Meta("version") \notin hurt => Same(J!GetMeta("version"), B!GetMeta("version"))
    /\ J!LiveTimings \notin hurt => J!LoadLiveTimingsData.out = B!LoadLiveTimingsData.out
    /\ J!LastRaceEvent \notin hurt => J!LoadLastRaceEvent.out = B!LoadLastRaceEvent.out

(* The audit log holds the latest of the entries that were reported to be     *)
(* written, in their order and without a gap, and never fewer than what a     *)
(* full log keeps.  Two requests at once lose one of their entries, in both   *)
(* stores.                                                                    *)
AuditLogComplete ==
  LET log(a) == IF a.err = "" THEN J!The(a) ELSE <<>>
      least == IF Len(acked) > MaxAuditEntries THEN MaxAuditEntries + 1 - AuditDropped ELSE Len(acked)
      complete(entries) == IsSuffix(entries, acked) /\ Len(entries) \in least .. MaxAuditEntries
  IN  Quiet /\ J!AuditFile \notin overlapped =>
        /\ J!AuditFile \notin hurt => complete(log(J!GetAuditEntries))
        /\ hurt = {} => complete(log(B!GetAuditEntries))

(* Nobody reads a file that is being written: a half written file is met only *)
(* after a crash, and each crash leaves one at most.                          *)
HalfFilesOnlyAfterCrash ==
  /\ \A p \in Clients : client[p].err = "EOF" => hurt # {}
  /\ Cardinality(hurt) <= crashes

\* What is written to a store is found in it again, for both kinds of stores.
EntriesKept == AuditLogComplete /\ HalfFilesOnlyAfterCrash
==============================================================================
