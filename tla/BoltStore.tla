------------------------------- MODULE BoltStore -------------------------------
(* The store that keeps its records in a bolt database (store_bolt.go).  A    *)
(* record has a bucket and a key; buckets are made by the first transaction   *)
(* that writes to them.  An operation is [err, out, write] as in JSONStore;   *)
(* write is done in one transaction.                                          *)
EXTENDS Integers, Sequences, SequencesExt

CONSTANTS
  Default,         \* the options a new installation has, by key
  MaxAuditEntries, \* maxAuditEntries, 1000 in the program
  AuditDropped     \* entries that go when the log is full, 20 in the program

VARIABLES
  db,      \* the records, by <<bucket, key>>
  buckets  \* buckets there are

Options == <<"serverOptions", "serverOptions">>
FrameLinks == <<"frameLinks", "frameLinks">>
Audit == <<"audit", "audit">>
LiveTimings == <<"liveTimings", "liveTimings">>
LastRaceEvent == <<"liveTimings", "lastRaceEvent">>

Answer(err, out, write) == [err |-> err, out |-> out, write |-> write]
Ok(out) == Answer("", out, <<>>)
Failed(err) == Answer(err, {}, <<>>)
Put(key, data) == Answer("", {}, [k \in {key} |-> {data}])
Erase(key) == Answer("", {}, [k \in {key} |-> {}])

The(answer) == CHOOSE x \in answer.out : TRUE

(* A view of a key: the errors for a bucket that is not there, and for a key. *)
Get(key, noBucket, noKey) ==
  IF key[1] \notin buckets THEN noBucket
  ELSE IF key \in DOMAIN db THEN Ok({db[key]})
  ELSE noKey

BucketNotFound == Failed("bucket not found")

(* ForEach over a bucket; no bucket is no record.                             *)
AllIn(bucket) == {db[key] : key \in {k \in DOMAIN db : k[1] = bucket}}
Live(bucket) == Ok({r \in AllIn(bucket) : ~r.deleted})

DeletedCopy(r) == [r EXCEPT !.deleted = TRUE]
DeleteLoaded(loaded, key) ==
  IF loaded.err # "" THEN Failed(loaded.err) ELSE Put(key, DeletedCopy(The(loaded)))

------------------------------------------------------------------------------
UpsertCustomRace(race) == Put(<<"customRaces", race.id>>, race)
FindCustomRaceByID(id) == Get(<<"customRaces", id>>, BucketNotFound, Failed("custom race not found"))
ListCustomRaces == Live("customRaces")
DeleteCustomRace(race) == UpsertCustomRace(DeletedCopy(race))

(* What only one race says of an entrant is not kept.                         *)
UpsertEntrant(entrant) == Put(<<"entrants", entrant.guid>>, [entrant EXCEPT !.model = ""])
ListEntrants == Ok({AllIn("entrants")})
DeleteEntrant(guid) == Erase(<<"entrants", guid>>)

UpsertServerOptions(so) == Put(Options, so)

(* Without a bucket the defaults are written, without a key they are not.     *)
LoadServerOptions ==
  Get(Options, Answer("", {Default[Options]}, [k \in {Options} |-> {Default[Options]}]), Ok({Default[Options]}))

UpsertPluginOptions(key, options) == Put(key, options)
LoadPluginOptions(key) == Get(key, Answer("bucket not found", {Default[key]}, <<>>), Ok({Default[key]}))

------------------------------------------------------------------------------
UpsertRaceWeekend(rw) == Put(<<"raceWeekends", rw.id>>, rw)
LoadRaceWeekend(id) == Get(<<"raceWeekends", id>>, BucketNotFound, Failed("race weekend not found"))
ListRaceWeekends == Live("raceWeekends")
DeleteRaceWeekend(id) == DeleteLoaded(LoadRaceWeekend(id), <<"raceWeekends", id>>)

WithWeekend(a) ==
  IF a.err # "" \/ The(a).weekend = "" THEN a
  ELSE IF LoadRaceWeekend(The(a).weekend).err # "" THEN Failed(LoadRaceWeekend(The(a).weekend).err)
  ELSE a

UpsertChampionship(c) == Put(<<"championships", c.id>>, c)
LoadChampionship(id) ==
  WithWeekend(Get(<<"championships", id>>, BucketNotFound, Failed("championship not found")))
ListChampionships == Live("championships")
DeleteChampionship(id) == DeleteLoaded(LoadChampionship(id), <<"championships", id>>)

------------------------------------------------------------------------------
UpsertLiveFrames(links) == Put(FrameLinks, links)
ListPrevFrames == Get(FrameLinks, Ok({}), Failed("unexpected end"))

UpsertAccount(a) == Put(<<"accounts", a.name>>, a)
FindAccountByName(name) == Get(<<"accounts", name>>, BucketNotFound, Failed("account not found"))
ListAccounts == Live("accounts")
FindAccountByID(id) ==
  LET found == {a \in ListAccounts.out : a.id = id}
  IN  IF found = {} THEN Failed("account not found") ELSE Ok({CHOOSE a \in found : TRUE})
DeleteAccount(id) ==
  LET a == FindAccountByID(id)
  IN  IF a.err # "" THEN Failed(a.err) ELSE UpsertAccount(DeletedCopy(The(a)))

SetMeta(key, value) == Put(<<"meta", key>>, value)
GetMeta(key) == Get(<<"meta", key>>, Failed("value not set"), Failed("value not set"))

GetAuditEntries == Get(Audit, Failed("value not set"), Failed("value not set"))

Trimmed(entries) ==
  IF Len(entries) > MaxAuditEntries THEN SubSeq(entries, AuditDropped + 1, Len(entries)) ELSE entries

(* Two transactions: the list is read in one and written in another.          *)
AddAuditEntry(entry) ==
  LET a == GetAuditEntries
  IN  IF a.err \notin {"", "value not set"} THEN Failed(a.err)
      ELSE Put(Audit, Trimmed(Append(IF a.err = "" THEN The(a) ELSE <<>>, entry)))

UpsertLiveTimingsData(lt) == Put(LiveTimings, lt)
LoadLiveTimingsData == Get(LiveTimings, BucketNotFound, Ok({}))

UpsertLastRaceEvent(r) == Put(LastRaceEvent, r)
LoadLastRaceEvent == Get(LastRaceEvent, BucketNotFound, Ok({}))
ClearLastRaceEvent == Erase(LastRaceEvent)

==============================================================================
