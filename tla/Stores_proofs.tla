---------------------------- MODULE Stores_proofs ----------------------------
(* For any clients, records and accounts: the two stores give the same answers and *)
(* lose nothing that was reported to be written; what administrators decide about  *)
(* accounts stands, and an administrator who can log in remains.                    *)
EXTENDS Stores, Accounts, FiniteSetTheorems, SequenceTheorems, WellFoundedInduction, TLAPS

------------------------------------------------------------------------------
(* Stores: what a client is about to write is one record at most.             *)

WriteFits(w) == w = <<>> \/ \E x, d : w = [y \in {x} |-> d] /\ (d = {} \/ \E v : d = {v})

ClientFits(c) ==
  /\ c = [state |-> c.state, err |-> c.err, json |-> c.json, bolt |-> c.bolt]
  /\ c.state \in {"idle", "begun", "created"}
  /\ WriteFits(c.json) /\ WriteFits(c.bolt)
  /\ c.state = "idle" => c = Idle
  /\ c.state = "created" => \E f \in DOMAIN c.json : c.json[f] # {}

\* What new is after w was written to old.
Applied(new, old, w) ==
  /\ \A x : x \in DOMAIN new <=> IF x \in DOMAIN w THEN w[x] # {} ELSE x \in DOMAIN old
  /\ \A x \in DOMAIN new : IF x \in DOMAIN w THEN w[x] = {new[x]} ELSE new[x] = old[x]

\* Files are broken by a crash, or because a client is writing them; who writes is alone.
ClientsFit ==
  /\ client = [p \in Clients |-> client[p]]
  /\ \A p \in Clients : ClientFits(client[p])
  /\ \A p, q \in Clients : client[p].state = "created" /\ client[q].state = "created" => p = q
  /\ \A f \in broken : f \in hurt \/ \E p \in Clients : client[p].state = "created" /\ f \in DOMAIN client[p].json
  /\ ops \in Nat

CrashesFit ==
  /\ crashes \in Nat /\ IsFiniteSet(hurt) /\ Cardinality(hurt) <= crashes
  /\ \A p \in Clients : client[p].err = "EOF" => hurt # {}

LEMMA EmptyWrite == DOMAIN <<>> = {} /\ WriteFits(<<>>)
  BY DEF WriteFits

LEMMA WriteIs ==
  ASSUME NEW w, WriteFits(w)
  PROVE  /\ \A x, y \in DOMAIN w : x = y
         /\ \A x \in DOMAIN w : w[x] # {} => \E v : w[x] = {v}
         /\ w = <<>> <=> DOMAIN w = {}
         /\ \A x \in DOMAIN w : \A v : w[x] = {v} => Data(w) = v
  <1>1. CASE w = <<>>
    BY <1>1, EmptyWrite
  <1>2. CASE \E x, d : w = [y \in {x} |-> d] /\ (d = {} \/ \E v : d = {v})
    <2>1. PICK x, d : w = [y \in {x} |-> d] /\ (d = {} \/ \E v : d = {v})
      BY <1>2
    <2>2. DOMAIN w = {x} /\ w[x] = d /\ Range(w) = {d}
      BY <2>1 DEF Range
    <2>3. w # <<>>
      BY <2>2, EmptyWrite
    <2>4. ASSUME NEW v, d = {v} PROVE Data(w) = v
      <3>1. UNION Range(w) = {v}
        BY <2>2, <2>4
      <3> QED
        BY <3>1 DEF Data
    <2> QED
      BY <2>1, <2>2, <2>3, <2>4
  <1> QED
    BY <1>1, <1>2 DEF WriteFits

LEMMA JsonWrite ==
  ASSUME NEW p \in Clients, ClientFits(client[p])
  PROVE  /\ \A f \in DOMAIN client[p].json : Written(p) = f
         /\ Writes(p) <=> \E f \in DOMAIN client[p].json : client[p].json[f] # {}
         /\ Removes(p) <=> \E f \in DOMAIN client[p].json : client[p].json[f] = {}
  <1> DEFINE w == client[p].json
  <1>1. WriteFits(w)
    BY DEF ClientFits
  <1> HIDE DEF w
  <1>2. ASSUME NEW f \in DOMAIN w PROVE (CHOOSE g \in DOMAIN w : TRUE) = f
    BY <1>1, <1>2, WriteIs
  <1>3. w # <<>> <=> \E f \in DOMAIN w : TRUE
    BY <1>1, WriteIs
  <1> QED
    BY <1>2, <1>3 DEF w, Written, Writes, Removes

\* The end of a call, in both stores.
LEMMA FinishIs ==
  ASSUME ClientsFit, NEW p \in Clients, Finish(p)
  PROVE  /\ Applied(disk', disk, client[p].json) /\ broken' = broken \ DOMAIN client[p].json
         /\ Applied(db', db, client[p].bolt)
         /\ buckets' = buckets \cup {k[1] : k \in DOMAIN client[p].bolt}
         /\ client' = [client EXCEPT ![p] = Idle]
         /\ \A f \in DOMAIN client[p].json : \A v : client[p].json[f] = {v} => Data(client[p].json) = v
  <1> DEFINE j == client[p].json
             b == client[p].bolt
  <1>1. WriteFits(j) /\ WriteFits(b) /\ ClientFits(client[p])
    BY DEF ClientsFit, ClientFits
  <1>2. /\ \A f \in DOMAIN j : Written(p) = f
        /\ Writes(p) <=> \E f \in DOMAIN j : j[f] # {}
        /\ Removes(p) <=> \E f \in DOMAIN j : j[f] = {}
    BY <1>1, JsonWrite
  <1>3. /\ disk' = IF Writes(p) THEN With(disk, Written(p), Data(j))
                   ELSE IF Removes(p) THEN Except(disk, Written(p)) ELSE disk
        /\ broken' = IF Writes(p) \/ Removes(p) THEN broken \ {Written(p)} ELSE broken
        /\ client' = [client EXCEPT ![p] = Idle]
    BY DEF Finish
  <1>4. IF b = <<>> THEN UNCHANGED <<db, buckets>>
        ELSE LET key == CHOOSE k \in DOMAIN b : TRUE
             IN  /\ buckets' = buckets \cup {key[1]}
                 /\ db' = IF b[key] = {} THEN Except(db, key) ELSE With(db, key, Data(b))
    BY DEF Finish, Committed
  <1>5. /\ \A x, y \in DOMAIN j : x = y
        /\ \A x \in DOMAIN j : j[x] # {} => \E v : j[x] = {v}
        /\ \A x \in DOMAIN j : \A v : j[x] = {v} => Data(j) = v
    BY <1>1, WriteIs
  <1>6. /\ \A x, y \in DOMAIN b : x = y
        /\ \A x \in DOMAIN b : b[x] # {} => \E v : b[x] = {v}
        /\ b = <<>> <=> DOMAIN b = {}
        /\ \A x \in DOMAIN b : \A v : b[x] = {v} => Data(b) = v
    BY <1>1, WriteIs
  <1> HIDE DEF j, b
  <1>7. Applied(disk', disk, j) /\ broken' = broken \ DOMAIN j
    <2>1. CASE DOMAIN j = {}
      BY <1>2, <1>3, <2>1 DEF Applied
    <2>2. CASE DOMAIN j # {}
      <3>1. PICK f \in DOMAIN j : TRUE
        BY <2>2
      <3>2. DOMAIN j = {f} /\ Written(p) = f
        BY <1>2, <1>5, <3>1
      <3>3. CASE j[f] = {}
        <4>1. disk' = Except(disk, f) /\ broken' = broken \ {f}
          BY <1>2, <1>3, <3>2, <3>3
        <4> QED
          BY <3>2, <3>3, <4>1 DEF Applied, With, Except
      <3>4. CASE j[f] # {}
        <4>1. PICK v : j[f] = {v} /\ Data(j) = v
          BY <1>5, <3>1, <3>4
        <4>2. disk' = With(disk, f, v) /\ broken' = broken \ {f}
          BY <1>2, <1>3, <3>2, <3>4, <4>1
        <4> QED
          BY <3>2, <3>4, <4>1, <4>2 DEF Applied, With, Except
      <3> QED
        BY <3>3, <3>4
    <2> QED
      BY <2>1, <2>2
  <1>8. Applied(db', db, b) /\ buckets' = buckets \cup {k[1] : k \in DOMAIN b}
    <2>1. CASE DOMAIN b = {}
      <3>1. db' = db /\ buckets' = buckets
        BY <1>4, <1>6, <2>1
      <3> QED
        BY <2>1, <3>1 DEF Applied
    <2>2. CASE DOMAIN b # {}
      <3>1. PICK k \in DOMAIN b : TRUE
        BY <2>2
      <3>2. DOMAIN b = {k} /\ (CHOOSE x \in DOMAIN b : TRUE) = k /\ b # <<>>
        BY <1>6, <3>1
      <3>3. buckets' = buckets \cup {k[1]} /\ db' = IF b[k] = {} THEN Except(db, k) ELSE With(db, k, Data(b))
        BY <1>4, <3>2
      <3>4. CASE b[k] = {}
        BY <3>2, <3>3, <3>4 DEF Applied, With, Except
      <3>5. CASE b[k] # {}
        <4>1. PICK v : b[k] = {v} /\ Data(b) = v
          BY <1>6, <3>1, <3>5
        <4> QED
          BY <3>2, <3>3, <3>5, <4>1 DEF Applied, With, Except
      <3> QED
        BY <3>4, <3>5
    <2> QED
      BY <2>1, <2>2
  <1> QED
    BY <1>3, <1>5, <1>7, <1>8 DEF j, b

\* A file is emptied.
LEMMA CreateIs ==
  ASSUME ClientsFit, NEW p \in Clients, Create(p)
  PROVE  \E f \in DOMAIN client[p].json :
           /\ client[p].json[f] # {} /\ broken' = broken \cup {f}
           /\ DOMAIN disk' = DOMAIN disk \ {f} /\ \A g \in DOMAIN disk' : disk'[g] = disk[g]
           /\ client' = [client EXCEPT ![p] = [@ EXCEPT !.state = "created"]]
           /\ \A q \in Clients : /\ client'[q].json = client[q].json /\ client'[q].bolt = client[q].bolt
                                 /\ client'[q].err = client[q].err
                                 /\ client'[q].state = IF q = p THEN "created" ELSE client[q].state
  <1>1. ClientFits(client[p]) /\ Writes(p)
    BY DEF ClientsFit, Create
  <1>2. PICK f \in DOMAIN client[p].json : client[p].json[f] # {} /\ Written(p) = f
    BY <1>1, JsonWrite
  <1>3. /\ broken' = broken \cup {f} /\ disk' = Except(disk, f)
        /\ client' = [client EXCEPT ![p].state = "created"]
    BY <1>2 DEF Create
  <1>4. DOMAIN disk' = DOMAIN disk \ {f} /\ \A g \in DOMAIN disk' : disk'[g] = disk[g]
    BY <1>3 DEF Except
  <1>5. client = [q \in Clients |-> client[q]] /\ \A q \in Clients : ClientFits(client[q])
    BY DEF ClientsFit
  <1>6. ASSUME NEW q \in Clients
        PROVE  client'[q] = IF q = p THEN [client[p] EXCEPT !.state = "created"] ELSE client[q]
    BY <1>3, <1>5
  <1>7. client[p] = [state |-> client[p].state, err |-> client[p].err, json |-> client[p].json, bolt |-> client[p].bolt]
    BY <1>5 DEF ClientFits
  <1>8. [client[p] EXCEPT !.state = "created"] = [state |-> "created", err |-> client[p].err, json |-> client[p].json, bolt |-> client[p].bolt]
    BY <1>7
  <1> QED
    BY <1>2, <1>3, <1>4, <1>6, <1>8

LEMMA BeginIs ==
  ASSUME ClientsFit, NEW p \in Clients, NEW j, NEW b, Begin(p, j, b)
  PROVE  /\ client' = [client EXCEPT ![p] = [state |-> "begun", err |-> j.err, json |-> j.write, bolt |-> b.write]]
         /\ client'[p] = [state |-> "begun", err |-> j.err, json |-> j.write, bolt |-> b.write]
         /\ \A q \in Clients \ {p} : client'[q] = client[q]
         /\ Unlocked /\ broken \subseteq hurt /\ client[p] = Idle
         /\ UNCHANGED <<disk, broken, db, buckets, crashes, acked, hurt>>
  BY DEF Begin, ClientsFit, ClientFits, Unlocked

------------------------------------------------------------------------------
(* What the one store has the other has.                                      *)

Directories ==
  {<<"custom_races", "customRaces">>, <<"race_weekends", "raceWeekends">>,
   <<"championships", "championships">>, <<"accounts", "accounts">>, <<"meta", "meta">>}

\* A file and the key of the same record.
Corresponds(f, k) ==
  \/ \E m \in Directories : \E x : f = <<m[1], x>> /\ k = <<m[2], x>>
  \/ f = J!FrameLinks /\ k = B!FrameLinks
  \/ f = J!LiveTimings /\ k = B!LiveTimings
  \/ f = J!LastRaceEvent /\ k = B!LastRaceEvent

\* No crash came between the stores: championships also read race weekends, and an account
\* is looked for among all.
Clean(f) ==
  /\ f \notin hurt
  /\ f[1] = "championships" => Unhurt({"championships", "race_weekends"})
  /\ f[1] = "accounts" => Unhurt({"accounts"})

SameIn(new, old, f, k) == (f \in DOMAIN new <=> k \in DOMAIN old) /\ (f \in DOMAIN new => new[f] = old[k])

RecordsSame == \A f, k : Corresponds(f, k) /\ Clean(f) /\ f \notin broken => SameIn(disk, db, f, k)
WritesSame(j, b) == \A f, k : Corresponds(f, k) /\ Clean(f) => SameIn(j, b, f, k)

\* Records have names; a bucket is there for what is in it.
HaveNames(S) == \A f \in S : \E d, x : f = <<d, x>>
NamesFit ==
  /\ HaveNames(DOMAIN disk) /\ HaveNames(broken) /\ HaveNames(DOMAIN db)
  /\ \A k \in DOMAIN db : k[1] \in buckets
  /\ "frameLinks" \in buckets => B!FrameLinks \in DOMAIN db
  /\ J!Options \in DOMAIN disk => "serverOptions" \in buckets
WritesNamed(j, b) ==
  /\ HaveNames(DOMAIN j) /\ HaveNames(DOMAIN b)
  /\ \A k \in DOMAIN b : k[1] = "frameLinks" => k = B!FrameLinks /\ b[k] # {}
  /\ J!Options \in DOMAIN j => B!Options \in DOMAIN b \/ "serverOptions" \in buckets

\* Races and race weekends have the id of their file, championships a race weekend that is there.
IdFits(x, r) == r = [id |-> x, v |-> r.v, deleted |-> r.deleted]
WeekendFits(r) ==
  /\ r = [id |-> r.id, v |-> r.v, deleted |-> r.deleted, weekend |-> r.weekend]
  /\ r.weekend = "" \/ <<"raceWeekends", r.weekend>> \in DOMAIN db
RecordsFit ==
  /\ \A x : <<"custom_races", x>> \in DOMAIN disk => IdFits(x, disk[<<"custom_races", x>>])
  /\ \A x : <<"race_weekends", x>> \in DOMAIN disk => IdFits(x, disk[<<"race_weekends", x>>])
  /\ \A x : <<"customRaces", x>> \in DOMAIN db => IdFits(x, db[<<"customRaces", x>>])
  /\ \A x : <<"raceWeekends", x>> \in DOMAIN db => IdFits(x, db[<<"raceWeekends", x>>])
  /\ \A x : <<"championships", x>> \in DOMAIN disk => WeekendFits(disk[<<"championships", x>>])
WritesFit(j, b) ==
  /\ \A x, r : <<"custom_races", x>> \in DOMAIN j /\ j[<<"custom_races", x>>] = {r} => IdFits(x, r)
  /\ \A x, r : <<"race_weekends", x>> \in DOMAIN j /\ j[<<"race_weekends", x>>] = {r} => IdFits(x, r)
  /\ \A x, r : <<"customRaces", x>> \in DOMAIN b /\ b[<<"customRaces", x>>] = {r} => IdFits(x, r)
  /\ \A x, r : <<"raceWeekends", x>> \in DOMAIN b /\ b[<<"raceWeekends", x>>] = {r} => IdFits(x, r)
  /\ \A x : <<"raceWeekends", x>> \in DOMAIN b => b[<<"raceWeekends", x>>] # {}
  /\ \A x, r : <<"championships", x>> \in DOMAIN j /\ j[<<"championships", x>>] = {r} => WeekendFits(r)

\* Lists and default options: one client at a time, unless they overlapped.
ListsOf(p) == Lists(client[p].json, client[p].bolt)
OneLister == \A f : f \notin overlapped => \A p, q \in Clients : f \in ListsOf(p) /\ f \in ListsOf(q) => p = q

ValueIn(f, x, default) == IF x \in DOMAIN f THEN f[x] ELSE default
OptionsAgree(f, k) ==
  f \notin hurt \cup overlapped /\ f \notin broken => ValueIn(disk, f, "default") = ValueIn(db, k, "default")
OptionsWritten(j, b, f, k) ==
  f \notin hurt \cup overlapped =>
    /\ f \notin DOMAIN j => k \notin DOMAIN b
    /\ f \in DOMAIN j => /\ j[f] # {}
                         /\ IF k \in DOMAIN b THEN b[k] = j[f] ELSE j[f] = {ValueIn(db, k, "default")}
OptionsSame == OptionsAgree(J!Options, B!Options) /\ OptionsAgree(PluginFile, PluginKey)
WritesOptions(j, b) == OptionsWritten(j, b, J!Options, B!Options) /\ OptionsWritten(j, b, PluginFile, PluginKey)

\* Entrants are listed once.
Entrant == [guid : People, v : Versions, model : {"car"}]
ListFits(s) == s \in Seq(Entrant) /\ \A m, n \in DOMAIN s : s[m].guid = s[n].guid => m = n
Guids(s) == {s[i].guid : i \in DOMAIN s}
Listed == Guids(ValueIn(disk, J!Entrants, <<>>))
EntrantsSame ==
  /\ J!Entrants \in DOMAIN disk => ListFits(disk[J!Entrants])
  /\ \A g : <<"entrants", g>> \in DOMAIN db => db[<<"entrants", g>>].guid = g
  /\ J!Entrants \notin hurt \cup overlapped /\ J!Entrants \notin broken =>
       \A g : g \in Listed <=> <<"entrants", g>> \in DOMAIN db
WritesEntrants(j, b) ==
  /\ J!Entrants \in DOMAIN j => \E s : j[J!Entrants] = {s} /\ ListFits(s)
  /\ \A g : <<"entrants", g>> \in DOMAIN b /\ b[<<"entrants", g>>] # {} => \E e : b[<<"entrants", g>>] = {e} /\ e.guid = g
  /\ J!Entrants \notin hurt \cup overlapped /\ J!Entrants \in Lists(j, b) =>
       \A g : g \in (IF J!Entrants \in DOMAIN j THEN UNION {Guids(s) : s \in j[J!Entrants]} ELSE Listed) <=>
                IF <<"entrants", g>> \in DOMAIN b THEN b[<<"entrants", g>>] # {} ELSE <<"entrants", g>> \in DOMAIN db

\* The log has the latest entries.
Ends(s, t) == Len(s) <= Len(t) /\ \A i \in 1 .. Len(s) : s[i] = t[(Len(t) - Len(s)) + i]
Least(t) == IF Len(t) > MaxAuditEntries THEN MaxAuditEntries + 1 - AuditDropped ELSE Len(t)
Complete(s, t) == s \in Seq(Nat) /\ Ends(s, t) /\ Least(t) <= Len(s) /\ Len(s) <= MaxAuditEntries
AuditKept ==
  /\ acked \in Seq(Nat)
  /\ J!AuditFile \in DOMAIN disk => disk[J!AuditFile] \in Seq(Nat)
  /\ B!Audit \in DOMAIN db => db[B!Audit] \in Seq(Nat)
  /\ J!AuditFile \notin overlapped =>
       /\ J!AuditFile \notin hurt /\ J!AuditFile \notin broken => Complete(ValueIn(disk, J!AuditFile, <<>>), acked)
       /\ hurt = {} => Complete(ValueIn(db, B!Audit, <<>>), acked)
EntryOf(s) == s \in Seq(Nat) /\ Len(s) > 0
WritesAudit(j, b) ==
  /\ J!AuditFile \in DOMAIN j => \E s : j[J!AuditFile] = {s} /\ EntryOf(s)
  /\ B!Audit \in DOMAIN b => \E s : b[B!Audit] = {s} /\ EntryOf(s)
  /\ J!AuditFile \notin overlapped =>
       /\ J!AuditFile \notin hurt => \A s : J!AuditFile \in DOMAIN j /\ j[J!AuditFile] = {s} => Complete(s, Append(acked, Last(s)))
       /\ hurt = {} => /\ J!AuditFile \in DOMAIN j <=> B!Audit \in DOMAIN b
                       /\ \A s, t : J!AuditFile \in DOMAIN j /\ j[J!AuditFile] = {s} /\ b[B!Audit] = {t} =>
                            Last(s) = Last(t) /\ Complete(t, Append(acked, Last(t)))

WritesSound(j, b) ==
  /\ WriteFits(j) /\ WriteFits(b) /\ WritesNamed(j, b) /\ WritesSame(j, b) /\ WritesFit(j, b)
  /\ WritesOptions(j, b) /\ WritesEntrants(j, b) /\ WritesAudit(j, b)

StoresInv ==
  /\ ClientsFit /\ CrashesFit /\ OneLister
  /\ NamesFit /\ RecordsSame /\ RecordsFit /\ OptionsSame /\ EntrantsSame /\ AuditKept
  /\ \A p \in Clients : \A j, b : j = client[p].json /\ b = client[p].bolt => WritesSound(j, b)

------------------------------------------------------------------------------
(* Names *)

LEMMA OnePartner ==
  ASSUME NEW f, NEW k, NEW g, NEW l, Corresponds(f, k), Corresponds(g, l)
  PROVE  f = g <=> k = l
  BY DEF Corresponds, Directories, J!FrameLinks, B!FrameLinks, J!LiveTimings, B!LiveTimings, J!LastRaceEvent, B!LastRaceEvent

LEMMA OtherNames ==
  ASSUME NEW f, NEW k, Corresponds(f, k)
  PROVE  /\ f \notin {J!Options, PluginFile, J!Entrants, J!AuditFile}
         /\ k \notin {B!Options, PluginKey, B!Audit} /\ \A g : k # <<"entrants", g>> /\ k[1] # "entrants"
  BY DEF Corresponds, Directories, J!FrameLinks, B!FrameLinks, J!LiveTimings, B!LiveTimings, J!LastRaceEvent, B!LastRaceEvent,
         J!Options, PluginFile, J!Entrants, J!AuditFile, B!Options, PluginKey, B!Audit

LEMMA LogLimits == MaxAuditEntries \in Nat /\ AuditDropped \in Nat /\ AuditDropped >= 1 /\ AuditDropped <= MaxAuditEntries
  BY LogAssumption

LEMMA NoWriteSound ==
  WritesSound(<<>>, <<>>)
  <1>1. J!Entrants \notin Lists(<<>>, <<>>)
    BY EmptyWrite DEF Lists
  <1> QED
    BY <1>1, EmptyWrite DEF WritesSound, WritesNamed, HaveNames, WritesSame, SameIn, WritesFit, WritesOptions, OptionsWritten, WritesEntrants, WritesAudit

LEMMA IdleIs ==
  /\ Idle.state = "idle" /\ Idle.err = "" /\ Idle.json = <<>> /\ Idle.bolt = <<>>
  /\ Idle = [state |-> Idle.state, err |-> Idle.err, json |-> Idle.json, bolt |-> Idle.bolt]
  BY DEF Idle

\* At the start everything is empty.
LEMMA StoresStart == StoresInit => StoresInv
  <1> SUFFICES ASSUME StoresInit PROVE StoresInv
    OBVIOUS
  <1>1. disk = <<>> /\ broken = {} /\ db = <<>> /\ buckets = {} /\ ops = 0 /\ crashes = 0 /\ acked = <<>> /\ hurt = {}
    BY DEF StoresInit
  <1>2. \A p \in Clients : client[p] = Idle
    BY DEF StoresInit
  <1>3. client = [p \in Clients |-> client[p]]
    BY DEF StoresInit
  <1>4. ClientsFit
    BY <1>1, <1>2, <1>3, EmptyWrite, IdleIs DEF ClientsFit, ClientFits
  <1>5. CrashesFit
    <2>1. IsFiniteSet(hurt) /\ Cardinality(hurt) = 0
      BY <1>1, FS_EmptySet
    <2>2. \A p \in Clients : client[p].err # "EOF"
      BY <1>2, IdleIs
    <2> QED
      BY <1>1, <2>1, <2>2 DEF CrashesFit
  <1>6. OneLister
    BY <1>2, EmptyWrite, IdleIs DEF OneLister, ListsOf, Lists
  <1>7. NamesFit /\ RecordsSame /\ RecordsFit /\ OptionsSame
    BY <1>1, EmptyWrite DEF NamesFit, HaveNames, RecordsSame, SameIn, RecordsFit, OptionsSame, OptionsAgree, ValueIn
  <1>8. EntrantsSame
    BY <1>1, EmptyWrite DEF EntrantsSame, Listed, Guids, ValueIn
  <1>9. Complete(<<>>, <<>>)
    <2> DEFINE e == <<>>
    <2>1. Len(e) = 0 /\ e \in Seq(Nat)
      OBVIOUS
    <2> HIDE DEF e
    <2>2. Ends(e, e)
      BY <2>1 DEF Ends
    <2>3. Least(e) = 0 /\ 0 <= MaxAuditEntries
      BY <2>1, LogLimits DEF Least
    <2>4. Complete(e, e)
      BY <2>1, <2>2, <2>3 DEF Complete
    <2> QED
      BY <2>4 DEF e
  <1>10. AuditKept
    BY <1>1, <1>9, EmptyWrite DEF AuditKept, ValueIn
  <1> QED
    BY <1>2, <1>4, <1>5, <1>6, <1>7, <1>8, <1>10, IdleIs, NoWriteSound DEF StoresInv

------------------------------------------------------------------------------
(* A call begins *)

LEMMA SoundStays ==
  ASSUME NEW j, NEW b, WritesSound(j, b), UNCHANGED <<disk, broken, db, buckets, crashes, acked, hurt>>,
         overlapped \subseteq overlapped'
  PROVE  WritesSound(j, b)'
  <1>1. WritesNamed(j, b)' /\ WritesSame(j, b)' /\ WritesFit(j, b)'
    BY DEF WritesSound, WritesNamed, WritesSame, Clean, Unhurt, WritesFit, WeekendFits
  <1>2. WritesOptions(j, b)'
    BY DEF WritesSound, WritesOptions, OptionsWritten
  <1>3. WritesEntrants(j, b)'
    BY DEF WritesSound, WritesEntrants, Listed
  <1>4. WritesAudit(j, b)'
    BY DEF WritesSound, WritesAudit
  <1> QED
    BY <1>1, <1>2, <1>3, <1>4 DEF WritesSound

OpFits(j, b) == (j.err = "EOF" => broken # {}) /\ WritesSound(j.write, b.write)

LEMMA BeginKeeps ==
  ASSUME StoresInv, NEW p \in Clients, NEW j, NEW b, Begin(p, j, b), OpFits(j, b)
  PROVE  StoresInv'
  <1>1. /\ client' = [client EXCEPT ![p] = [state |-> "begun", err |-> j.err, json |-> j.write, bolt |-> b.write]]
        /\ client'[p] = [state |-> "begun", err |-> j.err, json |-> j.write, bolt |-> b.write]
        /\ \A q \in Clients \ {p} : client'[q] = client[q]
        /\ broken \subseteq hurt /\ client[p] = Idle
        /\ UNCHANGED <<disk, broken, db, buckets, crashes, acked, hurt>>
    BY BeginIs DEF StoresInv
  <1>2. /\ overlapped' = overlapped \cup (Lists(j.write, b.write) \cap UNION {ListsOf(q) : q \in Clients})
        /\ ops' = ops + 1
    BY DEF Begin, ListsOf
  <1>3. WriteFits(j.write) /\ WriteFits(b.write)
    BY DEF OpFits, WritesSound
  <1>4. ClientsFit'
    <2>1. ClientFits(client[p])'
      BY <1>1, <1>3 DEF ClientFits
    <2>2. ASSUME NEW q \in Clients, q # p PROVE ClientFits(client[q])'
      <3>1. ClientFits(client[q]) /\ client'[q] = client[q]
        BY <1>1, <2>2 DEF StoresInv, ClientsFit
      <3> QED
        BY <3>1 DEF ClientFits
    <2> QED
      BY <1>1, <1>2, <2>1, <2>2 DEF StoresInv, ClientsFit
  <1>5. CrashesFit'
    BY <1>1 DEF StoresInv, CrashesFit, OpFits
  <1>6. OneLister'
    <2>1. SUFFICES ASSUME NEW f, f \notin overlapped', NEW q \in Clients, NEW r \in Clients, f \in ListsOf(q)', f \in ListsOf(r)'
                   PROVE  q = r
      BY DEF OneLister
    <2>2. \A x \in Clients \ {p} : ListsOf(x)' = ListsOf(x)
      BY <1>1 DEF ListsOf, Lists
    <2>3. ListsOf(p)' = Lists(j.write, b.write)
      BY <1>1 DEF ListsOf, Lists
    <2>4. CASE q # p /\ r # p
      BY <1>2, <2>1, <2>2, <2>4 DEF StoresInv, OneLister
    <2>5. CASE q = p /\ r # p
      BY <1>2, <2>1, <2>2, <2>3, <2>5
    <2>6. CASE q # p /\ r = p
      BY <1>2, <2>1, <2>2, <2>3, <2>6
    <2> QED
      BY <2>4, <2>5, <2>6
  <1>7. NamesFit' /\ RecordsSame' /\ RecordsFit'
    BY <1>1 DEF StoresInv, NamesFit, RecordsSame, Clean, Unhurt, RecordsFit, WeekendFits
  <1>8. OptionsSame' /\ EntrantsSame' /\ AuditKept'
    BY <1>1, <1>2 DEF StoresInv, OptionsSame, OptionsAgree, EntrantsSame, Listed, AuditKept
  <1>9. ASSUME NEW q \in Clients, NEW w, NEW x, w = client'[q].json, x = client'[q].bolt PROVE WritesSound(w, x)'
    <2>1. WritesSound(w, x)
      BY <1>1, <1>9 DEF StoresInv, OpFits
    <2> QED
      BY <1>1, <1>2, <2>1, SoundStays
  <1> QED
    BY <1>4, <1>5, <1>6, <1>7, <1>8, <1>9 DEF StoresInv

------------------------------------------------------------------------------
(* A file is created *)

LEMMA CreateKeeps ==
  ASSUME StoresInv, NEW p \in Clients, Create(p)
  PROVE  StoresInv'
  <1>1. PICK f \in DOMAIN client[p].json :
           /\ client[p].json[f] # {} /\ broken' = broken \cup {f}
           /\ DOMAIN disk' = DOMAIN disk \ {f} /\ \A g \in DOMAIN disk' : disk'[g] = disk[g]
           /\ client' = [client EXCEPT ![p] = [@ EXCEPT !.state = "created"]]
           /\ \A q \in Clients : /\ client'[q].json = client[q].json /\ client'[q].bolt = client[q].bolt
                                 /\ client'[q].err = client[q].err
                                 /\ client'[q].state = IF q = p THEN "created" ELSE client[q].state
    BY CreateIs DEF StoresInv
  <1>2. UNCHANGED <<db, buckets, ops, crashes, acked, overlapped, hurt>> /\ client[p].state = "begun" /\ Unlocked
    BY DEF Create
  <1>3. client = [q \in Clients |-> client[q]] /\ \A q \in Clients : ClientFits(client[q])
    BY DEF StoresInv, ClientsFit
  <1>4. ClientsFit'
    <2>1. ASSUME NEW q \in Clients PROVE ClientFits(client[q])'
      <3>1. ClientFits(client[q])
        BY <1>3
      <3>2. CASE q = p
        <4>1. client'[p] = [client[p] EXCEPT !.state = "created"]
          BY <1>1, <1>3
        <4>2. client'[p] = [state |-> "created", err |-> client[p].err, json |-> client[p].json, bolt |-> client[p].bolt]
          BY <1>3, <4>1 DEF ClientFits
        <4> QED
          BY <1>1, <3>1, <3>2, <4>2 DEF ClientFits
      <3>3. CASE q # p
        <4>1. client'[q] = client[q]
          BY <1>1, <1>3, <3>3
        <4> QED
          BY <3>1, <4>1 DEF ClientFits
      <3> QED
        BY <3>2, <3>3
    <2>2. client' = [q \in Clients |-> client'[q]]
      BY <1>1, <1>3
    <2>3. \A q, r \in Clients : client'[q].state = "created" /\ client'[r].state = "created" => q = r
      BY <1>1, <1>2 DEF Unlocked
    <2>4. ASSUME NEW g \in broken' PROVE g \in hurt' \/ \E q \in Clients : client'[q].state = "created" /\ g \in DOMAIN client'[q].json
      BY <1>1, <1>2, <2>4 DEF StoresInv, ClientsFit
    <2> QED
      BY <1>2, <2>1, <2>2, <2>3, <2>4 DEF StoresInv, ClientsFit
  <1>5. CrashesFit'
    BY <1>1, <1>2 DEF StoresInv, CrashesFit
  <1>6. OneLister'
    <2>1. \A q \in Clients : ListsOf(q)' = ListsOf(q)
      BY <1>1 DEF ListsOf, Lists
    <2> QED
      BY <1>2, <2>1 DEF StoresInv, OneLister
  <1>7. WritesSound(client[p].json, client[p].bolt)
    BY DEF StoresInv
  <1>8. NamesFit' /\ RecordsSame' /\ RecordsFit'
    <2>1. \E d, x : f = <<d, x>>
      BY <1>1, <1>7 DEF WritesSound, WritesNamed, HaveNames
    <2>2. NamesFit'
      BY <1>1, <1>2, <2>1 DEF StoresInv, NamesFit, HaveNames
    <2>3. RecordsSame'
      BY <1>1, <1>2 DEF StoresInv, RecordsSame, SameIn, Clean, Unhurt
    <2>4. RecordsFit'
      BY <1>1, <1>2 DEF StoresInv, RecordsFit, WeekendFits
    <2> QED
      BY <2>2, <2>3, <2>4
  <1>9. OptionsSame'
    BY <1>1, <1>2 DEF StoresInv, OptionsSame, OptionsAgree, ValueIn
  <1>10. EntrantsSame'
    BY <1>1, <1>2 DEF StoresInv, EntrantsSame, Listed, ValueIn
  <1>11. AuditKept'
    BY <1>1, <1>2 DEF StoresInv, AuditKept, ValueIn
  <1>12. ASSUME NEW q \in Clients, NEW j, NEW b, j = client'[q].json, b = client'[q].bolt PROVE WritesSound(j, b)'
    <2>1. WritesSound(j, b) /\ j = client[q].json /\ b = client[q].bolt
      BY <1>1, <1>12 DEF StoresInv
    <2>2. WritesNamed(j, b)' /\ WritesSame(j, b)' /\ WritesFit(j, b)'
      BY <1>2, <2>1 DEF WritesSound, WritesNamed, WritesSame, Clean, Unhurt, WritesFit, WeekendFits
    <2>3. WritesOptions(j, b)'
      BY <1>2, <2>1 DEF WritesSound, WritesOptions, OptionsWritten
    <2>4. WritesEntrants(j, b)'
      <3>1. CASE f # J!Entrants
        <4>1. Listed' = Listed
          BY <1>1, <3>1 DEF Listed, ValueIn
        <4> QED
          BY <1>2, <2>1, <4>1 DEF WritesSound, WritesEntrants
      <3>2. CASE f = J!Entrants /\ J!Entrants \in overlapped
        BY <1>2, <2>1, <3>2 DEF WritesSound, WritesEntrants
      <3>3. CASE f = J!Entrants /\ J!Entrants \notin overlapped
        <4>1. J!Entrants \in ListsOf(p)
          BY <1>1, <3>3 DEF ListsOf, Lists
        <4>2. J!Entrants \in Lists(j, b) => q = p
          BY <2>1, <3>3, <4>1 DEF StoresInv, OneLister, ListsOf
        <4>3. J!Entrants \in Lists(j, b) => J!Entrants \in DOMAIN j
          BY <1>1, <2>1, <3>3, <4>2
        <4> QED
          BY <1>2, <2>1, <4>3 DEF WritesSound, WritesEntrants
      <3> QED
        BY <3>1, <3>2, <3>3
    <2>5. WritesAudit(j, b)'
      BY <1>2, <2>1 DEF WritesSound, WritesAudit
    <2> QED
      BY <2>1, <2>2, <2>3, <2>4, <2>5 DEF WritesSound
  <1> QED
    BY <1>4, <1>5, <1>6, <1>8, <1>9, <1>10, <1>11, <1>12 DEF StoresInv

------------------------------------------------------------------------------
(* A crash *)

LEMMA CrashKeeps ==
  ASSUME StoresInv, Crash
  PROVE  StoresInv'
  <1>1. /\ crashes' = crashes + 1 /\ hurt' = hurt \cup broken /\ client' = [p \in Clients |-> Idle]
        /\ UNCHANGED <<disk, broken, db, buckets, ops, acked, overlapped>>
    BY DEF Crash
  <1>2. \A p \in Clients : client'[p] = Idle
    BY <1>1
  <1>3. ClientsFit'
    BY <1>1, <1>2, EmptyWrite, IdleIs DEF StoresInv, ClientsFit, ClientFits
  <1>4. CrashesFit'
    <2>1. IsFiniteSet(hurt) /\ Cardinality(hurt) \in Nat /\ crashes \in Nat /\ Cardinality(hurt) <= crashes
      BY FS_CardinalityType DEF StoresInv, CrashesFit
    <2>2. hurt' = hurt \/ \E f : hurt' = hurt \cup {f}
      <3>1. CASE \E f \in broken : f \notin hurt
        <4>1. PICK f \in broken : f \notin hurt
          BY <3>1
        <4>2. PICK p \in Clients : client[p].state = "created" /\ f \in DOMAIN client[p].json
          BY <4>1 DEF StoresInv, ClientsFit
        <4>3. \A x, y \in DOMAIN client[p].json : x = y
          BY WriteIs DEF StoresInv, ClientsFit, ClientFits
        <4>4. ASSUME NEW g \in broken, g \notin hurt PROVE g = f
          <5>1. PICK q \in Clients : client[q].state = "created" /\ g \in DOMAIN client[q].json
            BY <4>4 DEF StoresInv, ClientsFit
          <5>2. q = p
            BY <4>2, <5>1 DEF StoresInv, ClientsFit
          <5> QED
            BY <4>2, <4>3, <5>1, <5>2
        <4> QED
          BY <1>1, <4>1, <4>4
      <3>2. CASE \A f \in broken : f \in hurt
        BY <1>1, <3>2
      <3> QED
        BY <3>1, <3>2
    <2>3. IsFiniteSet(hurt') /\ Cardinality(hurt') <= crashes + 1
      BY <2>1, <2>2, FS_AddElement
    <2>4. \A p \in Clients : client'[p].err # "EOF"
      BY <1>2, IdleIs
    <2> QED
      BY <1>1, <2>1, <2>3, <2>4 DEF CrashesFit
  <1>5. OneLister'
    <2>1. \A p \in Clients : ListsOf(p)' = {}
      BY <1>2, EmptyWrite, IdleIs DEF ListsOf, Lists
    <2> QED
      BY <2>1 DEF OneLister
  <1>6. NamesFit' /\ RecordsFit'
    BY <1>1 DEF StoresInv, NamesFit, RecordsFit, WeekendFits
  <1>7. RecordsSame'
    BY <1>1 DEF StoresInv, RecordsSame, Clean, Unhurt
  <1>8. OptionsSame'
    BY <1>1 DEF StoresInv, OptionsSame, OptionsAgree
  <1>9. EntrantsSame'
    BY <1>1 DEF StoresInv, EntrantsSame, Listed
  <1>10. AuditKept'
    BY <1>1 DEF StoresInv, AuditKept
  <1>11. WritesSound(<<>>, <<>>)'
    <2>1. J!Entrants \notin Lists(<<>>, <<>>)
      BY EmptyWrite DEF Lists
    <2> QED
      BY <2>1, EmptyWrite DEF WritesSound, WritesNamed, HaveNames, WritesSame, SameIn, WritesFit, WritesOptions, OptionsWritten, WritesEntrants, WritesAudit
  <1> QED
    BY <1>2, <1>3, <1>4, <1>5, <1>6, <1>7, <1>8, <1>9, <1>10, <1>11, IdleIs DEF StoresInv

------------------------------------------------------------------------------
(* A call ends *)

LEMMA AppliedIs ==
  ASSUME NEW new, NEW old, NEW w, Applied(new, old, w), NEW x
  PROVE  /\ x \notin DOMAIN w => SameIn(new, old, x, x)
         /\ x \in DOMAIN w => (x \in DOMAIN new <=> w[x] # {}) /\ \A v : w[x] = {v} => x \in DOMAIN new /\ new[x] = v
  BY DEF Applied, SameIn

LEMMA FinishKeepsRecords ==
  ASSUME ClientsFit, NamesFit, RecordsSame, RecordsFit, NEW p \in Clients, Finish(p),
         WritesSound(client[p].json, client[p].bolt)
  PROVE  NamesFit' /\ RecordsSame' /\ RecordsFit'
  <1> DEFINE j == client[p].json
             b == client[p].bolt
  <1>1. /\ Applied(disk', disk, j) /\ broken' = broken \ DOMAIN j
        /\ Applied(db', db, b)
        /\ buckets' = buckets \cup {k[1] : k \in DOMAIN b}
    BY FinishIs
  <1>2. hurt' = hurt
    BY DEF Finish
  <1>3. WritesSound(j, b)
    OBVIOUS
  <1>4. /\ \A x \in DOMAIN j : j[x] # {} => \E v : j[x] = {v}
        /\ \A x \in DOMAIN b : b[x] # {} => \E v : b[x] = {v}
    BY WriteIs DEF WritesSound
  <1> HIDE DEF j, b
  <1>5. NamesFit'
    <2>1. HaveNames(DOMAIN j) /\ HaveNames(DOMAIN b)
      BY <1>3 DEF WritesSound, WritesNamed
    <2>2. HaveNames(DOMAIN disk') /\ HaveNames(broken') /\ HaveNames(DOMAIN db')
      BY <1>1, <2>1 DEF Applied, NamesFit, HaveNames
    <2>3. \A k \in DOMAIN db' : k[1] \in buckets'
      BY <1>1 DEF Applied, NamesFit
    <2>4. "frameLinks" \in buckets' => B!FrameLinks \in DOMAIN db'
      <3>1. \A k \in DOMAIN b : k[1] = "frameLinks" => k = B!FrameLinks /\ b[k] # {}
        BY <1>3 DEF WritesSound, WritesNamed
      <3>2. B!FrameLinks[1] = "frameLinks"
        BY DEF B!FrameLinks
      <3> QED
        BY <1>1, <3>1, <3>2 DEF Applied, NamesFit
    <2>5. J!Options \in DOMAIN disk' => "serverOptions" \in buckets'
      <3>1. J!Options \in DOMAIN j => B!Options \in DOMAIN b \/ "serverOptions" \in buckets
        BY <1>3 DEF WritesSound, WritesNamed
      <3>2. B!Options[1] = "serverOptions"
        BY DEF B!Options
      <3> QED
        BY <1>1, <3>1, <3>2 DEF Applied, NamesFit
    <2> QED
      BY <2>2, <2>3, <2>4, <2>5 DEF NamesFit
  <1>6. RecordsSame'
    <2>1. SUFFICES ASSUME NEW f, NEW k, Corresponds(f, k), Clean(f)', f \notin broken'
                   PROVE  SameIn(disk', db', f, k)
      BY DEF RecordsSame, SameIn
    <2>2. Clean(f)
      BY <1>2, <2>1 DEF Clean, Unhurt
    <2>3. SameIn(j, b, f, k)
      BY <1>3, <2>1, <2>2 DEF WritesSound, WritesSame
    <2>4. CASE f \in DOMAIN j
      <3>1. k \in DOMAIN b /\ j[f] = b[k]
        BY <2>3, <2>4 DEF SameIn
      <3>2. CASE j[f] = {}
        BY <1>1, <2>4, <3>1, <3>2 DEF Applied, SameIn
      <3>3. CASE j[f] # {}
        <4>1. PICK v : j[f] = {v}
          BY <1>4, <2>4, <3>3
        <4>2. f \in DOMAIN disk' /\ disk'[f] = v
          BY <1>1, <2>4, <4>1, AppliedIs
        <4>3. k \in DOMAIN db' /\ db'[k] = v
          <5>1. b[k] = {v} /\ k \in DOMAIN b /\ Applied(db', db, b)
            BY <1>1, <3>1, <4>1
          <5> QED
            BY <5>1 DEF Applied
        <4> QED
          BY <4>2, <4>3 DEF SameIn
      <3> QED
        BY <3>2, <3>3
    <2>5. CASE f \notin DOMAIN j
      <3>1. k \notin DOMAIN b
        BY <2>3, <2>5 DEF SameIn
      <3>2. SameIn(disk, db, f, k)
        BY <1>1, <2>1, <2>2, <2>5 DEF RecordsSame
      <3>3. SameIn(disk', disk, f, f) /\ SameIn(db', db, k, k)
        BY <1>1, <2>5, <3>1, AppliedIs
      <3> QED
        BY <3>2, <3>3 DEF SameIn
    <2> QED
      BY <2>4, <2>5
  <1>7. RecordsFit'
    <2>1. ASSUME NEW x, <<"custom_races", x>> \in DOMAIN disk' PROVE IdFits(x, disk'[<<"custom_races", x>>])
      BY <1>1, <1>3, <2>1 DEF Applied, WritesSound, WritesFit, RecordsFit
    <2>2. ASSUME NEW x, <<"race_weekends", x>> \in DOMAIN disk' PROVE IdFits(x, disk'[<<"race_weekends", x>>])
      BY <1>1, <1>3, <2>2 DEF Applied, WritesSound, WritesFit, RecordsFit
    <2>3. ASSUME NEW x, <<"customRaces", x>> \in DOMAIN db' PROVE IdFits(x, db'[<<"customRaces", x>>])
      BY <1>1, <1>3, <2>3 DEF Applied, WritesSound, WritesFit, RecordsFit
    <2>4. ASSUME NEW x, <<"raceWeekends", x>> \in DOMAIN db' PROVE IdFits(x, db'[<<"raceWeekends", x>>])
      BY <1>1, <1>3, <2>4 DEF Applied, WritesSound, WritesFit, RecordsFit
    <2>5. ASSUME NEW r, WeekendFits(r) PROVE WeekendFits(r)'
      <3>1. \A x : <<"raceWeekends", x>> \in DOMAIN b => b[<<"raceWeekends", x>>] # {}
        BY <1>3 DEF WritesSound, WritesFit
      <3> QED
        BY <1>1, <2>5, <3>1 DEF Applied, WeekendFits
    <2>6. ASSUME NEW x, <<"championships", x>> \in DOMAIN disk' PROVE \E r : r = disk'[<<"championships", x>>] /\ WeekendFits(r)'
      <3>1. PICK r : r = disk'[<<"championships", x>>]
        OBVIOUS
      <3>2. WeekendFits(r)
        BY <1>1, <1>3, <2>6, <3>1 DEF Applied, WritesSound, WritesFit, RecordsFit
      <3> QED
        BY <2>5, <3>1, <3>2
    <2>7. (\A x : <<"championships", x>> \in DOMAIN disk => WeekendFits(disk[<<"championships", x>>]))'
      BY <2>6 DEF WeekendFits
    <2> QED
      BY <2>1, <2>2, <2>3, <2>4, <2>7 DEF RecordsFit
  <1> QED
    BY <1>5, <1>6, <1>7

\* Default options and entrants: no other client is at it.
LEMMA FinishKeepsOptions ==
  ASSUME NEW f, NEW k, ClientsFit, OptionsAgree(f, k), NEW p \in Clients, Finish(p), WriteFits(client[p].json),
         OptionsWritten(client[p].json, client[p].bolt, f, k)
  PROVE  OptionsAgree(f, k)'
  <1> DEFINE j == client[p].json
             b == client[p].bolt
  <1>1. Applied(disk', disk, j) /\ broken' = broken \ DOMAIN j /\ Applied(db', db, b)
    BY FinishIs
  <1>2. hurt' = hurt /\ overlapped' = overlapped
    BY DEF Finish
  <1>3. OptionsWritten(j, b, f, k)
    OBVIOUS
  <1>4. \A x \in DOMAIN j : j[x] # {} => \E v : j[x] = {v}
    BY WriteIs
  <1> HIDE DEF j, b
  <1>5. SUFFICES ASSUME f \notin hurt \cup overlapped, f \notin broken'
                 PROVE  ValueIn(disk', f, "default") = ValueIn(db', k, "default")
    BY <1>2 DEF OptionsAgree, ValueIn
  <1>6. CASE f \in DOMAIN j
    <2>1. PICK v : j[f] = {v}
      BY <1>3, <1>4, <1>5, <1>6 DEF OptionsWritten
    <2>2. f \in DOMAIN disk' /\ disk'[f] = v
      BY <1>1, <1>6, <2>1 DEF Applied
    <2>3. CASE k \in DOMAIN b
      <3>1. b[k] = {v}
        BY <1>3, <1>5, <1>6, <2>1, <2>3 DEF OptionsWritten
      <3>2. k \in DOMAIN db' /\ db'[k] = v
        BY <1>1, <2>3, <3>1 DEF Applied
      <3> QED
        BY <2>2, <3>2 DEF ValueIn
    <2>4. CASE k \notin DOMAIN b
      <3>1. ValueIn(db, k, "default") = v
        BY <1>3, <1>5, <1>6, <2>1, <2>4 DEF OptionsWritten
      <3>2. ValueIn(db', k, "default") = v
        BY <1>1, <2>4, <3>1 DEF Applied, ValueIn
      <3> QED
        BY <2>2, <3>2 DEF ValueIn
    <2> QED
      BY <2>3, <2>4
  <1>7. CASE f \notin DOMAIN j
    <2>1. k \notin DOMAIN b /\ f \notin broken
      BY <1>1, <1>3, <1>5, <1>7 DEF OptionsWritten
    <2>2. ValueIn(disk, f, "default") = ValueIn(db, k, "default")
      BY <1>5, <2>1 DEF OptionsAgree
    <2> QED
      BY <1>1, <1>7, <2>1, <2>2 DEF Applied, ValueIn
  <1> QED
    BY <1>6, <1>7

LEMMA FinishKeepsEntrants ==
  ASSUME ClientsFit, EntrantsSame, NEW p \in Clients, Finish(p), WritesSound(client[p].json, client[p].bolt)
  PROVE  EntrantsSame'
  <1> DEFINE j == client[p].json
             b == client[p].bolt
             E == J!Entrants
  <1>1. Applied(disk', disk, j) /\ broken' = broken \ DOMAIN j /\ Applied(db', db, b)
    BY FinishIs
  <1>2. hurt' = hurt /\ overlapped' = overlapped
    BY DEF Finish
  <1>3. WritesEntrants(j, b)
    BY DEF WritesSound
  <1>4. \A x \in DOMAIN b : b[x] # {} => \E v : b[x] = {v}
    BY WriteIs DEF WritesSound
  <1> HIDE DEF j, b
  <1>5. E \in DOMAIN disk' => ListFits(disk'[E])
    BY <1>1, <1>3 DEF Applied, EntrantsSame, WritesEntrants
  <1>6. ASSUME NEW g, <<"entrants", g>> \in DOMAIN db' PROVE db'[<<"entrants", g>>].guid = g
    <2>1. CASE <<"entrants", g>> \in DOMAIN b
      <3>1. b[<<"entrants", g>>] # {} /\ b[<<"entrants", g>>] = {db'[<<"entrants", g>>]}
        BY <1>1, <1>6, <2>1 DEF Applied
      <3> QED
        BY <1>3, <2>1, <3>1 DEF WritesEntrants
    <2>2. CASE <<"entrants", g>> \notin DOMAIN b
      BY <1>1, <1>6, <2>2 DEF Applied, EntrantsSame
    <2> QED
      BY <2>1, <2>2
  <1>7. ASSUME E \notin hurt \cup overlapped, E \notin broken', NEW g
        PROVE  g \in Guids(ValueIn(disk', E, <<>>)) <=> <<"entrants", g>> \in DOMAIN db'
    <2>1. CASE E \in DOMAIN j
      <3>1. PICK s : j[E] = {s}
        BY <1>3, <2>1 DEF WritesEntrants
      <3>2. ValueIn(disk', E, <<>>) = s
        BY <1>1, <2>1, <3>1 DEF Applied, ValueIn
      <3>3. E \in Lists(j, b) /\ UNION {Guids(t) : t \in j[E]} = Guids(s)
        BY <2>1, <3>1 DEF Lists
      <3>4. g \in Guids(s) <=> IF <<"entrants", g>> \in DOMAIN b THEN b[<<"entrants", g>>] # {} ELSE <<"entrants", g>> \in DOMAIN db
        BY <1>3, <1>7, <2>1, <3>3 DEF WritesEntrants
      <3> QED
        BY <1>1, <3>2, <3>4 DEF Applied
    <2>2. CASE E \notin DOMAIN j /\ E \in Lists(j, b)
      <3>1. ValueIn(disk', E, <<>>) = ValueIn(disk, E, <<>>)
        BY <1>1, <2>2 DEF Applied, ValueIn
      <3>2. g \in Listed <=> IF <<"entrants", g>> \in DOMAIN b THEN b[<<"entrants", g>>] # {} ELSE <<"entrants", g>> \in DOMAIN db
        BY <1>3, <1>7, <2>2 DEF WritesEntrants
      <3> QED
        BY <1>1, <3>1, <3>2 DEF Applied, Listed
    <2>3. CASE E \notin Lists(j, b)
      <3>1. E \notin DOMAIN j /\ <<"entrants", g>> \notin DOMAIN b
        BY <2>3 DEF Lists
      <3>2. ValueIn(disk', E, <<>>) = ValueIn(disk, E, <<>>) /\ E \notin broken
        BY <1>1, <1>7, <3>1 DEF Applied, ValueIn
      <3> QED
        BY <1>1, <1>7, <3>1, <3>2 DEF Applied, EntrantsSame, Listed
    <2> QED
      BY <2>1, <2>2, <2>3
  <1> QED
    BY <1>2, <1>5, <1>6, <1>7 DEF EntrantsSame, Listed

LEMMA FinishKeepsAudit ==
  ASSUME ClientsFit, AuditKept, NEW p \in Clients, Finish(p), WritesSound(client[p].json, client[p].bolt)
  PROVE  AuditKept'
  <1> DEFINE j == client[p].json
             b == client[p].bolt
             F == J!AuditFile
             K == B!Audit
  <1>1. /\ Applied(disk', disk, j) /\ broken' = broken \ DOMAIN j /\ Applied(db', db, b)
        /\ \A f \in DOMAIN j : \A v : j[f] = {v} => Data(j) = v
    BY FinishIs
  <1>2. /\ hurt' = hurt /\ overlapped' = overlapped
        /\ acked' = IF F \in DOMAIN j THEN Append(acked, Last(Data(j))) ELSE acked
    BY DEF Finish, AddsAudit
  <1>3. WritesAudit(j, b)
    BY DEF WritesSound
  <1> HIDE DEF j, b, F, K
  <1>4. /\ F \in DOMAIN j => \E s : j[F] = {s} /\ EntryOf(s)
        /\ K \in DOMAIN b => \E s : b[K] = {s} /\ EntryOf(s)
        /\ F \notin overlapped =>
             /\ F \notin hurt => \A s : F \in DOMAIN j /\ j[F] = {s} => Complete(s, Append(acked, Last(s)))
             /\ hurt = {} => /\ F \in DOMAIN j <=> K \in DOMAIN b
                             /\ \A s, t : F \in DOMAIN j /\ j[F] = {s} /\ b[K] = {t} =>
                                  Last(s) = Last(t) /\ Complete(t, Append(acked, Last(t)))
    BY <1>3 DEF WritesAudit, F, K
  <1>5. /\ acked \in Seq(Nat)
        /\ F \in DOMAIN disk => disk[F] \in Seq(Nat)
        /\ K \in DOMAIN db => db[K] \in Seq(Nat)
        /\ F \notin overlapped =>
             /\ F \notin hurt /\ F \notin broken => Complete(ValueIn(disk, F, <<>>), acked)
             /\ hurt = {} => Complete(ValueIn(db, K, <<>>), acked)
    BY DEF AuditKept, F, K
  <1>6. /\ F \in DOMAIN disk' => disk'[F] \in Seq(Nat)
        /\ K \in DOMAIN db' => db'[K] \in Seq(Nat)
    BY <1>1, <1>4, <1>5 DEF Applied, EntryOf
  <1>7. CASE F \in DOMAIN j
    <2>1. PICK s : j[F] = {s} /\ EntryOf(s)
      BY <1>4, <1>7
    <2>2. acked' = Append(acked, Last(s))
      BY <1>1, <1>2, <1>7, <2>1
    <2>3. Last(s) \in Nat
      BY <2>1 DEF EntryOf, Last
    <2>4. acked' \in Seq(Nat)
      BY <1>5, <2>2, <2>3
    <2>5. ValueIn(disk', F, <<>>) = s
      BY <1>1, <1>7, <2>1 DEF Applied, ValueIn
    <2>6. F \notin overlapped /\ F \notin hurt => Complete(ValueIn(disk', F, <<>>), acked')
      BY <1>4, <1>7, <2>1, <2>2, <2>5
    <2>7. ASSUME F \notin overlapped, hurt = {} PROVE Complete(ValueIn(db', K, <<>>), acked')
      <3>1. K \in DOMAIN b
        BY <1>4, <1>7, <2>7
      <3>2. PICK t : b[K] = {t}
        BY <1>4, <3>1
      <3>3. ValueIn(db', K, <<>>) = t
        BY <1>1, <3>1, <3>2 DEF Applied, ValueIn
      <3>4. Last(s) = Last(t) /\ Complete(t, Append(acked, Last(t)))
        BY <1>4, <1>7, <2>1, <2>7, <3>2
      <3> QED
        BY <2>2, <3>3, <3>4
    <2> QED
      BY <1>2, <1>6, <2>4, <2>6, <2>7 DEF AuditKept, F, K
  <1>8. CASE F \notin DOMAIN j
    <2>1. ValueIn(disk', F, <<>>) = ValueIn(disk, F, <<>>) /\ (F \in broken' <=> F \in broken) /\ acked' = acked
      BY <1>1, <1>2, <1>8 DEF Applied, ValueIn
    <2>2. F \notin overlapped /\ hurt = {} => ValueIn(db', K, <<>>) = ValueIn(db, K, <<>>)
      BY <1>1, <1>4, <1>8 DEF Applied, ValueIn
    <2>3. /\ F \notin overlapped /\ F \notin hurt /\ F \notin broken' => Complete(ValueIn(disk', F, <<>>), acked')
          /\ F \notin overlapped /\ hurt = {} => Complete(ValueIn(db', K, <<>>), acked')
      BY <1>5, <2>1, <2>2
    <2> QED
      BY <1>2, <1>5, <1>6, <2>1, <2>3 DEF AuditKept, F, K
  <1> QED
    BY <1>7, <1>8

\* What another client is about to write stays sound.
LEMMA FinishKeepsOthers ==
  ASSUME StoresInv, NEW p \in Clients, Finish(p), NEW q \in Clients, q # p, NEW j, NEW b,
         j = client[q].json, b = client[q].bolt
  PROVE  WritesSound(j, b)'
  <1> DEFINE jp == client[p].json
             bp == client[p].bolt
  <1>1. /\ Applied(disk', disk, jp) /\ Applied(db', db, bp)
        /\ buckets' = buckets \cup {k[1] : k \in DOMAIN bp}
    BY FinishIs DEF StoresInv
  <1>2. /\ hurt' = hurt /\ overlapped' = overlapped
        /\ J!AuditFile \notin DOMAIN jp => acked' = acked
    BY DEF Finish, AddsAudit
  <1>3. WritesSound(j, b) /\ WritesSound(jp, bp) /\ Lists(j, b) = ListsOf(q) /\ Lists(jp, bp) = ListsOf(p)
    BY DEF StoresInv, ListsOf
  <1>4. \A f : f \notin overlapped => f \notin Lists(j, b) \/ f \notin Lists(jp, bp)
    BY <1>3 DEF StoresInv, OneLister
  <1> HIDE DEF jp, bp
  <1>5. WritesNamed(j, b)' /\ WritesSame(j, b)'
    BY <1>1, <1>2, <1>3 DEF WritesSound, WritesNamed, WritesSame, Clean, Unhurt
  <1>6. WritesFit(j, b)'
    <2>1. \A x : <<"raceWeekends", x>> \in DOMAIN db => <<"raceWeekends", x>> \in DOMAIN db'
      BY <1>1, <1>3 DEF Applied, WritesSound, WritesFit
    <2> QED
      BY <1>3, <2>1 DEF WritesSound, WritesFit, WeekendFits
  <1>7. WritesOptions(j, b)'
    <2>1. ASSUME NEW f, NEW k, f \in {J!Options, PluginFile}, OptionsWritten(j, b, f, k), OptionsWritten(jp, bp, f, k)
          PROVE  OptionsWritten(j, b, f, k)'
      <3>1. f \notin overlapped /\ f \in DOMAIN j => f \notin DOMAIN jp
        BY <1>4, <2>1 DEF Lists
      <3>2. f \notin hurt \cup overlapped /\ f \in DOMAIN j => ValueIn(db', k, "default") = ValueIn(db, k, "default")
        BY <1>1, <2>1, <3>1 DEF OptionsWritten, Applied, ValueIn
      <3> QED
        BY <1>2, <2>1, <3>2 DEF OptionsWritten
    <2> QED
      BY <1>3, <2>1 DEF WritesSound, WritesOptions
  <1>8. WritesEntrants(j, b)'
    <2>1. ASSUME J!Entrants \notin overlapped, J!Entrants \in Lists(j, b)
          PROVE  Listed' = Listed /\ \A g : <<"entrants", g>> \in DOMAIN db' <=> <<"entrants", g>> \in DOMAIN db
      <3>1. J!Entrants \notin DOMAIN jp /\ \A g : <<"entrants", g>> \notin DOMAIN bp
        BY <1>4, <2>1 DEF Lists
      <3> QED
        BY <1>1, <3>1 DEF Applied, Listed, ValueIn
    <2> QED
      BY <1>2, <1>3, <2>1 DEF WritesSound, WritesEntrants
  <1>9. WritesAudit(j, b)'
    <2>1. J!AuditFile \notin overlapped /\ J!AuditFile \in DOMAIN j => acked' = acked
      BY <1>2, <1>4 DEF Lists
    <2> QED
      BY <1>2, <1>3, <2>1 DEF WritesSound, WritesAudit
  <1> QED
    BY <1>3, <1>5, <1>6, <1>7, <1>8, <1>9 DEF WritesSound

LEMMA FinishKeeps ==
  ASSUME StoresInv, NEW p \in Clients, Finish(p)
  PROVE  StoresInv'
  <1>1. ClientsFit /\ WritesSound(client[p].json, client[p].bolt)
    BY DEF StoresInv
  <1>2. /\ broken' = broken \ DOMAIN client[p].json /\ client' = [client EXCEPT ![p] = Idle]
    BY <1>1, FinishIs
  <1>3. UNCHANGED <<ops, crashes, overlapped, hurt>> /\ client[p].state # "idle"
    BY DEF Finish
  <1>4. client'[p] = Idle /\ \A q \in Clients : q # p => client'[q] = client[q]
    BY <1>1, <1>2 DEF ClientsFit
  <1>5. ClientsFit'
    <2>1. ASSUME NEW q \in Clients PROVE ClientFits(client[q])'
      <3>1. CASE q = p
        BY <1>4, <3>1, EmptyWrite, IdleIs DEF ClientFits
      <3>2. CASE q # p
        <4>1. ClientFits(client[q]) /\ client'[q] = client[q]
          BY <1>1, <1>4, <3>2 DEF ClientsFit
        <4> QED
          BY <4>1 DEF ClientFits
      <3> QED
        BY <3>1, <3>2
    <2>2. client' = [q \in Clients |-> client'[q]]
      BY <1>1, <1>2 DEF ClientsFit
    <2>3. ASSUME NEW q \in Clients, NEW r \in Clients, client'[q].state = "created", client'[r].state = "created" PROVE q = r
      <3>1. q # p /\ r # p
        BY <1>4, <2>3, IdleIs
      <3> QED
        BY <1>1, <1>4, <2>3, <3>1 DEF ClientsFit
    <2>4. ASSUME NEW g \in broken' PROVE g \in hurt' \/ \E q \in Clients : client'[q].state = "created" /\ g \in DOMAIN client'[q].json
      BY <1>1, <1>2, <1>3, <1>4, <2>4 DEF ClientsFit
    <2>5. ops' \in Nat
      BY <1>1, <1>3 DEF ClientsFit
    <2> QED
      BY <2>1, <2>2, <2>3, <2>4, <2>5 DEF ClientsFit
  <1>6. CrashesFit'
    <2>1. \A q \in Clients : client'[q].err = "EOF" => client[q].err = "EOF"
      BY <1>4, IdleIs
    <2> QED
      BY <1>3, <2>1 DEF StoresInv, CrashesFit
  <1>7. OneLister'
    <2>1. ListsOf(p)' = {} /\ \A q \in Clients : q # p => ListsOf(q)' = ListsOf(q)
      BY <1>4, EmptyWrite, IdleIs DEF ListsOf, Lists
    <2> QED
      BY <1>3, <2>1 DEF StoresInv, OneLister
  <1>8. NamesFit' /\ RecordsSame' /\ RecordsFit'
    BY <1>1, FinishKeepsRecords DEF StoresInv
  <1>9. OptionsSame'
    <2>1. WriteFits(client[p].json) /\ WritesOptions(client[p].json, client[p].bolt)
      BY <1>1 DEF WritesSound
    <2>2. OptionsAgree(J!Options, B!Options)' /\ OptionsAgree(PluginFile, PluginKey)'
      BY <1>1, <2>1, FinishKeepsOptions DEF StoresInv, OptionsSame, WritesOptions
    <2> QED
      BY <2>2 DEF OptionsSame
  <1>10. EntrantsSame' /\ AuditKept'
    BY <1>1, FinishKeepsEntrants, FinishKeepsAudit DEF StoresInv
  <1>11. ASSUME NEW q \in Clients, NEW j, NEW b, j = client'[q].json, b = client'[q].bolt PROVE WritesSound(j, b)'
    <2>1. CASE q = p
      <3>1. j = <<>> /\ b = <<>>
        BY <1>4, <1>11, <2>1, IdleIs
      <3>2. J!Entrants \notin Lists(<<>>, <<>>)
        BY EmptyWrite DEF Lists
      <3>3. WritesSound(<<>>, <<>>)'
        BY <3>2, EmptyWrite DEF WritesSound, WritesNamed, HaveNames, WritesSame, SameIn, WritesFit, WritesOptions, OptionsWritten, WritesEntrants, WritesAudit
      <3> QED
        BY <3>1, <3>3
    <2>2. CASE q # p
      <3>1. j = client[q].json /\ b = client[q].bolt
        BY <1>4, <1>11, <2>2
      <3> QED
        BY <2>2, <3>1, FinishKeepsOthers
    <2> QED
      BY <2>1, <2>2
  <1> QED
    BY <1>5, <1>6, <1>7, <1>8, <1>9, <1>10, <1>11 DEF StoresInv
------------------------------------------------------------------------------
(* What the calls write: records                                              *)

RecordWrites(j, b) ==
  /\ WriteFits(j) /\ WriteFits(b)
  /\ \A f \in DOMAIN j : \E k : Corresponds(f, k)
  /\ \A k \in DOMAIN b : \E f : Corresponds(f, k)
  /\ \A k \in DOMAIN b : k[1] \in {"frameLinks", "raceWeekends"} => b[k] # {}

LEMMA RecordNames ==
  ASSUME NEW f, NEW k, Corresponds(f, k)
  PROVE  /\ \E d, x : f = <<d, x>>
         /\ \E d, x : k = <<d, x>>
         /\ k[1] = "frameLinks" => k = B!FrameLinks
         /\ \A x : (f = <<"custom_races", x>> <=> k = <<"customRaces", x>>)
                   /\ (f = <<"race_weekends", x>> <=> k = <<"raceWeekends", x>>)
  BY DEF Corresponds, Directories, J!FrameLinks, B!FrameLinks, J!LiveTimings, B!LiveTimings, J!LastRaceEvent, B!LastRaceEvent

LEMMA RecordsSound ==
  ASSUME NEW j, NEW b, RecordWrites(j, b), WritesSame(j, b), WritesFit(j, b)
  PROVE  WritesSound(j, b)
  <1>1. WritesNamed(j, b)
    BY RecordNames, OtherNames DEF RecordWrites, WritesNamed, HaveNames
  <1>2. \A f \in DOMAIN j : f \notin {J!Options, PluginFile, J!Entrants, J!AuditFile}
    BY OtherNames DEF RecordWrites
  <1>3. \A k \in DOMAIN b : k \notin {B!Options, PluginKey, B!Audit} /\ k[1] # "entrants"
    BY OtherNames DEF RecordWrites
  <1>4. WritesOptions(j, b)
    BY <1>2, <1>3 DEF WritesOptions, OptionsWritten
  <1>5. WritesEntrants(j, b)
    BY <1>2, <1>3 DEF WritesEntrants, Lists
  <1>6. WritesAudit(j, b)
    BY <1>2, <1>3 DEF WritesAudit
  <1> QED
    BY <1>1, <1>4, <1>5, <1>6 DEF WritesSound, RecordWrites

\* One record is written, to one store or to both.
KeyIs(k, r) == k[1] \in {"customRaces", "raceWeekends"} => IdFits(k[2], r)
FileIs(f, r) ==
  /\ f[1] \in {"custom_races", "race_weekends"} => IdFits(f[2], r)
  /\ f[1] = "championships" => WeekendFits(r)
RecordOp(j, b, f, k) ==
  /\ j.err = "EOF" => broken # {}
  /\ (DOMAIN j.write = {} /\ j.write = <<>>) \/ \E r : j.write = [x \in {f} |-> {r}] /\ FileIs(f, r)
  /\ (DOMAIN b.write = {} /\ b.write = <<>>) \/ \E r : b.write = [x \in {k} |-> {r}] /\ KeyIs(k, r)
  /\ Clean(f) => SameIn(j.write, b.write, f, k)

LEMMA OneRecordFits ==
  ASSUME NEW f, NEW k, Corresponds(f, k), NEW j, NEW b, RecordOp(j, b, f, k)
  PROVE  OpFits(j, b)
  <1> DEFINE w == j.write
             v == b.write
  <1>1. /\ (w = <<>> /\ DOMAIN w = {}) \/ \E r : w = [x \in {f} |-> {r}] /\ FileIs(f, r)
        /\ (v = <<>> /\ DOMAIN v = {}) \/ \E r : v = [x \in {k} |-> {r}] /\ KeyIs(k, r)
        /\ Clean(f) => SameIn(w, v, f, k)
    BY DEF RecordOp
  <1>2. WriteFits(w) /\ WriteFits(v)
    BY <1>1 DEF WriteFits
  <1> HIDE DEF w, v
  <1>3. DOMAIN w \subseteq {f} /\ DOMAIN v \subseteq {k}
    BY <1>1
  <1>4. f \in DOMAIN w => \E r : w[f] = {r} /\ FileIs(f, r)
    BY <1>1
  <1>5. k \in DOMAIN v => \E r : v[k] = {r} /\ KeyIs(k, r)
    BY <1>1
  <1>6. RecordWrites(w, v)
    BY <1>2, <1>3, <1>5 DEF RecordWrites
  <1>7. WritesSame(w, v)
    BY <1>1, <1>3, OnePartner DEF WritesSame, SameIn
  <1>8. WritesFit(w, v)
    BY <1>3, <1>4, <1>5 DEF WritesFit, FileIs, KeyIs
  <1>9. WritesSound(w, v)
    BY <1>6, <1>7, <1>8, RecordsSound
  <1> QED
    BY <1>9 DEF w, v, OpFits, RecordOp

\* The same is written to both.
LEMMA BothWrite ==
  ASSUME NEW f, NEW k, Corresponds(f, k), NEW r, FileIs(f, r), KeyIs(k, r)
  PROVE  OpFits(J!Encode(f, r), B!Put(k, r))
  <1> DEFINE j == J!Encode(f, r)
             b == B!Put(k, r)
  <1>1. j.err = "" /\ j.write = [x \in {f} |-> {r}] /\ b.write = [x \in {k} |-> {r}]
    BY DEF J!Encode, J!Answer, B!Put, B!Answer
  <1> HIDE DEF j, b
  <1>2. SameIn(j.write, b.write, f, k)
    BY <1>1 DEF SameIn
  <1>3. RecordOp(j, b, f, k)
    BY <1>1, <1>2 DEF RecordOp
  <1>4. OpFits(j, b)
    BY <1>3, OneRecordFits
  <1> QED
    BY <1>4 DEF j, b

LEMMA CopyIs ==
  ASSUME NEW r
  PROVE  /\ B!DeletedCopy(r) = J!DeletedCopy(r)
         /\ r = [id |-> r.id, v |-> r.v, deleted |-> r.deleted] =>
              J!DeletedCopy(r) = [id |-> r.id, v |-> r.v, deleted |-> TRUE]
         /\ r = [id |-> r.id, v |-> r.v, deleted |-> r.deleted, weekend |-> r.weekend] =>
              J!DeletedCopy(r) = [id |-> r.id, v |-> r.v, deleted |-> TRUE, weekend |-> r.weekend]
  <1>1. B!DeletedCopy(r) = J!DeletedCopy(r)
    BY DEF B!DeletedCopy, J!DeletedCopy
  <1>2. ASSUME r = [id |-> r.id, v |-> r.v, deleted |-> r.deleted]
        PROVE  J!DeletedCopy(r) = [id |-> r.id, v |-> r.v, deleted |-> TRUE]
    <2>1. \A x : [r EXCEPT !.deleted = x] = [id |-> r.id, v |-> r.v, deleted |-> x]
      BY <1>2
    <2> QED
      BY <2>1, Zenon DEF J!DeletedCopy
  <1>3. ASSUME r = [id |-> r.id, v |-> r.v, deleted |-> r.deleted, weekend |-> r.weekend]
        PROVE  J!DeletedCopy(r) = [id |-> r.id, v |-> r.v, deleted |-> TRUE, weekend |-> r.weekend]
    <2>1. \A x : [r EXCEPT !.deleted = x] = [id |-> r.id, v |-> r.v, deleted |-> x, weekend |-> r.weekend]
      BY <1>3
    <2> QED
      BY <2>1, Zenon DEF J!DeletedCopy
  <1> QED
    BY <1>1, <1>2, <1>3

LEMMA CustomRaceFits ==
  ASSUME NEW id, NEW v
  PROVE  /\ OpFits(J!UpsertCustomRace(Record(id, v)), B!UpsertCustomRace(Record(id, v)))
         /\ OpFits(J!DeleteCustomRace(Record(id, v)), B!DeleteCustomRace(Record(id, v)))
  <1> DEFINE f == <<"custom_races", id>>
             k == <<"customRaces", id>>
  <1>1. Corresponds(f, k)
    BY DEF Corresponds, Directories
  <1>2. ASSUME NEW r, IdFits(id, r) PROVE FileIs(f, r) /\ KeyIs(k, r)
    BY <1>2 DEF FileIs, KeyIs
  <1>3. ASSUME NEW r, IdFits(id, r) PROVE OpFits(J!UpsertCustomRace(r), B!UpsertCustomRace(r))
    <2>1. r.id = id
      BY <1>3 DEF IdFits
    <2>2. J!UpsertCustomRace(r) = J!Encode(f, r) /\ B!UpsertCustomRace(r) = B!Put(k, r)
      BY <2>1 DEF J!UpsertCustomRace, B!UpsertCustomRace
    <2> QED
      BY <1>1, <1>2, <1>3, <2>2, BothWrite
  <1>4. IdFits(id, Record(id, v))
    BY DEF Record, IdFits
  <1>5. IdFits(id, J!DeletedCopy(Record(id, v)))
    <2> DEFINE r == Record(id, v)
    <2>1. r = [id |-> r.id, v |-> r.v, deleted |-> r.deleted] /\ r.id = id
      BY DEF Record
    <2> HIDE DEF r
    <2>2. J!DeletedCopy(r) = [id |-> id, v |-> r.v, deleted |-> TRUE]
      BY <2>1, CopyIs
    <2>3. IdFits(id, J!DeletedCopy(r))
      BY <2>2 DEF IdFits
    <2> QED
      BY <2>3 DEF r
  <1>7. OpFits(J!DeleteCustomRace(Record(id, v)), B!DeleteCustomRace(Record(id, v)))
    BY <1>3, <1>5, CopyIs DEF J!DeleteCustomRace, B!DeleteCustomRace
  <1> QED
    BY <1>3, <1>4, <1>7

LEMMA SmallRecordsFit ==
  /\ OpFits(J!UpsertLiveFrames(1), B!UpsertLiveFrames(1))
  /\ OpFits(J!SetMeta("version", 1), B!SetMeta("version", 1))
  /\ OpFits(J!UpsertLiveTimingsData(1), B!UpsertLiveTimingsData(1))
  /\ OpFits(J!UpsertLastRaceEvent(1), B!UpsertLastRaceEvent(1))
  /\ OpFits(J!ClearLastRaceEvent, B!ClearLastRaceEvent)
  <1>1. ASSUME NEW f, NEW k, Corresponds(f, k), f[1] \in {"base", "meta"}, k[1] \notin {"customRaces", "raceWeekends"}
        PROVE  OpFits(J!Encode(f, 1), B!Put(k, 1))
    BY <1>1, BothWrite DEF FileIs, KeyIs
  <1>2. OpFits(J!UpsertLiveFrames(1), B!UpsertLiveFrames(1))
    <2>1. Corresponds(J!FrameLinks, B!FrameLinks)
      BY DEF Corresponds
    <2>2. J!FrameLinks[1] = "base" /\ B!FrameLinks[1] = "frameLinks"
      BY DEF J!FrameLinks, B!FrameLinks
    <2> QED
      BY <1>1, <2>1, <2>2 DEF J!UpsertLiveFrames, B!UpsertLiveFrames
  <1>3. OpFits(J!SetMeta("version", 1), B!SetMeta("version", 1))
    <2> DEFINE k == <<"meta", "version">>
    <2>1. Corresponds(J!Meta("version"), k)
      BY DEF Corresponds, Directories, J!Meta
    <2>2. J!Meta("version")[1] = "meta" /\ k[1] = "meta"
      BY DEF J!Meta
    <2>3. OpFits(J!Encode(J!Meta("version"), 1), B!Put(k, 1))
      BY <1>1, <2>1, <2>2
    <2> QED
      BY <2>3 DEF J!SetMeta, B!SetMeta
  <1>4. OpFits(J!UpsertLiveTimingsData(1), B!UpsertLiveTimingsData(1))
    <2>1. Corresponds(J!LiveTimings, B!LiveTimings)
      BY DEF Corresponds
    <2>2. J!LiveTimings[1] = "base" /\ B!LiveTimings[1] = "liveTimings"
      BY DEF J!LiveTimings, B!LiveTimings
    <2> QED
      BY <1>1, <2>1, <2>2 DEF J!UpsertLiveTimingsData, B!UpsertLiveTimingsData
  <1>5. Corresponds(J!LastRaceEvent, B!LastRaceEvent)
    BY DEF Corresponds
  <1>6. J!LastRaceEvent[1] = "base" /\ B!LastRaceEvent[1] = "liveTimings"
    BY DEF J!LastRaceEvent, B!LastRaceEvent
  <1>7. OpFits(J!UpsertLastRaceEvent(1), B!UpsertLastRaceEvent(1))
    BY <1>1, <1>5, <1>6 DEF J!UpsertLastRaceEvent, B!UpsertLastRaceEvent
  <1>8. OpFits(J!ClearLastRaceEvent, B!ClearLastRaceEvent)
    <2> DEFINE f == J!LastRaceEvent
               k == B!LastRaceEvent
               w == [x \in {f} |-> {}]
               v == [x \in {k} |-> {}]
    <2>1. DOMAIN w = {f} /\ w[f] = {} /\ DOMAIN v = {k} /\ v[k] = {}
      OBVIOUS
    <2>2. WriteFits(w) /\ WriteFits(v)
      BY DEF WriteFits
    <2>3. J!ClearLastRaceEvent.err = "" /\ J!ClearLastRaceEvent.write = w /\ B!ClearLastRaceEvent.write = v
      BY DEF J!ClearLastRaceEvent, B!ClearLastRaceEvent, J!Delete, B!Erase, J!Answer, B!Answer
    <2> HIDE DEF w, v
    <2>4. RecordWrites(w, v)
      BY <1>5, <1>6, <2>1, <2>2 DEF RecordWrites
    <2>5. WritesSame(w, v)
      BY <1>5, <2>1, OnePartner DEF WritesSame, SameIn
    <2>6. WritesFit(w, v)
      BY <1>6, <2>1 DEF WritesFit
    <2>7. WritesSound(w, v)
      BY <2>4, <2>5, <2>6, RecordsSound
    <2> QED
      BY <2>3, <2>7 DEF OpFits
  <1> QED
    BY <1>2, <1>3, <1>4, <1>7, <1>8

------------------------------------------------------------------------------
(* What the calls read                                                        *)

LEMMA FileRead ==
  ASSUME NEW f
  PROVE  /\ f \in broken => J!decodeFile(f).err = "EOF" /\ J!decodeFile(f).out = {} /\ J!decodeFile(f).write = <<>>
         /\ f \notin broken /\ f \in DOMAIN disk =>
              J!decodeFile(f).err = "" /\ J!decodeFile(f).out = {disk[f]} /\ J!decodeFile(f).write = <<>>
         /\ f \notin broken /\ f \notin DOMAIN disk =>
              J!decodeFile(f).err = "not exist" /\ J!decodeFile(f).out = {} /\ J!decodeFile(f).write = <<>>
  BY DEF J!decodeFile, J!Failed, J!Ok, J!Answer

LEMMA WeekendRead ==
  ASSUME NamesFit, NEW id
  PROVE  /\ LET f == <<"race_weekends", id>>
                a == J!LoadRaceWeekend(id)
            IN  /\ a.err = "" <=> f \notin broken /\ f \in DOMAIN disk
                /\ a.out = IF f \notin broken /\ f \in DOMAIN disk THEN {disk[f]} ELSE {}
                /\ a.err = "EOF" => f \in broken
         /\ LET k == <<"raceWeekends", id>>
                a == B!LoadRaceWeekend(id)
            IN  /\ a.err = "" <=> k \in DOMAIN db
                /\ a.out = IF k \in DOMAIN db THEN {db[k]} ELSE {}
  <1>1. LET f == <<"race_weekends", id>>
            a == J!LoadRaceWeekend(id)
        IN  /\ a.err = "" <=> f \notin broken /\ f \in DOMAIN disk
            /\ a.out = IF f \notin broken /\ f \in DOMAIN disk THEN {disk[f]} ELSE {}
            /\ a.err = "EOF" => f \in broken
    BY FileRead DEF J!LoadRaceWeekend, J!Failed, J!Answer
  <1>2. LET k == <<"raceWeekends", id>>
            a == B!LoadRaceWeekend(id)
        IN  /\ a.err = "" <=> k \in DOMAIN db
            /\ a.out = IF k \in DOMAIN db THEN {db[k]} ELSE {}
    BY DEF B!LoadRaceWeekend, B!BucketNotFound, B!Get, B!Ok, B!Failed, B!Answer, NamesFit
  <1> QED
    BY <1>1, <1>2

WeekendIn(S, dir, r) == r.weekend = "" \/ <<dir, r.weekend>> \in S

LEMMA ChampionshipRead ==
  ASSUME NamesFit, NEW id
  PROVE  /\ LET f == <<"championships", id>>
                a == J!LoadChampionship(id)
                there == /\ f \notin broken /\ f \in DOMAIN disk
                         /\ WeekendIn(DOMAIN disk \ broken, "race_weekends", disk[f])
            IN  /\ a.err = "" <=> there
                /\ a.out = IF there THEN {disk[f]} ELSE {}
                /\ a.err = "EOF" => broken # {}
         /\ LET k == <<"championships", id>>
                a == B!LoadChampionship(id)
                there == k \in DOMAIN db /\ WeekendIn(DOMAIN db, "raceWeekends", db[k])
            IN  /\ a.err = "" <=> there
                /\ a.out = IF there THEN {db[k]} ELSE {}
  <1>1. ASSUME NEW r, NEW a, a.out = {r} PROVE J!The(a) = r /\ B!The(a) = r
    BY <1>1 DEF J!The, B!The
  <1>2. \A e : /\ J!Failed(e).err = e /\ J!Failed(e).out = {}
               /\ B!Failed(e).err = e /\ B!Failed(e).out = {}
    BY DEF J!Failed, J!Answer, B!Failed, B!Answer
  <1>3. LET f == <<"championships", id>>
            a == J!LoadChampionship(id)
            there == /\ f \notin broken /\ f \in DOMAIN disk
                     /\ WeekendIn(DOMAIN disk \ broken, "race_weekends", disk[f])
        IN  /\ a.err = "" <=> there
            /\ a.out = IF there THEN {disk[f]} ELSE {}
            /\ a.err = "EOF" => broken # {}
    <2> DEFINE f == <<"championships", id>>
               a == J!decodeFile(f)
    <2>1. /\ f \in broken => a.err = "EOF" /\ a.out = {}
          /\ f \notin broken /\ f \in DOMAIN disk => a.err = "" /\ a.out = {disk[f]}
          /\ f \notin broken /\ f \notin DOMAIN disk => a.err = "not exist" /\ a.out = {}
      BY FileRead
    <2>2. J!LoadChampionship(id) = J!WithWeekend(a)
      BY DEF J!LoadChampionship
    <2> HIDE DEF f, a
    <2>3. CASE a.err # ""
      <3>1. J!WithWeekend(a) = a
        BY <2>3 DEF J!WithWeekend
      <3> QED
        BY <2>1, <2>2, <2>3, <3>1 DEF f
    <2>4. CASE a.err = ""
      <3> DEFINE r == disk[f]
                 w == J!LoadRaceWeekend(r.weekend)
      <3>1. f \notin broken /\ f \in DOMAIN disk /\ a.out = {r}
        BY <2>1, <2>4
      <3>2. J!The(a) = r
        BY <1>1, <3>1
      <3>3. /\ w.err = "" <=> <<"race_weekends", r.weekend>> \in DOMAIN disk \ broken
            /\ w.err = "EOF" => broken # {}
        BY WeekendRead
      <3>4. J!WithWeekend(a) = IF r.weekend = "" THEN a ELSE IF w.err # "" THEN J!Failed(w.err) ELSE a
        BY <2>4, <3>2 DEF J!WithWeekend
      <3> HIDE DEF r, w
      <3>5. CASE r.weekend = "" \/ w.err = ""
        <4>1. J!LoadChampionship(id) = a
          BY <2>2, <3>4, <3>5
        <4> QED
          BY <2>4, <3>1, <3>3, <3>5, <4>1 DEF f, WeekendIn, r
      <3>6. CASE r.weekend # "" /\ w.err # ""
        <4>1. J!LoadChampionship(id) = J!Failed(w.err)
          BY <2>2, <3>4, <3>6
        <4>2. J!LoadChampionship(id).err = w.err /\ J!LoadChampionship(id).out = {}
          BY <1>2, <4>1
        <4> QED
          BY <3>3, <3>6, <4>2 DEF f, WeekendIn, r
      <3> QED
        BY <3>5, <3>6
    <2> QED
      BY <2>3, <2>4
  <1>4. LET k == <<"championships", id>>
            a == B!LoadChampionship(id)
            there == k \in DOMAIN db /\ WeekendIn(DOMAIN db, "raceWeekends", db[k])
        IN  /\ a.err = "" <=> there
            /\ a.out = IF there THEN {db[k]} ELSE {}
    <2> DEFINE k == <<"championships", id>>
               a == B!Get(k, B!BucketNotFound, B!Failed("championship not found"))
    <2>1. /\ k \in DOMAIN db => a.err = "" /\ a.out = {db[k]}
          /\ k \notin DOMAIN db => a.err # "" /\ a.out = {}
      BY DEF B!BucketNotFound, B!Get, B!Ok, B!Failed, B!Answer, NamesFit
    <2>2. B!LoadChampionship(id) = B!WithWeekend(a)
      BY DEF B!LoadChampionship
    <2> HIDE DEF k, a
    <2>3. CASE a.err # ""
      <3>1. B!WithWeekend(a) = a
        BY <2>3 DEF B!WithWeekend
      <3> QED
        BY <2>1, <2>2, <2>3, <3>1 DEF k
    <2>4. CASE a.err = ""
      <3> DEFINE r == db[k]
                 w == B!LoadRaceWeekend(r.weekend)
      <3>1. k \in DOMAIN db /\ a.out = {r}
        BY <2>1, <2>4
      <3>2. B!The(a) = r
        BY <1>1, <3>1
      <3>3. w.err = "" <=> <<"raceWeekends", r.weekend>> \in DOMAIN db
        BY WeekendRead
      <3>4. B!WithWeekend(a) = IF r.weekend = "" THEN a ELSE IF w.err # "" THEN B!Failed(w.err) ELSE a
        BY <2>4, <3>2 DEF B!WithWeekend
      <3> HIDE DEF r, w
      <3>5. CASE r.weekend = "" \/ w.err = ""
        <4>1. B!LoadChampionship(id) = a
          BY <2>2, <3>4, <3>5
        <4> QED
          BY <2>4, <3>1, <3>3, <3>5, <4>1 DEF k, WeekendIn, r
      <3>6. CASE r.weekend # "" /\ w.err # ""
        <4>1. B!LoadChampionship(id) = B!Failed(w.err)
          BY <2>2, <3>4, <3>6
        <4>2. B!LoadChampionship(id).err = w.err /\ B!LoadChampionship(id).out = {}
          BY <1>2, <4>1
        <4> QED
          BY <3>3, <3>6, <4>2 DEF k, WeekendIn, r
      <3> QED
        BY <3>5, <3>6
    <2> QED
      BY <2>3, <2>4
  <1> QED
    BY <1>3, <1>4

------------------------------------------------------------------------------
(* Race weekends, championships                                               *)

\* Deleting is reading, marking and writing, in both.
LEMMA DeleteFits ==
  ASSUME NEW f, NEW k, Corresponds(f, k), NEW a, NEW c,
         a.err = "EOF" => broken # {},
         a.err = "" => \E r : a.out = {r} /\ FileIs(f, J!DeletedCopy(r)),
         c.err = "" => \E r : c.out = {r} /\ KeyIs(k, J!DeletedCopy(r)),
         Clean(f) => Same(a, c)
  PROVE  OpFits(J!DeleteLoaded(a, f), B!DeleteLoaded(c, k))
  <1> DEFINE j == J!DeleteLoaded(a, f)
             b == B!DeleteLoaded(c, k)
  <1>1. ASSUME NEW r, NEW x, x.out = {r} PROVE J!The(x) = r /\ B!The(x) = r
    BY <1>1 DEF J!The, B!The
  <1>2. a.err # "" => j.err = a.err /\ j.write = <<>>
    BY DEF J!DeleteLoaded, J!Failed, J!Answer
  <1>3. ASSUME a.err = "", NEW r, a.out = {r} PROVE j.err = "" /\ j.write = [x \in {f} |-> {J!DeletedCopy(r)}]
    <2>1. J!The(a) = r
      BY <1>1, <1>3
    <2> QED
      BY <1>3, <2>1 DEF J!DeleteLoaded, J!Encode, J!Answer
  <1>4. c.err # "" => b.err = c.err /\ b.write = <<>>
    BY DEF B!DeleteLoaded, B!Failed, B!Answer
  <1>5. ASSUME c.err = "", NEW r, c.out = {r} PROVE b.err = "" /\ b.write = [x \in {k} |-> {J!DeletedCopy(r)}]
    <2>1. B!The(c) = r
      BY <1>1, <1>5
    <2>2. B!DeletedCopy(r) = J!DeletedCopy(r)
      BY CopyIs
    <2> QED
      BY <1>5, <2>1, <2>2 DEF B!DeleteLoaded, B!Put, B!Answer
  <1> HIDE DEF j, b
  <1>6. j.err = "EOF" => broken # {}
    BY <1>2, <1>3
  <1>7. (DOMAIN j.write = {} /\ j.write = <<>>) \/ \E r : j.write = [x \in {f} |-> {r}] /\ FileIs(f, r)
    BY <1>2, <1>3, EmptyWrite
  <1>8. (DOMAIN b.write = {} /\ b.write = <<>>) \/ \E r : b.write = [x \in {k} |-> {r}] /\ KeyIs(k, r)
    BY <1>4, <1>5, EmptyWrite
  <1>9. Clean(f) => SameIn(j.write, b.write, f, k)
    <2>1. SUFFICES ASSUME Clean(f) PROVE SameIn(j.write, b.write, f, k)
      OBVIOUS
    <2>2. (a.err = "") = (c.err = "") /\ a.out = c.out
      BY <2>1 DEF Same
    <2>3. CASE a.err # ""
      BY <1>2, <1>4, <2>2, <2>3, EmptyWrite DEF SameIn
    <2>4. CASE a.err = ""
      <3>1. PICK r : a.out = {r}
        BY <2>4
      <3>2. j.write = [x \in {f} |-> {J!DeletedCopy(r)}] /\ b.write = [x \in {k} |-> {J!DeletedCopy(r)}]
        BY <1>3, <1>5, <2>2, <2>4, <3>1
      <3> QED
        BY <3>2 DEF SameIn
    <2> QED
      BY <2>3, <2>4
  <1>10. RecordOp(j, b, f, k)
    BY <1>6, <1>7, <1>8, <1>9 DEF RecordOp
  <1>11. OpFits(j, b)
    BY <1>10, OneRecordFits
  <1> QED
    BY <1>11 DEF j, b

LEMMA RaceWeekendFits ==
  ASSUME StoresInv, broken \subseteq hurt, NEW id
  PROVE  /\ OpFits(J!UpsertRaceWeekend(Record(id, 1)), B!UpsertRaceWeekend(Record(id, 1)))
         /\ OpFits(J!DeleteRaceWeekend(id), B!DeleteRaceWeekend(id))
  <1> DEFINE f == <<"race_weekends", id>>
             k == <<"raceWeekends", id>>
             a == J!LoadRaceWeekend(id)
             c == B!LoadRaceWeekend(id)
  <1>1. Corresponds(f, k)
    BY DEF Corresponds, Directories
  <1>2. ASSUME NEW r, IdFits(id, r) PROVE FileIs(f, r) /\ KeyIs(k, r)
    BY <1>2 DEF FileIs, KeyIs
  <1>3. OpFits(J!UpsertRaceWeekend(Record(id, 1)), B!UpsertRaceWeekend(Record(id, 1)))
    <2> DEFINE r == Record(id, 1)
    <2>1. r.id = id /\ IdFits(id, r)
      BY DEF Record, IdFits
    <2> HIDE DEF r
    <2>2. J!UpsertRaceWeekend(r) = J!Encode(f, r) /\ B!UpsertRaceWeekend(r) = B!Put(k, r)
      BY <2>1 DEF J!UpsertRaceWeekend, B!UpsertRaceWeekend
    <2>3. OpFits(J!UpsertRaceWeekend(r), B!UpsertRaceWeekend(r))
      BY <1>1, <1>2, <2>1, <2>2, BothWrite
    <2> QED
      BY <2>3 DEF r
  <1>4. ASSUME NEW r, IdFits(id, r) PROVE IdFits(id, J!DeletedCopy(r))
    <2>1. r = [id |-> r.id, v |-> r.v, deleted |-> r.deleted] /\ r.id = id
      BY <1>4 DEF IdFits
    <2>2. J!DeletedCopy(r) = [id |-> id, v |-> r.v, deleted |-> TRUE]
      BY <2>1, CopyIs
    <2> QED
      BY <2>2 DEF IdFits
  <1>5. /\ a.err = "" <=> f \notin broken /\ f \in DOMAIN disk
        /\ a.out = IF f \notin broken /\ f \in DOMAIN disk THEN {disk[f]} ELSE {}
        /\ a.err = "EOF" => f \in broken
        /\ c.err = "" <=> k \in DOMAIN db
        /\ c.out = IF k \in DOMAIN db THEN {db[k]} ELSE {}
    BY WeekendRead DEF StoresInv
  <1>6. /\ f \in DOMAIN disk => IdFits(id, disk[f])
        /\ k \in DOMAIN db => IdFits(id, db[k])
    BY DEF StoresInv, RecordsFit
  <1>7. Clean(f) => SameIn(disk, db, f, k) /\ f \notin broken
    BY <1>1 DEF StoresInv, RecordsSame, Clean
  <1>8. J!DeleteRaceWeekend(id) = J!DeleteLoaded(a, f) /\ B!DeleteRaceWeekend(id) = B!DeleteLoaded(c, k)
    BY DEF J!DeleteRaceWeekend, B!DeleteRaceWeekend
  <1> HIDE DEF f, k, a, c
  <1>9. Clean(f) => Same(a, c)
    BY <1>5, <1>7 DEF Same, SameIn
  <1>10. a.err = "" => \E r : a.out = {r} /\ FileIs(f, J!DeletedCopy(r))
    BY <1>2, <1>4, <1>5, <1>6
  <1>11. c.err = "" => \E r : c.out = {r} /\ KeyIs(k, J!DeletedCopy(r))
    BY <1>2, <1>4, <1>5, <1>6
  <1>12. a.err = "EOF" => broken # {}
    BY <1>5
  <1>13. OpFits(J!DeleteLoaded(a, f), B!DeleteLoaded(c, k))
    BY <1>1, <1>9, <1>10, <1>11, <1>12, DeleteFits
  <1> QED
    BY <1>3, <1>8, <1>13

\* Where no crash came between, a race weekend is in both stores or in none.
LEMMA WeekendsSame ==
  ASSUME StoresInv, broken \subseteq hurt, Unhurt({"race_weekends"}), NEW x
  PROVE  <<"race_weekends", x>> \in DOMAIN disk \ broken <=> <<"raceWeekends", x>> \in DOMAIN db
  <1> DEFINE f == <<"race_weekends", x>>
             k == <<"raceWeekends", x>>
  <1>1. Corresponds(f, k)
    BY DEF Corresponds, Directories
  <1>2. f[1] = "race_weekends" /\ f \notin hurt
    BY DEF Unhurt
  <1>3. SameIn(disk, db, f, k) /\ f \notin broken
    BY <1>1, <1>2 DEF StoresInv, RecordsSame, Clean
  <1> QED
    BY <1>3 DEF SameIn

LEMMA ChampionshipsSame ==
  ASSUME StoresInv, broken \subseteq hurt, Unhurt({"championships", "race_weekends"}), NEW id
  PROVE  Same(J!LoadChampionship(id), B!LoadChampionship(id))
  <1> DEFINE f == <<"championships", id>>
             a == J!LoadChampionship(id)
             c == B!LoadChampionship(id)
             there == /\ f \notin broken /\ f \in DOMAIN disk
                      /\ WeekendIn(DOMAIN disk \ broken, "race_weekends", disk[f])
             thereB == f \in DOMAIN db /\ WeekendIn(DOMAIN db, "raceWeekends", db[f])
  <1>1. /\ a.err = "" <=> there
        /\ a.out = IF there THEN {disk[f]} ELSE {}
        /\ c.err = "" <=> thereB
        /\ c.out = IF thereB THEN {db[f]} ELSE {}
    BY ChampionshipRead DEF StoresInv
  <1>2. Corresponds(f, f) /\ f[1] = "championships"
    BY DEF Corresponds, Directories
  <1>3. f \notin hurt /\ Unhurt({"race_weekends"})
    BY <1>2 DEF Unhurt
  <1>4. SameIn(disk, db, f, f) /\ f \notin broken
    BY <1>2, <1>3 DEF StoresInv, RecordsSame, Clean
  <1>5. \A r : WeekendIn(DOMAIN disk \ broken, "race_weekends", r) <=> WeekendIn(DOMAIN db, "raceWeekends", r)
    BY <1>3, WeekendsSame DEF WeekendIn
  <1>6. there <=> thereB
    BY <1>4, <1>5 DEF SameIn
  <1> HIDE DEF a, c, there, thereB
  <1>7. there => disk[f] = db[f]
    BY <1>4 DEF SameIn, there
  <1> QED
    BY <1>1, <1>6, <1>7 DEF Same, a, c

LEMMA ChampionshipFits ==
  ASSUME StoresInv, broken \subseteq hurt, NEW id
  PROVE  /\ \A w : w = "" \/ B!LoadRaceWeekend(w).err = "" =>
              LET c == [id |-> id, v |-> 1, deleted |-> FALSE, weekend |-> w]
              IN  OpFits(J!UpsertChampionship(c), B!UpsertChampionship(c))
         /\ OpFits(J!DeleteChampionship(id), B!DeleteChampionship(id))
  <1> DEFINE f == <<"championships", id>>
             a == J!LoadChampionship(id)
             c == B!LoadChampionship(id)
  <1>1. Corresponds(f, f) /\ f[1] = "championships"
    BY DEF Corresponds, Directories
  <1>2. ASSUME NEW r, WeekendFits(r) PROVE FileIs(f, r) /\ KeyIs(f, r)
    BY <1>1, <1>2 DEF FileIs, KeyIs
  <1>3. ASSUME NEW w, w = "" \/ B!LoadRaceWeekend(w).err = ""
        PROVE  LET r == [id |-> id, v |-> 1, deleted |-> FALSE, weekend |-> w]
               IN  OpFits(J!UpsertChampionship(r), B!UpsertChampionship(r))
    <2> DEFINE r == [id |-> id, v |-> 1, deleted |-> FALSE, weekend |-> w]
    <2>1. w = "" \/ <<"raceWeekends", w>> \in DOMAIN db
      BY <1>3, WeekendRead DEF StoresInv
    <2>2. r.id = id /\ WeekendFits(r)
      BY <2>1 DEF WeekendFits
    <2> HIDE DEF r
    <2>3. J!UpsertChampionship(r) = J!Encode(f, r) /\ B!UpsertChampionship(r) = B!Put(f, r)
      BY <2>2 DEF J!UpsertChampionship, B!UpsertChampionship
    <2>4. OpFits(J!UpsertChampionship(r), B!UpsertChampionship(r))
      BY <1>1, <1>2, <2>2, <2>3, BothWrite
    <2> QED
      BY <2>4 DEF r
  <1>4. ASSUME NEW r, WeekendFits(r) PROVE WeekendFits(J!DeletedCopy(r))
    <2>1. r = [id |-> r.id, v |-> r.v, deleted |-> r.deleted, weekend |-> r.weekend]
      BY <1>4 DEF WeekendFits
    <2>2. J!DeletedCopy(r) = [id |-> r.id, v |-> r.v, deleted |-> TRUE, weekend |-> r.weekend]
      BY <2>1, CopyIs
    <2> DEFINE q == J!DeletedCopy(r)
    <2> HIDE DEF q
    <2>3. q = [id |-> q.id, v |-> q.v, deleted |-> q.deleted, weekend |-> q.weekend] /\ q.weekend = r.weekend
      BY <2>2 DEF q
    <2>4. WeekendFits(q)
      BY <1>4, <2>3 DEF WeekendFits
    <2> QED
      BY <2>4 DEF q
  <1>5. /\ a.err = "" => f \in DOMAIN disk /\ a.out = {disk[f]}
        /\ a.err = "EOF" => broken # {}
        /\ c.err = "" => \E r : c.out = {r}
    BY ChampionshipRead DEF StoresInv
  <1>6. f \in DOMAIN disk => WeekendFits(disk[f])
    BY DEF StoresInv, RecordsFit
  <1>7. Clean(f) => Same(a, c)
    BY <1>1, ChampionshipsSame DEF Clean
  <1>8. J!DeleteChampionship(id) = J!DeleteLoaded(a, f) /\ B!DeleteChampionship(id) = B!DeleteLoaded(c, f)
    BY DEF J!DeleteChampionship, B!DeleteChampionship
  <1>9. \A r : KeyIs(f, r)
    BY <1>1 DEF KeyIs
  <1> HIDE DEF f, a, c
  <1>10. a.err = "" => \E r : a.out = {r} /\ FileIs(f, J!DeletedCopy(r))
    BY <1>2, <1>4, <1>5, <1>6
  <1>11. c.err = "" => \E r : c.out = {r} /\ KeyIs(f, J!DeletedCopy(r))
    BY <1>5, <1>9
  <1>12. OpFits(J!DeleteLoaded(a, f), B!DeleteLoaded(c, f))
    BY <1>1, <1>5, <1>7, <1>10, <1>11, DeleteFits
  <1> QED
    BY <1>3, <1>8, <1>12

------------------------------------------------------------------------------
(* Lists, accounts                                                            *)

FileIn(dir, x) == <<dir, x>> \in DOMAIN disk /\ <<dir, x>> \notin broken

\* A file of a directory has a name there.
LEMMA FilesListed ==
  ASSUME NamesFit, NEW dir
  PROVE  /\ \A f \in J!listFiles(dir) : f = <<dir, f[2]>>
         /\ \A x : FileIn(dir, x) => <<dir, x>> \in J!listFiles(dir)
         /\ \A k \in DOMAIN db : k[1] = dir => k = <<dir, k[2]>>
  BY DEF J!listFiles, NamesFit, HaveNames, FileIn

LEMMA LiveKeys ==
  ASSUME NamesFit, NEW bucket
  PROVE  /\ B!Live(bucket).err = ""
         /\ \A r : r \in B!Live(bucket).out <=>
                     ~r.deleted /\ \E x : <<bucket, x>> \in DOMAIN db /\ r = db[<<bucket, x>>]
  <1>1. B!Live(bucket).err = "" /\ B!Live(bucket).out = {r \in B!AllIn(bucket) : ~r.deleted}
    BY DEF B!Live, B!Ok, B!Answer
  <1>2. \A r : r \in B!AllIn(bucket) <=> \E k \in DOMAIN db : k[1] = bucket /\ r = db[k]
    BY DEF B!AllIn
  <1>3. \A r : r \in B!AllIn(bucket) <=> \E x : <<bucket, x>> \in DOMAIN db /\ r = db[<<bucket, x>>]
    <2>1. ASSUME NEW k \in DOMAIN db, k[1] = bucket PROVE \E x : k = <<bucket, x>>
      BY <2>1, FilesListed
    <2>2. \A x : LET k == <<bucket, x>> IN k[1] = bucket
      OBVIOUS
    <2>3. ASSUME NEW r, NEW k \in DOMAIN db, k[1] = bucket, r = db[k]
          PROVE  \E x : <<bucket, x>> \in DOMAIN db /\ r = db[<<bucket, x>>]
      BY <2>1, <2>3
    <2>4. ASSUME NEW r, NEW x, <<bucket, x>> \in DOMAIN db, r = db[<<bucket, x>>]
          PROVE  \E k \in DOMAIN db : k[1] = bucket /\ r = db[k]
      BY <2>2, <2>4
    <2> QED
      BY <1>2, <2>3, <2>4
  <1> QED
    BY <1>1, <1>3

LEMMA AccountRead ==
  ASSUME NamesFit, NEW x
  PROVE  /\ LET f == <<"accounts", x>>
                a == J!FindAccountByName(x)
            IN  /\ a.err = "" <=> FileIn("accounts", x)
                /\ a.out = IF FileIn("accounts", x) THEN {disk[f]} ELSE {}
                /\ a.err = "EOF" => f \in broken
         /\ LET k == <<"accounts", x>>
                a == B!FindAccountByName(x)
            IN  /\ a.err = "" <=> k \in DOMAIN db
                /\ a.out = IF k \in DOMAIN db THEN {db[k]} ELSE {}
  <1>1. LET f == <<"accounts", x>>
            a == J!FindAccountByName(x)
        IN  /\ a.err = "" <=> FileIn("accounts", x)
            /\ a.out = IF FileIn("accounts", x) THEN {disk[f]} ELSE {}
            /\ a.err = "EOF" => f \in broken
    BY FileRead DEF J!FindAccountByName, J!Failed, J!Answer, FileIn
  <1>2. LET k == <<"accounts", x>>
            a == B!FindAccountByName(x)
        IN  /\ a.err = "" <=> k \in DOMAIN db
            /\ a.out = IF k \in DOMAIN db THEN {db[k]} ELSE {}
    BY DEF B!FindAccountByName, B!BucketNotFound, B!Get, B!Ok, B!Failed, B!Answer, NamesFit
  <1> QED
    BY <1>1, <1>2

LEMMA AccountsListed ==
  ASSUME NamesFit
  PROVE  /\ J!ListAccounts.err = "" /\ B!ListAccounts.err = ""
         /\ \A r : r \in J!ListAccounts.out <=>
                     ~r.deleted /\ \E x : FileIn("accounts", x) /\ r = disk[<<"accounts", x>>]
         /\ \A r : r \in B!ListAccounts.out <=>
                     ~r.deleted /\ \E x : <<"accounts", x>> \in DOMAIN db /\ r = db[<<"accounts", x>>]
  <1> DEFINE load(f) == J!FindAccountByName(f[2])
             files == {f \in J!listFiles("accounts") : load(f).err = ""}
  <1>1. J!ListAccounts.err = "" /\ J!ListAccounts.out = {r \in {J!The(load(f)) : f \in files} : ~r.deleted}
    BY DEF J!ListAccounts, J!Live, J!Ok, J!Answer
  <1>2. \A f \in J!listFiles("accounts") : f = <<"accounts", f[2]>>
    BY FilesListed
  <1>3. \A f \in J!listFiles("accounts") : f \in files <=> FileIn("accounts", f[2])
    BY AccountRead
  <1>4. ASSUME NEW f \in files PROVE J!The(load(f)) = disk[f]
    <2>1. FileIn("accounts", f[2]) /\ f = <<"accounts", f[2]>>
      BY <1>2, <1>3
    <2>2. load(f).out = {disk[f]}
      BY <2>1, AccountRead
    <2> HIDE DEF load
    <2> QED
      BY <2>2 DEF J!The
  <1>5. \A x : FileIn("accounts", x) => <<"accounts", x>> \in J!listFiles("accounts")
    BY FilesListed
  <1>6. \A x : FileIn("accounts", x) => <<"accounts", x>> \in files
    BY <1>3, <1>5
  <1> HIDE DEF load, files
  <1>7. \A r : r \in J!ListAccounts.out <=> ~r.deleted /\ \E f \in files : r = disk[f]
    BY <1>1, <1>4
  <1>8. \A f \in files : f = <<"accounts", f[2]>> /\ FileIn("accounts", f[2])
    BY <1>2, <1>3 DEF files
  <1>9. \A r : r \in J!ListAccounts.out <=>
                 ~r.deleted /\ \E x : FileIn("accounts", x) /\ r = disk[<<"accounts", x>>]
    <2>1. ASSUME NEW r, NEW f \in files, r = disk[f] PROVE \E x : FileIn("accounts", x) /\ r = disk[<<"accounts", x>>]
      BY <1>8, <2>1
    <2>2. ASSUME NEW r, NEW x, FileIn("accounts", x), r = disk[<<"accounts", x>>] PROVE \E f \in files : r = disk[f]
      BY <1>6, <2>2
    <2>3. ASSUME NEW r
          PROVE  (\E f \in files : r = disk[f]) <=> \E x : FileIn("accounts", x) /\ r = disk[<<"accounts", x>>]
      BY <2>1, <2>2
    <2> QED
      BY <1>7, <2>3
  <1>10. B!ListAccounts.err = "" /\ \A r : r \in B!ListAccounts.out <=>
                 ~r.deleted /\ \E x : <<"accounts", x>> \in DOMAIN db /\ r = db[<<"accounts", x>>]
    BY LiveKeys DEF B!ListAccounts
  <1> QED
    BY <1>1, <1>9, <1>10

LEMMA AccountsSame ==
  ASSUME StoresInv, broken \subseteq hurt, Unhurt({"accounts"})
  PROVE  /\ \A x : FileIn("accounts", x) <=> <<"accounts", x>> \in DOMAIN db
         /\ \A x : FileIn("accounts", x) => disk[<<"accounts", x>>] = db[<<"accounts", x>>]
         /\ J!ListAccounts.out = B!ListAccounts.out
         /\ \A x : J!FindAccountByID(x) = B!FindAccountByID(x)
  <1>1. ASSUME NEW x
        PROVE  /\ FileIn("accounts", x) <=> <<"accounts", x>> \in DOMAIN db
               /\ FileIn("accounts", x) => disk[<<"accounts", x>>] = db[<<"accounts", x>>]
    <2> DEFINE f == <<"accounts", x>>
    <2>1. Corresponds(f, f)
      BY DEF Corresponds, Directories
    <2>2. f[1] = "accounts" /\ f \notin hurt
      BY DEF Unhurt
    <2>3. SameIn(disk, db, f, f) /\ f \notin broken
      BY <2>1, <2>2 DEF StoresInv, RecordsSame, Clean
    <2> QED
      BY <2>3 DEF SameIn, FileIn
  <1>2. \A r : r \in J!ListAccounts.out <=> r \in B!ListAccounts.out
    <2>1. \A r : (\E x : FileIn("accounts", x) /\ r = disk[<<"accounts", x>>])
                    <=> \E x : <<"accounts", x>> \in DOMAIN db /\ r = db[<<"accounts", x>>]
      BY <1>1
    <2>2. NamesFit
      BY DEF StoresInv
    <2>3. \A r : r \in J!ListAccounts.out <=> ~r.deleted /\ \E x : FileIn("accounts", x) /\ r = disk[<<"accounts", x>>]
      BY <2>2, AccountsListed
    <2>4. \A r : r \in B!ListAccounts.out <=> ~r.deleted /\ \E x : <<"accounts", x>> \in DOMAIN db /\ r = db[<<"accounts", x>>]
      BY <2>2, AccountsListed
    <2> QED
      BY <2>1, <2>3, <2>4
  <1>3. J!ListAccounts.out = B!ListAccounts.out
    BY <1>2
  <1>4. ASSUME NEW x PROVE J!FindAccountByID(x) = B!FindAccountByID(x)
    BY <1>3 DEF J!FindAccountByID, B!FindAccountByID, J!Ok, B!Ok, J!Failed, B!Failed, J!Answer, B!Answer
  <1> QED
    BY <1>1, <1>3, <1>4

\* An account is written, to one store or to both, under one name or two.
AccountWrite(w) == (DOMAIN w = {} /\ w = <<>>) \/ \E n, r : w = [x \in {<<"accounts", n>>} |-> {r}]

LEMMA AccountWriteFits ==
  ASSUME NEW w, AccountWrite(w)
  PROVE  WriteFits(w) /\ \A f \in DOMAIN w : \E n : f = <<"accounts", n>>
  <1>1. CASE DOMAIN w = {} /\ w = <<>>
    BY <1>1, EmptyWrite
  <1>2. CASE \E n, r : w = [x \in {<<"accounts", n>>} |-> {r}]
    <2>1. PICK n, r : w = [x \in {<<"accounts", n>>} |-> {r}]
      BY <1>2
    <2> DEFINE f == <<"accounts", n>>
               d == {r}
    <2>2. w = [x \in {f} |-> d] /\ \E v : d = {v}
      BY <2>1
    <2>3. DOMAIN w = {f}
      BY <2>1
    <2> HIDE DEF d
    <2>4. WriteFits(w)
      BY <2>2 DEF WriteFits
    <2> QED
      BY <2>3, <2>4
  <1> QED
    BY <1>1, <1>2 DEF AccountWrite

LEMMA AccountOpFits ==
  ASSUME NEW j, NEW b, j.err = "EOF" => broken # {}, AccountWrite(j.write), AccountWrite(b.write),
         Unhurt({"accounts"}) => j.write = b.write
  PROVE  OpFits(j, b)
  <1> DEFINE w == j.write
             v == b.write
  <1>1. AccountWrite(w) /\ AccountWrite(v) /\ (Unhurt({"accounts"}) => w = v)
    OBVIOUS
  <1> HIDE DEF w, v
  <1>2. WriteFits(w) /\ WriteFits(v)
    BY <1>1, AccountWriteFits
  <1>3. /\ \A f \in DOMAIN w : \E n : f = <<"accounts", n>>
        /\ \A f \in DOMAIN v : \E n : f = <<"accounts", n>>
    BY <1>1, AccountWriteFits
  <1>4. \A n : Corresponds(<<"accounts", n>>, <<"accounts", n>>)
    BY DEF Corresponds, Directories
  <1>5. \A n : LET f == <<"accounts", n>> IN f[1] = "accounts"
    OBVIOUS
  <1>6. RecordWrites(w, v)
    BY <1>2, <1>3, <1>4, <1>5 DEF RecordWrites
  <1>7. WritesSame(w, v)
    <2>1. SUFFICES ASSUME NEW f, NEW k, Corresponds(f, k), Clean(f) PROVE SameIn(w, v, f, k)
      BY DEF WritesSame
    <2>2. CASE \E n : f = <<"accounts", n>>
      <3>1. f = k /\ f[1] = "accounts"
        BY <1>4, <2>1, <2>2, OnePartner
      <3>2. w = v
        BY <1>1, <2>1, <3>1 DEF Clean
      <3> QED
        BY <3>1, <3>2 DEF SameIn
    <2>3. CASE ~ \E n : f = <<"accounts", n>>
      <3>1. ~ \E n : k = <<"accounts", n>>
        BY <1>4, <2>1, <2>3, OnePartner
      <3> QED
        BY <1>3, <2>3, <3>1 DEF SameIn
    <2> QED
      BY <2>2, <2>3
  <1>8. WritesFit(w, v)
    BY <1>3 DEF WritesFit
  <1>9. WritesSound(w, v)
    BY <1>6, <1>7, <1>8, RecordsSound
  <1> QED
    BY <1>9 DEF w, v, OpFits

LEMMA AccountFits ==
  ASSUME StoresInv, broken \subseteq hurt, NEW id
  PROVE  /\ \A name : LET a == [id |-> id, v |-> 1, deleted |-> FALSE, name |-> name]
                      IN  OpFits(J!UpsertAccount(a), B!UpsertAccount(a))
         /\ OpFits(J!DeleteAccount(id), B!DeleteAccount(id))
  <1>1. ASSUME NEW a
        PROVE  /\ J!UpsertAccount(a).err = "" /\ J!UpsertAccount(a).write = [x \in {<<"accounts", a.name>>} |-> {a}]
               /\ B!UpsertAccount(a).err = "" /\ B!UpsertAccount(a).write = [x \in {<<"accounts", a.name>>} |-> {a}]
    BY DEF J!UpsertAccount, J!Encode, J!Answer, B!UpsertAccount, B!Put, B!Answer
  <1>2. ASSUME NEW a
        PROVE  /\ AccountWrite(J!UpsertAccount(a).write) /\ AccountWrite(B!UpsertAccount(a).write)
               /\ J!UpsertAccount(a).write = B!UpsertAccount(a).write /\ J!UpsertAccount(a).err # "EOF"
    <2>1. J!UpsertAccount(a).write = [x \in {<<"accounts", a.name>>} |-> {a}]
      BY <1>1
    <2>2. B!UpsertAccount(a).write = J!UpsertAccount(a).write /\ J!UpsertAccount(a).err # "EOF"
      BY <1>1
    <2>3. AccountWrite(J!UpsertAccount(a).write)
      BY <2>1, Zenon DEF AccountWrite
    <2> QED
      BY <2>2, <2>3
  <1>3. \A a : OpFits(J!UpsertAccount(a), B!UpsertAccount(a))
    BY <1>2, AccountOpFits
  <1>4. OpFits(J!DeleteAccount(id), B!DeleteAccount(id))
    <2> DEFINE a == J!FindAccountByID(id)
               c == B!FindAccountByID(id)
               j == J!DeleteAccount(id)
               b == B!DeleteAccount(id)
    <2>1. a.err # "EOF"
      BY DEF J!FindAccountByID, J!Failed, J!Ok, J!Answer
    <2>2. j = IF a.err # "" THEN J!Failed(a.err) ELSE J!UpsertAccount(J!DeletedCopy(J!The(a)))
      BY DEF J!DeleteAccount
    <2>3. b = IF c.err # "" THEN B!Failed(c.err) ELSE B!UpsertAccount(J!DeletedCopy(J!The(c)))
      BY DEF B!DeleteAccount, B!The, J!The, B!DeletedCopy, J!DeletedCopy
    <2>4. \A e : J!Failed(e).err = e /\ J!Failed(e).write = <<>> /\ B!Failed(e).err = e /\ B!Failed(e).write = <<>>
      BY DEF J!Failed, J!Answer, B!Failed, B!Answer
    <2>5. Unhurt({"accounts"}) => a = c
      BY AccountsSame
    <2> HIDE DEF a, c, j, b
    <2>6. AccountWrite(<<>>)
      BY EmptyWrite DEF AccountWrite
    <2>7. AccountWrite(j.write) /\ j.err # "EOF"
      BY <1>2, <2>1, <2>2, <2>4, <2>6
    <2>8. AccountWrite(b.write)
      BY <1>2, <2>3, <2>4, <2>6
    <2>9. a = c => j.write = b.write
      BY <1>2, <2>2, <2>3, <2>4
    <2>10. OpFits(j, b)
      BY <2>5, <2>7, <2>8, <2>9, AccountOpFits
    <2> QED
      BY <2>10 DEF j, b
  <1> QED
    BY <1>3, <1>4

------------------------------------------------------------------------------
(* Options                                                                    *)

OptionFiles == {<<J!Options, B!Options>>, <<PluginFile, PluginKey>>}

LEMMA OptionNames ==
  /\ J!Options # PluginFile /\ J!Options # J!Entrants /\ J!Options # J!AuditFile
  /\ PluginFile # J!Entrants /\ PluginFile # J!AuditFile
  /\ B!Options # PluginKey /\ B!Options # B!Audit /\ PluginKey # B!Audit
  /\ B!Options[1] = "serverOptions" /\ PluginKey[1] = "serverOptions"
  /\ J!Options[1] = "base" /\ PluginFile[1] = "base"
  /\ \E d, x : J!Options = <<d, x>>
  /\ \E d, x : PluginFile = <<d, x>>
  /\ \E d, x : B!Options = <<d, x>>
  /\ \E d, x : PluginKey = <<d, x>>
  BY DEF J!Options, PluginFile, J!Entrants, J!AuditFile, B!Options, PluginKey, B!Audit

LEMMA OptionOpFits ==
  ASSUME NEW f, NEW k, <<f, k>> \in OptionFiles, NEW j, NEW b,
         j.err = "EOF" => broken # {},
         WriteFits(j.write), WriteFits(b.write),
         DOMAIN j.write \subseteq {f}, DOMAIN b.write \subseteq {k},
         OptionsWritten(j.write, b.write, f, k),
         f = J!Options /\ f \in DOMAIN j.write => k \in DOMAIN b.write \/ "serverOptions" \in buckets
  PROVE  OpFits(j, b)
  <1> DEFINE w == j.write
             v == b.write
  <1>1. /\ WriteFits(w) /\ WriteFits(v) /\ DOMAIN w \subseteq {f} /\ DOMAIN v \subseteq {k} /\ OptionsWritten(w, v, f, k)
        /\ f = J!Options /\ f \in DOMAIN w => k \in DOMAIN v \/ "serverOptions" \in buckets
    OBVIOUS
  <1> HIDE DEF w, v
  <1>2. \/ f = J!Options /\ k = B!Options
        \/ f = PluginFile /\ k = PluginKey
    BY DEF OptionFiles
  <1>3. /\ f # J!Entrants /\ f # J!AuditFile /\ k # B!Audit /\ k[1] = "serverOptions" /\ f[1] = "base"
        /\ (\E d, x : f = <<d, x>>) /\ (\E d, x : k = <<d, x>>)
    BY <1>2, OptionNames
  <1>4. WritesNamed(w, v)
    BY <1>1, <1>2, <1>3, OptionNames DEF WritesNamed, HaveNames
  <1>5. WritesSame(w, v)
    <2>1. ASSUME NEW g, NEW l, Corresponds(g, l) PROVE g # f /\ l # k
      BY <1>2, <2>1, OtherNames
    <2> QED
      BY <1>1, <2>1 DEF WritesSame, SameIn
  <1>6. WritesFit(w, v)
    <2>1. \A d \in {"custom_races", "race_weekends", "championships"} : \A x : f # <<d, x>>
      BY <1>3
    <2>2. \A d \in {"customRaces", "raceWeekends"} : \A x : k # <<d, x>>
      BY <1>3
    <2> QED
      BY <1>1, <2>1, <2>2 DEF WritesFit
  <1>7. WritesOptions(w, v)
    BY <1>1, <1>2, OptionNames DEF WritesOptions, OptionsWritten
  <1>8. WritesEntrants(w, v)
    <2>1. \A g : k # <<"entrants", g>>
      BY <1>3
    <2> QED
      BY <1>1, <1>3, <2>1 DEF WritesEntrants, Lists
  <1>9. WritesAudit(w, v)
    BY <1>1, <1>3 DEF WritesAudit
  <1>10. WritesSound(w, v)
    BY <1>1, <1>4, <1>5, <1>6, <1>7, <1>8, <1>9 DEF WritesSound
  <1> QED
    BY <1>10 DEF w, v, OpFits

\* Options are saved.
LEMMA OptionsSaved ==
  ASSUME NEW f, NEW k, <<f, k>> \in OptionFiles, NEW v
  PROVE  OpFits(J!Encode(f, v), B!Put(k, v))
  <1> DEFINE j == J!Encode(f, v)
             b == B!Put(k, v)
  <1>1. j.err = "" /\ j.write = [x \in {f} |-> {v}] /\ b.write = [x \in {k} |-> {v}]
    BY DEF J!Encode, J!Answer, B!Put, B!Answer
  <1> HIDE DEF j, b
  <1>2. WriteFits(j.write) /\ WriteFits(b.write)
    <2> DEFINE d == {v}
    <2>1. j.write = [x \in {f} |-> d] /\ b.write = [x \in {k} |-> d] /\ \E y : d = {y}
      BY <1>1
    <2> HIDE DEF d
    <2> QED
      BY <2>1 DEF WriteFits
  <1>3. DOMAIN j.write = {f} /\ DOMAIN b.write = {k} /\ j.write[f] = {v} /\ b.write[k] = {v}
    BY <1>1
  <1>4. OptionsWritten(j.write, b.write, f, k)
    BY <1>3 DEF OptionsWritten
  <1>5. OpFits(j, b)
    BY <1>1, <1>2, <1>3, <1>4, OptionOpFits
  <1> QED
    BY <1>5 DEF j, b

\* What loading the options answers, and what it writes.
LEMMA DefaultsAre ==
  /\ DefaultFiles[J!Options] = "default" /\ DefaultFiles[PluginFile] = "default"
  /\ DefaultKeys[B!Options] = "default" /\ DefaultKeys[PluginKey] = "default"
  BY DEF DefaultFiles, DefaultKeys, PluginFile, PluginKey, J!Options, B!Options

LEMMA OptionsLoaded ==
  ASSUME NEW f, f \in {J!Options, PluginFile}
  PROVE  LET a == J!LoadOrCreate(f)
         IN  /\ f \in broken => a.err = "EOF" /\ a.write = <<>>
             /\ f \notin broken => a.err = "" /\ a.out = {ValueIn(disk, f, "default")}
             /\ f \notin broken /\ f \in DOMAIN disk => a.write = <<>>
             /\ f \notin broken /\ f \notin DOMAIN disk => a.write = [x \in {f} |-> {"default"}]
  <1> DEFINE a == J!decodeFile(f)
  <1>1. DefaultFiles[f] = "default"
    BY DefaultsAre
  <1>2. J!LoadOrCreate(f) = IF a.err = "not exist" THEN J!Answer("", {DefaultFiles[f]}, [x \in {f} |-> {DefaultFiles[f]}]) ELSE a
    BY DEF J!LoadOrCreate
  <1>3. J!LoadOrCreate(f) = IF a.err = "not exist" THEN J!Answer("", {"default"}, [x \in {f} |-> {"default"}]) ELSE a
    BY <1>1, <1>2
  <1>4. /\ f \in broken => a.err = "EOF" /\ a.out = {} /\ a.write = <<>>
        /\ f \notin broken /\ f \in DOMAIN disk =>
             a.err = "" /\ a.out = {disk[f]} /\ a.write = <<>>
        /\ f \notin broken /\ f \notin DOMAIN disk =>
             a.err = "not exist" /\ a.out = {} /\ a.write = <<>>
    BY FileRead
  <1> HIDE DEF a
  <1>5. CASE f \in broken \/ f \in DOMAIN disk
    <2>1. J!LoadOrCreate(f) = a
      BY <1>3, <1>4, <1>5
    <2> QED
      BY <1>4, <1>5, <2>1 DEF ValueIn
  <1>6. CASE f \notin broken /\ f \notin DOMAIN disk
    <2>1. J!LoadOrCreate(f) = J!Answer("", {"default"}, [x \in {f} |-> {"default"}])
      BY <1>3, <1>4, <1>6
    <2> QED
      <3> DEFINE w == [x \in {f} |-> {"default"}]
                 o == {"default"}
      <3>2. J!LoadOrCreate(f) = J!Answer("", o, w)
        BY <2>1
      <3> HIDE DEF w, o
      <3>3. J!LoadOrCreate(f).err = "" /\ J!LoadOrCreate(f).out = o /\ J!LoadOrCreate(f).write = w
        <4>1. J!Answer("", o, w).err = "" /\ J!Answer("", o, w).out = o /\ J!Answer("", o, w).write = w
          BY DEF J!Answer
        <4> QED
          BY <3>2, <4>1
      <3>4. o = {ValueIn(disk, f, "default")}
        BY <1>6 DEF ValueIn, o
      <3> QED
        BY <1>6, <3>3, <3>4 DEF w
  <1> QED
    BY <1>5, <1>6

LEMMA KeysLoaded ==
  ASSUME NamesFit
  PROVE  /\ LET c == B!LoadServerOptions
            IN  /\ c.err = "" /\ c.out = {ValueIn(db, B!Options, "default")}
                /\ "serverOptions" \in buckets => c.write = <<>>
                /\ "serverOptions" \notin buckets => c.write = [x \in {B!Options} |-> {"default"}]
         /\ LET c == B!LoadPluginOptions(PluginKey)
            IN  c.out = {ValueIn(db, PluginKey, "default")} /\ c.write = <<>>
  <1>1. LET c == B!LoadServerOptions
        IN  /\ c.err = "" /\ c.out = {ValueIn(db, B!Options, "default")}
            /\ "serverOptions" \in buckets => c.write = <<>>
            /\ "serverOptions" \notin buckets => c.write = [x \in {B!Options} |-> {"default"}]
    <2>1. B!LoadServerOptions =
            IF "serverOptions" \notin buckets THEN B!Answer("", {"default"}, [x \in {B!Options} |-> {"default"}])
            ELSE IF B!Options \in DOMAIN db THEN B!Answer("", {db[B!Options]}, <<>>)
            ELSE B!Answer("", {"default"}, <<>>)
      <3>1. B!LoadServerOptions =
            IF "serverOptions" \notin buckets THEN B!Answer("", {DefaultKeys[B!Options]}, [x \in {B!Options} |-> {DefaultKeys[B!Options]}])
            ELSE IF B!Options \in DOMAIN db THEN B!Answer("", {db[B!Options]}, <<>>)
            ELSE B!Answer("", {DefaultKeys[B!Options]}, <<>>)
        BY OptionNames DEF B!LoadServerOptions, B!Get, B!Ok
      <3> QED
        BY <3>1, DefaultsAre
    <2>2. "serverOptions" \notin buckets => B!Options \notin DOMAIN db
      BY OptionNames DEF NamesFit
    <2>3. \A o, w : B!Answer("", o, w).err = "" /\ B!Answer("", o, w).out = o /\ B!Answer("", o, w).write = w
      BY DEF B!Answer
    <2>4. CASE "serverOptions" \notin buckets
      <3>1. B!LoadServerOptions = B!Answer("", {"default"}, [x \in {B!Options} |-> {"default"}])
        BY <2>1, <2>4
      <3> QED
        BY <2>2, <2>4, <3>1 DEF B!Answer, ValueIn
    <2>5. CASE "serverOptions" \in buckets
      <3>1. B!LoadServerOptions = B!Answer("", {ValueIn(db, B!Options, "default")}, <<>>)
        BY <2>1, <2>5 DEF ValueIn
      <3> QED
        BY <2>3, <2>5, <3>1
    <2> QED
      BY <2>4, <2>5
  <1>2. LET c == B!LoadPluginOptions(PluginKey)
        IN  c.out = {ValueIn(db, PluginKey, "default")} /\ c.write = <<>>
    <2>1. DefaultKeys[PluginKey] = "default"
      BY DefaultsAre
    <2>2. "serverOptions" \notin buckets => PluginKey \notin DOMAIN db
      BY OptionNames DEF NamesFit
    <2>3. B!LoadPluginOptions(PluginKey) =
            IF "serverOptions" \notin buckets THEN B!Answer("bucket not found", {DefaultKeys[PluginKey]}, <<>>)
            ELSE IF PluginKey \in DOMAIN db THEN B!Answer("", {db[PluginKey]}, <<>>)
            ELSE B!Answer("", {DefaultKeys[PluginKey]}, <<>>)
      BY OptionNames DEF B!LoadPluginOptions, B!Get, B!Ok
    <2> QED
      <3>1. CASE PluginKey \in DOMAIN db
        <4>1. B!LoadPluginOptions(PluginKey) = B!Answer("", {ValueIn(db, PluginKey, "default")}, <<>>)
          BY <2>2, <2>3, <3>1 DEF ValueIn
        <4> DEFINE o == {ValueIn(db, PluginKey, "default")}
        <4>2. B!Answer("", o, <<>>).out = o /\ B!Answer("", o, <<>>).write = <<>>
          BY DEF B!Answer
        <4> QED
          BY <4>1, <4>2
      <3>2. CASE PluginKey \notin DOMAIN db
        <4>1. \E e : B!LoadPluginOptions(PluginKey) = B!Answer(e, {DefaultKeys[PluginKey]}, <<>>)
          BY <2>3, <3>2
        <4>2. DefaultKeys[PluginKey] = ValueIn(db, PluginKey, "default")
          BY <2>1, <3>2 DEF ValueIn
        <4> QED
          BY <4>1, <4>2 DEF B!Answer
      <3> QED
        BY <3>1, <3>2
  <1> QED
    BY <1>1, <1>2

LEMMA OptionsFit ==
  ASSUME StoresInv, broken \subseteq hurt
  PROVE  /\ \A v : OpFits(J!UpsertServerOptions(v), B!UpsertServerOptions(v))
         /\ OpFits(J!LoadServerOptions, B!LoadServerOptions)
         /\ \A v : OpFits(J!UpsertPluginOptions(PluginFile, v), B!UpsertPluginOptions(PluginKey, v))
         /\ OpFits(J!LoadPluginOptions(PluginFile), B!LoadPluginOptions(PluginKey))
  <1>1. <<J!Options, B!Options>> \in OptionFiles /\ <<PluginFile, PluginKey>> \in OptionFiles
    BY DEF OptionFiles
  <1>2. \A v : OpFits(J!UpsertServerOptions(v), B!UpsertServerOptions(v))
    BY <1>1, OptionsSaved DEF J!UpsertServerOptions, B!UpsertServerOptions
  <1>3. \A v : OpFits(J!UpsertPluginOptions(PluginFile, v), B!UpsertPluginOptions(PluginKey, v))
    BY <1>1, OptionsSaved DEF J!UpsertPluginOptions, B!UpsertPluginOptions
  <1>4. ASSUME NEW f, NEW k, <<f, k>> \in OptionFiles, NEW j, NEW b,
               f \in broken => j.err = "EOF" /\ j.write = <<>>,
               f \notin broken => j.err = "",
               f \notin broken /\ f \in DOMAIN disk => j.write = <<>>,
               f \notin broken /\ f \notin DOMAIN disk => j.write = [x \in {f} |-> {"default"}],
               b.write = <<>> \/ b.write = [x \in {k} |-> {"default"}],
               b.write # <<>> => "serverOptions" \notin buckets /\ f = J!Options,
               f = J!Options => b.write # <<>> \/ "serverOptions" \in buckets
        PROVE  OpFits(j, b)
    <2> DEFINE d == {"default"}
    <2>1. \E y : d = {y}
      OBVIOUS
    <2>2. j.write = <<>> \/ j.write = [x \in {f} |-> d]
      BY <1>4
    <2>3. b.write = <<>> \/ b.write = [x \in {k} |-> d]
      BY <1>4
    <2>4. d = {"default"}
      OBVIOUS
    <2> HIDE DEF d
    <2>5. WriteFits(j.write) /\ WriteFits(b.write)
      BY <2>1, <2>2, <2>3 DEF WriteFits
    <2>6. DOMAIN j.write \subseteq {f} /\ (f \in DOMAIN j.write => j.write[f] = d)
      BY <2>2, EmptyWrite
    <2>7. DOMAIN b.write \subseteq {k} /\ (k \in DOMAIN b.write => b.write[k] = d /\ b.write # <<>>)
      BY <2>3, EmptyWrite
    <2>8. f \notin DOMAIN j.write => f \in broken \/ f \in DOMAIN disk
      BY <1>4, <2>6
    <2>9. f \in DOMAIN j.write => f \notin broken /\ f \notin DOMAIN disk
      BY <1>4, EmptyWrite
    <2>10. OptionsAgree(f, k)
      BY <1>4 DEF OptionFiles, StoresInv, OptionsSame
    <2>11. f = J!Options /\ f \in DOMAIN disk => "serverOptions" \in buckets
      BY DEF StoresInv, NamesFit
    <2>12. OptionsWritten(j.write, b.write, f, k)
      <3>1. SUFFICES ASSUME f \notin hurt \cup overlapped
                     PROVE  /\ f \notin DOMAIN j.write => k \notin DOMAIN b.write
                            /\ f \in DOMAIN j.write =>
                                 /\ j.write[f] # {}
                                 /\ IF k \in DOMAIN b.write THEN b.write[k] = j.write[f]
                                    ELSE j.write[f] = {ValueIn(db, k, "default")}
        BY DEF OptionsWritten
      <3>2. f \notin DOMAIN j.write => k \notin DOMAIN b.write
        BY <1>4, <2>7, <2>8, <2>11, <3>1
      <3>3. ASSUME f \in DOMAIN j.write PROVE ValueIn(db, k, "default") = "default"
        BY <2>9, <2>10, <3>1, <3>3 DEF OptionsAgree, ValueIn
      <3> QED
        BY <2>4, <2>6, <2>7, <3>2, <3>3
    <2>13. j.err = "EOF" => broken # {}
      BY <1>4
    <2>14. b.write # <<>> => k \in DOMAIN b.write
      BY <2>3
    <2> QED
      BY <1>4, <2>5, <2>6, <2>7, <2>12, <2>13, <2>14, OptionOpFits
  <1>5. OpFits(J!LoadServerOptions, B!LoadServerOptions)
    <2> DEFINE f == J!Options
               j == J!LoadServerOptions
               b == B!LoadServerOptions
    <2>1. /\ f \in broken => j.err = "EOF" /\ j.write = <<>>
          /\ f \notin broken => j.err = ""
          /\ f \notin broken /\ f \in DOMAIN disk => j.write = <<>>
          /\ f \notin broken /\ f \notin DOMAIN disk => j.write = [x \in {f} |-> {"default"}]
      BY OptionsLoaded DEF J!LoadServerOptions
    <2>2. /\ "serverOptions" \in buckets => b.write = <<>>
          /\ "serverOptions" \notin buckets => b.write = [x \in {B!Options} |-> {"default"}]
      BY KeysLoaded DEF StoresInv
    <2> HIDE DEF f, j, b
    <2>3. "serverOptions" \notin buckets => b.write # <<>>
      <3>1. ASSUME "serverOptions" \notin buckets PROVE B!Options \in DOMAIN b.write
        BY <2>2, <3>1
      <3> QED
        BY <3>1, EmptyWrite
    <2>4. OpFits(j, b)
      BY <1>1, <1>4, <2>1, <2>2, <2>3 DEF f
    <2> QED
      BY <2>4 DEF j, b
  <1>6. OpFits(J!LoadPluginOptions(PluginFile), B!LoadPluginOptions(PluginKey))
    <2> DEFINE f == PluginFile
               j == J!LoadPluginOptions(PluginFile)
               b == B!LoadPluginOptions(PluginKey)
    <2>1. /\ f \in broken => j.err = "EOF" /\ j.write = <<>>
          /\ f \notin broken => j.err = ""
          /\ f \notin broken /\ f \in DOMAIN disk => j.write = <<>>
          /\ f \notin broken /\ f \notin DOMAIN disk => j.write = [x \in {f} |-> {"default"}]
      BY OptionsLoaded DEF J!LoadPluginOptions
    <2>2. b.write = <<>>
      BY KeysLoaded DEF StoresInv
    <2> HIDE DEF j, b
    <2>3. OpFits(j, b)
      BY <1>1, <1>4, <2>1, <2>2, OptionNames
    <2> QED
      BY <2>3 DEF j, b
  <1> QED
    BY <1>2, <1>3, <1>5, <1>6

------------------------------------------------------------------------------
(* Entrants                                                                   *)

LEMMA EntrantOpFits ==
  ASSUME NEW g, NEW j, NEW b,
         j.err = "EOF" => broken # {},
         WriteFits(j.write), WriteFits(b.write),
         DOMAIN j.write \subseteq {J!Entrants}, DOMAIN b.write \subseteq {<<"entrants", g>>},
         WritesEntrants(j.write, b.write)
  PROVE  OpFits(j, b)
  <1> DEFINE w == j.write
             v == b.write
             f == J!Entrants
             k == <<"entrants", g>>
  <1>1. /\ WriteFits(w) /\ WriteFits(v) /\ DOMAIN w \subseteq {f} /\ DOMAIN v \subseteq {k}
        /\ WritesEntrants(w, v)
    OBVIOUS
  <1>2. /\ f # J!Options /\ f # PluginFile /\ f # J!AuditFile
        /\ k # B!Audit /\ k # B!Options /\ k # PluginKey
        /\ k[1] = "entrants" /\ (\E d, x : f = <<d, x>>) /\ (\E d, x : k = <<d, x>>)
    BY DEF J!Options, PluginFile, J!Entrants, J!AuditFile, B!Options, PluginKey, B!Audit
  <1>3. \A d, x : (f = <<d, x>> => d = "shared") /\ (k = <<d, x>> => d = "entrants")
    BY DEF J!Entrants
  <1>4. \A h, l : Corresponds(h, l) => h # f /\ l # k
    BY OtherNames
  <1> HIDE DEF w, v, f, k
  <1>5. WritesNamed(w, v)
    BY <1>1, <1>2 DEF WritesNamed, HaveNames
  <1>6. WritesSame(w, v)
    BY <1>1, <1>4 DEF WritesSame, SameIn
  <1>7. WritesFit(w, v)
    <2>1. \A d \in {"custom_races", "race_weekends", "championships"} : \A x : f # <<d, x>>
      BY <1>3
    <2>2. \A d \in {"customRaces", "raceWeekends"} : \A x : k # <<d, x>>
      BY <1>3
    <2> QED
      BY <1>1, <2>1, <2>2 DEF WritesFit
  <1>8. WritesOptions(w, v)
    BY <1>1, <1>2 DEF WritesOptions, OptionsWritten
  <1>9. WritesAudit(w, v)
    BY <1>1, <1>2 DEF WritesAudit
  <1>10. WritesSound(w, v)
    BY <1>1, <1>5, <1>6, <1>7, <1>8, <1>9 DEF WritesSound
  <1> QED
    BY <1>10 DEF w, v, OpFits

LEMMA EntrantsRead ==
  LET a == J!ListEntrants
  IN  /\ J!Entrants \in broken => a.err = "EOF" /\ a.write = <<>>
      /\ J!Entrants \notin broken => a.err = "" /\ a.out = {ValueIn(disk, J!Entrants, <<>>)}
  <1> DEFINE f == J!Entrants
             a == J!decodeFile(f)
             e == <<>>
  <1>1. /\ f \in broken => a.err = "EOF" /\ a.out = {} /\ a.write = <<>>
        /\ f \notin broken /\ f \in DOMAIN disk => a.err = "" /\ a.out = {disk[f]} /\ a.write = <<>>
        /\ f \notin broken /\ f \notin DOMAIN disk => a.err = "not exist" /\ a.out = {} /\ a.write = <<>>
    BY FileRead
  <1>2. J!ListEntrants = IF a.err = "not exist" THEN J!Ok({e}) ELSE a
    BY DEF J!ListEntrants
  <1>3. J!Ok({e}).err = "" /\ J!Ok({e}).out = {e}
    BY DEF J!Ok, J!Answer
  <1> HIDE DEF f, a, e
  <1>4. CASE f \in broken \/ f \in DOMAIN disk
    <2>1. J!ListEntrants = a
      BY <1>1, <1>2, <1>4
    <2> QED
      BY <1>1, <1>4, <2>1 DEF ValueIn, f
  <1>5. CASE f \notin broken /\ f \notin DOMAIN disk
    <2>1. J!ListEntrants = J!Ok({e})
      BY <1>1, <1>2, <1>5
    <2>2. ValueIn(disk, f, e) = e
      BY <1>5 DEF ValueIn
    <2> QED
      BY <1>3, <1>5, <2>1, <2>2 DEF f, e
  <1> QED
    BY <1>4, <1>5

LEMMA ListAppended ==
  ASSUME NEW s, ListFits(s), NEW e \in Entrant, e.guid \notin Guids(s)
  PROVE  ListFits(Append(s, e)) /\ Guids(Append(s, e)) = Guids(s) \cup {e.guid}
  <1> DEFINE t == Append(s, e)
  <1>1. s \in Seq(Entrant) /\ \A m, n \in DOMAIN s : s[m].guid = s[n].guid => m = n
    BY DEF ListFits
  <1>2. /\ t \in Seq(Entrant) /\ DOMAIN t = 1 .. Len(s) + 1 /\ DOMAIN s = 1 .. Len(s) /\ Len(s) \in Nat
        /\ t[Len(s) + 1] = e /\ \A n \in 1 .. Len(s) : t[n] = s[n]
    BY <1>1
  <1> HIDE DEF t
  <1>3. \A n \in 1 .. Len(s) : s[n].guid # e.guid
    BY <1>2 DEF Guids
  <1>4. \A n \in DOMAIN t : n \in 1 .. Len(s) \/ n = Len(s) + 1
    BY <1>2
  <1>5. \A m, n \in DOMAIN t : t[m].guid = t[n].guid => m = n
    BY <1>1, <1>2, <1>3, <1>4
  <1>6. Guids(t) = Guids(s) \cup {e.guid}
    <2>1. \A g \in Guids(t) : g \in Guids(s) \cup {e.guid}
      BY <1>2, <1>4 DEF Guids
    <2>2. \A g \in Guids(s) : g \in Guids(t)
      <3>1. \A n \in DOMAIN s : n \in DOMAIN t /\ t[n] = s[n]
        BY <1>2
      <3> QED
        BY <3>1 DEF Guids
    <2>3. e.guid \in Guids(t)
      <3>1. Len(s) + 1 \in DOMAIN t
        BY <1>2
      <3> QED
        BY <1>2, <3>1 DEF Guids
    <2> QED
      BY <2>1, <2>2, <2>3
  <1> QED
    BY <1>2, <1>5, <1>6 DEF ListFits, t

LEMMA ListShortened ==
  ASSUME NEW s, ListFits(s), NEW k \in DOMAIN s
  PROVE  ListFits(RemoveAt(s, k)) /\ Guids(RemoveAt(s, k)) = Guids(s) \ {s[k].guid}
  <1> DEFINE t == RemoveAt(s, k)
             at(n) == IF n < k THEN n ELSE n + 1
  <1>1. s \in Seq(Entrant) /\ \A m, n \in DOMAIN s : s[m].guid = s[n].guid => m = n
    BY DEF ListFits
  <1>2. DOMAIN s = 1 .. Len(s) /\ Len(s) \in Nat /\ k \in 1 .. Len(s)
    BY <1>1
  <1>3. t \in Seq(Entrant) /\ Len(t) = Len(s) - 1 /\ \A n \in 1 .. Len(t) : t[n] = s[at(n)]
    <2> DEFINE u == SubSeq(s, 1, k - 1)
               v == SubSeq(s, k + 1, Len(s))
    <2>1. u \in Seq(Entrant) /\ Len(u) = k - 1 /\ \A n \in 1 .. k - 1 : u[n] = s[n]
      BY <1>1, <1>2
    <2>2. v \in Seq(Entrant) /\ Len(v) = Len(s) - k /\ \A n \in 1 .. Len(s) - k : v[n] = s[k + n]
      BY <1>1, <1>2
    <2>3. t = u \o v
      BY DEF RemoveAt
    <2> HIDE DEF t, u, v
    <2>4. t \in Seq(Entrant) /\ Len(t) = Len(u) + Len(v)
      BY <2>1, <2>2, <2>3, ConcatProperties
    <2>5. \A n \in 1 .. Len(t) : t[n] = IF n <= Len(u) THEN u[n] ELSE v[n - Len(u)]
      BY <2>1, <2>2, <2>3
    <2>6. ASSUME NEW n \in 1 .. Len(t) PROVE t[n] = s[at(n)]
      <3>1. CASE n < k
        BY <1>2, <2>1, <2>5, <3>1
      <3>2. CASE n >= k
        <4>1. n > Len(u) /\ n - Len(u) \in 1 .. Len(s) - k /\ k + (n - Len(u)) = n + 1
          BY <1>2, <2>1, <2>2, <2>4, <3>2
        <4>2. t[n] = v[n - Len(u)]
          BY <1>2, <2>1, <2>5, <4>1
        <4>3. v[n - Len(u)] = s[k + (n - Len(u))]
          BY <2>2, <4>1
        <4> QED
          BY <1>2, <3>2, <4>1, <4>2, <4>3
      <3> QED
        BY <1>2, <3>1, <3>2
    <2> QED
      BY <1>2, <2>1, <2>2, <2>4, <2>6
  <1> HIDE DEF t
  <1>4. DOMAIN t = 1 .. Len(t) /\ \A n \in DOMAIN t : at(n) \in DOMAIN s /\ at(n) # k /\ t[n] = s[at(n)]
    <2>1. DOMAIN t = 1 .. Len(t)
      BY <1>3
    <2>2. \A n \in 1 .. Len(t) : at(n) \in 1 .. Len(s) /\ at(n) # k
      BY <1>2, <1>3
    <2> QED
      BY <1>2, <1>3, <2>1, <2>2
  <1>5. \A m, n \in DOMAIN t : at(m) = at(n) => m = n
    BY <1>2, <1>3, <1>4
  <1>6. \A n \in DOMAIN s \ {k} : \E m \in DOMAIN t : at(m) = n
    <2>1. ASSUME NEW n \in DOMAIN s, n < k PROVE n \in 1 .. Len(t) /\ at(n) = n
      BY <1>2, <1>3, <2>1
    <2>2. ASSUME NEW n \in DOMAIN s, n > k PROVE n - 1 \in 1 .. Len(t) /\ at(n - 1) = n
      BY <1>2, <1>3, <2>2
    <2>3. \A n \in DOMAIN s \ {k} : n < k \/ n > k
      BY <1>2
    <2> HIDE DEF at
    <2> QED
      BY <1>4, <2>1, <2>2, <2>3
  <1> HIDE DEF at
  <1>7. \A m, n \in DOMAIN t : t[m].guid = t[n].guid => m = n
    BY <1>1, <1>4, <1>5
  <1>8. Guids(t) = Guids(s) \ {s[k].guid}
    <2>1. \A g \in Guids(t) : g \in Guids(s) \ {s[k].guid}
      <3>1. ASSUME NEW n \in DOMAIN t PROVE t[n].guid \in Guids(s) /\ t[n].guid # s[k].guid
        BY <1>1, <1>4 DEF Guids
      <3> QED
        BY <3>1 DEF Guids
    <2>2. \A g \in Guids(s) \ {s[k].guid} : g \in Guids(t)
      <3>1. ASSUME NEW n \in DOMAIN s, n # k PROVE s[n].guid \in Guids(t)
        BY <1>4, <1>6, <3>1 DEF Guids
      <3> QED
        BY <3>1 DEF Guids
    <2> QED
      BY <2>1, <2>2
  <1> QED
    BY <1>3, <1>7, <1>8 DEF ListFits, t

LEMMA EntrantsWritten ==
  ASSUME NEW g, NEW w, NEW v, NEW t,
         \/ DOMAIN w = {} /\ t = ValueIn(disk, J!Entrants, <<>>)
         \/ DOMAIN w = {J!Entrants} /\ w[J!Entrants] = {t} /\ ListFits(t),
         DOMAIN v = {<<"entrants", g>>},
         v[<<"entrants", g>>] = {} \/ \E e : v[<<"entrants", g>>] = {e} /\ e.guid = g,
         J!Entrants \notin hurt \cup overlapped =>
           \A h : h \in Guids(t) <=> IF h = g THEN v[<<"entrants", g>>] # {} ELSE <<"entrants", h>> \in DOMAIN db
  PROVE  WritesEntrants(w, v)
  <1> DEFINE f == J!Entrants
             key(h) == <<"entrants", h>>
  <1>1. \A h : key(h) \in DOMAIN v <=> h = g
    OBVIOUS
  <1>2. f \in DOMAIN w => w[f] = {t} /\ ListFits(t)
    OBVIOUS
  <1>3. v[key(g)] = {} \/ \E e : v[key(g)] = {e} /\ e.guid = g
    OBVIOUS
  <1>4. f \notin hurt \cup overlapped => \A h : h \in Guids(t) <=> IF h = g THEN v[key(g)] # {} ELSE key(h) \in DOMAIN db
    OBVIOUS
  <1>5. f \in DOMAIN w => UNION {Guids(s) : s \in w[f]} = Guids(t)
    BY <1>2
  <1>6. f \notin DOMAIN w => Listed = Guids(t)
    BY DEF Listed
  <1>7. f \notin hurt \cup overlapped =>
          \A h : h \in (IF f \in DOMAIN w THEN UNION {Guids(s) : s \in w[f]} ELSE Listed) <=>
                   IF key(h) \in DOMAIN v THEN v[key(h)] # {} ELSE key(h) \in DOMAIN db
    <2> DEFINE now == IF f \in DOMAIN w THEN UNION {Guids(s) : s \in w[f]} ELSE Listed
    <2>1. now = Guids(t)
      BY <1>5, <1>6
    <2> HIDE DEF now, key, f
    <2>2. f \notin hurt \cup overlapped =>
            \A h : h \in now <=> IF key(h) \in DOMAIN v THEN v[key(h)] # {} ELSE key(h) \in DOMAIN db
      BY <1>1, <1>4, <2>1
    <2> QED
      BY <2>2 DEF now
  <1>8. \A h : key(h) \in DOMAIN v /\ v[key(h)] # {} => \E e : v[key(h)] = {e} /\ e.guid = h
    BY <1>1, <1>3
  <1>9. f \in DOMAIN w => \E s : w[f] = {s} /\ ListFits(s)
    BY <1>2
  <1> QED
    BY <1>7, <1>8, <1>9 DEF WritesEntrants

LEMMA EntrantFits ==
  ASSUME StoresInv, broken \subseteq hurt, NEW g \in People
  PROVE  /\ \A v \in Versions :
              LET e == [guid |-> g, v |-> v, model |-> "car"]
              IN  OpFits(J!UpsertEntrant(e), B!UpsertEntrant(e))
         /\ OpFits(J!DeleteEntrant(g), B!DeleteEntrant(g))
  <1> DEFINE f == J!Entrants
             k == <<"entrants", g>>
             s == ValueIn(disk, f, <<>>)
             a == J!ListEntrants
  <1>1. f \in broken => a.err = "EOF" /\ f \in hurt /\ broken # {}
    BY EntrantsRead
  <1>2. f \notin broken => a.err = "" /\ J!The(a) = s
    BY EntrantsRead DEF J!The
  <1>3. ListFits(s)
    BY EmptyWrite DEF StoresInv, EntrantsSame, ValueIn, ListFits
  <1>4. f \notin hurt \cup overlapped => \A h : h \in Guids(s) <=> <<"entrants", h>> \in DOMAIN db
    BY DEF StoresInv, EntrantsSame, Listed
  <1>5. \A e : J!Failed(e).err = e /\ J!Failed(e).write = <<>> /\ J!Ok(e).err = "" /\ J!Ok(e).write = <<>>
    BY DEF J!Failed, J!Ok, J!Answer
  <1>6. ASSUME NEW d PROVE J!Encode(f, d).err = "" /\ J!Encode(f, d).write = [x \in {f} |-> {d}]
    BY DEF J!Encode, J!Answer
  <1>7. ASSUME NEW v \in Versions
        PROVE  LET e == [guid |-> g, v |-> v, model |-> "car"]
               IN  OpFits(J!UpsertEntrant(e), B!UpsertEntrant(e))
    <2> DEFINE e == [guid |-> g, v |-> v, model |-> "car"]
               saved == [e EXCEPT !.model = ""]
               isNew == \A n \in DOMAIN s : s[n].guid # g
               t == IF f \in broken THEN s ELSE IF isNew THEN Append(s, e) ELSE s
               j == J!UpsertEntrant(e)
               b == B!UpsertEntrant(e)
    <2>1. e \in Entrant /\ e.guid = g /\ saved.guid = g
      BY DEF Entrant
    <2> HIDE DEF e, saved
    <2>2. b.err = "" /\ b.write = [x \in {k} |-> {saved}]
      BY <2>1 DEF B!UpsertEntrant, B!Put, B!Answer, saved
    <2>3. j = IF a.err # "" THEN J!Failed(a.err)
              ELSE J!Encode(f, IF \A n \in DOMAIN J!The(a) : J!The(a)[n].guid # e.guid THEN Append(J!The(a), e) ELSE J!The(a))
      BY DEF J!UpsertEntrant
    <2>4. f \in broken => j = J!Failed("EOF")
      BY <1>1, <2>3
    <2>5. f \notin broken => j = J!Encode(f, t)
      BY <1>2, <2>1, <2>3
    <2>6. isNew <=> g \notin Guids(s)
      BY DEF Guids
    <2>7. ListFits(t) /\ (f \notin broken => Guids(t) = Guids(s) \cup {g}) /\ (f \in broken => t = s)
      BY <1>3, <2>1, <2>6, ListAppended
    <2> HIDE DEF j, b, t, isNew, a
    <2>8. j.err = "EOF" => broken # {}
      BY <1>1, <1>6, <2>5
    <2>9. (j.write = <<>> /\ f \in broken) \/ (f \notin broken /\ j.write = [x \in {f} |-> {t}])
      BY <1>5, <1>6, <2>4, <2>5
    <2>10. DOMAIN b.write = {k} /\ b.write[k] = {saved}
      BY <2>2
    <2>11. \/ DOMAIN j.write = {} /\ t = s
           \/ DOMAIN j.write = {f} /\ j.write[f] = {t} /\ ListFits(t)
      BY <2>7, <2>9, EmptyWrite
    <2>12. WriteFits(j.write)
      BY <2>9 DEF WriteFits
    <2>13. WriteFits(b.write)
      BY <2>2 DEF WriteFits
    <2>14. f \notin hurt \cup overlapped =>
             \A h : h \in Guids(t) <=> IF h = g THEN b.write[k] # {} ELSE <<"entrants", h>> \in DOMAIN db
      BY <1>1, <1>4, <2>7, <2>10
    <2>15. b.write[k] = {} \/ \E x : b.write[k] = {x} /\ x.guid = g
      BY <2>1, <2>10
    <2>16. WritesEntrants(j.write, b.write)
      BY <2>10, <2>11, <2>14, <2>15, EntrantsWritten
    <2>17. DOMAIN j.write \subseteq {f} /\ DOMAIN b.write \subseteq {k}
      BY <2>10, <2>11
    <2>18. OpFits(j, b)
      BY <2>8, <2>12, <2>13, <2>16, <2>17, EntrantOpFits
    <2> QED
      BY <2>18 DEF e, j, b
  <1>8. OpFits(J!DeleteEntrant(g), B!DeleteEntrant(g))
    <2> DEFINE at == {n \in DOMAIN s : s[n].guid = g}
               i == CHOOSE n \in at : \A m \in at : n <= m
               t == IF f \in broken THEN s ELSE IF at = {} THEN s ELSE RemoveAt(s, i)
               j == J!DeleteEntrant(g)
               b == B!DeleteEntrant(g)
    <2>1. b.err = "" /\ b.write = [x \in {k} |-> {}]
      BY DEF B!DeleteEntrant, B!Erase, B!Answer
    <2>2. j = LET list == J!The(a)
                  here == {n \in DOMAIN list : list[n].guid = g}
              IN  IF a.err # "" THEN J!Failed(a.err)
                  ELSE IF here = {} THEN J!Ok({})
                  ELSE J!Encode(f, J!RemoveAt(list, CHOOSE n \in here : \A m \in here : n <= m))
      BY DEF J!DeleteEntrant
    <2>3. f \in broken => j = J!Failed("EOF")
      BY <1>1, <2>2
    <2>4. f \notin broken => j = IF at = {} THEN J!Ok({}) ELSE J!Encode(f, RemoveAt(s, i))
      <3>1. f \notin broken => j = IF at = {} THEN J!Ok({}) ELSE J!Encode(f, J!RemoveAt(s, i))
        BY <1>2, <2>2
      <3>2. J!RemoveAt(s, i) = RemoveAt(s, i)
        BY DEF J!RemoveAt, RemoveAt
      <3> QED
        BY <3>1, <3>2
    <2>5. ASSUME at # {} PROVE i \in DOMAIN s /\ s[i].guid = g
      <3>1. PICK n \in DOMAIN s : s[n].guid = g
        BY <2>5
      <3>2. at = {n}
        BY <1>3, <3>1 DEF ListFits
      <3>3. n \in Nat
        BY <1>3, <3>1 DEF ListFits
      <3>4. i = n
        BY <3>2, <3>3
      <3> QED
        BY <3>1, <3>4
    <2>6. at = {} <=> g \notin Guids(s)
      BY DEF Guids
    <2> HIDE DEF i, at
    <2>7. ListFits(t) /\ (f \notin broken => Guids(t) = Guids(s) \ {g}) /\ (f \in broken \/ at = {} => t = s)
      BY <1>3, <2>5, <2>6, ListShortened
    <2>8. f \notin broken /\ at # {} => t = RemoveAt(s, i)
      OBVIOUS
    <2> HIDE DEF j, b, t, a
    <2>9. j.err = "EOF" => broken # {}
      BY <1>1, <1>5, <1>6, <2>4
    <2>10. (j.write = <<>> /\ t = s) \/ j.write = [x \in {f} |-> {t}]
      <3>1. CASE f \in broken
        BY <1>5, <2>3, <2>7, <3>1
      <3>2. CASE f \notin broken /\ at = {}
        <4>1. j = J!Ok({})
          BY <2>4, <3>2
        <4> QED
          BY <1>5, <2>7, <3>2, <4>1
      <3>3. CASE f \notin broken /\ at # {}
        <4>1. j = J!Encode(f, t)
          BY <2>4, <2>8, <3>3
        <4> QED
          BY <1>6, <4>1
      <3> QED
        BY <3>1, <3>2, <3>3
    <2>11. DOMAIN b.write = {k} /\ b.write[k] = {}
      BY <2>1
    <2>12. \/ DOMAIN j.write = {} /\ t = s
           \/ DOMAIN j.write = {f} /\ j.write[f] = {t} /\ ListFits(t)
      BY <2>7, <2>10, EmptyWrite
    <2>13. WriteFits(j.write)
      BY <2>10 DEF WriteFits
    <2>14. WriteFits(b.write)
      BY <2>1 DEF WriteFits
    <2>15. f \notin hurt \cup overlapped =>
             \A h : h \in Guids(t) <=> IF h = g THEN b.write[k] # {} ELSE <<"entrants", h>> \in DOMAIN db
      BY <1>1, <1>4, <2>7, <2>11
    <2>16. WritesEntrants(j.write, b.write)
      BY <2>11, <2>12, <2>15, EntrantsWritten
    <2>17. DOMAIN j.write \subseteq {f} /\ DOMAIN b.write \subseteq {k}
      BY <2>11, <2>12
    <2>18. OpFits(j, b)
      BY <2>9, <2>13, <2>14, <2>16, <2>17, EntrantOpFits
    <2> QED
      BY <2>18 DEF j, b
  <1> QED
    BY <1>7, <1>8

------------------------------------------------------------------------------
(* The audit log                                                              *)

AuditNew(old, e) ==
  LET t == Append(old, e)
  IN  IF Len(t) > MaxAuditEntries THEN SubSeq(t, AuditDropped + 1, Len(t)) ELSE t

LEMMA LogLength ==
  ASSUME NEW m \in Nat, NEW n \in Nat, NEW c \in Nat, NEW x,
         c = IF m + 1 > MaxAuditEntries THEN AuditDropped ELSE 0,
         x = m + 1 - c, m <= n, m <= MaxAuditEntries,
         m >= IF n > MaxAuditEntries THEN MaxAuditEntries + 1 - AuditDropped ELSE n
  PROVE  /\ x <= MaxAuditEntries /\ x <= n + 1
         /\ x >= IF n + 1 > MaxAuditEntries THEN MaxAuditEntries + 1 - AuditDropped ELSE n + 1
  BY LogLimits

LEMMA AuditGrows ==
  ASSUME NEW old \in Seq(Nat), NEW e \in Nat
  PROVE  /\ EntryOf(AuditNew(old, e)) /\ Last(AuditNew(old, e)) = e
         /\ \A t \in Seq(Nat) : Complete(old, t) => Complete(AuditNew(old, e), Append(t, e))
  <1> DEFINE u == Append(old, e)
             s == AuditNew(old, e)
             m == Len(old)
             x == Len(s)
             c == IF m + 1 > MaxAuditEntries THEN AuditDropped ELSE 0
  <1>1. u \in Seq(Nat) /\ Len(u) = m + 1 /\ u[m + 1] = e /\ m \in Nat
    OBVIOUS
  <1>2. \A i \in 1 .. m : u[i] = old[i]
    OBVIOUS
  <1>3. c \in Nat /\ c <= m
    BY <1>1, LogLimits
  <1>4. s \in Seq(Nat) /\ x = m + 1 - c /\ \A i \in 1 .. x : s[i] = u[i + c]
    <2>1. CASE m + 1 > MaxAuditEntries
      <3>1. s = SubSeq(u, AuditDropped + 1, m + 1) /\ c = AuditDropped
        BY <1>1, <2>1 DEF AuditNew
      <3>2. AuditDropped + 1 \in Int /\ m + 1 \in Int /\ AuditDropped + 1 <= m + 1 /\ AuditDropped \in Nat
        BY <1>1, <1>3, <3>1, LogLimits
      <3>3. \A i \in AuditDropped + 1 .. m + 1 : u[i] \in Nat
        BY <1>1, <3>2
      <3> DEFINE p == AuditDropped + 1
                 q == m + 1
      <3> HIDE DEF u, s, m, p, q
      <3>4. /\ SubSeq(u, p, q) \in Seq(Nat)
            /\ Len(SubSeq(u, p, q)) = IF p <= q THEN q - p + 1 ELSE 0
            /\ \A i \in 1 .. q - p + 1 : SubSeq(u, p, q)[i] = u[p + i - 1]
        BY <3>2, <3>3, SubSeqProperties DEF p, q
      <3>5. p <= q /\ q - p + 1 = m + 1 - c /\ \A i \in Int : p + i - 1 = i + c
        BY <1>1, <3>1, <3>2 DEF p, q
      <3>6. s = SubSeq(u, p, q)
        BY <3>1 DEF p, q
      <3>7. x = m + 1 - c
        BY <3>4, <3>5, <3>6
      <3> HIDE DEF c
      <3>8. ASSUME NEW i \in 1 .. x PROVE s[i] = u[i + c]
        <4>1. i \in Int /\ i \in 1 .. q - p + 1
          BY <1>1, <1>3, <3>5, <3>7
        <4>2. p + i - 1 = i + c
          BY <3>5, <4>1
        <4>3. s[i] = u[p + i - 1]
          BY <3>4, <3>6, <4>1
        <4> QED
          BY <4>2, <4>3
      <3> QED
        BY <3>4, <3>6, <3>7, <3>8
    <2>2. CASE ~(m + 1 > MaxAuditEntries)
      <3>1. s = u /\ c = 0
        BY <1>1, <2>2 DEF AuditNew
      <3> QED
        BY <1>1, <3>1
    <2> QED
      BY <2>1, <2>2
  <1> HIDE DEF u, s
  <1>5. EntryOf(s) /\ Last(s) = e
    <2> HIDE DEF m, x, c
    <2>1. x > 0 /\ x \in 1 .. x /\ x + c = m + 1
      BY <1>1, <1>3, <1>4
    <2>2. s[x] = e
      BY <1>1, <1>4, <2>1
    <2> QED
      BY <1>4, <2>1, <2>2 DEF EntryOf, Last, x
  <1>6. ASSUME NEW t \in Seq(Nat), Complete(old, t) PROVE Complete(s, Append(t, e))
    <2> DEFINE v == Append(t, e)
               n == Len(t)
    <2>1. v \in Seq(Nat) /\ Len(v) = n + 1 /\ v[n + 1] = e
      OBVIOUS
    <2>2. n \in Nat /\ \A i \in 1 .. n : v[i] = t[i]
      OBVIOUS
    <2>3. /\ m <= n /\ m <= MaxAuditEntries
          /\ m >= IF n > MaxAuditEntries THEN MaxAuditEntries + 1 - AuditDropped ELSE n
      BY <1>6 DEF Complete, Ends, Least
    <2>4. \A i \in 1 .. m : old[i] = t[(n - m) + i]
      BY <1>6 DEF Complete, Ends
    <2>5. c = IF m + 1 > MaxAuditEntries THEN AuditDropped ELSE 0
      OBVIOUS
    <2> HIDE DEF v, n, m, x, c
    <2>6. m \in Nat /\ n \in Nat /\ c \in Nat /\ c <= m /\ x = m + 1 - c
      BY <1>1, <1>3, <1>4, <2>2
    <2>7. /\ x <= MaxAuditEntries /\ x <= n + 1
          /\ x >= IF n + 1 > MaxAuditEntries THEN MaxAuditEntries + 1 - AuditDropped ELSE n + 1
      BY <2>3, <2>5, <2>6, LogLength
    <2>8. ASSUME NEW i \in 1 .. x PROVE s[i] = v[((n + 1) - x) + i]
      <3>1. s[i] = u[i + c]
        BY <1>4
      <3>2. /\ ((n + 1) - x) + i = (n - m) + (i + c) /\ i + c \in 1 .. m + 1
            /\ i + c # m + 1 => i + c \in 1 .. m /\ (n - m) + (i + c) \in 1 .. n
            /\ i + c = m + 1 => (n - m) + (i + c) = n + 1
        BY <2>3, <2>6
      <3>3. CASE i + c = m + 1
        BY <1>1, <2>1, <3>1, <3>2, <3>3
      <3>4. CASE i + c # m + 1
        <4> DEFINE k == i + c
        <4>1. k \in 1 .. m /\ (n - m) + k \in 1 .. n /\ ((n + 1) - x) + i = (n - m) + k /\ s[i] = u[k]
          BY <3>1, <3>2, <3>4
        <4> HIDE DEF k
        <4>2. u[k] = old[k] /\ old[k] = t[(n - m) + k]
          BY <1>2, <2>4, <4>1
        <4>3. v[(n - m) + k] = t[(n - m) + k]
          BY <2>2, <4>1
        <4> QED
          BY <4>1, <4>2, <4>3
      <3> QED
        BY <3>3, <3>4
    <2>9. Complete(s, v)
      BY <1>4, <2>1, <2>7, <2>8 DEF Complete, Ends, Least, x
    <2> QED
      BY <2>9 DEF v
  <1> QED
    BY <1>5, <1>6 DEF s

LEMMA AuditOpFits ==
  ASSUME NEW j, NEW b,
         j.err = "EOF" => broken # {},
         WriteFits(j.write), WriteFits(b.write),
         DOMAIN j.write \subseteq {J!AuditFile}, DOMAIN b.write \subseteq {B!Audit},
         WritesAudit(j.write, b.write)
  PROVE  OpFits(j, b)
  <1> DEFINE w == j.write
             v == b.write
             f == J!AuditFile
             k == B!Audit
  <1>1. /\ WriteFits(w) /\ WriteFits(v) /\ DOMAIN w \subseteq {f} /\ DOMAIN v \subseteq {k}
        /\ WritesAudit(w, v)
    OBVIOUS
  <1>2. /\ f # J!Options /\ f # PluginFile /\ f # J!Entrants
        /\ k # B!Options /\ k # PluginKey
        /\ k[1] = "audit" /\ (\E d, x : f = <<d, x>>) /\ (\E d, x : k = <<d, x>>)
    BY DEF J!Options, PluginFile, J!Entrants, J!AuditFile, B!Options, PluginKey, B!Audit
  <1>3. \A d, x : (f = <<d, x>> => d = "base") /\ (k = <<d, x>> => d = "audit")
    BY DEF J!AuditFile, B!Audit
  <1>4. \A h, l : Corresponds(h, l) => h # f /\ l # k
    BY OtherNames
  <1> HIDE DEF w, v, f, k
  <1>5. WritesNamed(w, v)
    BY <1>1, <1>2 DEF WritesNamed, HaveNames
  <1>6. WritesSame(w, v)
    BY <1>1, <1>4 DEF WritesSame, SameIn
  <1>7. WritesFit(w, v)
    <2>1. \A d \in {"custom_races", "race_weekends", "championships"} : \A x : f # <<d, x>>
      BY <1>3
    <2>2. \A d \in {"customRaces", "raceWeekends"} : \A x : k # <<d, x>>
      BY <1>3
    <2> QED
      BY <1>1, <2>1, <2>2 DEF WritesFit
  <1>8. WritesOptions(w, v)
    BY <1>1, <1>2 DEF WritesOptions, OptionsWritten
  <1>9. WritesEntrants(w, v)
    <2>1. \A g : k # <<"entrants", g>>
      BY <1>3
    <2> QED
      BY <1>1, <1>2, <2>1 DEF WritesEntrants, Lists
  <1>10. WritesSound(w, v)
    BY <1>1, <1>5, <1>6, <1>7, <1>8, <1>9 DEF WritesSound
  <1> QED
    BY <1>10 DEF w, v, OpFits

LEMMA AuditRead ==
  ASSUME NamesFit
  PROVE  /\ LET a == J!GetAuditEntries
            IN  /\ J!AuditFile \in broken => a.err = "EOF"
                /\ J!AuditFile \notin broken =>
                     /\ a.err \in {"", "not exist"}
                     /\ (IF a.err = "" THEN J!The(a) ELSE <<>>) = ValueIn(disk, J!AuditFile, <<>>)
         /\ LET a == B!GetAuditEntries
            IN  /\ a.err \in {"", "value not set"}
                /\ (IF a.err = "" THEN B!The(a) ELSE <<>>) = ValueIn(db, B!Audit, <<>>)
                /\ B!The(a) = J!The(a)
  <1> DEFINE e == <<>>
             f == J!AuditFile
             k == B!Audit
             a == J!GetAuditEntries
             c == B!GetAuditEntries
  <1>1. /\ f \in broken => a.err = "EOF"
        /\ f \notin broken /\ f \in DOMAIN disk => a.err = "" /\ a.out = {disk[f]}
        /\ f \notin broken /\ f \notin DOMAIN disk => a.err = "not exist"
    BY FileRead DEF J!GetAuditEntries
  <1>2. /\ k \in DOMAIN db => c.err = "" /\ c.out = {db[k]}
        /\ k \notin DOMAIN db => c.err = "value not set"
    BY DEF B!GetAuditEntries, B!Get, B!Ok, B!Failed, B!Answer, NamesFit
  <1>3. ASSUME NEW x, NEW r, x.out = {r} PROVE J!The(x) = r /\ B!The(x) = r
    BY <1>3 DEF J!The, B!The
  <1>4. B!The(c) = J!The(c)
    BY DEF B!The, J!The
  <1> HIDE DEF e, f, k, a, c
  <1>5. f \notin broken => a.err \in {"", "not exist"} /\ (IF a.err = "" THEN J!The(a) ELSE e) = ValueIn(disk, f, e)
    BY <1>1, <1>3 DEF ValueIn
  <1>6. c.err \in {"", "value not set"} /\ (IF c.err = "" THEN B!The(c) ELSE e) = ValueIn(db, k, e)
    BY <1>2, <1>3 DEF ValueIn
  <1> QED
    BY <1>1, <1>4, <1>5, <1>6 DEF e, f, k, a, c

LEMMA AuditFits ==
  ASSUME StoresInv, broken \subseteq hurt, NEW n \in Nat
  PROVE  OpFits(J!AddAuditEntry(n), B!AddAuditEntry(n))
  <1> DEFINE f == J!AuditFile
             k == B!Audit
             x == ValueIn(disk, f, <<>>)
             y == ValueIn(db, k, <<>>)
             s == AuditNew(x, n)
             t == AuditNew(y, n)
             a == J!GetAuditEntries
             c == B!GetAuditEntries
             j == J!AddAuditEntry(n)
             b == B!AddAuditEntry(n)
  <1>1. NamesFit
    BY DEF StoresInv
  <1>2. f \in broken => a.err = "EOF"
    BY <1>1, AuditRead
  <1>3. f \notin broken => a.err \in {"", "not exist"} /\ (IF a.err = "" THEN J!The(a) ELSE <<>>) = x
    BY <1>1, AuditRead
  <1>4. c.err \in {"", "value not set"} /\ (IF c.err = "" THEN B!The(c) ELSE <<>>) = y
    BY <1>1, AuditRead
  <1>5. \A o : J!Trimmed(Append(o, n)) = AuditNew(o, n) /\ B!Trimmed(Append(o, n)) = AuditNew(o, n)
    BY DEF J!Trimmed, B!Trimmed, AuditNew
  <1>6. f \in broken => j = J!Failed("EOF")
    BY <1>2 DEF J!AddAuditEntry
  <1>7. f \notin broken => j = J!Encode(f, s)
    BY <1>3, <1>5 DEF J!AddAuditEntry
  <1>8. b = B!Put(k, t)
    BY <1>4, <1>5 DEF B!AddAuditEntry
  <1>9. x \in Seq(Nat) /\ y \in Seq(Nat) /\ acked \in Seq(Nat)
    BY EmptyWrite DEF StoresInv, AuditKept, ValueIn
  <1>10. f \notin overlapped =>
           /\ f \notin hurt => Complete(x, acked)
           /\ hurt = {} => Complete(y, acked)
    BY DEF StoresInv, AuditKept
  <1>11. EntryOf(s) /\ Last(s) = n /\ (Complete(x, acked) => Complete(s, Append(acked, n)))
    BY <1>9, AuditGrows
  <1>12. EntryOf(t) /\ Last(t) = n /\ (Complete(y, acked) => Complete(t, Append(acked, n)))
    BY <1>9, AuditGrows
  <1>13. J!Failed("EOF").err = "EOF" /\ J!Failed("EOF").write = <<>>
    BY DEF J!Failed, J!Answer
  <1> HIDE DEF s, t
  <1>14. J!Encode(f, s).err = "" /\ J!Encode(f, s).write = [z \in {f} |-> {s}]
    BY DEF J!Encode, J!Answer
  <1>15. b.write = [z \in {k} |-> {t}]
    <2>1. B!Put(k, t).write = [z \in {k} |-> {t}]
      BY DEF B!Put, B!Answer
    <2> QED
      BY <1>8, <2>1
  <1> HIDE DEF f, k, x, y, a, c, j, b
  <1>16. j.err = "EOF" => broken # {}
    BY <1>7, <1>14
  <1>17. f \in broken => j.write = <<>>
    BY <1>6, <1>13
  <1>18. f \notin broken => j.write = [z \in {f} |-> {s}]
    BY <1>7, <1>14
  <1>19. WriteFits(b.write) /\ DOMAIN b.write = {k} /\ b.write[k] = {t}
    BY <1>15 DEF WriteFits
  <1>20. WriteFits(j.write)
    BY <1>17, <1>18 DEF WriteFits
  <1>21. /\ f \in broken => DOMAIN j.write = {}
         /\ f \notin broken => DOMAIN j.write = {f} /\ j.write[f] = {s}
    BY <1>17, <1>18, EmptyWrite
  <1>22. WritesAudit(j.write, b.write)
    <2> DEFINE w == j.write
               v == b.write
    <2>1. /\ f \in DOMAIN w => w[f] = {s} /\ f \notin broken
          /\ f \notin broken => f \in DOMAIN w
          /\ DOMAIN v = {k} /\ v[k] = {t}
      BY <1>19, <1>21
    <2> HIDE DEF w, v
    <2>2. \A r : f \in DOMAIN w /\ w[f] = {r} => r = s
      BY <2>1
    <2>3. \A r : v[k] = {r} => r = t
      BY <2>1
    <2>4. f \notin overlapped /\ f \notin hurt => \A r : f \in DOMAIN w /\ w[f] = {r} => Complete(r, Append(acked, Last(r)))
      BY <1>10, <1>11, <2>2
    <2>5. f \notin overlapped /\ hurt = {} => /\ f \in DOMAIN w <=> k \in DOMAIN v
                     /\ \A r, q : f \in DOMAIN w /\ w[f] = {r} /\ v[k] = {q} =>
                            Last(r) = Last(q) /\ Complete(q, Append(acked, Last(q)))
      BY <1>10, <1>11, <1>12, <2>1, <2>2, <2>3
    <2>6. /\ f \in DOMAIN w => \E r : w[f] = {r} /\ EntryOf(r)
          /\ k \in DOMAIN v => \E r : v[k] = {r} /\ EntryOf(r)
      BY <1>11, <1>12, <2>1
    <2>7. WritesAudit(w, v)
      BY <2>4, <2>5, <2>6 DEF WritesAudit, f, k
    <2> QED
      BY <2>7 DEF w, v
  <1>23. DOMAIN j.write \subseteq {f} /\ DOMAIN b.write \subseteq {k}
    BY <1>19, <1>21
  <1>24. OpFits(j, b)
    BY <1>16, <1>19, <1>20, <1>22, <1>23, AuditOpFits DEF f, k
  <1> QED
    BY <1>24 DEF j, b

------------------------------------------------------------------------------
(* Every step                                                                 *)

LEMMA CallKeeps ==
  ASSUME StoresInv, NEW p \in Clients, NEW j, NEW b, Begin(p, j, b), broken \subseteq hurt => OpFits(j, b)
  PROVE  StoresInv'
  <1>1. broken \subseteq hurt
    BY BeginIs DEF StoresInv
  <1> QED
    BY <1>1, BeginKeeps

LEMMA CallsKeep ==
  ASSUME StoresInv, NEW p \in Clients,
         \/ CustomRace(p) \/ SavedEntrant(p) \/ ServerOptions(p) \/ RaceWeekend(p)
         \/ Championship(p) \/ Account(p) \/ SmallRecord(p) \/ AuditEntry(p)
  PROVE  StoresInv'
  <1>1. CASE CustomRace(p)
    <2>1. PICK id \in Ids, v \in Versions :
            \/ Begin(p, J!UpsertCustomRace(Record(id, v)), B!UpsertCustomRace(Record(id, v)))
            \/ Begin(p, J!DeleteCustomRace(Record(id, v)), B!DeleteCustomRace(Record(id, v)))
      BY <1>1 DEF CustomRace
    <2> QED
      BY <2>1, CallKeeps, CustomRaceFits
  <1>2. CASE SavedEntrant(p)
    <2>1. PICK g \in People :
            \/ \E v \in Versions :
                 LET e == [guid |-> g, v |-> v, model |-> "car"] IN Begin(p, J!UpsertEntrant(e), B!UpsertEntrant(e))
            \/ Begin(p, J!DeleteEntrant(g), B!DeleteEntrant(g))
      BY <1>2 DEF SavedEntrant
    <2>2. CASE \E v \in Versions :
                 LET e == [guid |-> g, v |-> v, model |-> "car"] IN Begin(p, J!UpsertEntrant(e), B!UpsertEntrant(e))
      <3>1. PICK v \in Versions :
                 LET e == [guid |-> g, v |-> v, model |-> "car"] IN Begin(p, J!UpsertEntrant(e), B!UpsertEntrant(e))
        BY <2>2
      <3> DEFINE e == [guid |-> g, v |-> v, model |-> "car"]
      <3>2. broken \subseteq hurt => OpFits(J!UpsertEntrant(e), B!UpsertEntrant(e))
        BY EntrantFits
      <3> HIDE DEF e
      <3> QED
        BY <3>1, <3>2, CallKeeps DEF e
    <2>3. CASE Begin(p, J!DeleteEntrant(g), B!DeleteEntrant(g))
      <3>1. broken \subseteq hurt => OpFits(J!DeleteEntrant(g), B!DeleteEntrant(g))
        BY EntrantFits
      <3> QED
        BY <2>3, <3>1, CallKeeps
    <2> QED
      BY <2>1, <2>2, <2>3
  <1>3. CASE ServerOptions(p)
    <2>1. CASE \E v \in Versions : Begin(p, J!UpsertServerOptions(v), B!UpsertServerOptions(v))
      BY <2>1, CallKeeps, OptionsFit
    <2>2. CASE Begin(p, J!LoadServerOptions, B!LoadServerOptions)
      BY <2>2, CallKeeps, OptionsFit
    <2>3. CASE \E v \in Versions : Begin(p, J!UpsertPluginOptions(PluginFile, v), B!UpsertPluginOptions(PluginKey, v))
      BY <2>3, CallKeeps, OptionsFit
    <2>4. CASE Begin(p, J!LoadPluginOptions(PluginFile), B!LoadPluginOptions(PluginKey))
      BY <2>4, CallKeeps, OptionsFit
    <2> QED
      BY <1>3, <2>1, <2>2, <2>3, <2>4 DEF ServerOptions
  <1>4. CASE RaceWeekend(p)
    <2>1. PICK id \in Ids :
            \/ Begin(p, J!UpsertRaceWeekend(Record(id, 1)), B!UpsertRaceWeekend(Record(id, 1)))
            \/ Begin(p, J!DeleteRaceWeekend(id), B!DeleteRaceWeekend(id))
      BY <1>4 DEF RaceWeekend
    <2> QED
      BY <2>1, CallKeeps, RaceWeekendFits
  <1>5. CASE Championship(p)
    <2>1. PICK id \in Ids :
            \/ \E w \in {""} \cup {i \in Ids : B!LoadRaceWeekend(i).err = ""} :
                 LET c == [id |-> id, v |-> 1, deleted |-> FALSE, weekend |-> w]
                 IN  Begin(p, J!UpsertChampionship(c), B!UpsertChampionship(c))
            \/ Begin(p, J!DeleteChampionship(id), B!DeleteChampionship(id))
      BY <1>5 DEF Championship
    <2>2. CASE \E w \in {""} \cup {i \in Ids : B!LoadRaceWeekend(i).err = ""} :
                 LET c == [id |-> id, v |-> 1, deleted |-> FALSE, weekend |-> w]
                 IN  Begin(p, J!UpsertChampionship(c), B!UpsertChampionship(c))
      <3>1. PICK w \in {""} \cup {i \in Ids : B!LoadRaceWeekend(i).err = ""} :
                 LET c == [id |-> id, v |-> 1, deleted |-> FALSE, weekend |-> w]
                 IN  Begin(p, J!UpsertChampionship(c), B!UpsertChampionship(c))
        BY <2>2
      <3> DEFINE c == [id |-> id, v |-> 1, deleted |-> FALSE, weekend |-> w]
      <3>2. w = "" \/ B!LoadRaceWeekend(w).err = ""
        OBVIOUS
      <3>3. broken \subseteq hurt => OpFits(J!UpsertChampionship(c), B!UpsertChampionship(c))
        BY <3>2, ChampionshipFits
      <3> HIDE DEF c
      <3> QED
        BY <3>1, <3>3, CallKeeps DEF c
    <2>3. CASE Begin(p, J!DeleteChampionship(id), B!DeleteChampionship(id))
      <3>1. broken \subseteq hurt => OpFits(J!DeleteChampionship(id), B!DeleteChampionship(id))
        BY ChampionshipFits
      <3> QED
        BY <2>3, <3>1, CallKeeps
    <2> QED
      BY <2>1, <2>2, <2>3
  <1>6. CASE Account(p)
    <2>1. ASSUME NEW id
          PROVE  broken \subseteq hurt =>
                   /\ \A name : LET a == [id |-> id, v |-> 1, deleted |-> FALSE, name |-> name]
                                IN  OpFits(J!UpsertAccount(a), B!UpsertAccount(a))
                   /\ OpFits(J!DeleteAccount(id), B!DeleteAccount(id))
      BY AccountFits
    <2>2. CASE \E name, id \in People :
                 LET a == [id |-> id, v |-> 1, deleted |-> FALSE, name |-> name]
                 IN  Begin(p, J!UpsertAccount(a), B!UpsertAccount(a))
      <3>1. PICK name \in People, id \in People :
                 LET a == [id |-> id, v |-> 1, deleted |-> FALSE, name |-> name]
                 IN  Begin(p, J!UpsertAccount(a), B!UpsertAccount(a))
        BY <2>2
      <3> DEFINE a == [id |-> id, v |-> 1, deleted |-> FALSE, name |-> name]
      <3>2. broken \subseteq hurt => OpFits(J!UpsertAccount(a), B!UpsertAccount(a))
        BY <2>1
      <3> HIDE DEF a
      <3> QED
        BY <3>1, <3>2, CallKeeps DEF a
    <2>3. CASE \E id \in People : Begin(p, J!DeleteAccount(id), B!DeleteAccount(id))
      BY <2>1, <2>3, CallKeeps
    <2> QED
      BY <1>6, <2>2, <2>3 DEF Account
  <1>7. CASE SmallRecord(p)
    BY <1>7, CallKeeps, SmallRecordsFit DEF SmallRecord
  <1>8. CASE AuditEntry(p)
    <2>1. ops \in Nat
      BY DEF StoresInv, ClientsFit
    <2>2. broken \subseteq hurt => OpFits(J!AddAuditEntry(ops), B!AddAuditEntry(ops))
      BY <2>1, AuditFits
    <2>3. Begin(p, J!AddAuditEntry(ops), B!AddAuditEntry(ops))
      BY <1>8 DEF AuditEntry
    <2> QED
      BY <2>2, <2>3, CallKeeps
  <1> QED
    BY <1>1, <1>2, <1>3, <1>4, <1>5, <1>6, <1>7, <1>8

LEMMA NothingKeeps ==
  ASSUME StoresInv, UNCHANGED storeVars
  PROVE  StoresInv'
  <1>1. UNCHANGED <<disk, broken, db, buckets, client, ops, crashes, acked, overlapped, hurt>>
    BY DEF storeVars
  <1>2. ClientsFit' /\ CrashesFit' /\ OneLister'
    BY <1>1 DEF StoresInv, ClientsFit, CrashesFit, OneLister, ListsOf
  <1>3. NamesFit' /\ RecordsSame' /\ RecordsFit'
    BY <1>1 DEF StoresInv, NamesFit, RecordsSame, Clean, Unhurt, RecordsFit, WeekendFits
  <1>4. OptionsSame' /\ EntrantsSame' /\ AuditKept'
    BY <1>1 DEF StoresInv, OptionsSame, OptionsAgree, EntrantsSame, Listed, AuditKept
  <1>5. ASSUME NEW q \in Clients, NEW j, NEW b, j = client'[q].json, b = client'[q].bolt PROVE WritesSound(j, b)'
    <2>1. WritesSound(j, b)
      BY <1>1, <1>5 DEF StoresInv
    <2> QED
      BY <1>1, <2>1, SoundStays
  <1> QED
    BY <1>2, <1>3, <1>4, <1>5 DEF StoresInv

LEMMA StoresStep == StoresInv /\ [StoresNext]_storeVars => StoresInv'
  <1> SUFFICES ASSUME StoresInv, [StoresNext]_storeVars PROVE StoresInv'
    OBVIOUS
  <1>1. CASE Crash
    BY <1>1, CrashKeeps
  <1>2. ASSUME NEW p \in Clients, Create(p) PROVE StoresInv'
    BY <1>2, CreateKeeps
  <1>3. ASSUME NEW p \in Clients, Finish(p) PROVE StoresInv'
    BY <1>3, FinishKeeps
  <1>4. CASE UNCHANGED storeVars
    BY <1>4, NothingKeeps
  <1> QED
    BY <1>1, <1>2, <1>3, <1>4, CallsKeep DEF StoresNext

LEMMA StoresSound == StoresSpec => []StoresInv
  BY StoresStart, StoresStep, PTL DEF StoresSpec

------------------------------------------------------------------------------
(* What is written is kept                                                    *)

LEMMA QuietFits ==
  ASSUME StoresInv, Quiet
  PROVE  broken \subseteq hurt
  BY DEF StoresInv, ClientsFit, Quiet

LEMMA EndsIsSuffix ==
  ASSUME NEW s \in Seq(Nat), NEW t \in Seq(Nat), Ends(s, t)
  PROVE  IsSuffix(s, t)
  <1> DEFINE m == Len(s)
             n == Len(t)
             r == Reverse(s)
             q == Reverse(t)
  <1>1. m \in Nat /\ n \in Nat /\ m <= n /\ \A i \in 1 .. m : s[i] = t[(n - m) + i]
    BY DEF Ends
  <1>2. r \in Seq(Nat) /\ Len(r) = m /\ \A i \in 1 .. m : r[i] = s[(m - i) + 1]
    <2>1. r = [i \in 1 .. m |-> s[(m - i) + 1]]
      BY DEF Reverse
    <2>2. \A i \in 1 .. m : s[(m - i) + 1] \in Nat
      <3>1. \A i \in 1 .. m : (m - i) + 1 \in 1 .. m
        BY <1>1
      <3> QED
        BY <3>1
    <2> QED
      BY <1>1, <2>1, <2>2
  <1>3. q \in Seq(Nat) /\ Len(q) = n /\ \A i \in 1 .. n : q[i] = t[(n - i) + 1]
    <2>1. q = [i \in 1 .. n |-> t[(n - i) + 1]]
      BY DEF Reverse
    <2>2. \A i \in 1 .. n : t[(n - i) + 1] \in Nat
      <3>1. \A i \in 1 .. n : (n - i) + 1 \in 1 .. n
        BY <1>1
      <3> QED
        BY <3>1
    <2> QED
      BY <1>1, <2>1, <2>2
  <1> HIDE DEF m, n, r, q
  <1>4. ASSUME NEW i \in 1 .. m PROVE r[i] = q[i]
    <2>1. (m - i) + 1 \in 1 .. m /\ (n - m) + ((m - i) + 1) = (n - i) + 1 /\ i \in 1 .. n
      BY <1>1
    <2>2. s[(m - i) + 1] = t[(n - m) + ((m - i) + 1)]
      BY <1>1, <2>1
    <2> QED
      BY <1>2, <1>3, <2>1, <2>2
  <1>5. SubSeq(r, 1, m) = [i \in 1 .. m |-> r[i]] /\ SubSeq(q, 1, m) = [i \in 1 .. m |-> q[i]]
    BY <1>1, <1>2, <1>3
  <1>6. SubSeq(r, 1, m) = SubSeq(q, 1, m)
    BY <1>4, <1>5
  <1>7. Len(r) <= Len(q) /\ SubSeq(r, 1, Len(r)) = SubSeq(q, 1, Len(r))
    BY <1>1, <1>2, <1>3, <1>6
  <1> QED
    BY <1>7 DEF IsSuffix, IsPrefix, r, q

LEMMA KeptInv == StoresInv => EntriesKept
  <1> SUFFICES ASSUME StoresInv PROVE EntriesKept
    OBVIOUS
  <1> DEFINE log(a) == IF a.err = "" THEN J!The(a) ELSE <<>>
             least == IF Len(acked) > MaxAuditEntries THEN MaxAuditEntries + 1 - AuditDropped ELSE Len(acked)
             complete(entries) == IsSuffix(entries, acked) /\ Len(entries) \in least .. MaxAuditEntries
  <1>1. acked \in Seq(Nat)
    BY DEF StoresInv, AuditKept
  <1>2. ASSUME NEW s, Complete(s, acked) PROVE complete(s)
    <2>1. s \in Seq(Nat) /\ Ends(s, acked) /\ least <= Len(s) /\ Len(s) <= MaxAuditEntries
      BY <1>2 DEF Complete, Least
    <2>2. IsSuffix(s, acked)
      BY <1>1, <2>1, EndsIsSuffix
    <2>3. Len(s) \in Nat /\ Len(acked) \in Nat /\ least \in Int
      BY <1>1, <2>1, LogLimits
    <2> HIDE DEF least
    <2> QED
      BY <2>1, <2>2, <2>3, LogLimits
  <1> HIDE DEF complete
  <1>3. ASSUME Quiet, J!AuditFile \notin overlapped, J!AuditFile \notin hurt
        PROVE  complete(log(J!GetAuditEntries))
    <2>1. J!AuditFile \notin broken
      BY <1>3, QuietFits
    <2>2. log(J!GetAuditEntries) = ValueIn(disk, J!AuditFile, <<>>)
      BY <2>1, AuditRead DEF StoresInv
    <2>3. Complete(ValueIn(disk, J!AuditFile, <<>>), acked)
      BY <1>3, <2>1 DEF StoresInv, AuditKept
    <2> QED
      BY <1>2, <2>2, <2>3
  <1>4. ASSUME Quiet, J!AuditFile \notin overlapped, hurt = {}
        PROVE  complete(log(B!GetAuditEntries))
    <2>1. log(B!GetAuditEntries) = ValueIn(db, B!Audit, <<>>)
      BY AuditRead DEF StoresInv
    <2>2. Complete(ValueIn(db, B!Audit, <<>>), acked)
      BY <1>4 DEF StoresInv, AuditKept
    <2> QED
      BY <1>2, <2>1, <2>2
  <1>5. AuditLogComplete
    BY <1>3, <1>4 DEF AuditLogComplete, complete
  <1>6. HalfFilesOnlyAfterCrash
    BY DEF StoresInv, CrashesFit, HalfFilesOnlyAfterCrash
  <1> QED
    BY <1>5, <1>6 DEF EntriesKept

THEOREM WrittenIsKept == StoresSpec => []EntriesKept
  BY StoresSound, KeptInv, PTL

------------------------------------------------------------------------------
(* The same answers                                                           *)

\* Where no crash came between, a record is in both stores or in none.
LEMMA PairSame ==
  ASSUME StoresInv, Quiet, NEW f, NEW k, Corresponds(f, k), Clean(f)
  PROVE  f \notin broken /\ (f \in DOMAIN disk <=> k \in DOMAIN db) /\ (f \in DOMAIN disk => disk[f] = db[k])
  <1>1. f \notin broken
    BY QuietFits DEF Clean
  <1> QED
    BY <1>1 DEF StoresInv, RecordsSame, SameIn

LEMMA BFailed ==
  ASSUME NEW e
  PROVE  /\ B!Failed(e).err = e /\ B!Failed(e).out = {} /\ J!Failed(e).err = e /\ J!Failed(e).out = {}
         /\ J!Ok({}).err = "" /\ J!Ok({}).out = {} /\ B!Ok({}).err = "" /\ B!Ok({}).out = {}
  BY DEF B!Failed, B!Answer, J!Failed, J!Answer, J!Ok, B!Ok

LEMMA NoBucket == B!BucketNotFound.err # "" /\ B!BucketNotFound.out = {}
  BY DEF B!BucketNotFound, B!Failed, B!Answer

LEMMA KeyGot ==
  ASSUME NamesFit, NEW k, NEW x, NEW y
  PROVE  /\ k \in DOMAIN db => B!Get(k, x, y).err = "" /\ B!Get(k, x, y).out = {db[k]}
         /\ k \notin DOMAIN db => B!Get(k, x, y) = x \/ B!Get(k, x, y) = y
         /\ k \notin DOMAIN db /\ k[1] \notin buckets => B!Get(k, x, y) = x
  BY DEF B!Get, B!Ok, B!Answer, NamesFit

LEMMA RacesSame ==
  ASSUME StoresInv, Quiet, NEW id
  PROVE  /\ <<"custom_races", id>> \notin hurt => Same(J!FindCustomRaceByID(id), B!FindCustomRaceByID(id))
         /\ <<"race_weekends", id>> \notin hurt => Same(J!LoadRaceWeekend(id), B!LoadRaceWeekend(id))
  <1>0. NamesFit
    BY DEF StoresInv
  <1>1. ASSUME <<"custom_races", id>> \notin hurt
        PROVE  Same(J!FindCustomRaceByID(id), B!FindCustomRaceByID(id))
    <2> DEFINE f == <<"custom_races", id>>
               k == <<"customRaces", id>>
               a == J!FindCustomRaceByID(id)
               c == B!FindCustomRaceByID(id)
    <2>1. Corresponds(f, k)
      BY DEF Corresponds, Directories
    <2>2. Clean(f)
      BY <1>1 DEF Clean
    <2>3. /\ f \notin broken /\ f \in DOMAIN disk => a.err = "" /\ a.out = {disk[f]}
          /\ f \notin broken /\ f \notin DOMAIN disk => a.err = "not exist" /\ a.out = {}
      BY FileRead DEF J!FindCustomRaceByID
    <2>4. /\ k \in DOMAIN db => c.err = "" /\ c.out = {db[k]}
          /\ k \notin DOMAIN db => c.err # "" /\ c.out = {}
      <3>1. k \in DOMAIN db => c.err = "" /\ c.out = {db[k]}
        BY <1>0, KeyGot DEF B!FindCustomRaceByID
      <3>2. k \notin DOMAIN db => c = B!BucketNotFound \/ c = B!Failed("custom race not found")
        BY <1>0, KeyGot DEF B!FindCustomRaceByID
      <3>3. B!Failed("custom race not found").err # "" /\ B!Failed("custom race not found").out = {}
        BY DEF B!Failed, B!Answer
      <3> QED
        BY <3>1, <3>2, <3>3, NoBucket
    <2>5. f \notin broken /\ (f \in DOMAIN disk <=> k \in DOMAIN db) /\ (f \in DOMAIN disk => disk[f] = db[k])
      BY <2>1, <2>2, PairSame
    <2> HIDE DEF f, k, a, c
    <2>6. Same(a, c)
      BY <2>3, <2>4, <2>5 DEF Same
    <2> QED
      BY <2>6 DEF a, c
  <1>2. ASSUME <<"race_weekends", id>> \notin hurt
        PROVE  Same(J!LoadRaceWeekend(id), B!LoadRaceWeekend(id))
    <2> DEFINE f == <<"race_weekends", id>>
               k == <<"raceWeekends", id>>
               a == J!LoadRaceWeekend(id)
               c == B!LoadRaceWeekend(id)
    <2>1. Corresponds(f, k)
      BY DEF Corresponds, Directories
    <2>2. Clean(f)
      BY <1>2 DEF Clean
    <2>3. /\ a.err = "" <=> f \notin broken /\ f \in DOMAIN disk
          /\ a.out = IF f \notin broken /\ f \in DOMAIN disk THEN {disk[f]} ELSE {}
          /\ c.err = "" <=> k \in DOMAIN db
          /\ c.out = IF k \in DOMAIN db THEN {db[k]} ELSE {}
      BY <1>0, WeekendRead
    <2>4. f \notin broken /\ (f \in DOMAIN disk <=> k \in DOMAIN db) /\ (f \in DOMAIN disk => disk[f] = db[k])
      BY <2>1, <2>2, PairSame
    <2> HIDE DEF f, k, a, c
    <2>5. Same(a, c)
      BY <2>3, <2>4 DEF Same
    <2> QED
      BY <2>5 DEF a, c
  <1> QED
    BY <1>1, <1>2

LEMMA SmallSame ==
  ASSUME StoresInv, Quiet
  PROVE  /\ J!FrameLinks \notin hurt => Same(J!ListPrevFrames, B!ListPrevFrames)
         /\ J!Meta("version") \notin hurt => Same(J!GetMeta("version"), B!GetMeta("version"))
         /\ J!LiveTimings \notin hurt => J!LoadLiveTimingsData.out = B!LoadLiveTimingsData.out
         /\ J!LastRaceEvent \notin hurt => J!LoadLastRaceEvent.out = B!LoadLastRaceEvent.out
  <1>0. NamesFit
    BY DEF StoresInv
  <1>1. ASSUME J!FrameLinks \notin hurt PROVE Same(J!ListPrevFrames, B!ListPrevFrames)
    <2> DEFINE f == J!FrameLinks
               k == B!FrameLinks
               a == J!ListPrevFrames
               c == B!ListPrevFrames
    <2>1. Corresponds(f, k)
      BY DEF Corresponds
    <2>2. Clean(f)
      BY <1>1 DEF Clean, J!FrameLinks
    <2>3. /\ f \notin broken /\ f \in DOMAIN disk => a.err = "" /\ a.out = {disk[f]}
          /\ f \notin broken /\ f \notin DOMAIN disk => a = J!Ok({})
      BY FileRead DEF J!ListPrevFrames
    <2>4. k[1] = "frameLinks"
      BY DEF B!FrameLinks
    <2>5. /\ k \in DOMAIN db => c.err = "" /\ c.out = {db[k]}
          /\ k \notin DOMAIN db => c = B!Ok({})
      BY <1>0, <2>4, KeyGot DEF B!ListPrevFrames, NamesFit
    <2>6. f \notin broken /\ (f \in DOMAIN disk <=> k \in DOMAIN db) /\ (f \in DOMAIN disk => disk[f] = db[k])
      BY <2>1, <2>2, PairSame
    <2> HIDE DEF f, k, a, c
    <2>7. Same(a, c)
      BY <2>3, <2>5, <2>6, BFailed DEF Same
    <2> QED
      BY <2>7 DEF a, c
  <1>2. ASSUME J!Meta("version") \notin hurt PROVE Same(J!GetMeta("version"), B!GetMeta("version"))
    <2> DEFINE f == J!Meta("version")
               k == <<"meta", "version">>
               a == J!GetMeta("version")
               c == B!GetMeta("version")
    <2>1. Corresponds(f, k)
      BY DEF Corresponds, Directories, J!Meta
    <2>2. Clean(f)
      BY <1>2 DEF Clean, J!Meta
    <2>3. /\ f \notin broken /\ f \in DOMAIN disk => a.err = "" /\ a.out = {disk[f]}
          /\ f \notin broken /\ f \notin DOMAIN disk => a = J!Failed("value not set")
      BY FileRead DEF J!GetMeta
    <2>4. /\ k \in DOMAIN db => c.err = "" /\ c.out = {db[k]}
          /\ k \notin DOMAIN db => c = B!Failed("value not set")
      BY <1>0, KeyGot DEF B!GetMeta
    <2>5. f \notin broken /\ (f \in DOMAIN disk <=> k \in DOMAIN db) /\ (f \in DOMAIN disk => disk[f] = db[k])
      BY <2>1, <2>2, PairSame
    <2>6. /\ J!Failed("value not set").err # "" /\ J!Failed("value not set").out = {}
          /\ B!Failed("value not set").err # "" /\ B!Failed("value not set").out = {}
      BY DEF B!Failed, B!Answer, J!Failed, J!Answer
    <2> HIDE DEF f, k, a, c
    <2>7. Same(a, c)
      BY <2>3, <2>4, <2>5, <2>6 DEF Same
    <2> QED
      BY <2>7 DEF a, c
  <1>3. ASSUME NEW f, NEW k, Corresponds(f, k), Clean(f), NEW c,
               k \in DOMAIN db => c.out = {db[k]}, k \notin DOMAIN db => c.out = {}
        PROVE  J!decodeFile(f).out = c.out
    <2>1. f \notin broken /\ (f \in DOMAIN disk <=> k \in DOMAIN db) /\ (f \in DOMAIN disk => disk[f] = db[k])
      BY <1>3, PairSame
    <2>2. /\ f \notin broken /\ f \in DOMAIN disk => J!decodeFile(f).out = {disk[f]}
          /\ f \notin broken /\ f \notin DOMAIN disk => J!decodeFile(f).out = {}
      BY FileRead
    <2> QED
      BY <1>3, <2>1, <2>2
  <1>4. ASSUME NEW k
        PROVE  LET c == B!Get(k, B!BucketNotFound, B!Ok({}))
               IN  (k \in DOMAIN db => c.out = {db[k]}) /\ (k \notin DOMAIN db => c.out = {})
    <2> DEFINE c == B!Get(k, B!BucketNotFound, B!Ok({}))
    <2>1. /\ k \in DOMAIN db => c.out = {db[k]}
          /\ k \notin DOMAIN db => c = B!BucketNotFound \/ c = B!Ok({})
      BY <1>0, KeyGot
    <2> HIDE DEF c
    <2>2. (k \in DOMAIN db => c.out = {db[k]}) /\ (k \notin DOMAIN db => c.out = {})
      BY <2>1, NoBucket, BFailed
    <2> QED
      BY <2>2 DEF c
  <1>5. ASSUME J!LiveTimings \notin hurt PROVE J!LoadLiveTimingsData.out = B!LoadLiveTimingsData.out
    <2>1. Corresponds(J!LiveTimings, B!LiveTimings)
      BY DEF Corresponds
    <2>2. Clean(J!LiveTimings)
      BY <1>5 DEF Clean, J!LiveTimings
    <2> QED
      BY <1>3, <1>4, <2>1, <2>2 DEF J!LoadLiveTimingsData, B!LoadLiveTimingsData
  <1>6. ASSUME J!LastRaceEvent \notin hurt PROVE J!LoadLastRaceEvent.out = B!LoadLastRaceEvent.out
    <2>1. Corresponds(J!LastRaceEvent, B!LastRaceEvent)
      BY DEF Corresponds
    <2>2. Clean(J!LastRaceEvent)
      BY <1>6 DEF Clean, J!LastRaceEvent
    <2> QED
      BY <1>3, <1>4, <2>1, <2>2 DEF J!LoadLastRaceEvent, B!LoadLastRaceEvent
  <1> QED
    BY <1>1, <1>2, <1>5, <1>6

LEMMA OptionsSameAnswers ==
  ASSUME StoresInv, Quiet
  PROVE  /\ J!Options \notin hurt \cup overlapped => Same(J!LoadServerOptions, B!LoadServerOptions)
         /\ PluginFile \notin hurt \cup overlapped =>
              J!LoadPluginOptions(PluginFile).out = B!LoadPluginOptions(PluginKey).out
  <1>1. \A f : f \notin hurt => f \notin broken
    BY QuietFits
  <1>2. OptionsAgree(J!Options, B!Options) /\ OptionsAgree(PluginFile, PluginKey) /\ NamesFit
    BY DEF StoresInv, OptionsSame
  <1>3. ASSUME J!Options \notin hurt \cup overlapped PROVE Same(J!LoadServerOptions, B!LoadServerOptions)
    <2>1. J!Options \notin broken /\ ValueIn(disk, J!Options, "default") = ValueIn(db, B!Options, "default")
      BY <1>1, <1>2, <1>3 DEF OptionsAgree
    <2>2. J!LoadServerOptions.err = "" /\ J!LoadServerOptions.out = {ValueIn(disk, J!Options, "default")}
      BY <2>1, OptionsLoaded DEF J!LoadServerOptions
    <2>3. B!LoadServerOptions.err = "" /\ B!LoadServerOptions.out = {ValueIn(db, B!Options, "default")}
      BY <1>2, KeysLoaded
    <2> QED
      BY <2>1, <2>2, <2>3 DEF Same
  <1>4. ASSUME PluginFile \notin hurt \cup overlapped
        PROVE  J!LoadPluginOptions(PluginFile).out = B!LoadPluginOptions(PluginKey).out
    <2>1. PluginFile \notin broken /\ ValueIn(disk, PluginFile, "default") = ValueIn(db, PluginKey, "default")
      BY <1>1, <1>2, <1>4 DEF OptionsAgree
    <2>2. J!LoadPluginOptions(PluginFile).out = {ValueIn(disk, PluginFile, "default")}
      BY <2>1, OptionsLoaded DEF J!LoadPluginOptions
    <2>3. B!LoadPluginOptions(PluginKey).out = {ValueIn(db, PluginKey, "default")}
      BY <1>2, KeysLoaded
    <2> QED
      BY <2>1, <2>2, <2>3
  <1> QED
    BY <1>3, <1>4

LEMMA AccountAnswers ==
  ASSUME StoresInv, Quiet, Unhurt({"accounts"})
  PROVE  /\ Same(J!ListAccounts, B!ListAccounts)
         /\ \A x \in People : /\ Same(J!FindAccountByName(x), B!FindAccountByName(x))
                              /\ Same(J!FindAccountByID(x), B!FindAccountByID(x))
  <1>1. broken \subseteq hurt /\ NamesFit
    BY QuietFits DEF StoresInv
  <1>2. Same(J!ListAccounts, B!ListAccounts)
    BY <1>1, AccountsListed, AccountsSame DEF Same
  <1>3. ASSUME NEW x PROVE Same(J!FindAccountByName(x), B!FindAccountByName(x))
    <2> DEFINE a == J!FindAccountByName(x)
               c == B!FindAccountByName(x)
               f == <<"accounts", x>>
    <2>1. (FileIn("accounts", x) <=> f \in DOMAIN db) /\ (FileIn("accounts", x) => disk[f] = db[f])
      BY <1>1, AccountsSame
    <2>2. /\ a.err = "" <=> FileIn("accounts", x)
          /\ a.out = IF FileIn("accounts", x) THEN {disk[f]} ELSE {}
          /\ c.err = "" <=> f \in DOMAIN db
          /\ c.out = IF f \in DOMAIN db THEN {db[f]} ELSE {}
      BY <1>1, AccountRead
    <2> HIDE DEF a, c, f
    <2>3. Same(a, c)
      BY <2>1, <2>2 DEF Same
    <2> QED
      BY <2>3 DEF a, c
  <1>4. ASSUME NEW x PROVE Same(J!FindAccountByID(x), B!FindAccountByID(x))
    <2>1. J!FindAccountByID(x) = B!FindAccountByID(x)
      BY <1>1, AccountsSame
    <2> QED
      BY <2>1 DEF Same
  <1> QED
    BY <1>2, <1>3, <1>4

\* What a list of the file store holds.
IsList(out, dir) == \A r : r \in out <=> ~r.deleted /\ \E x : FileIn(dir, x) /\ r = disk[<<dir, x>>]
IsKeyList(out, bucket) ==
  \A r : r \in out <=> ~r.deleted /\ \E x : <<bucket, x>> \in DOMAIN db /\ r = db[<<bucket, x>>]

LEMMA FilesAreList ==
  ASSUME NamesFit, NEW dir, NEW files, NEW out,
         \A r : r \in out <=> ~r.deleted /\ \E f \in files : r = disk[f],
         files \subseteq J!listFiles(dir),
         \A f \in J!listFiles(dir) : f \in files <=> FileIn(dir, f[2])
  PROVE  IsList(out, dir)
  <1>1. \A f \in J!listFiles(dir) : f = <<dir, f[2]>>
    BY FilesListed
  <1>2. \A x : FileIn(dir, x) => <<dir, x>> \in J!listFiles(dir)
    BY FilesListed
  <1>3. \A x : LET f == <<dir, x>> IN f[2] = x
    OBVIOUS
  <1>4. \A x : FileIn(dir, x) => <<dir, x>> \in files
    BY <1>2, <1>3
  <1>5. \A f \in files : f = <<dir, f[2]>> /\ FileIn(dir, f[2])
    BY <1>1
  <1>6. ASSUME NEW r
        PROVE  (\E f \in files : r = disk[f]) <=> \E x : FileIn(dir, x) /\ r = disk[<<dir, x>>]
    <2>1. ASSUME NEW f \in files, r = disk[f] PROVE \E x : FileIn(dir, x) /\ r = disk[<<dir, x>>]
      BY <1>5, <2>1
    <2>2. ASSUME NEW x, FileIn(dir, x), r = disk[<<dir, x>>] PROVE \E f \in files : r = disk[f]
      BY <1>4, <2>2
    <2> QED
      BY <2>1, <2>2
  <1> QED
    BY <1>6 DEF IsList

LEMMA RacesListed ==
  ASSUME NamesFit
  PROVE  IsList(J!ListCustomRaces.out, "custom_races")
  <1> DEFINE dir == "custom_races"
             load(f) == J!decodeFile(f)
             files == {f \in J!listFiles(dir) : load(f).err = ""}
             out == J!ListCustomRaces.out
  <1>1. out = {r \in {J!The(load(f)) : f \in files} : ~r.deleted}
    BY DEF J!ListCustomRaces, J!Live, J!Ok, J!Answer
  <1>2. \A f \in J!listFiles(dir) : f = <<dir, f[2]>>
    BY FilesListed
  <1>3. \A f : load(f).err = "" <=> f \notin broken /\ f \in DOMAIN disk
    BY FileRead
  <1>4. \A f \in J!listFiles(dir) : f \in files <=> FileIn(dir, f[2])
    BY <1>2, <1>3 DEF FileIn
  <1>5. ASSUME NEW f \in files PROVE J!The(load(f)) = disk[f]
    <2>1. load(f).out = {disk[f]}
      BY <1>3, FileRead
    <2> HIDE DEF load
    <2> QED
      BY <2>1 DEF J!The
  <1>6. files \subseteq J!listFiles(dir)
    OBVIOUS
  <1> HIDE DEF load, files, dir, out
  <1>7. \A r : r \in out <=> ~r.deleted /\ \E f \in files : r = disk[f]
    BY <1>1, <1>5
  <1>8. IsList(out, dir)
    BY <1>4, <1>6, <1>7, FilesAreList
  <1> QED
    BY <1>8 DEF dir, out

LEMMA WeekendsListed ==
  ASSUME NamesFit
  PROVE  IsList(J!ListRaceWeekends.out, "race_weekends")
  <1> DEFINE dir == "race_weekends"
             load(f) == J!LoadRaceWeekend(f[2])
             files == {f \in J!listFiles(dir) : load(f).err = ""}
             out == J!ListRaceWeekends.out
  <1>1. out = {r \in {J!The(load(f)) : f \in files} : ~r.deleted}
    BY DEF J!ListRaceWeekends, J!Live, J!Ok, J!Answer
  <1>2. \A f \in J!listFiles(dir) : f = <<dir, f[2]>>
    BY FilesListed
  <1>3. \A f \in J!listFiles(dir) : f \in files <=> FileIn(dir, f[2])
    BY WeekendRead DEF FileIn
  <1>4. ASSUME NEW f \in files PROVE J!The(load(f)) = disk[f]
    <2>1. FileIn(dir, f[2]) /\ f = <<dir, f[2]>>
      BY <1>2, <1>3
    <2>2. load(f).out = {disk[f]}
      BY <2>1, WeekendRead DEF FileIn
    <2> HIDE DEF load
    <2> QED
      BY <2>2 DEF J!The
  <1>5. files \subseteq J!listFiles(dir)
    OBVIOUS
  <1> HIDE DEF load, files, dir, out
  <1>6. \A r : r \in out <=> ~r.deleted /\ \E f \in files : r = disk[f]
    BY <1>1, <1>4
  <1>7. IsList(out, dir)
    BY <1>3, <1>5, <1>6, FilesAreList
  <1> QED
    BY <1>7 DEF dir, out

LEMMA ChampionshipsListed ==
  ASSUME StoresInv, broken \subseteq hurt, Unhurt({"championships", "race_weekends"})
  PROVE  IsList(J!ListChampionships.out, "championships") /\ J!ListChampionships.err = ""
  <1> DEFINE dir == "championships"
             load(f) == J!LoadChampionship(f[2])
             files == {f \in J!listFiles(dir) : load(f).err = ""}
             out == J!ListChampionships.out
  <1>0. NamesFit
    BY DEF StoresInv
  <1>1. out = {r \in {J!The(load(f)) : f \in files} : ~r.deleted} /\ J!ListChampionships.err = ""
    BY DEF J!ListChampionships, J!Live, J!Ok, J!Answer
  <1>2. \A f \in J!listFiles(dir) : f = <<dir, f[2]>>
    BY <1>0, FilesListed
  <1>3. Unhurt({"race_weekends"})
    BY DEF Unhurt
  <1>4. ASSUME NEW x, FileIn(dir, x)
        PROVE  WeekendIn(DOMAIN disk \ broken, "race_weekends", disk[<<dir, x>>])
    <2> DEFINE r == disk[<<dir, x>>]
    <2>1. r.weekend = "" \/ <<"raceWeekends", r.weekend>> \in DOMAIN db
      BY <1>4 DEF FileIn, StoresInv, RecordsFit, WeekendFits
    <2> HIDE DEF r
    <2>2. r.weekend = "" \/ <<"race_weekends", r.weekend>> \in DOMAIN disk \ broken
      BY <1>3, <2>1, WeekendsSame
    <2> QED
      BY <2>2 DEF WeekendIn, r
  <1>5. ASSUME NEW f \in J!listFiles(dir)
        PROVE  /\ load(f).err = "" <=> FileIn(dir, f[2])
               /\ FileIn(dir, f[2]) => load(f).out = {disk[f]}
    <2>1. f = <<dir, f[2]>>
      BY <1>2
    <2>2. LET there == /\ f \notin broken /\ f \in DOMAIN disk
                       /\ WeekendIn(DOMAIN disk \ broken, "race_weekends", disk[f])
          IN  /\ load(f).err = "" <=> there
              /\ load(f).out = IF there THEN {disk[f]} ELSE {}
      BY <1>0, <2>1, ChampionshipRead
    <2>3. FileIn(dir, f[2]) <=> f \in DOMAIN disk /\ f \notin broken
      BY <2>1 DEF FileIn
    <2>4. FileIn(dir, f[2]) => WeekendIn(DOMAIN disk \ broken, "race_weekends", disk[f])
      BY <1>4, <2>1
    <2> HIDE DEF load
    <2> QED
      BY <2>2, <2>3, <2>4
  <1>6. \A f \in J!listFiles(dir) : f \in files <=> FileIn(dir, f[2])
    BY <1>5
  <1>7. ASSUME NEW f \in files PROVE J!The(load(f)) = disk[f]
    <2>1. load(f).out = {disk[f]}
      BY <1>5
    <2> HIDE DEF load
    <2> QED
      BY <2>1 DEF J!The
  <1>8. files \subseteq J!listFiles(dir)
    OBVIOUS
  <1> HIDE DEF load, files, dir, out
  <1>9. \A r : r \in out <=> ~r.deleted /\ \E f \in files : r = disk[f]
    BY <1>1, <1>7
  <1>10. IsList(out, dir)
    BY <1>0, <1>6, <1>8, <1>9, FilesAreList
  <1> QED
    BY <1>1, <1>10 DEF dir, out

LEMMA IdIs ==
  ASSUME NEW x, NEW r, IdFits(x, r)
  PROVE  r.id = x
  BY DEF IdFits

\* The records of a list have the id of their file, and what no crash hurt is in both lists.
LEMMA ListsSame ==
  ASSUME StoresInv, Quiet, NEW dir, NEW bucket, NEW json, NEW bolt,
         <<dir, bucket>> \in Directories, dir \in {"custom_races", "race_weekends"},
         IsList(json, dir), IsKeyList(bolt, bucket)
  PROVE  {r \in json : <<dir, r.id>> \notin hurt} = {r \in bolt : <<dir, r.id>> \notin hurt}
  <1>1. ASSUME NEW x
        PROVE  /\ <<dir, x>> \in DOMAIN disk => disk[<<dir, x>>].id = x
               /\ <<bucket, x>> \in DOMAIN db => db[<<bucket, x>>].id = x
    <2>1. (dir = "custom_races" /\ bucket = "customRaces") \/ (dir = "race_weekends" /\ bucket = "raceWeekends")
      BY DEF Directories
    <2>2. \A r : IdFits(x, r) => r.id = x
      BY IdIs
    <2>3. CASE dir = "custom_races" /\ bucket = "customRaces"
      BY <2>2, <2>3 DEF StoresInv, RecordsFit
    <2>4. CASE dir = "race_weekends" /\ bucket = "raceWeekends"
      BY <2>2, <2>4 DEF StoresInv, RecordsFit
    <2> QED
      BY <2>1, <2>3, <2>4
  <1>2. ASSUME NEW x, <<dir, x>> \notin hurt
        PROVE  /\ FileIn(dir, x) <=> <<bucket, x>> \in DOMAIN db
               /\ FileIn(dir, x) => disk[<<dir, x>>] = db[<<bucket, x>>]
    <2> DEFINE f == <<dir, x>>
               k == <<bucket, x>>
    <2>1. Corresponds(f, k)
      <3>1. LET m == <<dir, bucket>> IN m[1] = dir /\ m[2] = bucket
        OBVIOUS
      <3> QED
        BY <3>1 DEF Corresponds
    <2>2. Clean(f)
      BY <1>2 DEF Clean
    <2> HIDE DEF k
    <2>3. f \notin broken /\ (f \in DOMAIN disk <=> k \in DOMAIN db) /\ (f \in DOMAIN disk => disk[f] = db[k])
      BY <2>1, <2>2, PairSame
    <2> QED
      BY <2>3 DEF FileIn, k
  <1>3. ASSUME NEW r, <<dir, r.id>> \notin hurt PROVE r \in json <=> r \in bolt
    <2>1. (\E x : FileIn(dir, x) /\ r = disk[<<dir, x>>]) <=> \E x : <<bucket, x>> \in DOMAIN db /\ r = db[<<bucket, x>>]
      <3>1. ASSUME NEW x, FileIn(dir, x), r = disk[<<dir, x>>]
            PROVE  <<bucket, x>> \in DOMAIN db /\ r = db[<<bucket, x>>]
        <4>1. r.id = x
          BY <1>1, <3>1 DEF FileIn
        <4> QED
          BY <1>2, <1>3, <3>1, <4>1
      <3>2. ASSUME NEW x, <<bucket, x>> \in DOMAIN db, r = db[<<bucket, x>>]
            PROVE  FileIn(dir, x) /\ r = disk[<<dir, x>>]
        <4>1. r.id = x
          BY <1>1, <3>2
        <4> QED
          BY <1>2, <1>3, <3>2, <4>1
      <3> QED
        BY <3>1, <3>2
    <2> QED
      BY <2>1 DEF IsList, IsKeyList
  <1> QED
    BY <1>3

LEMMA ChampionshipsListSame ==
  ASSUME StoresInv, Quiet, Unhurt({"championships", "race_weekends"})
  PROVE  Same(J!ListChampionships, B!ListChampionships)
  <1>1. NamesFit /\ broken \subseteq hurt
    BY QuietFits DEF StoresInv
  <1>2. IsList(J!ListChampionships.out, "championships") /\ J!ListChampionships.err = ""
    BY <1>1, ChampionshipsListed
  <1>3. IsKeyList(B!ListChampionships.out, "championships") /\ B!ListChampionships.err = ""
    BY <1>1, LiveKeys DEF B!ListChampionships, IsKeyList
  <1>4. ASSUME NEW x
        PROVE  /\ FileIn("championships", x) <=> <<"championships", x>> \in DOMAIN db
               /\ FileIn("championships", x) => disk[<<"championships", x>>] = db[<<"championships", x>>]
    <2> DEFINE f == <<"championships", x>>
    <2>1. Corresponds(f, f)
      BY DEF Corresponds, Directories
    <2>2. Clean(f)
      BY DEF Clean, Unhurt
    <2>3. f \notin broken /\ (f \in DOMAIN disk <=> f \in DOMAIN db) /\ (f \in DOMAIN disk => disk[f] = db[f])
      BY <2>1, <2>2, PairSame
    <2> QED
      BY <2>3 DEF FileIn
  <1>5. \A r : (\E x : FileIn("championships", x) /\ r = disk[<<"championships", x>>])
                  <=> \E x : <<"championships", x>> \in DOMAIN db /\ r = db[<<"championships", x>>]
    BY <1>4
  <1> DEFINE json == J!ListChampionships.out
             bolt == B!ListChampionships.out
  <1>6. ASSUME NEW r PROVE r \in json <=> r \in bolt
    <2>1. r \in json <=> ~r.deleted /\ \E x : FileIn("championships", x) /\ r = disk[<<"championships", x>>]
      BY <1>2 DEF IsList
    <2>2. r \in bolt <=> ~r.deleted /\ \E x : <<"championships", x>> \in DOMAIN db /\ r = db[<<"championships", x>>]
      BY <1>3 DEF IsKeyList
    <2> HIDE DEF json, bolt
    <2> QED
      BY <1>5, <2>1, <2>2
  <1>7. J!ListChampionships.out = B!ListChampionships.out
    BY <1>6
  <1> QED
    BY <1>2, <1>3, <1>7 DEF Same

\* The entrants that the stores list have the same GUIDs.
LEMMA EntrantsListSame ==
  ASSUME StoresInv, Quiet
  PROVE  SameEntrants
  <1> SUFFICES ASSUME J!Entrants \notin hurt \cup overlapped
               PROVE  {e.guid : e \in Range(J!The(J!ListEntrants))} = {e.guid : e \in J!The(B!ListEntrants)}
    BY DEF SameEntrants
  <1>1. J!Entrants \notin broken /\ EntrantsSame /\ NamesFit
    BY QuietFits DEF StoresInv
  <1> DEFINE s == ValueIn(disk, J!Entrants, <<>>)
             all == B!AllIn("entrants")
  <1>2. J!ListEntrants.out = {s}
    BY <1>1, EntrantsRead
  <1>3. B!ListEntrants.out = {all}
    BY DEF B!ListEntrants, B!Ok, B!Answer
  <1>4. {e.guid : e \in Range(s)} = Guids(s)
    <2> HIDE DEF s
    <2> QED
      BY DEF Range, Guids
  <1>5. \A g : g \in Guids(s) <=> <<"entrants", g>> \in DOMAIN db
    BY <1>1 DEF EntrantsSame, Listed
  <1>6. \A g : g \in {e.guid : e \in all} <=> <<"entrants", g>> \in DOMAIN db
    <2>1. \A e : e \in all <=> \E k \in DOMAIN db : k[1] = "entrants" /\ e = db[k]
      BY DEF B!AllIn
    <2>2. \A k \in DOMAIN db : k[1] = "entrants" => k = <<"entrants", k[2]>>
      BY <1>1, FilesListed
    <2>3. \A g : <<"entrants", g>> \in DOMAIN db => db[<<"entrants", g>>].guid = g
      BY <1>1 DEF EntrantsSame
    <2>4. \A g : LET k == <<"entrants", g>> IN k[1] = "entrants"
      OBVIOUS
    <2> HIDE DEF all
    <2>5. ASSUME NEW e \in all PROVE <<"entrants", e.guid>> \in DOMAIN db
      <3>1. PICK k \in DOMAIN db : k[1] = "entrants" /\ e = db[k]
        BY <2>1
      <3>2. k = <<"entrants", k[2]>>
        BY <2>2, <3>1
      <3>3. db[<<"entrants", k[2]>>].guid = k[2]
        BY <2>3, <3>2
      <3> QED
        BY <3>1, <3>2, <3>3
    <2>6. ASSUME NEW g, <<"entrants", g>> \in DOMAIN db PROVE \E e \in all : g = e.guid
      BY <2>1, <2>3, <2>4, <2>6
    <2> QED
      BY <2>5, <2>6
  <1> HIDE DEF s, all
  <1>7. J!The(J!ListEntrants) = s /\ J!The(B!ListEntrants) = all
    BY <1>2, <1>3 DEF J!The
  <1>8. Guids(s) = {e.guid : e \in all}
    BY <1>5, <1>6
  <1> QED
    BY <1>4, <1>7, <1>8

LEMMA SameInv == StoresInv => SameAnswers
  <1> SUFFICES ASSUME StoresInv, Quiet PROVE SameAnswers
    BY DEF SameAnswers
  <1>1. NamesFit /\ broken \subseteq hurt
    BY QuietFits DEF StoresInv
  <1>2. ASSUME NEW id \in Ids
        PROVE  /\ <<"custom_races", id>> \notin hurt => Same(J!FindCustomRaceByID(id), B!FindCustomRaceByID(id))
               /\ <<"race_weekends", id>> \notin hurt => Same(J!LoadRaceWeekend(id), B!LoadRaceWeekend(id))
               /\ Unhurt({"championships", "race_weekends"}) => Same(J!LoadChampionship(id), B!LoadChampionship(id))
    BY <1>1, RacesSame, ChampionshipsSame
  <1>3. {r \in J!ListCustomRaces.out : <<"custom_races", r.id>> \notin hurt}
          = {r \in B!ListCustomRaces.out : <<"custom_races", r.id>> \notin hurt}
    <2> DEFINE json == J!ListCustomRaces.out
               bolt == B!ListCustomRaces.out
    <2>1. IsList(json, "custom_races")
      BY <1>1, RacesListed
    <2>2. IsKeyList(bolt, "customRaces")
      BY <1>1, LiveKeys DEF B!ListCustomRaces, IsKeyList
    <2>3. <<"custom_races", "customRaces">> \in Directories
      BY DEF Directories
    <2> HIDE DEF json, bolt
    <2>4. {r \in json : <<"custom_races", r.id>> \notin hurt} = {r \in bolt : <<"custom_races", r.id>> \notin hurt}
      BY <2>1, <2>2, <2>3, ListsSame
    <2> QED
      BY <2>4 DEF json, bolt
  <1>4. {r \in J!ListRaceWeekends.out : <<"race_weekends", r.id>> \notin hurt}
          = {r \in B!ListRaceWeekends.out : <<"race_weekends", r.id>> \notin hurt}
    <2> DEFINE json == J!ListRaceWeekends.out
               bolt == B!ListRaceWeekends.out
    <2>1. IsList(json, "race_weekends")
      BY <1>1, WeekendsListed
    <2>2. IsKeyList(bolt, "raceWeekends")
      BY <1>1, LiveKeys DEF B!ListRaceWeekends, IsKeyList
    <2>3. <<"race_weekends", "raceWeekends">> \in Directories
      BY DEF Directories
    <2> HIDE DEF json, bolt
    <2>4. {r \in json : <<"race_weekends", r.id>> \notin hurt} = {r \in bolt : <<"race_weekends", r.id>> \notin hurt}
      BY <2>1, <2>2, <2>3, ListsSame
    <2> QED
      BY <2>4 DEF json, bolt
  <1>5. Unhurt({"championships", "race_weekends"}) => Same(J!ListChampionships, B!ListChampionships)
    BY ChampionshipsListSame
  <1>6. Unhurt({"accounts"}) =>
          /\ Same(J!ListAccounts, B!ListAccounts)
          /\ \A x \in People : /\ Same(J!FindAccountByName(x), B!FindAccountByName(x))
                               /\ Same(J!FindAccountByID(x), B!FindAccountByID(x))
    BY AccountAnswers
  <1> QED
    BY <1>2, <1>3, <1>4, <1>5, <1>6, EntrantsListSame, OptionsSameAnswers, SmallSame DEF SameAnswers

\* The stores give the same answers: whatever the clients do, and whenever the program crashes,
\* the store of files and the database answer every question alike, but for what a crash left
\* empty and what two clients saved at once.
THEOREM AnswersAreTheSame == StoresSpec => []SameAnswers
  <1> QED
    BY StoresSound, SameInv, PTL

------------------------------------------------------------------------------
(* Accounts                                                                   *)

USE AccountsAssumption

------------------------------------------------------------------------------
(* The inductive invariant.                                                   *)

Names == Range(UserNames)
AccountRecord ==
  [id : 1 .. MaxAccounts, name : Names, group : Groups \cup {GroupAdmin}, password : {"", "own"},
   default : {"", "default"}, deleted : BOOLEAN, details : {0, 1}]

\* Somebody can log in with it.
Usable(a) == a.default = "default" \/ a.password = "own"

\* An account is stored under its name.
AccountsFit ==
  /\ DOMAIN accounts \subseteq Names
  /\ \A n \in DOMAIN accounts : accounts[n] \in AccountRecord /\ accounts[n].name = n /\ Usable(accounts[n])

\* A request holds a copy of an account whose name is still taken.
RequestsFit ==
  /\ request \in [Browsers -> AccountRecord \cup {NoRequest, OpenAccount}]
  /\ \A b \in Browsers : request[b].id > 0 => request[b].name \in DOMAIN accounts /\ Usable(request[b])

RestFits ==
  /\ DOMAIN decided = DOMAIN accounts /\ session \in [Browsers -> 0 .. MaxAccounts]
  /\ isOpen \in BOOLEAN /\ lastID \in 1 .. MaxAccounts /\ saves \in 0 .. MaxSteps
  /\ stale \subseteq Names /\ waived \in BOOLEAN

AdminThere == ~waived /\ stale = {} => \E n \in Live : accounts[n].group = GroupAdmin

IInv == AccountsFit /\ RequestsFit /\ RestFits /\ DecisionsStand /\ AdminThere

------------------------------------------------------------------------------
(* Lemmas on numbers, names and the store.                                    *)

LEMMA Bounds ==
  /\ MaxAccounts \in Nat /\ MaxAccounts >= 1 /\ MaxSteps \in Nat
  /\ UserNames \in [1 .. Len(UserNames) -> STRING] /\ Len(UserNames) \in Nat
  /\ Names = {UserNames[k] : k \in 1 .. Len(UserNames)} /\ adminName \in Names
BY DEF Range, Names

Less == {ss \in Nat \X Nat : ss[1] < ss[2]}

LEMMA LessIsWellFounded == IsWellFoundedOn(Less, Nat)
<1>1. Less = OpToRel(<, Nat)
  BY Zenon DEF OpToRel, Less
<1> QED
  BY <1>1, NatLessThanWellFounded, Zenon

LEMMA LeastNumber ==
  ASSUME NEW S \in SUBSET Nat, S # {}
  PROVE  \E m \in S : \A n \in S : m <= n
<1>1. \E m \in S : \A n \in S : <<n, m>> \notin Less
  BY LessIsWellFounded, WFMin
<1>2. \A m, n \in S : <<n, m>> \notin Less => m <= n
  BY DEF Less
<1> QED
  BY <1>1, <1>2

\* FindAccountByID finds an account with the id, if there is one.
LEMMA FirstIsNamed ==
  ASSUME AccountsFit, NEW id, Named(id) # {}
  PROVE  /\ FirstName(id) \in Named(id) /\ FirstName(id) \in DOMAIN accounts /\ FirstName(id) \in Names
         /\ accounts[FirstName(id)].id = id /\ ~accounts[FirstName(id)].deleted
<1> DEFINE K == {k \in 1 .. Len(UserNames) : UserNames[k] \in Named(id)}
<1>1. Named(id) \subseteq Names
  BY DEF Named, Live, AccountsFit
<1>2. K \subseteq Nat /\ K # {}
  BY <1>1, Bounds
<1>3. PICK k \in K : \A j \in K : k <= j
  BY <1>2, LeastNumber
<1>4. k \in DOMAIN UserNames /\ UserNames[k] \in Named(id)
  BY Bounds
<1>5. \A j \in 1 .. (k - 1) : UserNames[j] \notin Named(id)
  <2> SUFFICES ASSUME NEW j \in 1 .. (k - 1), UserNames[j] \in Named(id)
               PROVE  FALSE
    OBVIOUS
  <2>1. j \in Nat /\ k \in Nat /\ j < k /\ j \in 1 .. Len(UserNames)
    BY Bounds
  <2> QED
    BY <1>3, <2>1
<1>6. FirstName(id) \in Named(id)
  BY <1>4, <1>5 DEF FirstName
<1> QED
  BY <1>1, <1>6 DEF Named, Live

\* An administrator stays unless the save takes this from him.
LEMMA AdminStays ==
  ASSUME NEW n, NEW a, Saved(n, a),
         NEW m \in Live, accounts[m].group = GroupAdmin,
         m = n => ~a.deleted /\ a.group = GroupAdmin
  PROVE  \E x \in Live' : accounts'[x].group = GroupAdmin
<1>1. m \in DOMAIN accounts /\ ~accounts[m].deleted
  BY DEF Live
<1>2. DOMAIN accounts' = DOMAIN accounts \cup {n} /\ accounts'[n] = a
      /\ \A x \in DOMAIN accounts : x # n => accounts'[x] = accounts[x]
  BY DEF Saved, Put
<1>3. m \in Live' /\ accounts'[m].group = GroupAdmin
  BY <1>1, <1>2 DEF Live
<1> QED
  BY <1>3

LEMMA RespondMoves ==
  ASSUME IInv, NEW b \in Browsers, Respond(b)
  PROVE  /\ saves' \in 0 .. MaxSteps
         /\ request' \in [Browsers -> AccountRecord \cup {NoRequest, OpenAccount}]
         /\ \A c \in Browsers : request'[c].id > 0 => request'[c] = request[c]
BY Bounds DEF Respond, IInv, RequestsFit, RestFits, NoRequest

\* An account is saved under its name by a request that ends.
LEMMA SavedFits ==
  ASSUME IInv, NEW b \in Browsers, Respond(b), NEW n \in Names, NEW a \in AccountRecord, a.name = n, Usable(a), Saved(n, a)
  PROVE  AccountsFit' /\ RequestsFit'
<1>1. DOMAIN accounts' = DOMAIN accounts \cup {n} /\ accounts'[n] = a
      /\ \A x \in DOMAIN accounts : x # n => accounts'[x] = accounts[x]
  BY DEF Saved, Put
<1>2. AccountsFit'
  BY <1>1 DEF IInv, AccountsFit, Usable
<1>3. RequestsFit'
  BY <1>1, RespondMoves DEF IInv, RequestsFit, Usable
<1> QED
  BY <1>2, <1>3

LEMMA RequestIsAccount ==
  ASSUME IInv, NEW b \in Browsers, request[b].id > 0
  PROVE  request[b] \in AccountRecord /\ request[b].name \in DOMAIN accounts /\ request[b].name \in Names /\ Usable(request[b])
BY DEF IInv, RequestsFit, AccountsFit, NoRequest, OpenAccount

------------------------------------------------------------------------------
(* What people do with their own account.                                     *)

LEMMA OwnPreserves ==
  ASSUME IInv, NEW b \in Browsers, NEW a \in AccountRecord, a.name = request[b].name, Usable(a),
         Decision(a) = Decision(request[b]), Own(b, a)
  PROVE  IInv'
<1> DEFINE n == a.name
<1>1. /\ Respond(b) /\ request[b].id > 0 /\ Saved(n, a)
      /\ stale' = stale \cup {x \in {n} : x \in DOMAIN accounts /\ Decision(accounts[x]) # Decision(request[b])}
      /\ UNCHANGED <<session, isOpen, lastID, decided, waived>>
  BY DEF Own
<1>2. n \in Names /\ n \in DOMAIN accounts
  BY <1>1, RequestIsAccount
<1> HIDE DEF n
<1>3. DOMAIN accounts' = DOMAIN accounts /\ accounts'[n] = a
      /\ \A x \in DOMAIN accounts : x # n => accounts'[x] = accounts[x]
  BY <1>1, <1>2 DEF Saved, Put
<1>4. AccountsFit' /\ RequestsFit'
  BY <1>1, <1>2, SavedFits DEF n
<1>5. RestFits'
  BY <1>1, <1>2, <1>3, RespondMoves DEF IInv, RestFits
<1>6. n \notin stale' => n \notin stale /\ Decision(accounts[n]) = Decision(a)
  BY <1>1, <1>2
<1>7. DecisionsStand'
  <2> SUFFICES ASSUME NEW x \in DOMAIN accounts, x \notin stale'
               PROVE  Decision(accounts'[x]) = decided[x]
    BY <1>1, <1>3 DEF DecisionsStand, Decision
  <2>1. x \notin stale
    BY <1>1
  <2> QED
    BY <1>3, <1>6, <2>1 DEF IInv, DecisionsStand
<1>8. AdminThere'
  <2> SUFFICES ASSUME ~waived, stale' = {}
               PROVE  \E x \in Live' : accounts'[x].group = GroupAdmin
    BY <1>1 DEF AdminThere
  <2>1. PICK m \in Live : accounts[m].group = GroupAdmin
    BY <1>1 DEF IInv, AdminThere
  <2>2. m = n => ~a.deleted /\ a.group = GroupAdmin
    BY <1>6, <2>1 DEF Decision, Live
  <2> QED
    BY <1>1, <2>1, <2>2, AdminStays
<1> QED
  BY <1>4, <1>5, <1>7, <1>8 DEF IInv

LEMMA ChangePasswordPreserves ==
  ASSUME IInv, NEW b \in Browsers, ChangePassword(b)
  PROVE  IInv'
<1> DEFINE a == [request[b] EXCEPT !.default = "", !.password = "own"]
<1>1. Own(b, a) /\ request[b].id > 0
  BY DEF ChangePassword, Own
<1>2. request[b] \in AccountRecord
  BY <1>1, RequestIsAccount
<1>3. a \in AccountRecord /\ a.name = request[b].name /\ Usable(a) /\ Decision(a) = Decision(request[b])
  BY <1>2 DEF AccountRecord, Usable, Decision
<1> QED
  BY <1>1, <1>3, OwnPreserves

LEMMA updateDetailsPreserves ==
  ASSUME IInv, NEW b \in Browsers, updateDetails(b)
  PROVE  IInv'
<1> DEFINE a == [request[b] EXCEPT !.details = 1]
<1>1. Own(b, a) /\ request[b].id > 0
  BY DEF updateDetails, Own
<1>2. request[b] \in AccountRecord /\ Usable(request[b])
  BY <1>1, RequestIsAccount
<1>3. a \in AccountRecord /\ a.name = request[b].name /\ Usable(a) /\ Decision(a) = Decision(request[b])
  BY <1>2 DEF AccountRecord, Usable, Decision
<1> QED
  BY <1>1, <1>3, OwnPreserves

LEMMA SetCurrentVersionPreserves ==
  ASSUME IInv, NEW b \in Browsers, SetCurrentVersion(b)
  PROVE  IInv'
<1>1. Own(b, request[b]) /\ request[b].id > 0
  BY DEF SetCurrentVersion, Own
<1> QED
  BY <1>1, RequestIsAccount, OwnPreserves

------------------------------------------------------------------------------
(* What administrators do with the accounts of all.                           *)

LEMMA DecidePreserves ==
  ASSUME IInv, NEW b \in Browsers, Respond(b), NEW n \in Names, NEW a \in AccountRecord, a.name = n, Usable(a),
         Decide(n, a), UNCHANGED <<session, isOpen, stale>>, lastID' \in 1 .. MaxAccounts, waived' \in BOOLEAN
  PROVE  AccountsFit' /\ RequestsFit' /\ RestFits' /\ DecisionsStand'
<1>1. Saved(n, a) /\ decided' = Put(decided, n, Decision(a))
  BY DEF Decide
<1>2. DOMAIN accounts' = DOMAIN accounts \cup {n} /\ accounts'[n] = a
      /\ \A x \in DOMAIN accounts : x # n => accounts'[x] = accounts[x]
  BY <1>1 DEF Saved, Put
<1>3. DOMAIN decided' = DOMAIN decided \cup {n} /\ decided'[n] = Decision(a)
      /\ \A x \in DOMAIN decided : x # n => decided'[x] = decided[x]
  BY <1>1 DEF Put
<1>4. AccountsFit' /\ RequestsFit'
  BY <1>1, SavedFits
<1>5. RestFits'
  BY <1>2, <1>3, RespondMoves DEF IInv, RestFits
<1>6. DecisionsStand'
  <2> SUFFICES ASSUME NEW x \in DOMAIN accounts', x \notin stale
               PROVE  Decision(accounts'[x]) = decided'[x]
    BY DEF DecisionsStand, Decision
  <2>1. CASE x = n
    BY <1>2, <1>3, <2>1
  <2>2. CASE x # n
    BY <1>2, <1>3, <2>2 DEF IInv, RestFits, DecisionsStand
  <2> QED
    BY <2>1, <2>2
<1> QED
  BY <1>4, <1>5, <1>6

\* What the decision is about, and that somebody took it who still is an administrator.
LEMMA FoundAccount ==
  ASSUME IInv, NEW id, Named(id) # {}
  PROVE  /\ accounts[FirstName(id)] \in AccountRecord /\ accounts[FirstName(id)].name = FirstName(id)
         /\ FirstName(id) \in Names /\ Usable(accounts[FirstName(id)]) /\ ~accounts[FirstName(id)].deleted
         /\ accounts[FirstName(id)].id = id
BY FirstIsNamed DEF IInv, AccountsFit

LEMMA deleteAccountPreserves ==
  ASSUME IInv, NEW b \in Browsers, deleteAccount(b)
  PROVE  IInv'
<1>1. PICK id \in 1 .. lastID :
        /\ Admin(b) /\ id # request[b].id /\ Named(id) # {} /\ Respond(b)
        /\ Decide(FirstName(id), [accounts[FirstName(id)] EXCEPT !.deleted = TRUE])
        /\ waived' = (waived \/ Outdated(b))
        /\ UNCHANGED <<session, isOpen, lastID, stale>>
  BY DEF deleteAccount
<1> DEFINE n == FirstName(id)
           a == [accounts[n] EXCEPT !.deleted = TRUE]
<1>2. accounts[n] \in AccountRecord /\ accounts[n].name = n /\ n \in Names /\ Usable(accounts[n]) /\ accounts[n].id = id
  BY <1>1, FoundAccount
<1>3. a \in AccountRecord /\ a.name = n /\ Usable(a)
  BY <1>2 DEF AccountRecord, Usable
<1>4. Decide(n, a)
  BY <1>1
<1> HIDE DEF n, a
<1>5. AccountsFit' /\ RequestsFit' /\ RestFits' /\ DecisionsStand'
  <2>1. lastID' \in 1 .. MaxAccounts /\ waived' \in BOOLEAN
    BY <1>1 DEF IInv, RestFits, Outdated
  <2> QED
    BY <1>1, <1>2, <1>3, <1>4, <2>1, DecidePreserves
<1>6. AdminThere'
  <2> SUFFICES ASSUME ~waived'
               PROVE  \E x \in Live' : accounts'[x].group = GroupAdmin
    BY DEF AdminThere
  <2>1. PICK m \in Named(request[b].id) : accounts[m].group = GroupAdmin
    BY <1>1 DEF Outdated
  <2>2. m \in Live /\ accounts[m].id # id
    BY <1>1, <2>1 DEF Named
  <2> QED
    BY <1>2, <1>4, <2>1, <2>2, AdminStays DEF Decide
<1> QED
  BY <1>5, <1>6 DEF IInv

LEMMA resetPasswordPreserves ==
  ASSUME IInv, NEW b \in Browsers, resetPassword(b)
  PROVE  IInv'
<1>1. PICK id \in 1 .. lastID :
        /\ Admin(b) /\ Named(id) # {} /\ Respond(b)
        /\ Decide(FirstName(id), [accounts[FirstName(id)] EXCEPT !.default = "default", !.password = ""])
        /\ UNCHANGED <<session, isOpen, lastID, stale, waived>>
  BY DEF resetPassword
<1> DEFINE n == FirstName(id)
           a == [accounts[n] EXCEPT !.default = "default", !.password = ""]
<1>2. accounts[n] \in AccountRecord /\ accounts[n].name = n /\ n \in Names /\ ~accounts[n].deleted
  BY <1>1, FoundAccount
<1>3. a \in AccountRecord /\ a.name = n /\ Usable(a) /\ ~a.deleted /\ a.group = accounts[n].group
  BY <1>2 DEF AccountRecord, Usable
<1>4. Decide(n, a)
  BY <1>1
<1> HIDE DEF n, a
<1>5. AccountsFit' /\ RequestsFit' /\ RestFits' /\ DecisionsStand'
  <2>1. lastID' \in 1 .. MaxAccounts /\ waived' \in BOOLEAN
    BY <1>1 DEF IInv, RestFits
  <2> QED
    BY <1>1, <1>2, <1>3, <1>4, <2>1, DecidePreserves
<1>6. AdminThere'
  <2> SUFFICES ASSUME ~waived, stale = {}
               PROVE  \E x \in Live' : accounts'[x].group = GroupAdmin
    BY <1>1 DEF AdminThere
  <2>1. PICK m \in Live : accounts[m].group = GroupAdmin
    BY DEF IInv, AdminThere
  <2> QED
    BY <1>3, <1>4, <2>1, AdminStays DEF Decide
<1> QED
  BY <1>5, <1>6 DEF IInv

LEMMA createAccountPreserves ==
  ASSUME IInv, NEW b \in Browsers, createAccount(b)
  PROVE  IInv'
<1>1. PICK n \in Names, g \in Groups :
        LET a == NewAccount(n, g, "default")
        IN  Decide(n, a) /\ waived' = (waived \/ Lowered(n, a))
  BY DEF createAccount, Names
<1>2. Admin(b) /\ Respond(b) /\ lastID < MaxAccounts /\ lastID' = lastID + 1 /\ UNCHANGED <<session, isOpen, stale>>
  BY DEF createAccount
<1> DEFINE a == NewAccount(n, g, "default")
<1>3. lastID + 1 \in 1 .. MaxAccounts
  BY <1>2, Bounds DEF IInv, RestFits
<1>4. a \in AccountRecord /\ a.name = n /\ Usable(a) /\ ~a.deleted /\ a.group = g
  BY <1>3 DEF NewAccount, AccountRecord, Usable
<1>5. Decide(n, a) /\ waived' = (waived \/ Lowered(n, a))
  BY <1>1
<1> HIDE DEF a
<1>6. AccountsFit' /\ RequestsFit' /\ RestFits' /\ DecisionsStand'
  <2>1. lastID' \in 1 .. MaxAccounts /\ waived' \in BOOLEAN
    BY <1>2, <1>3, <1>5 DEF IInv, RestFits, Lowered
  <2> QED
    BY <1>2, <1>4, <1>5, <2>1, DecidePreserves
<1>7. AdminThere'
  <2> SUFFICES ASSUME ~waived', stale = {}
               PROVE  \E x \in Live' : accounts'[x].group = GroupAdmin
    BY <1>2 DEF AdminThere
  <2>1. ~waived /\ ~Lowered(n, a)
    BY <1>5
  <2>2. PICK m \in Live : accounts[m].group = GroupAdmin
    BY <2>1 DEF IInv, AdminThere
  <2>3. m = n => a.group = GroupAdmin
    BY <2>1, <2>2 DEF Lowered, Live
  <2> QED
    BY <1>4, <1>5, <2>2, <2>3, AdminStays DEF Decide
<1> QED
  BY <1>6, <1>7 DEF IInv

LEMMA editAccountPreserves ==
  ASSUME IInv, NEW b \in Browsers, editAccount(b)
  PROVE  IInv'
<1>1. PICK id \in 1 .. lastID :
        /\ Admin(b) /\ Named(id) # {} /\ Respond(b)
        /\ \E n \in Range(UserNames), g \in Groups :
             LET a == [accounts[FirstName(id)] EXCEPT !.name = n, !.group = g]
             IN  Decide(n, a) /\ waived' = (waived \/ Lowered(n, a))
        /\ UNCHANGED <<session, isOpen, lastID, stale>>
  BY DEF editAccount
<1>2. PICK n \in Names, g \in Groups :
        LET a == [accounts[FirstName(id)] EXCEPT !.name = n, !.group = g]
        IN  Decide(n, a) /\ waived' = (waived \/ Lowered(n, a))
  BY <1>1 DEF Names
<1> DEFINE old == accounts[FirstName(id)]
           a == [old EXCEPT !.name = n, !.group = g]
<1>3. old \in AccountRecord /\ Usable(old) /\ ~old.deleted
  BY <1>1, FoundAccount
<1>4. a \in AccountRecord /\ a.name = n /\ Usable(a) /\ ~a.deleted /\ a.group = g
  BY <1>3 DEF AccountRecord, Usable
<1>5. Decide(n, a) /\ waived' = (waived \/ Lowered(n, a))
  BY <1>2
<1> HIDE DEF a
<1>6. AccountsFit' /\ RequestsFit' /\ RestFits' /\ DecisionsStand'
  <2>1. lastID' \in 1 .. MaxAccounts /\ waived' \in BOOLEAN
    BY <1>1, <1>5 DEF IInv, RestFits, Lowered
  <2> QED
    BY <1>1, <1>4, <1>5, <2>1, DecidePreserves
<1>7. AdminThere'
  <2> SUFFICES ASSUME ~waived', stale = {}
               PROVE  \E x \in Live' : accounts'[x].group = GroupAdmin
    BY <1>1 DEF AdminThere
  <2>1. ~waived /\ ~Lowered(n, a)
    BY <1>5
  <2>2. PICK m \in Live : accounts[m].group = GroupAdmin
    BY <2>1 DEF IInv, AdminThere
  <2>3. m = n => a.group = GroupAdmin
    BY <2>1, <2>2 DEF Lowered, Live
  <2> QED
    BY <1>4, <1>5, <2>2, <2>3, AdminStays DEF Decide
<1> QED
  BY <1>6, <1>7 DEF IInv

LEMMA toggleServerOpenStatusPreserves ==
  ASSUME IInv, NEW b \in Browsers, toggleServerOpenStatus(b)
  PROVE  IInv'
<1>1. Respond(b) /\ isOpen' = ~isOpen /\ UNCHANGED <<accounts, session, lastID, decided, stale, waived>>
  BY DEF toggleServerOpenStatus
<1>2. RequestsFit' /\ RestFits'
  BY <1>1, RespondMoves DEF IInv, RequestsFit, RestFits, Usable
<1>3. AccountsFit' /\ DecisionsStand' /\ AdminThere'
  BY <1>1 DEF IInv, AccountsFit, Usable, DecisionsStand, Decision, AdminThere, Live
<1> QED
  BY <1>2, <1>3 DEF IInv

------------------------------------------------------------------------------
(* Sessions.                                                                  *)

LEMMA SessionPreserves ==
  ASSUME IInv, session' \in [Browsers -> 0 .. MaxAccounts],
         UNCHANGED <<accounts, request, isOpen, lastID, saves, decided, stale, waived>>
  PROVE  IInv'
BY DEF IInv, AccountsFit, RequestsFit, RestFits, Usable, DecisionsStand, Decision, AdminThere, Live

LEMMA MustLoginMiddlewarePreserves ==
  ASSUME IInv, NEW b \in Browsers, MustLoginMiddleware(b)
  PROVE  IInv'
<1>1. UNCHANGED <<accounts, isOpen, lastID, saves, decided, stale, waived>>
  BY DEF MustLoginMiddleware
<1>2. CASE session' = [session EXCEPT ![b] = 0] /\ request' = request
  <2>1. session' \in [Browsers -> 0 .. MaxAccounts]
    BY <1>2, Bounds DEF IInv, RestFits
  <2> QED
    BY <1>1, <1>2, <2>1, SessionPreserves
<1>3. ASSUME session' = session,
             NEW a, request' = [request EXCEPT ![b] = a],
             a = OpenAccount \/ (a \in AccountRecord /\ a.name \in DOMAIN accounts /\ Usable(a))
      PROVE  IInv'
  <2>1. RequestsFit'
    BY <1>1, <1>3 DEF IInv, RequestsFit, Usable, OpenAccount
  <2>2. AccountsFit' /\ RestFits' /\ DecisionsStand' /\ AdminThere'
    BY <1>1, <1>3 DEF IInv, AccountsFit, RestFits, Usable, DecisionsStand, Decision, AdminThere, Live
  <2> QED
    BY <2>1, <2>2 DEF IInv
<1>4. CASE /\ Named(session[b]) # {} /\ session' = session
           /\ request' = [request EXCEPT ![b] = accounts[FirstName(session[b])]]
  <2> DEFINE a == accounts[FirstName(session[b])]
  <2>1. a \in AccountRecord /\ a.name \in DOMAIN accounts /\ Usable(a)
    BY <1>4, FirstIsNamed DEF IInv, AccountsFit
  <2> HIDE DEF a
  <2>2. request' = [request EXCEPT ![b] = a]
    BY <1>4 DEF a
  <2> QED
    BY <1>3, <1>4, <2>1, <2>2
<1>5. CASE session' = session /\ request' = [request EXCEPT ![b] = OpenAccount]
  BY <1>3, <1>5
<1> QED
  BY <1>2, <1>4, <1>5 DEF MustLoginMiddleware

LEMMA LogsPreserve ==
  ASSUME IInv, NEW b \in Browsers, Login(b) \/ Logout(b)
  PROVE  IInv'
<1>1. UNCHANGED <<accounts, request, isOpen, lastID, saves, decided, stale, waived>>
  BY DEF Login, Logout
<1>2. session' \in [Browsers -> 0 .. MaxAccounts]
  <2>1. \A n \in Live : accounts[n].id \in 0 .. MaxAccounts
    <3>1. \A n \in Live : accounts[n].id \in 1 .. MaxAccounts
      BY DEF IInv, AccountsFit, AccountRecord, Live
    <3>2. 1 .. MaxAccounts \subseteq 0 .. MaxAccounts
      BY Bounds
    <3> QED
      BY <3>1, <3>2
  <2>2. session \in [Browsers -> 0 .. MaxAccounts] /\ 0 \in 0 .. MaxAccounts
    BY Bounds DEF IInv, RestFits
  <2>3. \E x \in 0 .. MaxAccounts : session' = [session EXCEPT ![b] = x]
    BY <2>1, <2>2 DEF Login, Logout
  <2> QED
    BY <2>2, <2>3
<1> QED
  BY <1>1, <1>2, SessionPreserves

------------------------------------------------------------------------------
(* The invariant holds in every state.                                        *)

LEMMA InitFits == AccountsInit => IInv
<1> SUFFICES ASSUME AccountsInit
             PROVE  IInv
  OBVIOUS
<1> DEFINE admin == [id |-> 1, name |-> adminName, group |-> GroupAdmin, password |-> "", default |-> "default",
                     deleted |-> FALSE, details |-> 0]
<1>1. /\ accounts = [n \in {adminName} |-> admin] /\ decided = [n \in {adminName} |-> Decision(admin)]
      /\ session = [b \in Browsers |-> 0] /\ request = [b \in Browsers |-> NoRequest]
      /\ isOpen = FALSE /\ lastID = 1 /\ saves = 0 /\ stale = {} /\ waived = FALSE
  BY DEF AccountsInit
<1>2. admin \in AccountRecord /\ admin.name = adminName /\ Usable(admin) /\ ~admin.deleted /\ admin.group = GroupAdmin
  BY Bounds DEF AccountRecord, Usable
<1> HIDE DEF admin
<1>3. AccountsFit
  BY <1>1, <1>2, Bounds DEF AccountsFit
<1>4. RequestsFit
  BY <1>1 DEF RequestsFit, NoRequest
<1>5. RestFits
  <2>1. DOMAIN decided = DOMAIN accounts /\ stale \subseteq Names
    BY <1>1
  <2>2. session \in [Browsers -> 0 .. MaxAccounts]
    BY <1>1, Bounds
  <2>3. lastID \in 1 .. MaxAccounts /\ saves \in 0 .. MaxSteps
    BY <1>1, Bounds
  <2>4. isOpen \in BOOLEAN /\ waived \in BOOLEAN
    BY <1>1
  <2> QED
    BY <2>1, <2>2, <2>3, <2>4 DEF RestFits
<1>6. DecisionsStand
  BY <1>1 DEF DecisionsStand
<1>7. AdminThere
  BY <1>1, <1>2 DEF AdminThere, Live
<1> QED
  BY <1>3, <1>4, <1>5, <1>6, <1>7 DEF IInv

LEMMA StepPreserves == IInv /\ [AccountsNext]_avars => IInv'
<1> SUFFICES ASSUME IInv, [AccountsNext]_avars
             PROVE  IInv'
  OBVIOUS
<1>1. CASE UNCHANGED avars
  BY <1>1 DEF avars, IInv, AccountsFit, RequestsFit, RestFits, Usable, DecisionsStand, Decision, AdminThere, Live
<1>2. ASSUME NEW b \in Browsers, Login(b) \/ Logout(b) \/ MustLoginMiddleware(b)
      PROVE  IInv'
  BY <1>2, LogsPreserve, MustLoginMiddlewarePreserves
<1>3. ASSUME NEW b \in Browsers, ChangePassword(b) \/ updateDetails(b) \/ SetCurrentVersion(b)
      PROVE  IInv'
  BY <1>3, ChangePasswordPreserves, updateDetailsPreserves, SetCurrentVersionPreserves
<1>4. ASSUME NEW b \in Browsers,
             deleteAccount(b) \/ resetPassword(b) \/ createAccount(b) \/ editAccount(b) \/ toggleServerOpenStatus(b)
      PROVE  IInv'
  BY <1>4, deleteAccountPreserves, resetPasswordPreserves, createAccountPreserves, editAccountPreserves,
     toggleServerOpenStatusPreserves
<1> QED
  BY <1>1, <1>2, <1>3, <1>4 DEF AccountsNext

LEMMA AccountsInvariant == AccountsSpec => []IInv
<1>1. AccountsInit => IInv
  BY InitFits
<1> QED
  BY <1>1, StepPreserves, PTL DEF AccountsSpec

\* Accounts are stored under their names (accounts.go, UpsertAccount), a running request
\* holds a copy of an account whose name is still taken, and one can log in with either.
THEOREM AccountsTypeCorrect == AccountsSpec => [](AccountsFit /\ RequestsFit /\ RestFits)
<1>1. IInv => AccountsFit /\ RequestsFit /\ RestFits
  BY DEF IInv
<1> QED
  BY <1>1, AccountsInvariant, PTL

\* For any browsers, names and groups: what administrators decided about an account stands
\* against whatever its user saves, and there is always an administrator who can log in,
\* up to the exceptions AccountsSound names.
THEOREM DecisionsAndAdmins == AccountsSpec => []AccountsSound
<1>1. IInv => AccountsSound
  <2> SUFFICES ASSUME IInv, ~waived, stale = {}
               PROVE  \E n \in Live : /\ accounts[n].group = GroupAdmin
                                      /\ \E p \in {"default", "own", Override} : CanLogIn(accounts[n], p)
    BY DEF AccountsSound, AdminRemains, IInv
  <2>1. PICK n \in Live : accounts[n].group = GroupAdmin
    BY DEF IInv, AdminThere
  <2>2. Usable(accounts[n])
    BY DEF IInv, AccountsFit, Live
  <2>3. CanLogIn(accounts[n], "default") \/ CanLogIn(accounts[n], "own")
    BY <2>2 DEF Usable, CanLogIn, NeedsPasswordReset
  <2> QED
    BY <2>1, <2>3
<1> QED
  BY <1>1, AccountsInvariant, PTL
=============================================================================
