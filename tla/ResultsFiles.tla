----------------------------- MODULE ResultsFiles -----------------------------
(* The results file of a finished session and the copy that its championship  *)
(* or race weekend keeps: penalties and edits by several administrators       *)
(* (penalties.go, results.go), nothing locked.  A file is created, which      *)
(* empties it, and then written; the copy is replaced in the championship or  *)
(* weekend that the file names, after the file.                               *)
EXTENDS SessionResults

CONSTANTS Admins,        \* requests that may be handled at the same time
          ResultsGiven,  \* results files of finished sessions
          Penalties,     \* penalties in milliseconds; 0 disqualifies
          Names,         \* names a driver may be given
          MaxResultCalls,\* bound on the requests
          MaxSaveErrors  \* bound on the saves that fail

ASSUME PenaltyAssumption == Penalties \subseteq Nat

VARIABLES file,      \* what results/<session>.json holds
          copy,      \* the Results of the session in the stored event
          combined,  \* the file that combines others, and those it was made of
          fallBack,  \* UseFallBackSorting
          admin,     \* each request: where it is, and the results it has read
          rcalls,    \* how many requests were made
          rnotes     \* history: [applied: driver -> last penalty, names: which
                     \* saves failed or overlapped and whom a code path forgets]

rvars == <<file, copy, combined, fallBack, admin, rcalls, rnotes>>

(* A file cut short: created and not written, or written by two at once.      *)
Broken == [type |-> "broken"]

Idle == [pc |-> "idle", res |-> Broken, op |-> [kind |-> "none"], dirty |-> FALSE]
HasHome(r) == r.champ # "" \/ r.weekend # ""

ResultsInit ==
  /\ fallBack \in BOOLEAN
  /\ \E r \in ResultsGiven : file = IF HasHome(r) THEN LoadResult(r, fallBack) ELSE r
  /\ copy = IF HasHome(file) THEN file ELSE Broken
  /\ combined = [of |-> <<>>, timeAttack |-> FALSE, res |-> Broken]
  /\ admin = [a \in Admins |-> Idle]
  /\ rcalls = 0
  /\ rnotes = [applied |-> <<>>, overlap |-> FALSE, failed |-> 0, stale |-> {}, forgotten |-> {}]

Rows(r) == {<<r.result[k].guid, r.result[k].model>> : k \in DOMAIN r.result}

Operations(r) ==
  {[kind |-> "penalise", guid |-> d[1], model |-> d[2], penalty |-> p] : d \in Rows(r), p \in Penalties}
    \cup {[kind |-> "clear", guid |-> d[1], model |-> d[2]] : d \in Rows(r)}
    \cup {[kind |-> "rename", guid |-> d[1], name |-> n] : d \in Rows(r), n \in Names}

Modified(r, op) == IF op.kind = "rename" THEN RenameDriver(r, op.guid, op.name) ELSE ApplyPenalty(r, op)

(* A request reads the file and changes what it has read.  The rows offered   *)
(* are those of the page, which reads the file the same way.                  *)
ReadResults(a) ==
  /\ admin[a].pc = "idle" /\ rcalls < MaxResultCalls /\ file # Broken
  /\ LET r == LoadResult(file, fallBack) IN
     \E op \in Operations(r) :
       /\ admin' = [admin EXCEPT ![a] = [pc |-> "create", res |-> Modified(r, op), op |-> op, dirty |-> FALSE]]
       /\ rnotes' = [rnotes EXCEPT
            !.overlap = @ \/ \E b \in Admins : admin[b].pc # "idle",
            !.forgotten = @ \cup (Rows(file) \ Rows(LoadResult(file, FALSE)))]
  /\ rcalls' = rcalls + 1
  /\ UNCHANGED <<file, copy, combined, fallBack>>

CreateFile(a) ==
  /\ admin[a].pc = "create"
  /\ file' = Broken
  /\ admin' = [admin EXCEPT ![a].pc = "encode"]
  /\ UNCHANGED <<copy, combined, fallBack, rcalls, rnotes>>

(* The penalty that is in force once the file is written.                     *)
Applied(op) == IF op.kind = "clear" THEN -1 ELSE op.penalty
Who(op) == <<op.guid, op.model>>

(* Was a lap penalty kept that the new penalty does not earn?                 *)
Stale(r, op) ==
  /\ op.kind = "penalise" /\ op.penalty > 0
  /\ op.penalty <= GetLastLapTime(r, op.guid, op.model)
  /\ r.result[GetDriverPosition(r, op.guid, op.model)].lapPen > 0

Record(op, r) ==
  IF op.kind = "rename" THEN rnotes
  ELSE [rnotes EXCEPT !.applied = (Who(op) :> Applied(op)) @@ @,
                      !.stale = IF Stale(r, op) THEN @ \cup {Who(op)}
                                ELSE IF op.kind = "penalise" /\ op.penalty > 0
                                        /\ op.penalty <= GetLastLapTime(r, op.guid, op.model) THEN @
                                ELSE @ \ {Who(op)}]

(* Only a penalty goes on to the copy.                                        *)
AfterFileMut(a) == IF admin[a].op.kind # "rename" /\ admin[a].res.champ # "" THEN "copy" ELSE "idle"
AfterFile(a) == IF admin[a].op.kind # "rename" /\ HasHome(admin[a].res) THEN "copy" ELSE "idle"

(* Another who had the file open as well has written over this one, or will.  *)
EncodeFile(a) ==
  /\ admin[a].pc = "encode"
  /\ file' \in {admin[a].res} \cup (IF admin[a].dirty THEN {Broken} ELSE {})
  /\ admin' = [b \in Admins |->
       IF b = a THEN (IF AfterFile(a) = "idle" THEN Idle ELSE [admin[a] EXCEPT !.pc = AfterFile(a)])
       ELSE IF admin[b].pc = "encode" THEN [admin[b] EXCEPT !.dirty = TRUE] ELSE admin[b]]
  /\ rnotes' = Record(admin[a].op, admin[a].res)
  /\ UNCHANGED <<copy, combined, fallBack, rcalls>>

EncodeFails(a) ==
  /\ admin[a].pc = "encode" /\ rnotes.failed < MaxSaveErrors
  /\ admin' = [admin EXCEPT ![a] = Idle]
  /\ rnotes' = [rnotes EXCEPT !.failed = @ + 1]
  /\ UNCHANGED <<file, copy, combined, fallBack, rcalls>>

(* The championship is loaded, the session whose file it is gets the results, *)
(* and it is saved; then the race weekend.  A session of a linked weekend is  *)
(* in the weekend alone.                                                      *)
StoreCopy(a) ==
  /\ admin[a].pc = "copy"
  /\ copy' = admin[a].res
  /\ admin' = [admin EXCEPT ![a] = Idle]
  /\ UNCHANGED <<file, combined, fallBack, rcalls, rnotes>>

StoreCopyFails(a) ==
  /\ admin[a].pc = "copy" /\ rnotes.failed < MaxSaveErrors
  /\ admin' = [admin EXCEPT ![a] = Idle]
  /\ rnotes' = [rnotes EXCEPT !.failed = @ + 1]
  /\ UNCHANGED <<file, copy, combined, fallBack, rcalls>>

(* The administrator combines files, or the end of a time attack adds its     *)
(* file to those before, which are practices; only the latter repairs what it *)
(* made.  Either is taken for all the requests of a behaviour (a bound).      *)
Repaired(r, timeAttack) == IF timeAttack THEN NormaliseCarIDs(ClearKickedGUIDs(r)) ELSE r

Combine(timeAttack) ==
  /\ file # Broken /\ rcalls = 0 /\ (timeAttack => file.type = "PRACTICE")
  /\ \E r \in ResultsGiven :
       LET of == <<LoadResult(file, fallBack), LoadResult(r, fallBack)>> IN
       combined' = [of |-> of, timeAttack |-> timeAttack,
                    res |-> Repaired(FallBackSort(CombineResults(of)), timeAttack)]
  /\ rcalls' = MaxResultCalls
  /\ UNCHANGED <<file, copy, fallBack, admin, rnotes>>

TimeAttackEnds ==
  /\ combined.timeAttack /\ Len(combined.of) = 2
  /\ \E r \in {f \in ResultsGiven : f.type = "PRACTICE"} :
       LET new == LoadResult(r, fallBack)
           before == LoadResult(combined.res, fallBack)
       IN  combined' = [combined EXCEPT !.of = <<new>> \o @,
                          !.res = Repaired(FallBackSort(CombineResults(<<new, before>>)), TRUE)]
  /\ UNCHANGED <<file, copy, fallBack, admin, rcalls, rnotes>>

ResultsNext ==
  \/ \E a \in Admins : ReadResults(a) \/ CreateFile(a) \/ EncodeFile(a) \/ EncodeFails(a)
                        \/ StoreCopy(a) \/ StoreCopyFails(a)
  \/ Combine(TRUE) \/ Combine(FALSE) \/ TimeAttackEnds

------------------------------------------------------------------------------
(* Properties.                                                                *)

Quiet == file # Broken /\ ~rnotes.overlap /\ \A a \in Admins : admin[a].pc = "idle"

RowOf(r, who) == FirstOr(r.result, LAMBDA q : <<q.guid, q.model>> = who, [guid |-> {}])

(* The row of each driver shows the last penalty that an administrator gave,  *)
(* whatever was given and cleared before, and the rows are in the order the   *)
(* penalties make.  Not for a row that loading drops because its time is 0    *)
(* (results.go:1286), not for a second or a lap that was kept from a longer   *)
(* penalty (penalties.go:145), and not when requests overlapped.              *)
InForce(q, who, last) ==
  LET lap == GetLastLapTime(file, q.guid, q.model) IN
  /\ q.disq <=> (last = 0)
  /\ q.hasPen <=> (last > 0)
  /\ last # 0 => q.penTime = (IF last > 0 THEN last ELSE 0)
  /\ who \notin rnotes.stale => q.lapPen = IF last > lap THEN last \div lap ELSE 0

PenaltiesInForce ==
  Quiet =>
    /\ \A who \in DOMAIN rnotes.applied \ rnotes.forgotten :
         InForce(RowOf(file, who), who, rnotes.applied[who])
    /\ (~fallBack /\ DOMAIN rnotes.applied # {}) =>
         \A k \in 1 .. Len(file.result) - 1 :
           ~PenaltyLess(file, file.result[k + 1], file.result[k])

(* The copy in the championship or race weekend, from which points are        *)
(* counted, has the drivers, penalties and order of the file when every save  *)
(* succeeded and no requests overlapped.  Names are left out: an edit renames *)
(* drivers in the file alone (results.go:1592); so is the order under the     *)
(* fall back sort, which each load applies to the file again.                 *)
Row(q) == <<q.guid, q.model, q.disq, q.hasPen, q.penTime, q.lapPen>>
Order(r) == [k \in DOMAIN r.result |-> Row(r.result[k])]

CopyMatches ==
  (Quiet /\ rnotes.failed = 0 /\ copy # Broken /\ rnotes.forgotten = {}) =>
    IF fallBack THEN Range(Order(file)) = Range(Order(copy)) ELSE Order(file) = Order(copy)

(* A penalty given to a driver who had none never moves him past another who  *)
(* was ahead of him.  Not when it takes all his laps: the time of a driver    *)
(* with no laps counts as 0 (results.go:750), so in practice and qualifying a *)
(* penalty longer than his only lap puts him first.  Nor under the fall back  *)
(* sort for a file with a shared car, for which it adds a second row.         *)
Before(r, x, y) ==
  \E i, j \in DOMAIN r.result : /\ i < j
                                /\ <<r.result[i].guid, r.result[i].model>> = x
                                /\ <<r.result[j].guid, r.result[j].model>> = y
Unpunished(q) == ~q.hasPen /\ ~q.disq /\ q.lapPen = 0
OneRowPerCar(r) == \A i, j \in DOMAIN r.result : r.result[i].car = r.result[j].car => i = j
AllLapsTaken(r, who) == GetNumLaps(r, who[1], who[2]) = 0

PenaltyNeverHelps ==
  [][\A a \in Admins :
       (admin[a].pc = "idle" /\ admin'[a].pc = "create" /\ admin'[a].op.kind = "penalise") =>
         LET old == LoadResult(file, fallBack)
             who == Who(admin'[a].op)
         IN  (Unpunished(RowOf(old, who)) /\ OneRowPerCar(old) /\ ~AllLapsTaken(admin'[a].res, who)) =>
               \A e \in Rows(old) : (e # who /\ Before(admin'[a].res, who, e)) => Before(old, who, e)]_rvars

(* A combined file has one row for each driver, with his best lap and all his *)
(* time of the files of that session; in a time attack his laps are counted   *)
(* for him even if the files numbered the cars differently.  Not for a car    *)
(* that drivers shared or that one driver left for another.                   *)
Sources == SelectSeq(combined.of, LAMBDA f : SameSession(combined.of[1], f))
SourceLaps == FlattenSeq([k \in DOMAIN Sources |-> Sources[k].laps])
SourceCars(g) == UNION {{c \in Range(f.cars) : g \cap Members(c) # {}} : f \in Range(Sources)}
Shared(g) == \/ Cardinality({c.model : c \in SourceCars(g)}) > 1
             \/ \E c \in SourceCars(g) : Len(c.guids) > 1

CombinedSound ==
  combined.res # Broken =>
    LET r == combined.res
        of(q) == SelectSeq(SourceLaps, LAMBDA l : l.guid = q.guid)
    IN  /\ \A i, j \in DOMAIN r.result : r.result[i].guid = r.result[j].guid => i = j
        /\ \A k \in DOMAIN SourceLaps : Some(r.result, LAMBDA q : q.guid = SourceLaps[k].guid)
        /\ \A k \in DOMAIN r.result : LET q == r.result[k] IN ~Shared(q.guid) =>
             /\ q.total = SumOver(of(q), LapTime)
             /\ q.best = LeastOr(of(q), Clean, LapTime, 0)
             /\ combined.timeAttack => NumLaps(r, q) = Len(of(q))

(* What the results page shows agrees with itself: the fastest lap is the     *)
(* best of the drivers' best laps, no driver could have been slower than the  *)
(* sum of his best sectors, a mean lies between his laps, and the places in   *)
(* which the cars completed a lap are 1, 2, 3 and so on.                      *)
StatisticsSound ==
  (file # Broken /\ rcalls = 0) =>
    LET r == file
        cleanLaps == {k \in DOMAIN r.laps : Clean(r.laps[k])}
        pairs == {<<r.laps[k].guid, r.laps[k].model>> : k \in DOMAIN r.laps}
        carsWith(n) == {c \in {r.laps[k].car : k \in DOMAIN r.laps} : CountIn(r.laps, LAMBDA l : l.car = c) >= n}
        place(c, n) == LET x == FirstOr(r.cars, LAMBDA y : y.id = c, <<>>) IN GetPosForLap(r, x.guid, x.model, n)
    IN  /\ cleanLaps # {} =>
             /\ IsFastestLap(r, FastestLap(r).time, FastestLap(r).cuts)
             /\ FastestLap(r).time = Min({GetDriversFastestLap(r, p[1], p[2]) : p \in pairs} \ {0})
        /\ \A p \in pairs :
             LET best == GetDriversFastestLap(r, p[1], p[2])
                 mean == GetAverageLapTime(r, p[1], p[2])
             IN  /\ best # 0 => GetPotentialLap(r, p[1], p[2]) <= best
                 /\ mean # 0 => \E l, m \in Range(LapsOfCar(r, p[1], p[2])) : l.time <= mean /\ mean <= m.time
        /\ \A n \in 1 .. 2 : {place(c, n) : c \in carsWith(n)} = 1 .. Cardinality(carsWith(n))
==============================================================================
