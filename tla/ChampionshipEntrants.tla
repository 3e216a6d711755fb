------------------------- MODULE ChampionshipEntrants -------------------------
(* Who has which place in a championship (championships.go,                   *)
(* championship_manager.go): the slots of the classes, the sign-up form with  *)
(* its answers, drivers who join an open championship, sessions that are      *)
(* imported, and the administrator's page, which is saved as it was opened.   *)
(* Each request loads the championship, changes it and saves it; what         *)
(* happens when two do so at once is in ChampionshipSessions.                 *)
(*                                                                            *)
(*   slot   [class, uuid, guid, model, team, ballast]; a free one has no guid *)
(*   event  the entry list of an event: by uuid, the model and the ballast    *)
(*          that the entrant had on its page                                  *)
(* The name and the GUID of an entrant are set and cleared together.          *)
EXTENDS Sorting, Functions, TLC

CONSTANTS
  Drivers,
  Models,      \* cars drivers ask for
  Available,   \* by class: the cars chosen for it, none for those of its slots
  Slots,       \* the slots of a new championship: a function of slot ids
  Events,      \* events that may be added
  Settings,    \* [open, approval, firstFree]: what championships are set to
  TeamNames

AnyCarModel == "any_car_model"
Free == ""
NoList == <<>>
NoPage == <<>>
NoAnswer == [status |-> "none", car |-> "", team |-> ""]
ClassIDs == DOMAIN Available

Values(field) == {Slots[k][field] : k \in DOMAIN Slots}
AllModels == Models \cup Values("model")
AllTeams == TeamNames \cup {""} \cup Values("team")
Slot == [class : ClassIDs, uuid : Values("uuid"), guid : Drivers \cup {Free},
         model : AllModels, team : AllTeams, ballast : Values("ballast")]

(* Classes are in order; NewEntrant makes a uuid for each slot; nobody is     *)
(* entered twice.                                                             *)
ASSUME EntrantsAssumption ==
  /\ Free \notin Drivers /\ ClassIDs \subseteq Nat
  /\ Slots \in [DOMAIN Slots -> Slot]
  /\ \A j, k \in DOMAIN Slots :
       Slots[j].uuid = Slots[k].uuid \/ (Slots[j].guid = Slots[k].guid /\ Slots[j].guid # Free) => j = k

VARIABLES
  setting,
  slots,
  answers,   \* SignUpForm.Responses, one for each GUID
  lists,     \* EntryList of the events
  page,      \* the slots as the administrator's open page shows them
  given,     \* history: what each event's page gave to the drivers it showed
  dropped,   \* history: drivers who lost their place to an import or a page
  joined,    \* history: drivers who got a place without the form
  requests
evars == <<setting, slots, answers, lists, page, given, dropped, joined, requests>>

CONSTANT MaxRequests

EntrantsInit ==
  /\ setting \in Settings
  /\ slots = Slots
  /\ answers = [d \in Drivers |-> NoAnswer]
  /\ lists = [e \in Events |-> NoList]
  /\ page = NoPage
  /\ given = [e \in Events |-> NoList]
  /\ dropped = {} /\ joined = {} /\ requests = 0

Placed(s, d) == {k \in DOMAIN s : s[k].guid = d}
HasSlot(s) == {d \in Drivers : Placed(s, d) # {}}

------------------------------------------------------------------------------
(* Finding a place.  Each operator returns the outcomes [found, slots].       *)

ValidCarIDs(s, c) ==
  IF Available[c] # {} THEN Available[c] ELSE {s[k].model : k \in {j \in DOMAIN s : s[j].class = c}}

(* The first class that has the car; none when the car is in no class.  Left  *)
(* out: a request for "any car" in a championship whose classes all have      *)
(* chosen cars gets a random class with such a slot (championships.go:477);   *)
(* the form offers it only where a class has no chosen cars, and then it is   *)
(* among the ValidCarIDs of that class.                                       *)
ClassesFor(s, model) == {c \in ClassIDs : model \in ValidCarIDs(s, c)}
FindClassForCarModel(s, model) == Min(ClassesFor(s, model))

(* A swap that leaves the uuids where they are.                               *)
SwapPropertiesMut(s, o, k) ==
  [s EXCEPT ![o].team = s[k].team, ![k].team = s[o].team,
            ![o].model = s[k].model, ![k].model = s[o].model]

(* The entrants of slots o and k change places: who drives on a car, and what *)
(* the events have for him, goes with the uuid.                               *)
SwapProperties(s, o, k) ==
  LET stays == s[o].class = s[k].class
      take(x, y) == [x EXCEPT !.team = y.team, !.uuid = y.uuid,
                              !.model = IF stays THEN y.model ELSE @,
                              !.ballast = IF stays THEN y.ballast ELSE @]
  IN  [s EXCEPT ![o] = take(@, s[k]), ![k] = take(@, s[o])]

Assigned(s, k, d, car, team) ==
  [s EXCEPT ![k].guid = d, ![k].model = car, ![k].team = IF team = "" THEN @ ELSE team]

ClearedSlotsMut(s, K) == s
ClearedSlots(s, K) == [k \in DOMAIN s |-> IF k \in K THEN [s[k] EXCEPT !.guid = Free] ELSE s[k]]

(* His old slot is cleared, then a free one with his car is taken, else one   *)
(* for any car.  Which of several comes from the order of a map.              *)
AddEntrantFromSession(s, d, car, team) ==
  LET own == Placed(s, d)
      s1 == ClearedSlots(s, own)
      free(m) == {k \in DOMAIN s : /\ s[k].class = FindClassForCarModel(s, car)
                                   /\ s1[k].guid = Free /\ s1[k].model = m}
      to == IF free(car) # {} THEN free(car) ELSE free(AnyCarModel)
      moved(k) == IF own = {} THEN {s1} ELSE {SwapProperties(s1, o, k) : o \in own}
  IN  IF to = {} THEN {[found |-> FALSE, slots |-> s1]}
      ELSE UNION {{[found |-> TRUE, slots |-> Assigned(t, k, d, car, team)] : t \in moved(k)} : k \in to}

(* The slots of the first class that has one.                                 *)
FirstClass(s, K) == {k \in K : \A j \in K : s[k].class <= s[j].class}

(* None when the list is full.                                                *)
AddEntrantInFirstFreeSlot(s, d, team) ==
  LET own == FirstClass(s, Placed(s, d))
      to == IF own # {} THEN own ELSE FirstClass(s, Placed(s, Free))
  IN  {[found |-> TRUE, slots |-> [s EXCEPT ![k].guid = d, ![k].team = team]] : k \in to}

(* No outcome: the request fails and nothing is saved.                        *)
AddEntrantFromSessionData(s, d, car, team, firstFree) ==
  IF firstFree THEN AddEntrantInFirstFreeSlot(s, d, team)
  ELSE IF ClassesFor(s, car) = {} THEN {}
  ELSE AddEntrantFromSession(s, d, car, team)

(* Only the first slot of the GUID.                                           *)
ClearEntrant(s, d) ==
  LET own == FirstClass(s, Placed(s, d))
  IN  IF own = {} THEN {s} ELSE {[s EXCEPT ![k].guid = Free, ![k].team = ""] : k \in own}

------------------------------------------------------------------------------
Request == requests < MaxRequests /\ requests' = requests + 1

(* What an event gave to a driver is forgotten with his place.                *)
Saved(s) ==
  /\ slots' = s
  /\ given' = [e \in Events |-> Restrict(given[e], DOMAIN given[e] \cap HasSlot(s))]

StatusMut(found) == "Accepted"
Status(found) == IF found THEN "Accepted" ELSE "Rejected"

(* HandleChampionshipSignUp, of someone who meets the gates.  The answer      *)
(* replaces that of the same GUID.                                            *)
SignUp(d, car, team) ==
  /\ Request
  /\ IF setting.approval
     THEN /\ answers' = [answers EXCEPT ![d] = [status |-> "Pending", car |-> car, team |-> team]]
          /\ Saved(slots)
     ELSE \E o \in AddEntrantFromSessionData(slots, d, car, team, setting.firstFree) :
            /\ answers' = [answers EXCEPT ![d] = [status |-> Status(o.found), car |-> car, team |-> team]]
            /\ Saved(o.slots)
  /\ UNCHANGED <<setting, lists, page, dropped, joined>>

(* modifyEntrantStatus.                                                       *)
Accept(d) ==
  /\ Request /\ answers[d].status \in {"Pending", "Rejected"}
  /\ \E o \in AddEntrantFromSessionData(slots, d, answers[d].car, answers[d].team, setting.firstFree) :
       /\ Saved(o.slots)
       /\ answers' = [answers EXCEPT ![d].status = IF o.found THEN "Accepted" ELSE @]
  /\ UNCHANGED <<setting, lists, page, dropped, joined>>

RejectOrDelete(d) ==
  /\ Request /\ answers[d].status # "none"
  /\ \E s \in ClearEntrant(slots, d) : Saved(s)
  /\ \E a \in {NoAnswer, [answers[d] EXCEPT !.status = "Rejected"]} : answers' = [answers EXCEPT ![d] = a]
  /\ joined' = joined \ {d}
  /\ UNCHANGED <<setting, lists, page, dropped>>

(* Someone connects to an event of an open championship.  Saved only when     *)
(* there is a place for him.                                                  *)
Connect(d, car) ==
  /\ Request /\ setting.open
  /\ \E o \in {p \in AddEntrantFromSessionData(slots, d, car, "", FALSE) : p.found} : Saved(o.slots)
  /\ joined' = joined \cup {d}
  /\ UNCHANGED <<setting, answers, lists, page, dropped>>

(* ImportEvent of an open championship, with a file of one session: saved     *)
(* even though there was no place for somebody.                               *)
Import(d, car) ==
  /\ Request /\ setting.open
  /\ \E o \in AddEntrantFromSessionData(slots, d, car, "", FALSE) :
       /\ Saved(o.slots)
       /\ dropped' = dropped \cup (HasSlot(slots) \ HasSlot(o.slots))
       /\ joined' = IF o.found THEN joined \cup {d} ELSE joined
  /\ UNCHANGED <<setting, answers, lists, page>>

------------------------------------------------------------------------------
(* The administrator.                                                         *)

OpenPage ==
  /\ page = NoPage
  /\ page' = slots
  /\ UNCHANGED <<setting, slots, answers, lists, given, dropped, joined, requests>>

(* HandleCreateChampionship: the slots are those of the page, one of them     *)
(* perhaps emptied or given to a driver the page does not show yet, or to be  *)
(* copied to the entry lists of all events (OverwriteAllEvents).              *)
PageEdits ==
  {page} \cup {ClearedSlots(page, {k}) : k \in DOMAIN page}
  \cup UNION {{[page EXCEPT ![k].guid = d] : d \in Drivers \ HasSlot(page)} : k \in Placed(page, Free)}

Overwritten(list, slot) ==
  IF slot.uuid \in DOMAIN list THEN [list EXCEPT ![slot.uuid].ballast = slot.ballast] ELSE list

SubmitPage ==
  /\ page # NoPage /\ Request
  /\ \E s \in PageEdits, overwrite \in BOOLEAN :
       LET k0 == CHOOSE k \in DOMAIN page : TRUE
           gone == IF overwrite THEN {s[k0].guid} ELSE {}
       IN  /\ slots' = s
           /\ dropped' = dropped \cup (HasSlot(slots) \ HasSlot(s))
           /\ joined' = joined \cup (HasSlot(s) \ HasSlot(slots))
           /\ lists' = [e \in Events |-> IF overwrite THEN Overwritten(lists[e], s[k0]) ELSE lists[e]]
           /\ given' = [e \in Events |-> Restrict(given[e],
                {d \in DOMAIN given[e] \cap HasSlot(s) :
                   d \notin gone /\ {s[k].uuid : k \in Placed(s, d)} = {slots[k].uuid : k \in Placed(slots, d)}})]
  /\ page' = NoPage
  /\ UNCHANGED <<setting, answers>>

(* A new event, for which the page gave each entrant a ballast of his own.    *)
AddEvent(e) ==
  /\ Request /\ lists[e] = NoList
  /\ lists' = [lists EXCEPT ![e] = [u \in {slots[k].uuid : k \in DOMAIN slots} |->
                 LET k == CHOOSE j \in DOMAIN slots : slots[j].uuid = u
                 IN  [model |-> slots[k].model, ballast |-> u]]]
  /\ given' = [given EXCEPT ![e] = [d \in HasSlot(slots) |->
                 LET k == CHOOSE j \in Placed(slots, d) : TRUE
                 IN  [model |-> slots[k].model, ballast |-> slots[k].uuid]]]
  /\ UNCHANGED <<setting, slots, answers, page, dropped, joined>>

EntrantsNext ==
  \/ \E d \in Drivers :
       \/ \E car \in Models : \/ \E team \in TeamNames : SignUp(d, car, team)
                              \/ Connect(d, car) \/ Import(d, car)
       \/ Accept(d) \/ RejectOrDelete(d)
  \/ OpenPage \/ SubmitPage
  \/ \E e \in Events : AddEvent(e)

EntrantsSpec == EntrantsInit /\ [][EntrantsNext]_evars

------------------------------------------------------------------------------
(* FinalEventConfigurationFiles: the entry list an event starts with, by      *)
(* slot; a closed championship with a form has no empty entries.              *)

OverwriteProperties(s, list) ==
  IF s.uuid \in DOMAIN list /\ list[s.uuid].model = s.model THEN [s EXCEPT !.ballast = list[s.uuid].ballast] ELSE s

CombineEntryLists(e) == [k \in DOMAIN slots |-> OverwriteProperties(slots[k], lists[e])]

FinalEntryList(e, practice) ==
  Restrict(CombineEntryLists(e), {k \in DOMAIN slots : slots[k].guid # Free \/ setting.open \/ practice})

------------------------------------------------------------------------------
(* Nobody has two places, and the uuids that tie places to the entry lists of *)
(* events stay unique, however often drivers change cars and classes.         *)
PlacesUnique ==
  /\ \A d \in Drivers : Cardinality(Placed(slots, d)) <= 1
  /\ \A j, k \in DOMAIN slots : slots[j].uuid = slots[k].uuid => j = k

(* The answers of the form agree with the places: who was accepted and not    *)
(* dropped by an import or a page has a place, who was rejected has none but  *)
(* what he got without the form.                                              *)
AnswersMatchPlaces ==
  \A d \in Drivers :
    /\ answers[d].status = "Accepted" => d \in HasSlot(slots) \cup dropped
    /\ answers[d].status = "Rejected" => d \notin HasSlot(slots) \/ d \in joined

(* As long as a driver keeps his place and drives the car he had when an      *)
(* event was set up, the event starts with the ballast given to him then,     *)
(* whatever slots he and others went through in between.                      *)
EventSettingsKept ==
  \A e \in Events : \A d \in DOMAIN given[e] :
    \A k \in Placed(slots, d) :
      slots[k].model = given[e][d].model => FinalEntryList(e, FALSE)[k].ballast = given[e][d].ballast

\* An entrant has one place, the one he was told of, with its settings.
PlacesKept == PlacesUnique /\ AnswersMatchPlaces /\ EventSettingsKept
==============================================================================
