------------------------------- MODULE MCStores -------------------------------
(* The stores under two clients, accounts under two browsers, and race weekends  *)
(* that are loaded, changed and saved by two handlers: one of them per behaviour. *)
EXTENDS Stores, Accounts, MCRaceWeekend

MCUserNames == <<"admin", "bob">>

VARIABLE part
vars == <<storeVars, avars, weekendVars, part>>

(* Where others are looked at, each client stays in a call that met no weekend.  *)
StoresBusy ==
  /\ disk = <<>> /\ broken = {} /\ db = <<>> /\ buckets = {}
  /\ acked = <<>> /\ overlapped = {} /\ hurt = {}
  /\ client = [p \in Clients |-> [Idle EXCEPT !.state = "begun", !.err = "race weekend not found"]]
  /\ ops = Cardinality(Clients) /\ crashes = 0

Init ==
  /\ part \in {"stores", "accounts", "weekend"}
  /\ IF part = "stores" THEN StoresInit ELSE StoresBusy
  /\ AccountsInit /\ WeekendInit /\ (part # "weekend" => added = 2)

Next ==
  \/ part = "stores" /\ StoresNext /\ UNCHANGED <<avars, weekendVars, part>>
  \/ part = "accounts" /\ AccountsNext /\ UNCHANGED <<storeVars, weekendVars, part>>
  \/ part = "weekend" /\ WeekendNext /\ UNCHANGED <<storeVars, avars, part>>

Spec == Init /\ [][Next]_vars

Symmetric == Symmetry \cup Permutations(Browsers)
===============================================================================
