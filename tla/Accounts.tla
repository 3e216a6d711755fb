------------------------------- MODULE Accounts -------------------------------
(* Accounts, their sessions and requests (accounts.go).  A request is let in  *)
(* with a copy of its account, loaded before the handler runs; handlers that  *)
(* save this copy later undo what others saved in between.  Accounts are      *)
(* stored by name and found by id.                                            *)
EXTENDS Integers, Sequences, FiniteSets, SequencesExt

CONSTANTS
  Browsers,     \* sessions of browsers
  UserNames,    \* names of accounts, in the order of the store
  adminName,    \* the account the override is for
  Override,     \* AdminPasswordOverride, "" when it is not set
  Groups,       \* groups an administrator gives
  MaxAccounts,  \* accounts ever created
  MaxSteps      \* saves

ASSUME AccountsAssumption ==
  /\ UserNames \in Seq(STRING) /\ adminName \in Range(UserNames)
  /\ MaxAccounts \in Nat \ {0} /\ MaxSteps \in Nat

VARIABLES
  accounts,   \* records by name
  session,    \* the account id in the session of each browser, or 0
  request,    \* the copy a running request of each browser was let in with
  isOpen,     \* accountOptions.IsOpen
  lastID, saves,
  decided,    \* history: what administrators decided last, by name
  stale,      \* history: names saved by a request that did not know of a later save
  waived      \* history: an administrator lowered, or was deleted by one who was gone himself
avars == <<accounts, session, request, isOpen, lastID, saves, decided, stale, waived>>

GroupNoAccess == "no_access"
GroupRead == "read"
GroupWrite == "write"
GroupDelete == "delete"
GroupAdmin == "admin"

NoRequest == [id |-> 0]
OpenAccount == [id |-> -1]

HasGroupPrivilege(a, g) ==
  \/ g = a.group
  \/ a.group = GroupAdmin
  \/ g = GroupWrite /\ a.group = GroupDelete
  \/ g = GroupRead /\ a.group \in {GroupWrite, GroupDelete}

NeedsPasswordReset(a) == a.default # "" \/ (a.name = adminName /\ Override # "")

NewAccount(name, group, default) ==
  [id |-> lastID + 1, name |-> name, group |-> group, password |-> "", default |-> default,
   deleted |-> FALSE, details |-> 0]

(* ListAccounts, in the order of names.                                       *)
Live == {n \in DOMAIN accounts : ~accounts[n].deleted}
Named(id) == {n \in Live : accounts[n].id = id}
FirstName(id) == UserNames[CHOOSE k \in DOMAIN UserNames :
                             /\ UserNames[k] \in Named(id)
                             /\ \A j \in 1 .. (k - 1) : UserNames[j] \notin Named(id)]

Decision(a) == [id |-> a.id, group |-> a.group, deleted |-> a.deleted]

AccountsInit ==
  LET admin == [id |-> 1, name |-> adminName, group |-> GroupAdmin, password |-> "", default |-> "default",
                deleted |-> FALSE, details |-> 0]
  IN  /\ accounts = [n \in {adminName} |-> admin]
      /\ decided = [n \in {adminName} |-> Decision(admin)]
      /\ session = [b \in Browsers |-> 0] /\ request = [b \in Browsers |-> NoRequest]
      /\ isOpen = FALSE /\ lastID = 1 /\ saves = 0
      /\ stale = {} /\ waived = FALSE

------------------------------------------------------------------------------
(* Sessions.                                                                  *)

CanLogIn(a, password) ==
  \/ NeedsPasswordReset(a) /\ a.default # "" /\ password = a.default
  \/ a.name = adminName /\ Override # "" /\ password = Override
  \/ a.password # "" /\ password = a.password

Login(b) ==
  /\ request[b] = NoRequest
  /\ \E n \in Live : \E password \in {"default", "own", Override} :
       /\ CanLogIn(accounts[n], password)
       /\ session' = [session EXCEPT ![b] = accounts[n].id]
  /\ UNCHANGED <<accounts, request, isOpen, lastID, saves, decided, stale, waived>>

Logout(b) ==
  /\ request[b] = NoRequest /\ session[b] # 0
  /\ session' = [session EXCEPT ![b] = 0]
  /\ UNCHANGED <<accounts, request, isOpen, lastID, saves, decided, stale, waived>>

(* The request is let in with the account, or with the open account, or the   *)
(* browser is logged out, or sent away.                                       *)
MustLoginMiddleware(b) ==
  LET account == accounts[FirstName(session[b])]
  IN  /\ request[b] = NoRequest /\ saves < MaxSteps
      /\ \/ /\ session[b] # 0 /\ Named(session[b]) = {}
            /\ session' = [session EXCEPT ![b] = 0]
            /\ UNCHANGED request
         \/ /\ session[b] # 0 /\ Named(session[b]) # {} /\ HasGroupPrivilege(account, GroupRead)
            /\ request' = [request EXCEPT ![b] = account]
            /\ UNCHANGED session
         \/ /\ session[b] = 0 /\ isOpen
            /\ request' = [request EXCEPT ![b] = OpenAccount]
            /\ UNCHANGED session
      /\ UNCHANGED <<accounts, isOpen, lastID, saves, decided, stale, waived>>

Respond(b) ==
  /\ saves < MaxSteps /\ saves' = saves + 1
  /\ request[b] # NoRequest
  /\ request' = [request EXCEPT ![b] = NoRequest]

(* A save under a name.  An account that had it is gone, and one that had     *)
(* another name keeps that as well.                                           *)
Put(f, n, a) == [m \in DOMAIN f \cup {n} |-> IF m = n THEN a ELSE f[m]]
Saved(n, a) == accounts' = Put(accounts, n, a)

------------------------------------------------------------------------------
(* What people do with their own account: the copy is saved.                  *)

Own(b, a) ==
  /\ Respond(b) /\ request[b].id > 0
  /\ Saved(a.name, a)
  /\ stale' = stale \cup {n \in {a.name} : n \in DOMAIN accounts /\ Decision(accounts[n]) # Decision(request[b])}
  /\ UNCHANGED <<session, isOpen, lastID, decided, waived>>

ChangePasswordMut(b) == Own(b, [request[b] EXCEPT !.default = "", !.password = "own", !.group = GroupRead])
ChangePassword(b) == Own(b, [request[b] EXCEPT !.default = "", !.password = "own"])

updateDetails(b) == Own(b, [request[b] EXCEPT !.details = 1])

SetCurrentVersion(b) == Own(b, request[b])

------------------------------------------------------------------------------
(* What administrators do with the accounts of all: loaded anew and saved.    *)

Admin(b) == request[b].id > 0 /\ HasGroupPrivilege(request[b], GroupAdmin)

Decide(n, a) == Saved(n, a) /\ decided' = Put(decided, n, Decision(a))

(* The request of somebody who is no administrator any more.                  *)
Outdated(b) == \A n \in Named(request[b].id) : accounts[n].group # GroupAdmin

Lowered(n, a) ==
  n \in DOMAIN accounts /\ accounts[n].group = GroupAdmin /\ ~accounts[n].deleted /\ a.group # GroupAdmin

deleteAccountMut(b) ==
  \E id \in 1 .. lastID :
    /\ Admin(b) /\ Named(id) # {} /\ Respond(b)
    /\ Decide(FirstName(id), [accounts[FirstName(id)] EXCEPT !.deleted = TRUE])
    /\ waived' = (waived \/ Outdated(b))
    /\ UNCHANGED <<session, isOpen, lastID, stale>>
deleteAccount(b) ==
  \E id \in 1 .. lastID :
    /\ Admin(b) /\ id # request[b].id /\ Named(id) # {} /\ Respond(b)
    /\ Decide(FirstName(id), [accounts[FirstName(id)] EXCEPT !.deleted = TRUE])
    /\ waived' = (waived \/ Outdated(b))
    /\ UNCHANGED <<session, isOpen, lastID, stale>>

resetPassword(b) ==
  \E id \in 1 .. lastID :
    /\ Admin(b) /\ Named(id) # {} /\ Respond(b)
    /\ Decide(FirstName(id), [accounts[FirstName(id)] EXCEPT !.default = "default", !.password = ""])
    /\ UNCHANGED <<session, isOpen, lastID, stale, waived>>

createAccount(b) ==
  /\ Admin(b) /\ Respond(b) /\ lastID < MaxAccounts
  /\ \E n \in Range(UserNames), g \in Groups :
       LET a == NewAccount(n, g, "default")
       IN  Decide(n, a) /\ waived' = (waived \/ Lowered(n, a))
  /\ lastID' = lastID + 1
  /\ UNCHANGED <<session, isOpen, stale>>

editAccount(b) ==
  \E id \in 1 .. lastID :
    /\ Admin(b) /\ Named(id) # {} /\ Respond(b)
    /\ \E n \in Range(UserNames), g \in Groups :
         LET a == [accounts[FirstName(id)] EXCEPT !.name = n, !.group = g]
         IN  Decide(n, a) /\ waived' = (waived \/ Lowered(n, a))
    /\ UNCHANGED <<session, isOpen, lastID, stale>>

toggleServerOpenStatus(b) ==
  /\ Admin(b) /\ Respond(b)
  /\ isOpen' = ~isOpen
  /\ UNCHANGED <<accounts, session, lastID, decided, stale, waived>>

AccountsNext ==
  \E b \in Browsers :
    \/ Login(b) \/ Logout(b) \/ MustLoginMiddleware(b)
    \/ ChangePassword(b) \/ updateDetails(b) \/ SetCurrentVersion(b)
    \/ deleteAccount(b) \/ resetPassword(b) \/ createAccount(b) \/ editAccount(b) \/ toggleServerOpenStatus(b)

AccountsSpec == AccountsInit /\ [][AccountsNext]_avars

------------------------------------------------------------------------------
(* What administrators decided about an account, its group and that it is     *)
(* deleted, stays until one of them decides otherwise, whatever its user      *)
(* saves.  A save of a request that was let in before the decision undoes it. *)
DecisionsStand == \A n \in DOMAIN accounts \ stale : Decision(accounts[n]) = decided[n]

(* There is always an administrator who can log in, since none deletes his    *)
(* own account; unless one was made less than that, or one who was already    *)
(* deleted still deleted the other.  That an account has two names, or lost   *)
(* its name to another, is no exception.                                      *)
AdminRemains ==
  ~waived /\ stale = {} =>
    \E n \in Live : accounts[n].group = GroupAdmin /\ \E p \in {"default", "own", Override} : CanLogIn(accounts[n], p)

\* Decisions about accounts stand, and somebody remains to take them.
AccountsSound == DecisionsStand /\ AdminRemains
==============================================================================
