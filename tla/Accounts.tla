------------------------------ MODULE Accounts ------------------------------
(***************************************************************************)
(* The user accounts of one database: bootstrap registration, the seeding  *)
(* at process start, and creation, deletion and (de)activation by admins.  *)
(* Both editions have the same handlers.  In the monolith the database     *)
(* also refuses to delete an account that has created runs: one of the     *)
(* ways a request Fails.                                                   *)
(*                                                                         *)
(* A request is one transaction at READ COMMITTED that takes no lock: it   *)
(* reads the account of its token, reads what it is about, and commits.    *)
(* Requests of several replicas and the starts of processes interleave     *)
(* between these steps.  The database is PostgreSQL, which never hands out *)
(* an id twice and checks unique names and foreign keys at the write.      *)
(***************************************************************************)
EXTENDS Naturals

CONSTANTS
  Names,        \* usernames; an e-mail address is unique in the same way
  SeedName,     \* SEED_ADMIN_USERNAME
  Tasks,        \* what goes on at the same time: requests, process starts
  Nobody,       \* no account
  MaxAccounts   \* bound: accounts ever created

Ids == 1 .. MaxAccounts
Roles == {"admin", "executor"}
Account == [name : Names, role : Roles, active : BOOLEAN]

ASSUME AccountsAssumption ==
  /\ SeedName \in Names
  /\ MaxAccounts \in Nat
  /\ Nobody \notin Nat \cup Account

VARIABLES
  used,        \* how many ids the database has handed out
  accounts,    \* the row of each id, or Nobody
  sessions,    \* ids for which a token was issued; tokens outlive accounts
  task,        \* where each request or process start is
  crossed,     \* history: an admin deleted an account after its own was gone
  lapsed,      \* history: an admin changed an account when gone or inactive
  overlapped,  \* history: two bootstraps were in progress at the same time
  mixed,       \* history: two status changes of one account were
  status       \* history: the status that the changes of each account amount to

database == <<used, accounts>>
history == <<crossed, lapsed, overlapped, mixed, status>>
vars == <<database, sessions, task, history>>

Ops == {"register", "seed", "create", "delete", "toggle"}
Idle == [op |-> "none", by |-> Nobody, on |-> Nobody, name |-> SeedName,
         was |-> FALSE, at |-> "idle"]

Init ==
  /\ used = 0
  /\ accounts = [i \in Ids |-> Nobody]
  /\ sessions = {}
  /\ task = [t \in Tasks |-> Idle]
  /\ crossed = FALSE
  /\ lapsed = FALSE
  /\ overlapped = FALSE
  /\ mixed = FALSE
  /\ status = [i \in Ids |-> TRUE]

Existing == {i \in Ids : accounts[i] # Nobody}
Admins == {i \in Existing : accounts[i].role = "admin"}
ActiveAdmins == {i \in Admins : accounts[i].active}
Free(name) == \A i \in Existing : accounts[i].name # name

Ends(t) == task' = [task EXCEPT ![t] = Idle]

\* INSERT and commit; the unique constraint refuses a name that is taken.
Insert(name, role) ==
  IF Free(name)
  THEN /\ used < MaxAccounts
       /\ used' = used + 1
       /\ accounts' = [accounts EXCEPT ![used + 1] =
                         [name |-> name, role |-> role, active |-> TRUE]]
  ELSE UNCHANGED <<used, accounts>>

----------------------------------------------------------------------------
(* Bootstrap: the first registration, and seeding at process start *)

Bootstrapping == {t \in Tasks : task[t].op \in {"register", "seed"}}

\* register: no account counted.  (Otherwise it answers 403.)
CountUsers(t) ==
  /\ task[t].at = "idle"
  /\ Existing = {}
  /\ \E n \in Names :
       task' = [task EXCEPT ![t] = [Idle EXCEPT !.op = "register", !.name = n,
                                                !.at = "found"]]
  /\ overlapped' = (overlapped \/ Bootstrapping # {})
  /\ UNCHANGED <<database, sessions, crossed, lapsed, mixed, status>>

\* register: the admin is committed, and its token issued.
Register(t) ==
  /\ task[t].op = "register"
  /\ Insert(task[t].name, "admin")
  /\ sessions' = sessions \cup {i \in Ids : i = used' /\ used' # used}
  /\ Ends(t)
  /\ UNCHANGED history

\* _seed_admin: the account of the seed name, if there is one.
FindSeed(t) ==
  /\ task[t].at = "idle"
  /\ \E i \in Ids \cup {Nobody} :
       /\ IF i = Nobody THEN Free(SeedName)
          ELSE i \in Existing /\ accounts[i].name = SeedName
       /\ task' = [task EXCEPT ![t] = [Idle EXCEPT !.op = "seed", !.on = i,
                                                   !.at = "found"]]
  /\ overlapped' = (overlapped \/ Bootstrapping # {})
  /\ UNCHANGED <<database, sessions, crossed, lapsed, mixed, status>>

\* _seed_admin: the account becomes an admin, or is inserted as one.  An update
\* of a row that is gone fails.
Seed(t) ==
  /\ task[t].op = "seed"
  /\ IF task[t].on = Nobody THEN Insert(SeedName, "admin") ELSE
       /\ accounts' = [i \in Ids |-> IF i = task[t].on /\ i \in Existing
                                     THEN [accounts[i] EXCEPT !.role = "admin"]
                                     ELSE accounts[i]]
       /\ UNCHANGED used
  /\ Ends(t)
  /\ UNCHANGED <<sessions, history>>

----------------------------------------------------------------------------
(* What admins do *)

Login(i) ==
  /\ i \in Existing /\ accounts[i].active
  /\ i \notin sessions
  /\ sessions' = sessions \cup {i}
  /\ UNCHANGED <<database, task, history>>

\* require_admin reads the account of the token, whatever its status.
Authorize(t, op, by, on, name) ==
  /\ task[t].at = "idle"
  /\ by \in sessions \cap Admins
  /\ task' = [task EXCEPT ![t] = [op |-> op, by |-> by, on |-> on, name |-> name,
                                  was |-> FALSE, at |-> "authorized"]]
  /\ UNCHANGED <<database, sessions, history>>

AskCreate(t) ==
  \E by \in Ids, n \in Names : Authorize(t, "create", by, Nobody, n)

\* create_user: the name is not taken yet.  (Otherwise it answers 400.)
CheckName(t) ==
  /\ task[t].op = "create" /\ task[t].at = "authorized"
  /\ Free(task[t].name)
  /\ task' = [task EXCEPT ![t].at = "found"]
  /\ UNCHANGED <<database, sessions, history>>

Create(t) ==
  /\ task[t].op = "create" /\ task[t].at = "found"
  /\ Insert(task[t].name, "executor")
  /\ Ends(t)
  /\ UNCHANGED <<sessions, history>>

\* Variant: an admin may delete or deactivate itself.
AskAnyChange(t) ==
  \E by \in Ids, on \in Ids, op \in {"delete", "toggle"} :
    Authorize(t, op, by, on, SeedName)

\* delete_user and toggle_status refuse one's own account.
AskChange(t) ==
  \E by \in Ids, on \in Ids, op \in {"delete", "toggle"} :
    by # on /\ Authorize(t, op, by, on, SeedName)

Toggling(on) == {t \in Tasks : task[t].op = "toggle" /\ task[t].on = on
                                                     /\ task[t].at = "found"}

\* The account to change is loaded.  (404 if it is gone.)
FindAccount(t) ==
  /\ task[t].op \in {"delete", "toggle"} /\ task[t].at = "authorized"
  /\ task[t].on \in Existing
  /\ task' = [task EXCEPT ![t].at = "found", ![t].was = accounts[task[t].on].active]
  /\ mixed' = (mixed \/ (task[t].op = "toggle" /\ Toggling(task[t].on) # {}))
  /\ UNCHANGED <<database, sessions, crossed, lapsed, overlapped, status>>

\* DELETE and commit.  A row that is already gone is deleted again, unnoticed.
Delete(t) ==
  /\ task[t].op = "delete" /\ task[t].at = "found"
  /\ accounts' = [accounts EXCEPT ![task[t].on] = Nobody]
  /\ crossed' = (crossed \/ (task[t].on \in Existing /\ task[t].by \notin Existing))
  /\ lapsed' = (lapsed \/ (task[t].on \in Existing /\ task[t].by \notin ActiveAdmins))
  /\ Ends(t)
  /\ UNCHANGED <<used, sessions, overlapped, mixed, status>>

\* UPDATE to the opposite of the status read.  (A row that is gone fails it.)
Toggle(t) ==
  /\ task[t].op = "toggle" /\ task[t].at = "found"
  /\ task[t].on \in Existing
  /\ accounts' = [accounts EXCEPT ![task[t].on].active = ~task[t].was]
  /\ status' = [status EXCEPT ![task[t].on] = ~@]
  /\ lapsed' = (lapsed \/ task[t].by \notin ActiveAdmins)
  /\ Ends(t)
  /\ UNCHANGED <<used, sessions, crossed, overlapped, mixed>>

\* A request or a start is refused or dies before its commit.
Fails(t) ==
  /\ task[t].at # "idle"
  /\ Ends(t)
  /\ UNCHANGED <<database, sessions, history>>

TaskStep(t) ==
  \/ CountUsers(t) \/ Register(t) \/ FindSeed(t) \/ Seed(t)
  \/ AskCreate(t) \/ CheckName(t) \/ Create(t)
  \/ AskChange(t) \/ FindAccount(t) \/ Delete(t) \/ Toggle(t)
  \/ Fails(t)

Next ==
  \/ \E t \in Tasks : TaskStep(t)
  \/ \E i \in Ids : Login(i)

Spec == Init /\ [][Next]_vars

----------------------------------------------------------------------------
(* What is checked *)

TaskRecord ==
  [op : Ops \cup {"none"}, by : Ids \cup {Nobody}, on : Ids \cup {Nobody},
   name : Names, was : BOOLEAN, at : {"idle", "authorized", "found"}]

TypeOK ==
  /\ used \in 0 .. MaxAccounts
  /\ accounts \in [Ids -> Account \cup {Nobody}]
  /\ sessions \subseteq Ids
  /\ task \in [Tasks -> TaskRecord]
  /\ \A t \in Tasks : task[t].at = "idle" <=> task[t] = Idle
  /\ crossed \in BOOLEAN /\ lapsed \in BOOLEAN
  /\ overlapped \in BOOLEAN /\ mixed \in BOOLEAN
  /\ status \in [Ids -> BOOLEAN]

\* While there are accounts one is an admin's, unless an admin's deletion took
\* effect after its own account was gone: two admins deleting each other.
AdminRemains == Existing # {} => Admins # {} \/ crossed

\* While there are accounts one is an active admin's, unless an admin changed
\* an account when it was itself gone or inactive.
ActiveAdminRemains == Existing # {} => ActiveAdmins # {} \/ lapsed

\* Both: while there are accounts somebody can administer them, but for the two
\* named races (delete_user, toggle_user_status, require_admin).
AdministratorRemains == AdminRemains /\ ActiveAdminRemains

\* register only makes the first account, unless two bootstraps overlapped or
\* the accounts had been emptied by admins deleting each other.
RegistrationIsFirst ==
  [][\A t \in Tasks :
       Register(t) => Existing = {} \/ overlapped \/ crossed]_vars

\* The status of an account is what its changes amount to, unless two of them
\* overlapped.
StatusFollowsToggles ==
  \A i \in Existing : accounts[i].active = status[i] \/ mixed

============================================================================
