--------------------------- MODULE AccountsProofs ---------------------------
(***************************************************************************)
(* Proofs about Accounts for any names, tasks and number of accounts.      *)
(***************************************************************************)
EXTENDS Accounts, TLAPS

\* Ids are handed out in order: the others have no trace.
IdsInOrder ==
  /\ \A i \in Existing \cup sessions : i <= used
  /\ \A i \in Ids : i > used => status[i]

\* Who changes accounts was an admin when it asked, and is one unless its
\* account is gone; it changes another account than its own.
AskersAreAdmins ==
  \A t \in Tasks :
    /\ task[t].op \in {"create", "delete", "toggle"} =>
         /\ task[t].by \in Ids /\ task[t].by <= used
         /\ task[t].by \in Existing => task[t].by \in Admins
    /\ task[t].op \in {"delete", "toggle"} =>
         /\ task[t].on \in Ids /\ task[t].on # task[t].by
         /\ task[t].at = "found" => task[t].on <= used

\* Once there has been an account there is an admin's, or admins have crossed.
AdminsStay == used > 0 => Admins # {} \/ crossed
ActiveAdminsStay == used > 0 => ActiveAdmins # {} \/ lapsed

\* A registration in progress counted no account, and there is none yet.
RegistrationsSeeNone ==
  /\ \A t, u \in Bootstrapping : t = u \/ overlapped
  /\ \A t \in Tasks :
       task[t].op = "register" => Existing = {} \/ overlapped \/ crossed

\* The status a change has loaded is still the account's, and no other change
\* of it has loaded one.
Loaded(t) ==
  task[t].op = "toggle" /\ task[t].at = "found" /\ task[t].on \in Existing
LoadedStatusStands ==
  ~mixed => \A t \in Tasks :
    Loaded(t) => /\ task[t].was = accounts[task[t].on].active
                 /\ \A u \in Toggling(task[t].on) : u = t

(* Type correctness *)

LEMMA IdleTyped == Idle \in TaskRecord
BY AccountsAssumption DEF Idle, TaskRecord, Ops

LEMMA TypeInit == Init => TypeOK
<1> SUFFICES ASSUME Init PROVE TypeOK
  OBVIOUS
<1>1. used \in 0 .. MaxAccounts /\ accounts \in [Ids -> Account \cup {Nobody}]
  BY AccountsAssumption DEF Init
<1>2. /\ task \in [Tasks -> TaskRecord]
      /\ \A t \in Tasks : task[t].at = "idle" <=> task[t] = Idle
  <2>1. \A t \in Tasks : task[t] = Idle
    BY DEF Init
  <2> QED BY <2>1, IdleTyped DEF Init, Idle
<1> QED BY <1>1, <1>2 DEF Init, TypeOK

\* An insertion adds one row under the next id, or nothing.
LEMMA InsertAdds ==
  ASSUME TypeOK, IdsInOrder, NEW name \in Names, NEW role \in Roles,
         Insert(name, role)
  PROVE  \/ used' = used /\ accounts' = accounts
         \/ /\ used' = used + 1 /\ used' \in Ids /\ accounts[used'] = Nobody
            /\ accounts' = [accounts EXCEPT ![used'] =
                              [name |-> name, role |-> role, active |-> TRUE]]
<1>1. CASE ~Free(name)
  BY <1>1 DEF Insert
<1>2. CASE Free(name)
  <2>1. /\ used < MaxAccounts /\ used' = used + 1
        /\ accounts' = [accounts EXCEPT ![used'] =
                          [name |-> name, role |-> role, active |-> TRUE]]
    BY <1>2 DEF Insert
  <2>2. used' \in Ids /\ ~(used' <= used)
    BY <2>1, AccountsAssumption DEF TypeOK, Ids
  <2>3. accounts[used'] = Nobody
    BY <2>2 DEF IdsInOrder, Existing
  <2> QED BY <2>1, <2>2, <2>3
<1> QED BY <1>1, <1>2

\* A task that is over leaves the others as they are.
LEMMA EndsTask ==
  ASSUME TypeOK, NEW t \in Tasks, Ends(t)
  PROVE  /\ task' \in [Tasks -> TaskRecord]
         /\ \A u \in Tasks : task'[u].at = "idle" <=> task'[u] = Idle
         /\ task'[t] = Idle
         /\ \A u \in Tasks \ {t} : task'[u] = task[u]
BY IdleTyped DEF Ends, TypeOK, Idle

\* A task that goes on to a record that is not idle, neither.
LEMMA GoesOn ==
  ASSUME TypeOK, NEW t \in Tasks, NEW r \in TaskRecord, r.at # "idle",
         task' = [task EXCEPT ![t] = r]
  PROVE  /\ task' \in [Tasks -> TaskRecord]
         /\ \A u \in Tasks : task'[u].at = "idle" <=> task'[u] = Idle
         /\ task'[t] = r
         /\ \A u \in Tasks \ {t} : task'[u] = task[u]
<1>1. r # Idle
  BY DEF Idle
<1>2. task'[t] = r /\ \A u \in Tasks \ {t} : task'[u] = task[u]
  BY DEF TypeOK
<1>3. task' \in [Tasks -> TaskRecord]
  BY DEF TypeOK
<1> QED BY <1>1, <1>2, <1>3 DEF TypeOK

\* What each kind of beginning and finding puts into a task.
LEMMA BeginsBootstrap ==
  ASSUME TypeOK, NEW t \in Tasks, CountUsers(t) \/ FindSeed(t)
  PROVE  \E r \in TaskRecord :
           /\ r.op \in {"register", "seed"} /\ r.at = "found"
           /\ CountUsers(t) => r.op = "register" /\ Existing = {}
           /\ FindSeed(t) /\ ~CountUsers(t) => r.op = "seed"
           /\ task' = [task EXCEPT ![t] = r]
<1>1. CASE CountUsers(t)
  <2>1. PICK n \in Names :
          task' = [task EXCEPT ![t] = [Idle EXCEPT !.op = "register", !.name = n,
                                                   !.at = "found"]]
    BY <1>1 DEF CountUsers
  <2>2. [Idle EXCEPT !.op = "register", !.name = n, !.at = "found"] \in TaskRecord
    BY AccountsAssumption DEF Idle, TaskRecord, Ops
  <2> QED BY <1>1, <2>1, <2>2 DEF Idle, CountUsers
<1>2. CASE FindSeed(t) /\ ~CountUsers(t)
  <2>1. PICK i \in Ids \cup {Nobody} :
          task' = [task EXCEPT ![t] = [Idle EXCEPT !.op = "seed", !.on = i,
                                                   !.at = "found"]]
    BY <1>2 DEF FindSeed
  <2>2. [Idle EXCEPT !.op = "seed", !.on = i, !.at = "found"] \in TaskRecord
    BY AccountsAssumption DEF Idle, TaskRecord, Ops
  <2> QED BY <1>2, <2>1, <2>2 DEF Idle
<1> QED BY <1>1, <1>2

LEMMA BeginsRequest ==
  ASSUME TypeOK, NEW t \in Tasks, AskCreate(t) \/ AskChange(t)
  PROVE  /\ UNCHANGED <<database, sessions, history>>
         /\ \E r \in TaskRecord :
              /\ r.op \in {"create", "delete", "toggle"} /\ r.at = "authorized"
              /\ r.by \in sessions \cap Admins
              /\ r.op \in {"delete", "toggle"} => r.on \in Ids /\ r.on # r.by
              /\ task' = [task EXCEPT ![t] = r]
<1>1. CASE AskCreate(t)
  <2>1. PICK by \in Ids, n \in Names : Authorize(t, "create", by, Nobody, n)
    BY <1>1 DEF AskCreate
  <2> DEFINE r == [op |-> "create", by |-> by, on |-> Nobody, name |-> n,
                   was |-> FALSE, at |-> "authorized"]
  <2>2. r \in TaskRecord
    BY DEF TaskRecord, Ops
  <2>3. r.op = "create" /\ r.at = "authorized" /\ r.by = by
    OBVIOUS
  <2> HIDE DEF r
  <2> QED BY <2>1, <2>2, <2>3 DEF Authorize, r
<1>2. CASE AskChange(t)
  <2>1. PICK by \in Ids, on \in Ids, op \in {"delete", "toggle"} :
          by # on /\ Authorize(t, op, by, on, SeedName)
    BY <1>2 DEF AskChange
  <2> DEFINE r == [op |-> op, by |-> by, on |-> on, name |-> SeedName,
                   was |-> FALSE, at |-> "authorized"]
  <2>2. r \in TaskRecord
    BY AccountsAssumption DEF TaskRecord, Ops
  <2>3. r.op = op /\ r.at = "authorized" /\ r.by = by /\ r.on = on
    OBVIOUS
  <2> HIDE DEF r
  <2> QED BY <2>1, <2>2, <2>3 DEF Authorize, r
<1> QED BY <1>1, <1>2

LEMMA FindsAccount ==
  ASSUME TypeOK, NEW t \in Tasks, FindAccount(t)
  PROVE  /\ task[t].op \in {"delete", "toggle"} /\ task[t].on \in Existing
         /\ \E r \in TaskRecord :
              /\ r.op = task[t].op /\ r.by = task[t].by /\ r.on = task[t].on
              /\ r.at = "found" /\ r.was = accounts[task[t].on].active
              /\ task' = [task EXCEPT ![t] = r]
<1>1. task[t] \in TaskRecord /\ task[t].on \in Existing
  BY DEF FindAccount, TypeOK
<1>2. accounts[task[t].on] \in Account
  BY <1>1 DEF Existing, TypeOK
<1> DEFINE r == [task[t] EXCEPT !.at = "found", !.was = accounts[task[t].on].active]
<1>3. r \in TaskRecord
  BY <1>1, <1>2 DEF TaskRecord, Account
<1>4. /\ r.op = task[t].op /\ r.by = task[t].by /\ r.on = task[t].on
      /\ r.at = "found" /\ r.was = accounts[task[t].on].active
  BY <1>1 DEF TaskRecord
<1>5. task' = [task EXCEPT ![t] = r]
  BY <1>1 DEF FindAccount, TypeOK, TaskRecord
<1> HIDE DEF r
<1> QED BY <1>1, <1>3, <1>4, <1>5 DEF FindAccount

\* What insertions and the other writes leave in the table.
LEMMA TypeInsert ==
  ASSUME TypeOK, IdsInOrder, NEW name \in Names, NEW role \in Roles,
         Insert(name, role)
  PROVE  used' \in 0 .. MaxAccounts /\ accounts' \in [Ids -> Account \cup {Nobody}]
<1>1. [name |-> name, role |-> role, active |-> TRUE] \in Account
  BY DEF Account
<1>2. used' \in 0 .. MaxAccounts
  BY InsertAdds, AccountsAssumption DEF TypeOK, Ids
<1>3. accounts' \in [Ids -> Account \cup {Nobody}]
  BY <1>1, InsertAdds DEF TypeOK
<1> QED BY <1>2, <1>3

LEMMA TaskTyped ==
  ASSUME TypeOK, NEW t \in Tasks
  PROVE  /\ task[t] \in TaskRecord /\ task[t].name \in Names
         /\ task[t].op # "none" => task[t].at # "idle"
BY DEF TypeOK, TaskRecord, Idle

LEMMA TypeStep == TypeOK /\ IdsInOrder /\ [Next]_vars => TypeOK'
<1> SUFFICES ASSUME TypeOK, IdsInOrder, [Next]_vars PROVE TypeOK'
  OBVIOUS
<1> USE DEF database, history
<1>1. ASSUME NEW t \in Tasks, CountUsers(t) \/ FindSeed(t) PROVE TypeOK'
  <2>1. PICK r \in TaskRecord : r.at = "found" /\ task' = [task EXCEPT ![t] = r]
    BY <1>1, BeginsBootstrap
  <2>2. /\ task' \in [Tasks -> TaskRecord]
        /\ \A u \in Tasks : task'[u].at = "idle" <=> task'[u] = Idle
    BY <2>1, GoesOn
  <2>3. /\ UNCHANGED <<used, accounts, sessions, crossed, lapsed, mixed, status>>
        /\ overlapped' \in BOOLEAN
    BY <1>1, Zenon DEF CountUsers, FindSeed, TypeOK
  <2> QED BY <2>2, <2>3 DEF TypeOK
<1>2. ASSUME NEW t \in Tasks, Register(t) PROVE TypeOK'
  <2>1. used' \in 0 .. MaxAccounts /\ accounts' \in [Ids -> Account \cup {Nobody}]
    BY <1>2, TypeInsert, TaskTyped DEF Register, Roles
  <2>2. sessions' \subseteq Ids
    BY <1>2 DEF Register, TypeOK
  <2> QED BY <1>2, <2>1, <2>2, EndsTask DEF Register, TypeOK
<1>3. ASSUME NEW t \in Tasks, Seed(t) PROVE TypeOK'
  <2>1. CASE task[t].on = Nobody
    <3>1. used' \in 0 .. MaxAccounts /\ accounts' \in [Ids -> Account \cup {Nobody}]
      BY <1>3, <2>1, TypeInsert, AccountsAssumption DEF Seed, Roles
    <3> QED BY <1>3, <3>1, EndsTask DEF Seed, TypeOK
  <2>2. CASE task[t].on # Nobody
    <3>1. \A i \in Ids : [accounts[i] EXCEPT !.role = "admin"] \in Account \/ i \notin Existing
      BY DEF Account, Roles, TypeOK, Existing
    <3>2. used' = used /\ accounts' \in [Ids -> Account \cup {Nobody}]
      BY <1>3, <2>2, <3>1 DEF Seed, TypeOK
    <3> QED BY <1>3, <3>2, EndsTask DEF Seed, TypeOK
  <2> QED BY <2>1, <2>2
<1>4. ASSUME NEW t \in Tasks, AskCreate(t) \/ AskChange(t) PROVE TypeOK'
  <2>1. PICK r \in TaskRecord : r.at = "authorized" /\ task' = [task EXCEPT ![t] = r]
    BY <1>4, BeginsRequest
  <2>2. /\ task' \in [Tasks -> TaskRecord]
        /\ \A u \in Tasks : task'[u].at = "idle" <=> task'[u] = Idle
    BY <2>1, GoesOn
  <2> QED BY <1>4, <2>2, BeginsRequest DEF TypeOK
<1>5. ASSUME NEW t \in Tasks, CheckName(t) PROVE TypeOK'
  <2> DEFINE r == [task[t] EXCEPT !.at = "found"]
  <2>1. r \in TaskRecord /\ r.at = "found"
    BY TaskTyped DEF TaskRecord
  <2>2. task' = [task EXCEPT ![t] = r]
    BY <1>5 DEF CheckName
  <2> HIDE DEF r
  <2>3. /\ task' \in [Tasks -> TaskRecord]
        /\ \A u \in Tasks : task'[u].at = "idle" <=> task'[u] = Idle
    BY <2>1, <2>2, GoesOn
  <2> QED BY <1>5, <2>3 DEF CheckName, TypeOK
<1>6. ASSUME NEW t \in Tasks, Create(t) PROVE TypeOK'
  <2>1. used' \in 0 .. MaxAccounts /\ accounts' \in [Ids -> Account \cup {Nobody}]
    BY <1>6, TypeInsert, TaskTyped DEF Create, Roles
  <2> QED BY <1>6, <2>1, EndsTask DEF Create, TypeOK
<1>7. ASSUME NEW t \in Tasks, FindAccount(t) PROVE TypeOK'
  <2>1. PICK r \in TaskRecord : r.at = "found" /\ task' = [task EXCEPT ![t] = r]
    BY <1>7, FindsAccount
  <2>2. /\ task' \in [Tasks -> TaskRecord]
        /\ \A u \in Tasks : task'[u].at = "idle" <=> task'[u] = Idle
    BY <2>1, GoesOn
  <2>3. UNCHANGED <<used, accounts, sessions, crossed, lapsed, overlapped, status>>
        /\ mixed' \in BOOLEAN
    BY <1>7, Zenon DEF FindAccount, TypeOK
  <2> QED BY <2>2, <2>3 DEF TypeOK
<1>8. ASSUME NEW t \in Tasks, Delete(t) PROVE TypeOK'
  <2>1. accounts' \in [Ids -> Account \cup {Nobody}]
    BY <1>8 DEF Delete, TypeOK
  <2>2. crossed' \in BOOLEAN /\ lapsed' \in BOOLEAN
    BY <1>8, Zenon DEF Delete, TypeOK
  <2> QED BY <1>8, <2>1, <2>2, EndsTask DEF Delete, TypeOK
<1>9. ASSUME NEW t \in Tasks, Toggle(t) PROVE TypeOK'
  <2>1. task[t].on \in Ids /\ accounts[task[t].on] \in Account
    BY <1>9 DEF Toggle, TypeOK, Existing
  <2>2. [accounts[task[t].on] EXCEPT !.active = ~task[t].was] \in Account
    BY <2>1 DEF Account
  <2>3. accounts' \in [Ids -> Account \cup {Nobody}]
    BY <1>9, <2>2 DEF Toggle, TypeOK
  <2>4. status' \in [Ids -> BOOLEAN] /\ lapsed' \in BOOLEAN
    BY <1>9, Zenon DEF Toggle, TypeOK
  <2> QED BY <1>9, <2>3, <2>4, EndsTask DEF Toggle, TypeOK
<1>10. ASSUME NEW t \in Tasks, Fails(t) PROVE TypeOK'
  BY <1>10, EndsTask DEF Fails, TypeOK
<1>11. ASSUME NEW i \in Ids, Login(i) PROVE TypeOK'
  BY <1>11 DEF Login, TypeOK
<1>12. CASE UNCHANGED vars
  BY <1>12 DEF vars, TypeOK
<1> QED BY <1>1, <1>2, <1>3, <1>4, <1>5, <1>6, <1>7, <1>8, <1>9, <1>10, <1>11, <1>12
        DEF Next, TaskStep

-----------------------------------------------------------------------------
(* How a step changes the table *)

\* Every step inserts one row, deletes or changes one, or leaves the table.
Inserts(role) ==
  /\ used' = used + 1 /\ used' \in Ids /\ accounts[used'] = Nobody
  /\ \E name \in Names :
       accounts' = [accounts EXCEPT ![used'] =
                      [name |-> name, role |-> role, active |-> TRUE]]
Leaves == used' = used /\ accounts' = accounts

LEMMA TableStep ==
  ASSUME TypeOK, IdsInOrder, [Next]_vars
  PROVE  \/ Leaves
         \/ \E t \in Tasks : task[t].op \in {"register", "seed"} /\ Inserts("admin")
         \/ \E t \in Tasks : task[t].op = "create" /\ Inserts("executor")
         \/ \E t \in Tasks : Seed(t) /\ task[t].on # Nobody
         \/ \E t \in Tasks : Delete(t) \/ Toggle(t)
<1> USE DEF Leaves, Inserts, database
<1>1. ASSUME NEW t \in Tasks, Register(t)
      PROVE  Leaves \/ (task[t].op = "register" /\ Inserts("admin"))
  BY <1>1, InsertAdds, TaskTyped DEF Register, Roles
<1>2. ASSUME NEW t \in Tasks, Seed(t), task[t].on = Nobody
      PROVE  Leaves \/ (task[t].op = "seed" /\ Inserts("admin"))
  BY <1>2, InsertAdds, AccountsAssumption DEF Seed, Roles
<1>3. ASSUME NEW t \in Tasks, Create(t)
      PROVE  Leaves \/ (task[t].op = "create" /\ Inserts("executor"))
  BY <1>3, InsertAdds, TaskTyped DEF Create, Roles
<1>4. ASSUME NEW t \in Tasks,
             \/ CountUsers(t) \/ FindSeed(t) \/ AskCreate(t) \/ AskChange(t)
             \/ CheckName(t) \/ FindAccount(t) \/ Fails(t)
      PROVE  Leaves
  BY <1>4, BeginsRequest DEF CountUsers, FindSeed, CheckName, FindAccount, Fails
<1>5. ASSUME NEW i \in Ids, Login(i) PROVE Leaves
  BY <1>5 DEF Login
<1>6. CASE UNCHANGED vars
  BY <1>6 DEF vars
<1> QED BY <1>1, <1>2, <1>3, <1>4, <1>5, <1>6 DEF Next, TaskStep

\* Changing the role or the status of a row leaves a row.
LEMMA RowChanges ==
  ASSUME NEW row \in Account, NEW b \in BOOLEAN
  PROVE  /\ [row EXCEPT !.role = "admin"] \in Account
         /\ [row EXCEPT !.role = "admin"].role = "admin"
         /\ [row EXCEPT !.role = "admin"].active = row.active
         /\ [row EXCEPT !.active = b] \in Account
         /\ [row EXCEPT !.active = b].role = row.role
         /\ [row EXCEPT !.active = b].active = b
BY DEF Account, Roles

\* Seeding and status changes touch one row each, and no id.
LEMMA SeedWrites ==
  ASSUME TypeOK, NEW t \in Tasks, Seed(t), task[t].on # Nobody
  PROVE  /\ used' = used
         /\ \A i \in Ids : i \notin Existing => accounts'[i] = accounts[i]
         /\ \A i \in Existing : /\ accounts'[i] \in Account
                                /\ accounts'[i].active = accounts[i].active
                                /\ accounts'[i].role \in {accounts[i].role, "admin"}
<1> DEFINE promoted(i) == [accounts[i] EXCEPT !.role = "admin"]
<1>1. /\ used' = used
      /\ \A i \in Ids : accounts'[i] = IF i = task[t].on /\ i \in Existing
                                       THEN promoted(i) ELSE accounts[i]
  BY DEF Seed
<1>2. \A i \in Existing : accounts[i] \in Account
  BY DEF TypeOK, Existing
<1>3. \A i \in Existing : /\ promoted(i) \in Account
                          /\ promoted(i).active = accounts[i].active
                          /\ promoted(i).role = "admin"
  BY <1>2, RowChanges
<1> HIDE DEF promoted
<1> QED BY <1>1, <1>2, <1>3 DEF Existing

LEMMA ToggleWrites ==
  ASSUME TypeOK, NEW t \in Tasks, Toggle(t)
  PROVE  /\ used' = used /\ task[t].on \in Existing
         /\ \A i \in Ids \ {task[t].on} : accounts'[i] = accounts[i]
         /\ accounts'[task[t].on] \in Account
         /\ accounts'[task[t].on].active = ~task[t].was
         /\ accounts'[task[t].on].role = accounts[task[t].on].role
<1> DEFINE row == [accounts[task[t].on] EXCEPT !.active = ~task[t].was]
<1>1. used' = used /\ task[t].on \in Existing /\ task[t].on \in Ids
      /\ accounts[task[t].on] \in Account /\ task[t].was \in BOOLEAN
  BY DEF Toggle, Existing, TypeOK, TaskRecord
<1>2. row \in Account /\ row.active = ~task[t].was
      /\ row.role = accounts[task[t].on].role
  BY <1>1 DEF Account
<1>3. accounts' = [accounts EXCEPT ![task[t].on] = row]
  BY <1>1 DEF Toggle
<1> HIDE DEF row
<1> QED BY <1>1, <1>2, <1>3 DEF TypeOK

\* Admins stay admins until they are deleted; only an insertion adds a row.
LEMMA AdminsKept ==
  ASSUME TypeOK, IdsInOrder, [Next]_vars
  PROVE  /\ used \in Nat /\ used' \in Nat /\ used <= used'
         /\ \A i \in Existing' : i \in Existing \/ (i = used' /\ used' = used + 1)
         /\ \A i \in Admins : i \in Existing' => i \in Admins'
         /\ \A i \in Existing : i \notin Existing' =>
              \E t \in Tasks : Delete(t) /\ task[t].on = i
<1> DEFINE Kept ==
      /\ used' \in Nat /\ used <= used'
      /\ \A i \in Existing' : i \in Existing \/ (i = used' /\ used' = used + 1)
      /\ \A i \in Admins : i \in Existing' => i \in Admins'
      /\ \A i \in Existing : i \notin Existing' =>
           \E t \in Tasks : Delete(t) /\ task[t].on = i
<1>1. used \in Nat
  BY AccountsAssumption DEF TypeOK
<1>2. ASSUME Leaves PROVE Kept
  BY <1>1, <1>2 DEF Leaves, Existing, Admins
<1>3. ASSUME NEW role, Inserts(role) PROVE Kept
  BY <1>1, <1>3 DEF Inserts, TypeOK, Existing, Admins
<1>4. ASSUME NEW t \in Tasks, Seed(t), task[t].on # Nobody PROVE Kept
  BY <1>1, <1>4, SeedWrites, AccountsAssumption DEF Existing, Admins
<1>5. ASSUME NEW t \in Tasks, Delete(t) PROVE Kept
  <2>1. used' = used /\ accounts' = [accounts EXCEPT ![task[t].on] = Nobody]
    BY <1>5 DEF Delete
  <2> QED BY <1>1, <1>5, <2>1 DEF TypeOK, Existing, Admins
<1>6. ASSUME NEW t \in Tasks, Toggle(t) PROVE Kept
  BY <1>1, <1>6, ToggleWrites, AccountsAssumption DEF Existing, Admins
<1> HIDE DEF Kept
<1>7. Kept
  BY <1>2, <1>3, <1>4, <1>5, <1>6, TableStep
<1> QED BY <1>1, <1>7 DEF Kept

-----------------------------------------------------------------------------
(* How a step changes the tasks *)

\* A task stays, ends, begins, or goes on with what it asked for.
Begins(u) ==
  /\ task'[u].op \in {"create", "delete", "toggle"} /\ task'[u].at = "authorized"
  /\ task'[u].by \in sessions \cap Admins
  /\ task'[u].op \in {"delete", "toggle"} =>
       task'[u].on \in Ids /\ task'[u].on # task'[u].by
  /\ UNCHANGED <<database, sessions, history>>
GoesFurther(u) ==
  /\ FindAccount(u) \/ CheckName(u)
  /\ task'[u].op = task[u].op /\ task'[u].by = task[u].by
  /\ task'[u].on = task[u].on /\ task'[u].at = "found"
  /\ FindAccount(u) => task'[u].was = accounts[task[u].on].active

LEMMA TaskShape ==
  ASSUME TypeOK, NEW t \in Tasks, TaskStep(t)
  PROVE  /\ \A u \in Tasks \ {t} : task'[u] = task[u]
         /\ \/ task'[t] = Idle
            \/ CountUsers(t) /\ task'[t].op = "register"
            \/ FindSeed(t) /\ task'[t].op = "seed"
            \/ Begins(t)
            \/ GoesFurther(t)
<1>1. CASE CountUsers(t) \/ FindSeed(t)
  <2>1. PICK r \in TaskRecord :
          /\ CountUsers(t) => r.op = "register"
          /\ FindSeed(t) /\ ~CountUsers(t) => r.op = "seed"
          /\ r.at = "found" /\ task' = [task EXCEPT ![t] = r]
    BY <1>1, BeginsBootstrap
  <2>2. task'[t] = r /\ \A u \in Tasks \ {t} : task'[u] = task[u]
    BY <2>1, GoesOn
  <2> QED BY <1>1, <2>1, <2>2
<1>2. CASE AskCreate(t) \/ AskChange(t)
  <2>1. PICK r \in TaskRecord :
          /\ r.op \in {"create", "delete", "toggle"} /\ r.at = "authorized"
          /\ r.by \in sessions \cap Admins
          /\ r.op \in {"delete", "toggle"} => r.on \in Ids /\ r.on # r.by
          /\ task' = [task EXCEPT ![t] = r]
    BY <1>2, BeginsRequest
  <2>2. task'[t] = r /\ \A u \in Tasks \ {t} : task'[u] = task[u]
    BY <2>1, GoesOn
  <2> QED BY <1>2, <2>1, <2>2, BeginsRequest DEF Begins
<1>3. CASE FindAccount(t)
  <2>1. PICK r \in TaskRecord :
          /\ r.op = task[t].op /\ r.by = task[t].by /\ r.on = task[t].on
          /\ r.at = "found" /\ r.was = accounts[task[t].on].active
          /\ task' = [task EXCEPT ![t] = r]
    BY <1>3, FindsAccount
  <2>2. task'[t] = r /\ \A u \in Tasks \ {t} : task'[u] = task[u]
    BY <2>1, GoesOn
  <2> QED BY <1>3, <2>1, <2>2 DEF GoesFurther
<1>4. CASE CheckName(t)
  <2> DEFINE r == [task[t] EXCEPT !.at = "found"]
  <2>1. /\ r \in TaskRecord /\ r.at = "found" /\ r.op = task[t].op
        /\ r.by = task[t].by /\ r.on = task[t].on
    BY TaskTyped DEF TaskRecord
  <2>2. task' = [task EXCEPT ![t] = r] /\ ~FindAccount(t)
    BY <1>4 DEF CheckName, FindAccount
  <2> HIDE DEF r
  <2>3. task'[t] = r /\ \A u \in Tasks \ {t} : task'[u] = task[u]
    BY <2>1, <2>2, GoesOn
  <2> QED BY <1>4, <2>1, <2>2, <2>3 DEF GoesFurther
<1>5. CASE Register(t) \/ Seed(t) \/ Create(t) \/ Delete(t) \/ Toggle(t) \/ Fails(t)
  BY <1>5, EndsTask DEF Register, Seed, Create, Delete, Toggle, Fails
<1> QED BY <1>1, <1>2, <1>3, <1>4, <1>5 DEF TaskStep

\* A login or a stutter is no task's step.
LEMMA NoTaskStep ==
  ASSUME [Next]_vars, ~\E t \in Tasks : TaskStep(t)
  PROVE  UNCHANGED <<database, task, history>>
BY DEF Next, Login, vars

\* The history records accidents for good.
Recorded ==
  /\ crossed => crossed'
  /\ lapsed => lapsed'
  /\ overlapped => overlapped'
  /\ mixed => mixed'

LEMMA HistoryGrows ==
  ASSUME [Next]_vars
  PROVE  Recorded
<1>1. ASSUME NEW t \in Tasks, TaskStep(t)
      PROVE  Recorded
  <2>1. CASE CountUsers(t)
    BY <2>1, Zenon DEF Recorded, CountUsers
  <2>2. CASE FindSeed(t)
    BY <2>2, Zenon DEF Recorded, FindSeed
  <2>3. CASE FindAccount(t)
    BY <2>3, Zenon DEF Recorded, FindAccount
  <2>4. CASE Delete(t)
    BY <2>4, Zenon DEF Recorded, Delete
  <2>5. CASE Toggle(t)
    BY <2>5, Zenon DEF Recorded, Toggle
  <2>6. CASE \/ Register(t) \/ Seed(t) \/ AskCreate(t) \/ CheckName(t)
             \/ Create(t) \/ AskChange(t) \/ Fails(t)
    BY <2>6 DEF Recorded, Register, Seed, AskCreate, AskChange, Authorize, CheckName, Create,
                Fails, history
  <2> QED BY <1>1, <2>1, <2>2, <2>3, <2>4, <2>5, <2>6 DEF TaskStep
<1>2. CASE ~\E t \in Tasks : TaskStep(t)
  BY <1>2, NoTaskStep DEF Recorded, history
<1> QED BY <1>1, <1>2

-----------------------------------------------------------------------------
(* The invariants *)

LEMMA IdsStep ==
  ASSUME TypeOK, IdsInOrder, [Next]_vars
  PROVE  IdsInOrder'
<1>1. used \in Nat /\ used' \in Nat /\ used <= used'
  BY AdminsKept
<1>2. \A i \in Existing' : i <= used'
  BY <1>1, AdminsKept DEF IdsInOrder, Existing, Ids
<1>3. \A i \in Existing \cup sessions : i \in Nat /\ i <= used /\ i <= used'
  BY <1>1, AccountsAssumption DEF IdsInOrder, Existing, Ids, TypeOK
<1>4. \A i \in sessions' : i <= used'
  <2>1. CASE \E i \in Ids : Login(i)
    BY <1>3, <2>1 DEF Login
  <2>2. CASE \E t \in Tasks : Register(t)
    BY <1>1, <1>3, <2>2 DEF Register
  <2>3. CASE sessions' = sessions
    BY <1>3, <2>3
  <2> QED BY <2>1, <2>2, <2>3, BeginsRequest DEF Next, vars, TaskStep, CountUsers, FindSeed,
             Seed, CheckName, Create, FindAccount, Delete, Toggle, Fails
<1>5. ASSUME NEW i \in Ids, i > used' PROVE status'[i]
  <2>1. status[i] /\ i > used
    BY <1>1, <1>5 DEF IdsInOrder, Ids
  <2>2. ASSUME NEW t \in Tasks, Toggle(t) PROVE status'[i]
    <3>1. task[t].on # i
      BY <1>1, <1>3, <2>1, <2>2, AccountsAssumption DEF Toggle, Ids
    <3> QED BY <2>1, <2>2, <3>1 DEF Toggle, TypeOK
  <2>3. status' = status \/ \E t \in Tasks : Toggle(t)
    BY BeginsRequest DEF Next, vars, history, TaskStep, CountUsers, Register, FindSeed,
       Seed, CheckName, Create, FindAccount, Delete, Fails, Login
  <2> QED BY <2>1, <2>2, <2>3
<1> QED BY <1>2, <1>4, <1>5 DEF IdsInOrder

LEMMA AskersStep ==
  ASSUME TypeOK, IdsInOrder, AskersAreAdmins, [Next]_vars
  PROVE  AskersAreAdmins'
<1> SUFFICES ASSUME NEW u \in Tasks
             PROVE  /\ task'[u].op \in {"create", "delete", "toggle"} =>
                         /\ task'[u].by \in Ids /\ task'[u].by <= used'
                         /\ task'[u].by \in Existing' => task'[u].by \in Admins'
                    /\ task'[u].op \in {"delete", "toggle"} =>
                         /\ task'[u].on \in Ids /\ task'[u].on # task'[u].by
                         /\ task'[u].at = "found" => task'[u].on <= used'
  BY DEF AskersAreAdmins
<1>1. /\ used \in Nat /\ used' \in Nat /\ used <= used'
      /\ \A i \in Existing' : i \in Existing \/ (i = used' /\ used' = used + 1)
      /\ \A i \in Admins : i \in Existing' => i \in Admins'
  BY AdminsKept
<1>2. CASE task'[u] = task[u]
  BY <1>1, <1>2 DEF AskersAreAdmins, Ids
<1>3. CASE GoesFurther(u)
  <2>1. task[u].on \in Existing \/ task[u].op = "create"
    BY <1>3 DEF GoesFurther, FindAccount, CheckName
  <2>2. task[u].on \in Existing => task[u].on <= used
    BY DEF IdsInOrder
  <2> QED BY <1>1, <1>3, <2>1, <2>2 DEF GoesFurther, AskersAreAdmins, Ids
<1>4. CASE task'[u].op \notin {"create", "delete", "toggle"}
  BY <1>4
<1>5. CASE Begins(u)
  BY <1>1, <1>5 DEF Begins, IdsInOrder, database, Existing, Admins, Ids
<1>6. CASE \E t \in Tasks : TaskStep(t)
  BY <1>2, <1>3, <1>4, <1>5, <1>6, TaskShape DEF Idle
<1>7. CASE ~\E t \in Tasks : TaskStep(t)
  BY <1>2, <1>7, NoTaskStep
<1> QED BY <1>6, <1>7

LEMMA InsertedRow ==
  ASSUME TypeOK, NEW role \in Roles, Inserts(role)
  PROVE  /\ used' \in Ids /\ used' \in Existing' /\ used' \notin Existing
         /\ accounts'[used'].role = role /\ accounts'[used'].active = TRUE
         /\ \A i \in Ids : i # used' => accounts'[i] = accounts[i]
<1>1. PICK name \in Names :
        accounts' = [accounts EXCEPT ![used'] =
                       [name |-> name, role |-> role, active |-> TRUE]]
  BY DEF Inserts
<1>2. used' \in Ids /\ accounts[used'] = Nobody
  BY DEF Inserts
<1>3. [name |-> name, role |-> role, active |-> TRUE] \in Account
  BY DEF Account
<1>4. accounts'[used'] = [name |-> name, role |-> role, active |-> TRUE]
  BY <1>1, <1>2 DEF TypeOK
<1>5. accounts'[used'] # Nobody
  BY <1>3, <1>4, AccountsAssumption
<1> QED BY <1>1, <1>2, <1>4, <1>5 DEF TypeOK, Existing

LEMMA AdminsStep ==
  ASSUME TypeOK, IdsInOrder, AskersAreAdmins, AdminsStay, [Next]_vars
  PROVE  AdminsStay'
<1> SUFFICES ASSUME used' > 0, ~crossed' PROVE Admins' # {}
  BY DEF AdminsStay
<1>1. ~crossed
  <2>1. crossed => crossed'
    BY HistoryGrows DEF Recorded
  <2> QED BY <2>1
<1>2. /\ used \in Nat /\ used' \in Nat
      /\ \A i \in Admins : i \in Existing' => i \in Admins'
      /\ \A i \in Existing : i \notin Existing' =>
           \E t \in Tasks : Delete(t) /\ task[t].on = i
  BY AdminsKept
<1>3. CASE used > 0
  <2>1. PICK i \in Admins : TRUE
    BY <1>1, <1>3 DEF AdminsStay
  <2>2. CASE i \in Existing'
    BY <1>2, <2>2
  <2>3. CASE i \notin Existing'
    <3>1. PICK t \in Tasks : Delete(t) /\ task[t].on = i
      BY <1>2, <2>3 DEF Admins
    <3>2. task[t].on \in Existing /\ task[t].by \in Existing
      BY <1>2, <3>1, Zenon DEF Delete, Admins
    <3>3. task[t].by \in Admins /\ task[t].by # task[t].on
      BY <3>1, <3>2 DEF AskersAreAdmins, Delete
    <3>4. task[t].by \in Existing'
      BY <3>1, <3>2, <3>3 DEF Delete, Existing, TypeOK
    <3> QED BY <1>2, <3>3, <3>4
  <2> QED BY <2>2, <2>3
<1>4. CASE used = 0
  <2>1. ~Leaves /\ \A t \in Tasks : ~Delete(t) /\ ~Toggle(t) /\ ~(Seed(t) /\ task[t].on # Nobody)
    BY <1>4, SeedWrites, ToggleWrites DEF Leaves, Delete
  <2>2. \A t \in Tasks : task[t].op # "create"
    BY <1>4, AccountsAssumption DEF AskersAreAdmins, Ids
  <2>3. Inserts("admin")
    BY <2>1, <2>2, TableStep
  <2>4. used' \in Admins'
    BY <2>3, InsertedRow DEF Admins, Roles
  <2> QED BY <2>4
<1> QED BY <1>2, <1>3, <1>4

\* Active admins stay so until they are deleted or their status is changed.
LEMMA ActiveKept ==
  ASSUME TypeOK, IdsInOrder, [Next]_vars, NEW i \in ActiveAdmins, i \notin ActiveAdmins'
  PROVE  \E t \in Tasks : /\ Delete(t) \/ Toggle(t)
                          /\ task[t].on = i
<1> USE DEF ActiveAdmins, Admins, Existing
<1>1. ~Leaves
  BY DEF Leaves
<1>2. ASSUME NEW role, Inserts(role) PROVE FALSE
  BY <1>2 DEF Inserts, TypeOK
<1>3. ASSUME NEW t \in Tasks, Seed(t), task[t].on # Nobody PROVE FALSE
  BY <1>3, SeedWrites, AccountsAssumption
<1>4. ASSUME NEW t \in Tasks, Delete(t) PROVE task[t].on = i
  BY <1>4 DEF Delete, TypeOK
<1>5. ASSUME NEW t \in Tasks, Toggle(t) PROVE task[t].on = i
  BY <1>5, ToggleWrites
<1> QED BY <1>1, <1>2, <1>3, <1>4, <1>5, TableStep

LEMMA ActiveAdminsStep ==
  ASSUME TypeOK, IdsInOrder, AskersAreAdmins, ActiveAdminsStay, [Next]_vars
  PROVE  ActiveAdminsStay'
<1> SUFFICES ASSUME used' > 0, ~lapsed' PROVE ActiveAdmins' # {}
  BY DEF ActiveAdminsStay
<1>1. used \in Nat /\ used' \in Nat
  BY AdminsKept
<1>2. ~lapsed
  <2>1. lapsed => lapsed'
    BY HistoryGrows DEF Recorded
  <2> QED BY <2>1
<1>3. CASE used > 0
  <2>1. PICK i \in ActiveAdmins : TRUE
    BY <1>2, <1>3 DEF ActiveAdminsStay
  <2>2. CASE i \in ActiveAdmins'
    BY <2>2
  <2>3. CASE i \notin ActiveAdmins'
    <3>1. PICK t \in Tasks : (Delete(t) \/ Toggle(t)) /\ task[t].on = i
      BY <2>3, ActiveKept
    <3>2. task[t].by \in ActiveAdmins
      <4>1. i \in Existing
        BY DEF ActiveAdmins, Admins
      <4>2. CASE Delete(t)
        BY <3>1, <4>1, <4>2, Zenon DEF Delete
      <4>3. CASE Toggle(t)
        BY <4>3, Zenon DEF Toggle
      <4> QED BY <3>1, <4>2, <4>3
    <3>3. task[t].by # task[t].on
      BY <3>1 DEF AskersAreAdmins, Delete, Toggle
    <3>4. accounts'[task[t].by] = accounts[task[t].by]
      <4>1. task[t].by \in Ids
        BY <3>2 DEF ActiveAdmins, Admins, Existing
      <4> QED BY <3>1, <3>3, <4>1, ToggleWrites DEF Delete, TypeOK
    <3> QED BY <3>2, <3>4 DEF ActiveAdmins, Admins, Existing
  <2> QED BY <2>2, <2>3
<1>4. CASE used = 0
  <2>1. ~Leaves /\ \A t \in Tasks : ~Delete(t) /\ ~Toggle(t) /\ ~(Seed(t) /\ task[t].on # Nobody)
    BY <1>4, SeedWrites, ToggleWrites DEF Leaves, Delete
  <2>2. \A t \in Tasks : task[t].op # "create"
    BY <1>4, AccountsAssumption DEF AskersAreAdmins, Ids
  <2>3. Inserts("admin")
    BY <2>1, <2>2, TableStep
  <2>4. used' \in ActiveAdmins'
    BY <2>3, InsertedRow DEF ActiveAdmins, Admins, Roles
  <2> QED BY <2>4
<1> QED BY <1>1, <1>3, <1>4

\* Whoever begins a bootstrap while another is in progress is noticed.
LEMMA BootstrapsStep ==
  ASSUME TypeOK, RegistrationsSeeNone, [Next]_vars, ~overlapped',
         NEW t \in Bootstrapping', NEW u \in Bootstrapping'
  PROVE  t = u
<1>1. ~overlapped
  <2>1. overlapped => overlapped'
    BY HistoryGrows DEF Recorded
  <2> QED BY <2>1
<1>2. \A v, w \in Bootstrapping : v = w
  BY <1>1 DEF RegistrationsSeeNone
<1>3. CASE ~\E v \in Tasks : TaskStep(v)
  BY <1>2, <1>3, NoTaskStep DEF Bootstrapping
<1>4. ASSUME NEW v \in Tasks, TaskStep(v) PROVE t = u
  <2>1. \A w \in Tasks \ {v} : task'[w] = task[w]
    BY <1>4, TaskShape
  <2>2. CASE CountUsers(v) \/ FindSeed(v)
    <3>1. Bootstrapping = {}
      <4>1. CASE CountUsers(v)
        BY <4>1, Zenon DEF CountUsers
      <4>2. CASE FindSeed(v)
        BY <4>2, Zenon DEF FindSeed
      <4> QED BY <2>2, <4>1, <4>2
    <3> QED BY <2>1, <3>1 DEF Bootstrapping
  <2>3. CASE ~(CountUsers(v) \/ FindSeed(v))
    <3>1. task'[v].op \in {"register", "seed"} => task[v].op = task'[v].op
      BY <1>4, <2>3, TaskShape DEF Begins, GoesFurther, Idle
    <3> QED BY <1>2, <2>1, <3>1 DEF Bootstrapping
  <2> QED BY <2>2, <2>3
<1> QED BY <1>3, <1>4

LEMMA RegistrationsStep ==
  ASSUME TypeOK, IdsInOrder, AskersAreAdmins, AdminsStay, RegistrationsSeeNone, [Next]_vars
  PROVE  RegistrationsSeeNone'
<1>1. \A t, u \in Bootstrapping' : t = u \/ overlapped'
  BY BootstrapsStep
<1>2. ASSUME NEW t \in Tasks, task'[t].op = "register", ~overlapped', ~crossed'
      PROVE  Existing' = {}
  <2>1. ~overlapped /\ ~crossed
    <3>1. (overlapped => overlapped') /\ (crossed => crossed')
      BY HistoryGrows DEF Recorded
    <3> QED BY <1>2, <3>1
  <2>2. Existing = {}
    <3>1. CASE task[t].op = "register"
      BY <2>1, <3>1 DEF RegistrationsSeeNone
    <3>2. CASE task[t].op # "register"
      <4>1. CountUsers(t)
        <5>1. \E v \in Tasks : TaskStep(v)
          BY <1>2, <3>2, NoTaskStep
        <5> QED BY <1>2, <3>2, <5>1, TaskShape DEF Begins, GoesFurther, Idle
      <4> QED BY <4>1 DEF CountUsers
    <3> QED BY <3>1, <3>2
  <2>3. ASSUME NEW i \in Existing' PROVE FALSE
    <3>1. i = used' /\ used' = used + 1
      BY <2>2, <2>3, AdminsKept
    <3>2. \A v \in Tasks : ~Delete(v) /\ ~Toggle(v) /\ ~(Seed(v) /\ task[v].on # Nobody)
      BY <3>1, AdminsKept, SeedWrites, ToggleWrites DEF Delete
    <3>3. ~Leaves
      BY <3>1, AdminsKept DEF Leaves
    <3>4. PICK v \in Tasks : Register(v) \/ Seed(v) \/ Create(v)
      BY <3>2, <3>3, BeginsRequest
         DEF Leaves, Next, vars, database, TaskStep, CountUsers, FindSeed, CheckName,
             FindAccount, Fails, Login
    <3>5. CASE Create(v)
      <4>1. used > 0
        BY <3>5, AdminsKept DEF Create, AskersAreAdmins, Ids
      <4> QED BY <2>1, <2>2, <4>1 DEF AdminsStay, Admins
    <3>6. CASE Register(v) \/ Seed(v)
      <4>1. task'[v] = Idle /\ task[v].op \in {"register", "seed"} /\ TaskStep(v)
        BY <3>6, EndsTask DEF Register, Seed, TaskStep
      <4>2. t # v
        BY <1>2, <4>1 DEF Idle
      <4>3. task[t].op = "register"
        BY <1>2, <4>1, <4>2, TaskShape
      <4> QED BY <2>1, <4>1, <4>2, <4>3 DEF RegistrationsSeeNone, Bootstrapping
    <3> QED BY <3>4, <3>5, <3>6
  <2> QED BY <2>3
<1> QED BY <1>1, <1>2 DEF RegistrationsSeeNone

\* A row that is there after a step, under an id handed out before it, was there.
LEMMA OldRow ==
  ASSUME TypeOK, IdsInOrder, [Next]_vars, NEW i \in Existing', i <= used
  PROVE  i \in Existing
BY AdminsKept

\* Only a change of its status changes the status of an account.
LEMMA ActiveChanges ==
  ASSUME TypeOK, IdsInOrder, [Next]_vars, NEW i \in Existing, i \in Existing',
         \A t \in Tasks : Toggle(t) => task[t].on # i
  PROVE  accounts'[i].active = accounts[i].active
<1>1. CASE Leaves
  BY <1>1 DEF Leaves
<1>2. ASSUME NEW role \in Roles, Inserts(role)
      PROVE  accounts'[i].active = accounts[i].active
  BY <1>2, InsertedRow DEF Existing
<1>3. ASSUME NEW t \in Tasks, Seed(t), task[t].on # Nobody
      PROVE  accounts'[i].active = accounts[i].active
  BY <1>3, SeedWrites
<1>4. ASSUME NEW t \in Tasks, Delete(t)
      PROVE  accounts'[i].active = accounts[i].active
  BY <1>4 DEF Delete, Existing, TypeOK
<1>5. ASSUME NEW t \in Tasks, Toggle(t)
      PROVE  accounts'[i].active = accounts[i].active
  BY <1>5, ToggleWrites DEF Existing
<1> QED BY <1>1, <1>2, <1>3, <1>4, <1>5, TableStep DEF Roles

\* What a change loaded stands until the account is changed by another.
LEMMA LoadedStep ==
  ASSUME TypeOK, IdsInOrder, AskersAreAdmins, LoadedStatusStands, [Next]_vars
  PROVE  LoadedStatusStands'
<1> SUFFICES ASSUME NEW t \in Tasks, Loaded(t)', ~mixed'
             PROVE  /\ task'[t].was = accounts'[task'[t].on].active
                    /\ \A u \in Toggling(task[t].on)' : u = t
  BY DEF LoadedStatusStands
<1>1. ~mixed
  <2>1. mixed => mixed'
    BY HistoryGrows DEF Recorded
  <2> QED BY <2>1
<1>2. ASSUME NEW u \in Tasks, Loaded(u)
      PROVE  /\ task[u].was = accounts[task[u].on].active
             /\ \A v \in Toggling(task[u].on) : v = u
  BY <1>1, <1>2 DEF LoadedStatusStands
<1>3. ASSUME NEW u \in Tasks, task[u].op = "toggle", task[u].at = "found",
             task[u].on \in Existing'
      PROVE  Loaded(u)
  BY <1>3, OldRow DEF AskersAreAdmins, Loaded
<1>4. CASE ~\E v \in Tasks : TaskStep(v)
  <2>1. task' = task /\ accounts' = accounts
    BY <1>4, NoTaskStep DEF database
  <2> QED BY <1>2, <2>1 DEF Toggling, Existing, Loaded
<1>5. ASSUME NEW v \in Tasks, TaskStep(v), ~(FindAccount(v) /\ task[v].op = "toggle")
      PROVE  /\ task'[t].was = accounts'[task'[t].on].active
             /\ \A u \in Toggling(task[t].on)' : u = t
  <2>1. ASSUME NEW w \in Tasks, task'[w].op = "toggle", task'[w].at = "found"
        PROVE  task'[w] = task[w] /\ w # v
    BY <1>5, <2>1, TaskShape DEF Begins, GoesFurther, CheckName, Idle
  <2>2. task'[t] = task[t] /\ t # v /\ Loaded(t)
    BY <1>3, <2>1 DEF Loaded
  <2>3. /\ task[t].was = accounts[task[t].on].active
        /\ \A u \in Toggling(task[t].on) : u = t
    BY <1>2, <2>2
  <2>4. \A u \in Toggling(task[t].on)' : u = t
    BY <2>1, <2>2, <2>3 DEF Toggling
  <2>5. \A u \in Tasks : Toggle(u) => task[u].on # task[t].on
    <3>1. ASSUME NEW u \in Tasks, Toggle(u), task[u].on = task[t].on PROVE FALSE
      <4>1. u = t
        BY <2>3, <3>1 DEF Toggle, Toggling
      <4>2. task'[u] = Idle
        BY <3>1, EndsTask DEF Toggle
      <4> QED BY <4>1, <4>2 DEF Loaded, Idle
    <3> QED BY <3>1
  <2>6. accounts'[task[t].on].active = accounts[task[t].on].active
    BY <2>2, <2>5, ActiveChanges DEF Loaded
  <2> QED BY <2>2, <2>3, <2>4, <2>6
<1>6. ASSUME NEW v \in Tasks, FindAccount(v), task[v].op = "toggle"
      PROVE  /\ task'[t].was = accounts'[task'[t].on].active
             /\ \A u \in Toggling(task[t].on)' : u = t
  <2>1. /\ \A w \in Tasks \ {v} : task'[w] = task[w]
        /\ task'[v].on = task[v].on /\ task'[v].was = accounts[task[v].on].active
    <3>1. PICK r \in TaskRecord :
            /\ r.on = task[v].on /\ r.was = accounts[task[v].on].active /\ r.at = "found"
            /\ task' = [task EXCEPT ![v] = r]
      BY <1>6, FindsAccount
    <3> QED BY <3>1, GoesOn
  <2>2. accounts' = accounts /\ Toggling(task[v].on) = {}
    <3>1. accounts' = accounts
      BY <1>6 DEF FindAccount, database
    <3>2. mixed' = (mixed \/ (task[v].op = "toggle" /\ Toggling(task[v].on) # {}))
      BY <1>6 DEF FindAccount
    <3> QED BY <1>6, <3>1, <3>2
  <2>3. CASE t = v
    BY <2>1, <2>2, <2>3 DEF Toggling
  <2>4. CASE t # v
    <3>1. task'[t] = task[t] /\ Loaded(t)
      BY <2>1, <2>2, <2>4 DEF Loaded, Existing
    <3>2. task[t].on # task[v].on
      BY <2>2, <3>1 DEF Toggling, Loaded
    <3> QED BY <1>2, <2>1, <2>2, <3>1, <3>2 DEF Toggling
  <2> QED BY <2>3, <2>4
<1> QED BY <1>4, <1>5, <1>6 DEF TaskStep, FindAccount

LEMMA StatusStep ==
  ASSUME TypeOK, IdsInOrder, LoadedStatusStands, StatusFollowsToggles, [Next]_vars
  PROVE  StatusFollowsToggles'
<1> SUFFICES ASSUME ~mixed', NEW i \in Existing'
             PROVE  accounts'[i].active = status'[i]
  BY DEF StatusFollowsToggles
<1>1. ~mixed
  <2>1. mixed => mixed'
    BY HistoryGrows DEF Recorded
  <2> QED BY <2>1
<1>2. CASE \E t \in Tasks : Toggle(t) /\ task[t].on = i
  <2>1. PICK t \in Tasks : Toggle(t) /\ task[t].on = i
    BY <1>2
  <2>2. i \in Existing /\ accounts'[i].active = ~task[t].was
    BY <2>1, ToggleWrites
  <2>3. task[t].was = accounts[i].active
    BY <1>1, <2>1, <2>2 DEF LoadedStatusStands, Loaded, Toggle
  <2>4. accounts[i].active = status[i]
    BY <1>1, <2>2 DEF StatusFollowsToggles
  <2>5. status'[i] = ~status[i]
    BY <2>1, <2>2 DEF Toggle, Existing, TypeOK
  <2> QED BY <2>2, <2>3, <2>4, <2>5
<1>3. CASE ~\E t \in Tasks : Toggle(t) /\ task[t].on = i
  <2>1. status'[i] = status[i]
    <3>1. status' = status \/ \E t \in Tasks : Toggle(t)
      BY BeginsRequest DEF Next, vars, history, TaskStep, CountUsers, Register, FindSeed,
         Seed, CheckName, Create, FindAccount, Delete, Fails, Login
    <3> QED BY <1>3, <3>1 DEF Toggle, TypeOK, Existing
  <2>2. CASE i \in Existing
    <3>1. accounts'[i].active = accounts[i].active
      BY <1>3, <2>2, ActiveChanges
    <3> QED BY <1>1, <2>1, <2>2, <3>1 DEF StatusFollowsToggles
  <2>3. CASE i \notin Existing
    <3>1. i = used' /\ used' = used + 1 /\ used \in Nat
      BY <2>3, AdminsKept
    <3>2. PICK role \in Roles : Inserts(role)
      BY <3>1, SeedWrites, ToggleWrites, TableStep DEF Leaves, Delete, Roles
    <3>3. accounts'[i].active = TRUE
      BY <3>1, <3>2, InsertedRow
    <3>4. status[i]
      BY <3>1 DEF IdsInOrder, Existing
    <3> QED BY <2>1, <3>3, <3>4 DEF TypeOK, Existing
  <2> QED BY <2>2, <2>3
<1> QED BY <1>2, <1>3

-----------------------------------------------------------------------------
(* The inductive invariant and what follows from it *)

IInv ==
  /\ TypeOK
  /\ IdsInOrder
  /\ AskersAreAdmins
  /\ AdminsStay
  /\ ActiveAdminsStay
  /\ RegistrationsSeeNone
  /\ LoadedStatusStands
  /\ StatusFollowsToggles

LEMMA IInvInit == Init => IInv
<1> SUFFICES ASSUME Init PROVE IInv
  OBVIOUS
<1>1. TypeOK
  BY TypeInit
<1>2. /\ used = 0 /\ Existing = {} /\ sessions = {}
      /\ \A t \in Tasks : task[t].op = "none"
      /\ \A i \in Ids : status[i]
  BY DEF Init, Existing, Idle
<1>3. IdsInOrder /\ AdminsStay /\ ActiveAdminsStay /\ StatusFollowsToggles
  BY <1>2 DEF IdsInOrder, AdminsStay, ActiveAdminsStay, StatusFollowsToggles
<1>4. AskersAreAdmins /\ RegistrationsSeeNone /\ LoadedStatusStands
  BY <1>2 DEF AskersAreAdmins, RegistrationsSeeNone, Bootstrapping,
              LoadedStatusStands, Loaded
<1> QED BY <1>1, <1>3, <1>4 DEF IInv

LEMMA IInvStep == IInv /\ [Next]_vars => IInv'
<1> SUFFICES ASSUME IInv, [Next]_vars PROVE IInv'
  OBVIOUS
<1>1. TypeOK' /\ IdsInOrder' /\ AskersAreAdmins'
  BY TypeStep, IdsStep, AskersStep DEF IInv
<1>2. AdminsStay' /\ ActiveAdminsStay'
  BY AdminsStep, ActiveAdminsStep DEF IInv
<1>3. RegistrationsSeeNone'
  BY RegistrationsStep DEF IInv
<1>4. LoadedStatusStands' /\ StatusFollowsToggles'
  BY LoadedStep, StatusStep DEF IInv
<1> QED BY <1>1, <1>2, <1>3, <1>4 DEF IInv

\* What the theorems below are read off.
LEMMA Invariance == Spec => []IInv
BY IInvInit, IInvStep, PTL DEF Spec

\* An account that exists has an id that was handed out.
LEMMA ExistingIsUsed ==
  ASSUME TypeOK, IdsInOrder, Existing # {}
  PROVE  used > 0
BY AccountsAssumption DEF TypeOK, IdsInOrder, Existing, Ids

\* The handlers and the seeding keep every variable in its type.
THEOREM TypeCorrect == Spec => []TypeOK
<1>1. IInv => TypeOK
  BY DEF IInv
<1> QED BY <1>1, Invariance, PTL

\* delete_user: as long as there are accounts there is an admin's, unless
\* admins deleted each other at the same time.
THEOREM AdminAlwaysRemains == Spec => []AdminRemains
<1>1. IInv => AdminRemains
  BY ExistingIsUsed DEF IInv, AdminRemains, AdminsStay
<1> QED BY <1>1, Invariance, PTL

\* delete_user and toggle_status: as long as there are accounts there is an
\* active admin's, unless one that was gone or inactive changed an account.
THEOREM ActiveAdminAlwaysRemains == Spec => []ActiveAdminRemains
<1>1. IInv => ActiveAdminRemains
  BY ExistingIsUsed DEF IInv, ActiveAdminRemains, ActiveAdminsStay
<1> QED BY <1>1, Invariance, PTL

\* toggle_status: without overlap an account has the status that its changes
\* amount to, whatever else happens to the accounts.
THEOREM TogglesAddUp == Spec => []StatusFollowsToggles
<1>1. IInv => StatusFollowsToggles
  BY DEF IInv
<1> QED BY <1>1, Invariance, PTL

\* register: a registration that takes effect is the first account, unless
\* bootstraps overlapped or admins deleted each other.
THEOREM RegistrationOnlyFirst == Spec => RegistrationIsFirst
<1>1. IInv => [\A t \in Tasks : Register(t) => Existing = {} \/ overlapped \/ crossed]_vars
  BY DEF IInv, RegistrationsSeeNone, Register
<1> QED BY <1>1, Invariance, PTL DEF RegistrationIsFirst

\* The two together: somebody can administer the accounts, but for the named races.
THEOREM AdministratorAlwaysRemains == Spec => []AdministratorRemains
<1>1. AdminRemains /\ ActiveAdminRemains => AdministratorRemains
  BY DEF AdministratorRemains
<1> QED BY <1>1, AdminAlwaysRemains, ActiveAdminAlwaysRemains, PTL

============================================================================
