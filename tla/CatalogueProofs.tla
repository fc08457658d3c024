-------------------------- MODULE CatalogueProofs --------------------------
(***************************************************************************)
(* Proofs about Catalogue for any projects, suites, runs, tasks and number *)
(* of test cases.                                                          *)
(***************************************************************************)
EXTENDS Catalogue, TLAPS

(* Type correctness, in three parts: the tree, the runs, the tasks *)

Status == {"none", "pending", "recorded"}

TreeType ==
  /\ born \subseteq Projects \cup Suites \cup Runs
  /\ lastCase \in 0 .. MaxCases
  /\ projects \subseteq Projects \cap born
  /\ projectOf \in [Suites -> Projects \cup {None}]
  /\ suiteOf \in [Cases -> Suites \cup {None}]
  /\ active \subseteq LiveCases

RunType ==
  /\ runOf \in [Runs -> Suites \cup {None}]
  /\ results \in [Runs -> [Cases -> Status]]
  /\ completed \subseteq LiveRuns
  /\ pruned \subseteq Runs /\ demo \subseteq Runs /\ overlapped \subseteq Runs

TaskType ==
  /\ task \in [Tasks -> TaskRecord]
  /\ \A t \in Tasks : task[t].at = "idle" <=> task[t] = Idle

LEMMA TypeParts ==
  TypeOK <=> edition \in {"monolith", "services"} /\ TreeType /\ RunType /\ TaskType
BY DEF TypeOK, TreeType, RunType, TaskType, Status

LEMMA IdleTyped == Idle \in TaskRecord
BY DEF Idle, TaskRecord

LEMMA TypeInit == Init => TypeOK
<1> SUFFICES ASSUME Init PROVE TypeOK
  OBVIOUS
<1>1. TreeType
  BY CatalogueAssumption DEF Init, TreeType, LiveCases, Cases
<1>2. RunType
  BY DEF Init, RunType, NoRows, Status, LiveRuns
<1>3. TaskType
  BY IdleTyped DEF Init, TaskType, Idle
<1> QED BY <1>1, <1>2, <1>3, TypeParts DEF Init

\* A task that is over leaves the others as they are.
LEMMA EndsTask ==
  ASSUME TaskType, NEW t \in Tasks, Ends(t)
  PROVE  TaskType' /\ task'[t] = Idle /\ \A u \in Tasks \ {t} : task'[u] = task[u]
BY IdleTyped DEF Ends, Goto, TaskType, Idle

\* A task that goes on to a record that is not idle, neither.
LEMMA GoesOn ==
  ASSUME TaskType, NEW t \in Tasks, NEW d \in TaskRecord, d.at # "idle", Goto(t, d)
  PROVE  TaskType' /\ task'[t] = d /\ \A u \in Tasks \ {t} : task'[u] = task[u]
<1>1. d # Idle
  BY DEF Idle
<1>2. task'[t] = d /\ \A u \in Tasks \ {t} : task'[u] = task[u]
  BY DEF TaskType, Goto
<1>3. task' \in [Tasks -> TaskRecord]
  BY DEF TaskType, Goto
<1> QED BY <1>1, <1>2, <1>3 DEF TaskType, Idle

LEMMA RowsTyped ==
  ASSUME NEW C, NEW status \in Status
  PROVE  RowsFor(C, status) \in [Cases -> Status]
BY DEF RowsFor, Status

\* What is loaded for a deletion is a task.
LEMMA LoadedTyped ==
  ASSUME NEW P \in SUBSET Projects, NEW S \in SUBSET Suites, NEW C \in SUBSET Cases
  PROVE  /\ Loaded(P, S, C) \in TaskRecord
         /\ Loaded(P, S, C).op = "delete" /\ Loaded(P, S, C).at = "loaded"
         /\ edition # "monolith" => Loaded(P, S, C).runs = {}
<1>1. /\ S \cup SuitesOf(P) \in SUBSET Suites
      /\ C \cup CasesOf(S \cup SuitesOf(P)) \in SUBSET Cases
      /\ RunsOf(S \cup SuitesOf(P)) \in SUBSET Runs
      /\ Readers(C \cup CasesOf(S \cup SuitesOf(P))) \in SUBSET Runs
  BY DEF SuitesOf, CasesOf, RunsOf, Readers, LiveSuites, LiveCases, LiveRuns
<1> QED BY <1>1 DEF Loaded, Idle, TaskRecord

----------------------------------------------------------------------------
(* The steps that change a task and nothing else *)

\* What each of them puts into its task.
LEMMA Reads ==
  ASSUME TypeOK, NEW t \in Tasks,
         \/ LoadDeletion(t)
         \/ \E s \in Suites : AskRun(t, s)
         \/ CountDemo(t)
         \/ \E r \in Runs, c \in Cases : ReadResult(t, r, c)
         \/ JudgeRun(t)
  PROVE  \E d \in TaskRecord :
           /\ Goto(t, d) /\ UNCHANGED <<edition, tree, runVars, history>>
           /\ \/ /\ LoadDeletion(t) /\ d.op = "delete" /\ d.at = "loaded"
                 /\ edition # "monolith" => d.runs = {}
              \/ \E s \in Suites :
                   /\ AskRun(t, s) /\ d.op = "run" /\ d.at = "fetched"
                   /\ d.suites = {s} /\ d.cases = ActiveOf(s)
              \/ /\ CountDemo(t) /\ d.op = "seed" /\ d.at = "fetched"
                 /\ task[t].op = "seed"
              \/ \E r \in Runs, c \in Cases :
                   /\ c \in Rows(r) /\ d.op = "record" /\ d.at = "read"
                   /\ d.runs = {r} /\ d.cases = {c}
              \/ /\ task[t].op = "record" /\ d.op = "record" /\ d.at \in {"done", "open"}
                 /\ \E r \in task[t].runs : d.at = "open" => ~AllRecorded(r, Seen(t, r))
                 /\ d.runs = task[t].runs /\ d.cases = task[t].cases
                 /\ d.was = task[t].was /\ d.status = task[t].status
<1>0. TaskType /\ TreeType /\ TypeOK
  BY TypeParts
<1>1. CASE LoadDeletion(t)
  <2>1. PICK P \in SUBSET Projects, S \in SUBSET Suites, C \in SUBSET Cases :
          Goto(t, Loaded(P, S, C))
    BY <1>0, <1>1 DEF LoadDeletion, LiveSuites, LiveCases, TreeType
  <2> QED BY <1>1, <2>1, LoadedTyped DEF LoadDeletion
<1>2. ASSUME NEW s \in Suites, AskRun(t, s)
      PROVE  \E d \in TaskRecord :
               /\ Goto(t, d) /\ d.op = "run" /\ d.at = "fetched"
               /\ d.suites = {s} /\ d.cases = ActiveOf(s)
  <2> DEFINE d == [Idle EXCEPT !.op = "run", !.at = "fetched", !.suites = {s},
                               !.cases = ActiveOf(s)]
  <2>1. ActiveOf(s) \in SUBSET Cases
    BY DEF ActiveOf, CasesOf, LiveCases
  <2>2. /\ d \in TaskRecord /\ d.op = "run" /\ d.at = "fetched"
        /\ d.suites = {s} /\ d.cases = ActiveOf(s)
    BY <2>1 DEF Idle, TaskRecord
  <2>3. Goto(t, d)
    BY <1>2 DEF AskRun
  <2> QED BY <2>2, <2>3
<1>3. CASE \E s \in Suites : AskRun(t, s)
  <2>1. PICK s \in Suites : AskRun(t, s)
    BY <1>3
  <2>2. UNCHANGED <<edition, tree, runVars, history>>
    BY <2>1 DEF AskRun
  <2> QED BY <1>2, <2>1, <2>2
<1>4. CASE CountDemo(t)
  <2>1. PICK n : Goto(t, [task[t] EXCEPT !.at = "fetched", !.cases = Cases \cap 1 .. n])
    BY <1>4 DEF CountDemo
  <2> DEFINE d == [task[t] EXCEPT !.at = "fetched", !.cases = Cases \cap 1 .. n]
  <2>2. task[t] \in TaskRecord /\ task[t].op = "seed"
    BY <1>0, <1>4 DEF TaskType, CountDemo
  <2>3. d \in TaskRecord /\ d.op = "seed" /\ d.at = "fetched"
    BY <2>2 DEF TaskRecord
  <2> QED BY <1>4, <2>1, <2>2, <2>3 DEF CountDemo
<1>5. ASSUME NEW r \in Runs, NEW c \in Cases, ReadResult(t, r, c)
      PROVE  \E d \in TaskRecord :
               /\ Goto(t, d) /\ UNCHANGED <<edition, tree, runVars, history>>
               /\ c \in Rows(r) /\ d.op = "record" /\ d.at = "read"
               /\ d.runs = {r} /\ d.cases = {c}
  <2>1. PICK status \in {"pending", "recorded"} :
          Goto(t, [Idle EXCEPT !.op = "record", !.at = "read", !.runs = {r}, !.cases = {c},
                               !.was = results[r][c], !.status = status])
    BY <1>5 DEF ReadResult
  <2> DEFINE d == [Idle EXCEPT !.op = "record", !.at = "read", !.runs = {r}, !.cases = {c},
                               !.was = results[r][c], !.status = status]
  <2>2. results[r][c] \in {"none", "pending", "recorded"}
    BY <1>0 DEF TypeOK
  <2>3. /\ d \in TaskRecord /\ d.op = "record" /\ d.at = "read"
        /\ d.runs = {r} /\ d.cases = {c}
    BY <2>2 DEF Idle, TaskRecord
  <2> QED BY <1>5, <2>1, <2>3 DEF ReadResult
<1>6. CASE JudgeRun(t)
  <2>1. PICK r \in task[t].runs :
          Goto(t, [task[t] EXCEPT !.at = IF AllRecorded(r, Seen(t, r)) THEN "done" ELSE "open"])
    BY <1>6 DEF JudgeRun
  <2> DEFINE d == [task[t] EXCEPT !.at = IF AllRecorded(r, Seen(t, r)) THEN "done" ELSE "open"]
  <2>2. task[t] \in TaskRecord /\ task[t].op = "record"
    BY <1>0, <1>6 DEF TaskType, JudgeRun
  <2>3. /\ d \in TaskRecord /\ d.op = "record" /\ d.at \in {"done", "open"}
        /\ d.at = "open" => ~AllRecorded(r, Seen(t, r))
        /\ d.runs = task[t].runs /\ d.cases = task[t].cases
        /\ d.was = task[t].was /\ d.status = task[t].status
    BY <2>2 DEF TaskRecord
  <2> QED BY <1>6, <2>1, <2>2, <2>3 DEF JudgeRun
<1> QED BY <1>1, <1>3, <1>4, <1>5, <1>6

----------------------------------------------------------------------------
(* Each step keeps the types; that completed runs exist needs the rest *)

IInv ==
  /\ TypeOK
  /\ TreeHolds /\ RunsHold
  /\ IdsInOrder /\ RunsApart /\ FetchedStands /\ UpdatesStand
  /\ DoneRunsComplete

LEMMA TypeOfCreations ==
  ASSUME IInv, CatalogueStep
  PROVE  TypeOK' /\ UNCHANGED <<edition, task, history>>
<1>0. TreeType /\ RunType /\ TaskType /\ edition \in {"monolith", "services"}
  BY TypeParts DEF IInv
<1>1. ASSUME NEW p \in Projects, CreateProject(p)
      PROVE  TreeType' /\ RunType' /\ UNCHANGED <<edition, task, history>>
  BY <1>0, <1>1 DEF CreateProject, TreeType, RunType, LiveCases, LiveRuns, runVars,
                    history
<1>2. ASSUME NEW p \in Projects, NEW s \in Suites, CreateSuite(p, s)
      PROVE  TreeType' /\ RunType' /\ UNCHANGED <<edition, task, history>>
  BY <1>0, <1>2 DEF CreateSuite, TreeType, RunType, LiveCases, LiveRuns, runVars,
                    history
<1>3. ASSUME NEW s \in Suites, CreateCase(s)
      PROVE  TreeType' /\ RunType' /\ UNCHANGED <<edition, task, history>>
  <2>1. lastCase' = lastCase + 1 /\ lastCase' \in 0 .. MaxCases /\ lastCase' \in Cases
    BY <1>0, <1>3, CatalogueAssumption DEF CreateCase, TreeType, Cases
  <2>2. suiteOf' = [suiteOf EXCEPT ![lastCase'] = s] /\ s # None
    BY <1>3, <2>1, CatalogueAssumption DEF CreateCase
  <2>3. active' \subseteq active \cup {lastCase'}
    BY <1>3, <2>1 DEF CreateCase
  <2>4. active' \subseteq LiveCases'
    BY <1>0, <2>1, <2>2, <2>3 DEF LiveCases, TreeType
  <2> QED BY <1>0, <1>3, <2>1, <2>2, <2>4
          DEF CreateCase, TreeType, RunType, LiveRuns, runVars, history
<1>4. ASSUME NEW c \in Cases, SetStatus(c)
      PROVE  TreeType' /\ RunType' /\ UNCHANGED <<edition, task, history>>
  BY <1>0, <1>4 DEF SetStatus, TreeType, RunType, LiveCases, LiveRuns, runVars,
                    history
<1>5. TreeType' /\ RunType' /\ UNCHANGED <<edition, task, history>>
  BY <1>1, <1>2, <1>3, <1>4 DEF CatalogueStep
<1>6. TaskType'
  BY <1>0, <1>5 DEF TaskType
<1> QED BY <1>0, <1>5, <1>6, TypeParts DEF TypeOK, TreeType, RunType, TaskType, Status

\* What a committed update changes.
LEMMA Updated ==
  ASSUME TypeOK, NEW t \in Tasks, CommitResult(t)
  PROVE  \E r \in Runs, c \in Cases :
           /\ task[t].runs # {} /\ r \in task[t].runs /\ c \in task[t].cases /\ c \in Rows(r)
           /\ task[t].op = "record" /\ task[t].at \in {"done", "open"}
           /\ \/ task[t].status = task[t].was /\ results' = results
              \/ /\ task[t].status # task[t].was
                 /\ results' = [results EXCEPT ![r][c] = task[t].status]
           /\ completed' = IF task[t].at = "done" THEN completed \cup {r} ELSE completed
           /\ overlapped \subseteq overlapped' /\ overlapped' \subseteq overlapped \cup {r}
           /\ (task[t].at = "open" /\ task[t].status # task[t].was
                 /\ \E u \in Tasks \ {t} :
                      task[u].op = "record" /\ task[u].at = "open" /\ r \in task[u].runs)
                => r \in overlapped'
           /\ Ends(t) /\ UNCHANGED <<edition, tree, runOf, pruned, demo>>
<1>1. task[t] \in TaskRecord
  BY DEF TypeOK
<1>2. PICK r \in task[t].runs, c \in task[t].cases :
        /\ c \in Rows(r)
        /\ results' = IF task[t].status = task[t].was THEN results
                      ELSE [results EXCEPT ![r][c] = task[t].status]
        /\ completed' = IF task[t].at = "done" THEN completed \cup {r} ELSE completed
        /\ overlapped' = IF task[t].at = "open" /\ task[t].status # task[t].was
                            /\ \E u \in Tasks \ {t} :
                                 task[u].op = "record" /\ task[u].at = "open" /\ r \in task[u].runs
                         THEN overlapped \cup {r} ELSE overlapped
  BY DEF CommitResult
<1>3. r \in Runs /\ c \in Cases
  BY <1>1, <1>2 DEF TaskRecord
<1> QED BY <1>2, <1>3 DEF CommitResult

LEMMA TypeOfUpdate ==
  ASSUME IInv, NEW t \in Tasks, CommitResult(t)
  PROVE  TypeOK' /\ UNCHANGED <<edition, tree, runOf, pruned, demo>>
<1>0. TreeType /\ RunType /\ TaskType /\ edition \in {"monolith", "services"} /\ TypeOK
  BY TypeParts DEF IInv
<1>1. PICK r \in Runs, c \in Cases :
        /\ r \in task[t].runs /\ c \in Rows(r)
        /\ results' = results \/ results' = [results EXCEPT ![r][c] = task[t].status]
        /\ completed' \subseteq completed \cup {r} /\ overlapped' \subseteq overlapped \cup {r}
        /\ Ends(t) /\ UNCHANGED <<edition, tree, runOf, pruned, demo>>
  BY <1>0, Updated
<1>2. task[t].status \in Status
  BY <1>0 DEF TaskType, TaskRecord, Status
<1>3. results' \in [Runs -> [Cases -> Status]]
  <2>1. results \in [Runs -> [Cases -> Status]]
    BY <1>0 DEF RunType
  <2>2. CASE results' = results
    BY <2>1, <2>2
  <2>3. CASE results' = [results EXCEPT ![r][c] = task[t].status]
    BY <1>2, <2>1, <2>3
  <2> QED BY <1>1, <2>2, <2>3
<1>4. r \in LiveRuns
  BY <1>1 DEF IInv, RunsHold
<1>5. RunType'
  BY <1>0, <1>1, <1>3, <1>4 DEF RunType, LiveRuns
<1>6. TreeType'
  BY <1>0, <1>1 DEF TreeType, LiveCases, tree
<1>7. TaskType'
  BY <1>0, <1>1, EndsTask
<1> QED BY <1>0, <1>1, <1>5, <1>6, <1>7, TypeParts
        DEF TypeOK, TreeType, RunType, TaskType, Status

LEMMA TypeOfDelete ==
  ASSUME IInv, NEW t \in Tasks, Delete(t)
  PROVE  TypeOK' /\ UNCHANGED edition
<1> DEFINE d == task[t]
<1>0. TreeType /\ RunType /\ TaskType /\ edition \in {"monolith", "services"}
  BY TypeParts DEF IInv
<1>1. TreeType'
  BY <1>0 DEF Delete, TreeType, LiveCases
<1>2. RunType'
  <2>1. runOf' \in [Runs -> Suites \cup {None}]
    BY <1>0 DEF Delete, RunType
  <2>2. results' \in [Runs -> [Cases -> Status]]
    BY <1>0 DEF Delete, RunType, Status
  <2>3. completed' \subseteq LiveRuns'
    BY <1>0 DEF Delete, RunType, LiveRuns
  <2>4. pruned' \subseteq Runs /\ demo' \subseteq Runs /\ overlapped' \subseteq Runs
    BY <1>0 DEF Delete, RunType
  <2> QED BY <2>1, <2>2, <2>3, <2>4 DEF RunType
<1>3. TaskType'
  <2>1. Ends(t)
    BY DEF Delete
  <2> QED BY <1>0, <2>1, EndsTask
<1>4. UNCHANGED edition
  BY DEF Delete
<1> QED BY <1>0, <1>1, <1>2, <1>3, <1>4, TypeParts
        DEF TypeOK, TreeType, RunType, TaskType, Status

LEMMA InsertedTyped ==
  ASSUME TypeOK, NEW r \in Runs, NEW s \in Suites, Inserted(r, s)
  PROVE  /\ runOf' \in [Runs -> Suites \cup {None}]
         /\ LiveRuns' = LiveRuns \cup {r} /\ runOf'[r] = s
         /\ \A q \in Runs \ {r} : runOf'[q] = runOf[q]
         /\ born' = born \cup {r} /\ r \notin born
BY CatalogueAssumption DEF TypeOK, Inserted, LiveRuns

LEMMA TypeOfRuns ==
  ASSUME IInv, NEW t \in Tasks,
         (\E r \in Runs : CommitRun(t, r) \/ SeedRun(t, r)) \/ Populate(t)
  PROVE  TypeOK' /\ UNCHANGED <<edition, lastCase, projects, projectOf, suiteOf, active>>
<1>0. /\ TreeType /\ RunType /\ TaskType /\ edition \in {"monolith", "services"}
      /\ TypeOK
  BY TypeParts DEF IInv
<1>d. task[t] \in TaskRecord
  BY <1>0 DEF TaskType
<1>1. ASSUME NEW r \in Runs, CommitRun(t, r)
      PROVE  /\ RunType' /\ TaskType' /\ TreeType'
             /\ UNCHANGED <<edition, lastCase, projects, projectOf, suiteOf, active>>
  <2>1. PICK s \in task[t].suites : Inserted(r, s)
    BY <1>1 DEF CommitRun
  <2>2. s \in Suites
    BY <1>d, <2>1 DEF TaskRecord
  <2>3. results' \in [Runs -> [Cases -> Status]]
    <3>1. \/ results' = results
          \/ results' = [results EXCEPT ![r] = RowsFor(task[t].cases, "pending")]
      BY <1>1 DEF CommitRun
    <3>2. RowsFor(task[t].cases, "pending") \in [Cases -> Status]
      BY RowsTyped DEF Status
    <3> QED BY <1>0, <3>1, <3>2 DEF RunType
  <2>u. UNCHANGED <<edition, lastCase, projects, projectOf, suiteOf, active, completed,
                    pruned, demo, overlapped>>
    BY <1>1 DEF CommitRun, history
  <2>4. RunType'
    BY <1>0, <2>1, <2>2, <2>3, <2>u, InsertedTyped DEF RunType
  <2>5. TreeType'
    <3>1. born' \subseteq Projects \cup Suites \cup Runs /\ born \subseteq born'
      BY <1>0, <2>1, <2>2, InsertedTyped DEF TreeType
    <3> QED BY <1>0, <2>u, <3>1 DEF TreeType, LiveCases
  <2>6. CASE edition = "monolith"
    BY <1>0, <1>1, <2>4, <2>5, <2>6, EndsTask DEF CommitRun
  <2>7. CASE edition # "monolith"
    <3> DEFINE d == [task[t] EXCEPT !.at = "committed", !.runs = {r}]
    <3>1. d \in TaskRecord /\ d.at # "idle"
      BY <1>d DEF TaskRecord
    <3>2. Goto(t, d)
      BY <1>1, <2>7 DEF CommitRun
    <3>3. TaskType'
      BY <1>0, <3>1, <3>2, GoesOn
    <3> QED BY <1>1, <2>4, <2>5, <3>3 DEF CommitRun
  <2> QED BY <2>6, <2>7
<1>2. ASSUME NEW r \in Runs, SeedRun(t, r)
      PROVE  /\ RunType' /\ TaskType' /\ TreeType'
             /\ UNCHANGED <<edition, lastCase, projects, projectOf, suiteOf, active>>
  <2>1. PICK s \in task[t].suites : Inserted(r, s)
    BY <1>2 DEF SeedRun
  <2>2. s \in Suites
    BY <1>d, <2>1 DEF TaskRecord
  <2>3. results' \in [Runs -> [Cases -> Status]]
    BY <1>0, <1>2, RowsTyped DEF SeedRun, RunType, Status
  <2>4. RunType'
    BY <1>0, <1>2, <2>1, <2>2, <2>3, InsertedTyped DEF SeedRun, RunType
  <2>5. TreeType'
    BY <1>0, <1>2, <2>1, <2>2, InsertedTyped DEF SeedRun, TreeType, LiveCases
  <2>6. TaskType'
    BY <1>0, <1>2, EndsTask DEF SeedRun
  <2> QED BY <1>2, <2>4, <2>5, <2>6 DEF SeedRun
<1>3. CASE Populate(t)
  <2>1. results' \in [Runs -> [Cases -> Status]]
    BY <1>0, <1>3, RowsTyped DEF Populate, RunType, Status
  <2>2. RunType'
    BY <1>0, <1>3, <2>1 DEF Populate, RunType, LiveRuns, history
  <2>3. TreeType'
    BY <1>0, <1>3 DEF Populate, TreeType, LiveCases, tree
  <2>4. TaskType'
    BY <1>0, <1>3, EndsTask DEF Populate
  <2> QED BY <1>0, <1>3, <2>2, <2>3, <2>4, TypeParts
          DEF Populate, tree, TypeOK, TreeType, RunType, TaskType, Status
<1> QED BY <1>0, <1>1, <1>2, <1>3, TypeParts
        DEF TypeOK, TreeType, RunType, TaskType, Status

\* A demo project gets a suite, whose cases get the next ids.
DemoTree(p, s) ==
  /\ lastCase' \in 0 .. MaxCases /\ lastCase <= lastCase'
  /\ lastCase + 1 .. lastCase' \subseteq Cases
  /\ suiteOf' = [c \in Cases |-> IF c \in lastCase + 1 .. lastCase'
                                 THEN s ELSE suiteOf[c]]
  /\ projects' = projects \cup {p}
  /\ projectOf' = [projectOf EXCEPT ![s] = p]
  /\ active' = active \cup (lastCase + 1 .. lastCase')
  /\ UNCHANGED <<edition, pruned, demo, overlapped>>

\* Its run comes with it in the monolith only.
DemoRun(t, p, s) ==
  \/ /\ edition = "monolith" /\ UNCHANGED task
     /\ \E r \in Runs \ born :
          /\ born' = born \cup {p, s, r}
          /\ runOf' = [runOf EXCEPT ![r] = s]
          /\ results' = [results EXCEPT ![r] =
                           RowsFor(lastCase + 1 .. lastCase', "recorded")]
          /\ completed' = completed \cup {r}
  \/ /\ edition # "monolith" /\ born' = born \cup {p, s}
     /\ Goto(t, [Idle EXCEPT !.op = "seed", !.at = "posted", !.suites = {s}])
     /\ UNCHANGED <<runOf, results, completed>>

LEMMA DemoSeeded ==
  ASSUME TypeOK, NEW t \in Tasks, NEW p \in Projects, NEW s \in Suites,
         NEW n \in Cases, SeedDemo(t, p, s, n)
  PROVE  DemoTree(p, s) /\ DemoRun(t, p, s)
<1>1. lastCase' = lastCase + n /\ lastCase + n <= MaxCases
  BY DEF SeedDemo
<1>2. lastCase \in 0 .. MaxCases /\ n \in Nat
  BY CatalogueAssumption DEF TypeOK, Cases
<1>3. /\ lastCase' \in 0 .. MaxCases /\ lastCase <= lastCase'
      /\ lastCase + 1 .. lastCase' \subseteq Cases
  BY <1>1, <1>2, CatalogueAssumption DEF Cases
<1>4. DemoTree(p, s)
  BY <1>1, <1>3 DEF SeedDemo, DemoTree, history
<1>5. CASE edition = "monolith"
  BY <1>1, <1>4, <1>5 DEF SeedDemo, DemoRun
<1>6. CASE edition # "monolith"
  BY <1>1, <1>4, <1>6 DEF SeedDemo, DemoRun, runVars
<1> QED BY <1>4, <1>5, <1>6

LEMMA TypeOfDemo ==
  ASSUME TypeOK, NEW t \in Tasks, NEW p \in Projects, NEW s \in Suites,
         DemoTree(p, s), DemoRun(t, p, s)
  PROVE  TypeOK' /\ UNCHANGED edition
<1>0. TreeType /\ RunType /\ TaskType /\ edition \in {"monolith", "services"}
  BY TypeParts
<1>1. /\ lastCase + 1 .. lastCase' \subseteq Cases
      /\ active' = active \cup (lastCase + 1 .. lastCase')
      /\ projects' = projects \cup {p}
      /\ UNCHANGED <<edition, pruned, demo, overlapped>>
  BY DEF DemoTree
<1>2. s # None
  BY CatalogueAssumption
<1>3. /\ LiveCases' = LiveCases \cup (lastCase + 1 .. lastCase')
      /\ suiteOf' \in [Cases -> Suites \cup {None}]
      /\ projectOf' \in [Suites -> Projects \cup {None}]
      /\ lastCase' \in 0 .. MaxCases
  BY <1>0, <1>2 DEF LiveCases, DemoTree, TreeType
<1>4. CASE edition = "monolith"
  <2>1. PICK r \in Runs \ born :
          /\ born' = born \cup {p, s, r}
          /\ runOf' = [runOf EXCEPT ![r] = s]
          /\ results' = [results EXCEPT ![r] =
               RowsFor(lastCase + 1 .. lastCase', "recorded")]
          /\ completed' = completed \cup {r}
    BY <1>4 DEF DemoRun
  <2>2. RowsFor(lastCase + 1 .. lastCase', "recorded") \in [Cases -> Status]
    BY RowsTyped DEF Status
  <2>3. RunType'
    BY <1>0, <1>1, <1>2, <2>1, <2>2 DEF RunType, LiveRuns
  <2>4. TreeType'
    BY <1>0, <1>1, <1>3, <2>1 DEF TreeType
  <2>5. TaskType'
    BY <1>0, <1>4 DEF TaskType, DemoRun
  <2> QED BY <1>0, <1>1, <2>3, <2>4, <2>5, TypeParts
          DEF TypeOK, TreeType, RunType, TaskType, Status
<1>5. CASE edition # "monolith"
  <2>1. /\ born' = born \cup {p, s} /\ UNCHANGED <<runOf, results, completed>>
        /\ Goto(t, [Idle EXCEPT !.op = "seed", !.at = "posted", !.suites = {s}])
    BY <1>5 DEF DemoRun
  <2>2. /\ [Idle EXCEPT !.op = "seed", !.at = "posted", !.suites = {s}] \in TaskRecord
        /\ [Idle EXCEPT !.op = "seed", !.at = "posted", !.suites = {s}].at # "idle"
    BY DEF Idle, TaskRecord
  <2>3. TaskType'
    BY <1>0, <2>1, <2>2, GoesOn
  <2>4. TreeType'
    BY <1>0, <1>1, <1>3, <2>1 DEF TreeType
  <2>5. RunType'
    BY <1>0, <1>1, <2>1 DEF RunType, LiveRuns
  <2> QED BY <1>0, <1>1, <2>3, <2>4, <2>5, TypeParts
          DEF TypeOK, TreeType, RunType, TaskType, Status
<1> QED BY <1>1, <1>4, <1>5

\* The steps that change one task only.
TaskOnly(t) ==
  \/ LoadDeletion(t)
  \/ \E s \in Suites : AskRun(t, s)
  \/ CountDemo(t)
  \/ \E r \in Runs, c \in Cases : ReadResult(t, r, c)
  \/ JudgeRun(t)
  \/ Fails(t)

LEMMA TypeOfTaskOnly ==
  ASSUME IInv, NEW t \in Tasks, TaskOnly(t)
  PROVE  TypeOK' /\ UNCHANGED <<edition, tree, runVars, history>>
<1>0. TreeType /\ RunType /\ TaskType /\ TypeOK /\ edition \in {"monolith", "services"}
  BY TypeParts DEF IInv
<1>1. TaskType' /\ UNCHANGED <<edition, tree, runVars, history>>
  <2>1. CASE Fails(t)
    BY <1>0, <2>1, EndsTask DEF Fails
  <2>2. CASE ~Fails(t)
    <3>1. PICK d \in TaskRecord :
            /\ Goto(t, d) /\ d.at # "idle"
            /\ UNCHANGED <<edition, tree, runVars, history>>
      BY <1>0, <2>2, Reads DEF TaskOnly
    <3> QED BY <1>0, <3>1, GoesOn
  <2> QED BY <2>1, <2>2
<1>2. TreeType' /\ RunType'
  BY <1>0, <1>1 DEF TreeType, RunType, LiveCases, LiveRuns, tree, runVars, history
<1> QED BY <1>0, <1>1, <1>2, TypeParts DEF TypeOK, TreeType, RunType, TaskType, Status

LEMMA TypeNext ==
  ASSUME IInv, [Next]_vars
  PROVE  TypeOK' /\ UNCHANGED edition
<1>1. CASE CatalogueStep
  BY <1>1, TypeOfCreations
<1>2. ASSUME NEW t \in Tasks, TaskStep(t)
      PROVE  TypeOK' /\ UNCHANGED edition
  <2>1. CASE TaskOnly(t)
    BY <2>1, TypeOfTaskOnly
  <2>2. CASE Delete(t) \/ CommitResult(t)
    BY <2>2, TypeOfDelete, TypeOfUpdate
  <2>3. CASE (\E r \in Runs : CommitRun(t, r) \/ SeedRun(t, r)) \/ Populate(t)
    BY <2>3, TypeOfRuns
  <2>4. CASE \E p \in Projects, s \in Suites, n \in Cases : SeedDemo(t, p, s, n)
    BY <2>4, DemoSeeded, TypeOfDemo DEF IInv
  <2> QED BY <1>2, <2>1, <2>2, <2>3, <2>4 DEF TaskStep, TaskOnly
<1>3. CASE UNCHANGED vars
  BY <1>3 DEF vars, tree, runVars, history, IInv, TypeOK, LiveCases, LiveRuns
<1> QED BY <1>1, <1>2, <1>3 DEF Next

----------------------------------------------------------------------------
(* What no step takes back *)

\* Test cases are moved to no other suite and do not come back.
CasesStay ==
  /\ lastCase <= lastCase'
  /\ \A c \in Cases : c <= lastCase /\ c \in LiveCases' =>
       c \in LiveCases /\ suiteOf'[c] = suiteOf[c]

\* Nor are runs, and in the services edition they are never deleted.
RunsStay ==
  /\ born \subseteq born' /\ demo \subseteq demo'
  /\ \A r \in LiveRuns : edition = "services" \/ r \in LiveRuns' =>
       r \in LiveRuns' /\ runOf'[r] = runOf[r]

LEMMA StableCreations ==
  ASSUME IInv, CatalogueStep
  PROVE  CasesStay /\ RunsStay
<1>0. /\ lastCase \in Nat /\ \A c \in Cases : c \in Nat
      /\ suiteOf \in [Cases -> Suites \cup {None}]
  BY CatalogueAssumption DEF IInv, TypeOK, Cases
<1>1. CASE \E p \in Projects : CreateProject(p)
  BY <1>0, <1>1 DEF CreateProject, runVars, history, CasesStay, RunsStay, LiveCases,
                    LiveRuns
<1>2. CASE \E p \in Projects, s \in Suites : CreateSuite(p, s)
  BY <1>0, <1>2 DEF CreateSuite, runVars, history, CasesStay, RunsStay, LiveCases,
                    LiveRuns
<1>3. CASE \E s \in Suites : CreateCase(s)
  BY <1>0, <1>3 DEF CreateCase, runVars, history, CasesStay, RunsStay, LiveCases,
                    LiveRuns
<1>4. CASE \E c \in Cases : SetStatus(c)
  BY <1>0, <1>4 DEF SetStatus, runVars, history, CasesStay, RunsStay, LiveCases,
                    LiveRuns
<1> QED BY <1>1, <1>2, <1>3, <1>4 DEF CatalogueStep

LEMMA StableRuns ==
  ASSUME IInv, NEW r \in Runs, NEW s \in Suites, Inserted(r, s),
         UNCHANGED <<lastCase, suiteOf>>, demo \subseteq demo'
  PROVE  CasesStay /\ RunsStay
<1>0. /\ lastCase \in Nat /\ TypeOK
      /\ r \notin LiveRuns
  BY CatalogueAssumption DEF IInv, TypeOK, IdsInOrder, Inserted
<1>1. CasesStay
  BY <1>0 DEF CasesStay, LiveCases
<1>2. /\ LiveRuns' = LiveRuns \cup {r} /\ \A q \in Runs \ {r} : runOf'[q] = runOf[q]
      /\ born' = born \cup {r}
  BY <1>0, InsertedTyped
<1> QED BY <1>0, <1>1, <1>2 DEF RunsStay, LiveRuns

LEMMA StableTasks ==
  ASSUME IInv, NEW t \in Tasks, TaskStep(t)
  PROVE  CasesStay /\ RunsStay
<1>0. /\ lastCase \in Nat /\ \A c \in Cases : c \in Nat /\ TypeOK
      /\ suiteOf \in [Cases -> Suites \cup {None}]
      /\ task[t] \in TaskRecord
  BY CatalogueAssumption DEF IInv, TypeOK, Cases
<1>1. CASE TaskOnly(t)
  <2>1. UNCHANGED <<edition, tree, runVars, history>>
    BY <1>1, TypeOfTaskOnly
  <2> QED BY <1>0, <2>1 DEF tree, runVars, history, CasesStay, RunsStay, LiveCases,
                            LiveRuns
<1>2. CASE Delete(t)
  <2>1. CasesStay
    BY <1>0, <1>2 DEF Delete, CasesStay, LiveCases
  <2>2. edition = "services" => task[t].runs = {}
    BY <1>2 DEF Delete, IInv, RunsApart
  <2>3. runOf' = [r \in Runs |-> IF r \in task[t].runs THEN None ELSE runOf[r]]
    BY <1>2 DEF Delete
  <2>4. born' = born /\ demo' = demo
    BY <1>2 DEF Delete
  <2>5. \A r \in LiveRuns : edition = "services" \/ r \in LiveRuns' =>
          r \in LiveRuns' /\ runOf'[r] = runOf[r]
    BY <2>2, <2>3 DEF LiveRuns
  <2> QED BY <2>1, <2>4, <2>5 DEF RunsStay
<1>3. ASSUME NEW r \in Runs, CommitRun(t, r)
      PROVE  CasesStay /\ RunsStay
  <2>1. PICK s \in task[t].suites : Inserted(r, s)
    BY <1>3 DEF CommitRun
  <2>2. s \in Suites /\ UNCHANGED <<lastCase, suiteOf, demo>>
    BY <1>0, <1>3, <2>1 DEF CommitRun, history, TaskRecord
  <2> QED BY <2>1, <2>2, StableRuns
<1>4. ASSUME NEW r \in Runs, SeedRun(t, r)
      PROVE  CasesStay /\ RunsStay
  <2>1. PICK s \in task[t].suites : Inserted(r, s)
    BY <1>4 DEF SeedRun
  <2>2. s \in Suites /\ UNCHANGED <<lastCase, suiteOf>> /\ demo \subseteq demo'
    BY <1>0, <1>4, <2>1 DEF SeedRun, TaskRecord
  <2> QED BY <2>1, <2>2, StableRuns
<1>5. CASE Populate(t) \/ CommitResult(t)
  <2>1. UNCHANGED <<edition, tree, runOf, demo>>
    BY <1>5, TypeOfUpdate DEF Populate, history
  <2> QED BY <1>0, <2>1 DEF tree, CasesStay, RunsStay, LiveCases, LiveRuns
<1>6. ASSUME NEW p \in Projects, NEW s \in Suites, DemoTree(p, s), DemoRun(t, p, s)
      PROVE  CasesStay /\ RunsStay
  <2>1. CasesStay
    BY <1>0, <1>6 DEF DemoTree, CasesStay, LiveCases
  <2>2. born \subseteq born' /\ demo' = demo
    BY <1>6 DEF DemoTree, DemoRun
  <2>3. \/ UNCHANGED runOf
        \/ \E r \in Runs \ born : runOf' = [runOf EXCEPT ![r] = s]
    BY <1>6 DEF DemoRun
  <2>4. \A r \in LiveRuns : runOf'[r] = runOf[r]
    BY <2>3 DEF IInv, IdsInOrder, TypeOK, LiveRuns
  <2> QED BY <2>1, <2>2, <2>4 DEF RunsStay, LiveRuns
<1> QED BY <1>0, <1>1, <1>2, <1>3, <1>4, <1>5, <1>6, DemoSeeded DEF TaskStep, TaskOnly

LEMMA Stable ==
  ASSUME IInv, Next
  PROVE  CasesStay /\ RunsStay
BY StableCreations, StableTasks DEF Next

----------------------------------------------------------------------------
(* Requests know what they have read *)

LEMMA RunsApartNext ==
  ASSUME IInv, Next
  PROVE  RunsApart'
<1>0. UNCHANGED edition /\ TaskType /\ edition \in {"monolith", "services"}
  BY TypeNext, TypeParts DEF IInv
<1>1. CASE CatalogueStep
  BY <1>0, <1>1, TypeOfCreations DEF IInv, RunsApart
<1>2. ASSUME NEW t \in Tasks, TaskStep(t)
      PROVE  RunsApart'
  <2> DEFINE Apart(d) == /\ d.op = "seed" => edition = "services"
                         /\ d.op = "run" /\ d.at = "committed" => edition = "services"
                         /\ d.op = "delete" /\ edition = "services" => d.runs = {}
  <2>1. CASE task' = task
    BY <1>0, <2>1 DEF IInv, RunsApart
  <2>2. ASSUME NEW d \in TaskRecord, d.at # "idle", Goto(t, d), Apart(d)
        PROVE  RunsApart'
    BY <1>0, <2>2, GoesOn DEF IInv, RunsApart
  <2>3. CASE Ends(t)
    BY <1>0, <2>3, EndsTask DEF IInv, RunsApart, Idle
  <2>4. CASE TaskOnly(t) /\ ~Fails(t)
    <3>1. PICK d \in TaskRecord :
            /\ Goto(t, d)
            /\ \/ /\ d.op = "delete" /\ d.at = "loaded"
                  /\ edition # "monolith" => d.runs = {}
               \/ d.op = "run" /\ d.at = "fetched"
               \/ d.op = "seed" /\ d.at = "fetched" /\ task[t].op = "seed"
               \/ d.op = "record" /\ d.at # "idle"
      BY <2>4, Reads DEF IInv, TaskOnly
    <3>2. d.at # "idle" /\ Apart(d)
      BY <1>0, <3>1 DEF IInv, RunsApart
    <3> QED BY <2>2, <3>1, <3>2
  <2>5. ASSUME NEW r \in Runs, CommitRun(t, r)
        PROVE  RunsApart'
    <3> DEFINE d == [task[t] EXCEPT !.at = "committed", !.runs = {r}]
    <3>1. CASE edition = "monolith"
      BY <2>3, <2>5, <3>1 DEF CommitRun
    <3>2. CASE edition # "monolith"
      <4>1. task[t] \in TaskRecord /\ task[t].op = "run" /\ Goto(t, d)
        BY <1>0, <2>5, <3>2 DEF CommitRun, TaskType
      <4>2. d \in TaskRecord /\ d.at # "idle" /\ d.op = "run"
        BY <4>1 DEF TaskRecord
      <4> QED BY <1>0, <2>2, <3>2, <4>1, <4>2
    <3> QED BY <3>1, <3>2
  <2>6. ASSUME NEW p \in Projects, NEW s \in Suites, DemoRun(t, p, s)
        PROVE  RunsApart'
    <3> DEFINE d == [Idle EXCEPT !.op = "seed", !.at = "posted", !.suites = {s}]
    <3>1. d \in TaskRecord /\ d.at # "idle" /\ d.op = "seed"
      BY DEF Idle, TaskRecord
    <3>2. task' = task \/ (edition # "monolith" /\ Goto(t, d))
      BY <2>6 DEF DemoRun
    <3> QED BY <1>0, <2>1, <2>2, <3>1, <3>2
  <2>7. CASE Delete(t) \/ Populate(t) \/ CommitResult(t) \/ Fails(t) \/ \E r \in Runs : SeedRun(t, r)
    BY <2>3, <2>7 DEF Delete, Populate, CommitResult, Fails, SeedRun
  <2> QED BY <1>2, <2>4, <2>5, <2>6, <2>7, DemoSeeded DEF TaskStep, TaskOnly, IInv
<1> QED BY <1>1, <1>2 DEF Next

\* FetchedStands of one request.
FetchedBy(t) ==
  task[t].op = "run" =>
    /\ \A s1, s2 \in task[t].suites : s1 = s2
    /\ \A c \in task[t].cases :
         c <= lastCase /\ (c \in LiveCases => suiteOf[c] \in task[t].suites)
    /\ task[t].at = "committed" =>
         \A r \in task[t].runs : r \in LiveRuns /\ runOf[r] \in task[t].suites

\* What a request has read stands through the steps of others.
LEMMA FetchedStays ==
  ASSUME IInv, TypeOK', CasesStay, RunsStay, NEW t \in Tasks, task'[t] = task[t]
  PROVE  FetchedBy(t)'
<1>0. /\ lastCase \in Nat /\ lastCase' \in Nat /\ \A c \in Cases : c \in Nat
      /\ task[t] \in TaskRecord /\ FetchedBy(t)
  BY CatalogueAssumption DEF IInv, TypeOK, Cases, FetchedStands, FetchedBy
<1>1. task[t].cases \subseteq Cases /\ task[t].runs \subseteq Runs
  BY <1>0 DEF TaskRecord
<1>2. CASE task[t].op # "run"
  BY <1>2 DEF FetchedBy
<1>3. CASE task[t].op = "run"
  <2>1. \A c \in task[t].cases :
          c <= lastCase' /\ (c \in LiveCases' => suiteOf'[c] \in task[t].suites)
    BY <1>0, <1>1, <1>3 DEF FetchedBy, CasesStay
  <2>2. task[t].at = "committed" =>
          \A r \in task[t].runs : r \in LiveRuns' /\ runOf'[r] \in task[t].suites
    BY <1>0, <1>1, <1>3 DEF FetchedBy, RunsStay, IInv, RunsApart
  <2> QED BY <1>0, <1>3, <2>1, <2>2 DEF FetchedBy
<1> QED BY <1>2, <1>3

LEMMA FetchedStandsNext ==
  ASSUME IInv, Next
  PROVE  FetchedStands'
<1>0. /\ UNCHANGED edition /\ TaskType /\ TypeOK /\ TypeOK' /\ CasesStay /\ RunsStay
      /\ lastCase \in Nat /\ \A c \in Cases : c \in Nat
  BY TypeNext, TypeParts, Stable, CatalogueAssumption DEF IInv, TypeOK, Cases
<1>1. SUFFICES \A t \in Tasks : FetchedBy(t)'
  BY DEF FetchedStands, FetchedBy
<1>2. CASE task' = task
  BY <1>0, <1>2, FetchedStays
<1>3. ASSUME NEW t \in Tasks, Ends(t)
      PROVE  \A u \in Tasks : FetchedBy(u)'
  <2>1. task'[t].op # "run" /\ \A u \in Tasks \ {t} : task'[u] = task[u]
    BY <1>0, <1>3, EndsTask DEF Idle
  <2> QED BY <1>0, <2>1, FetchedStays DEF FetchedBy
<1>4. ASSUME NEW t \in Tasks, NEW d \in TaskRecord, d.at # "idle", Goto(t, d),
             FetchedBy(t)'
      PROVE  \A u \in Tasks : FetchedBy(u)'
  <2>1. \A u \in Tasks \ {t} : task'[u] = task[u]
    BY <1>0, <1>4, GoesOn
  <2> QED BY <1>0, <1>4, <2>1, FetchedStays
<1>5. ASSUME NEW t \in Tasks, TaskOnly(t), ~Fails(t)
      PROVE  \A u \in Tasks : FetchedBy(u)'
  <2>1. PICK d \in TaskRecord :
          /\ Goto(t, d) /\ UNCHANGED <<edition, tree, runVars, history>>
          /\ \/ d.op = "delete" /\ d.at = "loaded"
             \/ \E s \in Suites : /\ AskRun(t, s) /\ d.op = "run" /\ d.at = "fetched"
                                  /\ d.suites = {s} /\ d.cases = ActiveOf(s)
             \/ d.op = "seed" /\ d.at = "fetched"
             \/ d.op = "record" /\ d.at # "idle"
    BY <1>0, <1>5, Reads DEF TaskOnly
  <2>2. task'[t] = d /\ d.at # "idle"
    BY <1>0, <2>1, GoesOn
  <2>3. CASE d.op # "run"
    <3>1. FetchedBy(t)'
      BY <2>2, <2>3 DEF FetchedBy
    <3> QED BY <1>4, <2>1, <2>2, <3>1
  <2>4. CASE d.op = "run"
    <3>1. PICK s \in Suites : d.suites = {s} /\ d.cases = ActiveOf(s) /\ d.at = "fetched"
      BY <2>1, <2>4
    <3>2. \A c \in d.cases : c <= lastCase /\ suiteOf[c] = s
      BY <3>1 DEF ActiveOf, CasesOf, IInv, IdsInOrder
    <3>3. FetchedBy(t)'
      BY <2>1, <2>2, <3>1, <3>2 DEF FetchedBy, tree, LiveCases
    <3> QED BY <1>4, <2>1, <2>2, <3>3
  <2> QED BY <2>3, <2>4
<1>6. ASSUME NEW t \in Tasks, NEW r \in Runs, CommitRun(t, r)
      PROVE  \A u \in Tasks : FetchedBy(u)'
  <2> DEFINE d == [task[t] EXCEPT !.at = "committed", !.runs = {r}]
  <2>1. CASE edition = "monolith"
    BY <1>3, <1>6, <2>1 DEF CommitRun
  <2>2. CASE edition # "monolith"
    <3>1. task[t] \in TaskRecord /\ task[t].op = "run" /\ Goto(t, d)
      BY <1>0, <1>6, <2>2 DEF CommitRun, TaskType
    <3>2. /\ d \in TaskRecord /\ d.at = "committed" /\ d.op = "run" /\ d.runs = {r}
          /\ d.suites = task[t].suites /\ d.cases = task[t].cases
      BY <3>1 DEF TaskRecord
    <3>3. task'[t] = d
      BY <1>0, <3>1, <3>2, GoesOn
    <3>4. PICK s \in task[t].suites : Inserted(r, s)
      BY <1>6 DEF CommitRun
    <3>5. s \in Suites
      BY <3>1, <3>4 DEF TaskRecord
    <3>6. r \in LiveRuns' /\ runOf'[r] = s
      BY <1>0, <3>4, <3>5, InsertedTyped
    <3>7. UNCHANGED <<lastCase, suiteOf>>
      BY <1>6 DEF CommitRun
    <3>8. FetchedBy(t)
      BY DEF IInv, FetchedStands, FetchedBy
    <3> HIDE DEF d
    <3>9. FetchedBy(t)'
      BY <3>1, <3>2, <3>3, <3>4, <3>6, <3>7, <3>8 DEF FetchedBy, LiveCases
    <3> QED BY <1>4, <3>1, <3>2, <3>9
  <2> QED BY <2>1, <2>2
<1>7. ASSUME NEW t \in Tasks, NEW p \in Projects, NEW s \in Suites, DemoRun(t, p, s)
      PROVE  \A u \in Tasks : FetchedBy(u)'
  <2> DEFINE d == [Idle EXCEPT !.op = "seed", !.at = "posted", !.suites = {s}]
  <2>1. d \in TaskRecord /\ d.at # "idle" /\ d.op = "seed"
    BY DEF Idle, TaskRecord
  <2>2. CASE Goto(t, d)
    <3>1. task'[t] = d
      BY <1>0, <2>1, <2>2, GoesOn
    <3>2. FetchedBy(t)'
      BY <2>1, <3>1 DEF FetchedBy
    <3> QED BY <1>4, <2>1, <2>2, <3>2
  <2> QED BY <1>2, <1>7, <2>2 DEF DemoRun
<1>8. CASE CatalogueStep
  BY <1>2, <1>8, TypeOfCreations
<1>9. ASSUME NEW t \in Tasks,
             \/ Delete(t) \/ Populate(t) \/ CommitResult(t) \/ Fails(t)
             \/ \E r \in Runs : SeedRun(t, r)
      PROVE  \A u \in Tasks : FetchedBy(u)'
  BY <1>3, <1>9 DEF Delete, Populate, CommitResult, Fails, SeedRun
<1> QED BY <1>0, <1>5, <1>6, <1>7, <1>8, <1>9, DemoSeeded DEF Next, TaskStep, TaskOnly

----------------------------------------------------------------------------
(* The tree: the foreign keys that Covers stands for are what keeps it *)

LEMMA TreeHoldsNext ==
  ASSUME IInv, Next
  PROVE  TreeHolds'
<1>0. TreeType /\ TreeHolds /\ TypeOK
  BY TypeParts DEF IInv
<1>1. CASE UNCHANGED <<projects, projectOf, suiteOf>>
  BY <1>0, <1>1 DEF TreeHolds, LiveSuites, LiveCases
<1>2. ASSUME NEW p \in Projects, CreateProject(p)
      PROVE  TreeHolds'
  BY <1>0, <1>2 DEF CreateProject, TreeHolds, LiveSuites, LiveCases
<1>3. ASSUME NEW p \in Projects, NEW s \in Suites, CreateSuite(p, s)
      PROVE  TreeHolds'
  <2>1. p # None
    BY CatalogueAssumption
  <2> QED BY <1>0, <1>3, <2>1
          DEF CreateSuite, TreeHolds, TreeType, LiveSuites, LiveCases
<1>4. ASSUME NEW s \in Suites, CreateCase(s)
      PROVE  TreeHolds'
  BY <1>0, <1>4 DEF CreateCase, TreeHolds, TreeType, LiveSuites, LiveCases
<1>5. ASSUME NEW t \in Tasks, Delete(t)
      PROVE  TreeHolds'
  <2>1. /\ SuitesOf(task[t].projects) \subseteq task[t].suites
        /\ CasesOf(task[t].suites) \subseteq task[t].cases
    BY <1>5 DEF Delete, Covers
  <2>2. /\ projects' = projects \ task[t].projects
        /\ projectOf' = [s \in Suites |->
                           IF s \in task[t].suites THEN None ELSE projectOf[s]]
        /\ suiteOf' = [c \in Cases |->
                         IF c \in task[t].cases THEN None ELSE suiteOf[c]]
    BY <1>5 DEF Delete
  <2>3. \A s \in LiveSuites' : projectOf'[s] \in projects'
    BY <1>0, <2>1, <2>2 DEF TreeHolds, SuitesOf, LiveSuites
  <2>4. \A c \in LiveCases' : suiteOf'[c] \in LiveSuites'
    BY <1>0, <2>1, <2>2 DEF TreeHolds, CasesOf, LiveSuites, LiveCases
  <2> QED BY <2>3, <2>4 DEF TreeHolds
<1>6. ASSUME NEW p \in Projects, NEW s \in Suites, DemoTree(p, s)
      PROVE  TreeHolds'
  <2>1. p # None
    BY CatalogueAssumption
  <2>2. LiveSuites' = LiveSuites \cup {s}
    BY <1>0, <1>6, <2>1 DEF DemoTree, TreeType, LiveSuites
  <2>3. \A q \in LiveSuites' : projectOf'[q] \in projects'
    BY <1>0, <1>6, <2>2 DEF DemoTree, TreeHolds, TreeType, LiveSuites
  <2>4. \A c \in LiveCases' : suiteOf'[c] \in LiveSuites'
    BY <1>0, <1>6, <2>2 DEF DemoTree, TreeHolds, TreeType, LiveCases
  <2> QED BY <2>3, <2>4 DEF TreeHolds
<1>7. ASSUME NEW t \in Tasks,
             TaskOnly(t) \/ (\E r \in Runs : CommitRun(t, r) \/ SeedRun(t, r)) \/ Populate(t)
      PROVE  UNCHANGED <<projects, projectOf, suiteOf>>
  BY <1>7, TypeOfTaskOnly, TypeOfRuns DEF IInv, tree
<1>8. ASSUME (\E c \in Cases : SetStatus(c)) \/ (\E t \in Tasks : CommitResult(t))
      PROVE  UNCHANGED <<projects, projectOf, suiteOf>>
  BY <1>8, TypeOfUpdate DEF SetStatus, tree
<1> QED BY <1>0, <1>1, <1>2, <1>3, <1>4, <1>5, <1>6, <1>7, <1>8, DemoSeeded
        DEF Next, TaskStep, CatalogueStep, TaskOnly

----------------------------------------------------------------------------
(* The rows of runs *)

\* RunsHold of one row.
RowHolds(r, c) ==
  /\ r \in LiveRuns
  /\ \/ suiteOf[c] = runOf[r]
     \/ edition = "services" /\ (c \notin LiveCases \/ r \in demo)

\* A row that was there stays right as long as its run is, and in the monolith
\* its test case.
LEMMA RowStays ==
  ASSUME IInv, TypeOK', CasesStay, RunsStay, UNCHANGED edition,
         NEW r \in LiveRuns, NEW c \in Rows(r), r \in LiveRuns',
         edition = "monolith" => suiteOf'[c] = suiteOf[c]
  PROVE  RowHolds(r, c)' /\ (r \notin demo => c <= lastCase')
<1>0. /\ runOf'[r] = runOf[r] /\ demo \subseteq demo' /\ r \in Runs /\ c \in Cases
      /\ edition \in {"monolith", "services"} /\ RowHolds(r, c)
      /\ lastCase \in Nat /\ lastCase' \in Nat /\ c \in Nat
      /\ suiteOf \in [Cases -> Suites \cup {None}] /\ runOf[r] # None
  BY CatalogueAssumption
     DEF RunsStay, LiveRuns, Rows, IInv, TypeOK, RunsHold, RowHolds, Cases
<1>1. r \notin demo => c <= lastCase
  BY <1>0 DEF IInv, IdsInOrder
<1>2. suiteOf[c] = runOf[r] => c <= lastCase
  BY <1>0 DEF IInv, IdsInOrder, LiveCases
<1>3. c <= lastCase => c <= lastCase'
  BY <1>0 DEF CasesStay
<1>4. CASE edition = "monolith"
  BY <1>0, <1>1, <1>3, <1>4 DEF RowHolds
<1>5. CASE edition = "services"
  BY <1>0, <1>1, <1>2, <1>3, <1>5 DEF RowHolds, CasesStay, LiveCases
<1> QED BY <1>0, <1>4, <1>5

\* All rows are right, and those of runs that are no demos have ids given before.
RowsRight ==
  \A r \in Runs : \A c \in Rows(r) :
    RowHolds(r, c) /\ (r \notin demo => c <= lastCase)

\* A step that adds no rows and keeps the runs of those that it leaves.
LEMMA OldRows ==
  ASSUME IInv, TypeOK', CasesStay, RunsStay, UNCHANGED edition,
         NEW r \in Runs, Rows(r)' \subseteq Rows(r),
         Rows(r)' # {} => r \in LiveRuns',
         edition = "monolith" => \A c \in Rows(r)' : suiteOf'[c] = suiteOf[c]
  PROVE  \A c \in Rows(r)' : RowHolds(r, c)' /\ (r \notin demo' => c <= lastCase')
<1> SUFFICES ASSUME NEW c \in Rows(r)'
             PROVE  RowHolds(r, c)' /\ (r \notin demo' => c <= lastCase')
  OBVIOUS
<1>1. c \in Rows(r) /\ r \in LiveRuns'
  OBVIOUS
<1>2. r \in LiveRuns
  BY <1>1 DEF IInv, RunsHold
<1>3. demo \subseteq demo'
  BY DEF RunsStay
<1> QED BY <1>1, <1>2, <1>3, RowStays

\* In the monolith a row's test case is there, and its id was given before.
LEMMA MonolithRows ==
  ASSUME IInv, edition = "monolith", NEW r \in Runs, NEW c \in Rows(r)
  PROVE  c \in LiveCases /\ c <= lastCase
<1>1. c \in Cases /\ r \in LiveRuns /\ suiteOf[c] = runOf[r]
  BY DEF Rows, IInv, RunsHold
<1> QED BY <1>1 DEF LiveRuns, LiveCases, IInv, IdsInOrder

LEMMA RowsOfCreations ==
  ASSUME IInv, CatalogueStep
  PROVE  RowsRight'
<1>0. /\ TypeOK /\ TypeOK' /\ UNCHANGED <<edition, history>> /\ CasesStay /\ RunsStay
      /\ lastCase \in Nat
  BY TypeOfCreations, StableCreations, CatalogueAssumption DEF IInv, TypeOK
<1>1. \A r \in Runs : Rows(r)' \subseteq Rows(r)
  BY DEF CatalogueStep, CreateProject, CreateSuite, CreateCase, SetStatus, runVars, Rows
<1>2. LiveRuns' = LiveRuns
  BY DEF CatalogueStep, CreateProject, CreateSuite, CreateCase, SetStatus,
         runVars, LiveRuns
<1>3. \A c \in Cases : c <= lastCase => suiteOf'[c] = suiteOf[c]
  BY <1>0 DEF CatalogueStep, CreateProject, CreateSuite, CreateCase, SetStatus, TypeOK
<1>4. \A r \in Runs : Rows(r)' # {} => r \in LiveRuns'
  BY <1>1, <1>2 DEF IInv, RunsHold
<1>5. ASSUME NEW r \in Runs
      PROVE  edition = "monolith" => \A c \in Rows(r)' : suiteOf'[c] = suiteOf[c]
  BY <1>1, <1>3, MonolithRows DEF Rows
<1> QED BY <1>0, <1>1, <1>4, <1>5, OldRows DEF RowsRight

LEMMA RowsOfUpdate ==
  ASSUME IInv, NEW t \in Tasks, CommitResult(t)
  PROVE  RowsRight'
<1>0. /\ TypeOK /\ TypeOK' /\ CasesStay /\ RunsStay /\ UNCHANGED <<edition, tree, runOf, demo>>
  BY TypeOfUpdate, StableTasks DEF IInv, TaskStep
<1>1. PICK r \in Runs, c \in Cases :
        c \in Rows(r) /\ (results' = results \/ results' = [results EXCEPT ![r][c] = task[t].status])
  BY <1>0, Updated
<1>2. ASSUME NEW q \in Runs
      PROVE  Rows(q)' \subseteq Rows(q)
  BY <1>0, <1>1 DEF Rows, TypeOK
<1>3. ASSUME NEW q \in Runs, Rows(q)' # {}
      PROVE  q \in LiveRuns'
  BY <1>0, <1>2, <1>3 DEF IInv, RunsHold, LiveRuns
<1>4. UNCHANGED suiteOf
  BY <1>0 DEF tree
<1> QED BY <1>0, <1>2, <1>3, <1>4, OldRows DEF RowsRight

LEMMA RowsOfDelete ==
  ASSUME IInv, NEW t \in Tasks, Delete(t)
  PROVE  RowsRight'
<1>0. /\ TypeOK /\ TypeOK' /\ UNCHANGED edition /\ CasesStay /\ RunsStay
  BY TypeOfDelete, StableTasks DEF IInv, TaskStep
<1>1. /\ runOf' = [r \in Runs |-> IF r \in task[t].runs THEN None ELSE runOf[r]]
      /\ suiteOf' = [c \in Cases |-> IF c \in task[t].cases THEN None ELSE suiteOf[c]]
      /\ results' = [r \in Runs |-> [c \in Cases |->
                       IF r \in task[t].runs
                            \/ (c \in task[t].cases /\ edition = "monolith")
                       THEN "none" ELSE results[r][c]]]
  BY DEF Delete
<1>2. ASSUME NEW r \in Runs
      PROVE  /\ Rows(r)' \subseteq Rows(r)
             /\ Rows(r)' # {} => r \in LiveRuns'
             /\ edition = "monolith" => \A c \in Rows(r)' : suiteOf'[c] = suiteOf[c]
  <2>1. Rows(r)' \subseteq Rows(r) /\ (Rows(r)' # {} => r \notin task[t].runs)
    BY <1>1 DEF Rows
  <2>2. Rows(r) # {} => r \in LiveRuns
    BY DEF IInv, RunsHold
  <2>3. Rows(r)' # {} => r \in LiveRuns'
    BY <1>1, <2>1, <2>2 DEF LiveRuns
  <2>4. edition = "monolith" => \A c \in Rows(r)' : suiteOf'[c] = suiteOf[c]
    BY <1>1 DEF Rows
  <2> QED BY <2>1, <2>3, <2>4
<1> QED BY <1>0, <1>2, OldRows DEF RowsRight

LEMMA RowsOfInserted ==
  ASSUME IInv, TypeOK', CasesStay, RunsStay, UNCHANGED edition,
         NEW r \in Runs, NEW s \in Suites,
         LiveRuns' = LiveRuns \cup {r}, runOf'[r] = s,
         NEW rows \in [Cases -> Status],
         results' = [results EXCEPT ![r] = rows],
         \A c \in Cases : edition = "monolith" /\ c <= lastCase => suiteOf'[c] = suiteOf[c],
         \A c \in Cases : rows[c] # "none" =>
           /\ \/ suiteOf'[c] = s
              \/ edition = "services" /\ r \in demo'
           /\ r \notin demo' => c <= lastCase'
  PROVE  RowsRight'
<1>0. results \in [Runs -> [Cases -> Status]] /\ results'[r] = rows
  BY DEF IInv, TypeOK, Status
<1>1. ASSUME NEW c \in Rows(r)'
      PROVE  RowHolds(r, c)' /\ (r \notin demo' => c <= lastCase')
  BY <1>0, <1>1 DEF Rows, RowHolds
<1>2. ASSUME NEW q \in Runs \ {r}
      PROVE  \A c \in Rows(q)' : RowHolds(q, c)' /\ (q \notin demo' => c <= lastCase')
  <2>1. Rows(q)' = Rows(q)
    BY <1>0 DEF Rows
  <2>2. Rows(q)' # {} => q \in LiveRuns'
    BY <2>1 DEF IInv, RunsHold
  <2>3. edition = "monolith" => \A c \in Rows(q)' : suiteOf'[c] = suiteOf[c]
    BY <2>1, MonolithRows DEF Rows
  <2> QED BY <2>1, <2>2, <2>3, OldRows
<1> QED BY <1>1, <1>2 DEF RowsRight

\* A run that is new has no rows yet.
LEMMA NewRunEmpty ==
  ASSUME IInv, NEW r \in Runs, r \notin born
  PROVE  \A c \in Cases : results[r][c] = "none"
BY DEF IInv, IdsInOrder, RunsHold, Rows

LEMMA RowsOfRuns ==
  ASSUME IInv, NEW t \in Tasks, NEW r \in Runs, CommitRun(t, r) \/ SeedRun(t, r)
  PROVE  RowsRight'
<1>0. /\ TypeOK /\ TypeOK' /\ CasesStay /\ RunsStay /\ task[t] \in TaskRecord
      /\ UNCHANGED <<edition, lastCase, suiteOf>>
      /\ edition \in {"monolith", "services"} /\ FetchedBy(t)
  BY TypeOfRuns, StableTasks DEF IInv, TypeOK, TaskStep, FetchedStands, FetchedBy
<1>1. PICK s \in task[t].suites : Inserted(r, s)
  BY DEF CommitRun, SeedRun
<1>2. /\ s \in Suites
      /\ LiveRuns' = LiveRuns \cup {r} /\ runOf'[r] = s /\ r \notin born
  BY <1>0, <1>1, InsertedTyped DEF TaskRecord
<1>3. CASE CommitRun(t, r) /\ edition = "monolith"
  <2> DEFINE rows == RowsFor(task[t].cases, "pending")
  <2>1. /\ results' = [results EXCEPT ![r] = rows] /\ task[t].op = "run"
        /\ task[t].cases \subseteq LiveCases
    BY <1>3 DEF CommitRun
  <2>2. rows \in [Cases -> Status]
    BY RowsTyped DEF Status
  <2>3. \A c \in Cases : rows[c] # "none" => suiteOf'[c] = s /\ c <= lastCase'
    BY <1>0, <1>1, <2>1 DEF RowsFor, FetchedBy
  <2> HIDE DEF rows
  <2>4. \A c \in Cases : rows[c] # "none" =>
          /\ \/ suiteOf'[c] = s
             \/ edition = "services" /\ r \in demo'
          /\ r \notin demo' => c <= lastCase'
    BY <2>3
  <2>5. results' = [results EXCEPT ![r] = rows]
    BY <2>1
  <2> QED BY <1>0, <1>2, <2>2, <2>4, <2>5, RowsOfInserted
<1>4. CASE CommitRun(t, r) /\ edition # "monolith"
  <2> DEFINE rows == results[r]
  <2>1. results' = [results EXCEPT ![r] = rows] /\ rows \in [Cases -> Status]
    BY <1>0, <1>4 DEF CommitRun, TypeOK, Status
  <2>2. \A c \in Cases : rows[c] = "none"
    BY <1>2, NewRunEmpty
  <2> HIDE DEF rows
  <2> QED BY <1>0, <1>2, <2>1, <2>2, RowsOfInserted
<1>5. CASE SeedRun(t, r)
  <2> DEFINE rows == RowsFor(task[t].cases, "recorded")
  <2>1. results' = [results EXCEPT ![r] = rows] /\ task[t].op = "seed" /\ r \in demo'
    BY <1>5 DEF SeedRun
  <2>2. rows \in [Cases -> Status]
    BY RowsTyped DEF Status
  <2>3. edition = "services"
    BY <2>1 DEF IInv, RunsApart
  <2> HIDE DEF rows
  <2> QED BY <1>0, <1>2, <2>1, <2>2, <2>3, RowsOfInserted
<1> QED BY <1>3, <1>4, <1>5

LEMMA RowsOfPopulate ==
  ASSUME IInv, NEW t \in Tasks, Populate(t)
  PROVE  RowsRight'
<1>0. /\ TypeOK /\ TypeOK' /\ CasesStay /\ RunsStay
      /\ UNCHANGED <<edition, lastCase, suiteOf, runOf, demo>>
      /\ edition = "services" /\ FetchedBy(t)
  BY TypeOfRuns, StableTasks
     DEF IInv, TypeOK, TaskStep, FetchedStands, FetchedBy, RunsApart, Populate, tree,
         history
<1>1. ASSUME NEW r \in Runs, ~(r \in task[t].runs /\ Rows(r) = {})
      PROVE  \A c \in Rows(r)' : RowHolds(r, c)' /\ (r \notin demo' => c <= lastCase')
  <2>1. Rows(r)' = Rows(r) /\ LiveRuns' = LiveRuns
    BY <1>0, <1>1 DEF Populate, Rows, LiveRuns
  <2>2. Rows(r)' # {} => r \in LiveRuns'
    BY <2>1 DEF IInv, RunsHold
  <2> QED BY <1>0, <2>1, <2>2, OldRows
<1>2. ASSUME NEW r \in Runs, r \in task[t].runs, Rows(r) = {}, NEW c \in Rows(r)'
      PROVE  RowHolds(r, c)' /\ (r \notin demo' => c <= lastCase')
  <2>1. c \in task[t].cases
    BY <1>2 DEF Populate, Rows, RowsFor
  <2>2. task[t].op = "run" /\ task[t].at = "committed"
    BY DEF Populate
  <2>3. /\ r \in LiveRuns /\ runOf[r] \in task[t].suites /\ c <= lastCase
        /\ c \in LiveCases => suiteOf[c] = runOf[r]
    BY <1>0, <1>2, <2>1, <2>2 DEF FetchedBy
  <2> QED BY <1>0, <2>3 DEF RowHolds, LiveRuns, LiveCases
<1> QED BY <1>1, <1>2 DEF RowsRight

LEMMA RowsOfDemo ==
  ASSUME IInv, NEW t \in Tasks, NEW p \in Projects, NEW s \in Suites,
         DemoTree(p, s), DemoRun(t, p, s), CasesStay, RunsStay
  PROVE  RowsRight'
<1>t. TypeOK
  BY DEF IInv
<1>n. lastCase \in Nat
  BY <1>t, CatalogueAssumption DEF TypeOK
<1>d. UNCHANGED <<edition, demo>>
  BY DEF DemoTree
<1>0. TypeOK /\ TypeOK' /\ UNCHANGED <<edition, demo>> /\ lastCase \in Nat
  BY <1>t, <1>n, <1>d, TypeOfDemo
<1>1. \A c \in Cases : c <= lastCase => suiteOf'[c] = suiteOf[c]
  BY <1>0 DEF DemoTree, Cases
<1>2. CASE UNCHANGED <<runOf, results>>
  <2>1. ASSUME NEW r \in Runs
        PROVE  /\ Rows(r)' = Rows(r) /\ (Rows(r)' # {} => r \in LiveRuns')
               /\ edition = "monolith" => \A c \in Rows(r)' : suiteOf'[c] = suiteOf[c]
    BY <1>1, <1>2, MonolithRows DEF Rows, LiveRuns, IInv, RunsHold
  <2> QED BY <1>0, <2>1, OldRows DEF RowsRight
<1>3. CASE \E r \in Runs \ born :
             /\ runOf' = [runOf EXCEPT ![r] = s]
             /\ results' = [results EXCEPT ![r] =
                              RowsFor(lastCase + 1 .. lastCase', "recorded")]
  <2>1. PICK r \in Runs \ born :
          /\ runOf' = [runOf EXCEPT ![r] = s]
          /\ results' = [results EXCEPT ![r] =
                           RowsFor(lastCase + 1 .. lastCase', "recorded")]
    BY <1>3
  <2> DEFINE rows == RowsFor(lastCase + 1 .. lastCase', "recorded")
  <2>2. rows \in [Cases -> Status]
    BY RowsTyped DEF Status
  <2>3. LiveRuns' = LiveRuns \cup {r} /\ runOf'[r] = s
    BY <1>0, <2>1, CatalogueAssumption DEF TypeOK, LiveRuns
  <2>4. \A c \in Cases : rows[c] # "none" => suiteOf'[c] = s /\ c <= lastCase'
    BY DEF RowsFor, DemoTree
  <2>5. results' = [results EXCEPT ![r] = rows] /\ r \in Runs
    BY <2>1
  <2> HIDE DEF rows
  <2>6. \A c \in Cases : rows[c] # "none" =>
          /\ \/ suiteOf'[c] = s
             \/ edition = "services" /\ r \in demo'
          /\ r \notin demo' => c <= lastCase'
    BY <2>4
  <2>7. \A c \in Cases : edition = "monolith" /\ c <= lastCase => suiteOf'[c] = suiteOf[c]
    BY <1>1
  <2> QED BY <1>0, <2>2, <2>3, <2>5, <2>6, <2>7, RowsOfInserted
<1> QED BY <1>2, <1>3 DEF DemoRun

LEMMA RowsNext ==
  ASSUME IInv, Next
  PROVE  RowsRight'
<1>0. TypeOK /\ TypeOK' /\ CasesStay /\ RunsStay
  BY TypeNext, Stable DEF IInv
<1>1. ASSUME NEW t \in Tasks, TaskOnly(t)
      PROVE  RowsRight'
  <2>1. UNCHANGED <<edition, tree, runVars, history>>
    BY <1>1, TypeOfTaskOnly
  <2> QED BY <2>1 DEF RowsRight, RowHolds, Rows, LiveRuns, LiveCases, tree, runVars,
                      history, IInv, RunsHold, IdsInOrder
<1>2. ASSUME NEW t \in Tasks, NEW p \in Projects, NEW s \in Suites, NEW n \in Cases,
             SeedDemo(t, p, s, n)
      PROVE  RowsRight'
  BY <1>0, <1>2, DemoSeeded, RowsOfDemo
<1> QED BY <1>1, <1>2, RowsOfCreations, RowsOfUpdate, RowsOfDelete, RowsOfRuns, RowsOfPopulate
        DEF Next, TaskStep, TaskOnly

----------------------------------------------------------------------------
(* The suites of runs *)

\* In the monolith a run is of a suite that is there.
RunsInSuites == edition = "monolith" => \A r \in LiveRuns : runOf[r] \in LiveSuites

LEMMA SuitesNext ==
  ASSUME IInv, Next
  PROVE  RunsInSuites' /\ LiveRuns' \subseteq born'
<1>0. /\ TypeOK /\ UNCHANGED edition /\ RunsInSuites /\ LiveRuns \subseteq born
      /\ \A t \in Tasks : task[t] \in TaskRecord
  <2>1. TypeOK /\ UNCHANGED edition /\ RunsHold /\ IdsInOrder
    BY TypeNext DEF IInv
  <2>2. RunsInSuites /\ LiveRuns \subseteq born
    BY <2>1 DEF RunsHold, RunsInSuites, IdsInOrder, LiveRuns
  <2>3. \A t \in Tasks : task[t] \in TaskRecord
    BY <2>1 DEF TypeOK
  <2> QED BY <2>1, <2>2, <2>3
<1>1. ASSUME LiveSuites \subseteq LiveSuites', born \subseteq born', UNCHANGED runOf
      PROVE  RunsInSuites' /\ LiveRuns' \subseteq born'
  BY <1>0, <1>1 DEF RunsInSuites, LiveRuns
<1>2. ASSUME NEW r \in Runs, NEW s \in Suites, LiveRuns' = LiveRuns \cup {r},
             runOf'[r] = s, \A q \in Runs \ {r} : runOf'[q] = runOf[q],
             LiveSuites \subseteq LiveSuites', born \cup {r} \subseteq born',
             edition = "monolith" => s \in LiveSuites'
      PROVE  RunsInSuites' /\ LiveRuns' \subseteq born'
  <2>1. LiveRuns' \subseteq born'
    BY <1>0, <1>2
  <2>2. ASSUME edition = "monolith", NEW q \in LiveRuns'
        PROVE  runOf'[q] \in LiveSuites'
    <3>1. CASE q = r
      BY <1>2, <2>2, <3>1
    <3>2. CASE q # r
      <4>1. q \in LiveRuns /\ q \in Runs
        BY <1>2, <3>2 DEF LiveRuns
      <4> QED BY <1>0, <1>2, <2>2, <3>2, <4>1 DEF RunsInSuites
    <3> QED BY <3>1, <3>2
  <2> QED BY <1>0, <2>1, <2>2 DEF RunsInSuites
<1>3. CASE CatalogueStep
  <2>1. LiveSuites \subseteq LiveSuites' /\ UNCHANGED runOf
    BY <1>0, <1>3, CatalogueAssumption
       DEF CatalogueStep, CreateProject, CreateSuite, CreateCase, SetStatus,
           runVars, LiveSuites, TypeOK
  <2> QED BY <1>1, <1>3, <2>1, StableCreations DEF RunsStay
<1>4. ASSUME NEW t \in Tasks, TaskOnly(t) \/ Populate(t) \/ CommitResult(t)
      PROVE  RunsInSuites' /\ LiveRuns' \subseteq born'
  <2>1. UNCHANGED <<tree, runOf>>
    BY <1>4, TypeOfTaskOnly, TypeOfUpdate DEF Populate, runVars
  <2> QED BY <1>1, <2>1 DEF tree, LiveSuites
<1>5. ASSUME NEW t \in Tasks, Delete(t)
      PROVE  RunsInSuites' /\ LiveRuns' \subseteq born'
  <2>1. /\ runOf' = [r \in Runs |-> IF r \in task[t].runs THEN None ELSE runOf[r]]
        /\ projectOf' = [s \in Suites |->
                           IF s \in task[t].suites THEN None ELSE projectOf[s]]
        /\ born' = born
        /\ edition = "monolith" => RunsOf(task[t].suites) \subseteq task[t].runs
    BY <1>5 DEF Delete, Covers
  <2>2. LiveRuns' \subseteq LiveRuns
    BY <2>1 DEF LiveRuns
  <2>3. ASSUME edition = "monolith", NEW r \in LiveRuns'
        PROVE  runOf'[r] \in LiveSuites'
    <3>1. r \in LiveRuns /\ r \notin task[t].runs /\ runOf'[r] = runOf[r]
      BY <2>1, <2>3 DEF LiveRuns
    <3>2. runOf[r] \in LiveSuites /\ runOf[r] \notin task[t].suites
      BY <1>0, <2>1, <2>3, <3>1 DEF RunsInSuites, RunsOf
    <3> QED BY <2>1, <3>1, <3>2 DEF LiveSuites
  <2> QED BY <1>0, <2>1, <2>2, <2>3 DEF RunsInSuites
<1>6. ASSUME NEW t \in Tasks, NEW r \in Runs, CommitRun(t, r) \/ SeedRun(t, r)
      PROVE  RunsInSuites' /\ LiveRuns' \subseteq born'
  <2>1. PICK s \in task[t].suites : Inserted(r, s)
    BY <1>6 DEF CommitRun, SeedRun
  <2>2. s \in Suites
    BY <1>0, <2>1 DEF TaskRecord
  <2>3. /\ LiveRuns' = LiveRuns \cup {r} /\ runOf'[r] = s /\ born' = born \cup {r}
        /\ \A q \in Runs \ {r} : runOf'[q] = runOf[q]
    BY <1>0, <2>1, <2>2, InsertedTyped
  <2>4. LiveSuites' = LiveSuites
    BY <1>6 DEF CommitRun, SeedRun, LiveSuites
  <2>5. edition = "monolith" => s \in LiveSuites
    BY <1>6, <2>1 DEF CommitRun, SeedRun, IInv, RunsApart
  <2> QED BY <1>2, <2>2, <2>3, <2>4, <2>5
<1>7. ASSUME NEW t \in Tasks, NEW p \in Projects, NEW s \in Suites,
             DemoTree(p, s), DemoRun(t, p, s)
      PROVE  RunsInSuites' /\ LiveRuns' \subseteq born'
  <2>1. p # None /\ s # None
    BY CatalogueAssumption
  <2>2. LiveSuites' = LiveSuites \cup {s}
    BY <1>0, <1>7, <2>1 DEF DemoTree, TypeOK, LiveSuites
  <2>3. CASE UNCHANGED runOf
    BY <1>1, <1>7, <2>2, <2>3 DEF DemoRun
  <2>4. CASE \E r \in Runs \ born :
               born' = born \cup {p, s, r} /\ runOf' = [runOf EXCEPT ![r] = s]
    <3>1. PICK r \in Runs \ born :
            born' = born \cup {p, s, r} /\ runOf' = [runOf EXCEPT ![r] = s]
      BY <2>4
    <3>2. /\ LiveRuns' = LiveRuns \cup {r} /\ runOf'[r] = s
          /\ \A q \in Runs \ {r} : runOf'[q] = runOf[q]
      BY <1>0, <2>1, <3>1 DEF TypeOK, LiveRuns
    <3> QED BY <1>2, <2>2, <3>1, <3>2
  <2> QED BY <1>7, <2>3, <2>4 DEF DemoRun
<1> QED BY <1>0, <1>3, <1>4, <1>5, <1>6, <1>7, DemoSeeded DEF Next, TaskStep, TaskOnly

LEMMA RunsHoldNext ==
  ASSUME IInv, Next
  PROVE  RunsHold' /\ IdsInOrder'
<1>1. /\ RowsRight' /\ RunsInSuites' /\ LiveRuns' \subseteq born'
      /\ CasesStay /\ TypeOK /\ TypeOK'
  BY RowsNext, SuitesNext, Stable, TypeNext DEF IInv
<1>2. RunsHold'
  BY <1>1 DEF RunsHold, RowsRight, RowHolds, RunsInSuites
<1>3. \A c \in LiveCases' : c <= lastCase'
  <2>1. CASE UNCHANGED <<lastCase, suiteOf>>
    BY <2>1 DEF IInv, IdsInOrder, LiveCases
  <2>2. ASSUME NEW s \in Suites, CreateCase(s)
        PROVE  \A c \in LiveCases' : c <= lastCase'
    BY <1>1, <2>2, CatalogueAssumption
       DEF CreateCase, IInv, IdsInOrder, LiveCases, TypeOK, Cases
  <2>3. ASSUME NEW t \in Tasks, Delete(t)
        PROVE  \A c \in LiveCases' : c <= lastCase'
    BY <2>3 DEF Delete, IInv, IdsInOrder, LiveCases
  <2>4. ASSUME NEW p \in Projects, NEW s \in Suites, DemoTree(p, s)
        PROVE  \A c \in LiveCases' : c <= lastCase'
    BY <1>1, <2>4, CatalogueAssumption
       DEF DemoTree, IInv, IdsInOrder, LiveCases, TypeOK, Cases
  <2>5. ASSUME NEW t \in Tasks,
               \/ TaskOnly(t) \/ (\E r \in Runs : CommitRun(t, r) \/ SeedRun(t, r))
               \/ Populate(t) \/ CommitResult(t)
        PROVE  UNCHANGED <<lastCase, suiteOf>>
    BY <2>5, TypeOfTaskOnly, TypeOfRuns, TypeOfUpdate DEF tree
  <2>6. CatalogueStep => UNCHANGED <<lastCase, suiteOf>> \/ \E s \in Suites : CreateCase(s)
    BY DEF CatalogueStep, CreateProject, CreateSuite, SetStatus
  <2> QED BY <1>1, <2>1, <2>2, <2>3, <2>4, <2>5, <2>6, DemoSeeded
          DEF Next, TaskStep, TaskOnly
<1>4. IdsInOrder'
  BY <1>1, <1>3 DEF IdsInOrder, RowsRight
<1> QED BY <1>2, <1>4

----------------------------------------------------------------------------
(* Completion *)

\* DoneRunsComplete of one run.
DoneComplete(r) ==
  r \in LiveRuns /\ Rows(r) # {} /\ AllRecorded(r, results[r])
    => r \in completed \cup pruned \cup overlapped

\* A run that keeps its rows, or gets new ones that are pending, and stays stamped.
LEMMA DoneStays ==
  ASSUME IInv, NEW r \in Runs, completed \subseteq completed', pruned \subseteq pruned',
         overlapped \subseteq overlapped',
         \/ results'[r] = results[r] /\ (r \in LiveRuns' => r \in LiveRuns)
         \/ \E C \in SUBSET Cases : results'[r] = RowsFor(C, "pending")
         \/ \A c \in Cases : results'[r][c] = "none"
         \/ r \in completed'
  PROVE  DoneComplete(r)'
BY DEF IInv, DoneRunsComplete, DoneComplete, Rows, AllRecorded, RowsFor

\* An update found its run done, or leaves a row pending, or is named.
LEMMA DoneAfterUpdate ==
  ASSUME IInv, NEW t \in Tasks, CommitResult(t)
  PROVE  \A q \in Runs : DoneComplete(q)'
<1>0. TypeOK /\ task[t] \in TaskRecord
  BY DEF IInv, TypeOK
<1>1. PICK r \in Runs, c \in Cases :
        /\ r \in task[t].runs /\ c \in task[t].cases /\ c \in Rows(r)
        /\ task[t].op = "record" /\ task[t].at \in {"done", "open"}
        /\ \/ task[t].status = task[t].was /\ results' = results
           \/ /\ task[t].status # task[t].was
              /\ results' = [results EXCEPT ![r][c] = task[t].status]
        /\ completed' = IF task[t].at = "done" THEN completed \cup {r} ELSE completed
        /\ overlapped \subseteq overlapped' /\ UNCHANGED <<runOf, pruned>>
  BY <1>0, Updated
<1>2. completed \subseteq completed' /\ LiveRuns' = LiveRuns
  BY <1>1 DEF LiveRuns
<1>3. \A q \in Runs \ {r} : results'[q] = results[q]
  BY <1>0, <1>1 DEF TypeOK
<1>4. \A q \in Runs \ {r} : DoneComplete(q)'
  BY <1>1, <1>2, <1>3, DoneStays
<1>5. DoneComplete(r)'
  <2>1. CASE task[t].at = "done"
    BY <1>1, <1>2, <2>1, DoneStays
  <2>2. CASE results' = results
    BY <1>1, <1>2, <2>2, DoneStays
  <2>3. CASE task[t].at = "open" /\ task[t].status # task[t].was
    <3>1. results'[r] = [results[r] EXCEPT ![c] = task[t].status]
      BY <1>0, <1>1, <2>3 DEF TypeOK
    <3>2. task[t].cases = {c} /\ r \in LiveRuns
      BY <1>1 DEF IInv, UpdatesStand, RunsHold
    <3>3. \A e \in Cases : results'[r][e] = Seen(t, r)[e]
      BY <1>0, <3>1, <3>2 DEF Seen, TypeOK
    <3>4. AllRecorded(r, results'[r]) => r \in completed \cup pruned \cup overlapped
      BY <1>1, <2>3, <3>2, <3>3 DEF AllRecorded, IInv, UpdatesStand
    <3> QED BY <1>1, <1>2, <3>4 DEF DoneComplete, AllRecorded
  <2> QED BY <1>1, <2>1, <2>2, <2>3
<1> QED BY <1>4, <1>5

\* A run loses a pending row, and is named, or it has lost none.
LEMMA DoneAfterDelete ==
  ASSUME IInv, NEW t \in Tasks, Delete(t)
  PROVE  \A r \in Runs : DoneComplete(r)'
<1> DEFINE gone(r, c) == r \in task[t].runs \/ (c \in task[t].cases /\ edition = "monolith")
<1>1. /\ runOf' = [r \in Runs |-> IF r \in task[t].runs THEN None ELSE runOf[r]]
      /\ results' = [r \in Runs |-> [c \in Cases |->
                       IF gone(r, c) THEN "none" ELSE results[r][c]]]
      /\ completed' = completed \ task[t].runs
      /\ pruned' = pruned \cup
           {r \in Runs : \E c \in Cases : gone(r, c) /\ results[r][c] = "pending"}
      /\ overlapped' = overlapped
  BY DEF Delete
<1> SUFFICES ASSUME NEW r \in Runs, r \in LiveRuns', Rows(r)' # {},
                    AllRecorded(r, results'[r])
             PROVE  r \in completed' \cup pruned' \cup overlapped'
  BY DEF DoneComplete, AllRecorded
<1>2. r \in LiveRuns /\ r \notin task[t].runs
  BY <1>1 DEF LiveRuns
<1>3. Rows(r) # {}
  BY <1>1 DEF Rows
<1>4. CASE \E c \in Cases : gone(r, c) /\ results[r][c] = "pending"
  BY <1>1, <1>4
<1>5. CASE ~\E c \in Cases : gone(r, c) /\ results[r][c] = "pending"
  <2>1. AllRecorded(r, results[r])
    BY <1>1, <1>5 DEF AllRecorded
  <2>2. r \in completed \cup pruned \cup overlapped
    BY <1>2, <1>3, <2>1 DEF IInv, DoneRunsComplete
  <2> QED BY <1>1, <1>2, <2>2
<1> QED BY <1>4, <1>5

LEMMA DoneNext ==
  ASSUME IInv, Next
  PROVE  DoneRunsComplete'
<1>0. /\ TypeOK /\ results \in [Runs -> [Cases -> Status]]
      /\ \A t \in Tasks : task[t] \in TaskRecord
  BY DEF IInv, TypeOK, Status
<1>1. SUFFICES \A r \in Runs : DoneComplete(r)'
  BY DEF DoneRunsComplete, DoneComplete, LiveRuns
<1>2. CASE UNCHANGED <<runVars, pruned, overlapped>>
  BY <1>2, DoneStays DEF runVars, LiveRuns
<1>3. ASSUME NEW r \in Runs, NEW s \in Suites, Inserted(r, s),
             completed \subseteq completed', UNCHANGED <<pruned, overlapped>>,
             \A q \in Runs \ {r} : results'[q] = results[q],
             \/ results'[r] = results[r]
             \/ \E C \in SUBSET Cases : results'[r] = RowsFor(C, "pending")
             \/ r \in completed'
      PROVE  \A q \in Runs : DoneComplete(q)'
  <2>1. LiveRuns' = LiveRuns \cup {r}
    BY <1>0, <1>3, InsertedTyped
  <2>2. \A c \in Cases : results[r][c] = "none"
    BY <1>3, NewRunEmpty DEF Inserted
  <2>3. DoneComplete(r)'
    BY <1>3, <2>2, DoneStays
  <2>4. \A q \in Runs \ {r} : DoneComplete(q)'
    BY <1>3, <2>1, DoneStays
  <2> QED BY <2>3, <2>4
<1>4. ASSUME NEW t \in Tasks, NEW r \in Runs, CommitRun(t, r)
      PROVE  \A q \in Runs : DoneComplete(q)'
  <2>1. PICK s \in task[t].suites : Inserted(r, s)
    BY <1>4 DEF CommitRun
  <2>2. s \in Suites /\ task[t].cases \in SUBSET Cases
    BY <1>0, <2>1 DEF TaskRecord
  <2>3. \/ results' = results
        \/ results' = [results EXCEPT ![r] = RowsFor(task[t].cases, "pending")]
    BY <1>4 DEF CommitRun
  <2>4. completed' = completed /\ UNCHANGED <<pruned, overlapped>>
    BY <1>4 DEF CommitRun, history
  <2>5. \/ results'[r] = results[r]
        \/ results'[r] = RowsFor(task[t].cases, "pending")
    BY <1>0, <2>3
  <2>6. \A q \in Runs \ {r} : results'[q] = results[q]
    BY <1>0, <2>3
  <2> QED BY <1>3, <2>1, <2>2, <2>4, <2>5, <2>6
<1>5. ASSUME NEW t \in Tasks, NEW r \in Runs, SeedRun(t, r)
      PROVE  \A q \in Runs : DoneComplete(q)'
  <2>1. PICK s \in task[t].suites : Inserted(r, s)
    BY <1>5 DEF SeedRun
  <2>2. s \in Suites
    BY <1>0, <2>1 DEF TaskRecord
  <2>3. /\ completed' = completed \cup {r} /\ UNCHANGED <<pruned, overlapped>>
        /\ \A q \in Runs \ {r} : results'[q] = results[q]
    BY <1>0, <1>5 DEF SeedRun
  <2> QED BY <1>3, <2>1, <2>2, <2>3
<1>6. ASSUME NEW t \in Tasks, Populate(t)
      PROVE  \A r \in Runs : DoneComplete(r)'
  <2>1. /\ UNCHANGED <<completed, pruned, overlapped, runOf>> /\ task[t].cases \in SUBSET Cases
        /\ \A r \in Runs : \/ results'[r] = results[r]
                           \/ results'[r] = RowsFor(task[t].cases, "pending")
    BY <1>0, <1>6 DEF Populate, history, TaskRecord
  <2>2. LiveRuns' = LiveRuns
    BY <2>1 DEF LiveRuns
  <2> QED BY <2>1, <2>2, DoneStays
<1>7. ASSUME NEW t \in Tasks, NEW p \in Projects, NEW s \in Suites,
             DemoTree(p, s), DemoRun(t, p, s)
      PROVE  \A r \in Runs : DoneComplete(r)'
  <2>1. UNCHANGED <<pruned, overlapped>>
    BY <1>7 DEF DemoTree
  <2>2. CASE UNCHANGED <<runOf, results, completed>>
    BY <1>2, <2>1, <2>2 DEF runVars
  <2>3. ASSUME NEW r \in Runs \ born, runOf' = [runOf EXCEPT ![r] = s],
               results' = [results EXCEPT ![r] =
                             RowsFor(lastCase + 1 .. lastCase', "recorded")],
               completed' = completed \cup {r}
        PROVE  \A q \in Runs : DoneComplete(q)'
    <3>1. \A q \in Runs \ {r} :
            results'[q] = results[q] /\ (q \in LiveRuns' => q \in LiveRuns)
      BY <1>0, <2>3 DEF TypeOK, LiveRuns
    <3>2. \A q \in Runs \ {r} : DoneComplete(q)'
      BY <2>1, <2>3, <3>1, DoneStays
    <3>3. DoneComplete(r)'
      BY <2>1, <2>3, DoneStays
    <3> QED BY <3>2, <3>3
  <2> QED BY <1>7, <2>2, <2>3 DEF DemoRun
<1>8. ASSUME NEW t \in Tasks, TaskOnly(t)
      PROVE  UNCHANGED <<runVars, pruned, overlapped>>
  BY <1>8, TypeOfTaskOnly DEF history
<1>9. CatalogueStep => UNCHANGED <<runVars, pruned, overlapped>>
  BY DEF CatalogueStep, CreateProject, CreateSuite, CreateCase, SetStatus, history
<1> QED BY <1>0, <1>2, <1>4, <1>5, <1>6, <1>7, <1>8, <1>9, DemoSeeded, DoneAfterDelete,
           DoneAfterUpdate DEF Next, TaskStep, TaskOnly

----------------------------------------------------------------------------
(* Updates that have judged their run *)

\* UpdatesStand of one request.
UpdateBy(t) ==
  task[t].op = "record" =>
    /\ \E r \in Runs \cap born, c \in Cases : task[t].runs = {r} /\ task[t].cases = {c}
    /\ task[t].at = "open" /\ task[t].status # task[t].was =>
         \A r \in task[t].runs \cap LiveRuns :
           AllRecorded(r, Seen(t, r)) => r \in completed \cup pruned \cup overlapped

\* A step leaves the pending rows of a run pending, or the run is named.
Keeps(r) ==
  r \in LiveRuns' =>
    /\ r \in LiveRuns
    /\ r \in completed \cup pruned \cup overlapped => r \in (completed \cup pruned \cup overlapped)'
    /\ \/ r \in (completed \cup pruned \cup overlapped)'
       \/ \A c \in Cases : results[r][c] = "pending" => results'[r][c] = "pending"

\* What an update has judged stands through steps of others that keep the run's
\* pending rows.
LEMMA UpdateStays ==
  ASSUME IInv, RunsStay, NEW t \in Tasks, task'[t] = task[t],
         task[t].op = "record" /\ task[t].at = "open" =>
           \A r \in task[t].runs \cap Runs \cap born : Keeps(r)
  PROVE  UpdateBy(t)'
<1>0. UpdateBy(t) /\ born \subseteq born'
  BY DEF IInv, UpdatesStand, UpdateBy, RunsStay
<1> SUFFICES ASSUME task[t].op = "record"
             PROVE  UpdateBy(t)'
  BY DEF UpdateBy
<1>1. PICK r \in Runs \cap born, c \in Cases : task[t].runs = {r} /\ task[t].cases = {c}
  BY <1>0 DEF UpdateBy
<1>2. ASSUME task[t].at = "open", task[t].status # task[t].was, r \in LiveRuns',
             AllRecorded(r, Seen(t, r)')
      PROVE  r \in (completed \cup pruned \cup overlapped)'
  <2>1. Keeps(r)
    BY <1>1, <1>2
  <2>2. CASE \A e \in Cases : results[r][e] = "pending" => results'[r][e] = "pending"
    <3>1. \A e \in Cases : Seen(t, r)[e] = "pending" => Seen(t, r)'[e] = "pending"
      BY <2>2 DEF Seen
    <3>2. AllRecorded(r, Seen(t, r))
      BY <1>2, <3>1 DEF AllRecorded
    <3>3. r \in completed \cup pruned \cup overlapped
      BY <1>0, <1>1, <1>2, <2>1, <3>2 DEF UpdateBy, Keeps
    <3> QED BY <1>2, <2>1, <3>3 DEF Keeps
  <2> QED BY <1>2, <2>1, <2>2 DEF Keeps
<1>3. \A q \in task'[t].runs \cap LiveRuns' : q = r
  BY <1>1
<1> QED BY <1>0, <1>1, <1>2, <1>3 DEF UpdateBy, AllRecorded

\* Every step but the commit of an update keeps every run's pending rows.
LEMMA StepsKeep ==
  ASSUME IInv, Next, ~\E t \in Tasks : CommitResult(t), NEW r \in Runs, r \in born
  PROVE  Keeps(r)
<1>0. /\ TypeOK /\ results \in [Runs -> [Cases -> Status]]
      /\ \A t \in Tasks : task[t] \in TaskRecord
  BY DEF IInv, TypeOK, Status
<1>1. CASE UNCHANGED <<runVars, history>>
  BY <1>1 DEF Keeps, runVars, history, LiveRuns
<1>2. ASSUME NEW q \in Runs, NEW s \in Suites, q \notin born,
             runOf' = [runOf EXCEPT ![q] = s],
             completed \subseteq completed', UNCHANGED <<pruned, overlapped>>,
             \A p \in Runs \ {q} : results'[p] = results[p]
      PROVE  Keeps(r)
  <2>1. r # q /\ results'[r] = results[r] /\ (r \in LiveRuns' => r \in LiveRuns)
    BY <1>0, <1>2 DEF LiveRuns, TypeOK
  <2> QED BY <1>2, <2>1 DEF Keeps
<1>3. ASSUME NEW t \in Tasks, NEW q \in Runs, CommitRun(t, q) \/ SeedRun(t, q)
      PROVE  Keeps(r)
  <2>1. PICK s \in task[t].suites : Inserted(q, s)
    BY <1>3 DEF CommitRun, SeedRun
  <2>2. s \in Suites
    BY <1>0, <2>1 DEF TaskRecord
  <2>3. completed \subseteq completed' /\ UNCHANGED <<pruned, overlapped>>
    BY <1>3 DEF CommitRun, SeedRun, history
  <2>4. \A p \in Runs \ {q} : results'[p] = results[p]
    BY <1>0, <1>3 DEF CommitRun, SeedRun
  <2> QED BY <1>2, <2>1, <2>2, <2>3, <2>4 DEF Inserted
<1>4. ASSUME NEW t \in Tasks, Populate(t)
      PROVE  Keeps(r)
  <2>1. UNCHANGED <<runOf, completed, pruned, overlapped>>
    BY <1>4 DEF Populate, history
  <2>2. \A c \in Cases : results[r][c] = "pending" => results'[r][c] = "pending"
    BY <1>4 DEF Populate, Rows
  <2> QED BY <2>1, <2>2 DEF Keeps, LiveRuns
<1>5. ASSUME NEW t \in Tasks, Delete(t)
      PROVE  Keeps(r)
  <2> DEFINE gone(q, c) == q \in task[t].runs \/ (c \in task[t].cases /\ edition = "monolith")
  <2>1. /\ runOf' = [q \in Runs |-> IF q \in task[t].runs THEN None ELSE runOf[q]]
        /\ results' = [q \in Runs |-> [c \in Cases |->
                         IF gone(q, c) THEN "none" ELSE results[q][c]]]
        /\ completed' = completed \ task[t].runs
        /\ pruned' = pruned \cup
             {q \in Runs : \E c \in Cases : gone(q, c) /\ results[q][c] = "pending"}
        /\ overlapped' = overlapped
    BY <1>5 DEF Delete
  <2>2. r \in LiveRuns' => r \in LiveRuns /\ r \notin task[t].runs
    BY <2>1 DEF LiveRuns
  <2>3. \/ r \in pruned'
        \/ \A c \in Cases : results[r][c] = "pending" => results'[r][c] = "pending"
    BY <2>1
  <2> QED BY <2>1, <2>2, <2>3 DEF Keeps
<1>6. ASSUME NEW t \in Tasks, NEW p \in Projects, NEW s \in Suites,
             DemoTree(p, s), DemoRun(t, p, s)
      PROVE  Keeps(r)
  <2>1. UNCHANGED <<pruned, overlapped, demo>>
    BY <1>6 DEF DemoTree
  <2>2. CASE UNCHANGED <<runOf, results, completed>>
    BY <2>1, <2>2 DEF Keeps, LiveRuns
  <2>3. ASSUME NEW q \in Runs \ born, runOf' = [runOf EXCEPT ![q] = s],
               results' = [results EXCEPT ![q] =
                             RowsFor(lastCase + 1 .. lastCase', "recorded")],
               completed' = completed \cup {q}
        PROVE  Keeps(r)
    BY <1>0, <1>2, <2>1, <2>3
  <2> QED BY <1>6, <2>2, <2>3 DEF DemoRun
<1>7. ASSUME NEW t \in Tasks, TaskOnly(t)
      PROVE  UNCHANGED <<runVars, history>>
  BY <1>7, TypeOfTaskOnly
<1>8. CatalogueStep => UNCHANGED <<runVars, history>>
  BY DEF CatalogueStep, CreateProject, CreateSuite, CreateCase, SetStatus
<1> QED BY <1>0, <1>1, <1>3, <1>4, <1>5, <1>6, <1>7, <1>8, DemoSeeded DEF Next, TaskStep, TaskOnly

LEMMA UpdatesStandNext ==
  ASSUME IInv, Next
  PROVE  UpdatesStand'
<1>0. /\ TaskType /\ TypeOK /\ RunsStay /\ RunsHold /\ LiveRuns \subseteq born
  BY TypeParts, Stable DEF IInv, IdsInOrder
<1>1. SUFFICES \A t \in Tasks : UpdateBy(t)'
  BY DEF UpdatesStand, UpdateBy
<1>2. ASSUME NEW t \in Tasks, CommitResult(t)
      PROVE  \A u \in Tasks : UpdateBy(u)'
  <2>1. PICK r \in Runs, c \in Cases :
          /\ r \in task[t].runs /\ task[t].at \in {"done", "open"}
          /\ \/ task[t].status = task[t].was /\ results' = results
             \/ /\ task[t].status # task[t].was
                /\ results' = [results EXCEPT ![r][c] = task[t].status]
          /\ completed' = IF task[t].at = "done" THEN completed \cup {r} ELSE completed
          /\ overlapped \subseteq overlapped'
          /\ (task[t].at = "open" /\ task[t].status # task[t].was
                /\ \E u \in Tasks \ {t} :
                     task[u].op = "record" /\ task[u].at = "open" /\ r \in task[u].runs)
               => r \in overlapped'
          /\ Ends(t) /\ UNCHANGED <<runOf, pruned>>
    BY <1>0, <1>2, Updated
  <2>2. task'[t] = Idle /\ \A u \in Tasks \ {t} : task'[u] = task[u]
    BY <1>0, <2>1, EndsTask
  <2>3. UpdateBy(t)'
    BY <2>2 DEF UpdateBy, Idle
  <2>4. ASSUME NEW u \in Tasks \ {t}, task[u].op = "record", task[u].at = "open",
               NEW q \in task[u].runs \cap Runs \cap born
        PROVE  Keeps(q)
    <3>1. completed \subseteq completed' /\ LiveRuns' = LiveRuns
      BY <2>1 DEF LiveRuns
    <3>2. CASE results'[q] = results[q]
      BY <2>1, <3>1, <3>2 DEF Keeps
    <3>3. CASE results'[q] # results[q]
      <4>1. q = r /\ task[t].status # task[t].was
        BY <1>0, <2>1, <3>3 DEF TypeOK
      <4>2. q \in completed' \/ q \in overlapped'
        BY <2>1, <2>4, <4>1
      <4> QED BY <2>1, <3>1, <4>2 DEF Keeps
    <3> QED BY <3>2, <3>3
  <2>5. ASSUME NEW u \in Tasks \ {t}
        PROVE  UpdateBy(u)'
    BY <1>0, <2>2, <2>4, UpdateStays
  <2> QED BY <2>3, <2>5
<1>3. CASE ~\E t \in Tasks : CommitResult(t)
  <2>1. ASSUME NEW u \in Tasks, task'[u] = task[u]
        PROVE  UpdateBy(u)'
    BY <1>0, <1>3, <2>1, StepsKeep, UpdateStays
  <2>2. ASSUME NEW t \in Tasks, NEW d \in TaskRecord, d.at # "idle", Goto(t, d),
               d.op # "record"
        PROVE  \A u \in Tasks : UpdateBy(u)'
    <3>1. task'[t] = d /\ \A u \in Tasks \ {t} : task'[u] = task[u]
      BY <1>0, <2>2, GoesOn
    <3>2. UpdateBy(t)'
      BY <2>2, <3>1 DEF UpdateBy
    <3> QED BY <2>1, <3>1, <3>2
  <2>3. ASSUME NEW t \in Tasks, Ends(t)
        PROVE  \A u \in Tasks : UpdateBy(u)'
    <3>1. task'[t] = Idle /\ \A u \in Tasks \ {t} : task'[u] = task[u]
      BY <1>0, <2>3, EndsTask
    <3>2. UpdateBy(t)'
      BY <3>1 DEF UpdateBy, Idle
    <3> QED BY <2>1, <3>1, <3>2
  <2>4. ASSUME NEW t \in Tasks, TaskOnly(t), ~Fails(t)
        PROVE  \A u \in Tasks : UpdateBy(u)'
    <3>1. PICK d \in TaskRecord :
            /\ Goto(t, d) /\ UNCHANGED <<edition, tree, runVars, history>> /\ d.at # "idle"
            /\ \/ d.op # "record"
               \/ \E r \in Runs, c \in Cases :
                    /\ c \in Rows(r) /\ d.op = "record" /\ d.at = "read"
                    /\ d.runs = {r} /\ d.cases = {c}
               \/ /\ task[t].op = "record" /\ d.op = "record" /\ d.at \in {"done", "open"}
                  /\ \E r \in task[t].runs : d.at = "open" => ~AllRecorded(r, Seen(t, r))
                  /\ d.runs = task[t].runs /\ d.cases = task[t].cases
                  /\ d.was = task[t].was /\ d.status = task[t].status
      BY <1>0, <2>4, Reads DEF TaskOnly
    <3>2. task'[t] = d /\ \A u \in Tasks \ {t} : task'[u] = task[u]
      BY <1>0, <3>1, GoesOn
    <3>3. UNCHANGED <<born, results>>
      BY <3>1 DEF tree, runVars
    <3>4. CASE d.op # "record"
      BY <2>2, <3>1, <3>4
    <3>5. ASSUME NEW r \in Runs, NEW c \in Cases, c \in Rows(r), d.op = "record",
                 d.at = "read", d.runs = {r}, d.cases = {c}
          PROVE  UpdateBy(t)'
      <4>1. r \in born
        BY <1>0, <3>5 DEF RunsHold
      <4> QED BY <3>2, <3>3, <3>5, <4>1 DEF UpdateBy
    <3>6. ASSUME task[t].op = "record", d.op = "record",
                 \E r \in task[t].runs : d.at = "open" => ~AllRecorded(r, Seen(t, r)),
                 d.runs = task[t].runs, d.cases = task[t].cases, d.status = task[t].status
          PROVE  UpdateBy(t)'
      <4>1. PICK r \in Runs \cap born, c \in Cases : task[t].runs = {r} /\ task[t].cases = {c}
        BY <3>6 DEF IInv, UpdatesStand
      <4>2. Seen(t, r)' = Seen(t, r)
        BY <3>2, <3>3, <3>6 DEF Seen
      <4>3. d.at = "open" => ~AllRecorded(r, Seen(t, r)')
        BY <3>6, <4>1, <4>2
      <4>4. \A q \in task'[t].runs \cap LiveRuns' : q = r
        BY <3>2, <3>6, <4>1
      <4> QED BY <3>2, <3>3, <3>6, <4>1, <4>3, <4>4 DEF UpdateBy, AllRecorded
    <3> QED BY <2>1, <3>1, <3>2, <3>4, <3>5, <3>6
  <2>5. ASSUME NEW t \in Tasks, NEW r \in Runs, CommitRun(t, r)
        PROVE  \A u \in Tasks : UpdateBy(u)'
    <3> DEFINE d == [task[t] EXCEPT !.at = "committed", !.runs = {r}]
    <3>1. CASE edition = "monolith"
      BY <2>3, <2>5, <3>1 DEF CommitRun
    <3>2. CASE edition # "monolith"
      <4>1. task[t] \in TaskRecord /\ task[t].op = "run" /\ Goto(t, d)
        BY <1>0, <2>5, <3>2 DEF CommitRun, TaskType
      <4>2. d \in TaskRecord /\ d.at # "idle" /\ d.op # "record"
        BY <1>0, <4>1 DEF TaskRecord
      <4> QED BY <2>2, <4>1, <4>2
    <3> QED BY <3>1, <3>2
  <2>6. ASSUME NEW t \in Tasks, NEW p \in Projects, NEW s \in Suites, DemoRun(t, p, s)
        PROVE  \A u \in Tasks : UpdateBy(u)'
    <3> DEFINE d == [Idle EXCEPT !.op = "seed", !.at = "posted", !.suites = {s}]
    <3>1. d \in TaskRecord /\ d.at # "idle" /\ d.op # "record"
      BY DEF Idle, TaskRecord
    <3>2. task' = task \/ Goto(t, d)
      BY <2>6 DEF DemoRun
    <3> QED BY <2>1, <2>2, <3>1, <3>2
  <2>7. ASSUME NEW t \in Tasks,
               Delete(t) \/ Populate(t) \/ Fails(t) \/ \E r \in Runs : SeedRun(t, r)
        PROVE  \A u \in Tasks : UpdateBy(u)'
    BY <2>3, <2>7 DEF Delete, Populate, Fails, SeedRun
  <2>8. CASE CatalogueStep
    <3>1. task' = task
      BY <2>8, TypeOfCreations
    <3> QED BY <2>1, <3>1
  <2> QED BY <1>0, <1>3, <2>4, <2>5, <2>6, <2>7, <2>8, DemoSeeded DEF Next, TaskStep, TaskOnly
<1> QED BY <1>2, <1>3

----------------------------------------------------------------------------
(* The theorems *)

LEMMA InitIInv == Init => IInv
<1> SUFFICES ASSUME Init PROVE IInv
  OBVIOUS
<1>1. TypeOK
  BY TypeInit
<1>2. LiveSuites = {} /\ LiveCases = {} /\ LiveRuns = {}
  BY DEF Init, LiveSuites, LiveCases, LiveRuns
<1>3. \A r \in Runs : Rows(r) = {}
  BY DEF Init, Rows, NoRows
<1>4. \A t \in Tasks : task[t].op = "none"
  BY DEF Init, Idle
<1> QED BY <1>1, <1>2, <1>3, <1>4
        DEF IInv, TreeHolds, RunsHold, IdsInOrder, RunsApart, FetchedStands, UpdatesStand,
            DoneRunsComplete

LEMMA NextIInv ==
  ASSUME IInv, [Next]_vars
  PROVE  IInv'
<1>1. CASE Next
  BY <1>1, TypeNext, TreeHoldsNext, RunsHoldNext, RunsApartNext, FetchedStandsNext,
     UpdatesStandNext, DoneNext DEF IInv
<1>2. CASE UNCHANGED vars
  <2>1. TypeOK'
    BY TypeNext
  <2>2. UNCHANGED <<edition, born, lastCase, projects, projectOf, suiteOf, runOf,
                    results, completed, task, pruned, demo, overlapped>>
    BY <1>2 DEF vars, tree, runVars, history
  <2>3. TreeHolds'
    BY <2>2 DEF IInv, TreeHolds, LiveSuites, LiveCases
  <2>4. RunsHold' /\ IdsInOrder' /\ DoneRunsComplete'
    BY <2>2 DEF IInv, RunsHold, IdsInOrder, DoneRunsComplete, LiveSuites, LiveCases,
                LiveRuns, Rows, AllRecorded
  <2>5. RunsApart' /\ FetchedStands'
    BY <2>2 DEF IInv, RunsApart, FetchedStands, LiveCases, LiveRuns
  <2>6. UpdatesStand'
    BY <2>2 DEF IInv, UpdatesStand, AllRecorded, Seen, LiveRuns
  <2> QED BY <2>1, <2>3, <2>4, <2>5, <2>6 DEF IInv
<1> QED BY <1>1, <1>2

LEMMA Invariant == Spec => []IInv
BY InitIInv, NextIInv, PTL DEF Spec

\* Catalogue is type correct.
THEOREM TypeCorrect == Spec => []TypeOK
<1>1. IInv => TypeOK
  BY DEF IInv
<1> QED BY <1>1, Invariant, PTL

\* However deletions overlap with creations and with run requests, no row refers
\* to one that is gone from its database, or to a row of another suite.
THEOREM AlwaysConsistent == Spec => []Consistent
<1>1. IInv => Consistent
  BY DEF IInv, Consistent
<1> QED BY <1>1, Invariant, PTL

\* A run whose rows are all recorded is completed, unless it lost a pending row with
\* a deleted test case, or two updates of it overlapped that each saw another row
\* pending (_apply_result_update).
THEOREM DoneRunsAreComplete == Spec => []DoneRunsComplete
<1>1. IInv => DoneRunsComplete
  BY DEF IInv
<1> QED BY <1>1, Invariant, PTL

============================================================================
