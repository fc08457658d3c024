----------------------------- MODULE Catalogue -----------------------------
(***************************************************************************)
(* Projects, suites, test cases and runs: how they are created and deleted *)
(* while others create, delete and record.                                 *)
(*                                                                         *)
(* In the monolith all of them are in one database with foreign keys; a    *)
(* deletion loads what is below (the ORM's cascades), deletes that and     *)
(* commits, and the database refuses it when a row it did not load still   *)
(* refers to one it deletes.  In the services edition the runs are in a    *)
(* database of their own, which knows suites and cases only as numbers.    *)
(*                                                                         *)
(* The database is PostgreSQL at READ COMMITTED: an id is given once.      *)
(* An update of a result reads its row, judges the run by the rows there   *)
(* are and commits, in three steps; ResultUpdates has what follows it, and *)
(* RunPopulation the population of a run.                                  *)
(***************************************************************************)
EXTENDS Naturals, FiniteSets

CONSTANTS
  Projects, Suites, Runs,   \* ids to give to rows
  MaxCases,       \* bound: test cases ever inserted; their ids are 1, 2, ...
  DefaultCount,   \* rows of a demo run when the projects service is silent
  Tasks,          \* requests that go on at the same time
  None            \* no row

Cases == 1 .. MaxCases

ASSUME CatalogueAssumption ==
  /\ MaxCases \in Nat
  /\ DefaultCount \in Nat
  /\ None \notin Projects \cup Suites

VARIABLES
  edition,    \* "monolith" or "services"
  born,       \* projects, suites and runs inserted so far
  lastCase,   \* the last id given to a test case
  projects,   \* the projects there are
  projectOf,  \* the project of each suite, None if there is no such suite
  suiteOf,    \* the suite of each test case, None if there is no such case
  active,     \* the test cases whose status is active
  runOf,      \* the suite of each run, None if there is no such run
  results,    \* the rows of each run: status of each case, "none" if no row
  completed,  \* the runs with a completed_at
  task,       \* where each request is and what it has read
  pruned,     \* history: runs that lost a pending row with its test case
  demo,       \* history: runs the runs service has seeded for demos
  overlapped  \* history: runs of which two updates were committed after each had
              \* judged, without the other's row, that one is pending

tree == <<born, lastCase, projects, projectOf, suiteOf, active>>
runVars == <<runOf, results, completed>>
history == <<pruned, demo, overlapped>>
vars == <<edition, tree, runVars, task, history>>

Idle == [op |-> "none", at |-> "idle", projects |-> {}, suites |-> {},
         cases |-> {}, runs |-> {}, readers |-> {}, was |-> "none", status |-> "none"]

NoRows == [c \in Cases |-> "none"]

Init ==
  /\ edition \in {"monolith", "services"}
  /\ born = {}
  /\ lastCase = 0
  /\ projects = {}
  /\ projectOf = [s \in Suites |-> None]
  /\ suiteOf = [c \in Cases |-> None]
  /\ active = {}
  /\ runOf = [r \in Runs |-> None]
  /\ results = [r \in Runs |-> NoRows]
  /\ completed = {}
  /\ task = [t \in Tasks |-> Idle]
  /\ pruned = {}
  /\ demo = {}
  /\ overlapped = {}

LiveSuites == {s \in Suites : projectOf[s] # None}
LiveCases == {c \in Cases : suiteOf[c] # None}
LiveRuns == {r \in Runs : runOf[r] # None}
SuitesOf(P) == {s \in LiveSuites : projectOf[s] \in P}
CasesOf(S) == {c \in LiveCases : suiteOf[c] \in S}
RunsOf(S) == {r \in LiveRuns : runOf[r] \in S}

Rows(r) == {c \in Cases : results[r][c] # "none"}
Readers(C) == {r \in LiveRuns : Rows(r) \cap C # {}}

Goto(t, rec) == task' = [task EXCEPT ![t] = rec]

Ends(t) == Goto(t, Idle)

----------------------------------------------------------------------------
(* Creation and change *)

CreateProject(p) ==
  /\ p \notin born
  /\ born' = born \cup {p}
  /\ projects' = projects \cup {p}
  /\ UNCHANGED <<edition, lastCase, projectOf, suiteOf, active, runVars, task, history>>

\* The project exists, when asked (404) and at the commit (its foreign key).
CreateSuite(p, s) ==
  /\ p \in projects /\ s \notin born
  /\ born' = born \cup {s}
  /\ projectOf' = [projectOf EXCEPT ![s] = p]
  /\ UNCHANGED <<edition, lastCase, projects, suiteOf, active, runVars, task, history>>

\* create_testcase, or one case of save_generated.
CreateCase(s) ==
  /\ s \in LiveSuites /\ lastCase < MaxCases
  /\ lastCase' = lastCase + 1
  /\ suiteOf' = [suiteOf EXCEPT ![lastCase + 1] = s]
  /\ active' \in {active, active \cup {lastCase + 1}}
  /\ UNCHANGED <<edition, born, projects, projectOf, runVars, task, history>>

\* update_testcase: the status; the other fields matter to nothing here.
SetStatus(c) ==
  /\ c \in LiveCases
  /\ active' \in {active \cup {c}, active \ {c}}
  /\ UNCHANGED <<edition, born, lastCase, projects, projectOf, suiteOf, runVars,
                 task, history>>

----------------------------------------------------------------------------
(* Deletion *)

\* What is loaded to delete projects P, suites S and cases C, and what is below.
Loaded(P, S, C) ==
  LET allSuites == S \cup SuitesOf(P)
      allCases == C \cup CasesOf(allSuites)
  IN [Idle EXCEPT !.op = "delete", !.at = "loaded",
        !.projects = P, !.suites = allSuites, !.cases = allCases,
        !.runs = IF edition = "monolith" THEN RunsOf(allSuites) ELSE {},
        !.readers = IF edition = "monolith" THEN Readers(allCases) ELSE {}]

LoadDeletion(t) ==
  /\ task[t].at = "idle"
  /\ \/ \E p \in projects : Goto(t, Loaded({p}, {}, {}))
     \/ \E s \in LiveSuites : Goto(t, Loaded({}, {s}, {}))
     \/ \E c \in LiveCases : Goto(t, Loaded({}, {}, {c}))
  /\ UNCHANGED <<edition, tree, runVars, history>>

\* Variant: the database has no foreign keys.
CoversAnything(d) == TRUE

\* No row that is left refers to a row that goes: the foreign keys.
Covers(d) ==
  /\ SuitesOf(d.projects) \subseteq d.suites
  /\ CasesOf(d.suites) \subseteq d.cases
  /\ edition = "monolith" => /\ RunsOf(d.suites) \subseteq d.runs
                             /\ Readers(d.cases) \subseteq d.readers

Delete(t) ==
  LET d == task[t]
      gone(r, c) == r \in d.runs \/ (c \in d.cases /\ edition = "monolith")
  IN
  /\ d.op = "delete"
  /\ Covers(d)
  /\ projects' = projects \ d.projects
  /\ projectOf' = [s \in Suites |-> IF s \in d.suites THEN None ELSE projectOf[s]]
  /\ suiteOf' = [c \in Cases |-> IF c \in d.cases THEN None ELSE suiteOf[c]]
  /\ active' = active \ d.cases
  /\ runOf' = [r \in Runs |-> IF r \in d.runs THEN None ELSE runOf[r]]
  /\ results' = [r \in Runs |-> [c \in Cases |->
                   IF gone(r, c) THEN "none" ELSE results[r][c]]]
  /\ completed' = completed \ d.runs
  /\ pruned' = pruned \cup
       {r \in Runs : \E c \in Cases : gone(r, c) /\ results[r][c] = "pending"}
  /\ Ends(t)
  /\ UNCHANGED <<edition, born, lastCase, demo, overlapped>>

----------------------------------------------------------------------------
(* Runs *)

Inserted(r, s) ==
  /\ r \notin born
  /\ born' = born \cup {r}
  /\ runOf' = [runOf EXCEPT ![r] = s]

RowsFor(C, status) == [c \in Cases |-> IF c \in C THEN status ELSE "none"]

ActiveOf(s) == CasesOf({s}) \cap active

\* create_run reads the suite's active cases.  The monolith looks for the suite
\* first; the projects service answers with no cases for one that is gone, so that
\* the run is made all the same.
AskRun(t, s) ==
  /\ task[t].at = "idle"
  /\ IF edition = "monolith" THEN s \in LiveSuites ELSE s \in born
  /\ Goto(t, [Idle EXCEPT !.op = "run", !.at = "fetched", !.suites = {s},
                          !.cases = ActiveOf(s)])
  /\ UNCHANGED <<edition, tree, runVars, history>>

\* Monolith: run and rows are one transaction, whose foreign keys need the suite
\* and each case; that its flushed run makes deletions of the suite wait gives the
\* outcome of one order or the other.
\* Services: the run is committed alone.
CommitRun(t, r) ==
  /\ task[t].op = "run" /\ task[t].at = "fetched"
  /\ \E s \in task[t].suites : Inserted(r, s)
  /\ IF edition = "monolith"
     THEN /\ task[t].suites \subseteq LiveSuites
          /\ task[t].cases \subseteq LiveCases
          /\ results' = [results EXCEPT ![r] = RowsFor(task[t].cases, "pending")]
          /\ Ends(t)
     ELSE /\ UNCHANGED results
          /\ Goto(t, [task[t] EXCEPT !.at = "committed", !.runs = {r}])
  /\ UNCHANGED <<edition, lastCase, projects, projectOf, suiteOf, active, completed,
                 history>>

\* Services: the worker, or the request, inserts the rows of the run if it has none.
Populate(t) ==
  /\ task[t].op = "run" /\ task[t].at = "committed"
  /\ results' = [r \in Runs |-> IF r \in task[t].runs /\ Rows(r) = {}
                                THEN RowsFor(task[t].cases, "pending")
                                ELSE results[r]]
  /\ Ends(t)
  /\ UNCHANGED <<edition, tree, runOf, completed, history>>

----------------------------------------------------------------------------
(* Results *)

AllRecorded(r, rows) == \A c \in Cases : rows[c] # "pending"

\* _apply_result_update reads the row it sets to a status.
ReadResult(t, r, c) ==
  /\ task[t].at = "idle"
  /\ c \in Rows(r)
  /\ \E status \in {"pending", "recorded"} :
       Goto(t, [Idle EXCEPT !.op = "record", !.at = "read", !.runs = {r}, !.cases = {c},
                            !.was = results[r][c], !.status = status])
  /\ UNCHANGED <<edition, tree, runVars, history>>

\* Variant: completion is judged without the new status.
Before(t, r) == results[r]

\* The rows as the update sees them: its own is in its session, with the new status.
Seen(t, r) == [c \in Cases |-> IF c \in task[t].cases THEN task[t].status ELSE results[r][c]]

\* It reads the run's rows: the run is done if none is pending.
JudgeRun(t) ==
  /\ task[t].op = "record" /\ task[t].at = "read"
  /\ \E r \in task[t].runs :
       Goto(t, [task[t] EXCEPT !.at = IF AllRecorded(r, Seen(t, r)) THEN "done" ELSE "open"])
  /\ UNCHANGED <<edition, tree, runVars, history>>

\* It commits: the UPDATE sets the status where that is not as it was read, and the
\* run's completed_at if the run was found done; it fails if a row is gone.
CommitResult(t) ==
  LET d == task[t]
      Open(u, r) == task[u].op = "record" /\ task[u].at = "open" /\ r \in task[u].runs
  IN
  /\ d.op = "record" /\ d.at \in {"done", "open"}
  /\ \E r \in d.runs : \E c \in d.cases :
       /\ c \in Rows(r)
       /\ results' = IF d.status = d.was THEN results
                     ELSE [results EXCEPT ![r][c] = d.status]
       /\ completed' = IF d.at = "done" THEN completed \cup {r} ELSE completed
       /\ overlapped' = IF d.at = "open" /\ d.status # d.was /\ \E u \in Tasks \ {t} : Open(u, r)
                        THEN overlapped \cup {r} ELSE overlapped
  /\ Ends(t)
  /\ UNCHANGED <<edition, tree, runOf, pruned, demo>>

----------------------------------------------------------------------------
(* Demo projects; here of one suite, all of its cases active *)

\* Monolith: a project, its suite, its cases and a finished run, in one commit.
\* Services: without the run, which another service is then asked for.
SeedDemo(t, p, s, n) ==
  LET new == lastCase + 1 .. lastCase + n IN
  /\ task[t].at = "idle"
  /\ p \notin born /\ s \notin born
  /\ lastCase + n <= MaxCases
  /\ lastCase' = lastCase + n
  /\ projects' = projects \cup {p}
  /\ projectOf' = [projectOf EXCEPT ![s] = p]
  /\ suiteOf' = [c \in Cases |-> IF c \in new THEN s ELSE suiteOf[c]]
  /\ active' = active \cup new
  /\ IF edition = "monolith"
     THEN \E r \in Runs \ born :
            /\ born' = born \cup {p, s, r}
            /\ runOf' = [runOf EXCEPT ![r] = s]
            /\ results' = [results EXCEPT ![r] = RowsFor(new, "recorded")]
            /\ completed' = completed \cup {r}
            /\ UNCHANGED task
     ELSE /\ born' = born \cup {p, s}
          /\ Goto(t, [Idle EXCEPT !.op = "seed", !.at = "posted", !.suites = {s}])
          /\ UNCHANGED runVars
  /\ UNCHANGED <<edition, history>>

\* The runs service counts the active cases, or does not reach the projects
\* service; with none there is nothing to seed.  It numbers the cases 1, 2, ...
\* (here up to MaxCases), whichever suite they are of.
CountDemo(t) ==
  /\ task[t].op = "seed" /\ task[t].at = "posted"
  /\ \E s \in task[t].suites : \E n \in {Cardinality(ActiveOf(s)), DefaultCount} :
       /\ n > 0
       /\ Goto(t, [task[t] EXCEPT !.at = "fetched", !.cases = Cases \cap 1 .. n])
  /\ UNCHANGED <<edition, tree, runVars, history>>

SeedRun(t, r) ==
  /\ task[t].op = "seed" /\ task[t].at = "fetched"
  /\ \E s \in task[t].suites : Inserted(r, s)
  /\ results' = [results EXCEPT ![r] = RowsFor(task[t].cases, "recorded")]
  /\ completed' = completed \cup {r}
  /\ demo' = demo \cup {r}
  /\ Ends(t)
  /\ UNCHANGED <<edition, lastCase, projects, projectOf, suiteOf, active, pruned, overlapped>>

----------------------------------------------------------------------------
\* A request is refused, fails or dies before its next commit.  In the monolith
\* that is also what a test case with an embedding does to its deletion.
Fails(t) ==
  /\ task[t].at # "idle"
  /\ Ends(t)
  /\ UNCHANGED <<edition, tree, runVars, history>>

CatalogueStep ==
  \/ \E p \in Projects : CreateProject(p)
  \/ \E p \in Projects, s \in Suites : CreateSuite(p, s)
  \/ \E s \in Suites : CreateCase(s)
  \/ \E c \in Cases : SetStatus(c)

TaskStep(t) ==
  \/ LoadDeletion(t) \/ Delete(t)
  \/ \E s \in Suites : AskRun(t, s)
  \/ \E r \in Runs : CommitRun(t, r)
  \/ Populate(t)
  \/ \E r \in Runs, c \in Cases : ReadResult(t, r, c)
  \/ JudgeRun(t) \/ CommitResult(t)
  \/ \E p \in Projects, s \in Suites, n \in Cases : SeedDemo(t, p, s, n)
  \/ CountDemo(t)
  \/ \E r \in Runs : SeedRun(t, r)
  \/ Fails(t)

Next == CatalogueStep \/ \E t \in Tasks : TaskStep(t)

Spec == Init /\ [][Next]_vars

----------------------------------------------------------------------------
(* What is checked *)

TaskRecord ==
  [op : {"none", "delete", "run", "record", "seed"},
   at : {"idle", "loaded", "fetched", "committed", "read", "done", "open", "posted"},
   projects : SUBSET Projects, suites : SUBSET Suites, cases : SUBSET Cases,
   runs : SUBSET Runs, readers : SUBSET Runs,
   was : {"none", "pending", "recorded"}, status : {"none", "pending", "recorded"}]

TypeOK ==
  /\ edition \in {"monolith", "services"}
  /\ born \subseteq Projects \cup Suites \cup Runs
  /\ lastCase \in 0 .. MaxCases
  /\ projects \subseteq Projects \cap born
  /\ projectOf \in [Suites -> Projects \cup {None}]
  /\ suiteOf \in [Cases -> Suites \cup {None}]
  /\ active \subseteq LiveCases
  /\ runOf \in [Runs -> Suites \cup {None}]
  /\ results \in [Runs -> [Cases -> {"none", "pending", "recorded"}]]
  /\ completed \subseteq LiveRuns
  /\ task \in [Tasks -> TaskRecord]
  /\ \A t \in Tasks : task[t].at = "idle" <=> task[t] = Idle
  /\ pruned \subseteq Runs /\ demo \subseteq Runs /\ overlapped \subseteq Runs

\* A suite is in a project that is there, and a case in a suite that is there.
TreeHolds ==
  /\ \A s \in LiveSuites : projectOf[s] \in projects
  /\ \A c \in LiveCases : suiteOf[c] \in LiveSuites

\* A run's rows are of cases of its suite.  In the monolith both are there, in
\* the services edition the case may be gone, and runs seeded for demos have
\* rows of any suite's cases.
RunsHold ==
  \A r \in Runs :
    /\ edition = "monolith" /\ r \in LiveRuns => runOf[r] \in LiveSuites
    /\ \A c \in Rows(r) :
         /\ r \in LiveRuns
         /\ \/ suiteOf[c] = runOf[r]
            \/ edition = "services" /\ (c \notin LiveCases \/ r \in demo)

\* However deletions overlap with creations, nothing refers to a row that is
\* gone (within one database) or to a row of another suite.
Consistent == TreeHolds /\ RunsHold

\* A run whose rows are all recorded is completed, whatever was deleted, populated and
\* updated meanwhile, with two exceptions that the code has: its last pending row went
\* with a deleted test case, or two updates of it overlapped and each still saw the
\* other's row pending; nobody judges the run then (_apply_result_update).
DoneRunsComplete ==
  \A r \in LiveRuns :
    Rows(r) # {} /\ AllRecorded(r, results[r]) => r \in completed \cup pruned \cup overlapped

----------------------------------------------------------------------------
(* What the proofs need besides *)

\* Whatever refers to a run or to a test case refers to one that was inserted
\* before, except for the rows of demo runs.
IdsInOrder ==
  /\ LiveRuns \subseteq born
  /\ \A c \in LiveCases : c <= lastCase
  /\ \A r \in Runs \ demo : \A c \in Rows(r) : c <= lastCase

\* Only the services edition seeds by request and populates after the commit, and
\* there a deletion reaches no runs.
RunsApart ==
  \A t \in Tasks :
    /\ task[t].op = "seed" => edition = "services"
    /\ task[t].op = "run" /\ task[t].at = "committed" => edition = "services"
    /\ task[t].op = "delete" /\ edition = "services" => task[t].runs = {}

\* An update is of one row of a run that was there; found open, it leaves a row
\* pending, unless another that was found open is committed before it.
UpdatesStand ==
  \A t \in Tasks : task[t].op = "record" =>
    /\ \E r \in Runs \cap born, c \in Cases : task[t].runs = {r} /\ task[t].cases = {c}
    /\ task[t].at = "open" /\ task[t].status # task[t].was =>
         \A r \in task[t].runs \cap LiveRuns :
           AllRecorded(r, Seen(t, r)) => r \in completed \cup pruned \cup overlapped

\* What create_run has read holds until it is used, but for deleted test cases.
FetchedStands ==
  \A t \in Tasks : task[t].op = "run" =>
    /\ \A s1, s2 \in task[t].suites : s1 = s2
    /\ \A c \in task[t].cases :
         c <= lastCase /\ (c \in LiveCases => suiteOf[c] \in task[t].suites)
    /\ task[t].at = "committed" =>
         \A r \in task[t].runs : r \in LiveRuns /\ runOf[r] \in task[t].suites

============================================================================
