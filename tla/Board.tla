------------------------------- MODULE Board --------------------------------
(***************************************************************************)
(* The tables that statistics and GraphQL requests read: the test cases of *)
(* a suite, its runs and their results, and the REST handlers of           *)
(* api/main.py by which other requests change them meanwhile, each one     *)
(* commit.  Catalogue and ResultUpdates have those handlers in detail.     *)
(*                                                                         *)
(* Runs are numbered in the order of their created_at; a run and a case    *)
(* get an id once (PostgreSQL).                                            *)
(***************************************************************************)
EXTENDS Naturals, Sequences, FiniteSetsExt

CONSTANTS
  Cases,    \* test cases there may ever be
  Runs,     \* runs there may ever be: 1..n
  MaxWrites \* bound: changes by other requests

Statuses == {"pending", "pass", "fail", "skip"}
NoRow == "none"
CaseStates == {"unborn", "draft", "active", "deleted"}

ASSUME BoardAssumption ==
  /\ IsFiniteSet(Cases)
  /\ IsFiniteSet(Runs) /\ Runs = 1..Cardinality(Runs)
  /\ MaxWrites \in Nat

\* What the tables may hold.
Boards ==
  {b \in [cases : [Cases -> CaseStates], results : Seq([Cases -> Statuses \cup {NoRow}]),
          completed : SUBSET Runs] :
     DOMAIN b.results \subseteq Runs /\ b.completed \subseteq DOMAIN b.results}

VARIABLES
  cases,     \* the status of each test case
  results,   \* the rows of each run, oldest run first
  completed, \* runs with a completed_at
  writes     \* changes by other requests so far

tables == <<cases, results, completed>>
board == <<tables, writes>>

BoardInit(B) ==
  /\ \E b \in B :
       cases = b.cases /\ results = b.results /\ completed = b.completed
  /\ writes = 0

LiveCases == {c \in Cases : cases[c] \in {"draft", "active"}}
Existing == DOMAIN results
Rows(r) == {c \in Cases : results[r][c] # NoRow}
Recorded(rows) == \A c \in Cases : rows[c] # "pending"

\* create_testcase
InsertCase(c, status) ==
  /\ cases[c] = "unborn"
  /\ cases' = [cases EXCEPT ![c] = status]
  /\ UNCHANGED <<results, completed>>

\* delete_testcase; in the monolith the results go with it.
DeleteCase(c, edition) ==
  /\ c \in LiveCases
  /\ cases' = [cases EXCEPT ![c] = "deleted"]
  /\ results' = IF edition = "services" THEN results
                ELSE [r \in Existing |-> [results[r] EXCEPT ![c] = NoRow]]
  /\ UNCHANGED completed

RowsToRun == [c \in Cases |-> IF cases[c] = "active" THEN "pending" ELSE NoRow]
NoRows == [c \in Cases |-> NoRow]

\* create_run: a pending row for every active case, in the services edition later.
InsertRun(edition) ==
  /\ Len(results) + 1 \in Runs
  /\ results' = Append(results, IF edition = "services" THEN NoRows ELSE RowsToRun)
  /\ UNCHANGED <<cases, completed>>

PopulateRun(r, edition) ==
  /\ edition = "services" /\ results[r] = NoRows
  /\ results' = [results EXCEPT ![r] = RowsToRun]
  /\ UNCHANGED <<cases, completed>>

\* update_result by a request of its own.
Record(r, c, status) ==
  /\ c \in Rows(r)
  /\ results' = [results EXCEPT ![r][c] = status]
  /\ completed' = IF Recorded(results'[r]) THEN completed \cup {r} ELSE completed
  /\ UNCHANGED cases

\* A request of somebody else.
OtherRequest(edition) ==
  /\ writes < MaxWrites
  /\ writes' = writes + 1
  /\ \/ \E c \in Cases, s \in {"draft", "active"} : InsertCase(c, s)
     \/ \E c \in Cases : DeleteCase(c, edition)
     \/ InsertRun(edition)
     \/ \E r \in Existing : PopulateRun(r, edition)
     \/ \E r \in Existing, c \in Cases, s \in Statuses : Record(r, c, s)

BoardTypeOK ==
  /\ cases \in [Cases -> CaseStates]
  /\ results \in Seq([Cases -> Statuses \cup {NoRow}])
  /\ Existing \subseteq Runs
  /\ completed \subseteq Runs
  /\ writes \in 0..MaxWrites

=============================================================================
