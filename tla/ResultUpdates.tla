--------------------------- MODULE ResultUpdates ---------------------------
(***************************************************************************)
(* Concurrent result updates of one populated run: update_result and       *)
(* _apply_result_update, in services/runs/main.py and in the monolith's    *)
(* api/main.py.                                                            *)
(*                                                                         *)
(* An update is one transaction at READ COMMITTED that takes no lock: it   *)
(* loads its row, loads the run, loads all the rows to decide whether the  *)
(* run is complete, and commits.  SQLAlchemy keeps its own pending change  *)
(* visible to itself and writes only the columns whose value changed.      *)
(* After the commit everything is read again from the database: the row    *)
(* (refresh), then, in the services edition, the other rows one by one.    *)
(***************************************************************************)
EXTENDS Naturals, FiniteSets

CONSTANTS
  Cases,      \* the test cases of the run, one row each
  Users,      \* who updates results at the same time
  NoCase,     \* what a user without an update in progress updates
  Editions,   \* editions to consider: "services", "monolith"
  MaxUpdates  \* bound: updates begun and committed in a behaviour

ASSUME UpdatesAssumption ==
  /\ Cases # {} /\ IsFiniteSet(Cases)
  /\ NoCase \notin Cases
  /\ Editions \subseteq {"services", "monolith"}
  /\ MaxUpdates \in Nat

Verdicts == {"pass", "fail", "skip"}
Statuses == {"pending"} \cup Verdicts

VARIABLES
  edition,    \* the code base that serves the run
  status,     \* the committed TestResult.status of each case
  completed,  \* how many commits wrote TestRun.completed_at
  version,    \* commits so far
  at,         \* where each user's update is
  target,     \* the case it updates
  wanted,     \* payload.status
  seen,       \* its row's status as last read
  began,      \* the version at its first read
  sawDone,    \* it read a run with completed_at set
  judged,     \* its run_completed
  tally,      \* the statuses it has counted
  alerted,    \* cases for which alert.triggered was published
  events,     \* the counts of the run.completed events published
  unsent,     \* history: cases whose notifications a fault swallowed
  stale,      \* history: an update committed after another that it had not seen
  reopened    \* history: a result was set back to "pending"

localVars == <<target, wanted, seen, began, sawDone, judged, tally>>
database == <<status, completed, version, stale, reopened>>
published == <<alerted, events>>
vars == <<edition, database, at, localVars, published, unsent>>

Steps == {"idle", "loaded", "runRead", "judged", "committed", "refreshed",
          "counting"}

Unread == "unread"
Uncounted == [c \in Cases |-> Unread]

Init ==
  /\ edition \in Editions
  /\ status = [c \in Cases |-> "pending"]
  /\ completed = 0
  /\ version = 0
  /\ at = [u \in Users |-> "idle"]
  /\ target = [u \in Users |-> NoCase]
  /\ wanted = [u \in Users |-> "pending"]
  /\ seen = [u \in Users |-> "pending"]
  /\ began = [u \in Users |-> 0]
  /\ sawDone = [u \in Users |-> FALSE]
  /\ judged = [u \in Users |-> FALSE]
  /\ tally = [u \in Users |-> Uncounted]
  /\ alerted = {}
  /\ events = {}
  /\ unsent = {}
  /\ stale = FALSE
  /\ reopened = FALSE

Goto(u, place) == at' = [at EXCEPT ![u] = place]

\* The request is over and its session gone.
Leave(u) ==
  /\ Goto(u, "idle")
  /\ target' = [target EXCEPT ![u] = NoCase]
  /\ wanted' = [wanted EXCEPT ![u] = "pending"]
  /\ seen' = [seen EXCEPT ![u] = "pending"]
  /\ began' = [began EXCEPT ![u] = 0]
  /\ sawDone' = [sawDone EXCEPT ![u] = FALSE]
  /\ judged' = [judged EXCEPT ![u] = FALSE]
  /\ tally' = [tally EXCEPT ![u] = Uncounted]

Busy == {u \in Users : at[u] # "idle"}

----------------------------------------------------------------------------
(* _apply_result_update *)

\* The row of the case is loaded and changed in memory.  (A case without a row
\* is answered 404 and nothing changes.)
Load(u) ==
  /\ at[u] = "idle"
  /\ version + Cardinality(Busy) < MaxUpdates
  /\ Goto(u, "loaded")
  /\ \E c \in Cases, s \in Statuses :
       /\ target' = [target EXCEPT ![u] = c]
       /\ wanted' = [wanted EXCEPT ![u] = s]
       /\ seen' = [seen EXCEPT ![u] = status[c]]
  /\ began' = [began EXCEPT ![u] = version]
  /\ UNCHANGED <<edition, database, sawDone, judged, tally, published, unsent>>

ReadRun(u) ==
  /\ at[u] = "loaded"
  /\ Goto(u, "runRead")
  /\ sawDone' = [sawDone EXCEPT ![u] = completed > 0]
  /\ UNCHANGED <<edition, database, target, wanted, seen, began, judged, tally,
                 published, unsent>>

\* Variant: the rows are judged as committed, without the change in memory.
JudgeCommitted(u) ==
  /\ at[u] = "runRead"
  /\ Goto(u, "judged")
  /\ judged' = [judged EXCEPT ![u] = \A c \in Cases : status[c] # "pending"]
  /\ UNCHANGED <<edition, database, target, wanted, seen, began, sawDone, tally,
                 published, unsent>>

\* run_completed: the other rows as committed, its own as changed in memory.
Judge(u) ==
  /\ at[u] = "runRead"
  /\ Goto(u, "judged")
  /\ judged' = [judged EXCEPT ![u] =
                  \A c \in Cases :
                    (IF c = target[u] THEN wanted[u] ELSE status[c]) # "pending"]
  /\ UNCHANGED <<edition, database, target, wanted, seen, began, sawDone, tally,
                 published, unsent>>

\* Variant: every update of a run without a completed_at stamps it.
StampsUnjudged(u) == ~sawDone[u]

\* services: only a run without a completed_at gets one; monolith: always.
StampsCompletion(u) ==
  judged[u] /\ (edition = "services" => ~sawDone[u])

Commit(u) ==
  /\ at[u] = "judged"
  /\ Goto(u, "committed")
  /\ version' = version + 1
  /\ completed' = IF StampsCompletion(u) THEN completed + 1 ELSE completed
  /\ status' = IF wanted[u] = seen[u] THEN status
               ELSE [status EXCEPT ![target[u]] = wanted[u]]
  /\ stale' = (stale \/ began[u] # version)
  /\ reopened' = (reopened \/ \E c \in Cases :
                               status[c] # "pending" /\ status'[c] = "pending")
  /\ UNCHANGED <<edition, localVars, published, unsent>>

\* db.refresh(result).  The monolith has then only the broadcast left.
Refresh(u) ==
  /\ at[u] = "committed"
  /\ IF edition = "monolith" THEN Leave(u) ELSE
       /\ Goto(u, "refreshed")
       /\ seen' = [seen EXCEPT ![u] = status[target[u]]]
       /\ UNCHANGED <<target, wanted, began, sawDone, judged, tally>>
  /\ UNCHANGED <<edition, database, published, unsent>>

\* Variant: an update that failed a result publishes no counts.
AfterAlertElse(u) ==
  IF ~judged[u] \/ seen[u] = "fail" THEN Leave(u) ELSE
    /\ Goto(u, "counting")
    /\ tally' = [tally EXCEPT ![u][target[u]] = seen[u]]
    /\ UNCHANGED <<target, wanted, seen, began, sawDone, judged>>

\* What follows the alert: the counts of a completed run, or the end.
AfterAlert(u) ==
  IF ~judged[u] THEN Leave(u) ELSE
    /\ Goto(u, "counting")
    /\ tally' = [tally EXCEPT ![u][target[u]] = seen[u]]
    /\ UNCHANGED <<target, wanted, seen, began, sawDone, judged>>

\* Variant: failures are alerted when the run completes.
AlertWhenCompleted(u) ==
  /\ at[u] = "refreshed"
  /\ alerted' = IF seen[u] = "fail" /\ judged[u] THEN alerted \cup {target[u]}
                                                ELSE alerted
  /\ AfterAlert(u)
  /\ UNCHANGED <<edition, database, events, unsent>>

\* publish_alert_triggered of a result that reads "fail".
Alert(u) ==
  /\ at[u] = "refreshed"
  /\ alerted' = IF seen[u] = "fail" THEN alerted \cup {target[u]} ELSE alerted
  /\ AfterAlert(u)
  /\ UNCHANGED <<edition, database, events, unsent>>

\* Kafka is unreachable: publish_alert_triggered returns False, unnoticed.
AlertFails(u) ==
  /\ at[u] = "refreshed"
  /\ seen[u] = "fail"
  /\ unsent' = unsent \cup {target[u]}
  /\ AfterAlert(u)
  /\ UNCHANGED <<edition, database, published>>

\* The commit expired the rows: counting loads each of them again.
CountRow(u) ==
  /\ at[u] = "counting"
  /\ \E c \in Cases :
       /\ tally[u][c] = Unread
       /\ tally' = [tally EXCEPT ![u][c] = status[c]]
  /\ UNCHANGED <<edition, database, at, target, wanted, seen, began, sawDone,
                 judged, published, unsent>>

Count(u, s) == Cardinality({c \in Cases : tally[u][c] = s})

PublishCompleted(u) ==
  /\ at[u] = "counting"
  /\ \A c \in Cases : tally[u][c] # Unread
  /\ events' = events \cup {[s \in Verdicts |-> Count(u, s)]}
  /\ Leave(u)
  /\ UNCHANGED <<edition, database, alerted, unsent>>

\* The replica dies or the database refuses: what was not committed is rolled
\* back, what was committed stays, nobody resumes the notifications.
Dies(u) ==
  /\ at[u] # "idle"
  /\ Leave(u)
  /\ unsent' = IF at[u] \in {"committed", "refreshed", "counting"}
               THEN unsent \cup {target[u]} ELSE unsent
  /\ UNCHANGED <<edition, database, published>>

UpdateStep(u) ==
  \/ Load(u) \/ ReadRun(u) \/ Judge(u) \/ Commit(u) \/ Refresh(u)
  \/ Alert(u) \/ CountRow(u) \/ PublishCompleted(u)

Next == \E u \in Users : UpdateStep(u) \/ AlertFails(u) \/ Dies(u)

\* A request that was accepted is run to its end; nobody has to send one.
Fairness == \A u \in Users : WF_vars(at[u] # "idle" /\ UpdateStep(u))

Spec == Init /\ [][Next]_vars /\ Fairness

----------------------------------------------------------------------------
(* What is checked *)

TypeOK ==
  /\ edition \in Editions
  /\ status \in [Cases -> Statuses]
  /\ completed \in Nat
  /\ version \in Nat
  /\ at \in [Users -> Steps]
  /\ target \in [Users -> Cases \cup {NoCase}]
  /\ \A u \in Users : at[u] = "idle" <=> target[u] = NoCase
  /\ wanted \in [Users -> Statuses]
  /\ seen \in [Users -> Statuses]
  /\ began \in [Users -> Nat]
  /\ sawDone \in [Users -> BOOLEAN]
  /\ judged \in [Users -> BOOLEAN]
  /\ tally \in [Users -> [Cases -> Statuses \cup {Unread}]]
  /\ alerted \subseteq Cases
  /\ events \subseteq [Verdicts -> Nat]
  /\ unsent \subseteq Cases
  /\ stale \in BOOLEAN
  /\ reopened \in BOOLEAN

AllDone == \A c \in Cases : status[c] # "pending"

\* A run whose last pending result was recorded has its completed_at, unless
\* an update committed without having seen another that overlapped it.
CompletionMissedOnlyIfStale == AllDone => completed > 0 \/ stale

\* A run with a completed_at has no pending result, unless one was set back to
\* pending or an overlapping update made the run look complete.
CompletedRunIsDone == completed > 0 => AllDone \/ reopened \/ stale

\* services edition: completed_at, once written, is not written again unless
\* updates overlapped.
CompletedOnce == edition = "services" => completed <= 1 \/ stale

\* Still to refresh the case's row and alert if it reads "fail".
WillAlert(u, c) ==
  /\ target[u] = c
  /\ \/ at[u] = "committed"
     \/ at[u] = "refreshed" /\ seen[u] = "fail"

\* services edition: a result that stands as failed has been alerted, or an
\* update is about to, or a fault swallowed the alert.  Overlapping updates
\* cannot make each other's alerts disappear while the failure stands.
FailureReported ==
  edition = "services" =>
    \A c \in Cases :
      status[c] = "fail" =>
        c \in alerted \cup unsent \/ \E u \in Users : WillAlert(u, c)

\* services edition: the completion of a run is published, or is about to be,
\* or a fault swallowed it.
CompletionPublished ==
  edition = "services" /\ completed > 0 =>
    \/ events # {} \/ unsent # {}
    \/ \E u \in Users : judged[u] /\ at[u] \in {"committed", "refreshed", "counting"}

\* The counts of a run.completed event add up to the size of the run, although
\* its rows are read one at a time, unless a result was set back to pending.
CountsAddUp ==
  \A e \in events :
    e["pass"] + e["fail"] + e["skip"] = Cardinality(Cases) \/ reopened

\* However updates overlap, no notification is wrong or missing but by a named fault:
\* failures are alerted, completions published, with counts that add up
\* (update_result of services/runs/main.py).
NotificationsHold == FailureReported /\ CompletionPublished /\ CountsAddUp

\* A failure that stands is reported, overwritten or swallowed by a fault.
FailureEventuallySettled ==
  \A c \in Cases :
    edition = "services" /\ status[c] = "fail"
      ~> status[c] # "fail" \/ c \in alerted \cup unsent

============================================================================
