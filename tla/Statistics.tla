----------------------------- MODULE Statistics -----------------------------
(***************************************************************************)
(* The requests that count: project_stats, project_analytics, flaky_tests  *)
(* and export_suite_csv of api/main.py, and the services edition's         *)
(* project_stats and project_analytics (services/projects), which ask the  *)
(* runs service over HTTP for what its database has (services/runs) and go *)
(* on without it when it does not answer (services/common/http.py).        *)
(*                                                                         *)
(* Each SELECT is a step.  Pass rates are in tenths of a percent.          *)
(***************************************************************************)
EXTENDS Board, Histories

CONSTANTS
  Kinds,        \* requests to consider: [kind, edition]
  HistoryLimit, \* runs in the analytics: 15 in the code
  MaxAttempts   \* of get_with_retry: 3 in the code

ASSUME StatisticsAssumption ==
  /\ Kinds \subseteq [kind : {"stats", "analytics", "flaky", "export"},
                      edition : {"monolith", "services"}]
  /\ HistoryLimit \in Nat \ {0} /\ MaxAttempts \in Nat \ {0}

VARIABLES
  asked,     \* the kind of the request, and the edition
  place,     \* the next SELECT
  attempt,   \* of the HTTP call
  todo,      \* runs or cases still to be read
  figures,   \* what has been read
  disturbed, \* history: others wrote since the request began
  degraded   \* history: the runs service did not answer

counting == <<asked, place, attempt, todo, figures, disturbed, degraded>>

NoRun == 0
NoCounts == [v \in Statuses |-> 0]
NoFigures == [cases |-> 0, active |-> 0, runs |-> 0, last |-> NoRun, counts |-> NoCounts,
              history |-> <<>>, flaky |-> {}, latest |-> {}]

FirstSelect ==
  CASE asked.kind = "stats" -> "cases"
    [] asked.kind = "analytics" -> "history"
    [] OTHER -> "list"

CountingInit ==
  /\ asked \in Kinds
  /\ place = FirstSelect
  /\ attempt = 1
  /\ todo = {}
  /\ figures = NoFigures
  /\ disturbed = FALSE
  /\ degraded = FALSE

CountingIdle ==
  /\ asked = [kind |-> "none", edition |-> "none"]
  /\ place = "idle"
  /\ attempt = 1
  /\ todo = {}
  /\ figures = NoFigures
  /\ disturbed = FALSE
  /\ degraded = FALSE

Reads(from, to, new) ==
  /\ place = from
  /\ place' = to
  /\ figures' = new
  /\ UNCHANGED <<board, asked, attempt, disturbed, degraded>>

Now(r) == [v \in Statuses |-> Cardinality({c \in Cases : results[r][c] = v})]
Total(counts) == counts["pending"] + counts["pass"] + counts["fail"] + counts["skip"]

----------------------------------------------------------------------------
(* project_stats *)

CountCases ==
  /\ Reads("cases", "runs", [figures EXCEPT !.cases = Cardinality(LiveCases)])
  /\ UNCHANGED todo

CountRuns ==
  /\ Reads("runs", "last", [figures EXCEPT !.runs = Len(results)])
  /\ UNCHANGED todo

LastRun == Len(results)

FindLastRun ==
  /\ Reads("last", IF LastRun = NoRun THEN "done" ELSE "rows",
           [figures EXCEPT !.last = LastRun])
  /\ UNCHANGED todo

CountRows ==
  /\ Reads("rows", "done", [figures EXCEPT !.counts = Now(figures.last)])
  /\ UNCHANGED todo

----------------------------------------------------------------------------
(* project_analytics *)

\* Variant: the limit is taken before the runs that are not complete are left out.
NewestRuns == {r \in completed : r > Len(results) - HistoryLimit}

\* The newest completed runs.
RunsToShow == LastOf(completed, HistoryLimit)

ListHistory ==
  /\ Reads("history", IF RunsToShow = {} THEN "coverage" ELSE "points", figures)
  /\ todo' = RunsToShow

\* round(passed / total * 100, 1)
PassRate(passed, total) ==
  IF total = 0 THEN 0 ELSE (2000 * passed + total) \div (2 * total)

\* reversed(runs): the oldest first.
ReadPoint ==
  LET r == Min(todo)
      point == [run |-> r, counts |-> Now(r), total |-> Total(Now(r)),
                rate |-> PassRate(Now(r)["pass"], Total(Now(r)))]
  IN /\ Reads("points", IF todo = {r} THEN "coverage" ELSE "points",
              [figures EXCEPT !.history = Append(@, point)])
     /\ todo' = todo \ {r}

CountCoverage ==
  /\ Reads("coverage", "active", [figures EXCEPT !.cases = Cardinality(LiveCases)])
  /\ UNCHANGED todo

CountActive ==
  /\ Reads("active", "done",
           [figures EXCEPT !.active = Cardinality({c \in Cases : cases[c] = "active"})])
  /\ UNCHANGED todo

----------------------------------------------------------------------------
(* Services: runs, last, rows, history and points are read by the runs service *)

Remote ==
  /\ asked.edition = "services"
  /\ place \in {"runs", "last", "rows", "history", "points"}

WithoutRuns == [NoFigures EXCEPT !.cases = figures.cases]

\* The call times out, before the answer or after all of it was read; it is made
\* again, from the start.
RetryCall ==
  /\ Remote
  /\ attempt < MaxAttempts
  /\ attempt' = attempt + 1
  /\ place' = IF asked.kind = "stats" THEN "runs" ELSE "history"
  /\ figures' = WithoutRuns
  /\ todo' = {}
  /\ UNCHANGED <<board, asked, disturbed, degraded>>

\* The last attempt fails, or the service answers with an error: no figures.
Degrade ==
  /\ Remote
  /\ place' = IF asked.kind = "stats" THEN "done" ELSE "coverage"
  /\ figures' = WithoutRuns
  /\ todo' = {}
  /\ degraded' = TRUE
  /\ UNCHANGED <<board, asked, attempt, disturbed>>

----------------------------------------------------------------------------
(* flaky_tests and export_suite_csv: the cases, then each one's results *)

ListCases ==
  /\ Reads("list", IF LiveCases = {} THEN "done" ELSE "each", figures)
  /\ todo' = LiveCases

History(c) ==
  [r \in {q \in Existing : results[q][c] \in {"pass", "fail"}} |-> results[r][c]]

\* The newest run with a row of the case.
Latest(c) ==
  LET with == {r \in Existing : c \in Rows(r)}
  IN  IF with = {} THEN <<c, NoRun, "no runs yet">> ELSE <<c, Max(with), results[Max(with)][c]>>

ReadCase ==
  /\ \E c \in todo :
       /\ Reads("each", IF todo = {c} THEN "done" ELSE "each",
            IF asked.kind = "flaky"
            THEN IF Flips(History(c)) >= 2
                 THEN [figures EXCEPT !.flaky = @ \cup
                          {<<c, Flips(History(c)), Cardinality(DOMAIN History(c))>>}]
                 ELSE figures
            ELSE [figures EXCEPT !.latest = @ \cup {Latest(c)}])
       /\ todo' = todo \ {c}

StatisticsNext ==
  \/ CountCases \/ CountRuns \/ FindLastRun \/ CountRows
  \/ ListHistory \/ ReadPoint \/ CountCoverage \/ CountActive
  \/ RetryCall \/ Degrade \/ ListCases \/ ReadCase

\* Another request's commit.
StatisticsWitness ==
  /\ disturbed' = (disturbed \/ place \notin {"idle", "done"})
  /\ UNCHANGED <<asked, place, attempt, todo, figures, degraded>>

----------------------------------------------------------------------------
(* Properties *)

Status(r, c) == results[r][c]
Swings(c) ==
  \E p, q, r \in Existing :
    /\ p < q /\ q < r
    /\ {Status(p, c), Status(q, c)} = {"pass", "fail"} /\ Status(r, c) = Status(p, c)

\* Nothing newer is complete and left out, nothing is shown twice or out of order.
ShowsNewest(history) ==
  LET shown == {history[i].run : i \in DOMAIN history} IN
  /\ shown \subseteq completed
  /\ \A r \in completed \ shown : Len(history) = HistoryLimit /\ \A q \in shown : q > r
  /\ \A i, j \in DOMAIN history : i < j => history[i].run < history[j].run

\* The rate is the share of passed rows, to the nearest tenth of a percent.
RateOf(point) ==
  LET passed == Cardinality({c \in Cases : Status(point.run, c) = "pass"})
      rows == Cardinality(Rows(point.run))
      off == 2 * (point.rate * rows - 1000 * passed)
  IN  off <= rows /\ -off <= rows /\ (passed = rows /\ rows > 0 => point.rate = 1000)

Correct(answer, cut) ==
  CASE asked.kind = "flaky" -> {p[1] : p \in answer.flaky} = {c \in LiveCases : Swings(c)}
    [] asked.kind = "export" ->
         /\ {p[1] : p \in answer.latest} = LiveCases
         /\ \A p \in answer.latest : \A r \in Existing :
              p[1] \in Rows(r) => r <= p[2] /\ (r = p[2] => Status(r, p[1]) = p[3])
    [] asked.kind = "stats" ->
         /\ answer.cases = Cardinality(LiveCases)
         /\ ~cut =>
              /\ answer.runs = Cardinality(Existing)
              /\ results # <<>> => /\ \A r \in Existing : r <= answer.last
                                   /\ Total(answer.counts) = Cardinality(Rows(answer.last))
    [] asked.kind = "analytics" ->
         /\ answer.active <= answer.cases
         /\ ~cut => /\ ShowsNewest(answer.history)
                         /\ \A i \in DOMAIN answer.history : RateOf(answer.history[i])

\* An answer that no write of another request overlapped is right, by what it
\* claims of the tables when it is given: the flaky cases are those that swung
\* back and forth, the history is that of the newest completed runs in their
\* order, the last run is the newest, and zeros in place of run figures mean the
\* runs service did not answer, however often the call was retried.
QuietAnswersAreRight ==
  [][place # "done" /\ place' = "done" /\ ~disturbed => Correct(figures', degraded')]_<<board, counting>>

=============================================================================
