----------------------------- MODULE EvalGates -----------------------------
(***************************************************************************)
(* The evaluation gates of CI (src/evals): a tool measures a model, and a  *)
(* job fails when what it measured is too bad, by fixed thresholds or by a *)
(* baseline that an earlier run recorded in the repository.                *)
(*                                                                         *)
(* A run of a case is abstracted to what the two kinds of gated metrics    *)
(* make of it: "good" scores 1 on a metric with a minimum and 0 on one     *)
(* with a maximum (verbatim_echo_rate), "echo" 1 and 1, "bad" 0 and 0, and *)
(* a run that raised scores error_scores, 0 and 1.  Shares are compared    *)
(* without division.  Per-case drift and prompt deltas are only printed.   *)
(*                                                                         *)
(* The tools share nothing: a behaviour follows one of them, job after job.*)
(***************************************************************************)
EXTENDS Integers, FiniteSets, FiniteSetsExt

CONSTANTS
  Cases,     \* the cases a suite's dataset may have
  Runs,      \* runs per case
  Scenarios, \* bound: trajectories of the triage agent in one evaluation
  Queries    \* bound: of the verdict and the retrieval datasets

ASSUME EvalGatesAssumption ==
  IsFiniteSet(Cases) /\ Runs \in Nat \ {0} /\ Scenarios \in Nat /\ Queries \in Nat

VARIABLES
  dataset,            \* the suite's cases, as committed
  suiteBaseline,      \* evals/baselines/<model>/<target>.json: whether it is there,
                      \* and the report it holds
  trajectoryBaseline, \* evals/baselines/<model>/triage_trajectory.json, likewise
  job                 \* the tool, and the report and exit code of its gated job

gateVars == <<dataset, suiteBaseline, trajectoryBaseline, job>>

\* In percent: test_generation.py gates scores of 90, triage.py also echoes.
MinScore == 90     \* DEFAULT_MIN_THRESHOLDS
MaxEcho == 50      \* DEFAULT_MAX_THRESHOLDS
MaxErrorRate == 20 \* DEFAULT_MAX_ERROR_RATE
Band == 20         \* SUITE_BAND, TOLERANCE

NoReport == <<>>
NoFile == [there |-> FALSE, report |-> NoReport]
File(report) == [there |-> TRUE, report |-> report]
Tools == {"suite", "trajectory", "verdicts", "retrieval"}
NotEnded == -1
NoJob(tool) == [tool |-> tool, report |-> NoReport, exit |-> NotEnded]
Ready(tool) == job = NoJob(tool)
Ends(report, fails) == job' = [job EXCEPT !.report = report, !.exit = IF fails THEN 1 ELSE 0]

\* The runs of a case, by what they were (CaseReport).
Tallies == {t \in [good : 0..Runs, echo : 0..Runs, bad : 0..Runs, error : 0..Runs] :
             t.good + t.echo + t.bad + t.error = Runs}

\* One evaluation of the agent: how many of its runs failed, and of the evidence to
\* check, a piece per run, how much was checked.
Trajectories == {t \in [runs : 0..Scenarios, failed : 0..Scenarios, checked : 0..Scenarios] :
                  t.failed <= t.runs /\ t.checked <= t.runs}

GatesInit ==
  /\ dataset = Cases
  /\ suiteBaseline = NoFile
  /\ trajectoryBaseline = NoFile
  /\ job \in {NoJob(tool) : tool \in Tools}

GatesNone ==
  /\ dataset = {}
  /\ suiteBaseline = NoFile
  /\ trajectoryBaseline = NoFile
  /\ job = NoJob("none")

----------------------------------------------------------------------------
(* harness.py and baseline.py *)

Score(t) == t.good + t.echo
Echo(t) == t.echo + t.error
Errors(t) == t.error

\* A sum over cases of one of the three, as the size of a disjoint union.
SumOf(values) == Cardinality(UNION {{c} \X (1..values[c]) : c \in DOMAIN values})
ScoreSum(report, cases) == SumOf([c \in cases |-> Score(report[c])])
EchoSum(report, cases) == SumOf([c \in cases |-> Echo(report[c])])
ErrorSum(report, cases) == SumOf([c \in cases |-> Errors(report[c])])

\* overall_pass: every case for itself.
OverallPass(report) ==
  \A c \in DOMAIN report :
    /\ 100 * Score(report[c]) >= MinScore * Runs
    /\ 100 * Echo(report[c]) <= MaxEcho * Runs
    /\ 100 * Errors(report[c]) <= MaxErrorRate * Runs

\* Variant: a baseline of another dataset is ignored.
SharedIfSame(report) == IF DOMAIN report = DOMAIN suiteBaseline.report THEN DOMAIN report ELSE {}

\* The cases that both the run and the baseline have.
Shared(report) == DOMAIN report \cap DOMAIN suiteBaseline.report

\* check_suite_regressions and check_error_rates.
Regressed(report) ==
  LET cases == Shared(report)
      all == Cardinality(cases) * Runs
      base == suiteBaseline.report
      most == Max({MaxErrorRate * all, 100 * ErrorSum(base, cases) + Band * all})
  IN \/ 100 * (ScoreSum(base, cases) - ScoreSum(report, cases)) > Band * all
     \/ 100 * (EchoSum(report, cases) - EchoSum(base, cases)) > Band * all
     \/ 100 * ErrorSum(report, cases) > most

\* --gate of cli.py
SuiteFails(report) ==
  IF suiteBaseline.there THEN Regressed(report) ELSE ~OverallPass(report)

\* The evaluation of a suite, in which every run may raise (run_case).
SuiteReports == [dataset -> Tallies]

GateSuite ==
  /\ Ready("suite")
  /\ \E report \in SuiteReports : Ends(report, SuiteFails(report))
  /\ UNCHANGED <<dataset, suiteBaseline, trajectoryBaseline>>

\* --record-baseline never gates.
RecordSuite ==
  /\ Ready("suite")
  /\ \E report \in SuiteReports : suiteBaseline' = File(report)
  /\ UNCHANGED <<dataset, trajectoryBaseline, job>>

\* Somebody commits other cases.
ChangeDataset ==
  /\ Ready("suite")
  /\ dataset' \in SUBSET Cases
  /\ UNCHANGED <<suiteBaseline, trajectoryBaseline, job>>

----------------------------------------------------------------------------
(* triage_trajectory_eval.py *)

\* tool_selection_accuracy in thousandths: ratio() rounds to three places (a half is
\* taken upwards, which floating point does not always do).
Accuracy(t) ==
  IF t.runs = 0 THEN 0 ELSE (2000 * t.checked + t.runs) \div (2 * t.runs)

\* Against its floor; a share that is on the floor is below it or not, as the
\* floating-point difference comes out.
BelowFloor(now, base, tie) ==
  LET above == Accuracy(now) - Accuracy(base) + 10 * Band
  IN above < 0 \/ (above = 0 /\ tie)

TrajectoryFails(report, tie) ==
  \/ report.failed = report.runs
  \/ trajectoryBaseline.there /\ BelowFloor(report, trajectoryBaseline.report, tie)

GateTrajectory ==
  /\ Ready("trajectory")
  /\ \E report \in Trajectories, tie \in BOOLEAN :
       Ends(report, TrajectoryFails(report, tie))
  /\ UNCHANGED <<dataset, suiteBaseline, trajectoryBaseline>>

RecordTrajectory ==
  /\ Ready("trajectory")
  /\ \E report \in Trajectories : trajectoryBaseline' = File(report)
  /\ UNCHANGED <<dataset, suiteBaseline, job>>

----------------------------------------------------------------------------
(* triage_verdict_eval.py and retrieval_eval.py: no baseline, limits that are given
   or not *)

VerdictReports == {r \in [correct : 0..Queries, wrong : 0..Queries, unknown : 0..Queries,
                          valid : BOOLEAN, stable : BOOLEAN] :
                    r.correct + r.wrong + r.unknown <= Queries}

\* No case at all divides by zero, and a verdict that is none raises.
VerdictsFail(r, maxWrong, minCovered) ==
  LET n == r.correct + r.wrong + r.unknown
  IN \/ n = 0 \/ ~r.valid
     \/ ~r.stable
     \/ r.wrong > maxWrong
     \/ 100 * (r.correct + r.wrong) < minCovered * n

GateVerdicts ==
  /\ Ready("verdicts")
  /\ \E r \in VerdictReports, maxWrong \in {0, Queries}, minCovered \in {0, 80} :
       Ends(r, VerdictsFail(r, maxWrong, minCovered))
  /\ UNCHANGED <<dataset, suiteBaseline, trajectoryBaseline>>

\* A provider that raises, also for want of queries, is an error in the report.
RetrievalReports == {r \in [queries : 0..Queries, found : 0..Queries, error : BOOLEAN] :
                      r.found <= r.queries /\ (r.queries = 0 => r.error)}

RetrievalFails(r, floor) == r.error \/ 100 * r.found < floor * r.queries

GateRetrieval ==
  /\ Ready("retrieval")
  /\ \E r \in RetrievalReports, floor \in {0, 90} : Ends(r, RetrievalFails(r, floor))
  /\ UNCHANGED <<dataset, suiteBaseline, trajectoryBaseline>>

\* The next workflow run.
NextJob ==
  /\ job.exit # NotEnded
  /\ job' = NoJob(job.tool)
  /\ UNCHANGED <<dataset, suiteBaseline, trajectoryBaseline>>

GatesNext ==
  \/ GateSuite \/ RecordSuite \/ ChangeDataset
  \/ GateTrajectory \/ RecordTrajectory
  \/ GateVerdicts \/ GateRetrieval
  \/ NextJob

----------------------------------------------------------------------------
(* Properties *)

NothingWorked ==
  LET r == job.report
  IN CASE job.tool = "suite" -> \A c \in DOMAIN r : r[c].error = Runs
       [] job.tool = "trajectory" -> r.failed = r.runs
       [] job.tool = "verdicts" -> ~r.valid
       [] job.tool = "retrieval" -> r.error

\* A job whose model never worked fails, whatever was recorded or committed before, in
\* all but three cases, all of the suites: there are no cases, none of the cases was
\* there when the baseline was recorded, or the baseline is itself of a model whose
\* runs nearly all raised (error_scores of harness.py, check_error_rates, gate).
CollapseIsCaught ==
  (job.exit = 0 /\ NothingWorked) =>
    /\ job.tool = "suite"
    /\ \/ dataset = {}
       \/ suiteBaseline.there /\ dataset \cap DOMAIN suiteBaseline.report = {}
       \/ /\ suiteBaseline.there
          /\ LET cases == dataset \cap DOMAIN suiteBaseline.report
             IN 100 * ErrorSum(suiteBaseline.report, cases)
                  >= (100 - Band) * Cardinality(cases) * Runs

=============================================================================
