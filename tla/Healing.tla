------------------------------ MODULE Healing ------------------------------
(***************************************************************************)
(* The healer graph of agents/pipeline_orchestrator.py, one job per        *)
(* failing test, and the file of outcomes that all jobs append to and      *)
(* scripts/heal_metrics.py counts.                                         *)
(*                                                                         *)
(* A job runs the test, has its failure classified by a model, and fixes   *)
(* it and runs it again, or gives it to a human.  Whatever raises ends the *)
(* job where it is, with the fixes made so far and no record.              *)
(***************************************************************************)
EXTENDS Naturals, FiniteSets

CONSTANTS
  Jobs,
  MaxAttempts \* max_attempts: 3

ASSUME HealingAssumption == MaxAttempts \in Nat

VARIABLES
  heal,     \* each job's HealerState, and the node it is at
  outcomes, \* heal_outcomes.jsonl: a line per record, with the job it is of
  suspected \* history: the jobs whose failure was once called something else than drift

healVars == <<heal, outcomes, suspected>>

DriftTypes == {"locator_drift", "timing_drift"}
\* What a model answers: "other" is any word it was not asked for.
HealTypes == DriftTypes \cup {"behavior_change", "other"}

Healers ==
  [at : {"none", "run", "classify", "apply_fix", "record_healed", "escalate", "mark_skipped",
         "end", "dead"},
   attempt : Nat, type : HealTypes \cup {""}]

Fresh(at) == [at |-> at, attempt |-> 0, type |-> ""]

HealingStart(at) ==
  /\ heal = [j \in Jobs |-> Fresh(at)]
  /\ outcomes = {}
  /\ suspected = {}

Goes(j, from, to) == heal[j].at = from /\ heal' = [heal EXCEPT ![j].at = to]

\* run_node
RunTest(j) ==
  /\ Goes(j, "run", "record_healed") \/ Goes(j, "run", "classify")
  /\ UNCHANGED <<outcomes, suspected>>

\* Variant: an answer that was not asked for counts as drift.
OnlyDefects(j, type) ==
  IF type = "behavior_change" THEN "escalate"
  ELSE IF heal[j].attempt >= MaxAttempts THEN "mark_skipped" ELSE "apply_fix"

\* route_after_classify
AfterClassify(j, type) ==
  IF type \notin DriftTypes THEN "escalate"
  ELSE IF heal[j].attempt >= MaxAttempts THEN "mark_skipped" ELSE "apply_fix"

\* classify_node; an answer without a type, or that is no object, counts as
\* behavior_change.
Classify(j) ==
  /\ heal[j].at = "classify"
  /\ \E type \in HealTypes :
       /\ heal' = [heal EXCEPT ![j].type = type, ![j].at = AfterClassify(j, type)]
       /\ suspected' = IF type \in DriftTypes THEN suspected ELSE suspected \cup {j}
  /\ UNCHANGED outcomes

\* apply_fix_node
ApplyFix(j) ==
  /\ heal[j].at = "apply_fix"
  /\ heal' = [heal EXCEPT ![j].attempt = @ + 1, ![j].at = "run"]
  /\ UNCHANGED <<outcomes, suspected>>

OutcomeOf(node) ==
  CASE node = "record_healed" -> "healed"
    [] node = "escalate" -> "escalated"
    [] node = "mark_skipped" -> "skipped"

\* record_healed_node, escalate_node, mark_skipped_node; _record_heal_outcome
Record(j) ==
  /\ heal[j].at \in {"record_healed", "escalate", "mark_skipped"}
  /\ outcomes' = outcomes \cup {[job |-> j, type |-> heal[j].type, outcome |-> OutcomeOf(heal[j].at)]}
  /\ heal' = [heal EXCEPT ![j].at = "end"]
  /\ UNCHANGED suspected

\* PipelineError, or an exception of the test runner, of the fixer or of the file.
JobDies(j) ==
  /\ heal[j].at \notin {"end", "dead", "none"}
  /\ heal' = [heal EXCEPT ![j].at = "dead"]
  /\ UNCHANGED <<outcomes, suspected>>

HealingNext ==
  \E j \in Jobs : RunTest(j) \/ Classify(j) \/ ApplyFix(j) \/ Record(j) \/ JobDies(j)

\* The numerator of false_heal_rate (compute_heal_metrics).
FalseHeals == {r \in outcomes : r.type = "behavior_change" /\ r.outcome # "escalated"}

----------------------------------------------------------------------------
(* Properties *)

\* The jobs are HealerStates, the outcomes records of them.
HealingTypeOK ==
  /\ heal \in [Jobs -> Healers]
  /\ outcomes \subseteq [job : Jobs, type : HealTypes \cup {""},
                        outcome : {"healed", "escalated", "skipped"}]
  /\ suspected \subseteq Jobs

\* A failure that was once suspected to be the application's is not fixed any more, nor
\* counted as healed or given up, also when the last attempt is used up and also when
\* the answer was garbled: it is escalated, or the job dies; and false_heal_rate is 0
\* (route_after_classify, compute_heal_metrics).
SuspicionEscalates ==
  /\ \A j \in suspected : heal[j].at \in {"escalate", "end", "dead"}
  /\ \A r \in outcomes : r.job \in suspected => r.outcome = "escalated"
  /\ FalseHeals = {}

=============================================================================
