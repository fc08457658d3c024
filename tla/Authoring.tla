----------------------------- MODULE Authoring -----------------------------
(***************************************************************************)
(* The authoring graph of agents/pipeline_orchestrator.py: a model plans   *)
(* scenarios for a feature, a human approves them, a model writes a spec,  *)
(* a human approves it.  The graph stops at each approval; its state is    *)
(* the checkpoint of a thread, kept by MemorySaver, and outlives the round *)
(* it is of: a thread that is invoked again keeps every key that no node   *)
(* has written since.                                                      *)
(*                                                                         *)
(* Scenarios are abstracted to the round they are of, and a spec to the    *)
(* round of its scenarios; what a human changes in them when approving is  *)
(* of that round too.  A node that raises (PipelineError, an answer that   *)
(* is no object) leaves the checkpoint as it was: no step.                 *)
(***************************************************************************)
EXTENDS Naturals

CONSTANTS
  Papers,    \* thread ids
  MaxRounds  \* bound: invocations with a feature, per thread

ASSUME AuthoringAssumption == MaxRounds \in Nat

VARIABLES
  thread, \* each thread's AuthoringState, the node it is at, and the round
  nods    \* history: for each thread, the rounds whose plan, and whose spec, a
          \* human approved

authoringVars == <<thread, nods>>

Unwritten == 0 \* no text yet

Checkpoints ==
  [at : {"none", "new", "plan", "plan_approval", "generate", "generation_approval",
         "rejected", "end"},
   round : Nat, scenarios : Nat, plan_approved : BOOLEAN,
   spec_code : Nat, generation_approved : BOOLEAN,
   outcome : {"", "ready_to_commit", "generation_rejected", "plan_rejected"}]

Blank(at) ==
  [at |-> at, round |-> 0, scenarios |-> Unwritten, plan_approved |-> FALSE,
   spec_code |-> Unwritten, generation_approved |-> FALSE, outcome |-> ""]

AuthoringStart(at) ==
  /\ thread = [t \in Papers |-> Blank(at)]
  /\ nods = [t \in Papers |-> [plans |-> {}, specs |-> {}]]

At(t, node) == thread[t].at = node

\* invoke with a feature: a new thread, one that ended, or one that waits for an answer.
Invoke(t) ==
  /\ thread[t].at # "none" /\ thread[t].round < MaxRounds
  /\ thread' = [thread EXCEPT ![t].round = @ + 1, ![t].at = "plan"]
  /\ UNCHANGED nods

\* plan_node
Plan(t) ==
  /\ At(t, "plan")
  /\ thread' = [thread EXCEPT ![t].scenarios = thread[t].round, ![t].at = "plan_approval"]
  /\ UNCHANGED nods

\* Variant: the route looks for scenarios, not for the approval.
IfAnyScenarios(t, approved) == IF thread[t].scenarios # Unwritten THEN "generate" ELSE "rejected"

\* route_after_plan_approval
AfterPlan(t, approved) == IF approved THEN "generate" ELSE "rejected"

\* plan_approval_node, resumed
AnswerPlan(t) ==
  /\ At(t, "plan_approval")
  /\ \E approved \in BOOLEAN :
       /\ thread' = [thread EXCEPT ![t].plan_approved = approved, ![t].at = AfterPlan(t, approved)]
       /\ nods' = IF approved THEN [nods EXCEPT ![t].plans = @ \cup {thread[t].scenarios}] ELSE nods

\* generate_node
Generate(t) ==
  /\ At(t, "generate")
  /\ thread' = [thread EXCEPT ![t].spec_code = thread[t].scenarios,
                              ![t].at = "generation_approval"]
  /\ UNCHANGED nods

\* generation_approval_node and the route after it.
AnswerSpec(t) ==
  /\ At(t, "generation_approval")
  /\ \E approved \in BOOLEAN :
       /\ thread' = [thread EXCEPT
            ![t].generation_approved = approved,
            ![t].outcome = IF approved THEN "ready_to_commit" ELSE "generation_rejected",
            ![t].at = IF approved THEN "end" ELSE "rejected"]
       /\ nods' = IF approved THEN [nods EXCEPT ![t].specs = @ \cup {thread[t].spec_code}] ELSE nods

\* rejected_node: an outcome that is there already stays.
Reject(t) ==
  /\ At(t, "rejected")
  /\ thread' = [thread EXCEPT ![t].outcome = IF @ = "" THEN "plan_rejected" ELSE @, ![t].at = "end"]
  /\ UNCHANGED nods

AuthoringNext ==
  \E t \in Papers :
    Invoke(t) \/ Plan(t) \/ AnswerPlan(t) \/ Generate(t) \/ AnswerSpec(t) \/ Reject(t)

----------------------------------------------------------------------------
(* Properties *)

\* The checkpoints are AuthoringStates.
AuthoringTypeOK ==
  /\ thread \in [Papers -> Checkpoints]
  /\ nods \in [Papers -> [plans : SUBSET Nat, specs : SUBSET Nat]]

\* A thread that ends ready_to_commit with a spec for the feature that was asked for
\* last holds what a human approved, written from scenarios a human approved.  It may
\* end so with an earlier spec, but only when the plan of the last round was rejected
\* (the two approval nodes, rejected_node).
CommitsAreApproved ==
  \A t \in Papers : (At(t, "end") /\ thread[t].outcome = "ready_to_commit") =>
    IF thread[t].spec_code = thread[t].round
    THEN thread[t].round \in nods[t].plans \cap nods[t].specs
    ELSE thread[t].round \notin nods[t].plans

=============================================================================
