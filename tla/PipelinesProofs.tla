-------------------------- MODULE PipelinesProofs --------------------------
(***************************************************************************)
(* What the agents' graphs promise, proved for any number of threads,      *)
(* rounds, jobs and attempts, and what the review of their drafts does,    *)
(* for any number of reviewers and test cases.  The graphs and the review  *)
(* share no variable, so each has an invariant of its own, which the other *)
(* tools' steps leave alone.                                               *)
(***************************************************************************)
EXTENDS Pipelines, DraftReview, AlertPipeline, HistoriesProofs

(* Where a thread is says what it knows of its round; what it holds from   *)
(* earlier rounds is older than the round.                                 *)
NothingYet(r, plans) == r.round \notin plans /\ r.spec_code # r.round

RoundKnown(r, plans, specs) ==
  /\ r.spec_code <= r.round
  /\ plans \subseteq 0..r.round
  /\ r.at = "plan" => NothingYet(r, plans)
  /\ r.at = "plan_approval" => NothingYet(r, plans) /\ r.scenarios = r.round
  /\ r.at \in {"generate", "generation_approval"} => r.round \in plans /\ r.scenarios = r.round
  /\ r.at = "generation_approval" => r.spec_code = r.round
  /\ r.at = "rejected" => r.outcome = "generation_rejected" \/ NothingYet(r, plans)
  /\ (r.at = "end" /\ r.outcome = "ready_to_commit") =>
       \/ r.spec_code = r.round /\ r.round \in plans /\ r.round \in specs
       \/ NothingYet(r, plans)

Known(t) == RoundKnown(thread[t], nods[t].plans, nods[t].specs)

AuthoringInv == AuthoringTypeOK /\ \A t \in Papers : Known(t)

(* A job that has a record is over, and a record or a job that says        *)
(* behavior_change is of a suspected one.                                  *)
RecordsAreFinal ==
  /\ \A r \in outcomes : heal[r.job].at = "end"
  /\ \A r \in outcomes : r.type = "behavior_change" => r.job \in suspected
  /\ \A j \in Jobs : heal[j].type = "behavior_change" => j \in suspected

HealingInv == HealingTypeOK /\ SuspicionEscalates /\ RecordsAreFinal

(* Both graphs start with their invariant, whichever tool a behaviour is of. *)
LEMMA InitInvs == Init => AuthoringInv /\ HealingInv
<1> SUFFICES ASSUME Init PROVE AuthoringInv /\ HealingInv
  OBVIOUS
<1>1. PICK begun \in {"none", "new"} : AuthoringStart(begun)
  BY DEF Init
<1>2. PICK heals \in {"none", "run"} : HealingStart(heals)
  BY DEF Init
<1>3. AuthoringInv
  <2> DEFINE b == Blank(begun)
  <2>1. b \in Checkpoints /\ RoundKnown(b, {}, {})
    BY DEF Blank, Unwritten, Checkpoints, RoundKnown, NothingYet
  <2> HIDE DEF b
  <2>2. thread = [t \in Papers |-> b] /\ nods = [t \in Papers |-> [plans |-> {}, specs |-> {}]]
    BY <1>1 DEF AuthoringStart, b
  <2>. QED BY <2>1, <2>2 DEF AuthoringInv, AuthoringTypeOK, Known
<1>4. HealingInv
  <2> DEFINE f == Fresh(heals)
  <2>1. f \in Healers /\ f.type = ""
    BY DEF Fresh, Healers
  <2> HIDE DEF f
  <2>2. heal = [j \in Jobs |-> f] /\ outcomes = {} /\ suspected = {}
    BY <1>2 DEF HealingStart, f
  <2>. QED BY <2>1, <2>2 DEF HealingInv, HealingTypeOK, SuspicionEscalates, RecordsAreFinal,
                             FalseHeals
<1>. QED BY <1>3, <1>4

(* A new round is one that no plan was approved in.                        *)
LEMMA InvokeKeeps ==
  ASSUME AuthoringTypeOK, NEW t \in Papers, Known(t), Invoke(t)
  PROVE  \E r \in Checkpoints : /\ thread' = [thread EXCEPT ![t] = r]
                                   /\ RoundKnown(r, nods'[t].plans, nods'[t].specs)
<1> DEFINE was == thread[t]
           r == [was EXCEPT !.round = was.round + 1, !.at = "plan"]
<1>1. was \in Checkpoints
  BY DEF AuthoringTypeOK
<1>0. was.round \in Nat
  BY <1>1 DEF Checkpoints
<1>a. was.round + 1 \in Nat
  BY <1>0
<1>b. UNCHANGED nods
  BY DEF Invoke
<1>c. /\ was.spec_code \in Nat /\ was.spec_code <= was.round
      /\ nods'[t].plans \subseteq 0..was.round
  BY <1>1, <1>b DEF Known, RoundKnown, Checkpoints
<1>2. /\ r \in Checkpoints /\ r.at = "plan" /\ r.round = was.round + 1
      /\ r.spec_code = was.spec_code
  BY <1>1, <1>a DEF Checkpoints
<1>3. thread' = [thread EXCEPT ![t] = r]
  BY <1>1 DEF Invoke, AuthoringTypeOK, Checkpoints
<1> HIDE DEF r
<1>4. RoundKnown(r, nods'[t].plans, nods'[t].specs)
  BY <1>0, <1>2, <1>a, <1>c DEF RoundKnown, NothingYet
<1>. QED BY <1>2, <1>3, <1>4

(* The scenarios are of the round.                                         *)
LEMMA PlanKeeps ==
  ASSUME AuthoringTypeOK, NEW t \in Papers, Known(t), Plan(t)
  PROVE  \E r \in Checkpoints : /\ thread' = [thread EXCEPT ![t] = r]
                                   /\ RoundKnown(r, nods'[t].plans, nods'[t].specs)
<1> DEFINE was == thread[t]
           r == [was EXCEPT !.scenarios = was.round, !.at = "plan_approval"]
<1>1. was \in Checkpoints
  BY DEF AuthoringTypeOK
<1>a. was.at = "plan" /\ UNCHANGED nods
  BY DEF Plan, At
<1>c. /\ was.round \in Nat /\ was.spec_code <= was.round
      /\ nods'[t].plans \subseteq 0..was.round /\ NothingYet(was, nods'[t].plans)
  BY <1>1, <1>a DEF Known, RoundKnown, Checkpoints
<1>2. /\ r \in Checkpoints /\ r.at = "plan_approval" /\ r.scenarios = was.round
      /\ r.round = was.round /\ r.spec_code = was.spec_code
  BY <1>1, <1>a DEF Checkpoints
<1>3. thread' = [thread EXCEPT ![t] = r]
  BY <1>1 DEF Plan, AuthoringTypeOK, Checkpoints
<1> HIDE DEF r
<1>4. RoundKnown(r, nods'[t].plans, nods'[t].specs)
  BY <1>2, <1>a, <1>c DEF RoundKnown, NothingYet
<1>. QED BY <1>2, <1>3, <1>4

(* A plan that is approved goes on to the generation, and only that.       *)
LEMMA AnswerPlanKeeps ==
  ASSUME AuthoringTypeOK, NEW t \in Papers, Known(t), AnswerPlan(t)
  PROVE  \E r \in Checkpoints : /\ thread' = [thread EXCEPT ![t] = r]
                                   /\ RoundKnown(r, nods'[t].plans, nods'[t].specs)
<1>0. PICK yes \in BOOLEAN :
        /\ thread' = [thread EXCEPT ![t].plan_approved = yes, ![t].at = AfterPlan(t, yes)]
        /\ nods' = IF yes THEN [nods EXCEPT ![t].plans = @ \cup {thread[t].scenarios}] ELSE nods
  BY DEF AnswerPlan
<1> DEFINE was == thread[t]
           next == AfterPlan(t, yes)
           r == [was EXCEPT !.plan_approved = yes, !.at = next]
<1>1. was \in Checkpoints /\ was.at = "plan_approval"
  BY DEF AuthoringTypeOK, AnswerPlan, At
<1>a. next = IF yes THEN "generate" ELSE "rejected"
  BY DEF AfterPlan
<1>3. thread' = [thread EXCEPT ![t] = r]
  BY <1>0, <1>1 DEF AuthoringTypeOK, Checkpoints
<1> HIDE DEF next
<1>2. /\ r \in Checkpoints /\ r.at = next /\ r.scenarios = was.scenarios
      /\ r.round = was.round /\ r.spec_code = was.spec_code
  BY <1>1, <1>a DEF Checkpoints
<1> HIDE DEF r
<1>b. nods'[t].plans = IF yes THEN nods[t].plans \cup {was.scenarios} ELSE nods[t].plans
  BY <1>0 DEF AuthoringTypeOK
<1>c. /\ was.scenarios = was.round /\ was.round \in Nat /\ NothingYet(was, nods[t].plans)
      /\ was.spec_code <= was.round /\ nods[t].plans \subseteq 0..was.round
  BY <1>1 DEF Known, RoundKnown, Checkpoints
<1>4. RoundKnown(r, nods'[t].plans, nods'[t].specs)
  BY <1>2, <1>a, <1>b, <1>c DEF RoundKnown, NothingYet
<1>. QED BY <1>2, <1>3, <1>4

(* The spec is of the scenarios of the round.                              *)
LEMMA GenerateKeeps ==
  ASSUME AuthoringTypeOK, NEW t \in Papers, Known(t), Generate(t)
  PROVE  \E r \in Checkpoints : /\ thread' = [thread EXCEPT ![t] = r]
                                   /\ RoundKnown(r, nods'[t].plans, nods'[t].specs)
<1> DEFINE was == thread[t]
           r == [was EXCEPT !.spec_code = was.scenarios, !.at = "generation_approval"]
<1>1. was \in Checkpoints
  BY DEF AuthoringTypeOK
<1>a. was.at = "generate" /\ UNCHANGED nods
  BY DEF Generate, At
<1>c. /\ was.round \in Nat /\ nods'[t].plans \subseteq 0..was.round
      /\ was.round \in nods'[t].plans /\ was.scenarios = was.round
  BY <1>1, <1>a DEF Known, RoundKnown, Checkpoints
<1>2. /\ r \in Checkpoints /\ r.at = "generation_approval" /\ r.spec_code = was.scenarios
      /\ r.round = was.round /\ r.scenarios = was.scenarios
  BY <1>1, <1>a DEF Checkpoints
<1>3. thread' = [thread EXCEPT ![t] = r]
  BY <1>1 DEF Generate, AuthoringTypeOK, Checkpoints
<1> HIDE DEF r
<1>4. RoundKnown(r, nods'[t].plans, nods'[t].specs)
  BY <1>2, <1>a, <1>c DEF RoundKnown, NothingYet
<1>. QED BY <1>2, <1>3, <1>4

(* Approved, the spec of the round ends it; rejected, the outcome says so. *)
LEMMA AnswerSpecKeeps ==
  ASSUME AuthoringTypeOK, NEW t \in Papers, Known(t), AnswerSpec(t)
  PROVE  \E r \in Checkpoints : /\ thread' = [thread EXCEPT ![t] = r]
                                   /\ RoundKnown(r, nods'[t].plans, nods'[t].specs)
<1>0. PICK yes \in BOOLEAN :
        /\ thread' = [thread EXCEPT
             ![t].generation_approved = yes,
             ![t].outcome = IF yes THEN "ready_to_commit" ELSE "generation_rejected",
             ![t].at = IF yes THEN "end" ELSE "rejected"]
        /\ nods' = IF yes THEN [nods EXCEPT ![t].specs = @ \cup {thread[t].spec_code}] ELSE nods
  BY DEF AnswerSpec
<1> DEFINE was == thread[t]
           out == IF yes THEN "ready_to_commit" ELSE "generation_rejected"
           next == IF yes THEN "end" ELSE "rejected"
           r == [was EXCEPT !.generation_approved = yes, !.outcome = out, !.at = next]
<1>1. was \in Checkpoints /\ was.at = "generation_approval"
  BY DEF AuthoringTypeOK, AnswerSpec, At
<1>2. /\ r \in Checkpoints /\ r.at = next /\ r.outcome = out
      /\ r.round = was.round /\ r.spec_code = was.spec_code
  BY <1>1 DEF Checkpoints
<1>3. thread' = [thread EXCEPT ![t] = r]
  BY <1>0, <1>1 DEF AuthoringTypeOK, Checkpoints
<1> HIDE DEF r
<1>b. /\ nods'[t].plans = nods[t].plans
      /\ yes => was.spec_code \in nods'[t].specs
  BY <1>0 DEF AuthoringTypeOK
<1>4. RoundKnown(r, nods'[t].plans, nods'[t].specs)
  BY <1>1, <1>2, <1>b DEF Known, RoundKnown, NothingYet, Checkpoints
<1>. QED BY <1>2, <1>3, <1>4

(* What a rejected plan ends with is no spec of the round.                 *)
LEMMA RejectKeeps ==
  ASSUME AuthoringTypeOK, NEW t \in Papers, Known(t), Reject(t)
  PROVE  \E r \in Checkpoints : /\ thread' = [thread EXCEPT ![t] = r]
                                   /\ RoundKnown(r, nods'[t].plans, nods'[t].specs)
<1> DEFINE was == thread[t]
           out == IF was.outcome = "" THEN "plan_rejected" ELSE was.outcome
           r == [was EXCEPT !.outcome = out, !.at = "end"]
<1>1. was \in Checkpoints /\ was.at = "rejected"
  BY DEF AuthoringTypeOK, Reject, At
<1>2. /\ r \in Checkpoints /\ r.at = "end" /\ r.outcome = out
      /\ r.round = was.round /\ r.spec_code = was.spec_code
  BY <1>1 DEF Checkpoints
<1>3. thread' = [thread EXCEPT ![t] = r]
  BY <1>1 DEF Reject, AuthoringTypeOK, Checkpoints
<1> HIDE DEF r
<1>4. RoundKnown(r, nods'[t].plans, nods'[t].specs)
  BY <1>1, <1>2 DEF Reject, Known, RoundKnown, NothingYet, Checkpoints
<1>. QED BY <1>2, <1>3, <1>4

(* Every step of the authoring graph keeps what is known of each thread.   *)
LEMMA AuthoringStep == AuthoringInv /\ AuthoringNext => AuthoringInv'
<1> SUFFICES ASSUME AuthoringInv, NEW t \in Papers,
                    \/ Invoke(t) \/ Plan(t) \/ AnswerPlan(t)
                    \/ Generate(t) \/ AnswerSpec(t) \/ Reject(t)
             PROVE AuthoringInv'
  BY DEF AuthoringNext
<1>1. AuthoringTypeOK /\ Known(t) /\ \A p \in Papers : Known(p)
  BY DEF AuthoringInv
<1>2. PICK r \in Checkpoints : /\ thread' = [thread EXCEPT ![t] = r]
                               /\ RoundKnown(r, nods'[t].plans, nods'[t].specs)
  BY <1>1, InvokeKeeps, PlanKeeps, AnswerPlanKeeps, GenerateKeeps, AnswerSpecKeeps, RejectKeeps
<1>3. /\ nods' \in [Papers -> [plans : SUBSET Nat, specs : SUBSET Nat]]
      /\ \A p \in Papers : p # t => nods'[p] = nods[p]
  <2>0. thread[t].scenarios \in Nat /\ thread[t].spec_code \in Nat
    BY <1>1 DEF AuthoringTypeOK, Checkpoints
  <2>1. CASE UNCHANGED nods
    BY <1>1, <2>1 DEF AuthoringTypeOK
  <2>2. CASE nods' = [nods EXCEPT ![t].plans = @ \cup {thread[t].scenarios}]
    BY <1>1, <2>0, <2>2 DEF AuthoringTypeOK
  <2>3. CASE nods' = [nods EXCEPT ![t].specs = @ \cup {thread[t].spec_code}]
    BY <1>1, <2>0, <2>3 DEF AuthoringTypeOK
  <2>. QED BY <2>1, <2>2, <2>3 DEF Invoke, Plan, AnswerPlan, Generate, AnswerSpec, Reject
<1>4. AuthoringTypeOK'
  BY <1>1, <1>2, <1>3 DEF AuthoringTypeOK
<1>5. ASSUME NEW p \in Papers PROVE Known(p)'
  <2>1. CASE p = t BY <1>1, <1>2, <2>1 DEF AuthoringTypeOK, Known
  <2>2. CASE p # t
    <3>1. thread'[p] = thread[p] /\ nods'[p] = nods[p]
      BY <1>1, <1>2, <1>3, <2>2 DEF AuthoringTypeOK
    <3>. QED BY <1>1, <3>1 DEF Known
  <2>. QED BY <2>1, <2>2
<1>. QED BY <1>4, <1>5 DEF AuthoringInv

(* Every step of the healer graph keeps suspicions and records in line.    *)
LEMMA HealingStep == HealingInv /\ HealingNext => HealingInv'
<1> SUFFICES ASSUME HealingInv, NEW j \in Jobs,
                    RunTest(j) \/ Classify(j) \/ ApplyFix(j) \/ Record(j) \/ JobDies(j)
             PROVE HealingInv'
  BY DEF HealingNext
<1>0. HealingTypeOK /\ SuspicionEscalates /\ RecordsAreFinal
  BY DEF HealingInv
<1>1. ASSUME NEW r \in Healers, heal' = [heal EXCEPT ![j] = r], UNCHANGED outcomes,
             heal[j].at # "end",
             suspected \subseteq suspected', suspected' \subseteq suspected \cup {j},
             r.type = "behavior_change" => j \in suspected',
             j \in suspected' => r.at \in {"escalate", "end", "dead"}
      PROVE HealingInv'
  <2>1. HealingTypeOK'
    BY <1>0, <1>1 DEF HealingTypeOK
  <2>2. \A x \in outcomes : x.job \in Jobs /\ x.job # j /\ heal'[x.job].at = "end"
    BY <1>0, <1>1 DEF HealingTypeOK, RecordsAreFinal
  <2>3. SuspicionEscalates'
    BY <1>0, <1>1, <2>2 DEF HealingTypeOK, SuspicionEscalates, RecordsAreFinal, FalseHeals
  <2>4. RecordsAreFinal'
    BY <1>0, <1>1, <2>2 DEF HealingTypeOK, RecordsAreFinal
  <2>. QED BY <2>1, <2>3, <2>4 DEF HealingInv
<1> DEFINE was == heal[j]
<1>2. was \in Healers /\ (was.type = "behavior_change" => j \in suspected)
      /\ (j \in suspected => was.at \in {"escalate", "end", "dead"})
  BY <1>0 DEF HealingTypeOK, RecordsAreFinal, SuspicionEscalates
<1>3. CASE RunTest(j)
  <2>1. PICK to \in {"record_healed", "classify"} :
          was.at = "run" /\ heal' = [heal EXCEPT ![j].at = to]
    BY <1>3 DEF RunTest, Goes
  <2> DEFINE r == [was EXCEPT !.at = to]
  <2>2. r \in Healers /\ r.type = was.type
    BY <1>2 DEF Healers
  <2>3. heal' = [heal EXCEPT ![j] = r]
    BY <2>1
  <2> HIDE DEF r
  <2>. QED BY <1>1, <1>2, <1>3, <2>1, <2>2, <2>3 DEF RunTest
<1>4. CASE Classify(j)
  <2>1. PICK type \in HealTypes :
          /\ heal' = [heal EXCEPT ![j].type = type, ![j].at = AfterClassify(j, type)]
          /\ suspected' = IF type \in DriftTypes THEN suspected ELSE suspected \cup {j}
    BY <1>4 DEF Classify
  <2> DEFINE next == AfterClassify(j, type)
             r == [was EXCEPT !.type = type, !.at = next]
  <2>2. /\ next \in {"escalate", "mark_skipped", "apply_fix"}
        /\ type \notin DriftTypes => next = "escalate"
    BY DEF AfterClassify
  <2>3. heal' = [heal EXCEPT ![j] = r]
    BY <1>0, <2>1 DEF HealingTypeOK, Healers
  <2> HIDE DEF next
  <2>4. r \in Healers /\ r.type = type /\ r.at = next
    BY <1>2, <2>2 DEF Healers
  <2> HIDE DEF r
  <2>5. "behavior_change" \notin DriftTypes
    BY DEF DriftTypes
  <2>6. was.at = "classify" /\ UNCHANGED outcomes
    BY <1>4 DEF Classify
  <2>7. j \notin suspected
    BY <1>2, <2>6
  <2>. QED BY <1>1, <2>1, <2>2, <2>3, <2>4, <2>5, <2>6, <2>7
<1>5. CASE ApplyFix(j)
  <2> DEFINE r == [was EXCEPT !.attempt = was.attempt + 1, !.at = "run"]
  <2>1. heal' = [heal EXCEPT ![j] = r]
    BY <1>0, <1>5 DEF ApplyFix, HealingTypeOK, Healers
  <2>a. was.attempt \in Nat
    BY <1>2 DEF Healers
  <2>b. was.attempt + 1 \in Nat
    BY <2>a
  <2>2. r \in Healers /\ r.type = was.type /\ r.at = "run"
    BY <1>2, <2>b DEF Healers
  <2>3. was.at = "apply_fix" /\ UNCHANGED <<outcomes, suspected>>
    BY <1>5 DEF ApplyFix
  <2> HIDE DEF r
  <2>. QED BY <1>1, <1>2, <2>1, <2>2, <2>3
<1>6. CASE Record(j)
  <2> DEFINE line == [job |-> j, type |-> was.type, outcome |-> OutcomeOf(was.at)]
             r == [was EXCEPT !.at = "end"]
  <2>1. /\ was.at \in {"record_healed", "escalate", "mark_skipped"}
        /\ outcomes' = outcomes \cup {line} /\ heal' = [heal EXCEPT ![j] = r]
        /\ UNCHANGED suspected
    BY <1>6 DEF Record
  <2>2. /\ OutcomeOf(was.at) \in {"healed", "escalated", "skipped"}
        /\ was.at = "escalate" => OutcomeOf(was.at) = "escalated"
    BY <2>1 DEF OutcomeOf
  <2>3. r \in Healers /\ r.at = "end" /\ r.type = was.type
    BY <1>2 DEF Healers
  <2>4. line.job = j /\ line.type = was.type
        /\ line \in [job : Jobs, type : HealTypes \cup {""},
                    outcome : {"healed", "escalated", "skipped"}]
        /\ (was.at = "escalate" => line.outcome = "escalated")
    BY <1>2, <2>2 DEF Healers
  <2> HIDE DEF r, line
  <2>5. HealingTypeOK'
    BY <1>0, <2>1, <2>3, <2>4 DEF HealingTypeOK
  <2>6. /\ heal'[j] = r
        /\ \A k \in Jobs : k # j => heal'[k] = heal[k]
    BY <1>0, <2>1 DEF HealingTypeOK
  <2>7. j \in suspected => line.outcome = "escalated"
    BY <1>2, <2>1, <2>4
  <2>8. SuspicionEscalates'
    BY <1>0, <1>2, <2>1, <2>3, <2>4, <2>6, <2>7 DEF HealingTypeOK, SuspicionEscalates, FalseHeals
  <2>9. RecordsAreFinal'
    BY <1>0, <1>2, <2>1, <2>3, <2>4, <2>6 DEF HealingTypeOK, RecordsAreFinal
  <2>. QED BY <2>5, <2>8, <2>9 DEF HealingInv
<1>7. CASE JobDies(j)
  <2> DEFINE r == [was EXCEPT !.at = "dead"]
  <2>1. heal' = [heal EXCEPT ![j] = r] /\ was.at # "end" /\ UNCHANGED <<outcomes, suspected>>
    BY <1>7 DEF JobDies
  <2>2. r \in Healers /\ r.type = was.type /\ r.at = "dead"
    BY <1>2 DEF Healers
  <2> HIDE DEF r
  <2>. QED BY <1>1, <1>2, <2>1, <2>2
<1>. QED BY <1>3, <1>4, <1>5, <1>6, <1>7

(* Authoring keeps to its types and to CommitsAreApproved, for any number   *)
(* of threads and rounds.                                                  *)
LEMMA AuthoringHolds == Spec => []AuthoringInv
<1>1. AuthoringInv /\ [Next]_vars => AuthoringInv'
  <2> SUFFICES ASSUME AuthoringInv, [Next]_vars PROVE AuthoringInv'
    OBVIOUS
  <2>1. CASE AuthoringNext BY <2>1, AuthoringStep
  <2>2. CASE UNCHANGED authoringVars
    BY <2>2 DEF authoringVars, AuthoringInv, AuthoringTypeOK, Known
  <2>. QED BY <2>1, <2>2 DEF Next, vars
<1>. QED BY <1>1, InitInvs, PTL DEF Spec

(* Healing keeps to its types and to SuspicionEscalates, for any number of  *)
(* jobs and attempts.                                                      *)
LEMMA HealingHolds == Spec => []HealingInv
<1>1. HealingInv /\ [Next]_vars => HealingInv'
  <2> SUFFICES ASSUME HealingInv, [Next]_vars PROVE HealingInv'
    OBVIOUS
  <2>1. CASE HealingNext BY <2>1, HealingStep
  <2>2. CASE UNCHANGED healVars
    BY <2>2 DEF healVars, HealingInv, HealingTypeOK, SuspicionEscalates, RecordsAreFinal, FalseHeals
  <2>. QED BY <2>1, <2>2 DEF Next, vars
<1>. QED BY <1>1, InitInvs, PTL DEF Spec

(* Both graphs keep to their types (AuthoringState, HealerState).          *)
THEOREM TypesCorrect == Spec => [](AuthoringTypeOK /\ HealingTypeOK)
<1>1. AuthoringInv => AuthoringTypeOK
  BY DEF AuthoringInv
<1>2. HealingInv => HealingTypeOK
  BY DEF HealingInv
<1>. QED BY <1>1, <1>2, AuthoringHolds, HealingHolds, PTL

(* A thread ends ready_to_commit with a spec for the last feature only if  *)
(* a human approved its scenarios and the spec, and with an older spec     *)
(* only if the last plan was rejected (build_authoring_graph).             *)
THEOREM CommitsAlwaysApproved == Spec => []CommitsAreApproved
<1>1. AuthoringInv => CommitsAreApproved
  BY DEF AuthoringInv, Known, RoundKnown, NothingYet, CommitsAreApproved, At
<1>. QED BY <1>1, AuthoringHolds, PTL

(* A failure once suspected to be the application's is escalated or its    *)
(* job dies, however often the test runs, and false_heal_rate is 0         *)
(* (route_after_classify, compute_heal_metrics).                           *)
THEOREM SuspicionsEscalate == Spec => []SuspicionEscalates
<1>1. HealingInv => SuspicionEscalates
  BY DEF HealingInv
<1>. QED BY <1>1, HealingHolds, PTL


\* Without approval there is no marker anywhere and no label.
ApprovalIsKnown ==
  approved \/ /\ ~main.marker
              /\ \A p \in Pulls : ~pull[p].label /\ ~pull[p].from.marker /\ ~pull[p].head.marker

\* What passed is no finding, on the base branch it was checked against.
PassedIsWeighed ==
  \A p \in Pulls : pull[p].at = "passed" =>
    ~Blocks(pull[p].seen, MergeInto(pull[p].seen, p), pull[p].label)

\* A spec is deleted by approval only.
SpecStays == approved \/ overtaken \/ main.there

\* Nothing that the guard counts against a spec is worse than before.
AsStrong(before, after) ==
  /\ Cardinality(Written(after)) >= Cardinality(Written(before))
  /\ Skips(after) <= Skips(before)
  /\ \A forms \in {Loose, Negated} : Of(after, forms) <= Of(before, forms)

(* A spec on the base branch is as strong as at first as long as nobody    *)
(* approved anything and no check was overtaken.                           *)
GuardInv ==
  /\ GuardTypeOK /\ ApprovalIsKnown /\ PassedIsWeighed /\ SpecStays
  /\ approved \/ overtaken \/ AsStrong(first, main)

LEMMA NewSpec ==
  ASSUME NEW spec \in Firsts
  PROVE  spec \in SpecStates /\ spec.there /\ ~spec.marker
<1>1. PICK o \in Originals :
         spec = [there |-> TRUE, marker |-> FALSE, text |-> o.text, skips |-> o.skips]
  BY DEF Firsts
<1>2. o.text \in [Assertions -> Texts] /\ o.skips \in SUBSET Tests
  BY AssertionGuardAssumption
<1> QED BY <1>1, <1>2 DEF SpecStates

LEMMA DeletedIsASpec == Deleted \in SpecStates /\ ~Deleted.marker
<1> DEFINE none == CHOOSE t \in Tests : TRUE
<1>1. none \in Tests
  BY AssertionGuardAssumption
<1> HIDE DEF none
<1>2. [a \in Assertions |-> [form |-> "absent", test |-> none]] \in [Assertions -> Texts]
  BY <1>1 DEF Texts, Forms
<1> QED BY <1>2 DEF Deleted, SpecStates, none

LEMMA PullKinds ==
  ASSUME NEW begun \in {"none", "new", "merged"}
  PROVE  LET r == [NoPull EXCEPT !.at = begun]
         IN  /\ r \in PullStates /\ r.at = begun /\ ~r.label
             /\ ~r.from.marker /\ ~r.head.marker
BY DeletedIsASpec DEF NoPull, PullStates

(* Counts of a spec are numbers.                                           *)
LEMMA Counted ==
  ASSUME NEW spec \in SpecStates
  PROVE  /\ Expects(spec) \in Nat /\ Expects(spec) = Cardinality(Written(spec))
         /\ Skips(spec) \in Nat
         /\ \A forms : Of(spec, forms) \in Nat
<1>1. \A S \in SUBSET Assertions : Cardinality(S) \in Nat
  BY AssertionGuardAssumption, FS_Subset, FS_CardinalityType
<1>2. Present(spec) = Written(spec)
  BY DEF Present, Written, SpecStates, Texts, Forms
<1>3. Expects(spec) \in Nat /\ Expects(spec) = Cardinality(Written(spec))
  BY <1>1, <1>2 DEF Expects, Written
<1>4. Skips(spec) \in Nat
  BY AssertionGuardAssumption, FS_Subset, FS_CardinalityType DEF Skips, SpecStates
<1>5. \A forms : Of(spec, forms) \in Nat
  BY <1>1 DEF Of
<1> QED BY <1>3, <1>4, <1>5

LEMMA StrengthIsTransitive ==
  ASSUME NEW x \in SpecStates, NEW y \in SpecStates, NEW z \in SpecStates,
         AsStrong(x, y), AsStrong(y, z)
  PROVE  AsStrong(x, z)
<1>1. \A spec \in {x, y, z} :
        /\ Cardinality(Written(spec)) \in Nat /\ Skips(spec) \in Nat
        /\ Of(spec, Loose) \in Nat /\ Of(spec, Negated) \in Nat
  BY Counted
<1> QED BY <1>1 DEF AsStrong

LEMMA StrengthIsReflexive ==
  ASSUME NEW spec \in SpecStates
  PROVE  AsStrong(spec, spec)
BY Counted DEF AsStrong

LEMMA GuardBegins == Init => GuardInv
<1> SUFFICES ASSUME Init PROVE GuardInv
  OBVIOUS
<1>1. PICK begun \in {"none", "new"} :
               /\ first \in Firsts /\ main = first /\ approved = FALSE
               /\ pull = [p \in Pulls |-> [NoPull EXCEPT !.at = begun]]
  BY DEF Init, GuardStart
<1> DEFINE r == [NoPull EXCEPT !.at = begun]
<1>2. r \in PullStates /\ r.at = begun /\ ~r.label /\ ~r.from.marker /\ ~r.head.marker
  BY PullKinds
<1>3. pull = [p \in Pulls |-> r]
  BY <1>1
<1> HIDE DEF r
<1>4. GuardTypeOK /\ \A p \in Pulls : pull[p] = r
  BY <1>1, <1>2, <1>3, NewSpec DEF GuardTypeOK
<1>5. ApprovalIsKnown
  BY <1>1, <1>2, <1>4, NewSpec DEF ApprovalIsKnown
<1>6. PassedIsWeighed
  BY <1>2, <1>4 DEF PassedIsWeighed
<1>7. SpecStays /\ AsStrong(first, main)
  BY <1>1, NewSpec, StrengthIsReflexive DEF SpecStays
<1> QED BY <1>4, <1>5, <1>6, <1>7 DEF GuardInv

(* What the guard lets pass without approval is there, and no weaker.      *)
LEMMA UnblockedIsAsStrong ==
  ASSUME NEW before \in SpecStates, NEW after \in SpecStates,
         before.there, ~after.marker, ~Blocks(before, after, FALSE)
  PROVE  after.there /\ AsStrong(before, after)
<1>1. after.there /\ ~Weaker(before, after)
  BY DEF Blocks
<1>2. /\ ~(Expects(after) < Expects(before)) /\ ~(Skips(after) > Skips(before))
      /\ \A forms \in {Loose, Negated} : ~(Of(after, forms) > Of(before, forms))
  BY <1>1 DEF Weaker
<1> QED BY <1>1, <1>2, Counted DEF AsStrong

(* Where no test was skipped at first and there are no more markers, every *)
(* assertion is in a test that runs.                                       *)
LEMMA UnskippedIsEvaluated ==
  ASSUME NEW before \in SpecStates, NEW after \in SpecStates,
         AsStrong(before, after), before.skips = {}
  PROVE  Cardinality(Evaluated(after)) >= Cardinality(Evaluated(before))
<1>1. IsFiniteSet(after.skips) /\ Cardinality(after.skips) = 0
  BY AssertionGuardAssumption, FS_Subset, FS_EmptySet, FS_CardinalityType, Counted
  DEF AsStrong, Skips, SpecStates
<1>2. after.skips = {}
  BY <1>1, FS_EmptySet
<1>3. Evaluated(after) = Written(after) /\ Evaluated(before) = Written(before)
  BY <1>2 DEF Evaluated, Written
<1> QED BY <1>3 DEF AsStrong

LEMMA MergesAreSpecs ==
  ASSUME NEW base \in SpecStates, NEW p \in Pulls, pull[p] \in PullStates
  PROVE  /\ MergeInto(base, p) \in SpecStates
         /\ (~base.marker /\ ~pull[p].from.marker /\ ~pull[p].head.marker)
              => ~MergeInto(base, p).marker
<1> DEFINE from == pull[p].from
           head == pull[p].head
           mark == Merged3(from.marker, head.marker, base.marker)
           skip == {t \in Tests : Merged3(t \in from.skips, t \in head.skips, t \in base.skips)}
           texts == [a \in Assertions |-> Merged3(from.text[a], head.text[a], base.text[a])]
           both == [there |-> TRUE, marker |-> mark, skips |-> skip, text |-> texts]
<1>1. from \in SpecStates /\ head \in SpecStates
  BY DEF PullStates
<1>2. mark \in BOOLEAN /\ ((~base.marker /\ ~from.marker /\ ~head.marker) => ~mark)
  BY <1>1 DEF Merged3, SpecStates
<1>3. texts \in [Assertions -> Texts] /\ skip \in SUBSET Tests
  BY <1>1 DEF Merged3, SpecStates
<1> HIDE DEF mark, texts, skip
<1>4. both \in SpecStates /\ both.marker = mark
  BY <1>2, <1>3 DEF SpecStates
<1>5. MergeInto(base, p) = IF base = from THEN head ELSE IF head = from THEN base ELSE both
  BY DEF MergeInto, mark, texts, skip
<1> HIDE DEF from, head, both
<1>6. MergeInto(base, p) \in SpecStates
  BY <1>1, <1>4, <1>5
<1>7. (~base.marker /\ ~from.marker /\ ~head.marker) => ~MergeInto(base, p).marker
  BY <1>2, <1>4, <1>5
<1> QED BY <1>6, <1>7 DEF from, head

(* A step that gives one pull request a new record and leaves main alone.  *)
LEMMA PullMoves ==
  ASSUME GuardInv, NEW p \in Pulls, NEW R \in PullStates, pull' = [pull EXCEPT ![p] = R],
         UNCHANGED <<first, main, overtaken>>, approved => approved',
         approved' \/ (~R.label /\ ~R.from.marker /\ ~R.head.marker), R.at # "passed"
  PROVE  GuardInv'
<1>1. GuardTypeOK' /\ pull'[p] = R /\ \A q \in Pulls \ {p} : pull'[q] = pull[q]
  BY DEF GuardInv, GuardTypeOK
<1>2. ApprovalIsKnown'
  BY <1>1 DEF GuardInv, ApprovalIsKnown
<1>3. PassedIsWeighed'
  <2>1. \A q \in Pulls \ {p} : MergeInto(pull[q].seen, q)' = MergeInto(pull[q].seen, q)
    BY <1>1 DEF MergeInto
  <2>2. ASSUME NEW q \in Pulls, pull'[q].at = "passed"
        PROVE  ~Blocks(pull[q].seen, MergeInto(pull[q].seen, q), pull[q].label)'
    <3>1. q # p
      BY <1>1, <2>2
    <3>2. ~Blocks(pull[q].seen, MergeInto(pull[q].seen, q), pull[q].label)
      BY <1>1, <2>2, <3>1 DEF GuardInv, PassedIsWeighed
    <3> QED BY <1>1, <2>1, <3>1, <3>2
  <2> QED BY <2>2 DEF PassedIsWeighed
<1>4. SpecStays' /\ (approved \/ overtaken \/ AsStrong(first, main))'
  BY DEF GuardInv, SpecStays
<1> QED BY <1>1, <1>2, <1>3, <1>4 DEF GuardInv


LEMMA GuardStep == GuardInv /\ GuardNext => GuardInv'
<1> SUFFICES ASSUME GuardInv, NEW p \in Pulls,
                    Open(p) \/ Push(p) \/ Label(p) \/ Check(p) \/ MergePull(p)
             PROVE  GuardInv'
  BY DEF GuardNext
<1> DEFINE was == pull[p]
<1>1. /\ first \in SpecStates /\ main \in SpecStates
      /\ pull \in [Pulls -> PullStates] /\ was \in PullStates
  BY DEF GuardInv, GuardTypeOK
<1>2. /\ was.from \in SpecStates /\ was.head \in SpecStates /\ was.seen \in SpecStates
      /\ was.label \in BOOLEAN
  BY <1>1 DEF PullStates
<1>3. approved \/ (~main.marker /\ ~was.label /\ ~was.from.marker /\ ~was.head.marker)
  BY DEF GuardInv, ApprovalIsKnown
<1>4. CASE Open(p)
  <2> DEFINE R == [at |-> "pushed", from |-> main, head |-> main, label |-> FALSE, seen |-> main]
  <2>1. pull' = [pull EXCEPT ![p] = R] /\ UNCHANGED <<first, main, approved, overtaken>>
    BY <1>4 DEF Open
  <2>2. R \in PullStates /\ R.at = "pushed" /\ ~R.label /\ R.from = main /\ R.head = main
    BY <1>1 DEF PullStates
  <2> HIDE DEF R
  <2> QED BY <1>3, <2>1, <2>2, PullMoves
<1>5. CASE Push(p)
  <2>1. PICK spec \in Edited(was.head) :
               /\ pull' = [pull EXCEPT ![p].at = "pushed", ![p].head = spec]
               /\ approved' = (approved \/ spec.marker)
    BY <1>5 DEF Push
  <2>2. spec \in SpecStates
    <3>1. CASE spec = Deleted
      BY <3>1, DeletedIsASpec
    <3>2. CASE spec = [was.head EXCEPT !.marker = ~@]
      BY <1>2, <3>2 DEF SpecStates
    <3>3. CASE \E a \in Assertions, f \in Forms : spec = [was.head EXCEPT !.text[a].form = f]
      <4>1. PICK a \in Assertions, f \in Forms : spec = [was.head EXCEPT !.text[a].form = f]
        BY <3>3
      <4> DEFINE piece == [was.head.text[a] EXCEPT !.form = f]
                 text == [was.head.text EXCEPT ![a] = piece]
      <4>2. was.head.text \in [Assertions -> Texts] /\ piece \in Texts
        BY <1>2 DEF SpecStates, Texts
      <4>3. text \in [Assertions -> Texts] /\ spec = [was.head EXCEPT !.text = text]
        BY <4>1, <4>2
      <4> HIDE DEF text
      <4> QED BY <1>2, <4>3 DEF SpecStates
    <3>4. CASE \E a \in Present(was.head), t \in Tests :
                 spec = [was.head EXCEPT !.text[a].test = t]
      <4>1. PICK a \in Assertions, t \in Tests : spec = [was.head EXCEPT !.text[a].test = t]
        BY <3>4 DEF Present
      <4> DEFINE piece == [was.head.text[a] EXCEPT !.test = t]
                 text == [was.head.text EXCEPT ![a] = piece]
      <4>2. was.head.text \in [Assertions -> Texts] /\ piece \in Texts
        BY <1>2 DEF SpecStates, Texts
      <4>3. text \in [Assertions -> Texts] /\ spec = [was.head EXCEPT !.text = text]
        BY <4>1, <4>2
      <4> HIDE DEF text
      <4> QED BY <1>2, <4>3 DEF SpecStates
    <3>5. CASE \E t \in Tests :
                 spec = [was.head EXCEPT !.skips = IF t \in @ THEN @ \ {t} ELSE @ \cup {t}]
      BY <1>2, <3>5 DEF SpecStates
    <3> QED BY <2>1, <3>1, <3>2, <3>3, <3>4, <3>5 DEF Edited
  <2> DEFINE R == [was EXCEPT !.at = "pushed", !.head = spec]
  <2>3. pull' = [pull EXCEPT ![p] = R] /\ UNCHANGED <<first, main, overtaken>>
    BY <1>1, <1>5, <2>1 DEF Push
  <2>4. /\ R \in PullStates /\ R.at = "pushed" /\ R.label = was.label /\ R.from = was.from
        /\ R.head = spec
    BY <1>1, <2>2 DEF PullStates
  <2> HIDE DEF R
  <2> QED BY <1>3, <2>1, <2>3, <2>4, PullMoves
<1>6. CASE Label(p)
  <2> DEFINE R == [was EXCEPT !.at = "pushed", !.label = ~@]
  <2>1. pull' = [pull EXCEPT ![p] = R] /\ UNCHANGED <<first, main, overtaken>> /\ approved' = TRUE
    BY <1>1, <1>6 DEF Label
  <2>2. R \in PullStates /\ R.at = "pushed"
    BY <1>1 DEF PullStates
  <2> HIDE DEF R
  <2> QED BY <2>1, <2>2, PullMoves
<1>7. CASE Check(p)
  <2> DEFINE R == [was EXCEPT !.at = IF Blocks(main, Merge(p), was.label) THEN "blocked" ELSE "passed",
                              !.seen = main]
  <2>1. pull' = [pull EXCEPT ![p] = R] /\ UNCHANGED <<first, main, approved, overtaken>>
    BY <1>1, <1>7 DEF Check
  <2>2. /\ R \in PullStates /\ R.from = was.from /\ R.head = was.head /\ R.label = was.label
        /\ R.seen = main /\ R.at \in {"blocked", "passed"}
        /\ R.at = "passed" => ~Blocks(main, Merge(p), was.label)
    BY <1>1 DEF PullStates
  <2> HIDE DEF R
  <2>3. CASE R.at # "passed"
    BY <1>3, <2>1, <2>2, <2>3, PullMoves
  <2>4. CASE R.at = "passed"
    <3>1. GuardTypeOK' /\ pull'[p] = R /\ \A q \in Pulls \ {p} : pull'[q] = pull[q]
      BY <1>1, <2>1, <2>2 DEF GuardTypeOK
    <3>2. ApprovalIsKnown'
      BY <1>3, <2>1, <2>2, <3>1 DEF GuardInv, ApprovalIsKnown
    <3>3. PassedIsWeighed'
      <4>1. \A q \in Pulls \ {p} : MergeInto(pull[q].seen, q)' = MergeInto(pull[q].seen, q)
        BY <3>1 DEF MergeInto
      <4>2. MergeInto(pull[p].seen, p)' = Merge(p)
        BY <2>2, <3>1 DEF MergeInto, Merge
      <4>3. ~Blocks(pull[p].seen, MergeInto(pull[p].seen, p), pull[p].label)'
        BY <2>2, <2>4, <3>1, <4>2
      <4>4. ASSUME NEW q \in Pulls \ {p}, pull'[q].at = "passed"
            PROVE  ~Blocks(pull[q].seen, MergeInto(pull[q].seen, q), pull[q].label)'
        <5>1. ~Blocks(pull[q].seen, MergeInto(pull[q].seen, q), pull[q].label)
          BY <3>1, <4>4 DEF GuardInv, PassedIsWeighed
        <5> QED BY <3>1, <4>1, <4>4, <5>1
      <4> QED BY <4>3, <4>4 DEF PassedIsWeighed
    <3>4. SpecStays' /\ (approved \/ overtaken \/ AsStrong(first, main))'
      BY <2>1 DEF GuardInv, SpecStays
    <3> QED BY <3>1, <3>2, <3>3, <3>4 DEF GuardInv
  <2> QED BY <2>3, <2>4
<1>8. CASE MergePull(p)
  <2> DEFINE R == [NoPull EXCEPT !.at = "merged"]
             M == MergeInto(main, p)
  <2>1. /\ was.at = "passed" /\ main' = M /\ pull' = [pull EXCEPT ![p] = R]
        /\ UNCHANGED <<first, approved>>
    BY <1>8 DEF MergePull, Merge
  <2>2. overtaken' = (overtaken \/ was.seen # main)
    BY <1>8 DEF MergePull
  <2>3. R \in PullStates /\ R.at = "merged" /\ ~R.label /\ ~R.from.marker /\ ~R.head.marker
    BY PullKinds
  <2>4. M \in SpecStates /\ (approved \/ ~M.marker)
    BY <1>1, <1>3, MergesAreSpecs
  <2> HIDE DEF R
  <2>5. GuardTypeOK' /\ pull'[p] = R /\ \A q \in Pulls \ {p} : pull'[q] = pull[q]
    BY <1>1, <2>1, <2>3, <2>4 DEF GuardTypeOK
  <2>6. ApprovalIsKnown'
    BY <2>1, <2>3, <2>4, <2>5 DEF GuardInv, ApprovalIsKnown
  <2>7. PassedIsWeighed'
    <3>1. \A q \in Pulls \ {p} : MergeInto(pull[q].seen, q)' = MergeInto(pull[q].seen, q)
      BY <2>5 DEF MergeInto
    <3>2. ASSUME NEW q \in Pulls, pull'[q].at = "passed"
          PROVE  ~Blocks(pull[q].seen, MergeInto(pull[q].seen, q), pull[q].label)'
      <4>1. q # p
        BY <2>3, <2>5, <3>2
      <4>2. ~Blocks(pull[q].seen, MergeInto(pull[q].seen, q), pull[q].label)
        BY <2>5, <3>2, <4>1 DEF GuardInv, PassedIsWeighed
      <4> QED BY <2>5, <3>1, <4>1, <4>2
    <3> QED BY <3>2 DEF PassedIsWeighed
  <2>8. ASSUME ~approved, ~overtaken'
        PROVE  main'.there /\ AsStrong(first, M)
    <3>1. ~overtaken /\ was.seen = main
      BY <2>2, <2>8
    <3>2. ~was.label
      BY <1>3, <2>8
    <3>3. ~Blocks(main, M, FALSE)
      <4>1. ~Blocks(was.seen, MergeInto(was.seen, p), was.label)
        BY <2>1 DEF GuardInv, PassedIsWeighed
      <4>2. was.label = FALSE
        BY <1>2, <3>2
      <4> QED BY <3>1, <4>1, <4>2
    <3>4. main.there /\ ~M.marker
      BY <2>4, <2>8, <3>1 DEF GuardInv, SpecStays
    <3>5. M.there /\ AsStrong(main, M)
      BY <1>1, <2>4, <3>3, <3>4, UnblockedIsAsStrong
    <3>6. AsStrong(first, main) /\ first \in SpecStates
      BY <2>8, <3>1 DEF GuardInv, GuardTypeOK
    <3> HIDE DEF M
    <3> QED BY <1>1, <2>1, <2>4, <3>5, <3>6, StrengthIsTransitive
  <2>9. SpecStays' /\ (approved \/ overtaken \/ AsStrong(first, main))'
    <3>1. AsStrong(first, main)' <=> AsStrong(first, M)
      BY <2>1 DEF AsStrong
    <3> QED BY <2>1, <2>8, <3>1 DEF SpecStays
  <2> QED BY <2>5, <2>6, <2>7, <2>9 DEF GuardInv
<1> QED BY <1>4, <1>5, <1>6, <1>7, <1>8

LEMMA GuardHolds == Spec => []GuardInv
<1>1. GuardInv /\ [Next]_vars => GuardInv'
  <2> SUFFICES ASSUME GuardInv, [Next]_vars PROVE GuardInv'
    OBVIOUS
  <2>1. CASE GuardNext BY <2>1, GuardStep
  <2>2. CASE UNCHANGED guardVars
    <3>1. UNCHANGED <<first, main, pull, approved, overtaken>>
      BY <2>2 DEF guardVars
    <3>2. PassedIsWeighed'
      BY <3>1 DEF GuardInv, PassedIsWeighed, MergeInto
    <3> QED BY <3>1, <3>2
         DEF GuardInv, GuardTypeOK, ApprovalIsKnown, SpecStays
  <2>. QED BY <2>1, <2>2 DEF Next, vars
<1>. QED BY <1>1, GuardBegins, PTL DEF Spec

(* Without a human's approval the spec on the base branch has no fewer     *)
(* assertions, no more skip markers and no more loose or negated matchers  *)
(* than at first, after any number of merges of any number of pull         *)
(* requests, unless one was merged that had been checked against an older  *)
(* base branch; and if no test was skipped at first, it evaluates no fewer *)
(* (compare, _show).                                                       *)
THEOREM GuardHoldsTheLine == Spec => []WeakerOnlyIfApproved
<1>1. GuardInv => WeakerOnlyIfApproved
  <2> SUFFICES ASSUME GuardInv, ~approved, ~overtaken PROVE WeakerOnlyIfApproved
    BY DEF WeakerOnlyIfApproved
  <2>1. AsStrong(first, main) /\ first \in SpecStates /\ main \in SpecStates
    BY DEF GuardInv, GuardTypeOK
  <2>2. first.skips = {} => Cardinality(Evaluated(main)) >= Cardinality(Evaluated(first))
    BY <2>1, UnskippedIsEvaluated
  <2> QED BY <2>1, <2>2 DEF WeakerOnlyIfApproved, AsStrong
<1>. QED BY <1>1, GuardHolds, PTL

----------------------------------------------------------------------------
(* The review of drafts *)

\* Ids and births are given in order, and an id is one birth's for good.
IdsInOrder ==
  /\ \A i \in Live : i <= births
  /\ database = "postgres" => \A i \in Live : case[i] = i
  /\ \A i, j \in Live : case[i] = case[j] => i = j
  /\ drafted \subseteq 1..births

\* The drafts of the batch are at most two, at their ids while they are in the
\* suite, and nothing at their ids has a review yet.
BatchAtHome ==
  /\ saver.at = "idle" => saver.batch = {}
  /\ saver.at # "idle" => \E p, q \in saver.batch : saver.batch = {p, q}
  /\ \A p, q \in saver.batch : p[1] = q[1] => p = q
  /\ \A p \in saver.batch :
       p[2] <= births /\ (p[2] \in LiveBirths => case[p[1]] = p[2])
  /\ \A p \in saver.batch : \A k \in 1..Len(reviews) : reviews[k].of # case[p[1]]

\* A text that is being embedded is that of the test case at its id, unless that
\* one was deleted.
OfTheCase(i, b) == case[i] = b \/ b \in removed \cup crossed

TextsAreCurrent ==
  /\ saver.at = "embedding" => saver.todo # {} /\ OfTheCase(Min(saver.todo), saver.text)
  /\ \A p \in reading : p[2] # Null /\ OfTheCase(p[1], p[2])

\* A review is of a birth of its own, which has the id the review holds.
ReviewsAtHome ==
  \A k \in 1..Len(reviews) :
    /\ reviews[k].of <= births
    /\ reviews[k].verdict # "rejected" => reviews[k].id # Null \/ k \in together
    /\ reviews[k].id # Null /\ reviews[k].of \in LiveBirths =>
         case[reviews[k].id] = reviews[k].of
    /\ \A j \in 1..Len(reviews) : reviews[j].of = reviews[k].of => j = k

Excused(k) ==
  LET b == reviews[k].of IN k \in together \/ b \in removed \/ DecidedElsewhere(b)

\* The test case of a review is as its verdict says.
Kept(b) == status[b] = "active" \/ b \in withdrawn

Follows(k) ==
  IF reviews[k].verdict = "rejected" THEN reviews[k].of \notin LiveBirths
  ELSE reviews[k].of \in LiveBirths /\ (reviews[k].verdict # "pending" => Kept(reviews[k].of))

\* What a request of review_draft knows of the review it has open.
OpenedReview(r) ==
  LET k == reviewer[r].review
  IN  /\ k # 0
      /\ reviews[k].verdict = "pending" \/ k \in together
      /\ \A q \in Reviewers : reviewer[q].review = k /\ q # r => k \in together
      /\ reviewer[r].id = reviews[k].id \/ Excused(k)
      /\ reviewer[r].active => Excused(k) \/ Kept(reviews[k].of)

RequestsInStep ==
  \A r \in Reviewers :
    IF reviewer[r].at = "idle" THEN reviewer[r].review = 0 ELSE OpenedReview(r)

DraftInv ==
  /\ ReviewTypeOK /\ IdsInOrder /\ BatchAtHome /\ TextsAreCurrent /\ ReviewsAtHome
  /\ RequestsInStep /\ VerdictsTakeEffect /\ EveryDraftReviewable

\* The database gives new ids where nobody lives, up to the number of births.
LEMMA NextIdFree ==
  ASSUME ReviewTypeOK, IdsInOrder
  PROVE  NextId \in 1..births + 1 /\ \A i \in Ids : NextId <= i => case[i] = Null
<1>1. births \in Nat /\ Live \in SUBSET (1..births)
  BY DEF ReviewTypeOK, IdsInOrder, Live, Ids, Births
<1>2. \A i \in Ids : i \in Live <=> case[i] # Null
  BY DEF Live
<1>3. CASE database = "postgres" \/ Live = {}
  BY <1>1, <1>2, <1>3 DEF NextId, Ids, Births
<1>4. CASE database # "postgres" /\ Live # {}
  <2>1. Max(Live) \in Live /\ \A k \in Live : k <= Max(Live)
    BY <1>1, <1>4, MaxIsLargest
  <2>2. PICK m \in Live : m = Max(Live)
    BY <2>1
  <2>3. NextId = m + 1 /\ \A k \in Live : k <= m
    BY <1>4, <2>1, <2>2 DEF NextId
  <2>4. m \in 1..births
    BY <1>1, <2>2
  <2>5. NextId \in 1..births + 1
    BY <1>1, <2>3, <2>4
  <2>6. ASSUME NEW i \in Ids, NextId <= i PROVE case[i] = Null
    <3>1. i \notin Live
      BY <2>3, <2>4, <2>6, <1>1 DEF Ids, Births
    <3> QED BY <3>1, <1>2
  <2> QED BY <2>5, <2>6
<1> QED BY <1>3, <1>4

(* How test cases come and go: what the id of one holds stays, goes, or is new *)

Moves ==
  /\ births <= births'
  /\ \A i \in Ids : \/ case'[i] = case[i] \/ case'[i] = Null
                    \/ case[i] = Null /\ births < case'[i]

Onward ==
  /\ together \subseteq together' /\ removed \subseteq removed' /\ decided \subseteq decided'
  /\ Len(reviews) <= Len(reviews')
  /\ \A k \in 1..Len(reviews) : reviews'[k].of = reviews[k].of

LEMMA ReviewFields ==
  ASSUME ReviewTypeOK
  PROVE  /\ Len(reviews) \in Nat /\ births \in Nat
         /\ \A k \in 1..Len(reviews) :
              /\ reviews[k] \in [id : Ids \cup {Null}, of : Births,
                                 verdict : Verdicts \cup {"pending"}]
              /\ reviews[k].of \in Nat \ {0}
<1> DEFINE R == [id : Ids \cup {Null}, of : Births, verdict : Verdicts \cup {"pending"}]
<1>1. reviews \in Seq(R) /\ births \in Nat
  BY DEF ReviewTypeOK
<1>2. \A x \in R : x.of \in Nat \ {0}
  BY DEF Births
<1> HIDE DEF R
<1>3. Len(reviews) \in Nat /\ \A k \in 1..Len(reviews) : reviews[k] \in R
  BY <1>1
<1> QED BY <1>1, <1>2, <1>3 DEF R

LEMMA ExcusesStay ==
  ASSUME ReviewTypeOK, Onward, Len(reviews') \in Nat, NEW k \in 1..Len(reviews), Excused(k)
  PROVE  Excused(k)'
<1>1. reviews'[k].of = reviews[k].of
  BY DEF Onward
<1>2. ASSUME DecidedElsewhere(reviews[k].of)
      PROVE  DecidedElsewhere(reviews[k].of)'
  <2>1. PICK d \in decided : d[2] = reviews[k].of /\ reviews[d[1]].of # reviews[k].of
    BY <1>2 DEF DecidedElsewhere
  <2>2. d \in decided' /\ d[1] \in 1..Len(reviews)
    BY DEF Onward, ReviewTypeOK
  <2>3. reviews'[d[1]].of = reviews[d[1]].of
    BY <2>2 DEF Onward
  <2> QED BY <1>1, <2>1, <2>2, <2>3 DEF DecidedElsewhere
<1> QED BY <1>1, <1>2 DEF Excused, Onward

LEMMA BirthsMove ==
  ASSUME ReviewTypeOK, Moves, NEW b \in 1..births, b \in LiveBirths'
  PROVE  \E i \in Live : case[i] = b /\ case'[i] = b
<1>1. PICK i \in Ids : case'[i] = b
  BY DEF LiveBirths, Live
<1>2. case[i] = b
  BY <1>1 DEF Moves, Null, ReviewTypeOK
<1> QED BY <1>1, <1>2 DEF Live, Null

LEMMA BatchMoves ==
  ASSUME ReviewTypeOK, IdsInOrder, ReviewsAtHome, BatchAtHome, Moves, births' \in Nat,
         Len(reviews') = Len(reviews),
         \A k \in 1..Len(reviews) : reviews'[k].of = reviews[k].of,
         saver'.batch = saver.batch,
         saver'.at = "idle" <=> saver.at = "idle"
  PROVE  BatchAtHome'
<1>1. ASSUME NEW p \in saver.batch, p[2] \in LiveBirths'
      PROVE  case'[p[1]] = p[2]
  <2>1. p[2] \in 1..births /\ p[1] \in Ids
    BY DEF ReviewTypeOK, BatchAtHome, Births
  <2>2. PICK i \in Live : case[i] = p[2] /\ case'[i] = p[2]
    BY <1>1, <2>1, BirthsMove
  <2>3. case[p[1]] = p[2]
    BY <2>2 DEF BatchAtHome, LiveBirths
  <2>4. p[1] \in Live
    BY <2>1, <2>3 DEF Live, Null
  <2> QED BY <2>2, <2>3, <2>4 DEF IdsInOrder
<1>2. ASSUME NEW p \in saver.batch, NEW k \in 1..Len(reviews)
      PROVE  reviews[k].of # case'[p[1]]
  <2>1. p[1] \in Ids
    BY DEF ReviewTypeOK
  <2>2. reviews[k].of \in Nat \ {0} /\ reviews[k].of <= births
    BY ReviewFields DEF ReviewsAtHome
  <2>3. reviews[k].of # case[p[1]]
    BY DEF BatchAtHome
  <2> QED BY <2>1, <2>2, <2>3, ReviewFields DEF Moves, Null, ReviewTypeOK
<1>3. \A p \in saver.batch : p[2] <= births'
  BY DEF BatchAtHome, Moves, ReviewTypeOK, Births
<1> QED BY <1>1, <1>2, <1>3 DEF BatchAtHome

LEMMA ReviewsMove ==
  ASSUME ReviewTypeOK, IdsInOrder, ReviewsAtHome, Moves, births' \in Nat,
         Len(reviews') = Len(reviews),
         \A k \in 1..Len(reviews) :
           /\ reviews'[k].of = reviews[k].of
           /\ reviews'[k].id \in {reviews[k].id, Null}
           /\ reviews'[k].verdict # "rejected" => reviews'[k].id # Null \/ k \in together'
  PROVE  ReviewsAtHome'
<1>1. ASSUME NEW k \in 1..Len(reviews), reviews'[k].id # Null, reviews[k].of \in LiveBirths'
      PROVE  case'[reviews'[k].id] = reviews[k].of
  <2>0. reviews'[k].id = reviews[k].id
    BY <1>1
  <2>1. reviews[k].of \in 1..births /\ reviews[k].id \in Ids
    BY <1>1, <2>0, ReviewFields DEF ReviewsAtHome
  <2>2. PICK i \in Live : case[i] = reviews[k].of /\ case'[i] = reviews[k].of
    BY <1>1, <2>1, BirthsMove
  <2>3. case[reviews[k].id] = reviews[k].of
    BY <1>1, <2>0, <2>2 DEF ReviewsAtHome, LiveBirths
  <2>4. reviews[k].id \in Live
    BY <2>1, <2>3 DEF Live, Null
  <2> QED BY <2>0, <2>2, <2>3, <2>4 DEF IdsInOrder
<1>2. \A k \in 1..Len(reviews) : reviews[k].of <= births'
  BY ReviewFields DEF ReviewsAtHome, Moves
<1>3. \A k \in 1..Len(reviews) : reviews'[k].id # Null /\ reviews'[k].of \in LiveBirths'
                                 => case'[reviews'[k].id] = reviews'[k].of
  BY <1>1
<1>4. \A k, j \in 1..Len(reviews) : reviews'[j].of = reviews'[k].of => j = k
  BY DEF ReviewsAtHome
<1> QED BY <1>2, <1>3, <1>4 DEF ReviewsAtHome

LEMMA HomesStay ==
  ASSUME ReviewTypeOK, IdsInOrder, ReviewsAtHome, Moves, births' \in Nat,
         reviews' = reviews, together \subseteq together'
  PROVE  /\ ReviewsAtHome'
         /\ /\ BatchAtHome /\ saver'.batch = saver.batch
            /\ saver'.at = "idle" <=> saver.at = "idle"
            => BatchAtHome'
<1>1. Len(reviews') = Len(reviews) /\ \A k \in 1..Len(reviews) :
        /\ reviews'[k].of = reviews[k].of
        /\ reviews'[k].id \in {reviews[k].id, Null}
        /\ reviews'[k].verdict # "rejected" => reviews'[k].id # Null \/ k \in together'
  BY DEF ReviewsAtHome
<1> QED BY <1>1, ReviewsMove, BatchMoves

\* The suite's conformance, review by review.
LEMMA SuiteIs ==
  ASSUME ReviewTypeOK, SuiteFollowsVerdict, NEW k \in 1..Len(reviews)
  PROVE  Excused(k) \/ Follows(k)
<1>1. reviews[k].verdict \in Verdicts \cup {"pending"}
  BY ReviewFields
<1> QED BY <1>1 DEF SuiteFollowsVerdict, Excused, Follows, Kept, Verdicts

LEMMA SuiteOn ==
  ASSUME \A k \in 1..Len(reviews') : Excused(k)' \/ Follows(k)'
  PROVE  SuiteFollowsVerdict'
BY DEF SuiteFollowsVerdict, Excused, Follows, Kept

\* What keeps a review excused or its test case as its verdict says.
LEMMA FollowsOn ==
  ASSUME ReviewTypeOK, Onward, Len(reviews') \in Nat, SuiteFollowsVerdict,
         NEW k \in 1..Len(reviews), NEW b, b = reviews[k].of,
         reviews'[k].verdict = reviews[k].verdict,
         b \in LiveBirths' => b \in LiveBirths,
         b \in LiveBirths => b \in LiveBirths' \/ Excused(k)',
         Kept(b) => Kept(b)'
  PROVE  Excused(k)' \/ Follows(k)'
<1>1. Excused(k) \/ Follows(k)
  BY SuiteIs
<1>2. reviews'[k].of = reviews[k].of
  BY DEF Onward
<1>3. CASE Excused(k)
  BY <1>3, ExcusesStay
<1>4. CASE Follows(k)
  BY <1>2, <1>4 DEF Follows
<1> QED BY <1>1, <1>3, <1>4

LEMMA EmbeddingsMove ==
  ASSUME ReviewTypeOK, EmbeddingsOfTheLiving,
         removed \subseteq removed', crossed \subseteq crossed',
         \A i \in Ids : embedding'[i] \in {embedding[i], Null},
         \A i \in Ids : case[i] # Null /\ case'[i] # case[i] =>
           embedding'[i] = Null \/ case[i] \in removed' \cup crossed'
  PROVE  EmbeddingsOfTheLiving'
BY DEF EmbeddingsOfTheLiving, Null

\* A text that is being embedded.
LEMMA TextsMove ==
  ASSUME ReviewTypeOK, TextsAreCurrent, reading' = reading,
         removed \subseteq removed', crossed \subseteq crossed',
         saver'.at = "embedding" =>
           saver.at = "embedding" /\ saver'.todo = saver.todo /\ saver'.text = saver.text,
         \A i \in Ids : case[i] \in BeingRead /\ case[i] # Null /\ case'[i] # case[i] =>
           case[i] \in removed' \cup crossed'
  PROVE  TextsAreCurrent'
<1>1. ASSUME NEW i \in Ids, NEW b, b # Null, b \in BeingRead, OfTheCase(i, b)
      PROVE  case'[i] = b \/ b \in removed' \cup crossed'
  BY <1>1 DEF OfTheCase
<1>2. ASSUME NEW p \in reading
      PROVE  p[2] # Null /\ (case'[p[1]] = p[2] \/ p[2] \in removed' \cup crossed')
  <2>1. p[1] \in Ids /\ p[2] # Null /\ OfTheCase(p[1], p[2])
    BY DEF TextsAreCurrent, ReviewTypeOK
  <2>2. p[2] \in BeingRead
    BY DEF BeingRead
  <2> QED BY <1>1, <2>1, <2>2
<1>3. ASSUME saver'.at = "embedding"
      PROVE  /\ saver'.todo # {}
             /\ \/ case'[Min(saver'.todo)] = saver'.text
                \/ saver'.text \in removed' \cup crossed'
  <2>1. saver.at = "embedding" /\ saver'.todo = saver.todo /\ saver'.text = saver.text
    BY <1>3
  <2>2. saver.todo # {} /\ saver.todo \subseteq Ids /\ OfTheCase(Min(saver.todo), saver.text)
        /\ saver.text # Null
    BY <2>1 DEF TextsAreCurrent, ReviewTypeOK
  <2>3. Ids \subseteq Nat
    BY DEF Ids, Births
  <2>4. PICK i \in Ids : i = Min(saver.todo)
    BY <2>2, <2>3, MinIsLeast
  <2>5. saver.text \in BeingRead
    BY DEF BeingRead
  <2> QED BY <1>1, <2>1, <2>2, <2>4, <2>5
<1> QED BY <1>2, <1>3 DEF TextsAreCurrent, OfTheCase

\* A reviewer goes on with a review that others touch only together with it.
LEMMA RequestStays ==
  ASSUME ReviewTypeOK, Onward, Len(reviews') \in Nat,
         NEW r \in Reviewers, OpenedReview(r), reviewer'[r] = reviewer[r],
         NEW k \in 1..Len(reviews), k = reviewer[r].review,
         reviews'[k] = reviews[k] \/ k \in together',
         \A q \in Reviewers : reviewer'[q].review = k /\ q # r => k \in together',
         Kept(reviews[k].of) => Kept(reviews[k].of)'
  PROVE  OpenedReview(r)'
<1>1. reviews'[k].of = reviews[k].of /\ k \in 1..Len(reviews')
  BY DEF Onward
<1>2. Excused(k) => Excused(k)'
  BY ExcusesStay
<1>3. k \in together' => Excused(k)'
  BY DEF Excused
<1>4. Kept(reviews[k].of)
        => status'[reviews'[k].of] = "active" \/ reviews'[k].of \in withdrawn'
  BY <1>1 DEF Kept
<1>5. reviewer[r].id = reviews[k].id \/ Excused(k)
  BY DEF OpenedReview
<1>6. reviewer[r].active => Excused(k) \/ Kept(reviews[k].of)
  BY DEF OpenedReview
<1>7. reviews[k].verdict = "pending" \/ k \in together
  BY DEF OpenedReview
<1>8. reviews'[k].verdict = "pending" \/ k \in together'
  BY <1>7 DEF Onward
<1> QED BY <1>1, <1>2, <1>3, <1>4, <1>5, <1>6, <1>8 DEF OpenedReview, Kept

LEMMA Histories ==
  ASSUME ReviewTypeOK
  PROVE  /\ drafted \subseteq Births /\ abandoned \subseteq Births /\ removed \subseteq Births
         /\ withdrawn \subseteq Births /\ crossed \subseteq Births
         /\ Births = 1..MaxBirths /\ Ids = Births /\ MaxBirths \in Nat
         /\ 1..births \subseteq Births
<1>1. MaxBirths \in Nat /\ births \in 0..MaxBirths
  BY ReviewAssumption DEF ReviewTypeOK
<1>2. UNION {drafted, abandoned, removed, withdrawn, crossed} \subseteq Births
  BY DEF ReviewTypeOK
<1> QED BY <1>1, <1>2 DEF Births, Ids

\* New test cases, one or two, at the next ids.
LEMMA NewCases ==
  ASSUME ReviewTypeOK, IdsInOrder, NEW n \in 1..2, births + n <= MaxBirths,
         births' = births + n, database' = database, drafted' \subseteq 1..births',
         case' = [i \in Ids |-> IF i \in NextId..NextId + n - 1
                                THEN births + 1 + i - NextId ELSE case[i]]
  PROVE  /\ births' \in 0..MaxBirths /\ case' \in [Ids -> 0..births']
         /\ NextId..NextId + n - 1 \subseteq Ids
         /\ Moves /\ IdsInOrder'
         /\ \A i \in Ids : case[i] # Null => case'[i] = case[i]
         /\ \A b \in 1..births : b \in LiveBirths <=> b \in LiveBirths'
<1> DEFINE N == NextId..NextId + n - 1
<1>1. PICK next \in 1..births + 1 : next = NextId
  BY NextIdFree
<1>2. \A i \in Ids : next <= i => case[i] = Null
  BY <1>1, NextIdFree
<1>3. births \in Nat /\ births <= MaxBirths /\ MaxBirths \in Nat /\ Ids = 1..MaxBirths
      /\ case \in [Ids -> 0..births]
  BY Histories DEF ReviewTypeOK
<1>4. \A i \in Ids : case'[i] = IF i \in next..next + n - 1 THEN births + 1 + i - next
                                ELSE case[i]
  BY <1>1
<1>5. next..next + n - 1 \subseteq Ids
  BY <1>1, <1>3
<1>6. births' \in 0..MaxBirths
  BY <1>3
<1>7. \A i \in Ids : i \in next..next + n - 1 =>
        case[i] = Null /\ case'[i] \in births + 1..births'
  BY <1>1, <1>2, <1>3, <1>4
<1>8. case' \in [Ids -> 0..births']
  <2>1. \A i \in Ids : case'[i] \in 0..births'
    BY <1>3, <1>4, <1>7
  <2> QED BY <2>1
<1>9. Moves
  BY <1>3, <1>4, <1>7 DEF Moves
<1>10. \A i \in Ids : case[i] # Null => case'[i] = case[i]
  BY <1>4, <1>7
<1>11. \A i \in Ids : i \in Live' <=> i \in Live \/ i \in next..next + n - 1
  BY <1>3, <1>4, <1>7 DEF Live, Null
<1>12. \A i \in Live' : i <= births'
  <2>1. \A i \in Live : i <= births
    BY DEF IdsInOrder
  <2>2. Live \subseteq Ids /\ Live' \subseteq Ids
    BY DEF Live
  <2> QED BY <1>1, <1>3, <1>11, <2>1, <2>2
<1>13. database = "postgres" => \A i \in Live' : case'[i] = i
  <2>1. database = "postgres" => \A i \in Live : case[i] = i
    BY DEF IdsInOrder
  <2>2. database = "postgres" => next = births + 1
    BY <1>1 DEF NextId
  <2>3. Live' \subseteq Ids
    BY DEF Live
  <2>4. ASSUME database = "postgres", NEW i \in Live' PROVE case'[i] = i
    <3>1. CASE i \in Live
      BY <2>1, <2>4, <3>1, <1>10, <2>3 DEF Live
    <3>2. CASE i \in next..next + n - 1
      BY <1>3, <1>4, <2>2, <2>3, <2>4, <3>2
    <3> QED BY <1>11, <2>3, <2>4, <3>1, <3>2
  <2> QED BY <2>4
<1>14. \A i, j \in Live' : case'[i] = case'[j] => i = j
  <2>1. \A i, j \in Live : case[i] = case[j] => i = j
    BY DEF IdsInOrder
  <2>2. Live' \subseteq Ids /\ Live \subseteq Ids
    BY DEF Live
  <2>3. \A i \in Live : case'[i] = case[i] /\ case[i] <= births
    BY <1>3, <1>10, <2>2 DEF Live
  <2>4. \A i, j \in next..next + n - 1 : case'[i] = case'[j] => i = j
    BY <1>1, <1>3, <1>4, <1>5
  <2>5. \A i \in next..next + n - 1 : births < case'[i]
    BY <1>3, <1>5, <1>7
  <2>6. \A i \in Ids : case'[i] \in Nat
    BY <1>6, <1>8
  <2>7. ASSUME NEW i \in Live, NEW j \in next..next + n - 1 PROVE case'[i] # case'[j]
    <3>1. case'[i] <= births /\ births < case'[j]
      BY <2>3, <2>5
    <3>2. case'[i] \in Nat /\ case'[j] \in Nat
      BY <1>5, <2>2, <2>6
    <3> QED BY <1>3, <3>1, <3>2
  <2>8. ASSUME NEW i \in Live', NEW j \in Live', case'[i] = case'[j] PROVE i = j
    <3>1. /\ i \in Live \/ i \in next..next + n - 1
          /\ j \in Live \/ j \in next..next + n - 1
      BY <1>11, <2>2
    <3>2. CASE i \in Live /\ j \in Live
      BY <2>1, <2>3, <2>8, <3>2
    <3>3. CASE i \in next..next + n - 1 /\ j \in next..next + n - 1
      BY <2>4, <2>8, <3>3
    <3> QED BY <2>7, <2>8, <3>1, <3>2, <3>3
  <2> QED BY <2>8
<1>15. IdsInOrder'
  BY <1>12, <1>13, <1>14 DEF IdsInOrder
<1>16. ASSUME NEW b \in 1..births PROVE b \in LiveBirths <=> b \in LiveBirths'
  <2>1. ASSUME b \in LiveBirths PROVE b \in LiveBirths'
    BY <1>10, <1>11, <2>1 DEF LiveBirths, Live
  <2>2. ASSUME b \in LiveBirths' PROVE b \in LiveBirths
    BY <1>9, <2>2, BirthsMove DEF LiveBirths
  <2> QED BY <2>1, <2>2
<1> QED BY <1>1, <1>5, <1>6, <1>8, <1>9, <1>10, <1>15, <1>16

\* Steps that leave the reviews alone.
LEMMA ReviewingStays ==
  ASSUME ReviewTypeOK, ReviewsAtHome, reviews' = reviews,
         together \subseteq together', removed \subseteq removed', decided \subseteq decided',
         \A b \in 1..births : Kept(b) => Kept(b)'
  PROVE  /\ Onward /\ Len(reviews') \in Nat
         /\ reviewer' = reviewer /\ RequestsInStep => RequestsInStep'
         /\ /\ SuiteFollowsVerdict
            /\ \A b \in 1..births : b \in LiveBirths' => b \in LiveBirths
            /\ \A b \in 1..births : b \in LiveBirths => b \in LiveBirths' \/ b \in removed'
            => SuiteFollowsVerdict'
<1>1. Onward /\ Len(reviews') \in Nat
  BY ReviewFields DEF Onward
<1>2. \A k \in 1..Len(reviews) : reviews[k].of \in 1..births
  BY ReviewFields DEF ReviewsAtHome
<1>3. ASSUME reviewer' = reviewer, RequestsInStep
      PROVE  RequestsInStep'
  <2>1. ASSUME NEW r \in Reviewers, reviewer[r].at # "idle" PROVE OpenedReview(r)'
    <3>1. OpenedReview(r)
      BY <1>3, <2>1 DEF RequestsInStep
    <3>2. PICK k \in 1..Len(reviews) : k = reviewer[r].review
      <4>1. reviewer[r].review \in 0..Len(reviews)
        BY DEF ReviewTypeOK
      <4> QED BY <3>1, <4>1, ReviewFields DEF OpenedReview
    <3>3. \A q \in Reviewers : reviewer'[q].review = k /\ q # r => k \in together'
      BY <1>3, <3>1, <3>2 DEF OpenedReview
    <3>4. Kept(reviews[k].of) => Kept(reviews[k].of)'
      <4>1. PICK b \in 1..births : b = reviews[k].of
        BY <1>2
      <4> QED BY <4>1 DEF Kept
    <3> QED BY <1>1, <1>3, <3>1, <3>2, <3>3, <3>4, RequestStays
  <2> QED BY <1>3, <2>1 DEF RequestsInStep
<1>4. ASSUME SuiteFollowsVerdict,
             \A b \in 1..births : b \in LiveBirths' => b \in LiveBirths,
             \A b \in 1..births : b \in LiveBirths => b \in LiveBirths' \/ b \in removed'
      PROVE  SuiteFollowsVerdict'
  <2>1. ASSUME NEW k \in 1..Len(reviews) PROVE Excused(k)' \/ Follows(k)'
    <3>1. PICK b \in 1..births : b = reviews[k].of
      BY <1>2
    <3>2. b \in LiveBirths => b \in LiveBirths' \/ Excused(k)'
      BY <1>4, <3>1 DEF Excused
    <3> QED BY <1>1, <1>4, <3>1, <3>2, FollowsOn
  <2> QED BY <2>1, SuiteOn
<1> QED BY <1>1, <1>3, <1>4

LEMMA CreateStep == DraftInv /\ CreateCase => DraftInv'
<1> SUFFICES ASSUME DraftInv, CreateCase PROVE DraftInv'
  OBVIOUS
<1>1. /\ ReviewTypeOK /\ IdsInOrder /\ BatchAtHome /\ TextsAreCurrent /\ ReviewsAtHome
      /\ RequestsInStep /\ SuiteFollowsVerdict /\ EmbeddingsOfTheLiving /\ EveryDraftReviewable
  BY DEF DraftInv, VerdictsTakeEffect
<1>2. /\ UNCHANGED <<database, embedding, reviews, requests, history>>
      /\ births' = births + 1 /\ births + 1 <= MaxBirths
  BY <1>1, Histories DEF CreateCase, ReviewTypeOK
<1>3. PICK next \in 1..births + 1 : next = NextId
  BY <1>1, NextIdFree
<1>4. births \in Nat
  BY <1>1 DEF ReviewTypeOK
<1>5. case' = [i \in Ids |-> IF i \in NextId..NextId + 1 - 1
                             THEN births + 1 + i - NextId ELSE case[i]]
  <2>1. case' = [case EXCEPT ![next] = births + 1] /\ case \in [Ids -> 0..births]
    BY <1>1, <1>3 DEF CreateCase, ReviewTypeOK
  <2>2. \A i \in Ids : case'[i] = IF i \in next..next + 1 - 1
                                  THEN births + 1 + i - next ELSE case[i]
    BY <1>1, <1>3, <1>4, <2>1, Histories
  <2> QED BY <1>3, <2>1, <2>2
<1>6. drafted' \subseteq 1..births'
  BY <1>1, <1>2, <1>4 DEF IdsInOrder, history
<1>7. /\ births' \in 0..MaxBirths /\ case' \in [Ids -> 0..births']
      /\ Moves /\ IdsInOrder'
      /\ \A i \in Ids : case[i] # Null => case'[i] = case[i]
      /\ \A b \in 1..births : b \in LiveBirths <=> b \in LiveBirths'
  BY <1>1, <1>2, <1>5, <1>6, NewCases
<1>8. status' = [status EXCEPT ![births + 1] = "active"]
  BY DEF CreateCase
<1>9. ReviewTypeOK'
  <2>1. status' \in [Births -> {"none", "draft", "active"}]
    BY <1>1, <1>8 DEF ReviewTypeOK
  <2>2. embedding' \in [Ids -> 0..births'] /\ saver'.text \in 0..births'
        /\ saver' \in [at : {"idle", "storing", "embedding"}, todo : SUBSET Ids,
                       batch : SUBSET (Ids \X Births), text : 0..births']
    BY <1>1, <1>2, <1>4 DEF ReviewTypeOK, requests
  <2> QED BY <1>1, <1>2, <1>7, <2>1, <2>2 DEF ReviewTypeOK, requests, history
<1>10. \A b \in 1..births : Kept(b) => Kept(b)'
  BY <1>1, <1>2, <1>4, <1>8 DEF Kept, history, ReviewTypeOK
<1>11. BatchAtHome' /\ ReviewsAtHome'
  BY <1>1, <1>2, <1>7, HomesStay DEF history, requests
<1>12. TextsAreCurrent' /\ EmbeddingsOfTheLiving'
  BY <1>1, <1>2, <1>7, TextsMove, EmbeddingsMove DEF history, requests
<1>13. RequestsInStep' /\ SuiteFollowsVerdict'
  BY <1>1, <1>2, <1>7, <1>10, ReviewingStays DEF history, requests
<1>14. EveryDraftReviewable'
  BY <1>1, <1>2, <1>7 DEF EveryDraftReviewable, Unreviewed, IdsInOrder, history, requests
<1> QED BY <1>7, <1>9, <1>11, <1>12, <1>13, <1>14 DEF DraftInv, VerdictsTakeEffect

LEMMA Parts ==
  ASSUME DraftInv
  PROVE  /\ ReviewTypeOK /\ IdsInOrder /\ BatchAtHome /\ TextsAreCurrent /\ ReviewsAtHome
         /\ RequestsInStep /\ SuiteFollowsVerdict /\ EmbeddingsOfTheLiving
         /\ EveryDraftReviewable
BY DEF DraftInv, VerdictsTakeEffect

LEMMA SaveDraftsStep == DraftInv /\ SaveDrafts => DraftInv'
<1> SUFFICES ASSUME DraftInv, SaveDrafts PROVE DraftInv'
  OBVIOUS
<1>1. /\ ReviewTypeOK /\ IdsInOrder /\ BatchAtHome /\ TextsAreCurrent /\ ReviewsAtHome
      /\ RequestsInStep /\ SuiteFollowsVerdict /\ EmbeddingsOfTheLiving /\ EveryDraftReviewable
  BY Parts
<1>2. PICK n \in 1..2 :
        /\ births + n <= MaxBirths
        /\ births' = births + n
        /\ case' = [i \in Ids |-> IF \E k \in 1..n : i = NextId + k - 1
                                  THEN births + 1 + i - NextId ELSE case[i]]
        /\ saver' = [at |-> "storing",
                     todo |-> {NextId + k - 1 : k \in 1..n},
                     batch |-> {<<NextId + k - 1, births + k>> : k \in 1..n},
                     text |-> Null]
        /\ status' = [b \in Births |-> IF b \in births + 1..births + n THEN "draft"
                                       ELSE status[b]]
        /\ drafted' = drafted \cup (births + 1..births + n)
  BY DEF SaveDrafts
<1>3. /\ saver.at = "idle"
      /\ UNCHANGED <<database, embedding, reviews, reviewer, reading, abandoned, removed,
                     withdrawn, together, crossed, decided>>
  BY DEF SaveDrafts
<1>4. PICK next \in 1..births + 1 : next = NextId
  BY <1>1, NextIdFree
<1>5. births \in Nat
  BY <1>1 DEF ReviewTypeOK
<1>6. case' = [i \in Ids |-> IF i \in NextId..NextId + n - 1
                             THEN births + 1 + i - NextId ELSE case[i]]
  <2>1. \A i \in Ids : (\E k \in 1..n : i = next + k - 1) <=> i \in next..next + n - 1
    <3>1. ASSUME NEW i \in Ids, i \in next..next + n - 1 PROVE \E k \in 1..n : i = next + k - 1
      <4>1. i - next + 1 \in 1..n /\ i = next + (i - next + 1) - 1
        BY <1>1, <3>1, Histories
      <4> QED BY <4>1
    <3> QED BY <1>1, <3>1, Histories
  <2> QED BY <1>2, <1>4, <2>1
<1>7. drafted' \subseteq 1..births'
  <2>1. drafted \subseteq 1..births
    BY <1>1 DEF IdsInOrder
  <2>2. drafted' = drafted \cup (births + 1..births + n) /\ births' = births + n
    BY <1>2
  <2> QED BY <1>5, <2>1, <2>2
<1>8. /\ births' \in 0..MaxBirths /\ case' \in [Ids -> 0..births']
      /\ NextId..NextId + n - 1 \subseteq Ids
      /\ Moves /\ IdsInOrder'
      /\ \A i \in Ids : case[i] # Null => case'[i] = case[i]
      /\ \A b \in 1..births : b \in LiveBirths <=> b \in LiveBirths'
  BY <1>1, <1>2, <1>3, <1>6, <1>7, NewCases
<1> DEFINE slot(k) == next + k - 1
<1>9. /\ saver'.at = "storing" /\ saver'.text = Null
      /\ saver'.todo = {slot(k) : k \in 1..n}
      /\ saver'.batch = {<<slot(k), births + k>> : k \in 1..n}
  BY <1>2, <1>4
<1>10. \A k \in 1..n : /\ slot(k) \in Ids /\ births + k \in Births
                       /\ case'[slot(k)] = births + k
  <2> SUFFICES ASSUME NEW k \in 1..n
               PROVE  slot(k) \in Ids /\ births + k \in Births /\ case'[slot(k)] = births + k
    OBVIOUS
  <2>1. slot(k) \in next..next + n - 1
    OBVIOUS
  <2>2. slot(k) \in Ids
    BY <1>4, <1>8, <2>1
  <2>3. births + k \in Births
    BY <1>1, <1>2, <1>5, Histories
  <2>4. case'[slot(k)] = births + 1 + slot(k) - next
    BY <1>4, <1>6, <2>1, <2>2
  <2> QED BY <1>5, <2>2, <2>3, <2>4
<1>11. ReviewTypeOK'
  <2>1. status' \in [Births -> {"none", "draft", "active"}]
    BY <1>1, <1>2 DEF ReviewTypeOK
  <2>2. embedding' \in [Ids -> 0..births']
    BY <1>1, <1>2, <1>3, <1>5 DEF ReviewTypeOK
  <2>3. saver'.todo \subseteq Ids /\ saver'.batch \subseteq Ids \X Births
        /\ saver'.todo \subseteq {p[1] : p \in saver'.batch}
    <3>1. saver'.todo \subseteq Ids
      BY <1>9, <1>10
    <3>2. ASSUME NEW p \in saver'.batch PROVE p \in Ids \X Births
      <4>1. PICK k \in 1..n : p = <<slot(k), births + k>>
        BY <1>9
      <4>2. slot(k) \in Ids /\ births + k \in Births
        BY <1>10
      <4> QED BY <4>1, <4>2
    <3>3. ASSUME NEW i \in saver'.todo PROVE \E p \in saver'.batch : i = p[1]
      <4>1. PICK k \in 1..n : i = slot(k)
        BY <1>9
      <4>2. <<slot(k), births + k>> \in saver'.batch
        BY <1>9
      <4> QED BY <4>1, <4>2
    <3> QED BY <3>1, <3>2, <3>3
  <2>4. saver' \in [at : {"idle", "storing", "embedding"}, todo : SUBSET Ids,
                    batch : SUBSET (Ids \X Births), text : 0..births']
    <3>1. saver' = [at |-> "storing", todo |-> saver'.todo, batch |-> saver'.batch,
                    text |-> Null]
      BY <1>2
    <3> QED BY <1>8, <2>3, <3>1 DEF Null
  <2>5. UNION {drafted', abandoned', removed', withdrawn', crossed'} \subseteq Births
    <3>1. drafted' \subseteq Births
      BY <1>1, <1>7, <1>8, Histories
    <3> QED BY <1>1, <1>3, <3>1, Histories
  <2>6. reading' \subseteq Ids \X (1..births')
    BY <1>1, <1>2, <1>3, <1>5 DEF ReviewTypeOK
  <2> QED BY <1>1, <1>3, <1>8, <1>9, <2>1, <2>2, <2>3, <2>4, <2>5, <2>6 DEF ReviewTypeOK
<1>12. \A b \in 1..births : Kept(b) => Kept(b)'
  <2>0. births + n <= MaxBirths /\ Births = 1..MaxBirths /\ MaxBirths \in Nat
    BY <1>1, <1>2, Histories
  <2>1. \A b \in 1..births : b \in Births /\ b \notin births + 1..births + n
    BY <1>5, <2>0
  <2>2. \A b \in 1..births : status'[b] = status[b]
    BY <1>2, <2>1
  <2> QED BY <1>3, <2>2 DEF Kept
<1>13. BatchAtHome'
  <2>1. \E p, q \in saver'.batch : saver'.batch = {p, q}
    <3>1. 1 \in 1..n /\ n \in 1..n /\ 1..n = {1, n}
      OBVIOUS
    <3>2. saver'.batch = {<<slot(1), births + 1>>, <<slot(n), births + n>>}
      BY <1>9, <3>1
    <3> QED BY <3>2
  <2>2. \A p, q \in saver'.batch : p[1] = q[1] => p = q
    <3>1. \A p \in saver'.batch : \E k \in 1..n : p = <<next + k - 1, births + k>>
      BY <1>9
    <3> QED BY <1>5, <3>1
  <2>3. ASSUME NEW p \in saver'.batch
        PROVE  /\ p[2] <= births' /\ case'[p[1]] = p[2]
               /\ \A k \in 1..Len(reviews) : reviews[k].of # case'[p[1]]
    <3>1. PICK k \in 1..n : p = <<slot(k), births + k>>
      BY <1>9
    <3>2. p[2] = births + k /\ case'[p[1]] = births + k
      BY <1>10, <3>1
    <3>3. \A j \in 1..Len(reviews) : reviews[j].of \in Nat /\ reviews[j].of <= births
      BY <1>1, ReviewFields DEF ReviewsAtHome
    <3> QED BY <1>2, <1>5, <3>2, <3>3
  <2> QED BY <1>3, <1>9, <2>1, <2>2, <2>3 DEF BatchAtHome
<1>14. ReviewsAtHome'
  BY <1>1, <1>3, <1>8, HomesStay
<1>15. TextsAreCurrent' /\ EmbeddingsOfTheLiving'
  BY <1>1, <1>3, <1>8, <1>9, TextsMove, EmbeddingsMove
<1>16. RequestsInStep' /\ SuiteFollowsVerdict'
  BY <1>1, <1>3, <1>8, <1>12, ReviewingStays
<1>17. EveryDraftReviewable'
  <2>1. saver.batch = {}
    BY <1>1, <1>3 DEF BatchAtHome
  <2>2. ASSUME NEW b \in drafted', b \in LiveBirths'
        PROVE  (\E k \in 1..Len(reviews) : reviews[k].of = b) \/ b \in Unreviewed' \cup abandoned
    <3>1. CASE b \in drafted
      <4>1. b \in LiveBirths
        BY <1>1, <1>8, <2>2, <3>1 DEF IdsInOrder
      <4>2. b \notin Unreviewed
        BY <2>1 DEF Unreviewed
      <4> QED BY <1>1, <3>1, <4>1, <4>2 DEF EveryDraftReviewable
    <3>2. CASE b \in births + 1..births + n
      <4>1. b - births \in 1..n /\ b = births + (b - births)
        BY <1>5, <3>2
      <4>2. <<slot(b - births), b>> \in saver'.batch
        BY <1>9, <4>1
      <4> QED BY <4>2 DEF Unreviewed
    <3> QED BY <1>2, <2>2, <3>1, <3>2
  <2> QED BY <1>3, <2>2 DEF EveryDraftReviewable
<1> QED BY <1>8, <1>11, <1>13, <1>14, <1>15, <1>16, <1>17 DEF DraftInv, VerdictsTakeEffect

LEMMA SaverFields ==
  ASSUME ReviewTypeOK
  PROVE  /\ saver.todo \subseteq Ids /\ Ids \subseteq Nat
         /\ saver.todo \subseteq {p[1] : p \in saver.batch}
         /\ \A i : [saver EXCEPT !.at = "storing", !.todo = saver.todo \ {i}, !.text = Null]
                   \in [at : {"idle", "storing", "embedding"}, todo : SUBSET Ids,
                       batch : SUBSET (Ids \X Births), text : 0..births]
<1>1. saver.todo \subseteq Ids /\ saver.todo \subseteq {p[1] : p \in saver.batch}
  BY DEF ReviewTypeOK
<1>2. Ids \subseteq Nat
  BY DEF Ids, Births
<1>3. Null \in 0..births
  BY DEF ReviewTypeOK, Null
<1>4. saver \in [at : {"idle", "storing", "embedding"}, todo : SUBSET Ids,
                batch : SUBSET (Ids \X Births), text : 0..births]
  BY DEF ReviewTypeOK
<1> QED BY <1>1, <1>2, <1>3, <1>4

\* Steps of the request that saves: a draft is read, embedded, or the save breaks off.
LEMMA RefreshStep == DraftInv /\ RefreshDraft => DraftInv'
<1> SUFFICES ASSUME DraftInv, RefreshDraft PROVE DraftInv'
  OBVIOUS
<1>1. /\ ReviewTypeOK /\ IdsInOrder /\ BatchAtHome /\ TextsAreCurrent /\ ReviewsAtHome
      /\ RequestsInStep /\ SuiteFollowsVerdict /\ EmbeddingsOfTheLiving /\ EveryDraftReviewable
  BY Parts
<1>2. UNCHANGED <<database, births, case, status, embedding, reviews, reviewer, reading,
                  drafted, abandoned, removed, withdrawn, together, crossed, decided>>
  BY DEF RefreshDraft, store, history
<1>3. PICK i \in saver.todo : i = Min(saver.todo)
  <2>1. saver.todo # {} /\ saver.todo \subseteq Nat
    BY <1>1, SaverFields DEF RefreshDraft
  <2> QED BY <2>1, MinIsLeast
<1>4. /\ saver.at = "storing" /\ case[i] # Null
      /\ saver' = [saver EXCEPT !.at = "embedding", !.text = case[i]]
  BY <1>3 DEF RefreshDraft
<1>5. /\ saver'.at = "embedding" /\ saver'.todo = saver.todo /\ saver'.batch = saver.batch
      /\ saver'.text = case[i]
      /\ saver' \in [at : {"idle", "storing", "embedding"}, todo : SUBSET Ids,
                     batch : SUBSET (Ids \X Births), text : 0..births]
  BY <1>1, <1>4 DEF ReviewTypeOK
<1>6. ReviewTypeOK'
  BY <1>1, <1>2, <1>4, <1>5 DEF ReviewTypeOK
<1>7. BatchAtHome'
  BY <1>1, <1>2, <1>4, <1>5 DEF BatchAtHome, LiveBirths, Live
<1>8. TextsAreCurrent'
  BY <1>1, <1>2, <1>3, <1>5 DEF TextsAreCurrent, OfTheCase
<1>9. IdsInOrder' /\ ReviewsAtHome' /\ RequestsInStep' /\ SuiteFollowsVerdict'
      /\ EmbeddingsOfTheLiving'
  BY <1>1, <1>2 DEF IdsInOrder, Live, ReviewsAtHome, LiveBirths, RequestsInStep, OpenedReview,
    Excused, DecidedElsewhere, Kept, SuiteFollowsVerdict, EmbeddingsOfTheLiving
<1>10. EveryDraftReviewable'
  BY <1>1, <1>2, <1>5 DEF EveryDraftReviewable, LiveBirths, Live, Unreviewed
<1> QED BY <1>6, <1>7, <1>8, <1>9, <1>10 DEF DraftInv, VerdictsTakeEffect

LEMMA StoreStep == DraftInv /\ StoreEmbedding => DraftInv'
<1> SUFFICES ASSUME DraftInv, StoreEmbedding PROVE DraftInv'
  OBVIOUS
<1>1. /\ ReviewTypeOK /\ IdsInOrder /\ BatchAtHome /\ TextsAreCurrent /\ ReviewsAtHome
      /\ RequestsInStep /\ SuiteFollowsVerdict /\ EmbeddingsOfTheLiving /\ EveryDraftReviewable
  BY Parts
<1>2. UNCHANGED <<database, births, case, status, reviews, reviewer, reading,
                  drafted, abandoned, removed, withdrawn, together, crossed, decided>>
  BY DEF StoreEmbedding, history
<1>3. saver.at = "embedding" /\ saver.todo # {} /\ OfTheCase(Min(saver.todo), saver.text)
  BY <1>1 DEF StoreEmbedding, TextsAreCurrent
<1>4. PICK i \in saver.todo : i = Min(saver.todo)
  <2>1. saver.todo \subseteq Nat
    BY <1>1, SaverFields
  <2> QED BY <1>3, <2>1, MinIsLeast
<1>5. /\ embedding' = [embedding EXCEPT ![i] = saver.text]
      /\ saver' = [saver EXCEPT !.at = "storing", !.todo = saver.todo \ {i}, !.text = Null]
  BY <1>4 DEF StoreEmbedding
<1>6. /\ saver'.at = "storing" /\ saver'.todo = saver.todo \ {i} /\ saver'.batch = saver.batch
      /\ saver'.text = Null
      /\ saver' \in [at : {"idle", "storing", "embedding"}, todo : SUBSET Ids,
                     batch : SUBSET (Ids \X Births), text : 0..births]
  <2>1. saver'.at = "storing" /\ saver'.todo = saver.todo \ {i} /\ saver'.batch = saver.batch
        /\ saver'.text = Null
    BY <1>1, <1>5 DEF ReviewTypeOK
  <2> QED BY <1>1, <1>5, <2>1, SaverFields
<1>7. ReviewTypeOK'
  <2>1. embedding' \in [Ids -> 0..births]
    BY <1>1, <1>5 DEF ReviewTypeOK
  <2> QED BY <1>1, <1>2, <1>6, <2>1 DEF ReviewTypeOK
<1>8. BatchAtHome' /\ TextsAreCurrent'
  BY <1>1, <1>2, <1>3, <1>6 DEF BatchAtHome, LiveBirths, Live, TextsAreCurrent, OfTheCase
<1>9. IdsInOrder' /\ ReviewsAtHome' /\ RequestsInStep' /\ SuiteFollowsVerdict'
  BY <1>1, <1>2 DEF IdsInOrder, Live, ReviewsAtHome, LiveBirths, RequestsInStep, OpenedReview,
    Excused, DecidedElsewhere, Kept, SuiteFollowsVerdict
<1>10. EmbeddingsOfTheLiving'
  BY <1>1, <1>2, <1>3, <1>4, <1>5 DEF EmbeddingsOfTheLiving, OfTheCase, ReviewTypeOK
<1>11. EveryDraftReviewable'
  BY <1>1, <1>2, <1>6 DEF EveryDraftReviewable, LiveBirths, Live, Unreviewed
<1> QED BY <1>7, <1>8, <1>9, <1>10, <1>11 DEF DraftInv, VerdictsTakeEffect

LEMMA BreakStep == DraftInv /\ SaveBreaks => DraftInv'
<1> SUFFICES ASSUME DraftInv, SaveBreaks PROVE DraftInv'
  OBVIOUS
<1>1. /\ ReviewTypeOK /\ IdsInOrder /\ BatchAtHome /\ TextsAreCurrent /\ ReviewsAtHome
      /\ RequestsInStep /\ SuiteFollowsVerdict /\ EmbeddingsOfTheLiving /\ EveryDraftReviewable
  BY Parts
<1>2. /\ saver' = NoSave /\ abandoned' = abandoned \cup Unreviewed
      /\ UNCHANGED <<database, births, case, status, embedding, reviews, reviewer, reading,
                     drafted, removed, withdrawn, together, crossed, decided>>
  BY DEF SaveBreaks, SaveFails, store
<1>3. /\ saver'.at = "idle" /\ saver'.todo = {} /\ saver'.batch = {} /\ saver'.text = Null
      /\ saver' \in [at : {"idle", "storing", "embedding"}, todo : SUBSET Ids,
                     batch : SUBSET (Ids \X Births), text : 0..births]
  BY <1>1, <1>2 DEF NoSave, Null, ReviewTypeOK
<1>4. Unreviewed \subseteq Births
  BY <1>1 DEF Unreviewed, ReviewTypeOK
<1>5. ReviewTypeOK'
  BY <1>1, <1>2, <1>3, <1>4 DEF ReviewTypeOK
<1>6. BatchAtHome' /\ TextsAreCurrent'
  BY <1>1, <1>2, <1>3 DEF BatchAtHome, TextsAreCurrent, OfTheCase
<1>7. IdsInOrder' /\ ReviewsAtHome' /\ RequestsInStep' /\ SuiteFollowsVerdict'
      /\ EmbeddingsOfTheLiving'
  BY <1>1, <1>2 DEF IdsInOrder, Live, ReviewsAtHome, LiveBirths, RequestsInStep, OpenedReview,
    Excused, DecidedElsewhere, Kept, SuiteFollowsVerdict, EmbeddingsOfTheLiving
<1>8. EveryDraftReviewable'
  BY <1>1, <1>2 DEF EveryDraftReviewable, LiveBirths, Live
<1> QED BY <1>5, <1>6, <1>7, <1>8 DEF DraftInv, VerdictsTakeEffect

\* What record_drafts appends: a pending review for each draft of the batch.
NewReview(p) == [id |-> p[1], of |-> case[p[1]], verdict |-> "pending"]

LEMMA ReviewsAppended ==
  ASSUME ReviewTypeOK, BatchAtHome, RecordDrafts
  PROVE  \E n \in 1..2 : \E p \in [1..n -> saver.batch] :
           /\ \A x \in saver.batch : \E i \in 1..n : p[i] = x
           /\ \A i, j \in 1..n : p[i] = p[j] => i = j
           /\ reviews' = reviews \o [i \in 1..n |-> NewReview(p[i])]
<1> DEFINE B == saver.batch
           least == CHOOSE p \in B : \A q \in B : p[2] <= q[2]
           rest == {NewReview(p) : p \in B \ {least}}
<1>1. PICK p, q \in B : B = {p, q}
  BY DEF BatchAtHome, RecordDrafts
<1>2. \A x \in B : x \in Ids \X Births /\ x[2] \in Int
  BY Histories DEF ReviewTypeOK
<1>3. least \in B
  <2>1. p[2] <= q[2] \/ q[2] <= p[2]
    BY <1>1, <1>2
  <2>2. p[2] <= p[2] /\ q[2] <= q[2]
    BY <1>1, <1>2
  <2>3. \E x \in B : \A y \in B : x[2] <= y[2]
    BY <1>1, <2>1, <2>2
  <2> QED BY <2>3
<1>4. reviews' = reviews \o <<NewReview(least)>> \o
                   (IF rest = {} THEN <<>> ELSE <<CHOOSE v \in rest : TRUE>>)
  BY DEF RecordDrafts, NewReview
<1>5. reviews \in Seq([id : Ids \cup {Null}, of : Births, verdict : Verdicts \cup {"pending"}])
  BY DEF ReviewTypeOK
<1> HIDE DEF least
<1>6. CASE B = {least}
  <2>1. reviews' = reviews \o <<NewReview(least)>> \o <<>>
    BY <1>4, <1>6
  <2>2. reviews \o <<NewReview(least)>> \o <<>> = reviews \o <<NewReview(least)>>
    BY <1>5
  <2> DEFINE f == [i \in 1..1 |-> least]
  <2>3. [i \in 1..1 |-> NewReview(f[i])] = <<NewReview(least)>>
    OBVIOUS
  <2>4. /\ f \in [1..1 -> B] /\ \A x \in B : \E i \in 1..1 : f[i] = x
        /\ \A i, j \in 1..1 : f[i] = f[j] => i = j
    BY <1>6
  <2>5. reviews' = reviews \o [i \in 1..1 |-> NewReview(f[i])]
    BY <2>1, <2>2, <2>3
  <2>6. 1 \in 1..2
    OBVIOUS
  <2> HIDE DEF f
  <2> QED BY <2>4, <2>5, <2>6
<1>7. CASE B # {least}
  <2>1. PICK y \in B : y # least /\ B = {least, y}
    BY <1>1, <1>3, <1>7
  <2>2. rest = {NewReview(y)}
    BY <2>1
  <2>3. reviews' = reviews \o <<NewReview(least)>> \o <<NewReview(y)>>
    BY <1>4, <2>2
  <2>4. reviews \o <<NewReview(least)>> \o <<NewReview(y)>>
          = reviews \o <<NewReview(least), NewReview(y)>>
    BY <1>5
  <2> DEFINE f == [i \in 1..2 |-> IF i = 1 THEN least ELSE y]
  <2>5. [i \in 1..2 |-> NewReview(f[i])] = <<NewReview(least), NewReview(y)>>
    OBVIOUS
  <2>6. f \in [1..2 -> B] /\ f[1] = least /\ f[2] = y
    BY <1>3, <2>1
  <2>7. /\ \A x \in B : \E i \in 1..2 : f[i] = x
        /\ \A i, j \in 1..2 : f[i] = f[j] => i = j
    BY <2>1, <2>6
  <2>8. reviews' = reviews \o [i \in 1..2 |-> NewReview(f[i])]
    BY <2>3, <2>4, <2>5
  <2> HIDE DEF f
  <2> QED BY <2>6, <2>7, <2>8
<1> QED BY <1>6, <1>7

LEMMA RecordStep == DraftInv /\ RecordDrafts => DraftInv'
<1> SUFFICES ASSUME DraftInv, RecordDrafts PROVE DraftInv'
  OBVIOUS
<1> DEFINE R == [id : Ids \cup {Null}, of : Births, verdict : Verdicts \cup {"pending"}]
<1>1. /\ ReviewTypeOK /\ IdsInOrder /\ BatchAtHome /\ TextsAreCurrent /\ ReviewsAtHome
      /\ RequestsInStep /\ SuiteFollowsVerdict /\ EmbeddingsOfTheLiving /\ EveryDraftReviewable
  BY Parts
<1>2. /\ saver' = NoSave
      /\ \A p \in saver.batch : case[p[1]] # Null
      /\ UNCHANGED <<database, births, case, status, embedding, reviewer, reading, drafted,
                     abandoned, removed, withdrawn, together, crossed, decided>>
  BY DEF RecordDrafts, history
<1>0. PICK n \in 1..2 : \E p \in [1..n -> saver.batch] :
        /\ \A x \in saver.batch : \E i \in 1..n : p[i] = x
        /\ \A i, j \in 1..n : p[i] = p[j] => i = j
        /\ reviews' = reviews \o [i \in 1..n |-> NewReview(p[i])]
  BY <1>1, ReviewsAppended
<1>3. PICK p \in [1..n -> saver.batch] :
        /\ \A x \in saver.batch : \E i \in 1..n : p[i] = x
        /\ \A i, j \in 1..n : p[i] = p[j] => i = j
        /\ reviews' = reviews \o [i \in 1..n |-> NewReview(p[i])]
  BY <1>0
<1>4. /\ saver'.at = "idle" /\ saver'.todo = {} /\ saver'.batch = {} /\ saver'.text = Null
      /\ saver' \in [at : {"idle", "storing", "embedding"}, todo : SUBSET Ids,
                     batch : SUBSET (Ids \X Births), text : 0..births]
  BY <1>1, <1>2 DEF NoSave, Null, ReviewTypeOK
<1> DEFINE L == Len(reviews)
           news == [i \in 1..n |-> NewReview(p[i])]
<1>5. \A i \in 1..n :
        /\ p[i] \in saver.batch /\ p[i][1] \in Live
        /\ case[p[i][1]] \in LiveBirths /\ case[p[i][1]] \in 1..births
        /\ p[i][1] # Null
        /\ NewReview(p[i]) \in R
        /\ NewReview(p[i]).of = case[p[i][1]] /\ NewReview(p[i]).id = p[i][1]
        /\ NewReview(p[i]).verdict = "pending"
  <2> SUFFICES ASSUME NEW i \in 1..n
               PROVE  /\ p[i] \in saver.batch /\ p[i][1] \in Live
                      /\ case[p[i][1]] \in LiveBirths /\ case[p[i][1]] \in 1..births
                      /\ p[i][1] # Null
                      /\ NewReview(p[i]) \in R
                      /\ NewReview(p[i]).of = case[p[i][1]] /\ NewReview(p[i]).id = p[i][1]
                      /\ NewReview(p[i]).verdict = "pending"
    OBVIOUS
  <2>1. p[i] \in saver.batch /\ p[i][1] \in Ids /\ case[p[i][1]] # Null
    BY <1>1, <1>2, <1>3 DEF ReviewTypeOK
  <2>2. p[i][1] \in Live /\ case[p[i][1]] \in LiveBirths
    BY <2>1 DEF Live, LiveBirths
  <2>3. case[p[i][1]] \in 1..births /\ p[i][1] # Null
    <3>1. case[p[i][1]] \in 0..births /\ births \in Nat
      BY <1>1, <2>1 DEF ReviewTypeOK
    <3>2. p[i][1] \in 1..MaxBirths
      BY <2>1 DEF Ids, Births
    <3> QED BY <2>1, <3>1, <3>2 DEF Null
  <2>4. case[p[i][1]] \in Births
    BY <1>1, <2>3, Histories DEF ReviewTypeOK
  <2> QED BY <2>1, <2>2, <2>3, <2>4 DEF NewReview
<1>6. /\ L \in Nat /\ Len(reviews') = L + n
      /\ reviews' \in Seq(R)
      /\ \A k \in 1..L : reviews'[k] = reviews[k]
      /\ \A i \in 1..n : reviews'[L + i] = NewReview(p[i])
  <2>1. reviews \in Seq(R)
    BY <1>1 DEF ReviewTypeOK
  <2>2. news \in Seq(R) /\ Len(news) = n /\ \A i \in 1..n : news[i] = NewReview(p[i])
    BY <1>5
  <2>3. reviews' = reviews \o news
    BY <1>3
  <2> HIDE DEF news, R
  <2> QED BY <2>1, <2>2, <2>3
<1> HIDE DEF L, R
<1>7. \A k \in 1..Len(reviews') : k \in 1..L \/ \E i \in 1..n : k = L + i
  <2>1. ASSUME NEW k \in 1..Len(reviews'), k \notin 1..L PROVE k - L \in 1..n /\ k = L + (k - L)
    BY <1>6, <2>1
  <2> QED BY <2>1
<1>8. Onward
  BY <1>2, <1>6 DEF Onward, L
<1>9. ReviewTypeOK'
  <2>1. together \subseteq 1..Len(reviews') /\ decided \subseteq (1..Len(reviews')) \X Births
    BY <1>1, <1>6 DEF ReviewTypeOK, L
  <2>2. reviewer' \in [Reviewers -> [at : Stages, review : 0..Len(reviews'), verdict : Verdicts,
                                     id : Ids \cup {Null}, active : BOOLEAN]]
    BY <1>1, <1>2, <1>6 DEF ReviewTypeOK, L
  <2> QED BY <1>1, <1>2, <1>4, <1>6, <2>1, <2>2 DEF ReviewTypeOK, R
<1>10. BatchAtHome' /\ TextsAreCurrent' /\ IdsInOrder' /\ EmbeddingsOfTheLiving'
  BY <1>1, <1>2, <1>4 DEF BatchAtHome, TextsAreCurrent, OfTheCase, IdsInOrder, Live,
    EmbeddingsOfTheLiving
<1>11. ReviewsAtHome'
  <2>1. ASSUME NEW k \in 1..Len(reviews')
        PROVE  /\ reviews'[k].of <= births
               /\ reviews'[k].verdict # "rejected" => reviews'[k].id # Null \/ k \in together
               /\ reviews'[k].id # Null /\ reviews'[k].of \in LiveBirths =>
                    case[reviews'[k].id] = reviews'[k].of
    <3>1. CASE k \in 1..L
      BY <1>1, <1>6, <3>1 DEF ReviewsAtHome, L
    <3>2. ASSUME NEW i \in 1..n, k = L + i
          PROVE  /\ reviews'[k].of <= births /\ reviews'[k].id # Null
                 /\ case[reviews'[k].id] = reviews'[k].of
      <4>1. reviews'[k] = NewReview(p[i])
        BY <1>6, <3>2
      <4>2. births \in Nat
        BY <1>1 DEF ReviewTypeOK
      <4> QED BY <1>5, <4>1, <4>2
    <3> QED BY <1>7, <3>1, <3>2
  <2>2. ASSUME NEW k \in 1..Len(reviews'), NEW j \in 1..Len(reviews'),
               reviews'[j].of = reviews'[k].of
        PROVE  j = k
    <3>1. ASSUME NEW i \in 1..n, NEW m \in 1..L PROVE reviews'[L + i].of # reviews'[m].of
      <4>1. reviews[m].of # case[p[i][1]]
        BY <1>1, <1>5 DEF BatchAtHome, L
      <4> QED BY <1>5, <1>6, <4>1
    <3>2. CASE k \in 1..L /\ j \in 1..L
      BY <1>1, <1>6, <2>2, <3>2 DEF ReviewsAtHome, L
    <3>3. ASSUME NEW i \in 1..n, NEW m \in 1..n, reviews'[L + i].of = reviews'[L + m].of
          PROVE  i = m
      <4>1. case[p[i][1]] = case[p[m][1]]
        BY <1>5, <1>6, <3>3
      <4>2. p[i][1] = p[m][1]
        BY <1>1, <1>5, <4>1 DEF IdsInOrder
      <4>3. p[i] = p[m]
        BY <1>1, <1>5, <4>2 DEF BatchAtHome
      <4> QED BY <1>3, <4>3
    <3> QED BY <1>7, <2>2, <3>1, <3>2, <3>3
  <2> QED BY <1>2, <2>1, <2>2 DEF ReviewsAtHome, LiveBirths, Live
<1>12. RequestsInStep'
  <2>1. ASSUME NEW r \in Reviewers, reviewer[r].at # "idle" PROVE OpenedReview(r)'
    <3>1. OpenedReview(r)
      BY <1>1, <2>1 DEF RequestsInStep
    <3>2. PICK k \in 1..Len(reviews) : k = reviewer[r].review
      <4>1. reviewer[r].review \in 0..Len(reviews)
        BY <1>1 DEF ReviewTypeOK
      <4> QED BY <1>6, <3>1, <4>1 DEF OpenedReview, L
    <3>3. \A q \in Reviewers : reviewer'[q].review = k /\ q # r => k \in together'
      BY <1>2, <3>1, <3>2 DEF OpenedReview
    <3>4. Kept(reviews[k].of) => Kept(reviews[k].of)'
      BY <1>2, <1>6, <3>2 DEF Kept, L
    <3>5. Len(reviews') \in Nat /\ reviews'[k] = reviews[k] /\ reviewer'[r] = reviewer[r]
      BY <1>2, <1>6, <3>2 DEF L
    <3> QED BY <1>1, <1>8, <3>1, <3>2, <3>3, <3>4, <3>5, RequestStays
  <2> QED BY <1>1, <1>2, <2>1 DEF RequestsInStep
<1>13. SuiteFollowsVerdict'
  <2>1. ASSUME NEW k \in 1..Len(reviews') PROVE Excused(k)' \/ Follows(k)'
    <3>1. CASE k \in 1..L
      <4>1. PICK b : b = reviews[k].of
        OBVIOUS
      <4>2. (b \in LiveBirths <=> b \in LiveBirths') /\ (Kept(b) => Kept(b)')
        BY <1>2 DEF LiveBirths, Live, Kept
      <4> QED BY <1>1, <1>6, <1>8, <3>1, <4>1, <4>2, FollowsOn DEF L
    <3>2. ASSUME NEW i \in 1..n, k = L + i
          PROVE  reviews'[k].verdict = "pending" /\ reviews'[k].of \in LiveBirths'
      BY <1>2, <1>5, <1>6, <3>2 DEF LiveBirths, Live
    <3> QED BY <1>7, <3>1, <3>2 DEF Follows
  <2> QED BY <2>1, SuiteOn
<1>14. EveryDraftReviewable'
  <2>1. ASSUME NEW b \in drafted, b \in LiveBirths
        PROVE  (\E k \in 1..Len(reviews') : reviews'[k].of = b) \/ b \in abandoned
    <3>1. ASSUME NEW k \in 1..L, reviews[k].of = b
          PROVE  \E m \in 1..Len(reviews') : reviews'[m].of = b
      <4>1. k \in 1..Len(reviews') /\ reviews'[k].of = b
        BY <1>6, <3>1
      <4> QED BY <4>1
    <3>2. ASSUME b \in Unreviewed
          PROVE  \E m \in 1..Len(reviews') : reviews'[m].of = b
      <4>1. PICK x \in saver.batch : x[2] = b
        BY <3>2 DEF Unreviewed
      <4>2. PICK i \in 1..n : p[i] = x
        BY <1>3, <4>1
      <4>3. case[x[1]] = b
        BY <1>1, <2>1, <4>1 DEF BatchAtHome
      <4>4. L + i \in 1..Len(reviews') /\ reviews'[L + i].of = b
        BY <1>5, <1>6, <4>2, <4>3
      <4> QED BY <4>4
    <3> QED BY <1>1, <2>1, <3>1, <3>2 DEF EveryDraftReviewable, L
  <2> QED BY <1>2, <2>1 DEF EveryDraftReviewable, LiveBirths, Live
<1> QED BY <1>9, <1>10, <1>11, <1>12, <1>13, <1>14 DEF DraftInv, VerdictsTakeEffect

\* The requests of review_draft other than the one that steps.
LEMMA OthersGoOn ==
  ASSUME ReviewTypeOK, RequestsInStep, ReviewsAtHome, Onward, Len(reviews') \in Nat,
         NEW r \in Reviewers,
         \A q \in Reviewers \ {r} : reviewer'[q] = reviewer[q],
         reviewer'[r].review \in {0, reviewer[r].review},
         \A q \in Reviewers \ {r} : \A k \in 1..Len(reviews) :
           k = reviewer[q].review => reviews'[k] = reviews[k] \/ k \in together',
         \A b \in 1..births : Kept(b) => Kept(b)',
         IF reviewer'[r].at = "idle" THEN reviewer'[r].review = 0 ELSE OpenedReview(r)'
  PROVE  RequestsInStep'
<1>1. ASSUME NEW q \in Reviewers \ {r}, reviewer[q].at # "idle" PROVE OpenedReview(q)'
  <2>1. OpenedReview(q)
    BY <1>1 DEF RequestsInStep
  <2>2. PICK k \in 1..Len(reviews) : k = reviewer[q].review
    <3>1. reviewer[q].review \in 0..Len(reviews)
      BY DEF ReviewTypeOK
    <3> QED BY <2>1, <3>1, ReviewFields DEF OpenedReview
  <2>3. \A x \in Reviewers : reviewer'[x].review = k /\ x # q => k \in together'
    <3>1. \A x \in Reviewers : reviewer[x].review = k /\ x # q => k \in together
      BY <2>1, <2>2 DEF OpenedReview
    <3>2. k # 0
      BY <2>1, <2>2 DEF OpenedReview
    <3> QED BY <3>1, <3>2 DEF Onward
  <2>4. Kept(reviews[k].of) => Kept(reviews[k].of)'
    <3>1. PICK b \in 1..births : b = reviews[k].of
      BY ReviewFields DEF ReviewsAtHome
    <3>2. reviews'[k].of = b
      BY <3>1 DEF Onward
    <3> QED BY <3>1, <3>2 DEF Kept
  <2> QED BY <2>1, <2>2, <2>3, <2>4, RequestStays
<1> QED BY <1>1 DEF RequestsInStep

LEMMA OpenStep == DraftInv /\ (\E r \in Reviewers : OpenReview(r)) => DraftInv'
<1> SUFFICES ASSUME DraftInv, NEW r \in Reviewers, OpenReview(r) PROVE DraftInv'
  OBVIOUS
<1>1. /\ ReviewTypeOK /\ IdsInOrder /\ BatchAtHome /\ TextsAreCurrent /\ ReviewsAtHome
      /\ RequestsInStep /\ SuiteFollowsVerdict /\ EmbeddingsOfTheLiving /\ EveryDraftReviewable
  BY Parts
<1>2. UNCHANGED <<database, births, case, status, embedding, reviews, saver, reading,
                  drafted, abandoned, removed, withdrawn, crossed, decided>>
  BY DEF OpenReview, store
<1>3. PICK k \in 1..Len(reviews), v \in Verdicts :
        /\ reviews[k].verdict = "pending"
        /\ reviewer' = [reviewer EXCEPT ![r] =
             [at |-> "opened", review |-> k, verdict |-> v, id |-> reviews[k].id,
              active |-> FALSE]]
        /\ together' = IF \E q \in Reviewers : reviewer[q].review = k
                       THEN together \cup {k} ELSE together
  BY DEF OpenReview
<1>4. reviewer[r].at = "idle" /\ reviewer[r].review = 0
  BY <1>1 DEF OpenReview, RequestsInStep
<1>5. /\ Len(reviews) \in Nat /\ k # 0
      /\ reviews[k].id \in Ids \cup {Null}
      /\ together \subseteq together' /\ together' \subseteq 1..Len(reviews)
  BY <1>1, <1>3, ReviewFields DEF ReviewTypeOK
<1>6. /\ reviewer' \in [Reviewers -> [at : Stages, review : 0..Len(reviews), verdict : Verdicts,
                                      id : Ids \cup {Null}, active : BOOLEAN]]
      /\ \A q \in Reviewers \ {r} : reviewer'[q] = reviewer[q]
      /\ reviewer'[r] = [at |-> "opened", review |-> k, verdict |-> v, id |-> reviews[k].id,
                         active |-> FALSE]
  BY <1>1, <1>3, <1>5 DEF ReviewTypeOK, Stages
<1>7. ReviewTypeOK'
  BY <1>1, <1>2, <1>5, <1>6 DEF ReviewTypeOK
<1>8. Onward /\ Len(reviews') \in Nat
  BY <1>2, <1>5 DEF Onward
<1>9. RequestsInStep'
  <2>1. OpenedReview(r)'
    <3>1. \A q \in Reviewers : reviewer'[q].review = k /\ q # r => k \in together'
      BY <1>3, <1>6
    <3> QED BY <1>2, <1>3, <1>5, <1>6, <3>1 DEF OpenedReview
  <2>2. ASSUME NEW q \in Reviewers \ {r}, reviewer[q].at # "idle" PROVE OpenedReview(q)'
    <3>1. OpenedReview(q)
      BY <1>1, <2>2 DEF RequestsInStep
    <3>2. PICK m \in 1..Len(reviews) : m = reviewer[q].review
      <4>1. reviewer[q].review \in 0..Len(reviews)
        BY <1>1 DEF ReviewTypeOK
      <4> QED BY <1>5, <3>1, <4>1 DEF OpenedReview
    <3>3. \A x \in Reviewers : reviewer'[x].review = m /\ x # q => m \in together'
      <4>1. \A x \in Reviewers : reviewer[x].review = m /\ x # q => m \in together
        BY <3>1, <3>2 DEF OpenedReview
      <4>2. reviewer'[r].review = m => m \in together'
        BY <1>3, <1>6, <3>2
      <4> QED BY <1>5, <1>6, <4>1, <4>2
    <3>4. Kept(reviews[m].of) => Kept(reviews[m].of)'
      BY <1>2 DEF Kept
    <3>5. reviews'[m] = reviews[m] /\ reviewer'[q] = reviewer[q]
      BY <1>2, <1>6
    <3> QED BY <1>1, <1>8, <3>1, <3>2, <3>3, <3>4, <3>5, RequestStays
  <2> QED BY <1>1, <1>6, <2>1, <2>2 DEF RequestsInStep
<1>10. SuiteFollowsVerdict'
  <2>1. \A b \in 1..births : /\ Kept(b) => Kept(b)'
                             /\ b \in LiveBirths <=> b \in LiveBirths'
    BY <1>2 DEF Kept, LiveBirths, Live
  <2> QED BY <1>1, <1>2, <1>5, <2>1, ReviewingStays
<1>11. ReviewsAtHome'
  BY <1>1, <1>2, <1>5 DEF ReviewsAtHome, LiveBirths, Live
<1>12. IdsInOrder' /\ BatchAtHome' /\ TextsAreCurrent' /\ EmbeddingsOfTheLiving'
       /\ EveryDraftReviewable'
  BY <1>1, <1>2 DEF IdsInOrder, Live, BatchAtHome, LiveBirths, TextsAreCurrent, OfTheCase,
    EmbeddingsOfTheLiving, EveryDraftReviewable, Unreviewed
<1> QED BY <1>7, <1>9, <1>10, <1>11, <1>12 DEF DraftInv, VerdictsTakeEffect

\* A review that a request has open, as long as it is not excused.
LEMMA OpenIsPending ==
  ASSUME DraftInv, NEW r \in Reviewers, reviewer[r].at # "idle"
  PROVE  \E k \in 1..Len(reviews) :
           /\ k = reviewer[r].review
           /\ reviews[k].of \in 1..births
           /\ \/ Excused(k)
              \/ /\ k \notin together /\ reviews[k].verdict = "pending"
                 /\ reviews[k].of \in LiveBirths
                 /\ reviews[k].id \in Live /\ case[reviews[k].id] = reviews[k].of
                 /\ reviewer[r].id = reviews[k].id
                 /\ reviewer[r].active => Kept(reviews[k].of)
<1>1. ReviewTypeOK /\ ReviewsAtHome /\ RequestsInStep /\ SuiteFollowsVerdict
  BY Parts
<1>2. OpenedReview(r)
  BY <1>1 DEF RequestsInStep
<1>3. PICK k \in 1..Len(reviews) : k = reviewer[r].review
  <2>1. reviewer[r].review \in 0..Len(reviews)
    BY <1>1 DEF ReviewTypeOK
  <2> QED BY <1>1, <1>2, <2>1, ReviewFields DEF OpenedReview
<1>4. reviews[k].of \in 1..births
  BY <1>1, ReviewFields DEF ReviewsAtHome
<1>5. ASSUME ~Excused(k)
      PROVE  /\ k \notin together /\ reviews[k].verdict = "pending"
             /\ reviews[k].of \in LiveBirths
             /\ reviews[k].id \in Live /\ case[reviews[k].id] = reviews[k].of
             /\ reviewer[r].id = reviews[k].id
             /\ reviewer[r].active => Kept(reviews[k].of)
  <2>1. k \notin together
    BY <1>5 DEF Excused
  <2>2. reviews[k].verdict = "pending" /\ reviewer[r].id = reviews[k].id
        /\ (reviewer[r].active => Kept(reviews[k].of))
    BY <1>2, <1>3, <1>5, <2>1 DEF OpenedReview
  <2>3. reviews[k].of \in LiveBirths
    BY <1>1, <1>5, <2>2, SuiteIs DEF Follows
  <2>4. reviews[k].id # Null /\ reviews[k].id \in Ids
    BY <1>1, <2>1, <2>2, ReviewFields DEF ReviewsAtHome
  <2>5. case[reviews[k].id] = reviews[k].of
    BY <1>1, <2>3, <2>4 DEF ReviewsAtHome
  <2>6. reviews[k].id \in Live
    BY <1>4, <2>4, <2>5 DEF Live, Null
  <2> QED BY <2>1, <2>2, <2>3, <2>5, <2>6
<1> QED BY <1>3, <1>4, <1>5

LEMMA ReviewerFields ==
  ASSUME ReviewTypeOK, NEW r \in Reviewers
  PROVE  /\ NoRequest \in [at : Stages, review : 0..Len(reviews), verdict : Verdicts,
                           id : Ids \cup {Null}, active : BOOLEAN]
         /\ reviewer[r] \in [at : Stages, review : 0..Len(reviews), verdict : Verdicts,
                             id : Ids \cup {Null}, active : BOOLEAN]
         /\ NoRequest.at = "idle" /\ NoRequest.review = 0
<1>1. 0 \in 0..Len(reviews)
  BY ReviewFields
<1> QED BY <1>1 DEF ReviewTypeOK, NoRequest, Stages, Verdicts, Null

\* A step that only moves one reviewer, on its review or away from it.
LEMMA ReviewerMoves ==
  ASSUME DraftInv, NEW r \in Reviewers,
         UNCHANGED <<store, saver, reading, history>>,
         NEW R \in [at : Stages, review : 0..Len(reviews), verdict : Verdicts,
                    id : Ids \cup {Null}, active : BOOLEAN],
         reviewer' = [reviewer EXCEPT ![r] = R],
         R.review \in {0, reviewer[r].review},
         IF R.at = "idle" THEN R.review = 0 ELSE OpenedReview(r)'
  PROVE  DraftInv'
<1>1. /\ ReviewTypeOK /\ IdsInOrder /\ BatchAtHome /\ TextsAreCurrent /\ ReviewsAtHome
      /\ RequestsInStep /\ SuiteFollowsVerdict /\ EmbeddingsOfTheLiving /\ EveryDraftReviewable
  BY Parts
<1>2. UNCHANGED <<database, births, case, status, embedding, reviews, saver, reading,
                  drafted, abandoned, removed, withdrawn, together, crossed, decided>>
  BY DEF store, history
<1>3. /\ reviewer' \in [Reviewers -> [at : Stages, review : 0..Len(reviews), verdict : Verdicts,
                                      id : Ids \cup {Null}, active : BOOLEAN]]
      /\ \A q \in Reviewers \ {r} : reviewer'[q] = reviewer[q]
      /\ reviewer'[r] = R
  BY <1>1 DEF ReviewTypeOK
<1>4. ReviewTypeOK'
  BY <1>1, <1>2, <1>3 DEF ReviewTypeOK
<1>5. Onward /\ Len(reviews') \in Nat /\ \A b \in 1..births : Kept(b) => Kept(b)'
  BY <1>1, <1>2, ReviewFields DEF Onward, Kept
<1>6. RequestsInStep'
  BY <1>1, <1>2, <1>3, <1>5, OthersGoOn
<1>7. SuiteFollowsVerdict' /\ IdsInOrder' /\ BatchAtHome' /\ TextsAreCurrent'
      /\ EmbeddingsOfTheLiving' /\ EveryDraftReviewable' /\ ReviewsAtHome'
  BY <1>1, <1>2 DEF IdsInOrder, Live, BatchAtHome, LiveBirths, TextsAreCurrent, OfTheCase,
    EmbeddingsOfTheLiving, EveryDraftReviewable, Unreviewed, ReviewsAtHome, SuiteFollowsVerdict,
    DecidedElsewhere
<1> QED BY <1>4, <1>6, <1>7 DEF DraftInv, VerdictsTakeEffect

LEMMA LoadStep == DraftInv /\ (\E r \in Reviewers : LoadDraft(r) \/ ReviewDies(r)) => DraftInv'
<1> SUFFICES ASSUME DraftInv, NEW r \in Reviewers, LoadDraft(r) \/ ReviewDies(r) PROVE DraftInv'
  OBVIOUS
<1>1. ReviewTypeOK /\ RequestsInStep
  BY Parts
<1>2. UNCHANGED <<store, saver, reading, history>> /\ reviewer[r].at # "idle"
  BY DEF LoadDraft, ReviewDies
<1>3. UNCHANGED <<reviews, status, together, removed, decided, withdrawn>>
  BY <1>2 DEF store, history
<1>4. PICK k \in 1..Len(reviews) :
        /\ k = reviewer[r].review
        /\ reviews[k].of \in 1..births
        /\ \/ Excused(k)
           \/ /\ k \notin together /\ reviews[k].verdict = "pending"
              /\ reviews[k].of \in LiveBirths
              /\ reviews[k].id \in Live /\ case[reviews[k].id] = reviews[k].of
              /\ reviewer[r].id = reviews[k].id
              /\ reviewer[r].active => Kept(reviews[k].of)
  BY <1>2, OpenIsPending
<1>5. ASSUME reviewer' = [reviewer EXCEPT ![r] = NoRequest] PROVE DraftInv'
  BY <1>1, <1>2, <1>5, ReviewerMoves, ReviewerFields
<1> DEFINE T == [at : Stages, review : 0..Len(reviews), verdict : Verdicts,
                 id : Ids \cup {Null}, active : BOOLEAN]
<1>6. ASSUME NEW R \in T, R.at = "ready", R.review = reviewer[r].review,
             reviewer' = [reviewer EXCEPT ![r] = R],
             R.id = reviewer[r].id \/ Excused(k),
             R.active => Excused(k) \/ Kept(reviews[k].of)
      PROVE  DraftInv'
  <2>4. reviewer'[r] = R /\ \A q \in Reviewers \ {r} : reviewer'[q] = reviewer[q]
    BY <1>1, <1>6 DEF ReviewTypeOK
  <2>5. OpenedReview(r)
    BY <1>1, <1>2 DEF RequestsInStep
  <2>6. Excused(k) <=> Excused(k)'
    BY <1>3 DEF Excused, DecidedElsewhere
  <2>7. Kept(reviews[k].of) <=> Kept(reviews[k].of)'
    BY <1>3 DEF Kept
  <2>8. reviewer[r].id = reviews[k].id \/ Excused(k)
    BY <1>4
  <2>9. R.id = reviews'[k].id \/ Excused(k)'
    BY <1>3, <1>6, <2>6, <2>8
  <2>10. R.active => Excused(k)' \/ Kept(reviews[k].of)'
    BY <1>6, <2>6, <2>7
  <2>11. \A q \in Reviewers : reviewer'[q].review = k /\ q # r => k \in together'
    BY <1>3, <1>4, <2>4, <2>5 DEF OpenedReview
  <2>12. k # 0 /\ (reviews'[k].verdict = "pending" \/ k \in together')
    BY <1>3, <1>4, <2>5 DEF OpenedReview
  <2>13. OpenedReview(r)'
    BY <1>3, <1>4, <1>6, <2>4, <2>9, <2>10, <2>11, <2>12 DEF OpenedReview
  <2> QED BY <1>2, <1>6, <2>13, ReviewerMoves
<1>7. CASE ReviewDies(r)
  BY <1>5, <1>7 DEF ReviewDies, Close
<1>8. CASE LoadDraft(r)
  <2>1. CASE Exists(reviewer[r].id)
    <3> DEFINE active == status[case[reviewer[r].id]] = "active"
    <3>1. reviewer' = [reviewer EXCEPT ![r].at = "ready", ![r].active = active]
      BY <1>8, <2>1 DEF LoadDraft
    <3>2. active \in BOOLEAN
      OBVIOUS
    <3>3. active => Excused(k) \/ Kept(reviews[k].of)
      BY <1>4 DEF Kept
    <3> HIDE DEF active
    <3>4. PICK was \in T : was = reviewer[r]
      BY <1>1, ReviewerFields
    <3> DEFINE R == [was EXCEPT !.at = "ready", !.active = active]
    <3>5. R \in T /\ R.at = "ready" /\ R.review = was.review /\ R.id = was.id
          /\ R.active = active
      BY <3>2 DEF Stages
    <3>6. reviewer' = [reviewer EXCEPT ![r] = R]
      BY <3>1, <3>4
    <3> HIDE DEF R
    <3> QED BY <1>6, <3>3, <3>4, <3>5, <3>6
  <2>2. CASE ~Exists(reviewer[r].id) /\ reviewer[r].verdict = "rejected"
    <3>1. reviewer' = [reviewer EXCEPT ![r].at = "ready", ![r].id = Null]
      BY <1>8, <2>2 DEF LoadDraft
    <3>2. Excused(k)
      <4>1. \A i \in Live : i # Null
        BY DEF Live, Ids, Births, Null
      <4> QED BY <1>4, <2>2, <4>1 DEF Exists
    <3>3. PICK was \in T : was = reviewer[r]
      BY <1>1, ReviewerFields
    <3> DEFINE R == [was EXCEPT !.at = "ready", !.id = Null]
    <3>4. R \in T /\ R.at = "ready" /\ R.review = was.review
      BY DEF Stages
    <3>5. reviewer' = [reviewer EXCEPT ![r] = R]
      BY <3>1, <3>3
    <3> HIDE DEF R
    <3> QED BY <1>6, <3>2, <3>3, <3>4, <3>5
  <2>3. CASE ~Exists(reviewer[r].id) /\ reviewer[r].verdict # "rejected"
    BY <1>5, <1>8, <2>3 DEF LoadDraft, Close
  <2> QED BY <2>1, <2>2, <2>3
<1> QED BY <1>7, <1>8

\* The commit of a verdict.
LEMMA JudgedIs ==
  ASSUME ReviewTypeOK, NEW r \in Reviewers, NEW k \in 1..Len(reviews), k = reviewer[r].review,
         NEW i \in Ids \cup {Null}, Judged(r, i)
  PROVE  /\ reviews' \in Seq([id : Ids \cup {Null}, of : Births,
                              verdict : Verdicts \cup {"pending"}])
         /\ Len(reviews') = Len(reviews)
         /\ \A j \in 1..Len(reviews) : j # k => reviews'[j] = reviews[j]
         /\ reviews'[k].of = reviews[k].of /\ reviews'[k].id = i
         /\ reviews'[k].verdict = reviewer[r].verdict
<1> DEFINE T == [id : Ids \cup {Null}, of : Births, verdict : Verdicts \cup {"pending"}]
<1>1. reviews \in Seq(T) /\ reviewer[r].verdict \in Verdicts
  BY ReviewerFields DEF ReviewTypeOK
<1>2. PICK was \in T : was = reviews[k]
  BY ReviewFields
<1> DEFINE R == [was EXCEPT !.verdict = reviewer[r].verdict, !.id = i]
<1>3. R \in T /\ R.of = was.of /\ R.id = i /\ R.verdict = reviewer[r].verdict
  BY <1>1
<1>4. reviews' = [reviews EXCEPT ![k] = R]
  BY <1>2 DEF Judged
<1> HIDE DEF R, T
<1>5. /\ reviews' \in Seq(T) /\ Len(reviews') = Len(reviews) /\ reviews'[k] = R
      /\ \A j \in 1..Len(reviews) : j # k => reviews'[j] = reviews[j]
  BY <1>1, <1>3, <1>4
<1> QED BY <1>2, <1>3, <1>5 DEF T

LEMMA DecidesAre ==
  ASSUME ReviewTypeOK, NEW r \in Reviewers, NEW k \in 1..Len(reviews), k = reviewer[r].review,
         NEW i, Decides(r, i)
  PROVE  /\ decided \subseteq decided' /\ decided' \subseteq (1..Len(reviews)) \X Births
         /\ Exists(i) => <<k, case[i]>> \in decided'
<1>1. Exists(i) => case[i] \in Births
  <2>1. \A j \in Live : case[j] \in 1..births
    BY DEF Live, ReviewTypeOK, Null
  <2> QED BY <2>1, Histories DEF Exists
<1>2. decided \subseteq (1..Len(reviews)) \X Births
  BY DEF ReviewTypeOK
<1> QED BY <1>1, <1>2 DEF Decides

\* A reviewer leaves its review: what the step has to say of that review.
LEMMA ReviewerLeaves ==
  ASSUME DraftInv, NEW r \in Reviewers, reviewer[r].at # "idle", Close(r),
         NEW k \in 1..Len(reviews), k = reviewer[r].review,
         reviews' \in Seq([id : Ids \cup {Null}, of : Births,
                           verdict : Verdicts \cup {"pending"}]),
         Len(reviews') = Len(reviews), reviews'[k].of = reviews[k].of,
         \A j \in 1..Len(reviews) : j # k => reviews'[j] = reviews[j],
         decided \subseteq decided', decided' \subseteq (1..Len(reviews)) \X Births,
         UNCHANGED <<database, births, saver, reading, drafted, abandoned, removed, withdrawn,
                     together>>,
         crossed' \subseteq Births, case' \in [Ids -> 0..births],
         embedding' \in [Ids -> 0..births], status' \in [Births -> {"none", "draft", "active"}],
         \A b \in 1..births : Kept(b) => Kept(b)'
  PROVE  ReviewTypeOK' /\ Onward /\ Len(reviews') \in Nat /\ RequestsInStep'
<1>1. ReviewTypeOK /\ RequestsInStep /\ ReviewsAtHome
  BY Parts
<1>2. \A j \in 1..Len(reviews) : reviews'[j].of = reviews[j].of
  OBVIOUS
<1>3. Onward /\ Len(reviews') \in Nat
  BY <1>1, <1>2, ReviewFields DEF Onward
<1>4. /\ reviewer' \in [Reviewers -> [at : Stages, review : 0..Len(reviews), verdict : Verdicts,
                                      id : Ids \cup {Null}, active : BOOLEAN]]
      /\ \A q \in Reviewers \ {r} : reviewer'[q] = reviewer[q]
      /\ reviewer'[r] = NoRequest
  BY <1>1, ReviewerFields DEF ReviewTypeOK, Close
<1>5. ReviewTypeOK'
  BY <1>1, <1>4 DEF ReviewTypeOK
<1>6. RequestsInStep'
  <2>1. OpenedReview(r)
    BY <1>1 DEF RequestsInStep
  <2>2. ASSUME NEW q \in Reviewers \ {r}, NEW j \in 1..Len(reviews), j = reviewer[q].review
        PROVE  reviews'[j] = reviews[j] \/ j \in together'
    BY <2>1, <2>2 DEF OpenedReview
  <2>3. reviewer'[r].at = "idle" /\ reviewer'[r].review = 0
    BY <1>1, <1>4, ReviewerFields
  <2> QED BY <1>1, <1>3, <1>4, <2>2, <2>3, OthersGoOn
<1> QED BY <1>3, <1>5, <1>6

LEMMA KeepStep == DraftInv /\ (\E r \in Reviewers : Keep(r)) => DraftInv'
<1> SUFFICES ASSUME DraftInv, NEW r \in Reviewers, Keep(r) PROVE DraftInv'
  OBVIOUS
<1>1. /\ ReviewTypeOK /\ IdsInOrder /\ BatchAtHome /\ TextsAreCurrent /\ ReviewsAtHome
      /\ RequestsInStep /\ SuiteFollowsVerdict /\ EmbeddingsOfTheLiving /\ EveryDraftReviewable
  BY Parts
<1>2. /\ reviewer[r].at = "ready" /\ reviewer[r].verdict \in {"accepted", "edited"}
      /\ Close(r)
      /\ UNCHANGED <<database, births, case, embedding, saver, reading, drafted, abandoned,
                     removed, withdrawn, together, crossed>>
  BY DEF Keep
<1>3. PICK k \in 1..Len(reviews) :
        /\ k = reviewer[r].review
        /\ reviews[k].of \in 1..births
        /\ \/ Excused(k)
           \/ /\ k \notin together /\ reviews[k].verdict = "pending"
              /\ reviews[k].of \in LiveBirths
              /\ reviews[k].id \in Live /\ case[reviews[k].id] = reviews[k].of
              /\ reviewer[r].id = reviews[k].id
              /\ reviewer[r].active => Kept(reviews[k].of)
  BY <1>2, OpenIsPending
<1> DEFINE i == reviewer[r].id
           T == [id : Ids \cup {Null}, of : Births, verdict : Verdicts \cup {"pending"}]
<1>4. \/ Judged(r, reviews[k].id) /\ ~Updates(r) /\ UNCHANGED <<status, decided>>
      \/ /\ Judged(r, reviews[k].id) /\ Exists(i) /\ Decides(r, i)
         /\ status' = [status EXCEPT ![case[i]] = "active"]
      \/ UNCHANGED <<reviews, status, decided>> /\ ~Exists(i)
  BY <1>3 DEF Keep
<1>5. reviews \in Seq(T) /\ reviews[k].id \in Ids \cup {Null}
  BY <1>1, ReviewFields DEF ReviewTypeOK
<1>6. /\ reviews' \in Seq(T) /\ Len(reviews') = Len(reviews)
      /\ \A j \in 1..Len(reviews) : j # k => reviews'[j] = reviews[j]
      /\ reviews'[k].of = reviews[k].of /\ reviews'[k].id = reviews[k].id
      /\ reviews'[k].verdict \in {reviews[k].verdict, reviewer[r].verdict}
  <2>1. ASSUME Judged(r, reviews[k].id)
        PROVE  /\ reviews' \in Seq(T) /\ Len(reviews') = Len(reviews)
               /\ \A j \in 1..Len(reviews) : j # k => reviews'[j] = reviews[j]
               /\ reviews'[k].of = reviews[k].of /\ reviews'[k].id = reviews[k].id
               /\ reviews'[k].verdict = reviewer[r].verdict
    BY <1>1, <1>3, <1>5, <2>1, JudgedIs
  <2> QED BY <1>4, <1>5, <2>1
<1>7. /\ decided \subseteq decided' /\ decided' \subseteq (1..Len(reviews)) \X Births
      /\ status' \in [Births -> {"none", "draft", "active"}]
      /\ \A b : status[b] = "active" /\ b \in Births => status'[b] = "active"
  <2>1. decided \subseteq (1..Len(reviews)) \X Births
        /\ status \in [Births -> {"none", "draft", "active"}]
    BY <1>1 DEF ReviewTypeOK
  <2>2. ASSUME Decides(r, i)
        PROVE  decided \subseteq decided' /\ decided' \subseteq (1..Len(reviews)) \X Births
    BY <1>1, <1>3, <2>2, DecidesAre
  <2>3. /\ status' \in [Births -> {"none", "draft", "active"}]
        /\ \A b : status[b] = "active" /\ b \in Births => status'[b] = "active"
    BY <1>4, <2>1
  <2> QED BY <1>4, <2>1, <2>2, <2>3
<1>8. \A b \in 1..births : Kept(b) => Kept(b)'
  <2>1. 1..births \subseteq Births
    BY <1>1, Histories DEF ReviewTypeOK
  <2> QED BY <1>2, <1>7, <2>1 DEF Kept
<1>9. ReviewTypeOK' /\ Onward /\ Len(reviews') \in Nat /\ RequestsInStep'
  <2>1. /\ crossed' \subseteq Births /\ case' \in [Ids -> 0..births]
        /\ embedding' \in [Ids -> 0..births]
    BY <1>1, <1>2, Histories DEF ReviewTypeOK
  <2> QED BY <1>2, <1>3, <1>6, <1>7, <1>8, <2>1, ReviewerLeaves
<1>10. \A b : b \in LiveBirths <=> b \in LiveBirths'
  BY <1>2 DEF LiveBirths, Live
<1>11. SuiteFollowsVerdict'
  <2>1. ASSUME NEW j \in 1..Len(reviews), reviews'[j].verdict = reviews[j].verdict
        PROVE  Excused(j)' \/ Follows(j)'
    <3>1. PICK b \in 1..births : b = reviews[j].of
      BY <1>1, ReviewFields DEF ReviewsAtHome
    <3> QED BY <1>1, <1>8, <1>9, <1>10, <2>1, <3>1, FollowsOn
  <2>2. ASSUME reviews'[k].verdict # reviews[k].verdict PROVE Excused(k)' \/ Follows(k)'
    <3>1. CASE Excused(k)
      BY <1>1, <1>9, <3>1, ExcusesStay
    <3>2. CASE ~Excused(k)
      <4>1. /\ reviews[k].of \in LiveBirths /\ reviews[k].id \in Live
            /\ case[i] = reviews[k].of /\ i = reviews[k].id
            /\ reviewer[r].active => Kept(reviews[k].of)
        BY <1>3, <3>2
      <4>2. Exists(i)
        BY <4>1 DEF Exists, Live, Ids, Births, Null
      <4>3. status'[reviews[k].of] = "active" \/ reviews[k].of \in withdrawn
        <5>1. CASE ~Updates(r) /\ UNCHANGED <<status, decided>>
          BY <4>1, <5>1 DEF Updates, Kept
        <5>2. CASE status' = [status EXCEPT ![case[i]] = "active"]
          <6>1. reviews[k].of \in Births
            BY <1>1, <1>3, Histories
          <6> QED BY <1>1, <4>1, <5>2, <6>1 DEF ReviewTypeOK
        <5>3. CASE UNCHANGED reviews
          BY <2>2, <5>3
        <5> QED BY <1>4, <5>1, <5>2, <5>3
      <4>4. reviews'[k].verdict # "rejected"
        BY <1>2, <1>6, <2>2
      <4> QED BY <1>2, <1>6, <1>10, <4>1, <4>3, <4>4 DEF Follows, Kept
    <3> QED BY <3>1, <3>2
  <2> QED BY <1>6, <2>1, <2>2, SuiteOn
<1>12. ReviewsAtHome' /\ BatchAtHome'
  <2>1. Moves /\ births' \in Nat
    BY <1>1, <1>2 DEF Moves, ReviewTypeOK
  <2>2. ASSUME NEW j \in 1..Len(reviews)
        PROVE  /\ reviews'[j].of = reviews[j].of
               /\ reviews'[j].id \in {reviews[j].id, Null}
               /\ reviews'[j].verdict # "rejected" => reviews'[j].id # Null \/ j \in together'
    <3>1. CASE j # k
      BY <1>1, <1>2, <1>6, <3>1 DEF ReviewsAtHome
    <3>2. CASE j = k
      <4>1. reviews[k].verdict = "pending" \/ k \in together
        BY <1>1, <1>2, <1>3 DEF RequestsInStep, OpenedReview
      <4>2. reviews[k].verdict = "pending" => reviews[k].id # Null \/ k \in together
        BY <1>1 DEF ReviewsAtHome
      <4> QED BY <1>2, <1>6, <3>2, <4>1, <4>2
    <3> QED BY <3>1, <3>2
  <2> QED BY <1>1, <1>2, <1>6, <2>1, <2>2, ReviewsMove, BatchMoves
<1>13. IdsInOrder' /\ TextsAreCurrent' /\ EmbeddingsOfTheLiving'
  BY <1>1, <1>2 DEF IdsInOrder, Live, TextsAreCurrent, OfTheCase, EmbeddingsOfTheLiving
<1>14. EveryDraftReviewable'
  BY <1>1, <1>2, <1>6, <1>10 DEF EveryDraftReviewable, Unreviewed
<1> QED BY <1>9, <1>11, <1>12, <1>13, <1>14 DEF DraftInv, VerdictsTakeEffect

\* A test case goes.
LEMMA CaseGoes ==
  ASSUME ReviewTypeOK, IdsInOrder, NEW i,
         case' = [j \in Ids |-> IF j = i THEN Null ELSE case[j]],
         UNCHANGED <<database, births, drafted>>
  PROVE  /\ Moves /\ births' \in Nat /\ case' \in [Ids -> 0..births] /\ IdsInOrder'
         /\ \A b : b \in LiveBirths' => b \in LiveBirths
         /\ \A b : b \in LiveBirths => b \in LiveBirths' \/ (i \in Live /\ b = case[i])
         /\ i \in Live => case[i] \notin LiveBirths' /\ case[i] \in 1..births
<1>1. case \in [Ids -> 0..births] /\ births \in Nat
  BY DEF ReviewTypeOK
<1>2. \A j \in Ids : case'[j] = IF j = i THEN Null ELSE case[j]
  OBVIOUS
<1>3. Moves
  BY <1>1, <1>2 DEF Moves
<1>4. case' \in [Ids -> 0..births]
  BY <1>1 DEF Null
<1>5. \A j : j \in Live' <=> j \in Live /\ j # i
  BY <1>2 DEF Live
<1>6. \A j \in Live' : case'[j] = case[j]
  BY <1>2, <1>5 DEF Live
<1>7. IdsInOrder'
  BY <1>5, <1>6 DEF IdsInOrder
<1>8. \A b : b \in LiveBirths' => \E j \in Live : j # i /\ b = case[j]
  BY <1>5, <1>6 DEF LiveBirths
<1>9. \A b : b \in LiveBirths' => b \in LiveBirths
  BY <1>8 DEF LiveBirths
<1>10. ASSUME NEW b \in LiveBirths PROVE b \in LiveBirths' \/ (i \in Live /\ b = case[i])
  <2>1. PICK j \in Live : b = case[j]
    BY DEF LiveBirths
  <2>2. j # i => b \in LiveBirths'
    BY <1>5, <1>6, <2>1 DEF LiveBirths
  <2> QED BY <2>1, <2>2
<1>11. ASSUME i \in Live PROVE case[i] \notin LiveBirths' /\ case[i] \in 1..births
  <2>1. case[i] \notin LiveBirths'
    BY <1>8, <1>11 DEF IdsInOrder
  <2>2. case[i] \in 0..births /\ case[i] # Null
    BY <1>1, <1>11 DEF Live
  <2> QED BY <1>1, <2>1, <2>2 DEF Null
<1> QED BY <1>1, <1>3, <1>4, <1>7, <1>9, <1>10, <1>11

LEMMA RejectStep == DraftInv /\ (\E r \in Reviewers : RejectDraft(r)) => DraftInv'
<1> SUFFICES ASSUME DraftInv, NEW r \in Reviewers, RejectDraft(r) PROVE DraftInv'
  OBVIOUS
<1>1. /\ ReviewTypeOK /\ IdsInOrder /\ BatchAtHome /\ TextsAreCurrent /\ ReviewsAtHome
      /\ RequestsInStep /\ SuiteFollowsVerdict /\ EmbeddingsOfTheLiving /\ EveryDraftReviewable
  BY Parts
<1> DEFINE i == reviewer[r].id
           T == [id : Ids \cup {Null}, of : Births, verdict : Verdicts \cup {"pending"}]
<1>2. /\ reviewer[r].at = "ready" /\ reviewer[r].verdict = "rejected" /\ Close(r)
      /\ case' = [j \in Ids |-> IF j = i THEN Null ELSE case[j]]
      /\ embedding' = [j \in Ids |-> IF j = i THEN Null ELSE embedding[j]]
      /\ Decides(r, i)
      /\ crossed' = crossed \cup (IF Exists(i) THEN {case[i]} \cap BeingRead ELSE {})
      /\ Judged(r, IF i = Null THEN reviews[reviewer[r].review].id ELSE Null)
      /\ UNCHANGED <<database, births, status, saver, reading, drafted, abandoned,
                     removed, withdrawn, together>>
  BY DEF RejectDraft
<1>3. PICK k \in 1..Len(reviews) :
        /\ k = reviewer[r].review
        /\ reviews[k].of \in 1..births
        /\ \/ Excused(k)
           \/ /\ k \notin together /\ reviews[k].verdict = "pending"
              /\ reviews[k].of \in LiveBirths
              /\ reviews[k].id \in Live /\ case[reviews[k].id] = reviews[k].of
              /\ reviewer[r].id = reviews[k].id
              /\ reviewer[r].active => Kept(reviews[k].of)
  BY <1>2, OpenIsPending
<1>4. Exists(i) <=> i \in Live
  BY DEF Exists, Live, Ids, Births, Null
<1>5. /\ Moves /\ births' \in Nat /\ case' \in [Ids -> 0..births] /\ IdsInOrder'
      /\ \A b : b \in LiveBirths' => b \in LiveBirths
      /\ \A b : b \in LiveBirths => b \in LiveBirths' \/ (i \in Live /\ b = case[i])
      /\ i \in Live => case[i] \notin LiveBirths' /\ case[i] \in 1..births
  BY <1>1, <1>2, CaseGoes
<1>6. PICK d \in {reviews[k].id, Null} : Judged(r, d)
  BY <1>2, <1>3
<1>7. d \in Ids \cup {Null}
  BY <1>1, ReviewFields
<1>8. /\ reviews' \in Seq(T) /\ Len(reviews') = Len(reviews)
      /\ \A j \in 1..Len(reviews) : j # k => reviews'[j] = reviews[j]
      /\ reviews'[k].of = reviews[k].of /\ reviews'[k].id = d
      /\ reviews'[k].verdict = "rejected"
  BY <1>1, <1>2, <1>3, <1>6, <1>7, JudgedIs
<1>9. /\ decided \subseteq decided' /\ decided' \subseteq (1..Len(reviews)) \X Births
      /\ Exists(i) => <<k, case[i]>> \in decided'
  BY <1>1, <1>2, <1>3, DecidesAre
<1>10. \A b \in 1..births : Kept(b) => Kept(b)'
  BY <1>2 DEF Kept
<1>11. ReviewTypeOK' /\ Onward /\ Len(reviews') \in Nat /\ RequestsInStep'
  <2>1. embedding' \in [Ids -> 0..births]
    BY <1>1, <1>2 DEF ReviewTypeOK, Null
  <2>2. crossed' \subseteq Births
    BY <1>1, <1>2, <1>4, <1>5, Histories
  <2>3. status' \in [Births -> {"none", "draft", "active"}]
    BY <1>1, <1>2 DEF ReviewTypeOK
  <2> QED BY <1>2, <1>3, <1>5, <1>8, <1>9, <1>10, <2>1, <2>2, <2>3, ReviewerLeaves
<1>12. SuiteFollowsVerdict'
  <2>1. ASSUME NEW j \in 1..Len(reviews), j # k PROVE Excused(j)' \/ Follows(j)'
    <3>1. PICK b \in 1..births : b = reviews[j].of
      BY <1>1, ReviewFields DEF ReviewsAtHome
    <3>2. ASSUME i \in Live, b = case[i] PROVE Excused(j)'
      <4>1. <<k, b>> \in decided' /\ reviews'[k].of # b /\ reviews'[j].of = b
        BY <1>1, <1>4, <1>8, <1>9, <2>1, <3>1, <3>2 DEF ReviewsAtHome
      <4>2. \E e \in decided' : e[2] = b /\ reviews'[e[1]].of # b
        BY <4>1
      <4> QED BY <4>1, <4>2 DEF Excused, DecidedElsewhere
    <3>3. /\ b \in LiveBirths' => b \in LiveBirths
          /\ b \in LiveBirths => b \in LiveBirths' \/ Excused(j)'
      BY <1>5, <3>1, <3>2
    <3>4. reviews'[j].verdict = reviews[j].verdict
      BY <1>8, <2>1
    <3> QED BY <1>1, <1>10, <1>11, <3>1, <3>3, <3>4, FollowsOn
  <2>2. Excused(k)' \/ Follows(k)'
    <3>1. CASE Excused(k)
      BY <1>1, <1>11, <3>1, ExcusesStay
    <3>2. CASE ~Excused(k)
      BY <1>3, <1>5, <1>8, <3>2 DEF Follows
    <3> QED BY <3>1, <3>2
  <2> QED BY <1>8, <2>1, <2>2, SuiteOn
<1>13. ReviewsAtHome' /\ BatchAtHome'
  <2>1. ASSUME NEW j \in 1..Len(reviews)
        PROVE  /\ reviews'[j].of = reviews[j].of
               /\ reviews'[j].id \in {reviews[j].id, Null}
               /\ reviews'[j].verdict # "rejected" => reviews'[j].id # Null \/ j \in together'
    <3>1. CASE j # k
      BY <1>1, <1>2, <1>8, <3>1 DEF ReviewsAtHome
    <3>2. CASE j = k
      BY <1>6, <1>8, <3>2
    <3> QED BY <3>1, <3>2
  <2> QED BY <1>1, <1>2, <1>5, <1>8, <2>1, ReviewsMove, BatchMoves
<1>14. TextsAreCurrent' /\ EmbeddingsOfTheLiving'
  <2>1. \A j \in Ids : case[j] # Null /\ case'[j] # case[j] => j = i /\ i \in Live
    BY <1>2 DEF Live
  <2>2. TextsAreCurrent'
    <3>1. \A j \in Ids : case[j] \in BeingRead /\ case[j] # Null /\ case'[j] # case[j] =>
            case[j] \in removed' \cup crossed'
      BY <1>2, <1>4, <2>1
    <3> QED BY <1>1, <1>2, <3>1, TextsMove
  <2>3. EmbeddingsOfTheLiving'
    <3>1. \A j \in Ids : case[j] # Null /\ case'[j] # case[j] => embedding'[j] = Null
      BY <1>2, <2>1
    <3>2. \A j \in Ids : embedding'[j] \in {embedding[j], Null}
      BY <1>2
    <3> QED BY <1>1, <1>2, <3>1, <3>2, EmbeddingsMove
  <2> QED BY <2>2, <2>3
<1>15. EveryDraftReviewable'
  BY <1>1, <1>2, <1>5, <1>8 DEF EveryDraftReviewable, Unreviewed
<1> QED BY <1>5, <1>11, <1>12, <1>13, <1>14, <1>15 DEF DraftInv, VerdictsTakeEffect

LEMMA DeleteStep == DraftInv /\ (\E i \in Ids : DeleteCase(i)) => DraftInv'
<1> SUFFICES ASSUME DraftInv, NEW i \in Ids, DeleteCase(i) PROVE DraftInv'
  OBVIOUS
<1>1. /\ ReviewTypeOK /\ IdsInOrder /\ BatchAtHome /\ TextsAreCurrent /\ ReviewsAtHome
      /\ RequestsInStep /\ SuiteFollowsVerdict /\ EmbeddingsOfTheLiving /\ EveryDraftReviewable
  BY Parts
<1>2. /\ i \in Live /\ removed' = removed \cup {case[i]}
      /\ crossed' = crossed \cup ({case[i]} \cap BeingRead)
      /\ UNCHANGED <<database, births, status, embedding, reviews, saver, reviewer, reading,
                     drafted, abandoned, withdrawn, together, decided>>
  BY DEF DeleteCase, requests
<1>3. case' = [j \in Ids |-> IF j = i THEN Null ELSE case[j]]
  BY <1>1 DEF DeleteCase, ReviewTypeOK
<1>4. /\ Moves /\ births' \in Nat /\ case' \in [Ids -> 0..births] /\ IdsInOrder'
      /\ \A b : b \in LiveBirths' => b \in LiveBirths
      /\ \A b : b \in LiveBirths => b \in LiveBirths' \/ (i \in Live /\ b = case[i])
      /\ i \in Live => case[i] \notin LiveBirths' /\ case[i] \in 1..births
  BY <1>1, <1>2, <1>3, CaseGoes
<1>5. ReviewTypeOK'
  <2>1. removed' \subseteq Births /\ crossed' \subseteq Births
    BY <1>1, <1>2, <1>4, Histories
  <2>2. UNION {drafted', abandoned', removed', withdrawn', crossed'} \subseteq Births
    BY <1>1, <1>2, <2>1, Histories
  <2> QED BY <1>1, <1>2, <1>4, <2>2 DEF ReviewTypeOK
<1>6. RequestsInStep' /\ SuiteFollowsVerdict'
  <2>1. \A b \in 1..births : /\ Kept(b) => Kept(b)'
                             /\ b \in LiveBirths' => b \in LiveBirths
                             /\ b \in LiveBirths => b \in LiveBirths' \/ b \in removed'
    BY <1>2, <1>4 DEF Kept
  <2> QED BY <1>1, <1>2, <2>1, ReviewingStays
<1>7. ReviewsAtHome' /\ BatchAtHome'
  BY <1>1, <1>2, <1>4, HomesStay
<1>8. TextsAreCurrent' /\ EmbeddingsOfTheLiving'
  <2>1. \A j \in Ids : case[j] # Null /\ case'[j] # case[j] => case[j] \in removed'
    BY <1>2, <1>3
  <2>2. \A j \in Ids : embedding'[j] \in {embedding[j], Null}
    BY <1>2
  <2> QED BY <1>1, <1>2, <2>1, <2>2, TextsMove, EmbeddingsMove
<1>9. EveryDraftReviewable'
  BY <1>1, <1>2, <1>4 DEF EveryDraftReviewable, Unreviewed
<1> QED BY <1>4, <1>5, <1>6, <1>7, <1>8, <1>9 DEF DraftInv, VerdictsTakeEffect


LEMMA StatusStep == DraftInv /\ (\E i \in Ids : SetStatus(i)) => DraftInv'
<1> SUFFICES ASSUME DraftInv, NEW i \in Ids, SetStatus(i) PROVE DraftInv'
  OBVIOUS
<1>1. /\ ReviewTypeOK /\ IdsInOrder /\ BatchAtHome /\ TextsAreCurrent /\ ReviewsAtHome
      /\ RequestsInStep /\ SuiteFollowsVerdict /\ EmbeddingsOfTheLiving /\ EveryDraftReviewable
  BY Parts
<1>2. PICK b \in Births, new \in {"draft", "active"} :
        /\ status' = [status EXCEPT ![b] = new]
        /\ withdrawn' = IF new = "draft" THEN withdrawn \cup {b} ELSE withdrawn
  <2>1. i \in Live /\ case[i] \in Births
    <3>1. i \in Live /\ case[i] \in 0..births /\ case[i] # Null
      BY <1>1 DEF SetStatus, Live, ReviewTypeOK
    <3>2. case[i] \in 1..births
      BY <1>1, <3>1, ReviewFields DEF Null
    <3> QED BY <1>1, <3>1, <3>2, Histories
  <2> QED BY <2>1 DEF SetStatus
<1>3. UNCHANGED <<database, births, case, embedding, reviews, saver, reviewer, reading,
                  drafted, abandoned, removed, together, crossed, decided>>
  BY DEF SetStatus, requests
<1>4. ReviewTypeOK'
  <2>1. status' \in [Births -> {"none", "draft", "active"}]
    BY <1>1, <1>2 DEF ReviewTypeOK
  <2>2. withdrawn' \subseteq Births
    BY <1>1, <1>2, Histories
  <2>3. UNION {drafted', abandoned', removed', withdrawn', crossed'} \subseteq Births
    BY <1>1, <1>3, <2>2, Histories
  <2> QED BY <1>1, <1>3, <2>1, <2>3 DEF ReviewTypeOK
<1>5. RequestsInStep' /\ SuiteFollowsVerdict'
  <2>1. \A c \in 1..births : Kept(c) => Kept(c)'
    <3>1. \A c \in Births : Kept(c) => Kept(c)'
      BY <1>1, <1>2 DEF Kept, ReviewTypeOK
    <3> QED BY <1>1, <3>1, Histories
  <2>2. \A c : c \in LiveBirths <=> c \in LiveBirths'
    BY <1>3 DEF LiveBirths, Live
  <2> QED BY <1>1, <1>3, <2>1, <2>2, ReviewingStays
<1>6. IdsInOrder' /\ TextsAreCurrent' /\ BatchAtHome' /\ ReviewsAtHome'
  BY <1>1, <1>3 DEF IdsInOrder, Live, LiveBirths, TextsAreCurrent, OfTheCase, BatchAtHome,
    ReviewsAtHome
<1>7. EmbeddingsOfTheLiving' /\ EveryDraftReviewable'
  BY <1>1, <1>3 DEF EmbeddingsOfTheLiving, EveryDraftReviewable, LiveBirths, Live, Unreviewed
<1> QED BY <1>4, <1>5, <1>6, <1>7 DEF DraftInv, VerdictsTakeEffect

LEMMA MissingStep == DraftInv /\ ReadMissing => DraftInv'
<1> SUFFICES ASSUME DraftInv, ReadMissing PROVE DraftInv'
  OBVIOUS
<1>1. /\ ReviewTypeOK /\ IdsInOrder /\ BatchAtHome /\ TextsAreCurrent /\ ReviewsAtHome
      /\ RequestsInStep /\ SuiteFollowsVerdict /\ EmbeddingsOfTheLiving /\ EveryDraftReviewable
  BY Parts
<1>2. /\ UNCHANGED <<database, births, case, status, embedding, reviews, saver, reviewer,
                     drafted, abandoned, removed, withdrawn, together, crossed, decided>>
      /\ reading' = Missing
  BY DEF ReadMissing, store, history
<1>3. \A p \in Missing : p \in Ids \X (1..births) /\ p[2] # Null /\ case[p[1]] = p[2]
  <2>1. \A i \in Live : i \in Ids /\ case[i] \in 0..births /\ case[i] # Null
    BY <1>1 DEF Live, ReviewTypeOK
  <2>2. \A i \in Live : i \in Ids /\ case[i] \in 1..births /\ case[i] # Null
    BY <1>1, <2>1, ReviewFields DEF Null
  <2> QED BY <2>2 DEF Missing
<1>4. ReviewTypeOK'
  BY <1>1, <1>2, <1>3 DEF ReviewTypeOK
<1>5. TextsAreCurrent'
  <2>1. \A p \in reading' : p[2] # Null /\ case'[p[1]] = p[2]
    BY <1>2, <1>3
  <2>2. saver'.at = "embedding" =>
          saver'.todo # {} /\ (case'[Min(saver'.todo)] = saver'.text
                               \/ saver'.text \in removed' \cup crossed')
    BY <1>1, <1>2 DEF TextsAreCurrent, OfTheCase
  <2> QED BY <2>1, <2>2 DEF TextsAreCurrent, OfTheCase
<1>6. IdsInOrder' /\ BatchAtHome' /\ ReviewsAtHome' /\ RequestsInStep' /\ SuiteFollowsVerdict'
  BY <1>1, <1>2 DEF IdsInOrder, Live, BatchAtHome, ReviewsAtHome, LiveBirths, RequestsInStep,
    OpenedReview, Excused, DecidedElsewhere, Kept, SuiteFollowsVerdict
<1>7. EmbeddingsOfTheLiving' /\ EveryDraftReviewable'
  BY <1>1, <1>2 DEF EmbeddingsOfTheLiving, EveryDraftReviewable, LiveBirths, Live, Unreviewed
<1> QED BY <1>4, <1>5, <1>6, <1>7 DEF DraftInv, VerdictsTakeEffect

LEMMA BackfillStep == DraftInv /\ Backfill => DraftInv'
<1> SUFFICES ASSUME DraftInv, Backfill PROVE DraftInv'
  OBVIOUS
<1>1. /\ ReviewTypeOK /\ IdsInOrder /\ BatchAtHome /\ TextsAreCurrent /\ ReviewsAtHome
      /\ RequestsInStep /\ SuiteFollowsVerdict /\ EmbeddingsOfTheLiving /\ EveryDraftReviewable
  BY Parts
<1>2. /\ UNCHANGED <<database, births, case, status, reviews, saver, reviewer,
                     drafted, abandoned, removed, withdrawn, together, crossed, decided>>
      /\ reading' = {}
  BY DEF Backfill, history
<1>3. ASSUME NEW i \in Ids, embedding'[i] # embedding[i]
      PROVE  \E p \in reading : p[1] = i /\ p[2] = embedding'[i]
  BY <1>3 DEF Backfill
<1>4. ASSUME NEW i \in Ids
      PROVE  \/ embedding'[i] = embedding[i]
             \/ OfTheCase(i, embedding'[i]) /\ embedding'[i] \in 1..births
  <2> SUFFICES ASSUME embedding'[i] # embedding[i]
               PROVE  OfTheCase(i, embedding'[i]) /\ embedding'[i] \in 1..births
    OBVIOUS
  <2>1. PICK p \in reading : p[1] = i /\ p[2] = embedding'[i]
    BY <1>3
  <2>2. p \in Ids \X (1..births) /\ OfTheCase(p[1], p[2])
    BY <1>1 DEF ReviewTypeOK, TextsAreCurrent
  <2> QED BY <2>1, <2>2
<1>5. ReviewTypeOK'
  <2>1. \A i \in Ids : embedding'[i] \in 0..births
    <3>1. \A i \in Ids : embedding[i] \in 0..births
      BY <1>1 DEF ReviewTypeOK
    <3> QED BY <1>1, <1>4, <3>1, ReviewFields
  <2>2. embedding' = [i \in Ids |-> embedding'[i]]
    BY <1>1 DEF Backfill, ReviewTypeOK
  <2>3. embedding' \in [Ids -> 0..births]
    BY <2>1, <2>2
  <2> QED BY <1>1, <1>2, <2>3 DEF ReviewTypeOK
<1>6. IdsInOrder' /\ BatchAtHome' /\ ReviewsAtHome' /\ RequestsInStep' /\ SuiteFollowsVerdict'
  BY <1>1, <1>2 DEF IdsInOrder, Live, BatchAtHome, ReviewsAtHome, LiveBirths, RequestsInStep,
    OpenedReview, Excused, DecidedElsewhere, Kept, SuiteFollowsVerdict
<1>7. TextsAreCurrent'
  BY <1>1, <1>2 DEF TextsAreCurrent, OfTheCase
<1>8. EmbeddingsOfTheLiving'
  BY <1>1, <1>2, <1>4 DEF EmbeddingsOfTheLiving, OfTheCase
<1>9. EveryDraftReviewable'
  BY <1>1, <1>2 DEF EveryDraftReviewable, LiveBirths, Live, Unreviewed
<1> QED BY <1>5, <1>6, <1>7, <1>8, <1>9 DEF DraftInv, VerdictsTakeEffect


LEMMA DraftInit == ReviewInit => DraftInv
<1> SUFFICES ASSUME ReviewInit PROVE DraftInv
  OBVIOUS
<1> USE DEF ReviewInit
<1>1. Len(reviews) = 0 /\ Live = {} /\ LiveBirths = {}
  BY DEF Live, LiveBirths
<1>2. ReviewTypeOK
  <2>1. MaxBirths \in Nat
    BY ReviewAssumption
  <2>2. saver = [at |-> "idle", todo |-> {}, batch |-> {}, text |-> Null]
    BY DEF NoSave
  <2>3. reviewer \in [Reviewers -> [at : Stages, review : 0..Len(reviews), verdict : Verdicts,
                                    id : Ids \cup {Null}, active : BOOLEAN]]
    BY <1>1 DEF NoRequest, Stages, Verdicts, Null
  <2> QED BY <1>1, <2>1, <2>2, <2>3 DEF ReviewTypeOK, Null
<1>3. IdsInOrder /\ BatchAtHome /\ TextsAreCurrent
  BY <1>1 DEF IdsInOrder, BatchAtHome, TextsAreCurrent, NoSave
<1>4. ReviewsAtHome /\ RequestsInStep
  BY <1>1 DEF ReviewsAtHome, RequestsInStep, NoRequest
<1>5. VerdictsTakeEffect /\ EveryDraftReviewable
  BY <1>1 DEF VerdictsTakeEffect, SuiteFollowsVerdict, EmbeddingsOfTheLiving,
    EveryDraftReviewable
<1> QED BY <1>2, <1>3, <1>4, <1>5 DEF DraftInv

LEMMA DraftStep == DraftInv /\ [ReviewNext]_reviewVars => DraftInv'
<1> SUFFICES ASSUME DraftInv, [ReviewNext]_reviewVars PROVE DraftInv'
  OBVIOUS
<1>1. CASE Save
  BY <1>1, SaveDraftsStep, RefreshStep, StoreStep, RecordStep, BreakStep DEF Save
<1>2. CASE \E r \in Reviewers : Review(r)
  BY <1>2, OpenStep, LoadStep, KeepStep, RejectStep DEF Review
<1>3. CASE CreateCase \/ ReadMissing \/ Backfill
  BY <1>3, CreateStep, MissingStep, BackfillStep
<1>4. CASE \E i \in Ids : SetStatus(i) \/ DeleteCase(i)
  BY <1>4, StatusStep, DeleteStep
<1>5. CASE UNCHANGED reviewVars
  BY <1>5 DEF reviewVars, store, requests, history, DraftInv, ReviewTypeOK, IdsInOrder, Live,
    LiveBirths, BatchAtHome, TextsAreCurrent, OfTheCase, ReviewsAtHome, RequestsInStep,
    OpenedReview, Excused, DecidedElsewhere, Kept, VerdictsTakeEffect, SuiteFollowsVerdict,
    EmbeddingsOfTheLiving, EveryDraftReviewable, Unreviewed
<1> QED BY <1>1, <1>2, <1>3, <1>4, <1>5 DEF ReviewNext

LEMMA DraftInvariant == ReviewSpec => []DraftInv
BY DraftInit, DraftStep, PTL DEF ReviewSpec

\* Ids, births, verdicts and requests of the review of drafts have their types.
THEOREM DraftsTyped == ReviewSpec => []ReviewTypeOK
<1>1. DraftInv => ReviewTypeOK
  BY DEF DraftInv
<1> QED BY <1>1, DraftInvariant, PTL

\* The suite follows each verdict of review_draft and no embedding outlives its
\* test case: the only exceptions are two reviewers at one review, an id that
\* SQLite gave again, and what delete_testcase leaves behind.
THEOREM SuiteFollows == ReviewSpec => []VerdictsTakeEffect
<1>1. DraftInv => VerdictsTakeEffect
  BY DEF DraftInv
<1> QED BY <1>1, DraftInvariant, PTL

\* A draft save_generated_testcases put into the suite has a review, is about to
\* get one, or its request broke off.
THEOREM NoDraftOutOfReach == ReviewSpec => []EveryDraftReviewable
<1>1. DraftInv => EveryDraftReviewable
  BY DEF DraftInv
<1> QED BY <1>1, DraftInvariant, PTL

\* Reviews are only appended and judged.
LEMMA RecordKeeps ==
  ASSUME DraftInv, RecordDrafts
  PROVE  \A k \in 1..Len(reviews) : reviews'[k] = reviews[k]
<1> DEFINE R == [id : Ids \cup {Null}, of : Births, verdict : Verdicts \cup {"pending"}]
<1>1. ReviewTypeOK /\ BatchAtHome
  BY Parts
<1>2. PICK n \in 1..2 : \E p \in [1..n -> saver.batch] :
        reviews' = reviews \o [i \in 1..n |-> NewReview(p[i])]
  BY <1>1, ReviewsAppended
<1>3. PICK p \in [1..n -> saver.batch] :
        reviews' = reviews \o [i \in 1..n |-> NewReview(p[i])]
  BY <1>2
<1> DEFINE news == [i \in 1..n |-> NewReview(p[i])]
<1>4. \A i \in 1..n : NewReview(p[i]) \in R
  <2>1. \A x \in saver.batch : x[1] \in Ids /\ case[x[1]] \in Births
    <3>1. \A x \in saver.batch : x[1] \in Ids /\ case[x[1]] \in 0..births /\ case[x[1]] # Null
      BY <1>1 DEF ReviewTypeOK, RecordDrafts
    <3>2. \A x \in saver.batch : x[1] \in Ids /\ case[x[1]] \in 1..births
      BY <1>1, <3>1, ReviewFields DEF Null
    <3> QED BY <1>1, <3>2, Histories
  <2>2. \A i \in 1..n : p[i] \in saver.batch
    BY <1>3
  <2> QED BY <2>1, <2>2 DEF NewReview
<1>5. news \in Seq(R) /\ reviews \in Seq(R)
  <2>1. reviews \in Seq(R)
    BY <1>1 DEF ReviewTypeOK
  <2> HIDE DEF R
  <2>2. news \in Seq(R)
    BY <1>4
  <2> QED BY <2>1, <2>2
<1>6. reviews' = reviews \o news
  BY <1>3
<1> HIDE DEF news, R
<1> QED BY <1>5, <1>6

LEMMA StandingStep ==
  ASSUME DraftInv, [ReviewNext]_reviewVars, NEW k \in 1..Len(reviews),
         reviews[k].verdict # "pending", k \notin together
  PROVE  reviews'[k].verdict = reviews[k].verdict
<1>1. ReviewTypeOK /\ RequestsInStep
  BY Parts
<1>2. ASSUME NEW r \in Reviewers, reviewer[r].at = "ready", NEW i, Judged(r, i)
      PROVE  reviews'[k].verdict = reviews[k].verdict
  <2>1. OpenedReview(r)
    BY <1>1, <1>2 DEF RequestsInStep
  <2>2. k # reviewer[r].review
    BY <2>1 DEF OpenedReview
  <2>3. reviews \in Seq([id : Ids \cup {Null}, of : Births,
                         verdict : Verdicts \cup {"pending"}])
    BY <1>1 DEF ReviewTypeOK
  <2> QED BY <1>2, <2>2, <2>3 DEF Judged
<1>3. CASE Save
  <2>1. CASE RecordDrafts
    BY <2>1, RecordKeeps
  <2>2. CASE ~RecordDrafts
    <3>1. reviews' = reviews
      BY <1>3, <2>2 DEF Save, SaveDrafts, RefreshDraft, StoreEmbedding, SaveBreaks, SaveFails,
        store
    <3> QED BY <3>1
  <2> QED BY <2>1, <2>2
<1>4. ASSUME NEW r \in Reviewers, Review(r) PROVE reviews'[k].verdict = reviews[k].verdict
  <2>1. CASE OpenReview(r) \/ LoadDraft(r) \/ ReviewDies(r)
    <3>1. reviews' = reviews
      BY <2>1 DEF OpenReview, LoadDraft, ReviewDies, store
    <3> QED BY <3>1
  <2>2. CASE Keep(r)
    <3>1. reviewer[r].at = "ready"
          /\ (reviews' = reviews \/ Judged(r, reviews[reviewer[r].review].id))
      BY <2>2 DEF Keep
    <3> QED BY <1>2, <3>1
  <2>3. CASE RejectDraft(r)
    <3>1. /\ reviewer[r].at = "ready"
          /\ Judged(r, IF reviewer[r].id = Null THEN reviews[reviewer[r].review].id ELSE Null)
      BY <2>3 DEF RejectDraft
    <3> QED BY <1>2, <3>1
  <2> QED BY <1>4, <2>1, <2>2, <2>3 DEF Review
<1>5. CASE \/ CreateCase \/ ReadMissing \/ Backfill
           \/ \E i \in Ids : SetStatus(i) \/ DeleteCase(i)
           \/ UNCHANGED reviewVars
  <2>1. reviews' = reviews
    BY <1>5 DEF CreateCase, ReadMissing, Backfill, SetStatus, DeleteCase, store, reviewVars
  <2> QED BY <2>1
<1> QED BY <1>3, <1>4, <1>5 DEF ReviewNext

\* A verdict of review_draft is for good, unless two reviewers had the review
\* open together.
THEOREM DraftVerdictsStand == ReviewSpec => VerdictStands
<1> DEFINE Standing == \A k \in 1..Len(reviews) :
             reviews[k].verdict # "pending" =>
               reviews'[k].verdict = reviews[k].verdict \/ k \in together
<1>1. DraftInv /\ [ReviewNext]_reviewVars => [Standing]_reviewVars
  BY StandingStep
<1> QED BY <1>1, DraftInvariant, PTL DEF ReviewSpec, VerdictStands

----------------------------------------------------------------------------
(* The evaluation gates *)

\* There are cases and results of the tools as the tools make them.
GatesTypeOK ==
  /\ dataset \subseteq Cases
  /\ suiteBaseline.there =>
       \E cases \in SUBSET Cases : suiteBaseline.report \in [cases -> Tallies]
  /\ trajectoryBaseline.there => trajectoryBaseline.report \in Trajectories
  /\ job.tool \in Tools \cup {"none"}

\* A job that passed gated the report it has, on the baseline and the dataset there are.
PassedItsGate ==
  job.exit = 0 =>
    /\ job.tool = "suite" => job.report \in [dataset -> Tallies] /\ ~SuiteFails(job.report)
    /\ job.tool = "trajectory" => job.report.failed # job.report.runs
    /\ job.tool = "verdicts" => job.report.valid
    /\ job.tool = "retrieval" => ~job.report.error
    /\ job.tool # "none"

GatesInv == GatesTypeOK /\ PassedItsGate

LEMMA GatesBegin == GatesInit \/ GatesNone => GatesInv
BY DEF GatesInit, GatesNone, GatesInv, GatesTypeOK, PassedItsGate, NoFile, NoJob, Tools, NotEnded

LEMMA GateEnds ==
  ASSUME GatesInv, NEW tool \in Tools, Ready(tool), NEW report, NEW fails \in BOOLEAN,
         Ends(report, fails), UNCHANGED <<dataset, suiteBaseline, trajectoryBaseline>>
  PROVE  /\ GatesTypeOK'
         /\ job'.tool = tool /\ job'.report = report /\ (job'.exit = 0 <=> ~fails)
<1>1. job' = [tool |-> tool, report |-> report, exit |-> IF fails THEN 1 ELSE 0]
  BY DEF Ready, Ends, NoJob
<1> QED BY <1>1 DEF GatesInv, GatesTypeOK

LEMMA GatesStep == GatesInv /\ [GatesNext]_gateVars => GatesInv'
<1> SUFFICES ASSUME GatesInv, [GatesNext]_gateVars PROVE GatesInv'
  OBVIOUS
<1> USE DEF GatesInv
<1>1. CASE GateSuite
  <2>1. PICK report \in SuiteReports : Ends(report, SuiteFails(report))
    BY <1>1 DEF GateSuite
  <2>2. SuiteFails(report) \in BOOLEAN
    BY DEF SuiteFails, Regressed, OverallPass
  <2>3. /\ GatesTypeOK' /\ job'.tool = "suite" /\ job'.report = report
        /\ job'.exit = 0 => ~SuiteFails(report)
    BY <1>1, <2>1, <2>2, GateEnds DEF GateSuite, Tools
  <2>4. SuiteFails(report)' <=> SuiteFails(report)
    BY <1>1 DEF GateSuite, SuiteFails, Regressed, Shared, OverallPass
  <2> QED BY <1>1, <2>1, <2>3, <2>4 DEF GateSuite, PassedItsGate, SuiteReports
<1>2. CASE GateTrajectory
  <2>1. PICK report \in Trajectories, tie \in BOOLEAN : Ends(report, TrajectoryFails(report, tie))
    BY <1>2 DEF GateTrajectory
  <2>2. TrajectoryFails(report, tie) \in BOOLEAN
    BY DEF TrajectoryFails, BelowFloor
  <2>3. /\ GatesTypeOK' /\ job'.tool = "trajectory" /\ job'.report = report
        /\ job'.exit = 0 => ~TrajectoryFails(report, tie)
    BY <1>2, <2>1, <2>2, GateEnds DEF GateTrajectory, Tools
  <2> QED BY <2>3 DEF PassedItsGate, TrajectoryFails
<1>3. CASE GateVerdicts
  <2>1. PICK report \in VerdictReports, w \in {0, Queries}, m \in {0, 80} :
          Ends(report, VerdictsFail(report, w, m))
    BY <1>3 DEF GateVerdicts
  <2>2. VerdictsFail(report, w, m) \in BOOLEAN
    BY DEF VerdictsFail
  <2>3. /\ GatesTypeOK' /\ job'.tool = "verdicts" /\ job'.report = report
        /\ job'.exit = 0 => ~VerdictsFail(report, w, m)
    BY <1>3, <2>1, <2>2, GateEnds DEF GateVerdicts, Tools
  <2> QED BY <2>3 DEF PassedItsGate, VerdictsFail
<1>4. CASE GateRetrieval
  <2>1. PICK report \in RetrievalReports, floor \in {0, 90} :
          Ends(report, RetrievalFails(report, floor))
    BY <1>4 DEF GateRetrieval
  <2>2. RetrievalFails(report, floor) \in BOOLEAN
    BY DEF RetrievalFails
  <2>3. /\ GatesTypeOK' /\ job'.tool = "retrieval" /\ job'.report = report
        /\ job'.exit = 0 => ~RetrievalFails(report, floor)
    BY <1>4, <2>1, <2>2, GateEnds DEF GateRetrieval, Tools
  <2> QED BY <2>3 DEF PassedItsGate, RetrievalFails
<1>5. CASE RecordSuite
  <2>1. PICK report \in SuiteReports : suiteBaseline' = File(report)
    BY <1>5 DEF RecordSuite
  <2>2. job.exit # 0
    BY <1>5 DEF RecordSuite, Ready, NoJob, NotEnded
  <2> QED BY <1>5, <2>1, <2>2 DEF RecordSuite, GatesTypeOK, PassedItsGate, File, SuiteReports
<1>6. CASE RecordTrajectory
  <2>1. job.exit # 0
    BY <1>6 DEF RecordTrajectory, Ready, NoJob, NotEnded
  <2> QED BY <1>6, <2>1 DEF RecordTrajectory, GatesTypeOK, PassedItsGate, File
<1>7. CASE ChangeDataset
  <2>1. job.exit # 0
    BY <1>7 DEF ChangeDataset, Ready, NoJob, NotEnded
  <2> QED BY <1>7, <2>1 DEF ChangeDataset, GatesTypeOK, PassedItsGate
<1>8. CASE NextJob
  BY <1>8 DEF NextJob, GatesTypeOK, PassedItsGate, NoJob, NotEnded
<1>9. CASE UNCHANGED gateVars
  BY <1>9 DEF gateVars, GatesTypeOK, PassedItsGate, SuiteFails, Regressed, Shared, OverallPass
<1> QED
  BY <1>1, <1>2, <1>3, <1>4, <1>5, <1>6, <1>7, <1>8, <1>9 DEF GatesNext

\* A sum of numbers up to n is a number.
LEMMA SumIsNumber ==
  ASSUME NEW D, IsFiniteSet(D), NEW n \in Nat, NEW values \in [D -> 0..n]
  PROVE  SumOf(values) \in Nat
<1> DEFINE U == UNION {{c} \X (1..values[c]) : c \in DOMAIN values}
<1>1. U \subseteq D \X (1..n)
  <2> SUFFICES ASSUME NEW c \in D, NEW p \in {c} \X (1..values[c]) PROVE p \in D \X (1..n)
    OBVIOUS
  <2>1. values[c] \in 0..n
    OBVIOUS
  <2> QED BY <2>1
<1>2. IsFiniteSet(D \X (1..n))
  <2>1. IsFiniteSet(1..n)
    BY FS_Interval
  <2> QED BY <2>1, FS_Product
<1>3. IsFiniteSet(U)
  BY <1>1, <1>2, FS_Subset
<1> QED BY <1>3, FS_CardinalityType DEF SumOf

\* The sum of as many equal numbers.
LEMMA SumOfEquals ==
  ASSUME NEW D, IsFiniteSet(D), NEW n \in Nat
  PROVE  SumOf([c \in D |-> n]) = Cardinality(D) * n
<1>1. UNION {{c} \X (1..n) : c \in D} = D \X (1..n)
  OBVIOUS
<1>2. Cardinality(1..n) = n /\ IsFiniteSet(1..n)
  BY FS_Interval
<1>3. Cardinality(D \X (1..n)) = Cardinality(D) * n
  BY <1>2, FS_Product
<1> QED BY <1>1, <1>3 DEF SumOf

LEMMA CollapseFails == GatesInv => CollapseIsCaught
<1> SUFFICES ASSUME GatesInv, job.exit = 0, NothingWorked
             PROVE  /\ job.tool = "suite"
                    /\ \/ dataset = {}
                       \/ suiteBaseline.there /\ dataset \cap DOMAIN suiteBaseline.report = {}
                       \/ /\ suiteBaseline.there
                          /\ LET cases == dataset \cap DOMAIN suiteBaseline.report
                             IN 100 * ErrorSum(suiteBaseline.report, cases)
                                  >= (100 - Band) * Cardinality(cases) * Runs
  BY DEF CollapseIsCaught
<1>1. job.tool = "suite"
  BY DEF GatesInv, GatesTypeOK, PassedItsGate, NothingWorked, Tools
<1>2. /\ job.report \in [dataset -> Tallies] /\ ~SuiteFails(job.report)
      /\ dataset \subseteq Cases
  BY <1>1 DEF GatesInv, PassedItsGate, GatesTypeOK
<1>3. \A c \in dataset : job.report[c].error = Runs
  BY <1>1, <1>2 DEF NothingWorked
<1>4. Runs \in Nat \ {0} /\ IsFiniteSet(Cases)
  BY EvalGatesAssumption
<1>5. CASE ~suiteBaseline.there
  <2>1. OverallPass(job.report)
    BY <1>2, <1>5 DEF SuiteFails
  <2>2. \A c \in dataset : 100 * Runs <= 20 * Runs
    BY <1>2, <1>3, <2>1 DEF OverallPass, Errors, MaxErrorRate
  <2>3. dataset = {}
    BY <1>4, <2>2
  <2> QED BY <1>1, <2>3
<1>6. CASE suiteBaseline.there
  <2> DEFINE base == suiteBaseline.report
             shared == dataset \cap DOMAIN base
             all == Cardinality(shared) * Runs
             was == ErrorSum(base, shared)
  <2>1. PICK cases \in SUBSET Cases : base \in [cases -> Tallies]
    BY <1>6 DEF GatesInv, GatesTypeOK
  <2>2. IsFiniteSet(shared) /\ Cardinality(shared) \in Nat
    BY <1>2, <1>4, FS_Subset, FS_CardinalityType
  <2>3. was \in Nat
    <3>1. [c \in shared |-> Errors(base[c])] \in [shared -> 0..Runs]
      BY <2>1 DEF Errors, Tallies
    <3> QED BY <1>4, <2>2, <3>1, SumIsNumber DEF ErrorSum
  <2>4. ErrorSum(job.report, shared) = all
    <3>1. [c \in shared |-> Errors(job.report[c])] = [c \in shared |-> Runs]
      BY <1>3 DEF Errors
    <3> QED BY <1>4, <2>2, <3>1, SumOfEquals DEF ErrorSum
  <2>5. Shared(job.report) = shared
    BY <1>2 DEF Shared
  <2>6. ~(100 * all > Max({20 * all, 100 * was + 20 * all}))
    BY <1>2, <1>6, <2>4, <2>5 DEF SuiteFails, Regressed, MaxErrorRate, Band
  <2> HIDE DEF shared, was, base
  <2>7. all \in Nat
    BY <1>4, <2>2
  <2> DEFINE a == all
  <2>8. a \in Nat /\ ~(100 * a > Max({20 * a, 100 * was + 20 * a}))
    BY <2>6, <2>7
  <2>9. Max({20 * a, 100 * was + 20 * a}) = 100 * was + 20 * a
    <3> HIDE DEF a
    <3>1. 100 * was + 20 * a >= 20 * a /\ 100 * was + 20 * a \in Nat /\ 20 * a \in Nat
      BY <2>3, <2>8
    <3> QED BY <3>1 DEF Max
  <2>10. 100 * was >= 80 * a
    <3> HIDE DEF a
    <3> QED BY <2>3, <2>8, <2>9
  <2>11. (100 - Band) * Cardinality(shared) * Runs = 80 * a
    <3>1. \A x, y \in Nat : 80 * x * y = 80 * (x * y)
      OBVIOUS
    <3> QED BY <1>4, <2>2, <3>1 DEF Band
  <2> QED BY <1>1, <1>6, <2>10, <2>11 DEF shared, was, base
<1> QED BY <1>5, <1>6

\* A job of a model that never worked fails its gate, whatever was recorded or committed
\* before, unless it is a suite without cases, without cases of the baseline, or with a
\* baseline of a model that hardly worked (gate of the four tools of evals/).
THEOREM CollapseCaught == Spec => []CollapseIsCaught
<1>1. Init => GatesInv
  BY GatesBegin DEF Init
<1>2. GatesInv /\ [Next]_vars => GatesInv'
  <2> SUFFICES ASSUME GatesInv, [Next]_vars PROVE GatesInv'
    OBVIOUS
  <2>1. [GatesNext]_gateVars
    BY DEF Next, vars
  <2> QED BY <2>1, GatesStep
<1> QED BY <1>1, <1>2, CollapseFails, PTL DEF Spec

----------------------------------------------------------------------------
(* Alerts *)

\* A replica at work has a message of the topic, and what it persists is one
\* parse_alert_message accepted.
HoldsMessage ==
  \A w \in Workers : at[w] # "polling" =>
    /\ position[w] \in Published
    /\ at[w] \in {"checking", "inserting"} => Message(w) # Malformed

\* No offset is ahead of the end of the topic.
OffsetsInTopic ==
  /\ committed <= Len(topic) + 1
  /\ \A w \in Workers : position[w] <= Len(topic) + 1

\* A replica commits the offset of a message it has settled, and the owner
\* left nothing unsettled behind its position.
SettledBehind ==
  /\ \A w \in Workers : at[w] = "committing" => Settled(position[w])
  /\ owner # Nobody =>
       \A i \in Published : i < position[owner] => Settled(i) \/ i \in skipped

\* As long as the partition was never taken from a replica at work, the owner
\* alone works, and what it is about to insert is not there.
OneAtWork ==
  overlapped \/
    \A w \in Workers :
      /\ at[w] # "polling" => owner = w
      /\ at[w] = "inserting" => rows[Message(w)] = 0

Messages == Keys \cup {Malformed}

Shape == AlertsTypeOK /\ HoldsMessage /\ OffsetsInTopic

LEMMA Numbers == MAX_RETRIES \in Nat \ {0} /\ MaxLog \in Nat /\ MaxFaults \in Nat
BY PipelineAssumption

LEMMA TopicLength == Shape => AlertsTypeOK /\ Len(topic) \in Nat
BY DEF Shape, AlertsTypeOK

LEMMA ShapeInit == AlertsInit => Shape
<1> SUFFICES ASSUME AlertsInit PROVE Shape
  OBVIOUS
<1>1. topic \in Seq(Keys \cup {Malformed}) /\ Len(topic) = 0
  BY DEF AlertsInit
<1>2. AlertsTypeOK
  <2>1. overlapped \in BOOLEAN
    BY Zenon DEF AlertsInit
  <2>2. attempt \in [Workers -> 1..MAX_RETRIES] /\ position \in [Workers -> 1..MaxLog + 1]
    BY Numbers DEF AlertsInit
  <2> QED BY <1>1, <2>1, <2>2, Numbers DEF AlertsInit, AlertsTypeOK, Steps, NoOffset
<1>3. HoldsMessage /\ OffsetsInTopic
  BY <1>1 DEF AlertsInit, HoldsMessage, OffsetsInTopic, NoOffset
<1> QED BY <1>2, <1>3 DEF Shape

\* The topic is append-only: a message keeps its offset.
LEMMA TopicGrows ==
  ASSUME AlertsTypeOK, NEW m \in Messages, topic' = Append(topic, m)
  PROVE  /\ topic' \in Seq(Messages)
         /\ Len(topic) \in Nat
         /\ Len(topic') = Len(topic) + 1
         /\ \A i \in Published : topic'[i] = topic[i]
BY DEF AlertsTypeOK, Messages, Published

----------------------------------------------------------------------------
(* Types and offsets *)

\* The message a replica works on, as facts about its offset.
LEMMA WorksOn ==
  ASSUME Shape, NEW w \in Workers, at[w] # "polling"
  PROVE  /\ position[w] \in 1..Len(topic)
         /\ position[w] \in 1..MaxLog
         /\ Message(w) \in Messages
         /\ at[w] \in {"checking", "inserting"} => Message(w) \in Keys
BY Numbers DEF Shape, AlertsTypeOK, HoldsMessage, Published, Message, Messages

LEMMA ShapePublish == Shape /\ Publish => Shape'
<1> SUFFICES ASSUME Shape, Publish PROVE Shape'
  OBVIOUS
<1> USE DEF workerVars, persisted
<1>1. PICK m \in Messages : topic' = Append(topic, m)
  BY DEF Publish, Messages
<1>2. /\ topic' \in Seq(Messages)
      /\ Len(topic) \in Nat
      /\ Len(topic') = Len(topic) + 1
      /\ \A i \in Published : topic'[i] = topic[i]
  BY <1>1, TopicGrows DEF Shape
<1>3. Len(topic) < MaxLog /\ UNCHANGED <<committed, owner, position, at, attempt, rows, dlq,
                                         dropped, skipped, overlapped, faults>>
  BY DEF Publish
<1>4. AlertsTypeOK'
  BY <1>2, <1>3, Numbers DEF Shape, AlertsTypeOK, Messages
<1>5. HoldsMessage'
  BY <1>2, <1>3 DEF Shape, HoldsMessage, Published, Message
<1>6. OffsetsInTopic'
  BY <1>2, <1>3 DEF Shape, OffsetsInTopic, AlertsTypeOK
<1> QED BY <1>4, <1>5, <1>6 DEF Shape

LEMMA ShapeAssign ==
  ASSUME Shape, NEW w \in Workers, Rebalance(w) \/ TakeOver(w)
  PROVE  Shape'
<1> USE DEF workerVars, persisted
<1>1. /\ at[w] = "polling"
      /\ owner' = w
      /\ position' = [position EXCEPT ![w] = StartAt]
      /\ skipped' = IF committed = NoOffset
                    THEN skipped \cup {i \in Published : ~Settled(i)}
                    ELSE skipped
      /\ UNCHANGED <<topic, committed, at, attempt, rows, dlq, dropped>>
  BY DEF Rebalance, TakeOver, Assign
<1>2. /\ overlapped' \in BOOLEAN
      /\ faults' \in 0..MaxFaults
  <2>1. overlapped' \in BOOLEAN
    BY Zenon DEF Rebalance, TakeOver, Shape, AlertsTypeOK
  <2>2. faults' \in 0..MaxFaults
    BY Numbers DEF Rebalance, TakeOver, Fault, Shape, AlertsTypeOK
  <2> QED BY <2>1, <2>2
<1>3. Len(topic) \in Nat /\ Len(topic) <= MaxLog /\ committed \in Nat
  BY Numbers DEF Shape, AlertsTypeOK
<1>4. StartAt \in 1..Len(topic) + 1
  BY <1>3 DEF StartAt, NoOffset, Shape, OffsetsInTopic
<1>5. Published \subseteq 1..MaxLog
  BY <1>3, Numbers DEF Published
<1>6. skipped' \subseteq 1..MaxLog
  BY <1>1, <1>5 DEF Shape, AlertsTypeOK
<1>7. position' \in [Workers -> 1..MaxLog + 1]
  BY <1>1, <1>3, <1>4, Numbers DEF Shape, AlertsTypeOK
<1>8. AlertsTypeOK'
  BY <1>1, <1>2, <1>6, <1>7 DEF Shape, AlertsTypeOK
<1>9. HoldsMessage'
  BY <1>1 DEF Shape, AlertsTypeOK, HoldsMessage, Published, Message
<1>10. OffsetsInTopic'
  BY <1>1, <1>3, <1>4 DEF Shape, AlertsTypeOK, OffsetsInTopic
<1> QED BY <1>8, <1>9, <1>10 DEF Shape

\* What a replica's own step leaves alone.
LEMMA OwnStep ==
  ASSUME AlertsTypeOK, NEW w \in Workers, Process(w) \/ Crash(w)
  PROVE  /\ UNCHANGED <<topic, skipped, overlapped>>
         /\ owner' \in {owner, Nobody}
         /\ \A x \in Workers : x # w =>
              at'[x] = at[x] /\ position'[x] = position[x] /\ attempt'[x] = attempt[x]
BY DEF Process, Crash, Receive, CheckDuplicate, Insert, PersistFails, InsertReplyLost,
  SendToDeadLetter, DeadLetterFails, CommitOffset, CommitRefused, Reconnect, Retry, Goto,
  AlertsTypeOK, workerVars, persisted

LEMMA ShapeOwn ==
  ASSUME Shape, NEW w \in Workers, Process(w) \/ Crash(w)
  PROVE  Shape'
<1> USE DEF persisted
<1>0. AlertsTypeOK
  BY DEF Shape
<1>1. at[w] # "polling" => /\ position[w] \in 1..Len(topic)
                           /\ position[w] \in 1..MaxLog
                           /\ at[w] \in {"checking", "inserting"} => topic[position[w]] \in Keys
  BY WorksOn DEF Message
<1>2. Len(topic) \in Nat /\ Len(topic) <= MaxLog /\ position[w] \in 1..MaxLog + 1
  BY DEF Shape, AlertsTypeOK
<1>3. UNCHANGED <<topic, skipped, overlapped>> /\ owner' \in Workers \cup {Nobody}
  BY <1>0, OwnStep DEF AlertsTypeOK
<1>4. /\ at' \in [Workers -> Steps]
      /\ position' \in [Workers -> 1..MaxLog + 1]
      /\ position'[w] <= Len(topic) + 1
      /\ at'[w] # "polling" => position'[w] \in 1..Len(topic)
      /\ at'[w] \in {"checking", "inserting"} => topic[position'[w]] # Malformed
  <2>1. CASE Receive(w)
    BY <1>0, <1>2, <2>1 DEF Receive, Goto, AlertsTypeOK, Message, Steps
  <2>2. CASE CheckDuplicate(w)
    BY <1>0, <1>1, <1>2, <2>2, PipelineAssumption DEF CheckDuplicate, Goto, AlertsTypeOK, Steps
  <2>3. CASE Insert(w) \/ SendToDeadLetter(w) \/ DeadLetterFails(w)
    <3>1. /\ at[w] # "polling"
          /\ at' = [at EXCEPT ![w] = "committing"]
          /\ UNCHANGED position
      BY <2>3 DEF Insert, SendToDeadLetter, DeadLetterFails, Goto
    <3> QED BY <1>0, <1>1, <1>2, <3>1 DEF AlertsTypeOK, Steps
  <2>4. CASE PersistFails(w) \/ InsertReplyLost(w)
    <3>1. /\ at[w] \in {"checking", "inserting"}
          /\ at' = [at EXCEPT ![w] = "checking"] \/ at' = [at EXCEPT ![w] = "deadletter"]
          /\ UNCHANGED position
      BY <2>4 DEF PersistFails, InsertReplyLost, Retry, Goto
    <3>2. at'[w] \in {"checking", "deadletter"} /\ at' \in [Workers -> Steps]
      BY <1>0, <3>1 DEF AlertsTypeOK, Steps
    <3> QED BY <1>0, <1>1, <1>2, <3>1, <3>2, PipelineAssumption DEF AlertsTypeOK
  <2>5. CASE CommitOffset(w)
    <3>1. /\ position[w] \in 1..Len(topic)
          /\ at' = [at EXCEPT ![w] = "polling"]
          /\ position' = [position EXCEPT ![w] = position[w] + 1]
      BY <1>1, <2>5 DEF CommitOffset, Goto
    <3>2. position'[w] = position[w] + 1 /\ position' \in [Workers -> 1..MaxLog + 1]
      BY <1>0, <1>2, <3>1, Numbers DEF AlertsTypeOK
    <3>3. at'[w] = "polling" /\ at' \in [Workers -> Steps]
      BY <1>0, <3>1 DEF AlertsTypeOK, Steps
    <3> QED BY <1>2, <3>1, <3>2, <3>3
  <2>6. CASE CommitRefused(w) \/ Crash(w)
    <3>1. /\ at' = [at EXCEPT ![w] = "polling"]
          /\ position' = [position EXCEPT ![w] = 1]
      BY <2>6 DEF CommitRefused, Crash, Reconnect, Goto
    <3>2. position'[w] = 1 /\ position' \in [Workers -> 1..MaxLog + 1]
      BY <1>0, <3>1, Numbers DEF AlertsTypeOK
    <3>3. at'[w] = "polling" /\ at' \in [Workers -> Steps]
      BY <1>0, <3>1 DEF AlertsTypeOK, Steps
    <3> QED BY <1>2, <3>2, <3>3
  <2> QED BY <2>1, <2>2, <2>3, <2>4, <2>5, <2>6 DEF Process
<1>5. attempt' \in [Workers -> 1..MAX_RETRIES]
  <2>1. CASE PersistFails(w) \/ InsertReplyLost(w)
    BY <1>0, <2>1, Numbers DEF PersistFails, InsertReplyLost, Retry, AlertsTypeOK
  <2>2. CASE CommitOffset(w) \/ CommitRefused(w) \/ Crash(w)
    BY <1>0, <2>2, Numbers DEF CommitOffset, CommitRefused, Crash, Reconnect, AlertsTypeOK
  <2>3. CASE Receive(w) \/ CheckDuplicate(w) \/ Insert(w) \/ SendToDeadLetter(w) \/ DeadLetterFails(w)
    BY <1>0, <2>3 DEF Receive, CheckDuplicate, Insert, SendToDeadLetter, DeadLetterFails, AlertsTypeOK
  <2> QED BY <2>1, <2>2, <2>3 DEF Process
<1>6. committed' \in 0..MaxLog + 1 /\ committed' <= Len(topic) + 1
  <2>1. CASE CommitOffset(w)
    BY <1>1, <1>2, <2>1, Numbers DEF CommitOffset
  <2>2. CASE ~CommitOffset(w)
    <3>1. UNCHANGED committed
      BY <2>2 DEF Process, Crash, Receive, CheckDuplicate, Insert, PersistFails, InsertReplyLost,
        SendToDeadLetter, DeadLetterFails, CommitRefused
    <3> QED BY <3>1 DEF Shape, AlertsTypeOK, OffsetsInTopic
  <2> QED BY <2>1, <2>2
<1>7. rows' \in [Keys -> Nat]
  <2>1. CASE Insert(w) \/ InsertReplyLost(w)
    BY <1>0, <2>1 DEF Insert, InsertReplyLost, InsertRow, AlertsTypeOK
  <2>2. CASE ~Insert(w) /\ ~InsertReplyLost(w)
    BY <1>0, <2>2 DEF Process, Crash, Receive, CheckDuplicate, PersistFails, SendToDeadLetter,
      DeadLetterFails, CommitOffset, CommitRefused, AlertsTypeOK
  <2> QED BY <2>1, <2>2
<1>8. dlq' \subseteq 1..MaxLog /\ dropped' \subseteq 1..MaxLog
  BY <1>0, <1>1 DEF Process, Crash, Receive, CheckDuplicate, Insert, PersistFails, InsertReplyLost,
    SendToDeadLetter, DeadLetterFails, CommitOffset, CommitRefused, AlertsTypeOK
<1>9. faults' \in 0..MaxFaults
  BY <1>0, Numbers DEF Process, Crash, Receive, CheckDuplicate, Insert, PersistFails, InsertReplyLost,
    SendToDeadLetter, DeadLetterFails, CommitOffset, CommitRefused, Fault, AlertsTypeOK
<1>10. AlertsTypeOK'
  BY <1>0, <1>3, <1>4, <1>5, <1>6, <1>7, <1>8, <1>9 DEF AlertsTypeOK
<1>11. \A x \in Workers : x # w => at'[x] = at[x] /\ position'[x] = position[x]
  BY <1>0, OwnStep
<1>12. HoldsMessage'
  BY <1>3, <1>4, <1>11 DEF Shape, HoldsMessage, Published, Message
<1>13. OffsetsInTopic'
  BY <1>3, <1>4, <1>6, <1>11 DEF Shape, OffsetsInTopic
<1> QED BY <1>10, <1>12, <1>13 DEF Shape

LEMMA ShapeStep == Shape /\ [AlertsNext]_alertsVars => Shape'
<1> SUFFICES ASSUME Shape, [AlertsNext]_alertsVars PROVE Shape'
  OBVIOUS
<1>1. CASE UNCHANGED alertsVars
  BY <1>1 DEF alertsVars, workerVars, persisted, Shape, AlertsTypeOK, HoldsMessage, OffsetsInTopic,
    Published, Message
<1> QED BY <1>1, ShapePublish, ShapeAssign, ShapeOwn DEF AlertsNext

\* Every variable keeps its type; no replica and no committed offset is ever
\* ahead of the topic, whatever is rebalanced, retried and restarted.
THEOREM AlertsTyped == AlertsSpec => [](AlertsTypeOK /\ OffsetsInTopic)
<1>1. Shape => AlertsTypeOK /\ OffsetsInTopic
  BY DEF Shape
<1> QED BY <1>1, ShapeInit, ShapeStep, PTL DEF AlertsSpec

----------------------------------------------------------------------------
(* What is settled stays settled. *)

\* Messages keep their offsets, alerts their rows, dead letters their place.
Keeps ==
  /\ Published \subseteq Published'
  /\ \A i \in Published : topic'[i] = topic[i]
  /\ \A k \in Keys : rows'[k] >= rows[k]
  /\ dlq \subseteq dlq' /\ dropped \subseteq dropped' /\ skipped \subseteq skipped'

LEMMA KeepsStep == Shape /\ [AlertsNext]_alertsVars => Keeps
<1> SUFFICES ASSUME Shape, [AlertsNext]_alertsVars PROVE Keeps
  OBVIOUS
<1> USE DEF workerVars, persisted
<1>0. AlertsTypeOK /\ Len(topic) \in Nat
  BY TopicLength
<1>1. CASE Publish
  <2>1. PICK m \in Messages : topic' = Append(topic, m)
    BY <1>1 DEF Publish, Messages
  <2>2. Len(topic') = Len(topic) + 1 /\ \A i \in Published : topic'[i] = topic[i]
    BY <1>0, <2>1, TopicGrows
  <2>3. Published \subseteq Published'
    BY <1>0, <2>2 DEF Published
  <2>4. UNCHANGED <<rows, dlq, dropped, skipped>>
    BY <1>1 DEF Publish
  <2> QED BY <1>0, <2>2, <2>3, <2>4 DEF Keeps, AlertsTypeOK
<1>2. CASE \E w \in Workers : Rebalance(w) \/ TakeOver(w)
  BY <1>0, <1>2 DEF Rebalance, TakeOver, Assign, Keeps, Published, AlertsTypeOK
<1>3. CASE \E w \in Workers : Insert(w) \/ InsertReplyLost(w)
  <2>1. PICK w \in Workers : Insert(w) \/ InsertReplyLost(w)
    BY <1>3
  <2>2. UNCHANGED <<topic, dlq, dropped, skipped>> /\ InsertRow(Message(w))
    BY <2>1 DEF Insert, InsertReplyLost
  <2>3. \A k \in Keys : rows'[k] >= rows[k]
    BY <1>0, <2>2 DEF InsertRow, AlertsTypeOK
  <2> QED BY <2>2, <2>3 DEF Keeps, Published
<1>4. CASE \E w \in Workers : \/ Receive(w) \/ CheckDuplicate(w) \/ PersistFails(w) \/ SendToDeadLetter(w)
                              \/ DeadLetterFails(w) \/ CommitOffset(w) \/ CommitRefused(w)
                              \/ Crash(w)
  <2>1. /\ UNCHANGED <<topic, rows, skipped>>
        /\ dlq \subseteq dlq' /\ dropped \subseteq dropped'
    BY <1>4 DEF Receive, CheckDuplicate, PersistFails, SendToDeadLetter, DeadLetterFails, CommitOffset,
      CommitRefused, Crash
  <2> QED BY <1>0, <2>1 DEF Keeps, Published, AlertsTypeOK
<1>5. CASE UNCHANGED alertsVars
  BY <1>0, <1>5 DEF alertsVars, Keeps, Published, AlertsTypeOK
<1> QED BY <1>1, <1>2, <1>3, <1>4, <1>5 DEF AlertsNext, Process

LEMMA SettledStays ==
  ASSUME Shape, Shape', Keeps, NEW i \in Published, Settled(i)
  PROVE  Settled(i)'
<1>1. CASE i \in dlq \/ i \in dropped
  BY <1>1 DEF Keeps, Settled
<1>2. CASE Stored(i)
  <2>1. topic[i] \in Keys /\ rows[topic[i]] > 0
    BY <1>2 DEF Stored, Shape, AlertsTypeOK, Published
  <2>2. rows[topic[i]] \in Nat /\ rows'[topic[i]] \in Nat
    BY <2>1 DEF Shape, AlertsTypeOK
  <2>3. i \in Published' /\ topic'[i] = topic[i] /\ rows'[topic[i]] >= rows[topic[i]]
    BY <2>1 DEF Keeps
  <2> QED BY <1>2, <2>1, <2>2, <2>3 DEF Stored, Settled
<1> QED BY <1>1, <1>2 DEF Settled

----------------------------------------------------------------------------
(* The offset *)

Accounted(i) == Settled(i) \/ i \in skipped

LEMMA AccountedStays ==
  ASSUME Shape, Shape', Keeps, NEW i \in Published, Accounted(i)
  PROVE  Accounted(i)'
BY SettledStays DEF Accounted, Keeps

OffsetInv == Shape /\ SettledBehind /\ CommittedAreSettled

LEMMA OffsetInit == AlertsInit => OffsetInv
<1> SUFFICES ASSUME AlertsInit PROVE OffsetInv
  OBVIOUS
<1>1. Published = {}
  BY DEF AlertsInit, Published
<1> QED BY <1>1, ShapeInit DEF AlertsInit, OffsetInv, SettledBehind, CommittedAreSettled

\* A replica reaches the commit by settling the message in one of three ways.
LEMMA ReachesCommit ==
  ASSUME Shape, Shape', Keeps, NEW w \in Workers, Process(w) \/ Crash(w),
         at[w] = "committing" => Settled(position[w]),
         at'[w] = "committing"
  PROVE  Settled(position[w])'
<1>0. AlertsTypeOK
  BY DEF Shape
<1>1. at[w] # "polling" => position[w] \in Published /\ Message(w) \in Messages
  BY WorksOn DEF Published
<1>2. CASE CheckDuplicate(w)
  <2>1. /\ at[w] = "checking" /\ rows[Message(w)] > 0
        /\ UNCHANGED <<topic, position, rows>>
    BY <1>0, <1>2 DEF CheckDuplicate, Goto, persisted, AlertsTypeOK
  <2>2. Message(w) \in Keys
    BY <2>1, WorksOn
  <2>3. Stored(position[w])
    BY <1>1, <2>1, <2>2, PipelineAssumption DEF Stored, Message
  <2>4. position[w] \in Published /\ Settled(position[w])
    BY <1>1, <2>1, <2>3 DEF Settled
  <2>5. Settled(position[w])'
    BY <2>1, <2>4 DEF Settled, Stored, Published, Keeps
  <2> QED BY <2>5
<1>3. CASE Insert(w)
  <2>1. /\ at[w] = "inserting" /\ InsertRow(Message(w))
        /\ UNCHANGED <<topic, position>>
    BY <1>3 DEF Insert
  <2>2. Message(w) \in Keys
    BY <2>1, WorksOn
  <2>3. rows'[Message(w)] > 0
    BY <1>0, <2>1, <2>2 DEF InsertRow, AlertsTypeOK
  <2> QED BY <1>1, <2>1, <2>2, <2>3, PipelineAssumption
          DEF Settled, Stored, Published, Message
<1>4. CASE SendToDeadLetter(w) \/ DeadLetterFails(w)
  BY <1>4 DEF SendToDeadLetter, DeadLetterFails, Settled
<1>5. CASE \/ Receive(w) \/ PersistFails(w) \/ InsertReplyLost(w) \/ CommitOffset(w)
           \/ CommitRefused(w) \/ Crash(w)
  BY <1>0, <1>5 DEF Receive, PersistFails, InsertReplyLost, CommitOffset, CommitRefused,
    Crash, Reconnect, Retry, Goto, AlertsTypeOK
<1> QED BY <1>2, <1>3, <1>4, <1>5 DEF Process

LEMMA CommitsSettled ==
  OffsetInv /\ Shape' /\ Keeps /\ [AlertsNext]_alertsVars
    => \A w \in Workers : at'[w] = "committing" => Settled(position[w])'
<1> SUFFICES ASSUME OffsetInv, Shape', Keeps, [AlertsNext]_alertsVars,
                    NEW x \in Workers, at'[x] = "committing"
             PROVE  Settled(position[x])'
  OBVIOUS
<1>0. Shape /\ AlertsTypeOK
  BY DEF OffsetInv, Shape
<1>1. CASE at'[x] = at[x] /\ position'[x] = position[x]
  <2>1. position[x] \in Published /\ Settled(position[x])
    BY <1>0, <1>1 DEF OffsetInv, SettledBehind, Shape, HoldsMessage
  <2> QED BY <1>0, <1>1, <2>1, SettledStays
<1>2. CASE \E w \in Workers : Process(w) \/ Crash(w)
  <2>1. PICK w \in Workers : Process(w) \/ Crash(w)
    BY <1>2
  <2>2. CASE x = w
    BY <1>0, <2>1, <2>2, ReachesCommit DEF OffsetInv, SettledBehind
  <2>3. CASE x # w
    BY <1>0, <1>1, <2>1, <2>3, OwnStep
  <2> QED BY <2>2, <2>3
<1>3. CASE Publish \/ UNCHANGED alertsVars
  BY <1>1, <1>3 DEF Publish, alertsVars, workerVars
<1>4. CASE \E w \in Workers : Rebalance(w) \/ TakeOver(w)
  BY <1>0, <1>1, <1>4 DEF Rebalance, TakeOver, Assign, AlertsTypeOK
<1> QED BY <1>2, <1>3, <1>4 DEF AlertsNext

\* Where the owner reads next, everything before it is accounted for: it moves
\* on past a settled message only, and a new owner starts at the group's offset
\* or passes what there is.
LEMMA BehindOwner ==
  OffsetInv /\ Shape' /\ Keeps /\ [AlertsNext]_alertsVars
    => (owner' # Nobody => \A i \in Published' : i < position'[owner'] => Accounted(i)')
<1> SUFFICES ASSUME OffsetInv, Shape', Keeps, [AlertsNext]_alertsVars, owner' # Nobody,
                    NEW i \in Published', i < position'[owner']
             PROVE  Accounted(i)'
  OBVIOUS
<1>0. Shape /\ AlertsTypeOK /\ Len(topic) \in Nat
  BY TopicLength DEF OffsetInv
<1>1. CASE owner' = owner /\ position'[owner] = position[owner]
  <2>1. owner \in Workers /\ position[owner] <= Len(topic) + 1 /\ position[owner] \in Nat
    BY <1>0, <1>1 DEF AlertsTypeOK, Shape, OffsetsInTopic
  <2>2. i \in Published
    BY <1>0, <1>1, <2>1 DEF Published
  <2>3. Accounted(i)
    BY <1>1, <2>2 DEF OffsetInv, SettledBehind, Accounted
  <2> QED BY <1>0, <2>2, <2>3, AccountedStays
<1>2. CASE \E w \in Workers : Process(w) \/ Crash(w)
  <2>1. PICK w \in Workers : Process(w) \/ Crash(w)
    BY <1>2
  <2>2. owner' = owner /\ owner \in Workers /\ UNCHANGED topic
    BY <1>0, <2>1, OwnStep DEF AlertsTypeOK
  <2>3. CASE w # owner
    BY <1>0, <1>1, <2>1, <2>2, <2>3, OwnStep
  <2>4. CASE w = owner /\ ~CommitOffset(w)
    <3>1. UNCHANGED position
      BY <2>1, <2>2, <2>4, PipelineAssumption DEF Process, Crash, Receive, CheckDuplicate, Insert,
        PersistFails, InsertReplyLost, SendToDeadLetter, DeadLetterFails, CommitRefused
    <3> QED BY <1>1, <2>2, <3>1
  <2>5. CASE w = owner /\ CommitOffset(w)
    <3>1. /\ position'[w] = position[w] + 1 /\ position[w] \in Nat
          /\ at[w] = "committing"
      BY <1>0, <2>2, <2>5 DEF CommitOffset, AlertsTypeOK
    <3>2. i \in Published /\ i \in Nat
      BY <2>2 DEF Published
    <3>3. i < position[w] \/ i = position[w]
      BY <2>2, <2>5, <3>1, <3>2
    <3>4. Accounted(i)
      BY <2>2, <2>5, <3>1, <3>2, <3>3 DEF OffsetInv, SettledBehind, Accounted
    <3> QED BY <1>0, <3>2, <3>4, AccountedStays
  <2> QED BY <2>3, <2>4, <2>5
<1>3. CASE Publish \/ UNCHANGED alertsVars
  BY <1>1, <1>3 DEF Publish, alertsVars, workerVars
<1>4. CASE \E w \in Workers : Rebalance(w) \/ TakeOver(w)
  <2>1. PICK w \in Workers : Rebalance(w) \/ TakeOver(w)
    BY <1>4
  <2>2. /\ owner' = w /\ position'[w] = StartAt
        /\ skipped' = IF committed = NoOffset
                      THEN skipped \cup {j \in Published : ~Settled(j)} ELSE skipped
        /\ UNCHANGED topic
    BY <1>0, <2>1 DEF Rebalance, TakeOver, Assign, AlertsTypeOK
  <2>3. i \in Published
    BY <2>2 DEF Published
  <2>4. CASE committed = NoOffset
    <3>1. CASE Settled(i)
      BY <1>0, <2>3, <3>1, AccountedStays DEF Accounted
    <3>2. CASE ~Settled(i)
      BY <2>2, <2>3, <2>4, <3>2 DEF Accounted
    <3> QED BY <3>1, <3>2
  <2>5. CASE committed # NoOffset
    <3>1. i < committed
      BY <2>2, <2>5 DEF StartAt
    <3> QED BY <1>0, <2>3, <3>1, AccountedStays
            DEF OffsetInv, CommittedAreSettled, Accounted
  <2> QED BY <2>4, <2>5
<1> QED BY <1>2, <1>3, <1>4 DEF AlertsNext

LEMMA CommittedStep ==
  OffsetInv /\ Shape' /\ Keeps /\ [AlertsNext]_alertsVars => CommittedAreSettled'
<1> SUFFICES ASSUME OffsetInv, Shape', Keeps, [AlertsNext]_alertsVars,
                    NEW i \in Published', i < committed'
             PROVE  Accounted(i)'
  BY DEF CommittedAreSettled, Accounted
<1>0. Shape /\ AlertsTypeOK /\ Len(topic) \in Nat
  BY TopicLength DEF OffsetInv
<1>1. CASE committed' = committed
  <2>1. i \in Published
    BY <1>0, <1>1 DEF Published, Shape, OffsetsInTopic, AlertsTypeOK
  <2> QED BY <1>0, <1>1, <2>1, AccountedStays DEF OffsetInv, CommittedAreSettled, Accounted
<1>2. CASE \E w \in Workers : CommitOffset(w)
  <2>1. PICK w \in Workers : CommitOffset(w)
    BY <1>2
  <2>2. /\ committed' = position[w] + 1 /\ position[w] \in Nat
        /\ at[w] = "committing" /\ owner = w /\ UNCHANGED topic
    BY <1>0, <2>1 DEF CommitOffset, AlertsTypeOK
  <2>3. i \in Published /\ i \in Nat
    BY <2>2 DEF Published
  <2>4. i < position[w] \/ i = position[w]
    BY <2>2, <2>3
  <2>5. Accounted(i)
    BY <2>2, <2>3, <2>4, PipelineAssumption DEF OffsetInv, SettledBehind, Accounted
  <2> QED BY <1>0, <2>3, <2>5, AccountedStays
<1>3. CASE ~\E w \in Workers : CommitOffset(w)
  <2>1. UNCHANGED committed
    BY <1>3 DEF AlertsNext, Publish, Rebalance, TakeOver, Assign, Process, Crash, Receive, CheckDuplicate,
      Insert, PersistFails, InsertReplyLost, SendToDeadLetter, DeadLetterFails,
      CommitRefused, alertsVars
  <2> QED BY <1>1, <2>1
<1> QED BY <1>2, <1>3

LEMMA OffsetStep == OffsetInv /\ [AlertsNext]_alertsVars => OffsetInv'
<1> SUFFICES ASSUME OffsetInv, [AlertsNext]_alertsVars PROVE OffsetInv'
  OBVIOUS
<1>1. Shape' /\ Keeps
  BY ShapeStep, KeepsStep DEF OffsetInv
<1>2. SettledBehind'
  BY <1>1, CommitsSettled, BehindOwner DEF SettledBehind, Accounted
<1>3. CommittedAreSettled'
  BY <1>1, CommittedStep
<1> QED BY <1>1, <1>2, <1>3 DEF OffsetInv

\* The group's offset never passes a message that is not in runs_alerts, in the
\* dead-letter topic or lost on the way there, except those that were published
\* before the group had an offset: consume_alerts_forever commits last.
THEOREM CommitsAreEarned == AlertsSpec => []CommittedAreSettled
<1>1. OffsetInv => CommittedAreSettled
  BY DEF OffsetInv
<1> QED BY <1>1, OffsetInit, OffsetStep, PTL DEF AlertsSpec

----------------------------------------------------------------------------
(* One alert *)

AlertInv == Shape /\ OneAtWork /\ OneAlertPerKey

LEMMA AlertInit == AlertsInit => AlertInv
<1> SUFFICES ASSUME AlertsInit PROVE AlertInv
  OBVIOUS
<1>1. \A w \in Workers : at[w] = "polling"
  BY DEF AlertsInit
<1>2. OneAtWork
  BY <1>1 DEF OneAtWork
<1>3. \A k \in Keys : rows[k] = 0
  BY DEF AlertsInit
<1>4. OneAlertPerKey
  BY <1>3, 0 <= 1 DEF OneAlertPerKey
<1> QED BY <1>2, <1>4, ShapeInit DEF AlertInv

\* A step of the replica at work, the partition its own all along: it inserts
\* only where it found nothing, and nobody else works on anything.
LEMMA OwnAlertStep ==
  ASSUME AlertInv, ~overlapped, NEW w \in Workers, Process(w) \/ Crash(w)
  PROVE  OneAtWork' /\ OneAlertPerKey'
<1>0. Shape /\ AlertsTypeOK
  BY TopicLength DEF AlertInv
<1>1. \A x \in Workers : at[x] # "polling" => owner = x
  BY DEF AlertInv, OneAtWork
<1>2. /\ UNCHANGED topic
      /\ \A x \in Workers : x # w => at'[x] = at[x] /\ position'[x] = position[x]
  BY <1>0, OwnStep
<1>3. \A x \in Workers : x # w => at'[x] = "polling"
  <2>1. at[w] = "polling" => owner = w
    BY DEF Process, Crash, Receive, CheckDuplicate, Insert, PersistFails, InsertReplyLost,
      SendToDeadLetter, DeadLetterFails, CommitOffset, CommitRefused
  <2> QED BY <1>1, <1>2, <2>1
<1>4. at'[w] # "polling" => owner' = w
  <2>1. CASE Crash(w) \/ CommitRefused(w) \/ CommitOffset(w)
    BY <1>0, <2>1 DEF Crash, CommitRefused, CommitOffset, Reconnect, Goto, AlertsTypeOK
  <2>2. CASE Receive(w)
    BY <2>2 DEF Receive
  <2>3. CASE \/ CheckDuplicate(w) \/ Insert(w) \/ PersistFails(w) \/ InsertReplyLost(w)
             \/ SendToDeadLetter(w) \/ DeadLetterFails(w)
    BY <1>1, <2>3 DEF CheckDuplicate, Insert, PersistFails, InsertReplyLost, SendToDeadLetter,
      DeadLetterFails
  <2> QED BY <2>1, <2>2, <2>3 DEF Process
<1>5. at'[w] = "inserting" => rows'[topic[position'[w]]] = 0
  <2>1. CASE CheckDuplicate(w)
    <3>1. UNCHANGED <<position, rows>> /\ at[w] = "checking"
      BY <2>1 DEF CheckDuplicate, persisted
    <3>2. topic[position[w]] \in Keys
      BY <1>0, <3>1, WorksOn DEF Message
    <3> QED BY <1>0, <2>1, <3>1, <3>2 DEF CheckDuplicate, Goto, Message, AlertsTypeOK
  <2>2. CASE ~CheckDuplicate(w)
    BY <1>0, <2>2 DEF Process, Crash, Receive, Insert, PersistFails, InsertReplyLost,
      SendToDeadLetter, DeadLetterFails, CommitOffset, CommitRefused, Reconnect, Retry, Goto,
      AlertsTypeOK
  <2> QED BY <2>1, <2>2
<1>6. OneAtWork'
  BY <1>2, <1>3, <1>4, <1>5 DEF OneAtWork, Message
<1>7. \A k \in Keys : rows'[k] <= 1
  <2>1. CASE Insert(w) \/ InsertReplyLost(w)
    <3>1. at[w] = "inserting" /\ rows' = [rows EXCEPT ![Message(w)] = rows[Message(w)] + 1]
      BY <2>1 DEF Insert, InsertReplyLost, InsertRow
    <3>2. rows[Message(w)] = 0
      BY <3>1 DEF AlertInv, OneAtWork
    <3> QED BY <1>0, <3>1, <3>2 DEF AlertInv, OneAlertPerKey, AlertsTypeOK
  <2>2. CASE ~Insert(w) /\ ~InsertReplyLost(w)
    <3>1. UNCHANGED rows
      BY <2>2 DEF Process, Crash, Receive, CheckDuplicate, PersistFails, SendToDeadLetter,
        DeadLetterFails, CommitOffset, CommitRefused, persisted
    <3> QED BY <3>1 DEF AlertInv, OneAlertPerKey
  <2> QED BY <2>1, <2>2
<1>8. OneAlertPerKey'
  BY <1>7 DEF OneAlertPerKey
<1> QED BY <1>6, <1>8

LEMMA AlertStep == AlertInv /\ [AlertsNext]_alertsVars => AlertInv'
<1> SUFFICES ASSUME AlertInv, [AlertsNext]_alertsVars PROVE AlertInv'
  OBVIOUS
<1>0. Shape /\ AlertsTypeOK /\ Shape'
  BY ShapeStep, TopicLength DEF AlertInv
<1>1. CASE overlapped
  <2>1. overlapped'
    BY <1>1, Zenon DEF AlertsNext, Publish, Rebalance, TakeOver, Process, Crash, Receive, CheckDuplicate,
      Insert, PersistFails, InsertReplyLost, SendToDeadLetter, DeadLetterFails, CommitOffset,
      CommitRefused, alertsVars
  <2> QED BY <1>0, <2>1 DEF AlertInv, OneAtWork, OneAlertPerKey
<1>2. CASE ~overlapped /\ \E w \in Workers : Process(w) \/ Crash(w)
  BY <1>0, <1>2, OwnAlertStep DEF AlertInv
<1>3. CASE ~overlapped /\ Publish
  <2>1. PICK m \in Messages : topic' = Append(topic, m)
    BY <1>3 DEF Publish, Messages
  <2>2. \A i \in Published : topic'[i] = topic[i]
    BY <1>0, <2>1, TopicGrows
  <2>3. UNCHANGED <<owner, position, at, rows, overlapped>>
    BY <1>3 DEF Publish, workerVars, persisted
  <2>4. \A w \in Workers : at[w] = "inserting" => topic'[position[w]] = topic[position[w]]
    BY <1>0, <2>2 DEF Shape, HoldsMessage
  <2> QED BY <1>0, <1>3, <2>3, <2>4 DEF AlertInv, OneAtWork, OneAlertPerKey, Message
<1>4. CASE ~overlapped /\ \E w \in Workers : Rebalance(w) \/ TakeOver(w)
  <2>1. PICK w \in Workers : Rebalance(w) \/ TakeOver(w)
    BY <1>4
  <2>2. UNCHANGED <<topic, at, rows>> /\ at[w] = "polling"
    BY <2>1 DEF Rebalance, TakeOver, Assign, persisted
  <2>3. CASE overlapped'
    BY <1>0, <2>3 DEF AlertInv, OneAtWork, OneAlertPerKey
  <2>4. CASE ~overlapped'
    <3>1. \A x \in Workers : at[x] = "polling"
      <4>1. \A x \in Workers : at[x] # "polling" => owner = x
        BY <1>4 DEF AlertInv, OneAtWork
      <4>2. CASE Rebalance(w)
        BY <4>1, <4>2, PipelineAssumption DEF Rebalance
      <4>3. CASE TakeOver(w)
        BY <2>4, <4>1, <4>3 DEF TakeOver
      <4> QED BY <2>1, <4>2, <4>3
    <3>2. OneAtWork'
      BY <2>2, <3>1 DEF OneAtWork
    <3>3. OneAlertPerKey'
      BY <1>4, <2>2 DEF AlertInv, OneAlertPerKey
    <3> QED BY <1>0, <3>2, <3>3 DEF AlertInv
  <2> QED BY <2>3, <2>4
<1>5. CASE UNCHANGED alertsVars
  BY <1>0, <1>5 DEF AlertInv, alertsVars, workerVars, persisted, OneAtWork, OneAlertPerKey, Message
<1> QED BY <1>1, <1>2, <1>3, <1>4, <1>5 DEF AlertsNext

\* A (run, test case) pair has one alert however often its message is
\* redelivered and its insert retried, even after a commit whose answer was
\* lost, unless the partition was taken from a replica in the middle of its
\* work: persist_alert's check and insert are then two replicas' round trips.
THEOREM AlertsUnique == AlertsSpec => []OneAlertPerKey
<1>1. AlertInv => OneAlertPerKey
  BY DEF AlertInv
<1> QED BY <1>1, AlertInit, AlertStep, PTL DEF AlertsSpec

=============================================================================
