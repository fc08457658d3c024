------------------------------- MODULE Triage -------------------------------
(***************************************************************************)
(* Failure triage in the monolith: triage_run of api/main.py, the agent of *)
(* api/triage_agent.py, the tool loop of api/ai_gateway.py and the health  *)
(* simulation of api/environment_health.py, with the executors who record  *)
(* results meanwhile.  The trajectory eval (evals/triage_trajectory_eval.  *)
(* py) runs the same agent over a database of its own and scores what the  *)
(* agent did.                                                              *)
(*                                                                         *)
(* The model's replies are arbitrary.  Of a reply only the tool calls, or  *)
(* whether there is a text, matter; of a tool's output only whether it is  *)
(* an error.  Runs are numbered in the order of their created_at.  Each    *)
(* query of a request reads what is committed at that moment.              *)
(***************************************************************************)
EXTENDS Integers, Sequences, FiniteSetsExt, Histories

CONSTANTS
  Cases,         \* the test cases of the suite
  Strangers,     \* ids a model may name that are not in the suite
  Runs,          \* runs of the suite: 1..n, in the order of creation
  Envs,          \* keys of environments
  Starts,        \* requests, and the world they meet: see the assumption
  Uses,          \* tool calls the model makes: [tool, case, verdict]
  MaxUses,       \* bound: tool calls in one reply
  MaxIterations  \* max_iterations: 4 in the code

Verdicts == {"product_bug", "flaky", "environment", "unknown"}
Tools == {"get_test_case_history", "get_similar_test_cases", "get_suite_flaky_tests",
          "get_run_environment_status", "record_verdict"}
Decisive == {"pass", "fail"}
NoEnv == "none"
NoRun == 0
None == "none"

ASSUME TriageAssumption ==
  /\ Cases \cap Strangers = {}
  /\ IsFiniteSet(Runs) /\ Runs = 1..Cardinality(Runs)
  /\ NoEnv \notin Envs
  /\ MaxUses \in Nat /\ MaxIterations \in Nat
  /\ Uses \subseteq [tool : STRING, case : Cases \cup Strangers, verdict : STRING]
  /\ Starts \subseteq [caller : {"endpoint", "eval"}, provider : STRING,
                       configured : BOOLEAN, agentic : BOOLEAN, target : Runs \cup {NoRun},
                       env : [Runs -> Envs \cup {NoEnv}], lost : [Envs -> 0..2],
                       changes : Nat, status : [Runs -> [Cases -> Decisive \cup {"pending", "skip"}]]]

VARIABLES
  start,      \* what was asked, the environment of each run, a bound on changes
  status,     \* the status of each case in each run
  lost,       \* pods of each environment that are not ready
  changes,    \* changes made during the request
  at,         \* where the request is
  failing,    \* failing_ids, as collect_problems read them
  iterations, \* turns of the tool loop
  todo,       \* tool calls of the turn not yet dispatched
  trace,      \* ToolCallRecords
  sink,       \* the verdict the agent recorded for each case
  prior,      \* the case being judged and what collect_evidence read of it first
  judged,     \* the TriageVerdict of each case
  torn        \* history: something changed since that first read

world == <<start, status, lost, changes>>
toolLoop == <<iterations, todo, trace, sink>>
triageVars == <<world, at, failing, toolLoop, prior, judged, torn>>

NoEvidence == [case |-> 0, statuses |-> <<>>, health |-> None]
NoVerdict == [agent |-> None, heuristic |-> None, review |-> TRUE]

TriageInit ==
  /\ start \in Starts
  /\ status = start.status
  /\ lost = start.lost
  /\ changes = 0
  /\ at = "asked"
  /\ failing = {}
  /\ iterations = 0
  /\ todo = <<>>
  /\ trace = <<>>
  /\ sink = [c \in Cases |-> None]
  /\ prior = NoEvidence
  /\ judged = [c \in Cases |-> NoVerdict]
  /\ torn = FALSE

target == start.target
env == start.env[target]

----------------------------------------------------------------------------
(* Evidence and the deterministic verdict *)

DesiredPods(e) == CASE e = "prod" -> 4 [] e = "preprod" -> 3 [] OTHER -> 2

\* simulate_environment_health: max(0, desired - lost) pods are ready.
Health(e) ==
  IF lost[e] = 0 THEN "healthy"
  ELSE IF DesiredPods(e) > lost[e] THEN "degraded" ELSE "down"

Unhealthy == {"degraded", "down"}

\* prior_statuses: results of the runs created before the target.
Prior(c) ==
  [r \in {q \in 1..target - 1 : status[q][c] \in Decisive} |-> status[r][c]]

\* The runs of another environment in which c passed or failed.
Elsewhere(c, e) ==
  {r \in Runs \ {target} : start.env[r] = e /\ e # env /\ status[r][c] \in Decisive}

\* Variant: rows in ascending order, so setdefault keeps the oldest.
OldestElsewhere(c) ==
  {<<e, status[Min(Elsewhere(c, e))][c]>> : e \in {x \in Envs : Elsewhere(c, x) # {}}}

\* other_environments: the newest result of each other environment.
OtherEnvironments(c) ==
  {<<e, status[Max(Elsewhere(c, e))][c]>> : e \in {x \in Envs : Elsewhere(c, x) # {}}}

\* prior + ["fail"]
WithFailure(h) == [r \in DOMAIN h \cup {target} |-> IF r = target THEN "fail" ELSE h[r]]

\* The rules of heuristic_verdict, in their order.
HeuristicVerdict(statuses, health, others) ==
  LET passesElsewhere == \E o \in others : o[2] = "pass"
      recent == LastOf(DOMAIN statuses, 2)
  IN  IF health \in Unhealthy /\ passesElsewhere THEN "environment"
      ELSE IF Flips(WithFailure(statuses)) >= 2 THEN "flaky"
      ELSE IF \/ recent # {} /\ \A r \in recent : statuses[r] = "pass"
              \/ others # {} /\ ~passesElsewhere /\ health \notin Unhealthy
           THEN "product_bug"
      ELSE "unknown"

----------------------------------------------------------------------------
(* triage_run *)

\* What collect_problems finds now.
Problems == {c \in Cases : status[target][c] \in {"fail", "skip"}}

Eval == start.caller = "eval"
Agentic == Eval \/ (start.agentic /\ start.provider = "anthropic")

Collect ==
  /\ at = "asked"
  /\ failing' = IF target = NoRun THEN {} ELSE {c \in Problems : status[target][c] = "fail"}
  /\ at' = IF target = NoRun THEN "404"
           ELSE IF ~Eval /\ Problems = {} THEN "200"
           ELSE IF ~Eval /\ ~start.configured THEN "503"
           ELSE IF Agentic THEN "model" ELSE "single"
  /\ UNCHANGED <<world, toolLoop, prior, judged, torn>>

Turns == UNION {[1..n -> Uses] : n \in 1..MaxUses}

\* Anthropic honours tool_choice "none"; arguments are objects.
AnthropicReplies(forced) ==
  {[text |-> t, uses |-> u] : t \in BOOLEAN, u \in IF forced THEN {<<>>} ELSE Turns \cup {<<>>}}

\* A local model gets no tools on the last turn, but may still write calls.
OllamaReplies(forced) == {[text |-> t, uses |-> u] : t \in BOOLEAN, u \in Turns \cup {<<>>}}

Replies(forced) ==
  IF start.provider = "ollama" THEN OllamaReplies(forced) ELSE AnthropicReplies(forced)

\* One turn of complete_with_tools: the model answers, or asks for tools.
CallModel ==
  LET forced == iterations >= MaxIterations IN
  /\ at = "model"
  /\ iterations' = iterations + 1
  /\ \E reply \in Replies(forced) :
       IF reply.uses = <<>> \/ forced
       THEN /\ at' = IF Eval THEN "scored" ELSE IF reply.text THEN "judging" ELSE "502"
            /\ todo' = <<>>
       ELSE /\ at' = "tools"
            /\ todo' = reply.uses
  /\ UNCHANGED <<world, failing, trace, sink, prior, judged, torn>>

\* The API call fails: an error result, no exception.
ModelFails ==
  /\ at \in {"model", "single"}
  /\ at' = IF Eval THEN "scored" ELSE "502"
  /\ iterations' = IF at = "model" THEN iterations + 1 ELSE iterations
  /\ UNCHANGED <<world, failing, todo, trace, sink, prior, judged, torn>>

\* complete(): one prompt, any provider.
SingleShot ==
  /\ at = "single"
  /\ at' = "judging"
  /\ UNCHANGED <<world, failing, toolLoop, prior, judged, torn>>

\* Variant: a later verdict replaces the recorded one.
RefusedUnlessNew(use) ==
  use.verdict \notin Verdicts \/ use.case \notin failing

\* record_verdict raises.
VerdictRefused(use) ==
  \/ use.verdict \notin Verdicts
  \/ use.case \notin failing
  \/ sink[use.case] # None

\* The handler raises, or there is none.
ToolFails(use) ==
  \/ use.tool \notin Tools
  \/ use.tool = "get_test_case_history" /\ use.case \notin Cases
  \/ use.tool = "record_verdict" /\ VerdictRefused(use)

\* Retrieval calls an embedding provider.
MayRaise(use) == IF use.tool = "get_similar_test_cases" THEN BOOLEAN ELSE {FALSE}

Records(use) == use.tool = "record_verdict" /\ ~VerdictRefused(use)

\* Variant: a call that fails is tried again until it works.
DispatchUntilDone ==
  /\ at = "tools"
  /\ LET use == Head(todo)
     IN  /\ ~ToolFails(use)
         /\ trace' = Append(trace, [use |-> use, isError |-> FALSE])
         /\ sink' = IF Records(use) THEN [sink EXCEPT ![use.case] = use.verdict] ELSE sink
  /\ todo' = Tail(todo)
  /\ at' = IF Tail(todo) = <<>> THEN "model" ELSE "tools"
  /\ UNCHANGED <<world, failing, iterations, prior, judged, torn>>

\* _dispatch_tool on the next call of the turn; an error is an answer too.
Dispatch ==
  /\ at = "tools"
  /\ LET use == Head(todo)
     IN  \E raised \in MayRaise(use) :
           /\ trace' = Append(trace, [use |-> use, isError |-> raised \/ ToolFails(use)])
           /\ sink' = IF Records(use) THEN [sink EXCEPT ![use.case] = use.verdict] ELSE sink
  /\ todo' = Tail(todo)
  /\ at' = IF Tail(todo) = <<>> THEN "model" ELSE "tools"
  /\ UNCHANGED <<world, failing, iterations, prior, judged, torn>>

Unjudged == {c \in failing : judged[c].heuristic = None}

\* collect_evidence: the earlier results, then the health of the environment.
Recall ==
  /\ at = "judging"
  /\ prior = NoEvidence
  /\ \E c \in Unjudged :
       prior' = [case |-> c, statuses |-> Prior(c),
                 health |-> IF env = NoEnv THEN None ELSE Health(env)]
  /\ torn' = FALSE
  /\ UNCHANGED <<world, at, failing, toolLoop, judged>>

\* The other environments, then build_verdicts for the case.
Judge ==
  /\ prior # NoEvidence
  /\ LET c == prior.case
         h == HeuristicVerdict(prior.statuses, prior.health, OtherEnvironments(c))
     IN  judged' = [judged EXCEPT ![c] =
           [agent |-> sink[c], heuristic |-> h,
            review |-> IF Agentic THEN sink[c] \in {None, "unknown"} \/ sink[c] # h
                                  ELSE h = "unknown"]]
  /\ prior' = NoEvidence
  /\ UNCHANGED <<world, at, failing, toolLoop, torn>>

Respond ==
  /\ at = "judging"
  /\ prior = NoEvidence
  /\ Unjudged = {}
  /\ at' = "200"
  /\ UNCHANGED <<world, failing, toolLoop, prior, judged, torn>>

Ended == at \in {"200", "404", "502", "503", "scored"}

----------------------------------------------------------------------------
(* The world around the request; the eval has a database of its own *)

\* update_result on any run of the suite.
RecordResult ==
  /\ ~Ended /\ ~Eval /\ changes < start.changes
  /\ \E r \in Runs, c \in Cases, s \in Decisive :
       /\ status[r][c] # s
       /\ status' = [status EXCEPT ![r][c] = s]
  /\ changes' = changes + 1
  /\ torn' = TRUE
  /\ UNCHANGED <<start, lost, at, failing, toolLoop, prior, judged>>

\* The next five-minute bucket gives an environment other pods.
HealthMoves ==
  /\ ~Ended /\ ~Eval /\ changes < start.changes
  /\ \E e \in Envs, n \in 0..2 :
       /\ lost[e] # n
       /\ lost' = [lost EXCEPT ![e] = n]
  /\ changes' = changes + 1
  /\ torn' = TRUE
  /\ UNCHANGED <<start, status, at, failing, toolLoop, prior, judged>>

----------------------------------------------------------------------------
(* score_trajectory: what the eval says the agent did *)

Calls(tool) == {i \in DOMAIN trace : trace[i].use.tool = tool}
CallsFor(c) == {i \in Calls("record_verdict") : trace[i].use.case = c}

\* re_verdict_attempts: of the calls for each case, all but one.
ReVerdictAttempts ==
  Cardinality({i \in Calls("record_verdict") : \E j \in CallsFor(trace[i].use.case) : j < i})

----------------------------------------------------------------------------
TriageNext ==
  \/ Collect \/ CallModel \/ ModelFails \/ SingleShot \/ Dispatch
  \/ Recall \/ Judge \/ Respond
  \/ RecordResult \/ HealthMoves

\* The request's thread runs on; a model that never answers runs into the
\* client's timeout, which is ModelFails.
TriageSpec ==
  /\ TriageInit /\ [][TriageNext]_triageVars
  /\ WF_triageVars(Collect \/ CallModel \/ ModelFails \/ SingleShot \/ Dispatch
             \/ Recall \/ Judge \/ Respond)
----------------------------------------------------------------------------
(* Properties *)

\* The model calls of record_verdict that are legible: they name a verdict and
\* a failing case.
Legible(c) ==
  {i \in CallsFor(c) : c \in failing /\ trace[i].use.verdict \in Verdicts}

FirstLegible(c) ==
  IF Legible(c) = {} THEN None ELSE trace[Min(Legible(c))].use.verdict

\* Verdicts are final: whatever the model calls afterwards, in the same turn or
\* a later one, with whatever refusals in between, the agent's verdict that the
\* answer shows and the eval scores is the first legible one it recorded for the
\* case (record_verdict, build_verdicts).
FirstVerdictWins ==
  \A c \in Cases :
    /\ sink[c] = FirstLegible(c)
    /\ judged[c].heuristic # None => judged[c].agent = FirstLegible(c)

\* What each verdict claims about the results, without counting flips or
\* walking rows.
Failed(r, c) == status[r][c] = "fail"
Passed(r, c) == status[r][c] = "pass"
Earlier == 1..target - 1
NewestOn(r, c) ==
  /\ r # target /\ start.env[r] \notin {env, NoEnv} /\ status[r][c] \in Decisive
  /\ \A q \in Runs \ {target} :
       q > r /\ start.env[q] = start.env[r] => status[q][c] \notin Decisive
Sick == env # NoEnv /\ lost[env] > 0

Supported(c, verdict) ==
  CASE verdict = "environment" -> Sick /\ \E r \in Runs : NewestOn(r, c) /\ Passed(r, c)
    [] verdict = "flaky" -> \E r, q \in Earlier : r < q /\ Failed(r, c) /\ Passed(q, c)
    [] verdict = "product_bug" ->
         \/ /\ \E r \in Earlier : Passed(r, c)
            /\ \A r \in Earlier : ~Failed(r, c)
         \/ /\ ~Sick
            /\ \E r \in Runs : NewestOn(r, c)
            /\ \A r \in Runs : NewestOn(r, c) => Failed(r, c)
    [] OTHER -> FALSE

\* A verdict that nobody is asked to review is supported by the results: an
\* environment verdict by a sick environment and a pass elsewhere, a flaky one
\* by a failure followed by a pass, a product bug by a case that only ever
\* passed or that fails on every other environment.  The exception is a change
\* committed between the two reads of collect_evidence.
UnflaggedIsSupported ==
  [][\A c \in Cases :
       judged'[c] # judged[c] /\ ~judged'[c].review /\ ~torn =>
         Supported(c, IF Agentic THEN judged'[c].agent ELSE judged'[c].heuristic)]_triageVars

Refused == {i \in Calls("record_verdict") : trace[i].isError}

\* Calls for a case whose verdict was already there.
Repeats ==
  {i \in Calls("record_verdict") :
     \E j \in Legible(trace[i].use.case) : j < i}

\* The eval's count of repeated verdicts lies between the calls for a case that
\* had its verdict and the calls the tool refused: neither a repeated verdict is
\* missed nor a first one counted (score_trajectory, record_verdict).
ReVerdictsAreRefusals ==
  at = "scored" => /\ Cardinality(Repeats) <= ReVerdictAttempts
                   /\ ReVerdictAttempts <= Cardinality(Refused)

\* Both: the first verdict is the answer's, and the eval sees the attempts at another.
VerdictsAreFinal == FirstVerdictWins /\ ReVerdictsAreRefusals

\* Whatever the model asks for, the request ends: with an answer, an error
\* status or a scored trajectory (complete_with_tools is bounded).
EventuallyAnswered == <>Ended

(* Types *)

Uttered == Verdicts \cup {None}

TriageTypeOK ==
  /\ failing \subseteq Cases
  /\ todo \in Seq(Uses)
  /\ trace \in Seq([use : Uses, isError : BOOLEAN])
  /\ sink \in [Cases -> Uttered]
  /\ judged \in [Cases -> [agent : Uttered, heuristic : Uttered, review : BOOLEAN]]

=============================================================================
