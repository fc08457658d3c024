------------------------------ MODULE MCTriage ------------------------------
(* Triage of one request.  Two kinds of first states: the tool loop, with two *)
(* failing cases, a short history and every sequence of tool calls, and the   *)
(* deterministic verdict alone, with every history of one case over four runs *)
(* on two environments or none.                                               *)
EXTENDS Triage, TLC

MCCases == 1..2
MCStrangers == {9}
MCRuns == 1..4
MCEnvs == {"staging", "prod"}

Call(tool, case, verdict) == [tool |-> tool, case |-> case, verdict |-> verdict]
MCUses == {
  Call("record_verdict", 1, "flaky"),
  Call("record_verdict", 1, "product_bug"),
  Call("record_verdict", 1, "broken"),
  Call("record_verdict", 2, "unknown"),
  Call("get_test_case_history", 9, None)}

\* The history of case 1; case 2 has one in the target run.
Statuses(history, second) ==
  [r \in MCRuns |-> [c \in MCCases |->
     IF c = 1 THEN history[r] ELSE IF r = 3 THEN second ELSE "pending"]]

OnTwo == <<"staging", "prod", "staging", "prod">>
AllReady == [e \in MCEnvs |-> 0]

LoopStarts ==
  [caller : {"endpoint", "eval"}, provider : {"anthropic", "ollama"},
   configured : {TRUE}, agentic : {TRUE}, target : {3}, env : {OnTwo}, lost : {AllReady},
   changes : {1},
   status : {Statuses(<<"fail", "pass", "fail", "pass">>, s) : s \in {"fail", "skip"}}]

VerdictStarts ==
  [caller : {"endpoint"}, provider : {"groq"}, configured : {TRUE}, agentic : {TRUE},
   target : {3}, env : [MCRuns -> MCEnvs \cup {NoEnv}], lost : [MCEnvs -> 0..2],
   changes : {1},
   status : {Statuses(h, "pass") : h \in {g \in [MCRuns -> Decisive] : g[3] = "fail"}}]

RefusedStarts ==
  [caller : {"endpoint"}, provider : {"anthropic"}, configured : BOOLEAN,
   agentic : {FALSE}, target : {NoRun, 3}, env : {OnTwo}, lost : {AllReady},
   changes : {0},
   status : {Statuses(<<"pass", "pass", s, "pass">>, "pass") : s \in {"pass", "fail"}}]

MCStarts == LoopStarts \cup VerdictStarts \cup RefusedStarts

============================================================================
