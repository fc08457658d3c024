---------------------------- MODULE MCPipelines ----------------------------
(* A thread for three features; two healing jobs; two pull requests with four  *)
(* edits of a spec of two tests and three assertions, with no test skipped or  *)
(* the short one; suites of up to two cases of three runs; up to three         *)
(* trajectories or queries.                                                    *)
EXTENDS Pipelines, TLC

CONSTANTS p1, p2

MCPapers == {"thread 1"}
MCJobs == {"job 1", "job 2"}
MCOriginals ==
  {[text |-> "status" :> [form |-> "strict", test |-> "long"]
               @@ "banner" :> [form |-> "loose", test |-> "short"]
               @@ "added" :> [form |-> "absent", test |-> "long"],
    skips |-> skipped] : skipped \in {{}, {"short"}}}
MCPulls == {p1, p2}
PullSymmetry == Permutations(MCPulls)
MCCases == {"case 1", "case 2"}

============================================================================
