-------------------------- MODULE MCRunPopulation --------------------------
(* RunPopulation on two runs, two cases and two worker replicas. *)
EXTENDS RunPopulation

CONSTANTS r1, r2, c1, c2, w1, w2

MCRuns == {r1, r2}
MCCases == {c1, c2}
MCWorkers == {w1, w2}

============================================================================
