---------------------------- MODULE MCCatalogue ----------------------------
(* A project, two suites, two cases and a run ever, and two requests at a     *)
(* time, so that two updates of the run overlap, or one with a deletion.      *)
(* Nothing tells ids of one kind apart, except those of test cases, which are *)
(* numbers; no property is about liveness.                                    *)
EXTENDS Catalogue, TLC

CONSTANTS p1, s1, s2, r1, t1, t2

MCProjects == {p1}
MCSuites == {s1, s2}
MCRuns == {r1}
MCTasks == {t1, t2}
MCSymmetry == Permutations(MCSuites) \cup Permutations(MCTasks)
============================================================================
