-------------------------- MODULE MCResultUpdates --------------------------
(* ResultUpdates with two users updating a run of two cases. *)
EXTENDS ResultUpdates

CONSTANTS c1, c2, u1, u2

MCCases == {c1, c2}
MCUsers == {u1, u2}
MCEditions == {"services", "monolith"}

============================================================================
