----------------------------- MODULE MCRunPage -----------------------------
(* RunPage on a run of two cases with two updates. *)
EXTENDS RunPage

CONSTANTS c1, c2

MCRows == {c1, c2}

============================================================================
