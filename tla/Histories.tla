----------------------------- MODULE Histories ------------------------------
(***************************************************************************)
(* A history of one test case: a function from the runs, numbered in the   *)
(* order of creation, in which it passed or failed to which of the two it  *)
(* did.  Flakiness is read off it in api/triage_agent.py and api/main.py.  *)
(***************************************************************************)
EXTENDS Naturals, FiniteSets

\* Nothing lies between the two results.
Adjacent(h, q, r) == q < r /\ \A p \in DOMAIN h : p <= q \/ r <= p

\* How often a result differs from the one before it.
Flips(h) ==
  Cardinality({r \in DOMAIN h : \E q \in DOMAIN h : Adjacent(h, q, r) /\ h[q] # h[r]})

\* The last n of a set of runs.
LastOf(S, n) == {r \in S : Cardinality({q \in S : q > r}) < n}

=============================================================================
