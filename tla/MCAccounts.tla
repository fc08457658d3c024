----------------------------- MODULE MCAccounts -----------------------------
(* Two tasks at a time, the seed name and two others, three accounts.         *)
(* Nothing but SeedName tells the names apart, and no property is about       *)
(* liveness.                                                                  *)
EXTENDS Accounts, TLC

CONSTANTS seed, n1, n2, t1, t2

MCNames == {seed, n1, n2}
MCTasks == {t1, t2}
MCSymmetry == Permutations({n1, n2}) \cup Permutations(MCTasks)
============================================================================
