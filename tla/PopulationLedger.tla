-------------------------- MODULE PopulationLedger --------------------------
(***************************************************************************)
(* What populating a run promises to whoever reads the database or listens *)
(* on the run's WebSocket: a run opens with the cases it is to cover and   *)
(* no rows, its rows appear all at once, and only then may it be announced.*)
(***************************************************************************)
CONSTANTS Runs, Cases

VARIABLES
  wanted,  \* wanted[r]: {} before the run opens, then {its cases}
  shown,   \* shown[r]: the cases that have a row
  told     \* runs announced as populated

ledger == <<wanted, shown, told>>

Init ==
  /\ wanted = [r \in Runs |-> {}]
  /\ shown = [r \in Runs |-> {}]
  /\ told = {}

Open(r) ==
  /\ wanted[r] = {}
  /\ \E S \in SUBSET Cases : wanted' = [wanted EXCEPT ![r] = {S}]
  /\ UNCHANGED <<shown, told>>

Fill(r) ==
  /\ wanted[r] # {}
  /\ shown[r] = {}
  /\ shown' = [shown EXCEPT ![r] = UNION wanted[r]]
  /\ UNCHANGED <<wanted, told>>

Tell(r) ==
  /\ wanted[r] = {shown[r]}
  /\ told' = told \cup {r}
  /\ UNCHANGED <<wanted, shown>>

Next == \E r \in Runs : Open(r) \/ Fill(r) \/ Tell(r)

Spec == Init /\ [][Next]_ledger

============================================================================
