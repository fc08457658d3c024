----------------------------- MODULE Pipelines -----------------------------
(***************************************************************************)
(* The offline tools around the agents, which share nothing: writing a     *)
(* spec, healing it, guarding its assertions in pull requests, and the     *)
(* evaluation gates.  A behaviour follows one of them.                     *)
(***************************************************************************)
EXTENDS Authoring, Healing, AssertionGuard, EvalGates

vars == <<authoringVars, healVars, guardVars, gateVars>>

Init ==
  \/ AuthoringStart("new") /\ HealingStart("none") /\ GuardStart(FALSE) /\ GatesNone
  \/ AuthoringStart("none") /\ HealingStart("run") /\ GuardStart(FALSE) /\ GatesNone
  \/ AuthoringStart("none") /\ HealingStart("none") /\ GuardStart(TRUE) /\ GatesNone
  \/ AuthoringStart("none") /\ HealingStart("none") /\ GuardStart(FALSE) /\ GatesInit

Next ==
  \/ AuthoringNext /\ UNCHANGED <<healVars, guardVars, gateVars>>
  \/ HealingNext /\ UNCHANGED <<authoringVars, guardVars, gateVars>>
  \/ GuardNext /\ UNCHANGED <<authoringVars, healVars, gateVars>>
  \/ GatesNext /\ UNCHANGED <<authoringVars, healVars, guardVars>>

Spec == Init /\ [][Next]_vars

=============================================================================
