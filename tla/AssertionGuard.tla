--------------------------- MODULE AssertionGuard ---------------------------
(***************************************************************************)
(* scripts/assertion_guard.py on pull requests that change one Playwright  *)
(* spec: it counts what the spec asserts before and after.                 *)
(*                                                                         *)
(* A spec is abstracted to the form of each of its assertions and the test *)
(* it is in, the tests that have a skip or fixme marker, and whether it    *)
(* holds an approval marker.  The check runs on the merge of the branch    *)
(* with the base branch as it is then (the checkout of a pull_request      *)
(* event), when the pull request is opened, pushed to or labelled; it does *)
(* not run again when the base branch moves on.                            *)
(***************************************************************************)
EXTENDS Integers, FiniteSets

CONSTANTS
  Assertions, \* that a spec may have
  Tests,      \* of a spec
  Originals,  \* what a spec may be at first: its assertions and skipped tests
  Pulls,      \* pull requests
  MaxEdits    \* bound: edits of all the pull requests

\* Another expected value is a warning only, so it is no form of its own.  The last
\* one is .not with a loose matcher, as .not.toBeNull().
Forms == {"absent", "comment", "strict", "loose", "negated", "negatedLoose"}
Texts == [form : Forms, test : Tests]

ASSUME AssertionGuardAssumption ==
  /\ Originals \subseteq [text : [Assertions -> Texts], skips : SUBSET Tests]
  /\ IsFiniteSet(Assertions) /\ IsFiniteSet(Tests) /\ Tests # {} /\ MaxEdits \in Nat

VARIABLES
  first,    \* the spec on the base branch at first
  main,     \* the spec on the base branch
  pull,     \* each pull request: its branch point and head, its label, its check
  edits,    \* bound
  approved, \* history: a pull request had the label, or a spec the marker
  overtaken \* history: one was merged although main had moved since its check

guardVars == <<first, main, pull, edits, approved, overtaken>>

\* there: the file exists; marker: the comment assertion-change-approved.
Firsts == {[there |-> TRUE, marker |-> FALSE, text |-> o.text, skips |-> o.skips] : o \in Originals}
Deleted == [there |-> FALSE, marker |-> FALSE, skips |-> {},
            text |-> [a \in Assertions |-> [form |-> "absent", test |-> CHOOSE t \in Tests : TRUE]]]
NoPull == [at |-> "none", from |-> Deleted, head |-> Deleted, label |-> FALSE, seen |-> Deleted]

GuardStart(open) ==
  /\ first \in Firsts /\ main = first
  /\ pull = [p \in Pulls |-> [NoPull EXCEPT !.at = IF open THEN "new" ELSE "none"]]
  /\ edits = 0
  /\ approved = FALSE
  /\ overtaken = FALSE

----------------------------------------------------------------------------
(* assertion_profile and compare *)

\* Variant: comments are not stripped.
AnyPresent(spec) == {a \in Assertions : spec.text[a].form # "absent"}

\* Comments are stripped first.
Present(spec) == {a \in Assertions : spec.text[a].form \notin {"absent", "comment"}}

Expects(spec) == Cardinality(Present(spec))
Skips(spec) == Cardinality(spec.skips)
Of(spec, forms) == Cardinality({a \in Assertions : spec.text[a].form \in forms})

Loose == {"loose", "negatedLoose"}
Negated == {"negated", "negatedLoose"}

\* Fewer expects, or more skip markers, whatever they skip, or more loose or negated
\* matchers, whatever test they are in.
Weaker(before, after) ==
  \/ Expects(after) < Expects(before)
  \/ Skips(after) > Skips(before)
  \/ \E forms \in {Loose, Negated} : Of(after, forms) > Of(before, forms)

\* A finding of level BLOCK: for a spec that was there, and no approval.
Blocks(before, after, label) ==
  /\ before.there
  /\ ~label /\ ~after.marker
  /\ ~after.there \/ Weaker(before, after)

----------------------------------------------------------------------------
(* Branches *)

\* Git's merge, piece by piece; two different changes of a piece conflict.
Conflict(base, ours, theirs) == Cardinality({base, ours, theirs}) = 3

Merged3(base, ours, theirs) == IF ours = base THEN theirs ELSE ours

Mergeable(p) ==
  LET from == pull[p].from
      head == pull[p].head
  IN /\ from.there /\ head.there /\ main.there
       => \A a \in Assertions : ~Conflict(from.text[a], head.text[a], main.text[a])
     /\ ~(head.there /\ main.there /\ from.there) => main = from \/ head = from

MergeInto(base, p) ==
  LET from == pull[p].from
      head == pull[p].head
  IN IF base = from THEN head
     ELSE IF head = from THEN base
     ELSE [there |-> TRUE, marker |-> Merged3(from.marker, head.marker, base.marker),
           skips |-> {t \in Tests : Merged3(t \in from.skips, t \in head.skips, t \in base.skips)},
           text |-> [a \in Assertions |-> Merged3(from.text[a], head.text[a], base.text[a])]]

Merge(p) == MergeInto(main, p)

\* A push of the author or the healer: an assertion rewritten or moved to another
\* test, a test skipped or taken up again, the approval marker, or the file.
Edited(spec) ==
  {[spec EXCEPT !.text[a].form = f] : a \in Assertions, f \in Forms}
    \cup {[spec EXCEPT !.text[a].test = t] : a \in Present(spec), t \in Tests}
    \cup {[spec EXCEPT !.skips = IF t \in @ THEN @ \ {t} ELSE @ \cup {t}] : t \in Tests}
    \cup {[spec EXCEPT !.marker = ~@], Deleted}

Open(p) ==
  /\ pull[p].at = "new" /\ main.there
  /\ pull' = [pull EXCEPT ![p] = [at |-> "pushed", from |-> main, head |-> main,
                                  label |-> FALSE, seen |-> main]]
  /\ UNCHANGED <<first, main, edits, approved, overtaken>>

Push(p) ==
  /\ pull[p].at \in {"pushed", "passed", "blocked"}
  /\ pull[p].head.there /\ edits < MaxEdits
  /\ edits' = edits + 1
  /\ \E spec \in Edited(pull[p].head) \ {pull[p].head} :
       /\ pull' = [pull EXCEPT ![p].at = "pushed", ![p].head = spec]
       /\ approved' = (approved \/ spec.marker)
  /\ UNCHANGED <<first, main, overtaken>>

\* The label assertion-change-approved is given or taken back: another event.
Label(p) ==
  /\ pull[p].at \in {"pushed", "passed", "blocked"}
  /\ pull' = [pull EXCEPT ![p].at = "pushed", ![p].label = ~@]
  /\ approved' = TRUE
  /\ UNCHANGED <<first, main, edits, overtaken>>

\* main of assertion_guard.py
Check(p) ==
  /\ pull[p].at = "pushed" /\ Mergeable(p)
  /\ pull' = [pull EXCEPT ![p].at = IF Blocks(main, Merge(p), pull[p].label) THEN "blocked" ELSE "passed",
                          ![p].seen = main]
  /\ UNCHANGED <<first, main, edits, approved, overtaken>>

MergePull(p) ==
  /\ pull[p].at = "passed" /\ Mergeable(p)
  /\ main' = Merge(p)
  /\ overtaken' = (overtaken \/ pull[p].seen # main)
  /\ pull' = [pull EXCEPT ![p] = [NoPull EXCEPT !.at = "merged"]]
  /\ UNCHANGED <<first, edits, approved>>

GuardNext == \E p \in Pulls : Open(p) \/ Push(p) \/ Label(p) \/ Check(p) \/ MergePull(p)

----------------------------------------------------------------------------
(* Properties *)

\* Assertions that are code, and those of them that a test runner would evaluate.
Written(spec) == {a \in Assertions : spec.text[a].form \in {"strict", "loose", "negated", "negatedLoose"}}
Evaluated(spec) == {a \in Written(spec) : spec.text[a].test \notin spec.skips}

\* As long as no human approved anything, the spec on the base branch has no fewer
\* assertions than at first, no more skip markers, and no more loose or negated
\* matchers, after any number of merges, unless one of them was checked against an
\* older base branch; and if no test was skipped at first, a run of it evaluates no
\* fewer assertions than at first.  Nothing of the kind is said of a spec with a
\* skipped test: an assertion moved into that test, or the marker moved to a longer
\* test, raises no finding (compare, _show, the events of assertion-guard.yml).
WeakerOnlyIfApproved ==
  \/ approved \/ overtaken
  \/ /\ Cardinality(Written(main)) >= Cardinality(Written(first))
     /\ Skips(main) <= Skips(first)
     /\ \A forms \in {Loose, Negated} : Of(main, forms) <= Of(first, forms)
     /\ first.skips = {}
          => Cardinality(Evaluated(main)) >= Cardinality(Evaluated(first))

(* Types *)

SpecStates ==
  [there : BOOLEAN, marker : BOOLEAN, text : [Assertions -> Texts], skips : SUBSET Tests]
PullStates ==
  [at : {"none", "new", "pushed", "passed", "blocked", "merged"}, from : SpecStates,
   head : SpecStates, label : BOOLEAN, seen : SpecStates]

GuardTypeOK ==
  first \in SpecStates /\ main \in SpecStates /\ pull \in [Pulls -> PullStates]

=============================================================================
