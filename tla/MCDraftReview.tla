---------------------------- MODULE MCDraftReview ----------------------------
(* DraftReview with two reviewers on either database.  The reviewers are       *)
(* interchangeable, and no property of the runs is about liveness.             *)
EXTENDS DraftReview, TLC

CONSTANTS anna, ben

MCReviewers == {anna, ben}
MCDatabases == {"postgres", "sqlite"}
MCSymmetry == Permutations(MCReviewers)

============================================================================
