---------------------------- MODULE DraftReview ----------------------------
(***************************************************************************)
(* Human review of AI-generated drafts in the monolith: api/ai_review.py,  *)
(* save_generated_testcases of api/main.py and the embeddings of           *)
(* api/retrieval.py, with the admins who create, change and delete test    *)
(* cases meanwhile.                                                        *)
(*                                                                         *)
(* Saving commits three times: the drafts, an embedding per draft, their   *)
(* reviews.  A review holds the id of its draft in a plain column, an      *)
(* embedding in a foreign key.  PostgreSQL enforces foreign keys and never *)
(* gives an id twice; SQLite, as api/database.py opens it, enforces none   *)
(* and gives a new row the id after the largest one in use.                *)
(*                                                                         *)
(* Every test case ever inserted has a birth number, so that two cases     *)
(* with the same id can be told apart.  One embedding model is configured. *)
(***************************************************************************)
EXTENDS Naturals, Sequences, FiniteSetsExt

CONSTANTS
  Reviewers, \* admins deciding at the same time
  Databases, \* to consider: "postgres", "sqlite"
  MaxBirths  \* bound: test cases ever inserted

ASSUME ReviewAssumption ==
  Databases \subseteq {"postgres", "sqlite"} /\ MaxBirths \in Nat \ {0}

Births == 1..MaxBirths
Ids == Births
Null == 0

VARIABLES
  database,
  births,    \* test cases inserted so far
  case,      \* the birth of the test case with each id, Null if there is none
  status,    \* the status of each birth's row
  embedding, \* the birth whose text each id's row in test_case_embeddings embeds
  reviews,   \* ai_draft_reviews, by id
  saver,     \* the save_generated_testcases request
  reviewer,  \* the review_draft request of each reviewer
  reading,   \* the backfill of nearest_test_cases: <<id, birth>> to embed
  drafted,   \* history: births that were saved as AI drafts
  abandoned, \* history: births whose save ended before their reviews
  removed,   \* history: births delete_testcase deleted
  withdrawn, \* history: births update_testcase set back to "draft"
  together,  \* history: reviews two reviewers had open at a time
  crossed,   \* history: births deleted between being read and their embedding
  decided    \* history: <<review, birth>>, decisions that changed a test case

store == <<database, births, case, status, embedding, reviews>>
requests == <<saver, reviewer, reading>>
history == <<drafted, abandoned, removed, withdrawn, together, crossed, decided>>
reviewVars == <<store, requests, history>>

Verdicts == {"accepted", "edited", "rejected"}

NoSave == [at |-> "idle", todo |-> {}, batch |-> {}, text |-> Null]
NoRequest == [at |-> "idle", review |-> 0, verdict |-> "accepted", id |-> Null,
              active |-> FALSE]

ReviewInit ==
  /\ database \in Databases
  /\ births = 0
  /\ case = [i \in Ids |-> Null]
  /\ status = [b \in Births |-> "none"]
  /\ embedding = [i \in Ids |-> Null]
  /\ reviews = <<>>
  /\ saver = NoSave
  /\ reviewer = [r \in Reviewers |-> NoRequest]
  /\ reading = {}
  /\ drafted = {}
  /\ abandoned = {}
  /\ removed = {}
  /\ withdrawn = {}
  /\ together = {}
  /\ crossed = {}
  /\ decided = {}

Live == {i \in Ids : case[i] # Null}
LiveBirths == {case[i] : i \in Live}

\* The id the database gives the next row.
NextId ==
  IF database = "postgres" THEN births + 1
  ELSE IF Live = {} THEN 1 ELSE Max(Live) + 1

\* Deleting a row that an embedding refers to.
Refused(i) == database = "postgres" /\ embedding[i] # Null

\* Births whose text a request has read to embed it.
BeingRead == {p[2] : p \in reading} \cup {saver.text}

----------------------------------------------------------------------------
(* save_generated_testcases, one draft or two *)

\* The drafts are committed.
SaveDrafts ==
  /\ saver.at = "idle"
  /\ \E n \in 1..2 :
       /\ births + n <= MaxBirths
       /\ births' = births + n
       /\ LET at(k) == NextId + k - 1
          IN  /\ case' = [i \in Ids |-> IF \E k \in 1..n : i = at(k)
                                        THEN births + 1 + i - NextId ELSE case[i]]
              /\ saver' = [at |-> "storing",
                           todo |-> {at(k) : k \in 1..n},
                           batch |-> {<<at(k), births + k>> : k \in 1..n},
                           text |-> Null]
       /\ status' = [b \in Births |-> IF b \in births + 1..births + n THEN "draft"
                                                                    ELSE status[b]]
       /\ drafted' = drafted \cup (births + 1..births + n)
  /\ UNCHANGED <<database, embedding, reviews, reviewer, reading, abandoned, removed,
                 withdrawn, together, crossed, decided>>

Unreviewed == {p[2] : p \in saver.batch}

\* The request ends in a 500.
SaveFails ==
  /\ saver' = NoSave
  /\ abandoned' = abandoned \cup Unreviewed
  /\ UNCHANGED <<store, reviewer, reading, drafted, removed, withdrawn, together,
                 crossed, decided>>

\* db.refresh of the next draft: whatever has its id now.
RefreshDraft ==
  /\ saver.at = "storing"
  /\ saver.todo # {}
  /\ LET i == Min(saver.todo)
     IN  /\ case[i] # Null
         /\ saver' = [saver EXCEPT !.at = "embedding", !.text = case[i]]
  /\ UNCHANGED <<store, reviewer, reading, history>>

\* store_test_case_embedding of it.
StoreEmbedding ==
  /\ saver.at = "embedding"
  /\ LET i == Min(saver.todo)
     IN  /\ database = "postgres" => case[i] # Null
         /\ embedding' = [embedding EXCEPT ![i] = saver.text]
         /\ saver' = [saver EXCEPT !.at = "storing", !.todo = @ \ {i}, !.text = Null]
  /\ UNCHANGED <<database, births, case, status, reviews, reviewer, reading, history>>

\* Variant: only the first draft of the batch gets a review.
RecordFirst ==
  /\ saver.at = "storing"
  /\ saver.todo = {}
  /\ \A p \in saver.batch : case[p[1]] # Null
  /\ LET first == CHOOSE p \in saver.batch : \A q \in saver.batch : p[2] <= q[2]
     IN  reviews' = Append(reviews, [id |-> first[1], of |-> case[first[1]],
                                     verdict |-> "pending"])
  /\ saver' = NoSave
  /\ UNCHANGED <<database, births, case, status, embedding, reviewer, reading, history>>

\* record_drafts reads every draft again and commits a pending review for each.
RecordDrafts ==
  /\ saver.at = "storing"
  /\ saver.todo = {}
  /\ \A p \in saver.batch : case[p[1]] # Null
  /\ LET review(p) == [id |-> p[1], of |-> case[p[1]], verdict |-> "pending"]
         first == CHOOSE p \in saver.batch : \A q \in saver.batch : p[2] <= q[2]
         rest == {review(p) : p \in saver.batch \ {first}}
     IN  reviews' = reviews \o <<review(first)>> \o
                    (IF rest = {} THEN <<>> ELSE <<CHOOSE v \in rest : TRUE>>)
  /\ saver' = NoSave
  /\ UNCHANGED <<database, births, case, status, embedding, reviewer, reading, history>>

\* A draft of the batch is gone, or the process dies.
SaveBreaks == saver.at # "idle" /\ SaveFails

----------------------------------------------------------------------------
(* review_draft *)

\* Variant: the verdict is not looked at.
OpenAgain(r) ==
  /\ reviewer[r].at = "idle"
  /\ \E k \in 1..Len(reviews), v \in Verdicts :
       /\ reviewer' = [reviewer EXCEPT ![r] =
            [at |-> "opened", review |-> k, verdict |-> v, id |-> reviews[k].id,
             active |-> FALSE]]
       /\ together' = IF \E q \in Reviewers : reviewer[q].review = k
                      THEN together \cup {k} ELSE together
  /\ UNCHANGED <<store, saver, reading, drafted, abandoned, removed, withdrawn,
                 crossed, decided>>

\* The review is loaded; one with a verdict is answered 409.
OpenReview(r) ==
  /\ reviewer[r].at = "idle"
  /\ \E k \in 1..Len(reviews), v \in Verdicts :
       /\ reviews[k].verdict = "pending"
       /\ reviewer' = [reviewer EXCEPT ![r] =
            [at |-> "opened", review |-> k, verdict |-> v, id |-> reviews[k].id,
             active |-> FALSE]]
       /\ together' = IF \E q \in Reviewers : reviewer[q].review = k
                      THEN together \cup {k} ELSE together
  /\ UNCHANGED <<store, saver, reading, drafted, abandoned, removed, withdrawn,
                 crossed, decided>>

Close(r) == reviewer' = [reviewer EXCEPT ![r] = NoRequest]

Exists(i) == i # Null /\ i \in Live

\* The draft is loaded, or it no longer exists and can only be rejected.
LoadDraft(r) ==
  /\ reviewer[r].at = "opened"
  /\ LET i == reviewer[r].id
     IN  IF Exists(i)
         THEN reviewer' = [reviewer EXCEPT ![r].at = "ready",
                                           ![r].active = status[case[i]] = "active"]
         ELSE IF reviewer[r].verdict = "rejected"
         THEN reviewer' = [reviewer EXCEPT ![r].at = "ready", ![r].id = Null]
         ELSE Close(r)
  /\ UNCHANGED <<store, saver, reading, history>>

\* The commit of r has a row to update: an accepted draft that was active when
\* it was loaded needs none.
Updates(r) == reviewer[r].verdict = "edited" \/ ~reviewer[r].active

Judged(r, i) ==
  reviews' = [reviews EXCEPT ![reviewer[r].review].verdict = reviewer[r].verdict,
                             ![reviewer[r].review].id = i]

Decides(r, i) ==
  decided' = IF Exists(i) THEN decided \cup {<<reviewer[r].review, case[i]>>} ELSE decided

\* Accepted or edited: the test case becomes active.
Keep(r) ==
  /\ reviewer[r].at = "ready"
  /\ reviewer[r].verdict \in {"accepted", "edited"}
  /\ LET i == reviewer[r].id
     IN  IF ~Updates(r)
         THEN /\ Judged(r, reviews[reviewer[r].review].id)
              /\ UNCHANGED <<status, decided>>
         ELSE IF Exists(i)
         THEN /\ Judged(r, reviews[reviewer[r].review].id)
              /\ status' = [status EXCEPT ![case[i]] = "active"]
              /\ Decides(r, i)
         ELSE UNCHANGED <<reviews, status, decided>>   \* StaleDataError: 500
  /\ Close(r)
  /\ UNCHANGED <<database, births, case, embedding, saver, reading, drafted, abandoned,
                 removed, withdrawn, together, crossed>>

\* Variant: the verdict is recorded and the draft left alone.
RejectNothing(r) ==
  /\ reviewer[r].at = "ready"
  /\ reviewer[r].verdict = "rejected"
  /\ Judged(r, Null)
  /\ Close(r)
  /\ UNCHANGED <<database, births, case, status, embedding, saver, reading, history>>

\* Rejected: the test case goes, and its embedding with it.
RejectDraft(r) ==
  /\ reviewer[r].at = "ready"
  /\ reviewer[r].verdict = "rejected"
  /\ LET i == reviewer[r].id
     IN  /\ case' = [j \in Ids |-> IF j = i THEN Null ELSE case[j]]
         /\ embedding' = [j \in Ids |-> IF j = i THEN Null ELSE embedding[j]]
         /\ Decides(r, i)
         /\ crossed' = crossed \cup (IF Exists(i) THEN {case[i]} \cap BeingRead ELSE {})
         /\ Judged(r, IF i = Null THEN reviews[reviewer[r].review].id ELSE Null)
  /\ Close(r)
  /\ UNCHANGED <<database, births, status, saver, reading, drafted, abandoned,
                 removed, withdrawn, together>>

\* The request dies before its commit.
ReviewDies(r) ==
  /\ reviewer[r].at # "idle"
  /\ Close(r)
  /\ UNCHANGED <<store, saver, reading, history>>

----------------------------------------------------------------------------
(* The other requests *)

\* create_testcase.
CreateCase ==
  /\ births < MaxBirths
  /\ births' = births + 1
  /\ case' = [case EXCEPT ![NextId] = births + 1]
  /\ status' = [status EXCEPT ![births + 1] = "active"]
  /\ UNCHANGED <<database, embedding, reviews, requests, history>>

\* update_testcase with another status.
SetStatus(i) ==
  /\ i \in Live
  /\ LET b == case[i]
         new == IF status[b] = "draft" THEN "active" ELSE "draft"
     IN  /\ status' = [status EXCEPT ![b] = new]
         /\ withdrawn' = IF new = "draft" THEN withdrawn \cup {b} ELSE withdrawn
  /\ UNCHANGED <<database, births, case, embedding, reviews, requests, drafted,
                 abandoned, removed, together, crossed, decided>>

\* delete_testcase, which knows nothing of embeddings and reviews.
DeleteCase(i) ==
  /\ i \in Live
  /\ ~Refused(i)
  /\ case' = [case EXCEPT ![i] = Null]
  /\ removed' = removed \cup {case[i]}
  /\ crossed' = crossed \cup ({case[i]} \cap BeingRead)
  /\ UNCHANGED <<database, births, status, embedding, reviews, requests, drafted,
                 abandoned, withdrawn, together, decided>>

Missing == {<<i, case[i]>> : i \in {j \in Live : embedding[j] = Null}}

\* nearest_test_cases finds test cases without an embedding ...
ReadMissing ==
  /\ reading = {}
  /\ Missing # {}
  /\ reading' = Missing
  /\ UNCHANGED <<store, saver, reviewer, history>>

\* ... and commits theirs, all or none: an embedding somebody stored meanwhile
\* violates the unique key, a deleted test case the foreign key.
Backfill ==
  /\ reading # {}
  /\ reading' = {}
  /\ embedding' =
       IF \A p \in reading :
            embedding[p[1]] = Null /\ (database = "postgres" => case[p[1]] # Null)
       THEN [i \in Ids |-> IF \E p \in reading : p[1] = i
                           THEN (CHOOSE p \in reading : p[1] = i)[2] ELSE embedding[i]]
       ELSE embedding
  /\ UNCHANGED <<database, births, case, status, reviews, saver, reviewer, history>>

Save == SaveDrafts \/ RefreshDraft \/ StoreEmbedding \/ RecordDrafts \/ SaveBreaks

Review(r) == OpenReview(r) \/ LoadDraft(r) \/ Keep(r) \/ RejectDraft(r) \/ ReviewDies(r)

ReviewNext ==
  \/ Save
  \/ \E r \in Reviewers : Review(r)
  \/ CreateCase \/ ReadMissing \/ Backfill
  \/ \E i \in Ids : SetStatus(i) \/ DeleteCase(i)

ReviewSpec == ReviewInit /\ [][ReviewNext]_reviewVars

----------------------------------------------------------------------------
(* What is checked *)

Stages == {"idle", "opened", "ready"}

ReviewTypeOK ==
  /\ database \in Databases
  /\ births \in 0..MaxBirths
  /\ case \in [Ids -> 0..births]
  /\ status \in [Births -> {"none", "draft", "active"}]
  /\ embedding \in [Ids -> 0..births]
  /\ reviews \in Seq([id : Ids \cup {Null}, of : Births,
                      verdict : Verdicts \cup {"pending"}])
  /\ saver \in [at : {"idle", "storing", "embedding"}, todo : SUBSET Ids,
                batch : SUBSET (Ids \X Births), text : 0..births]
  /\ saver.todo \subseteq {p[1] : p \in saver.batch}
  /\ (saver.text # Null) <=> (saver.at = "embedding")
  /\ reviewer \in [Reviewers ->
       [at : Stages, review : 0..Len(reviews), verdict : Verdicts,
        id : Ids \cup {Null}, active : BOOLEAN]]
  /\ reading \subseteq Ids \X (1..births)
  /\ UNION {drafted, abandoned, removed, withdrawn, crossed} \subseteq Births
  /\ together \subseteq 1..Len(reviews)
  /\ decided \subseteq (1..Len(reviews)) \X Births

\* A verdict stands: only a reviewer who had the review open while another had
\* may replace it.
VerdictStands ==
  [][\A k \in 1..Len(reviews) :
       reviews[k].verdict # "pending" =>
         reviews'[k].verdict = reviews[k].verdict \/ k \in together]_reviewVars

\* A review that changed the test case of another one.
DecidedElsewhere(b) == \E d \in decided : d[2] = b /\ reviews[d[1]].of # b

\* The suite follows the verdict (review_draft): a rejected draft is gone, a
\* kept one is an active test case until an admin withdraws it.  Excused are two
\* reviewers at it together, a draft that delete_testcase deleted, and one that a
\* review of a deleted test case with the same id reached first (SQLite).
SuiteFollowsVerdict ==
  \A k \in 1..Len(reviews) :
    LET b == reviews[k].of IN
      k \in together \/ b \in removed \/ DecidedElsewhere(b) \/
        CASE reviews[k].verdict = "rejected" -> b \notin LiveBirths
          [] reviews[k].verdict \in {"accepted", "edited"} ->
               b \in LiveBirths /\ (status[b] = "active" \/ b \in withdrawn)
          [] OTHER -> b \in LiveBirths

\* A draft that is in the suite has a review, is about to get one, or its save
\* broke off: no draft is out of the reviewers' reach otherwise.
EveryDraftReviewable ==
  \A b \in drafted \cap LiveBirths :
    \/ \E k \in 1..Len(reviews) : reviews[k].of = b
    \/ b \in Unreviewed \cup abandoned

\* No embedding outlives its test case, so a rejected draft cannot count as
\* covered, unless delete_testcase left the row behind or the test case went
\* between being read and its embedding being stored (retrieval.py).
EmbeddingsOfTheLiving ==
  \A i \in Ids :
    embedding[i] # Null =>
      case[i] = embedding[i] \/ embedding[i] \in removed \cup crossed

\* A verdict takes effect on the suite and on what counts as covered in it
\* (review_draft, nearest_test_cases).
VerdictsTakeEffect == SuiteFollowsVerdict /\ EmbeddingsOfTheLiving

==============================================================================
