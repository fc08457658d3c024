------------------------ MODULE ResultUpdatesProofs ------------------------
(***************************************************************************)
(* Proofs about ResultUpdates, for any cases, users and number of updates, *)
(* and about the RunPage that shows what they wrote, for any rows and      *)
(* updates.                                                                *)
(***************************************************************************)
EXTENDS ResultUpdates, RunPage, FiniteSetTheorems, TLAPS

Reading(u) == at[u] \in {"loaded", "runRead", "judged"}
Committed(u) == at[u] \in {"committed", "refreshed", "counting"}

\* The status of the case as the update leaves it in its own session.
InSession(u, c) == IF c = target[u] THEN wanted[u] ELSE status[c]

\* What an update has read still holds until somebody commits.
Fresh(u) ==
  /\ began[u] <= version
  /\ Reading(u) /\ began[u] = version =>
       /\ seen[u] = status[target[u]]
       /\ at[u] # "loaded" => sawDone[u] = (completed > 0)
       /\ at[u] = "judged" => judged[u] = \A c \in Cases : InSession(u, c) # "pending"

ReadsAreFresh == \A u \in Users : Fresh(u)

\* Unless a result is set back, a row read as done stays done, and so does a
\* run judged complete, through the commits of others and its own.
Stands(u) ==
  /\ Reading(u) /\ seen[u] # "pending" => status[target[u]] # "pending"
  /\ judged[u] /\ at[u] = "judged" => \A c \in Cases : InSession(u, c) # "pending"
  /\ judged[u] /\ Committed(u) => AllDone
  /\ judged[u] /\ at[u] \in {"refreshed", "counting"} => seen[u] # "pending"
  /\ \A c \in Cases : tally[u][c] # "pending"

JudgementsStand == ~reopened => \A u \in Users : Stands(u)

\* Only an update that judged the run complete counts its rows.
CountersJudged == \A u \in Users : at[u] = "counting" => judged[u]

(* Type correctness *)

LEMMA TypeInit == Init => TypeOK
<1> SUFFICES ASSUME Init PROVE TypeOK
  OBVIOUS
<1>1. tally \in [Users -> [Cases -> Statuses \cup {Unread}]]
  BY DEF Init, Uncounted
<1>2. at \in [Users -> Steps] /\ status \in [Cases -> Statuses]
  BY DEF Init, Steps, Statuses
<1>3. wanted \in [Users -> Statuses] /\ seen \in [Users -> Statuses]
  BY DEF Init, Statuses
<1> QED BY <1>1, <1>2, <1>3 DEF Init, TypeOK

\* What a request leaves behind when it is over has the right types.
LEMMA TypeLeave ==
  ASSUME TypeOK, NEW u \in Users, Leave(u)
  PROVE  /\ at' \in [Users -> Steps]
         /\ target' \in [Users -> Cases \cup {NoCase}]
         /\ \A v \in Users : at'[v] = "idle" <=> target'[v] = NoCase
         /\ wanted' \in [Users -> Statuses]
         /\ seen' \in [Users -> Statuses]
         /\ began' \in [Users -> Nat]
         /\ sawDone' \in [Users -> BOOLEAN]
         /\ judged' \in [Users -> BOOLEAN]
         /\ tally' \in [Users -> [Cases -> Statuses \cup {Unread}]]
BY DEF TypeOK, Leave, Goto, Steps, Statuses, Uncounted, Unread

LEMMA TargetIsCase ==
  ASSUME TypeOK, NEW u \in Users, at[u] # "idle"
  PROVE  target[u] \in Cases
BY DEF TypeOK

LEMMA CountIsNat ==
  ASSUME NEW u, NEW s
  PROVE  Count(u, s) \in Nat
<1>1. {c \in Cases : tally[u][c] = s} \in SUBSET Cases
  OBVIOUS
<1>2. IsFiniteSet({c \in Cases : tally[u][c] = s})
  BY <1>1, UpdatesAssumption, FS_Subset
<1> QED BY <1>2, FS_CardinalityType DEF Count

LEMMA TypeAfterAlert ==
  ASSUME TypeOK, NEW u \in Users, at[u] = "refreshed", AfterAlert(u)
  PROVE  /\ at' \in [Users -> Steps]
         /\ target' \in [Users -> Cases \cup {NoCase}]
         /\ \A v \in Users : at'[v] = "idle" <=> target'[v] = NoCase
         /\ wanted' \in [Users -> Statuses]
         /\ seen' \in [Users -> Statuses]
         /\ began' \in [Users -> Nat]
         /\ sawDone' \in [Users -> BOOLEAN]
         /\ judged' \in [Users -> BOOLEAN]
         /\ tally' \in [Users -> [Cases -> Statuses \cup {Unread}]]
<1>1. CASE ~judged[u]
  BY <1>1, TypeLeave DEF AfterAlert
<1>2. CASE judged[u]
  <2>1. at' = [at EXCEPT ![u] = "counting"]
        /\ tally' = [tally EXCEPT ![u][target[u]] = seen[u]]
        /\ UNCHANGED <<target, wanted, seen, began, sawDone, judged>>
    BY <1>2 DEF AfterAlert, Goto
  <2>2. tally' \in [Users -> [Cases -> Statuses \cup {Unread}]]
    BY <2>1 DEF TypeOK
  <2>3. /\ at' \in [Users -> Steps]
        /\ \A v \in Users : at'[v] = "idle" <=> target'[v] = NoCase
    BY <2>1 DEF TypeOK, Steps
  <2> QED BY <2>1, <2>2, <2>3 DEF TypeOK
<1> QED BY <1>1, <1>2

LEMMA TypeStep == TypeOK /\ [Next]_vars => TypeOK'
<1> SUFFICES ASSUME TypeOK, [Next]_vars PROVE TypeOK'
  OBVIOUS
<1> USE UpdatesAssumption DEF localVars, database, published
<1>1. ASSUME NEW u \in Users, Load(u) PROVE TypeOK'
  BY <1>1 DEF Load, Goto, TypeOK, Steps
<1>2. ASSUME NEW u \in Users, ReadRun(u) PROVE TypeOK'
  BY <1>2 DEF ReadRun, Goto, TypeOK, Steps
<1>3. ASSUME NEW u \in Users, Judge(u) PROVE TypeOK'
  BY <1>3 DEF Judge, Goto, TypeOK, Steps
<1>4. ASSUME NEW u \in Users, Commit(u) PROVE TypeOK'
  <2>1. target[u] \in Cases
    BY <1>4, TargetIsCase DEF Commit
  <2>2. status' \in [Cases -> Statuses]
    BY <1>4, <2>1 DEF Commit, TypeOK
  <2>3. version' \in Nat /\ completed' \in Nat
    BY <1>4 DEF Commit, TypeOK
  <2>4. stale' \in BOOLEAN /\ reopened' \in BOOLEAN
    BY <1>4, Zenon DEF Commit, TypeOK
  <2> QED BY <1>4, <2>2, <2>3, <2>4 DEF Commit, Goto, TypeOK, Steps
<1>5. ASSUME NEW u \in Users, Refresh(u) PROVE TypeOK'
  <2>1. CASE edition = "monolith"
    BY <1>5, <2>1, TypeLeave DEF Refresh, TypeOK
  <2>2. CASE edition # "monolith"
    <3>1. target[u] \in Cases
      BY <1>5, TargetIsCase DEF Refresh
    <3>2. /\ at' = [at EXCEPT ![u] = "refreshed"]
          /\ seen' = [seen EXCEPT ![u] = status[target[u]]]
          /\ UNCHANGED <<target, wanted, began, sawDone, judged, tally>>
      BY <1>5, <2>2 DEF Refresh, Goto
    <3>3. seen' \in [Users -> Statuses]
      BY <3>1, <3>2 DEF TypeOK
    <3>4. /\ at' \in [Users -> Steps]
          /\ \A v \in Users : at'[v] = "idle" <=> target'[v] = NoCase
      BY <1>5, <3>2 DEF TypeOK, Steps, Refresh
    <3> QED BY <1>5, <3>2, <3>3, <3>4 DEF Refresh, TypeOK
  <2> QED BY <2>1, <2>2
<1>6. ASSUME NEW u \in Users, Alert(u) PROVE TypeOK'
  <2>1. target[u] \in Cases
    BY <1>6, TargetIsCase DEF Alert
  <2> QED BY <1>6, <2>1, TypeAfterAlert DEF Alert, TypeOK
<1>7. ASSUME NEW u \in Users, AlertFails(u) PROVE TypeOK'
  <2>1. target[u] \in Cases
    BY <1>7, TargetIsCase DEF AlertFails
  <2> QED BY <1>7, <2>1, TypeAfterAlert DEF AlertFails, TypeOK
<1>8. ASSUME NEW u \in Users, CountRow(u) PROVE TypeOK'
  BY <1>8 DEF CountRow, TypeOK
<1>9. ASSUME NEW u \in Users, PublishCompleted(u) PROVE TypeOK'
  <2>1. [s \in Verdicts |-> Count(u, s)] \in [Verdicts -> Nat]
    BY CountIsNat
  <2> QED BY <1>9, <2>1, TypeLeave DEF PublishCompleted, TypeOK
<1>10. ASSUME NEW u \in Users, Dies(u) PROVE TypeOK'
  <2>1. target[u] \in Cases
    BY <1>10, TargetIsCase DEF Dies
  <2> QED BY <1>10, <2>1, TypeLeave DEF Dies, TypeOK
<1>11. CASE UNCHANGED vars
  BY <1>11 DEF vars, TypeOK
<1> QED BY <1>1, <1>2, <1>3, <1>4, <1>5, <1>6, <1>7, <1>8, <1>9, <1>10, <1>11
        DEF Next, UpdateStep

\* Result updates keep every variable in its type.
THEOREM TypeCorrect == Spec => []TypeOK
BY TypeInit, TypeStep, PTL DEF Spec

-----------------------------------------------------------------------------
(* What an update has read, and the completion of the run *)

\* An update that is somebody else's leaves a user's session alone.
LEMMA SessionFrame ==
  ASSUME TypeOK, NEW u \in Users, NEW v \in Users \ {u},
         UpdateStep(u) \/ AlertFails(u) \/ Dies(u)
  PROVE  /\ at'[v] = at[v] /\ target'[v] = target[v] /\ wanted'[v] = wanted[v]
         /\ seen'[v] = seen[v] /\ began'[v] = began[v] /\ sawDone'[v] = sawDone[v]
         /\ judged'[v] = judged[v] /\ tally'[v] = tally[v]
<1> USE DEF Leave, AfterAlert, Goto, localVars, TypeOK
<1>1. CASE Load(u) \/ ReadRun(u) \/ Judge(u) \/ Commit(u)
  BY <1>1 DEF Load, ReadRun, Judge, Commit
<1>2. CASE Refresh(u)
  BY <1>2 DEF Refresh
<1>3. CASE Alert(u) \/ AlertFails(u)
  BY <1>3 DEF Alert, AlertFails
<1>4. CASE CountRow(u) \/ PublishCompleted(u) \/ Dies(u)
  BY <1>4 DEF CountRow, PublishCompleted, Dies
<1> QED BY <1>1, <1>2, <1>3, <1>4 DEF UpdateStep

\* Only a commit changes what is in the database.
LEMMA DatabaseFrame ==
  ASSUME NEW u \in Users, UpdateStep(u) \/ AlertFails(u) \/ Dies(u), ~Commit(u)
  PROVE  UNCHANGED <<status, completed, version, stale, reopened>>
BY DEF UpdateStep, Load, ReadRun, Judge, Refresh, Alert, AlertFails, CountRow,
       PublishCompleted, Dies, database

\* A finished request is idle and has begun at no commit.
LEMMA LeaveEnds ==
  ASSUME TypeOK, NEW u \in Users, Leave(u)
  PROVE  /\ at'[u] = "idle" /\ began'[u] = 0 /\ ~judged'[u]
         /\ seen'[u] = "pending" /\ tally'[u] = Uncounted
BY DEF Leave, Goto, TypeOK

\* An update that is not reading, or that another has overtaken, has nothing
\* to keep fresh.
LEMMA NothingToKeepFresh ==
  ASSUME NEW v \in Users, began'[v] <= version',
         ~Reading(v)' \/ began'[v] # version'
  PROVE  Fresh(v)'
BY DEF Fresh

LEMMA FreshStep ==
  ASSUME TypeOK, TypeOK', ReadsAreFresh, [Next]_vars
  PROVE  ReadsAreFresh'
<1> SUFFICES ASSUME NEW v \in Users PROVE Fresh(v)'
  BY DEF ReadsAreFresh
<1>1. Fresh(v)
  BY DEF ReadsAreFresh
<1> USE DEF Fresh, Reading, InSession
<1>2. CASE UNCHANGED vars
  BY <1>1, <1>2 DEF vars, localVars, database
<1>3. ASSUME NEW u \in Users, u # v, UpdateStep(u) \/ AlertFails(u) \/ Dies(u)
      PROVE  Fresh(v)'
  <2>1. CASE Commit(u)
    <3>1. began'[v] = began[v] /\ version' = version + 1
      BY <1>3, <2>1, SessionFrame DEF Commit
    <3>2. began[v] \in Nat /\ version \in Nat
      BY DEF TypeOK
    <3>3. began'[v] <= version' /\ began'[v] # version'
      BY <1>1, <3>1, <3>2
    <3> QED BY <3>3, NothingToKeepFresh
  <2>2. CASE ~Commit(u)
    <3>1. UNCHANGED <<status, completed, version>>
      BY <1>3, <2>2, DatabaseFrame
    <3>2. /\ at'[v] = at[v] /\ target'[v] = target[v] /\ wanted'[v] = wanted[v]
          /\ seen'[v] = seen[v] /\ began'[v] = began[v] /\ sawDone'[v] = sawDone[v]
          /\ judged'[v] = judged[v]
      BY <1>3, SessionFrame
    <3> QED BY <1>1, <3>1, <3>2
  <2> QED BY <2>1, <2>2
<1>4. CASE Load(v)
  BY <1>4 DEF Load, Goto, TypeOK, database
<1>5. CASE ReadRun(v)
  BY <1>1, <1>5 DEF ReadRun, Goto, TypeOK, database
<1>6. CASE Judge(v)
  <2>1. judged'[v] = \A c \in Cases : InSession(v, c) # "pending"
    BY <1>6 DEF Judge, TypeOK
  <2>2. \A c \in Cases : InSession(v, c)' = InSession(v, c)
    BY <1>6 DEF Judge, database
  <2> QED BY <1>1, <1>6, <2>1, <2>2 DEF Judge, Goto, TypeOK, database
<1>7. CASE Commit(v)
  BY <1>1, <1>7 DEF Commit, Goto, TypeOK, localVars
<1>8. CASE Refresh(v)
  <2>1. version' = version
    BY <1>8 DEF Refresh, database
  <2>2. at'[v] \in {"idle", "refreshed"} /\ began'[v] \in {0, began[v]}
    BY <1>8 DEF Refresh, Leave, Goto, TypeOK
  <2>3. began[v] \in Nat /\ version \in Nat
    BY DEF TypeOK
  <2>4. began'[v] <= version' /\ ~Reading(v)'
    BY <1>1, <2>1, <2>2, <2>3
  <2> QED BY <2>4, NothingToKeepFresh
<1>9. CASE Alert(v) \/ AlertFails(v)
  <2>1. version' = version
    BY <1>9 DEF Alert, AlertFails, database
  <2>2. at'[v] \in {"idle", "counting"} /\ began'[v] \in {0, began[v]}
    BY <1>9 DEF Alert, AlertFails, AfterAlert, Leave, Goto, TypeOK
  <2>3. began[v] \in Nat /\ version \in Nat
    BY DEF TypeOK
  <2>4. began'[v] <= version' /\ ~Reading(v)'
    BY <1>1, <2>1, <2>2, <2>3
  <2> QED BY <2>4, NothingToKeepFresh
<1>10. CASE CountRow(v)
  BY <1>1, <1>10 DEF CountRow, database
<1>11. CASE PublishCompleted(v) \/ Dies(v)
  <2>1. version' = version
    BY <1>11 DEF PublishCompleted, Dies, database
  <2>2. at'[v] = "idle" /\ began'[v] = 0
    BY <1>11, LeaveEnds DEF PublishCompleted, Dies
  <2>3. began'[v] <= version' /\ ~Reading(v)'
    BY <2>1, <2>2 DEF TypeOK
  <2> QED BY <2>3, NothingToKeepFresh
<1> QED BY <1>2, <1>3, <1>4, <1>5, <1>6, <1>7, <1>8, <1>9, <1>10, <1>11
        DEF Next, UpdateStep

\* A commit that saw every earlier one writes what it judged.
LEMMA FreshCommit ==
  ASSUME TypeOK, ReadsAreFresh, NEW u \in Users, Commit(u), ~stale'
  PROVE  /\ ~stale
         /\ judged[u] <=> AllDone'
         /\ sawDone[u] <=> completed > 0
<1>1. ~stale /\ began[u] = version
  BY Zenon DEF Commit
<1>2. at[u] = "judged" /\ target[u] \in Cases
  BY TargetIsCase DEF Commit
<1>3. /\ seen[u] = status[target[u]]
      /\ sawDone[u] = (completed > 0)
      /\ judged[u] = \A c \in Cases : InSession(u, c) # "pending"
  BY <1>1, <1>2 DEF ReadsAreFresh, Fresh, Reading
<1>4. \A c \in Cases : status'[c] = InSession(u, c)
  BY <1>2, <1>3 DEF Commit, TypeOK, InSession
<1> QED BY <1>1, <1>3, <1>4 DEF AllDone

Completion == CompletionMissedOnlyIfStale /\ CompletedRunIsDone /\ CompletedOnce

LEMMA CompletionCommit ==
  ASSUME TypeOK, ReadsAreFresh, Completion, NEW u \in Users, Commit(u)
  PROVE  Completion'
<1> USE DEF Completion, CompletionMissedOnlyIfStale, CompletedRunIsDone, CompletedOnce
<1>1. CASE stale'
  BY <1>1
<1>2. CASE ~stale'
  <2>1. ~stale /\ (judged[u] <=> AllDone') /\ (sawDone[u] <=> completed > 0)
    BY <1>2, FreshCommit
  <2>2. /\ completed \in Nat /\ edition' = edition
        /\ completed' = IF StampsCompletion(u) THEN completed + 1 ELSE completed
    BY DEF Commit, TypeOK
  <2>3. AllDone' => completed' > 0
    BY <2>1, <2>2 DEF StampsCompletion
  <2>4. completed' > 0 => AllDone' \/ reopened'
    <3>1. CASE StampsCompletion(u)
      BY <2>1, <3>1 DEF StampsCompletion
    <3>2. CASE ~StampsCompletion(u) /\ completed > 0
      <4>1. AllDone \/ reopened
        BY <2>1, <3>2
      <4>2. reopened => reopened'
        BY Zenon DEF Commit
      <4>3. ASSUME AllDone, NEW c \in Cases, status'[c] = "pending"
            PROVE  reopened'
        BY <4>3, Zenon DEF AllDone, Commit
      <4> QED BY <4>1, <4>2, <4>3 DEF AllDone
    <3> QED BY <2>2, <3>1, <3>2
  <2>5. edition' = "services" => completed' <= 1
    BY <2>1, <2>2 DEF StampsCompletion
  <2> QED BY <2>3, <2>4, <2>5
<1> QED BY <1>1, <1>2

LEMMA CompletionStep ==
  ASSUME TypeOK, ReadsAreFresh, Completion, [Next]_vars
  PROVE  Completion'
<1>1. CASE \E u \in Users : Commit(u)
  BY <1>1, CompletionCommit
<1>2. CASE ~\E u \in Users : Commit(u)
  <2>1. UNCHANGED <<edition, status, completed, stale, reopened>>
    <3>1. CASE Next
      <4>1. PICK u \in Users : UpdateStep(u) \/ AlertFails(u) \/ Dies(u)
        BY <3>1 DEF Next
      <4>2. UNCHANGED <<status, completed, version, stale, reopened>>
        BY <1>2, <4>1, DatabaseFrame
      <4>3. UNCHANGED edition
        BY <1>2, <4>1 DEF UpdateStep, Load, ReadRun, Judge, Refresh, Alert, AlertFails,
                          CountRow, PublishCompleted, Dies
      <4> QED BY <4>2, <4>3
    <3>2. CASE UNCHANGED vars
      BY <3>2 DEF vars, database
    <3> QED BY <3>1, <3>2
  <2> QED BY <2>1 DEF Completion, CompletionMissedOnlyIfStale, CompletedRunIsDone,
                      CompletedOnce, AllDone
<1> QED BY <1>1, <1>2

-----------------------------------------------------------------------------
(* What is published *)

\* The next two lemmas follow a request from its commit to its end.
LEMMA ReportedStep ==
  ASSUME TypeOK, FailureReported, [Next]_vars
  PROVE  FailureReported'
<1> SUFFICES ASSUME edition' = "services", NEW c \in Cases, status'[c] = "fail"
             PROVE  c \in (alerted \cup unsent)' \/ \E v \in Users : WillAlert(v, c)'
  BY DEF FailureReported
<1> USE DEF WillAlert
<1>1. CASE UNCHANGED vars
  BY <1>1 DEF vars, localVars, database, published, FailureReported
<1>2. ASSUME NEW u \in Users, Commit(u)
      PROVE  c \in (alerted \cup unsent)' \/ \E v \in Users : WillAlert(v, c)'
  <2>1. CASE target[u] = c
    BY <1>2, <2>1 DEF Commit, Goto, TypeOK, localVars
  <2>2. CASE target[u] # c
    <3>1. status[c] = "fail" /\ edition = "services"
      BY <1>2, <2>2 DEF Commit, TypeOK
    <3>2. c \in alerted \cup unsent \/ \E v \in Users : WillAlert(v, c)
      BY <3>1 DEF FailureReported
    <3> QED BY <1>2, <2>2, <3>2 DEF Commit, Goto, TypeOK, localVars, published
  <2> QED BY <2>1, <2>2
<1>3. ASSUME NEW u \in Users, UpdateStep(u) \/ AlertFails(u) \/ Dies(u), ~Commit(u)
      PROVE  c \in (alerted \cup unsent)' \/ \E v \in Users : WillAlert(v, c)'
  <2>1. status[c] = "fail" /\ status' = status
    BY <1>3, DatabaseFrame
  <2>2. edition = "services" /\ alerted \subseteq alerted' /\ unsent \subseteq unsent'
    BY <1>3 DEF UpdateStep, Load, ReadRun, Judge, Refresh, Alert, AlertFails,
                CountRow, PublishCompleted, Dies, published
  <2>3. CASE c \in alerted \cup unsent
    BY <2>2, <2>3
  <2>4. CASE \E v \in Users : WillAlert(v, c)
    <3>1. PICK v \in Users : WillAlert(v, c)
      BY <2>4
    <3>2. CASE u # v
      BY <1>3, <3>1, <3>2, SessionFrame
    <3>3. CASE u = v /\ Refresh(u)
      BY <2>1, <2>2, <3>1, <3>3 DEF Refresh, Goto, TypeOK
    <3>4. CASE u = v /\ (Alert(u) \/ AlertFails(u) \/ Dies(u))
      BY <3>1, <3>4 DEF Alert, AlertFails, Dies
    <3>5. CASE u = v /\ ~(Refresh(u) \/ Alert(u) \/ AlertFails(u) \/ Dies(u))
      BY <1>3, <3>1, <3>5 DEF UpdateStep, Load, ReadRun, Judge, CountRow, PublishCompleted
    <3> QED BY <3>2, <3>3, <3>4, <3>5
  <2> QED BY <2>1, <2>2, <2>3, <2>4 DEF FailureReported
<1> QED BY <1>1, <1>2, <1>3 DEF Next, UpdateStep

\* Still to publish that the run is complete.
WillPublish(u) == judged[u] /\ Committed(u)

LEMMA PublishedStep ==
  ASSUME TypeOK, CompletionPublished, [Next]_vars
  PROVE  CompletionPublished'
<1> SUFFICES ASSUME edition' = "services", completed' > 0
             PROVE  (events # {} \/ unsent # {})' \/ \E v \in Users : WillPublish(v)'
  BY DEF CompletionPublished, WillPublish, Committed
<1> USE DEF WillPublish, Committed
<1>1. CASE UNCHANGED vars
  BY <1>1 DEF vars, localVars, database, published, CompletionPublished
<1>2. ASSUME NEW u \in Users, Commit(u)
      PROVE  (events # {} \/ unsent # {})' \/ \E v \in Users : WillPublish(v)'
  <2>1. CASE StampsCompletion(u)
    BY <1>2, <2>1 DEF StampsCompletion, Commit, Goto, TypeOK, localVars
  <2>2. CASE ~StampsCompletion(u)
    <3>1. completed > 0 /\ edition = "services"
      BY <1>2, <2>2 DEF Commit
    <3>2. events # {} \/ unsent # {} \/ \E v \in Users : WillPublish(v)
      BY <3>1 DEF CompletionPublished
    <3> QED BY <1>2, <3>2 DEF Commit, Goto, TypeOK, localVars, published
  <2> QED BY <2>1, <2>2
<1>3. ASSUME NEW u \in Users, UpdateStep(u) \/ AlertFails(u) \/ Dies(u), ~Commit(u)
      PROVE  (events # {} \/ unsent # {})' \/ \E v \in Users : WillPublish(v)'
  <2>1. completed' = completed
    BY <1>3, DatabaseFrame
  <2>2. edition = "services" /\ events \subseteq events' /\ unsent \subseteq unsent'
    BY <1>3 DEF UpdateStep, Load, ReadRun, Judge, Refresh, Alert, AlertFails,
                CountRow, PublishCompleted, Dies, published
  <2>3. CASE events # {} \/ unsent # {}
    BY <2>2, <2>3
  <2>4. CASE \E v \in Users : WillPublish(v)
    <3>1. PICK v \in Users : WillPublish(v)
      BY <2>4
    <3>2. CASE u # v
      BY <1>3, <3>1, <3>2, SessionFrame
    <3>3. CASE u = v /\ Refresh(u)
      BY <2>2, <3>1, <3>3 DEF Refresh, Goto, TypeOK
    <3>4. CASE u = v /\ Alert(u)
      BY <3>1, <3>4 DEF Alert, AfterAlert, Goto, TypeOK
    <3>5. CASE u = v /\ (AlertFails(u) \/ PublishCompleted(u) \/ Dies(u))
      BY <3>1, <3>5 DEF AlertFails, PublishCompleted, Dies
    <3>6. CASE u = v /\ CountRow(u)
      BY <3>1, <3>6 DEF CountRow
    <3>7. CASE u = v /\ (Load(u) \/ ReadRun(u) \/ Judge(u))
      BY <3>1, <3>7 DEF Load, ReadRun, Judge
    <3> QED BY <1>3, <3>2, <3>3, <3>4, <3>5, <3>6, <3>7 DEF UpdateStep
  <2> QED BY <2>1, <2>2, <2>3, <2>4 DEF CompletionPublished
<1> QED BY <1>1, <1>2, <1>3 DEF Next, UpdateStep

-----------------------------------------------------------------------------
(* The counts of a completed run *)

\* A commit that sets no result back leaves every recorded result recorded.
LEMMA StaysDone ==
  ASSUME [Next]_vars, ~reopened'
  PROVE  /\ ~reopened
         /\ \A c \in Cases : status[c] # "pending" => status'[c] # "pending"
<1>1. CASE \E u \in Users : Commit(u)
  BY <1>1, Zenon DEF Commit
<1>2. CASE ~\E u \in Users : Commit(u)
  <2>1. CASE UNCHANGED vars
    BY <2>1 DEF vars, database
  <2>2. ASSUME NEW u \in Users, UpdateStep(u) \/ AlertFails(u) \/ Dies(u)
        PROVE  UNCHANGED <<status, reopened>>
    BY <1>2, <2>2, DatabaseFrame
  <2> QED BY <2>1, <2>2 DEF Next
<1> QED BY <1>1, <1>2

LEMMA CountersStep ==
  ASSUME TypeOK, CountersJudged, [Next]_vars
  PROVE  CountersJudged'
<1> SUFFICES ASSUME NEW v \in Users, at'[v] = "counting" PROVE judged'[v]
  BY DEF CountersJudged
<1> USE DEF CountersJudged, Goto, TypeOK
<1>1. CASE UNCHANGED vars
  BY <1>1 DEF vars, localVars
<1>2. ASSUME NEW u \in Users, u # v, UpdateStep(u) \/ AlertFails(u) \/ Dies(u)
      PROVE  judged'[v]
  BY <1>2, SessionFrame
<1>3. CASE Load(v) \/ ReadRun(v) \/ Judge(v) \/ Commit(v)
  BY <1>3 DEF Load, ReadRun, Judge, Commit
<1>4. CASE Refresh(v)
  BY <1>4 DEF Refresh, Leave
<1>5. CASE Alert(v) \/ AlertFails(v)
  BY <1>5 DEF Alert, AlertFails, AfterAlert, Leave
<1>6. CASE CountRow(v)
  BY <1>6 DEF CountRow
<1>7. CASE PublishCompleted(v) \/ Dies(v)
  BY <1>7, LeaveEnds DEF PublishCompleted, Dies
<1> QED BY <1>1, <1>2, <1>3, <1>4, <1>5, <1>6, <1>7 DEF Next, UpdateStep

LEMMA JudgementsStep ==
  ASSUME TypeOK, TypeOK', CountersJudged, JudgementsStand, [Next]_vars
  PROVE  JudgementsStand'
<1> SUFFICES ASSUME ~reopened', NEW v \in Users PROVE Stands(v)'
  BY DEF JudgementsStand
<1>1. Stands(v)
  BY StaysDone DEF JudgementsStand
<1>2. \A c \in Cases : status[c] # "pending" => status'[c] # "pending"
  BY StaysDone
<1>3. target[v] \in Cases \/ at[v] = "idle"
  BY TargetIsCase
<1>4. \A c \in Cases : tally[v][c] # "pending"
  BY <1>1 DEF Stands
<1> USE DEF Reading, Committed
<1>5. CASE UNCHANGED vars
  BY <1>1, <1>5 DEF vars, localVars, database, Stands, InSession, AllDone
<1>6. ASSUME NEW u \in Users, u # v, UpdateStep(u) \/ AlertFails(u) \/ Dies(u)
      PROVE  Stands(v)'
  <2>1. /\ at'[v] = at[v] /\ target'[v] = target[v] /\ wanted'[v] = wanted[v]
        /\ seen'[v] = seen[v] /\ judged'[v] = judged[v] /\ tally'[v] = tally[v]
    BY <1>6, SessionFrame
  <2> QED BY <1>1, <1>2, <1>3, <2>1 DEF Stands, InSession, AllDone
<1>7. CASE Load(v)
  <2>1. at'[v] = "loaded" /\ status' = status /\ tally' = tally
        /\ seen'[v] = status[target'[v]]
    BY <1>7 DEF Load, Goto, TypeOK, database
  <2> QED BY <1>4, <2>1 DEF Stands
<1>8. CASE ReadRun(v)
  <2>1. at'[v] = "runRead" /\ UNCHANGED <<status, tally, seen, target>> /\ at[v] = "loaded"
    BY <1>8 DEF ReadRun, Goto, TypeOK, database
  <2> QED BY <1>1, <2>1 DEF Stands
<1>9. CASE Judge(v)
  <2>1. at'[v] = "judged" /\ UNCHANGED <<status, tally, seen, target, wanted>>
        /\ at[v] = "runRead"
    BY <1>9 DEF Judge, Goto, TypeOK, database
  <2>2. judged'[v] = \A c \in Cases : InSession(v, c) # "pending"
    BY <1>9 DEF Judge, TypeOK, InSession
  <2> QED BY <1>1, <2>1, <2>2 DEF Stands, InSession
<1>10. CASE Commit(v)
  <2>1. at'[v] = "committed" /\ at[v] = "judged" /\ UNCHANGED <<judged, tally>>
    BY <1>10 DEF Commit, Goto, TypeOK, localVars
  <2>2. ASSUME judged[v] PROVE AllDone'
    <3>1. \A c \in Cases : InSession(v, c) # "pending"
      BY <1>1, <2>1, <2>2 DEF Stands
    <3>2. seen[v] # "pending" => status[target[v]] # "pending"
      BY <1>1, <2>1 DEF Stands
    <3> QED BY <1>3, <1>10, <2>1, <3>1, <3>2 DEF AllDone, InSession, Commit, TypeOK
  <2> QED BY <1>4, <2>1, <2>2 DEF Stands
<1>11. ASSUME Leave(v) PROVE Stands(v)'
  BY <1>11, LeaveEnds DEF Stands, Uncounted, Unread
<1>12. CASE Refresh(v) /\ ~Leave(v)
  <2>1. /\ at'[v] = "refreshed" /\ at[v] = "committed" /\ target[v] \in Cases
        /\ seen'[v] = status[target[v]]
        /\ UNCHANGED <<status, judged, tally>>
    BY <1>3, <1>12 DEF Refresh, Goto, TypeOK, database
  <2>2. judged[v] => AllDone /\ seen'[v] # "pending"
    BY <1>1, <2>1 DEF Stands, AllDone
  <2> QED BY <1>4, <2>1, <2>2 DEF Stands, AllDone
<1>13. CASE (Alert(v) \/ AlertFails(v)) /\ ~Leave(v)
  <2>1. /\ at[v] = "refreshed" /\ judged[v] /\ status' = status
        /\ at' = [at EXCEPT ![v] = "counting"]
        /\ tally' = [tally EXCEPT ![v][target[v]] = seen[v]]
        /\ UNCHANGED <<seen, judged>>
    BY <1>13 DEF Alert, AlertFails, AfterAlert, Goto, database
  <2>2. AllDone /\ seen[v] # "pending"
    BY <1>1, <2>1 DEF Stands
  <2>3. \A c \in Cases : tally'[v][c] # "pending"
    BY <1>4, <2>1, <2>2 DEF TypeOK
  <2>4. at'[v] = "counting"
    BY <2>1 DEF TypeOK
  <2> QED BY <2>1, <2>2, <2>3, <2>4 DEF Stands, AllDone
<1>14. CASE CountRow(v)
  <2>1. judged[v] /\ at[v] = "counting" /\ UNCHANGED <<at, seen, judged, status>>
    BY <1>14 DEF CountRow, CountersJudged, database
  <2>2. AllDone /\ seen[v] # "pending"
    BY <1>1, <2>1 DEF Stands
  <2>3. \A c \in Cases : tally'[v][c] # "pending"
    BY <1>4, <1>14, <2>2 DEF CountRow, AllDone, TypeOK
  <2> QED BY <2>1, <2>2, <2>3 DEF Stands, AllDone
<1>15. CASE PublishCompleted(v) \/ Dies(v)
  BY <1>11, <1>15 DEF PublishCompleted, Dies
<1> QED BY <1>5, <1>6, <1>7, <1>8, <1>9, <1>10, <1>11, <1>12, <1>13, <1>14, <1>15
        DEF Next, UpdateStep

\* Rows that all read a verdict are counted once each.
LEMMA VerdictsAddUp ==
  ASSUME NEW u, \A c \in Cases : tally[u][c] \in Verdicts
  PROVE  Count(u, "pass") + Count(u, "fail") + Count(u, "skip") = Cardinality(Cases)
<1> DEFINE P == {c \in Cases : tally[u][c] = "pass"}
           F == {c \in Cases : tally[u][c] = "fail"}
           S == {c \in Cases : tally[u][c] = "skip"}
<1>1. IsFiniteSet(P) /\ IsFiniteSet(F) /\ IsFiniteSet(S)
  BY UpdatesAssumption, FS_Subset
<1>2. P \cap F = {} /\ (P \cup F) \cap S = {} /\ (P \cup F) \cup S = Cases
  BY DEF Verdicts
<1>3. IsFiniteSet(P \cup F) /\ Cardinality(P \cup F) = Cardinality(P) + Cardinality(F)
  <2>1. Cardinality(P \cup F) = Cardinality(P) + Cardinality(F) - Cardinality(P \cap F)
    BY <1>1, FS_Union
  <2>2. Cardinality(P \cap F) = 0
    BY <1>2, FS_EmptySet
  <2>3. Cardinality(P) \in Nat /\ Cardinality(F) \in Nat
    BY <1>1, FS_CardinalityType
  <2> QED BY <1>1, <2>1, <2>2, <2>3, FS_Union
<1>4. Cardinality((P \cup F) \cup S) = Cardinality(P) + Cardinality(F) + Cardinality(S)
  <2>1. Cardinality((P \cup F) \cup S)
          = Cardinality(P \cup F) + Cardinality(S) - Cardinality((P \cup F) \cap S)
    BY <1>1, <1>3, FS_Union
  <2>2. Cardinality((P \cup F) \cap S) = 0
    BY <1>2, FS_EmptySet
  <2>3. Cardinality(P) \in Nat /\ Cardinality(F) \in Nat /\ Cardinality(S) \in Nat
    BY <1>1, FS_CardinalityType
  <2> QED BY <1>3, <2>1, <2>2, <2>3
<1> QED BY <1>2, <1>4 DEF Count

LEMMA CountsStep ==
  ASSUME TypeOK, CountersJudged, JudgementsStand, CountsAddUp, [Next]_vars
  PROVE  CountsAddUp'
<1> SUFFICES ASSUME ~reopened', NEW e \in events'
             PROVE  e["pass"] + e["fail"] + e["skip"] = Cardinality(Cases)
  BY DEF CountsAddUp
<1>1. ~reopened
  BY StaysDone
<1>2. CASE e \in events
  BY <1>1, <1>2 DEF CountsAddUp
<1>3. CASE e \notin events
  <2>1. PICK u \in Users : PublishCompleted(u)
    BY <1>3 DEF Next, UpdateStep, Load, ReadRun, Judge, Commit, Refresh, Alert, AlertFails,
                CountRow, Dies, published, vars
  <2>2. e = [s \in Verdicts |-> Count(u, s)]
    BY <1>3, <2>1 DEF PublishCompleted
  <2>3. \A c \in Cases : tally[u][c] # Unread /\ tally[u][c] # "pending"
    BY <1>1, <2>1 DEF PublishCompleted, JudgementsStand, Stands
  <2>4. \A c \in Cases : tally[u][c] \in Verdicts
    BY <2>3 DEF TypeOK, Statuses
  <2> QED BY <2>2, <2>4, VerdictsAddUp DEF Verdicts
<1> QED BY <1>2, <1>3

-----------------------------------------------------------------------------
(* The inductive invariant and what follows from it *)

IInv ==
  /\ TypeOK
  /\ ReadsAreFresh
  /\ Completion
  /\ FailureReported
  /\ CompletionPublished
  /\ CountersJudged
  /\ JudgementsStand
  /\ CountsAddUp

LEMMA IInvInit == Init => IInv
<1> SUFFICES ASSUME Init PROVE IInv
  OBVIOUS
<1>1. TypeOK
  BY TypeInit
<1>2. ReadsAreFresh /\ CountersJudged
  BY DEF Init, ReadsAreFresh, Fresh, Reading, CountersJudged
<1>3. ~AllDone /\ completed = 0 /\ events = {}
  BY UpdatesAssumption DEF Init, AllDone
<1>4. Completion /\ CompletionPublished /\ CountsAddUp
  BY <1>3 DEF Completion, CompletionMissedOnlyIfStale, CompletedRunIsDone, CompletedOnce,
              CompletionPublished, CountsAddUp
<1>5. FailureReported
  BY DEF Init, FailureReported
<1>6. JudgementsStand
  BY DEF Init, JudgementsStand, Stands, Reading, Committed, Uncounted, Unread
<1> QED BY <1>1, <1>2, <1>4, <1>5, <1>6 DEF IInv

LEMMA IInvStep == IInv /\ [Next]_vars => IInv'
<1> SUFFICES ASSUME IInv, [Next]_vars PROVE IInv'
  OBVIOUS
<1>1. TypeOK' /\ ReadsAreFresh'
  BY TypeStep, FreshStep DEF IInv
<1>2. Completion'
  BY CompletionStep DEF IInv
<1>3. FailureReported' /\ CompletionPublished'
  BY ReportedStep, PublishedStep DEF IInv
<1>4. CountersJudged' /\ JudgementsStand' /\ CountsAddUp'
  BY <1>1, CountersStep, JudgementsStep, CountsStep DEF IInv
<1> QED BY <1>1, <1>2, <1>3, <1>4 DEF IInv

\* What the theorems below are read off.
LEMMA Invariance == Spec => []IInv
BY IInvInit, IInvStep, PTL DEF Spec

\* update_result: the last result recorded without overlap completes the run.
THEOREM MissedOnlyIfStale == Spec => []CompletionMissedOnlyIfStale
<1>1. IInv => CompletionMissedOnlyIfStale
  BY DEF IInv, Completion
<1> QED BY <1>1, Invariance, PTL

\* update_result: without overlap or a result set back, a run that has a
\* completed_at has no pending result.
THEOREM CompletedMeansDone == Spec => []CompletedRunIsDone
<1>1. IInv => CompletedRunIsDone
  BY DEF IInv, Completion
<1> QED BY <1>1, Invariance, PTL

\* services edition: without overlap completed_at is written at most once.
THEOREM StampedOnce == Spec => []CompletedOnce
<1>1. IInv => CompletedOnce
  BY DEF IInv, Completion
<1> QED BY <1>1, Invariance, PTL

\* services edition: a standing failure was alerted, is about to be, or lost
\* its alert to a fault, however the updates overlap.
THEOREM FailuresReported == Spec => []FailureReported
<1>1. IInv => FailureReported
  BY DEF IInv
<1> QED BY <1>1, Invariance, PTL

\* services edition: a completion was published, is about to be, or a fault
\* swallowed a notification, however the updates overlap.
THEOREM CompletionsPublished == Spec => []CompletionPublished
<1>1. IInv => CompletionPublished
  BY DEF IInv
<1> QED BY <1>1, Invariance, PTL

\* The counts of a run.completed event, read row by row while others commit,
\* add up to the size of the run unless a result was set back to pending.
THEOREM PublishedCountsAddUp == Spec => []CountsAddUp
<1>1. IInv => CountsAddUp
  BY DEF IInv
<1> QED BY <1>1, Invariance, PTL

\* The three together: alerts, completions and counts of the services edition.
THEOREM NotificationsAlwaysHold == Spec => []NotificationsHold
<1>1. FailureReported /\ CompletionPublished /\ CountsAddUp => NotificationsHold
  BY DEF NotificationsHold
<1> QED BY <1>1, FailuresReported, CompletionsPublished, PublishedCountsAddUp, PTL

----------------------------------------------------------------------------
(* The run page *)

\* The page renders once, and once more when the population is announced to it; a
\* socket that joined hears "subscribed" before anything else.
RendersInOrder ==
  /\ announced # "no" => populated
  /\ renders = 2 => announced = "sent"
  /\ render[1].at # "none" => page = 0 /\ renders = 1
  /\ render[2].at # "none" => page = 1 /\ renders = 2
  /\ page = 0 => socket = "none" /\ render[1].at # "none"
  /\ socket # "joined" => wire = <<>>
  /\ \A i \in 1..Len(wire) :
       /\ wire[i].type = "subscribed" => i = 1
       /\ wire[i].type = "results_populated" => announced = "sent" /\ renders = 1
  /\ \A i, j \in 1..Len(wire) :
       wire[i].type = "results_populated" /\ wire[j].type = "results_populated" => i = j

\* Rows that a page lacks are announced to it still, or were when it did not hear,
\* or are announced to nobody.
RowsAnnounced ==
  /\ \A n \in Renders :
       render[n].at = "served" /\ populated /\ (\E c \in Rows : render[n].data[c] = Absent) =>
         n = 1 /\ (announced \in {"due", "never"} \/ unheard)
  /\ page # 0 /\ populated /\ (\E c \in Rows : view[c] = Absent) =>
       \/ unheard \/ announced \in {"due", "never"}
       \/ InWire("results_populated") \/ render[2].at # "none"

\* What anybody holds of a row is no later than the database.
NothingAhead ==
  /\ ~populated => \A c \in Rows : db[c] = 0
  /\ \A c \in Rows : latest[c] <= db[c] /\ db[c] <= commits
  /\ \A u \in Updates : carried[u] <= db[updated[u]]
  /\ \A n \in Renders : \A c \in Rows :
       /\ render[n].data[c] # Absent => render[n].data[c] <= db[c]
       /\ catchUp[n].data[c] # Absent => catchUp[n].data[c] <= db[c]
  /\ \A c \in Rows : view[c] # Absent => view[c] <= db[c]

\* The last commit of a row was broadcast or lost, or one or the other is to come.
Awaits(u) ==
  /\ updateAt[u] \in {"committed", "refreshed"} \/ u \in relay
  /\ carried[u] = db[updated[u]]

NewsToCome == \A c \in Rows : db[c] = latest[c] \/ \E u \in Updates : updated[u] = c /\ Awaits(u)

\* The last message about a row on the wire has the latest status of the row, but
\* for one that was lost.
About(i, c) == wire[i].type = "result_updated" /\ wire[i].case = c
OnWire(c) == \E i \in 1..Len(wire) : About(i, c)

WireIsCurrent ==
  \A i \in 1..Len(wire) : wire[i].type = "result_updated" =>
    /\ wire[i].status <= latest[wire[i].case]
    /\ \/ late \/ wire[i].case \in missed \/ wire[i].status = latest[wire[i].case]
       \/ \E j \in i + 1..Len(wire) : About(j, wire[i].case)

\* The page has begun to catch up over its socket.
Listening == socket = "joined" /\ ~InWire("subscribed")

CatchingUp ==
  /\ \A n \in Renders : ~InFlight(n) => catchUp[n].touched = {}
  /\ Listening /\ ~overlapped => \A n \in Renders : InFlight(n) => n = page /\ touching = page

\* A row without news on the wire: the catch-up in flight will show its latest
\* status, unless a live update reached it first; if so, or if none is in flight,
\* the page shows that status.
WillShow(c) ==
  IF InFlight(page) /\ c \notin catchUp[page].touched
  THEN catchUp[page].at = "served" =>
         IF catchUp[page].data[c] = Absent THEN latest[c] = 0
                                           ELSE latest[c] <= catchUp[page].data[c]
  ELSE view[c] # Absent => latest[c] <= view[c]

ShownIsCurrent ==
  Listening /\ ~(late \/ crossed \/ overlapped \/ failed) =>
    \A c \in Rows \ missed : OnWire(c) \/ WillShow(c)

PageInv ==
  /\ PageTypeOK /\ RendersInOrder /\ RowsAnnounced /\ NothingAhead /\ NewsToCome
  /\ WireIsCurrent /\ CatchingUp /\ ShownIsCurrent

RenderRecord == [at : {"none", "asked", "served"}, data : Fetches]
CatchUpRecord == [at : {"none", "asked", "served", "done"}, data : Fetches, touched : SUBSET Rows]

LEMMA WireFields ==
  ASSUME PageTypeOK
  PROVE  /\ Len(wire) \in Nat
         /\ \A i \in 1..Len(wire) :
              /\ wire[i] \in Messages
              /\ wire[i].type = "result_updated" => wire[i].case \in Rows /\ wire[i].status \in Nat
<1>1. wire \in Seq(Messages)
  BY DEF PageTypeOK
<1>2. \A m \in Messages : m.type = "result_updated" => m.case \in Rows /\ m.status \in Nat
  BY DEF Messages
<1> QED BY <1>1, <1>2

\* A message that is handled leaves the wire, the others move up.
LEMMA WireMovesUp ==
  ASSUME PageTypeOK, wire # <<>>, wire' = Tail(wire)
  PROVE  /\ Len(wire) \in Nat /\ Len(wire) >= 1 /\ Len(wire') = Len(wire) - 1
         /\ Head(wire) = wire[1]
         /\ \A i \in 1..Len(wire') : i + 1 \in 1..Len(wire) /\ wire'[i] = wire[i + 1]
         /\ wire' \in Seq(Messages)
<1>1. wire \in Seq(Messages)
  BY DEF PageTypeOK
<1> QED BY <1>1

LEMMA WireGrows ==
  ASSUME PageTypeOK, NEW m \in Messages, Send(m)
  PROVE  /\ wire' \in Seq(Messages) /\ Len(wire) \in Nat
         /\ socket = "joined" =>
              /\ Len(wire') = Len(wire) + 1
              /\ \A i \in 1..Len(wire) : wire'[i] = wire[i]
              /\ wire'[Len(wire) + 1] = m
         /\ socket # "joined" => wire' = wire
<1>1. wire \in Seq(Messages)
  BY DEF PageTypeOK
<1> QED BY <1>1 DEF Send

\* A status that the page will not be told.
LEMMA LostIs ==
  ASSUME PageTypeOK, NEW u \in Updates, Lost(u)
  PROVE  \E c \in Rows, s \in Nat :
           /\ c = updated[u] /\ s = carried[u]
           /\ latest' \in [Rows -> Nat] /\ latest[c] \in Nat
           /\ latest'[c] = IF s > latest[c] THEN s ELSE latest[c]
           /\ \A d \in Rows \ {c} : latest'[d] = latest[d]
           /\ missed' = missed \cup {c}
           /\ UNCHANGED <<server, updated, carried, sentBy, late, rendering, socket, wire,
                          catchUp, touching, view, history>>
<1>1. updated[u] \in Rows /\ carried[u] \in Nat /\ latest \in [Rows -> Nat]
  BY DEF PageTypeOK
<1>2. /\ latest' = [latest EXCEPT ![updated[u]] =
                      IF carried[u] > latest[updated[u]] THEN carried[u] ELSE latest[updated[u]]]
      /\ missed' = missed \cup {updated[u]}
      /\ UNCHANGED <<server, updated, carried, sentBy, late, rendering, socket, wire,
                     catchUp, touching, view, history>>
  BY DEF Lost, Noted
<1> QED BY <1>1, <1>2

\* Either way of losing it.
Loses(u) == BroadcastMisses(u) \/ UpdateDies(u)

LEMMA LosesIs ==
  ASSUME NEW u \in Updates, Loses(u)
  PROVE  /\ Lost(u)
         /\ \/ u \in relay /\ relay' = relay \ {u} /\ UNCHANGED updateAt
            \/ /\ updateAt[u] \in {"committed", "refreshed"}
               /\ updateAt' = [updateAt EXCEPT ![u] = "done"] /\ UNCHANGED relay
BY DEF Loses, BroadcastMisses, UpdateDies

\* What a render or a catch-up has been answered.
LEMMA SnapshotIs ==
  ASSUME PageTypeOK
  PROVE  /\ Snapshot \in Fetches
         /\ \A c \in Rows : Snapshot[c] = IF populated THEN db[c] ELSE Absent
         /\ NotFetched \in Fetches
BY DEF PageTypeOK, Snapshot, Fetches, Shown, NotFetched

LEMMA PageFields ==
  ASSUME PageTypeOK
  PROVE  /\ \A n \in Renders : render[n] \in RenderRecord /\ catchUp[n] \in CatchUpRecord
         /\ \A c \in Rows : db[c] \in Nat /\ latest[c] \in Nat
         /\ \A u \in Updates : carried[u] \in Nat /\ updated[u] \in Rows /\ sentBy[u] \in Nat
         /\ \A x \in Fetches : \A c \in Rows : x[c] # Absent => x[c] \in Nat
         /\ view \in Fetches /\ commits \in Nat
BY DEF PageTypeOK, RenderRecord, CatchUpRecord, Fetches, Shown

(* Types *)

LEMMA PageTypeInit == PageInit => PageTypeOK
<1> SUFFICES ASSUME PageInit PROVE PageTypeOK
  OBVIOUS
<1>1. NotFetched \in Fetches
  BY DEF NotFetched, Fetches, Shown
<1>2. NoRender \in RenderRecord /\ NoCatchUp \in CatchUpRecord
  BY <1>1 DEF NoRender, NoCatchUp, RenderRecord, CatchUpRecord
<1>3. [NoRender EXCEPT !.at = "asked"] \in RenderRecord
  BY <1>1 DEF NoRender, RenderRecord
<1>4. render \in [Renders -> RenderRecord] /\ catchUp \in [Renders -> CatchUpRecord]
  BY <1>2, <1>3 DEF PageInit
<1>5. wire \in Seq(Messages)
  BY DEF PageInit
<1>6. /\ updateAt \in [Updates -> {"idle", "committed", "refreshed", "answered", "done"}]
      /\ relay \subseteq Updates /\ missed \subseteq Rows
      /\ db \in [Rows -> Nat] /\ latest \in [Rows -> Nat] /\ updated \in [Updates -> Rows]
      /\ carried \in [Updates -> Nat] /\ sentBy \in [Updates -> Nat] /\ commits \in Nat
  BY DEF PageInit
<1>7. populated \in BOOLEAN /\ late \in BOOLEAN /\ crossed \in BOOLEAN /\ unheard \in BOOLEAN
      /\ failed \in BOOLEAN /\ overlapped \in BOOLEAN
  BY DEF PageInit
<1>8. /\ announced \in {"no", "due", "sent", "never"} /\ socket \in {"none", "connecting", "joined"}
      /\ touching = 0 /\ view \in Fetches
  BY <1>1 DEF PageInit
<1>9. renders \in Renders /\ page \in 0..renders
  BY DEF PageInit, Renders
<1> QED BY <1>4, <1>5, <1>6, <1>7, <1>8, <1>9 DEF PageTypeOK, RenderRecord, CatchUpRecord

\* A catch-up that moves.
LEMMA CatchUpMoves ==
  ASSUME PageTypeOK, NEW n \in Renders, NEW R \in CatchUpRecord,
         catchUp' = [catchUp EXCEPT ![n] = R]
  PROVE  /\ catchUp' \in [Renders -> CatchUpRecord] /\ catchUp'[n] = R
         /\ \A m \in Renders \ {n} : catchUp'[m] = catchUp[m] /\ (InFlight(m)' <=> InFlight(m))
BY DEF PageTypeOK, CatchUpRecord, InFlight

LEMMA RenderMoves ==
  ASSUME PageTypeOK, NEW n \in Renders, NEW R \in RenderRecord,
         render' = [render EXCEPT ![n] = R]
  PROVE  /\ render' \in [Renders -> RenderRecord] /\ render'[n] = R
         /\ \A m \in Renders \ {n} : render'[m] = render[m]
BY DEF PageTypeOK, RenderRecord

LEMMA CatchUpEnds ==
  ASSUME PageTypeOK, NEW n \in Renders, EndCatchUp(n)
  PROVE  /\ catchUp' \in [Renders -> CatchUpRecord]
         /\ catchUp'[n] = [NoCatchUp EXCEPT !.at = "done"]
         /\ ~InFlight(n)' /\ catchUp'[n].touched = {} /\ catchUp'[n].data = NotFetched
         /\ \A m \in Renders \ {n} : catchUp'[m] = catchUp[m] /\ (InFlight(m)' <=> InFlight(m))
         /\ touching' = IF touching = n THEN 0 ELSE touching
         /\ touching' \in {0} \cup {m \in Renders : InFlight(m)'}
<1> DEFINE R == [NoCatchUp EXCEPT !.at = "done"]
<1>1. R \in CatchUpRecord /\ R.at = "done" /\ R.touched = {} /\ R.data = NotFetched
  BY SnapshotIs DEF NoCatchUp, CatchUpRecord
<1>2. catchUp' = [catchUp EXCEPT ![n] = R] /\ touching' = IF touching = n THEN 0 ELSE touching
  BY DEF EndCatchUp
<1> HIDE DEF R
<1>3. catchUp' \in [Renders -> CatchUpRecord] /\ catchUp'[n] = R
      /\ \A m \in Renders \ {n} : catchUp'[m] = catchUp[m] /\ (InFlight(m)' <=> InFlight(m))
  BY <1>1, <1>2, CatchUpMoves
<1>4. ~InFlight(n)'
  BY <1>1, <1>3 DEF InFlight
<1>5. touching' \in {0} \cup {m \in Renders : InFlight(m)'}
  BY <1>2, <1>3 DEF PageTypeOK
<1> QED BY <1>1, <1>2, <1>3, <1>4, <1>5 DEF R

\* The steps of the page's invariant, action by action, begin from its parts.
LEMMA PageParts ==
  ASSUME PageInv
  PROVE  /\ PageTypeOK /\ RendersInOrder /\ RowsAnnounced /\ NothingAhead /\ NewsToCome
         /\ WireIsCurrent /\ CatchingUp /\ ShownIsCurrent
BY DEF PageInv

LEMMA PageTypeStep == PageTypeOK /\ RendersInOrder /\ [PageNext]_pageVars => PageTypeOK'
<1> SUFFICES ASSUME PageTypeOK, RendersInOrder, [PageNext]_pageVars PROVE PageTypeOK'
  OBVIOUS
<1>1. CASE Populate
  BY <1>1 DEF Populate, PageTypeOK, puts, fanout, rendering, history, InFlight
<1>2. CASE Announce
  <2>1. [type |-> "results_populated"] \in Messages
    BY DEF Messages
  <2>2. wire' \in Seq(Messages)
    BY <1>2, <2>1, WireGrows DEF Announce
  <2>3. unheard' \in BOOLEAN
    BY <1>2 DEF Announce, PageTypeOK
  <2> QED BY <1>2, <2>2, <2>3 DEF Announce, PageTypeOK, puts, fanout, rendering, InFlight
<1>18. CASE AnnouncementLost
  BY <1>18 DEF AnnouncementLost, PageTypeOK, puts, fanout, rendering, InFlight
<1>19. ASSUME NEW u \in Updates, Publish(u) PROVE PageTypeOK'
  <2>1. updateAt' \in [Updates -> {"idle", "committed", "refreshed", "answered", "done"}]
    BY <1>19 DEF Publish, PageTypeOK
  <2>2. relay' \subseteq Updates
    BY <1>19 DEF Publish, PageTypeOK
  <2> QED BY <1>19, <2>1, <2>2 DEF Publish, PageTypeOK, server, rendering, history, InFlight
<1>20. ASSUME NEW u \in Updates, Loses(u) PROVE PageTypeOK'
  <2>1. PICK c \in Rows :
          /\ latest' \in [Rows -> Nat] /\ missed' = missed \cup {c}
          /\ UNCHANGED <<server, updated, carried, sentBy, late, rendering, socket, wire,
                         catchUp, touching, view, history>>
    BY <1>20, LosesIs, LostIs
  <2>2. /\ relay' \subseteq Updates
        /\ updateAt' \in [Updates -> {"idle", "committed", "refreshed", "answered", "done"}]
    BY <1>20, LosesIs DEF PageTypeOK
  <2> QED BY <2>1, <2>2 DEF PageTypeOK, server, rendering, history, InFlight
<1>3. ASSUME NEW u \in Updates, CommitUpdate(u) PROVE PageTypeOK'
  <2>1. db' \in [Rows -> Nat] /\ commits' \in Nat /\ carried' \in [Updates -> Nat]
    BY <1>3 DEF CommitUpdate, PageTypeOK
  <2>2. updateAt' \in [Updates -> {"idle", "committed", "refreshed", "answered", "done"}]
    BY <1>3 DEF CommitUpdate, PageTypeOK
  <2>3. sentBy' \in [Updates -> Nat]
    <3>1. PICK n \in {0} \cup (IF view[updated[u]] # Absent THEN {page} ELSE {}) :
            sentBy' = [sentBy EXCEPT ![u] = n]
      BY <1>3 DEF CommitUpdate
    <3>2. n \in Nat
      BY DEF PageTypeOK, Renders
    <3> QED BY <3>1, <3>2 DEF PageTypeOK
  <2> QED BY <1>3, <2>1, <2>2, <2>3
       DEF CommitUpdate, PageTypeOK, fanout, rendering, history, InFlight
<1>4. ASSUME NEW u \in Updates, RefreshUpdate(u) PROVE PageTypeOK'
  BY <1>4 DEF RefreshUpdate, PageTypeOK, server, fanout, rendering, history, InFlight
<1>5. ASSUME NEW u \in Updates, Broadcast(u) PROVE PageTypeOK'
  <2>1. [type |-> "result_updated", case |-> updated[u], status |-> carried[u]] \in Messages
    BY PageFields DEF Messages
  <2>2. wire' \in Seq(Messages)
    BY <1>5, <2>1, WireGrows DEF Broadcast
  <2>3. late' \in BOOLEAN
    BY <1>5 DEF Broadcast, PageTypeOK
  <2>4. latest' \in [Rows -> Nat]
    BY <1>5, PageFields DEF Broadcast, Noted, PageTypeOK
  <2>5. relay' \subseteq Updates
    BY <1>5 DEF Broadcast, PageTypeOK
  <2> QED BY <1>5, <2>2, <2>3, <2>4, <2>5
       DEF Broadcast, PageTypeOK, server, puts, rendering, history, InFlight
<1>6. CASE Join
  <2>1. wire' \in Seq(Messages)
    BY <1>6 DEF Join, Messages
  <2> QED BY <1>6, <2>1 DEF Join, PageTypeOK, server, puts, fanout, rendering, history, InFlight
<1>7. ASSUME NEW n \in Renders, ServeRender(n) PROVE PageTypeOK'
  <2>1. render' \in [Renders -> RenderRecord]
    BY <1>7, SnapshotIs, RenderMoves DEF ServeRender, RenderRecord
  <2> QED BY <1>7, <2>1
       DEF ServeRender, RenderRecord, PageTypeOK, server, puts, fanout, history, InFlight
<1>8. ASSUME NEW n \in Renders, Rendered(n) PROVE PageTypeOK'
  <2>1. NoRender \in RenderRecord
    BY SnapshotIs DEF NoRender, RenderRecord
  <2>2. render' \in [Renders -> RenderRecord]
    BY <1>8, <2>1, RenderMoves DEF Rendered
  <2>3. view' \in Fetches /\ wire' \in Seq(Messages) /\ socket' = "connecting"
    BY <1>8, PageFields DEF Rendered, RenderRecord
  <2>4. page' \in 0..renders
    BY <1>8 DEF Rendered, RendersInOrder, Renders, PageTypeOK
  <2>5. unheard' \in BOOLEAN
    BY <1>8 DEF Rendered, PageTypeOK
  <2> QED BY <1>8, <2>2, <2>3, <2>4, <2>5
       DEF Rendered, RenderRecord, PageTypeOK, server, puts, fanout, InFlight
<1>9. CASE SocketDrops
  <2>1. wire' \in Seq(Messages) /\ unheard' \in BOOLEAN
    BY <1>9 DEF SocketDrops, PageTypeOK
  <2> QED BY <1>9, <2>1 DEF SocketDrops, PageTypeOK, server, puts, fanout, rendering, InFlight
<1>10. CASE Subscribed
  <2>0. page \in Renders
    BY <1>10 DEF Subscribed, Arrives, RendersInOrder, PageTypeOK, Renders
  <2>1. PICK R \in CatchUpRecord : R.at = "asked" /\ catchUp' = [catchUp EXCEPT ![page] = R]
    <3>1. PICK was \in CatchUpRecord : was = catchUp[page]
      BY <2>0, PageFields
    <3>2. [was EXCEPT !.at = "asked"] \in CatchUpRecord
      BY DEF CatchUpRecord
    <3> QED BY <1>10, <2>0, <3>1, <3>2 DEF Subscribed, CatchUpRecord
  <2>2. catchUp' \in [Renders -> CatchUpRecord] /\ InFlight(page)'
    <3>1. catchUp' \in [Renders -> CatchUpRecord] /\ catchUp'[page] = R
      BY <2>0, <2>1, CatchUpMoves
    <3> QED BY <1>10, <2>1, <3>1 DEF InFlight, Subscribed, rendering
  <2>3. wire' \in Seq(Messages) /\ overlapped' \in BOOLEAN
    BY <1>10, WireMovesUp DEF Subscribed, Arrives, PageTypeOK
  <2>4. touching' \in {0} \cup {m \in Renders : InFlight(m)'}
    BY <1>10, <2>0, <2>2 DEF Subscribed, rendering
  <2> QED BY <1>10, <2>2, <2>3, <2>4
       DEF Subscribed, PageTypeOK, server, puts, fanout, rendering, CatchUpRecord
<1>11. CASE ResultUpdated
  <2>1. PICK c \in Rows :
          /\ c = Head(wire).case /\ Head(wire).status \in Nat
          /\ catchUp' = [n \in Renders |->
               IF n = touching THEN [catchUp[n] EXCEPT !.touched = @ \cup {c}] ELSE catchUp[n]]
          /\ view' = IF view[c] = Absent THEN view ELSE [view EXCEPT ![c] = Head(wire).status]
    <3>1. wire[1].case \in Rows /\ wire[1].status \in Nat /\ wire[1] = Head(wire)
      BY <1>11, WireFields, WireMovesUp DEF ResultUpdated, Arrives
    <3> QED BY <1>11, <3>1 DEF ResultUpdated
  <2>2. view' \in Fetches
    BY <2>1 DEF PageTypeOK, Fetches, Shown
  <2>3. \A n \in Renders : catchUp'[n] \in CatchUpRecord /\ catchUp'[n].at = catchUp[n].at
    <3>1. ASSUME NEW n \in Renders
          PROVE  /\ catchUp[n] \in CatchUpRecord
                 /\ [catchUp[n] EXCEPT !.touched = @ \cup {c}] \in CatchUpRecord
                 /\ [catchUp[n] EXCEPT !.touched = @ \cup {c}].at = catchUp[n].at
      <4>1. PICK was \in CatchUpRecord : was = catchUp[n]
        BY PageFields
      <4> QED BY <2>1, <4>1 DEF CatchUpRecord
    <3> QED BY <2>1, <3>1
  <2>4. catchUp' \in [Renders -> CatchUpRecord] /\ \A n \in Renders : InFlight(n)' <=> InFlight(n)
    BY <2>1, <2>3 DEF InFlight
  <2>5. wire' \in Seq(Messages)
    BY <1>11, WireMovesUp DEF ResultUpdated, Arrives
  <2> QED BY <1>11, <2>2, <2>4, <2>5
       DEF ResultUpdated, PageTypeOK, server, puts, fanout, rendering, history, CatchUpRecord
<1>12. CASE ResultsPopulated
  <2>1. wire' \in Seq(Messages) /\ renders = 1
    <3>1. Head(wire) = wire[1] /\ 1 \in 1..Len(wire) /\ wire' \in Seq(Messages)
      BY <1>12, WireMovesUp DEF ResultsPopulated, Arrives
    <3> QED BY <1>12, <3>1 DEF ResultsPopulated, Arrives, RendersInOrder
  <2>2. PICK R \in RenderRecord : render' = [render EXCEPT ![2] = R]
    <3>1. PICK was \in RenderRecord : was = render[2]
      BY PageFields DEF Renders
    <3>2. [was EXCEPT !.at = "asked"] \in RenderRecord
      BY DEF RenderRecord
    <3>3. renders + 1 = 2
      BY <2>1
    <3>4. render' = [render EXCEPT ![2].at = "asked"]
      BY <1>12, <3>3 DEF ResultsPopulated
    <3> QED BY <3>1, <3>2, <3>4
  <2>3. render' \in [Renders -> RenderRecord]
    <3>1. 2 \in Renders
      BY DEF Renders
    <3> QED BY <2>2, <3>1, RenderMoves
  <2>4. renders' \in Renders /\ page \in 0..renders'
    BY <1>12, <2>1 DEF ResultsPopulated, Renders, PageTypeOK
  <2> QED BY <1>12, <2>1, <2>3, <2>4
       DEF ResultsPopulated, PageTypeOK, server, puts, fanout, history, InFlight, RenderRecord
<1>13. ASSUME NEW n \in Renders, ServeCatchUp(n) PROVE PageTypeOK'
  <2>1. PICK R \in CatchUpRecord : R.at = "served" /\ catchUp' = [catchUp EXCEPT ![n] = R]
    <3>1. PICK was \in CatchUpRecord : was = catchUp[n]
      BY PageFields
    <3>2. [was EXCEPT !.at = "served", !.data = Snapshot] \in CatchUpRecord
      BY SnapshotIs DEF CatchUpRecord
    <3> QED BY <1>13, <3>1, <3>2 DEF ServeCatchUp, CatchUpRecord
  <2>2. /\ catchUp' \in [Renders -> CatchUpRecord] /\ catchUp'[n] = R
        /\ \A m \in Renders \ {n} : InFlight(m)' <=> InFlight(m)
    BY <2>1, CatchUpMoves
  <2>3. touching' \in {0} \cup {m \in Renders : InFlight(m)'}
    <3>1. InFlight(n)'
      BY <2>1, <2>2 DEF InFlight
    <3> QED BY <1>13, <2>2, <3>1 DEF ServeCatchUp, PageTypeOK
  <2> QED BY <1>13, <2>2, <2>3
       DEF ServeCatchUp, PageTypeOK, server, puts, fanout, rendering, history, CatchUpRecord
<1>14. ASSUME NEW n \in Renders, CaughtUp(n) PROVE PageTypeOK'
  <2>1. /\ catchUp' \in [Renders -> CatchUpRecord]
        /\ touching' \in {0} \cup {m \in Renders : InFlight(m)'}
    BY <1>14, CatchUpEnds DEF CaughtUp
  <2>2. view' \in Fetches
    BY <1>14, PageFields DEF CaughtUp, Reconciled, Fetches, CatchUpRecord
  <2> QED BY <1>14, <2>1, <2>2
       DEF CaughtUp, PageTypeOK, server, puts, fanout, rendering, history, CatchUpRecord
<1>15. ASSUME NEW n \in Renders, CatchUpFails(n) PROVE PageTypeOK'
  <2>1. /\ catchUp' \in [Renders -> CatchUpRecord]
        /\ touching' \in {0} \cup {m \in Renders : InFlight(m)'}
    BY <1>15, CatchUpEnds DEF CatchUpFails
  <2> QED BY <1>15, <2>1
       DEF CatchUpFails, PageTypeOK, server, puts, fanout, rendering, CatchUpRecord
<1>16. ASSUME NEW u \in Updates, Answer(u) PROVE PageTypeOK'
  <2>1. view' \in Fetches
    BY <1>16, PageFields DEF Answer, Fetches, Shown
  <2>2. crossed' \in BOOLEAN
    BY <1>16 DEF Answer, PageTypeOK
  <2>3. updateAt' \in [Updates -> {"idle", "committed", "refreshed", "answered", "done"}]
    BY <1>16 DEF Answer, PageTypeOK
  <2> QED BY <1>16, <2>1, <2>2, <2>3 DEF Answer, PageTypeOK, server, fanout, rendering, InFlight
<1>17. CASE UNCHANGED pageVars
  BY <1>17 DEF pageVars, PageTypeOK, server, puts, fanout, rendering, history, InFlight
<1> QED BY <1>1, <1>2, <1>3, <1>4, <1>5, <1>6, <1>7, <1>8, <1>9, <1>10, <1>11, <1>12, <1>13,
       <1>14, <1>15, <1>16, <1>17, <1>18, <1>19, <1>20
     DEF PageNext, ServerStep, PageStep, Loses

(* What holds whatever the page shows: renders, messages, statuses *)

LEMMA RendersStep ==
  ASSUME PageTypeOK, RendersInOrder, [PageNext]_pageVars
  PROVE  RendersInOrder'
<1>1. Len(wire) \in Nat /\ 1 \in Renders /\ 2 \in Renders /\ renders \in Renders
  BY WireFields DEF Renders, PageTypeOK
<1>2. CASE Populate
  BY <1>1, <1>2 DEF Populate, RendersInOrder, puts, fanout, rendering, PageTypeOK
<1>14. CASE AnnouncementLost
  BY <1>14 DEF AnnouncementLost, RendersInOrder, rendering
<1>3. CASE Announce
  <2>1. [type |-> "results_populated"] \in Messages
    BY DEF Messages
  <2>2. /\ renders = 1 /\ announced = "due" /\ announced' = "sent"
        /\ UNCHANGED <<populated, rendering, socket>>
    BY <1>1, <1>3 DEF Announce, RendersInOrder, Renders
  <2>3. CASE socket = "joined"
    <3>1. /\ Len(wire') = Len(wire) + 1
          /\ \A i \in 1..Len(wire) : wire'[i] = wire[i] /\ wire[i].type # "results_populated"
          /\ wire'[Len(wire) + 1].type = "results_populated"
      BY <1>3, <2>1, <2>3, <2>2, WireGrows DEF Announce, RendersInOrder
    <3>2. /\ \A i \in 1..Len(wire') :
               /\ wire'[i].type = "subscribed" => i = 1
               /\ wire'[i].type = "results_populated" => i = Len(wire) + 1
      BY <1>1, <3>1 DEF RendersInOrder
    <3> QED BY <2>2, <2>3, <3>2 DEF RendersInOrder, rendering
  <2>4. CASE socket # "joined"
    BY <1>3, <2>1, <2>2, <2>4, WireGrows DEF Announce, RendersInOrder, rendering
  <2> QED BY <2>3, <2>4
<1>4. ASSUME NEW u \in Updates, Broadcast(u) PROVE RendersInOrder'
  <2> DEFINE m == [type |-> "result_updated", case |-> updated[u], status |-> carried[u]]
  <2>1. m \in Messages /\ m.type = "result_updated"
    BY PageFields DEF Messages
  <2>2. UNCHANGED <<announced, populated, rendering, socket>> /\ Send(m)
    BY <1>4 DEF Broadcast, server
  <2> HIDE DEF m
  <2>3. CASE socket = "joined"
    <3>1. /\ Len(wire') = Len(wire) + 1
          /\ \A i \in 1..Len(wire) : wire'[i] = wire[i]
          /\ wire'[Len(wire) + 1].type = "result_updated"
      BY <2>1, <2>2, <2>3, WireGrows
    <3>2. \A i \in 1..Len(wire') :
            wire'[i].type \in {"subscribed", "results_populated"} =>
              i \in 1..Len(wire) /\ wire'[i] = wire[i]
      BY <1>1, <3>1
    <3> QED BY <2>2, <2>3, <3>2 DEF RendersInOrder, rendering
  <2>4. CASE socket # "joined"
    BY <2>1, <2>2, <2>4, WireGrows DEF RendersInOrder, rendering
  <2> QED BY <2>3, <2>4
<1>5. CASE Join
  <2>1. Len(wire') = 1 /\ wire'[1].type = "subscribed"
    BY <1>5 DEF Join
  <2> QED BY <1>5, <2>1 DEF Join, RendersInOrder, server, rendering
<1>6. ASSUME NEW n \in Renders, ServeRender(n) PROVE RendersInOrder'
  <2>1. UNCHANGED <<announced, populated, renders, page, socket, wire>>
    BY <1>6 DEF ServeRender, server
  <2>2. \A k \in Renders : render'[k].at = "none" <=> render[k].at = "none"
    BY <1>6 DEF ServeRender, PageTypeOK
  <2>3. /\ render'[1].at = "none" <=> render[1].at = "none"
        /\ render'[2].at = "none" <=> render[2].at = "none"
    BY <1>1, <2>2
  <2> QED BY <2>1, <2>3 DEF RendersInOrder
<1>7. ASSUME NEW n \in Renders, Rendered(n) PROVE RendersInOrder'
  <2>1. /\ UNCHANGED <<announced, populated, renders>> /\ page' = n /\ wire' = <<>>
        /\ socket' = "connecting" /\ render[n].at # "none"
        /\ render'[n].at = "none" /\ \A k \in Renders \ {n} : render'[k] = render[k]
    BY <1>7 DEF Rendered, server, PageTypeOK, NoRender
  <2>2. CASE n = 1
    BY <1>1, <2>1, <2>2 DEF RendersInOrder
  <2>3. CASE n = 2
    <3>1. page = 1 /\ renders = 2 /\ render[1].at = "none"
      BY <1>1, <2>1, <2>3 DEF RendersInOrder
    <3>2. render'[1].at = "none" /\ render'[2].at = "none"
      BY <1>1, <2>1, <2>3, <3>1
    <3> QED BY <2>1, <2>3, <3>2 DEF RendersInOrder
  <2> QED BY <2>2, <2>3 DEF Renders
<1>8. CASE SocketDrops
  BY <1>8 DEF SocketDrops, RendersInOrder, server, rendering
<1>9. ASSUME wire # <<>>, wire' = Tail(wire), UNCHANGED <<announced, populated, rendering, socket>>
      PROVE  RendersInOrder'
  <2>1. /\ \A i \in 1..Len(wire') : i + 1 \in 1..Len(wire) /\ wire'[i] = wire[i + 1]
        /\ socket = "joined"
    BY <1>9, WireMovesUp DEF RendersInOrder
  <2>2. \A i \in 1..Len(wire') : i + 1 # 1
    OBVIOUS
  <2>3. \A i, j \in 1..Len(wire') : i + 1 = j + 1 => i = j
    BY <1>1, WireMovesUp, <1>9
  <2>4. \A i \in 1..Len(wire') :
          /\ wire'[i].type # "subscribed"
          /\ wire'[i].type = "results_populated" => announced = "sent" /\ renders = 1
    BY <2>1, <2>2 DEF RendersInOrder
  <2>5. \A i, j \in 1..Len(wire') :
          wire'[i].type = "results_populated" /\ wire'[j].type = "results_populated" => i = j
    BY <2>1, <2>3 DEF RendersInOrder
  <2> QED BY <1>9, <2>1, <2>4, <2>5 DEF RendersInOrder, rendering
<1>10. CASE Subscribed
  BY <1>9, <1>10 DEF Subscribed, Arrives, server
<1>11. CASE ResultUpdated
  BY <1>9, <1>11 DEF ResultUpdated, Arrives, server
<1>12. CASE ResultsPopulated
  <2>1. /\ wire # <<>> /\ wire' = Tail(wire) /\ Head(wire).type = "results_populated"
        /\ UNCHANGED <<announced, populated, page, socket>>
        /\ renders' = renders + 1
    BY <1>12 DEF ResultsPopulated, Arrives, server
  <2>2. /\ \A i \in 1..Len(wire') : i + 1 \in 1..Len(wire) /\ wire'[i] = wire[i + 1]
        /\ 1 \in 1..Len(wire) /\ wire[1].type = "results_populated"
    BY <2>1, WireMovesUp
  <2>3. socket = "joined" /\ announced = "sent" /\ renders = 1
    BY <2>1, <2>2 DEF RendersInOrder
  <2>4. \A i \in 1..Len(wire') : wire'[i].type \notin {"subscribed", "results_populated"}
    <3>1. \A i \in 1..Len(wire') : i + 1 # 1
      OBVIOUS
    <3> QED BY <2>2, <3>1 DEF RendersInOrder
  <2>5. page = 1 /\ render[1].at = "none" /\ render'[1] = render[1] /\ renders' = 2
    <3>1. renders' = 2
      BY <2>1, <2>3
    <3>2. page # 0 /\ page \in 0..1
      BY <2>3 DEF RendersInOrder, PageTypeOK
    <3>3. render[1].at = "none" /\ render' = [render EXCEPT ![2].at = "asked"]
      BY <1>1, <1>12, <2>3, <3>1, <3>2 DEF RendersInOrder, ResultsPopulated
    <3>4. render'[1] = render[1]
      BY <1>1, <3>3 DEF PageTypeOK
    <3> QED BY <3>1, <3>2, <3>3, <3>4
  <2>6. populated
    BY <2>3 DEF RendersInOrder
  <2> QED BY <2>1, <2>3, <2>4, <2>5, <2>6 DEF RendersInOrder
<1>13. CASE \/ \E u \in Updates : CommitUpdate(u) \/ RefreshUpdate(u) \/ Answer(u)
            \/ \E u \in Updates : Publish(u) \/ Loses(u)
            \/ \E n \in Renders : ServeCatchUp(n) \/ CaughtUp(n) \/ CatchUpFails(n)
            \/ UNCHANGED pageVars
  <2>1. UNCHANGED <<announced, populated, rendering, socket, wire>>
    BY <1>13 DEF CommitUpdate, RefreshUpdate, Publish, Loses, BroadcastMisses, UpdateDies, Lost,
      Answer, ServeCatchUp, CaughtUp, CatchUpFails, server, pageVars
  <2> QED BY <2>1 DEF RendersInOrder, rendering
<1> QED BY <1>2, <1>3, <1>4, <1>5, <1>6, <1>7, <1>8, <1>10, <1>11, <1>12, <1>13,
       <1>14 DEF PageNext, ServerStep, PageStep, Loses


\* Statuses only grow.
LEMMA DbGrows ==
  ASSUME PageTypeOK, NothingAhead, [PageNext]_pageVars
  PROVE  \A c \in Rows : db'[c] \in Nat /\ db[c] \in Nat /\ db[c] <= db'[c]
<1>1. CASE \E u \in Updates : CommitUpdate(u)
  BY <1>1 DEF CommitUpdate, PageTypeOK, NothingAhead
<1>2. CASE db' = db
  BY <1>2, PageFields
<1>3. db' = db \/ \E u \in Updates : CommitUpdate(u)
  BY DEF PageNext, ServerStep, PageStep, Populate, SocketDrops, CatchUpFails, Announce, Join,
    AnnouncementLost, RefreshUpdate, Publish, Broadcast, BroadcastMisses, UpdateDies, Lost,
    ServeRender, ServeCatchUp, Subscribed, ResultUpdated, ResultsPopulated, Rendered, CaughtUp,
    Answer, pageVars, server
<1> QED BY <1>1, <1>2, <1>3

\* What a step that answers, applies or forgets leaves of the renders' data.
LEMMA AheadStays ==
  ASSUME PageTypeOK, PageTypeOK', NothingAhead,
         \A c \in Rows : db'[c] \in Nat /\ db[c] \in Nat /\ db[c] <= db'[c],
         populated' \/ (db' = db /\ ~populated),
         \A c \in Rows : latest'[c] <= db'[c] /\ db'[c] <= commits',
         \A u \in Updates : carried'[u] <= db'[updated'[u]],
         \A n \in Renders : \A c \in Rows :
           /\ render'[n].data[c] \in {render[n].data[c], Absent, db[c]}
           /\ catchUp'[n].data[c] \in {catchUp[n].data[c], Absent, db[c]},
         \A c \in Rows : view'[c] # Absent => view'[c] <= db'[c]
  PROVE  NothingAhead'
<1>1. ASSUME NEW x \in Fetches, NEW c \in Rows, x[c] # Absent => x[c] <= db[c], NEW y,
             y \in {x[c], Absent, db[c]}, y # Absent
      PROVE  y <= db'[c]
  <2>1. x[c] # Absent => x[c] \in Nat
    BY PageFields
  <2> QED BY <1>1, <2>1
<1>2. \A n \in Renders : render[n].data \in Fetches /\ catchUp[n].data \in Fetches
  BY PageFields DEF RenderRecord, CatchUpRecord
<1>3. \A n \in Renders : \A c \in Rows :
        /\ render'[n].data[c] # Absent => render'[n].data[c] <= db'[c]
        /\ catchUp'[n].data[c] # Absent => catchUp'[n].data[c] <= db'[c]
  BY <1>1, <1>2 DEF NothingAhead
<1>4. ~populated' => \A c \in Rows : db'[c] = 0
  BY DEF NothingAhead
<1> QED BY <1>3, <1>4 DEF NothingAhead

LEMMA AheadStep ==
  ASSUME PageTypeOK, PageTypeOK', RendersInOrder, NothingAhead, WireIsCurrent,
         [PageNext]_pageVars
  PROVE  NothingAhead'
<1>1. \A c \in Rows : db'[c] \in Nat /\ db[c] \in Nat /\ db[c] <= db'[c]
  BY DbGrows
<1>2. /\ ~populated => \A c \in Rows : db[c] = 0
      /\ \A c \in Rows : latest[c] <= db[c] /\ db[c] <= commits /\ latest[c] \in Nat
      /\ \A u \in Updates : carried[u] <= db[updated[u]] /\ carried[u] \in Nat
                            /\ updated[u] \in Rows
      /\ \A c \in Rows : view[c] # Absent => view[c] <= db[c] /\ view[c] \in Nat
      /\ commits \in Nat /\ view \in [Rows -> Shown]
  BY PageFields DEF NothingAhead, Fetches
<1>3. ASSUME UNCHANGED <<server, latest, carried, updated, view>>,
             \A n \in Renders : \A c \in Rows :
               /\ render'[n].data[c] \in {render[n].data[c], Absent, db[c]}
               /\ catchUp'[n].data[c] \in {catchUp[n].data[c], Absent, db[c]}
      PROVE  NothingAhead'
  BY <1>1, <1>2, <1>3, AheadStays DEF server
<1>4. CASE \/ Announce \/ AnnouncementLost \/ Join \/ SocketDrops \/ UNCHANGED pageVars
           \/ \E u \in Updates : Publish(u)
  BY <1>1, <1>2, <1>4, AheadStays DEF Announce, AnnouncementLost, Join, SocketDrops, Publish,
    pageVars, server, puts, fanout, rendering
<1>5. CASE Populate
  BY <1>1, <1>2, <1>5, AheadStays DEF Populate, puts, fanout, rendering
<1>6. ASSUME NEW u \in Updates, CommitUpdate(u) PROVE NothingAhead'
  <2>1. /\ commits' = commits + 1 /\ db' = [db EXCEPT ![updated[u]] = commits + 1]
        /\ carried' = [carried EXCEPT ![u] = commits + 1]
        /\ populated /\ UNCHANGED <<populated, latest, updated, rendering, catchUp, view>>
    BY <1>6 DEF CommitUpdate, fanout
  <2>2. \A c \in Rows : latest'[c] <= db'[c] /\ db'[c] <= commits'
    <3>1. \A c \in Rows : db'[c] \in {db[c], commits + 1}
      BY <2>1 DEF PageTypeOK
    <3> QED BY <1>1, <1>2, <2>1, <3>1
  <2>3. \A v \in Updates : carried'[v] <= db'[updated'[v]]
    BY <1>1, <1>2, <2>1 DEF PageTypeOK
  <2>4. \A c \in Rows : view'[c] # Absent => view'[c] <= db'[c]
    BY <1>1, <1>2, <2>1
  <2> QED BY <1>1, <2>1, <2>2, <2>3, <2>4, AheadStays DEF rendering
<1>7. ASSUME NEW u \in Updates, RefreshUpdate(u) PROVE NothingAhead'
  <2>1. /\ carried' = [carried EXCEPT ![u] = db[updated[u]]]
        /\ UNCHANGED <<server, updated, latest, rendering, catchUp, view>>
    BY <1>7 DEF RefreshUpdate, fanout
  <2>2. \A v \in Updates : carried'[v] <= db'[updated'[v]]
    BY <1>1, <1>2, <2>1 DEF server, PageTypeOK
  <2> QED BY <1>1, <1>2, <2>1, <2>2, AheadStays DEF rendering, server
<1>8. ASSUME NEW u \in Updates, Broadcast(u) PROVE NothingAhead'
  <2>1. /\ latest' = [latest EXCEPT ![updated[u]] =
                        IF carried[u] > latest[updated[u]] THEN carried[u] ELSE latest[updated[u]]]
        /\ UNCHANGED <<server, updated, carried, rendering, catchUp, view>>
    BY <1>8 DEF Broadcast, Noted, puts
  <2>2. \A c \in Rows : latest'[c] <= db'[c] /\ db'[c] <= commits'
    BY <1>1, <1>2, <2>1 DEF server, PageTypeOK
  <2> QED BY <1>1, <1>2, <2>1, <2>2, AheadStays DEF rendering, server
<1>19. ASSUME NEW u \in Updates, Loses(u) PROVE NothingAhead'
  <2>1. PICK c \in Rows, s \in Nat :
          /\ c = updated[u] /\ s = carried[u]
          /\ latest'[c] = IF s > latest[c] THEN s ELSE latest[c]
          /\ \A d \in Rows \ {c} : latest'[d] = latest[d]
          /\ UNCHANGED <<server, updated, carried, rendering, catchUp, view>>
    BY <1>19, LosesIs, LostIs
  <2>2. \A d \in Rows : latest'[d] <= db'[d] /\ db'[d] <= commits'
    BY <1>1, <1>2, <2>1 DEF server
  <2> QED BY <1>1, <1>2, <2>1, <2>2, AheadStays DEF rendering, server
<1>9. ASSUME NEW n \in Renders, ServeRender(n) PROVE NothingAhead'
  <2>1. render' = [render EXCEPT ![n] = [at |-> "served", data |-> Snapshot]]
        /\ UNCHANGED <<server, puts, fanout, catchUp, view>>
    BY <1>9 DEF ServeRender
  <2>2. \A m \in Renders : \A c \in Rows :
          render'[m].data[c] \in {render[m].data[c], Absent, db[c]}
    BY <2>1, SnapshotIs DEF PageTypeOK
  <2> QED BY <1>3, <2>1, <2>2 DEF puts, fanout
<1>10. ASSUME NEW n \in Renders, Rendered(n) PROVE NothingAhead'
  <2>1. render' = [render EXCEPT ![n] = NoRender] /\ view' = render[n].data
        /\ UNCHANGED <<server, puts, fanout, catchUp>>
    BY <1>10 DEF Rendered
  <2>2. \A m \in Renders : \A c \in Rows : render'[m].data[c] \in {render[m].data[c], Absent}
    BY <2>1 DEF PageTypeOK, NoRender, NotFetched
  <2>3. \A c \in Rows : view'[c] # Absent => view'[c] <= db'[c]
    BY <1>10, <2>1 DEF NothingAhead, server
  <2> QED BY <1>1, <1>2, <2>1, <2>2, <2>3, AheadStays DEF puts, fanout, server
<1>11. CASE Subscribed
  <2>0. page \in Renders
    BY <1>11 DEF Subscribed, Arrives, RendersInOrder, PageTypeOK, Renders
  <2>1. \A m \in Renders : catchUp'[m].data = catchUp[m].data
    <3>1. PICK was \in CatchUpRecord : was = catchUp[page]
      BY <2>0, PageFields
    <3>2. [was EXCEPT !.at = "asked"].data = was.data
      BY DEF CatchUpRecord
    <3>3. catchUp' = [catchUp EXCEPT ![page] = [was EXCEPT !.at = "asked"]]
      BY <1>11, <3>1 DEF Subscribed
    <3> QED BY <2>0, <3>1, <3>2, <3>3 DEF PageTypeOK
  <2> QED BY <1>3, <1>11, <2>1 DEF Subscribed, puts, fanout, rendering
<1>12. CASE ResultUpdated
  <2>1. PICK c \in Rows, s \in Nat :
          /\ s <= db[c]
          /\ catchUp' = [n \in Renders |->
               IF n = touching THEN [catchUp[n] EXCEPT !.touched = @ \cup {c}] ELSE catchUp[n]]
          /\ view' = IF view[c] = Absent THEN view ELSE [view EXCEPT ![c] = s]
    <3>1. wire[1].type = "result_updated" /\ 1 \in 1..Len(wire) /\ wire[1] = Head(wire)
      BY <1>12, WireMovesUp DEF ResultUpdated, Arrives
    <3>2. wire[1].case \in Rows /\ wire[1].status \in Nat /\ wire[1].status <= latest[wire[1].case]
      BY <3>1, WireFields DEF WireIsCurrent
    <3>3. wire[1].status <= db[wire[1].case]
      BY <1>1, <1>2, <3>2
    <3> QED BY <1>12, <3>1, <3>2, <3>3 DEF ResultUpdated
  <2>2. \A m \in Renders : catchUp'[m].data = catchUp[m].data
    <3>1. ASSUME NEW m \in Renders
          PROVE  [catchUp[m] EXCEPT !.touched = @ \cup {c}].data = catchUp[m].data
      BY PageFields DEF CatchUpRecord
    <3> QED BY <2>1, <3>1
  <2>3. UNCHANGED <<server, latest, carried, updated, render>>
    BY <1>12 DEF ResultUpdated, puts, fanout, rendering
  <2>4. \A d \in Rows : view'[d] # Absent => view'[d] <= db'[d]
    BY <1>2, <2>1, <2>3 DEF server
  <2> QED BY <1>1, <1>2, <2>2, <2>3, <2>4, AheadStays DEF server
<1>13. CASE ResultsPopulated
  <2>1. \A m \in Renders : render'[m].data = render[m].data
    <3>1. ASSUME NEW m \in Renders
          PROVE  [render[m] EXCEPT !.at = "asked"].data = render[m].data
      BY PageFields DEF RenderRecord
    <3> QED BY <1>13, <3>1 DEF ResultsPopulated, PageTypeOK
  <2> QED BY <1>3, <1>13, <2>1 DEF ResultsPopulated, puts, fanout
<1>14. ASSUME NEW n \in Renders, ServeCatchUp(n) PROVE NothingAhead'
  <2>1. \A m \in Renders : \A c \in Rows :
          catchUp'[m].data[c] \in {catchUp[m].data[c], Absent, db[c]}
    <3>1. PICK was \in CatchUpRecord : was = catchUp[n]
      BY PageFields
    <3>2. [was EXCEPT !.at = "served", !.data = Snapshot].data = Snapshot
      BY DEF CatchUpRecord
    <3>3. catchUp' = [catchUp EXCEPT ![n] = [was EXCEPT !.at = "served", !.data = Snapshot]]
      BY <1>14, <3>1 DEF ServeCatchUp
    <3>4. catchUp'[n].data = Snapshot /\ \A m \in Renders \ {n} : catchUp'[m] = catchUp[m]
      BY <3>2, <3>3 DEF PageTypeOK
    <3>5. \A c \in Rows : catchUp'[n].data[c] \in {Absent, db[c]}
      BY <3>4, SnapshotIs
    <3> QED BY <3>4, <3>5
  <2> QED BY <1>3, <1>14, <2>1 DEF ServeCatchUp, puts, fanout, rendering
<1>15. ASSUME NEW n \in Renders, EndCatchUp(n)
       PROVE  \A m \in Renders : \A c \in Rows :
                catchUp'[m].data[c] \in {catchUp[m].data[c], Absent}
  <2>1. catchUp'[n].data = NotFetched /\ \A m \in Renders \ {n} : catchUp'[m] = catchUp[m]
    BY <1>15, CatchUpEnds
  <2> QED BY <2>1 DEF NotFetched
<1>16. ASSUME NEW n \in Renders, CaughtUp(n) PROVE NothingAhead'
  <2>1. \A c \in Rows : view'[c] \in {view[c], catchUp[n].data[c]}
    BY <1>16 DEF CaughtUp, Reconciled
  <2>2. \A c \in Rows : view'[c] # Absent => view'[c] <= db[c]
    BY <2>1 DEF NothingAhead
  <2>3. UNCHANGED <<server, puts, fanout, render>> /\ EndCatchUp(n)
    BY <1>16 DEF CaughtUp, rendering
  <2>4. \A m \in Renders : \A c \in Rows : catchUp'[m].data[c] \in {catchUp[m].data[c], Absent}
    BY <1>15, <2>3
  <2> QED BY <1>1, <1>2, <2>2, <2>3, <2>4, AheadStays DEF server, puts, fanout
<1>17. ASSUME NEW n \in Renders, CatchUpFails(n) PROVE NothingAhead'
  <2>1. UNCHANGED <<server, puts, fanout, render, view>> /\ EndCatchUp(n)
    BY <1>17 DEF CatchUpFails, rendering
  <2>2. \A m \in Renders : \A c \in Rows : catchUp'[m].data[c] \in {catchUp[m].data[c], Absent}
    BY <1>15, <2>1
  <2> QED BY <1>3, <2>1, <2>2 DEF puts, fanout
<1>18. ASSUME NEW u \in Updates, Answer(u) PROVE NothingAhead'
  <2>1. view' = view \/ view' = [view EXCEPT ![updated[u]] = carried[u]]
    BY <1>18 DEF Answer
  <2>2. \A c \in Rows : view'[c] # Absent => view'[c] <= db[c]
    BY <1>2, <2>1
  <2>3. UNCHANGED <<server, latest, carried, updated, render, catchUp>>
    BY <1>18 DEF Answer, fanout, rendering
  <2> QED BY <1>1, <1>2, <2>2, <2>3, AheadStays DEF server
<1> QED BY <1>4, <1>5, <1>6, <1>7, <1>8, <1>9, <1>10, <1>11, <1>12, <1>13, <1>14, <1>16, <1>17,
       <1>18, <1>19 DEF PageNext, ServerStep, PageStep, Loses

\* What a broadcast does to the latest status and to the wire.
LEMMA BroadcastIs ==
  ASSUME PageTypeOK, NEW u \in Updates, Broadcast(u)
  PROVE  \E c \in Rows, s \in Nat, m \in Messages :
           /\ c = updated[u] /\ s = carried[u]
           /\ m.type = "result_updated" /\ m.case = c /\ m.status = s
           /\ Send(m)
           /\ latest'[c] = IF s > latest[c] THEN s ELSE latest[c]
           /\ \A d \in Rows \ {c} : latest'[d] = latest[d]
           /\ latest'[c] \in Nat /\ latest[c] \in Nat
           /\ late' = (late \/ s < latest[c])
           /\ UNCHANGED <<server, rendering, missed, socket, catchUp, touching, view, history>>
<1> DEFINE m == [type |-> "result_updated", case |-> updated[u], status |-> carried[u]]
<1>1. m \in Messages /\ m.type = "result_updated" /\ m.case = updated[u] /\ m.status = carried[u]
  BY PageFields DEF Messages
<1>2. Send(m)
  BY DEF Broadcast
<1> HIDE DEF m
<1>3. updated[u] \in Rows /\ carried[u] \in Nat /\ latest \in [Rows -> Nat]
  BY PageFields DEF PageTypeOK
<1>4. latest' = [latest EXCEPT ![updated[u]] =
                   IF carried[u] > latest[updated[u]] THEN carried[u] ELSE latest[updated[u]]]
      /\ late' = (late \/ carried[u] < latest[updated[u]])
      /\ UNCHANGED <<server, rendering, missed, socket, catchUp, touching, view, history>>
  BY DEF Broadcast, Noted
<1> QED BY <1>1, <1>2, <1>3, <1>4

LEMMA NewsStep ==
  ASSUME PageTypeOK, PageTypeOK', NothingAhead, NewsToCome, [PageNext]_pageVars
  PROVE  NewsToCome'
<1>1. ASSUME NEW u \in Updates, CommitUpdate(u) PROVE NewsToCome'
  <2>1. /\ updateAt[u] = "idle" /\ updateAt' = [updateAt EXCEPT ![u] = "committed"]
        /\ db' = [db EXCEPT ![updated[u]] = commits + 1]
        /\ carried' = [carried EXCEPT ![u] = commits + 1]
        /\ UNCHANGED <<updated, latest, relay>>
    BY <1>1 DEF CommitUpdate, fanout
  <2>2. \A v \in Updates : /\ updateAt'[v] = IF v = u THEN "committed" ELSE updateAt[v]
                           /\ carried'[v] = IF v = u THEN commits + 1 ELSE carried[v]
    BY <2>1 DEF PageTypeOK
  <2>3. ASSUME NEW c \in Rows
        PROVE  db'[c] = latest'[c] \/ \E v \in Updates : updated'[v] = c /\ Awaits(v)'
    <3>1. CASE c = updated[u]
      <4>1. db'[c] = commits + 1
        BY <2>1, <3>1 DEF PageTypeOK
      <4> QED BY <2>1, <2>2, <3>1, <4>1 DEF Awaits
    <3>2. CASE c # updated[u]
      <4>1. db'[c] = db[c]
        BY <2>1, <3>2 DEF PageTypeOK
      <4>2. ASSUME NEW v \in Updates, updated[v] = c, Awaits(v) PROVE Awaits(v)'
        <5>1. /\ v # u /\ updateAt'[v] = updateAt[v] /\ carried'[v] = carried[v]
              /\ db'[updated'[v]] = db[updated[v]]
          BY <2>1, <2>2, <3>2, <4>1, <4>2
        <5> QED BY <2>1, <4>2, <5>1 DEF Awaits
      <4> QED BY <2>1, <4>1, <4>2 DEF NewsToCome
    <3> QED BY <3>1, <3>2
  <2> QED BY <2>3 DEF NewsToCome
<1>2. ASSUME NEW u \in Updates, RefreshUpdate(u) PROVE NewsToCome'
  <2>1. /\ updateAt[u] = "committed" /\ updateAt' = [updateAt EXCEPT ![u] = "refreshed"]
        /\ carried' = [carried EXCEPT ![u] = db[updated[u]]]
        /\ UNCHANGED <<updated, db, latest, relay>>
    BY <1>2 DEF RefreshUpdate, server, fanout
  <2>2. \A v \in Updates : /\ updateAt'[v] = IF v = u THEN "refreshed" ELSE updateAt[v]
                           /\ carried'[v] = IF v = u THEN db[updated[u]] ELSE carried[v]
    BY <2>1 DEF PageTypeOK
  <2>3. \A v \in Updates : Awaits(v) => Awaits(v)'
    BY <2>1, <2>2 DEF Awaits
  <2> QED BY <2>1, <2>3 DEF NewsToCome
<1>3. ASSUME NEW u \in Updates, Publish(u) PROVE NewsToCome'
  <2>1. /\ updateAt[u] = "refreshed" /\ relay' = relay \cup {u}
        /\ \A v \in Updates \ {u} : updateAt'[v] = updateAt[v]
        /\ UNCHANGED <<updated, carried, db, latest>>
    BY <1>3 DEF Publish, server, PageTypeOK
  <2>2. \A v \in Updates : Awaits(v) => Awaits(v)'
    BY <2>1 DEF Awaits
  <2> QED BY <2>1, <2>2 DEF NewsToCome
\* An update that is broadcast or lost notes the status it carries.
<1>4. ASSUME NEW u \in Updates, NEW c \in Rows, NEW s \in Nat, c = updated[u], s = carried[u],
             latest'[c] = IF s > latest[c] THEN s ELSE latest[c],
             \A d \in Rows \ {c} : latest'[d] = latest[d],
             \A v \in Updates \ {u} : updateAt'[v] = updateAt[v] /\ (v \in relay => v \in relay'),
             UNCHANGED <<updated, carried, db>>
      PROVE  NewsToCome'
  <2>1. s <= db[c] /\ db[c] \in Nat /\ latest[c] <= db[c] /\ latest[c] \in Nat
    BY <1>4, PageFields DEF NothingAhead
  <2>2. ASSUME NEW d \in Rows
        PROVE  db'[d] = latest'[d] \/ \E v \in Updates : updated'[v] = d /\ Awaits(v)'
    <3>1. CASE db[d] = latest[d]
      <4>1. latest'[d] = latest[d]
        BY <1>4, <2>1, <3>1
      <4> QED BY <1>4, <3>1, <4>1
    <3>2. ASSUME NEW v \in Updates, updated[v] = d, Awaits(v)
          PROVE  db'[d] = latest'[d] \/ \E w \in Updates : updated'[w] = d /\ Awaits(w)'
      <4>1. CASE v # u
        <5>1. Awaits(v)'
          BY <1>4, <3>2, <4>1 DEF Awaits
        <5> QED BY <1>4, <3>2, <5>1
      <4>2. CASE v = u
        <5>1. d = c /\ s = db[c]
          BY <1>4, <3>2, <4>2 DEF Awaits
        <5> QED BY <1>4, <2>1, <5>1
      <4> QED BY <4>1, <4>2
    <3> QED BY <3>1, <3>2 DEF NewsToCome
  <2> QED BY <2>2 DEF NewsToCome
<1>5. ASSUME NEW u \in Updates, Broadcast(u) PROVE NewsToCome'
  <2>1. PICK c \in Rows, s \in Nat :
          /\ c = updated[u] /\ s = carried[u]
          /\ latest'[c] = IF s > latest[c] THEN s ELSE latest[c]
          /\ \A d \in Rows \ {c} : latest'[d] = latest[d]
    BY <1>5, BroadcastIs
  <2>2. relay' = relay \ {u} /\ UNCHANGED <<updateAt, updated, carried, db>>
    BY <1>5 DEF Broadcast, server, puts
  <2> QED BY <1>4, <2>1, <2>2
<1>6. ASSUME NEW u \in Updates, Loses(u) PROVE NewsToCome'
  <2>1. PICK c \in Rows, s \in Nat :
          /\ c = updated[u] /\ s = carried[u]
          /\ latest'[c] = IF s > latest[c] THEN s ELSE latest[c]
          /\ \A d \in Rows \ {c} : latest'[d] = latest[d]
          /\ UNCHANGED <<server, updated, carried>>
    BY <1>6, LosesIs, LostIs
  <2>2. \A v \in Updates \ {u} : updateAt'[v] = updateAt[v] /\ (v \in relay => v \in relay')
    BY <1>6, LosesIs DEF PageTypeOK
  <2> QED BY <1>4, <2>1, <2>2 DEF server
<1>7. ASSUME NEW u \in Updates, Answer(u) PROVE NewsToCome'
  <2>1. /\ UNCHANGED <<updated, carried, db, latest, relay>>
        /\ \A v \in Updates : updateAt'[v] = updateAt[v] \/ updateAt[v] = "answered"
    BY <1>7 DEF Answer, server, fanout, PageTypeOK
  <2>2. \A v \in Updates : Awaits(v) => Awaits(v)'
    BY <2>1 DEF Awaits
  <2> QED BY <2>1, <2>2 DEF NewsToCome
<1>8. CASE UNCHANGED <<updated, carried, db, latest, updateAt, relay>>
  BY <1>8 DEF NewsToCome, Awaits
<1>9. \/ \E u \in Updates : CommitUpdate(u) \/ RefreshUpdate(u) \/ Publish(u)
      \/ \E u \in Updates : Broadcast(u) \/ Loses(u) \/ Answer(u)
      \/ UNCHANGED <<updated, carried, db, latest, updateAt, relay>>
  BY DEF PageNext, ServerStep, PageStep, Loses, Populate, SocketDrops, CatchUpFails, Announce,
    AnnouncementLost, Join, ServeRender, ServeCatchUp, Subscribed, ResultUpdated,
    ResultsPopulated, Rendered, CaughtUp, pageVars, server, puts, fanout
<1> QED BY <1>1, <1>2, <1>3, <1>5, <1>6, <1>7, <1>8, <1>9


\* Whoever is told of a row at the head or behind it.
LEMMA WireAhead ==
  ASSUME PageTypeOK, wire # <<>>, wire' = Tail(wire), NEW c, OnWire(c), ~About(1, c)
  PROVE  OnWire(c)'
<1>1. PICK i \in 1..Len(wire) : About(i, c)
  BY DEF OnWire
<1>2. /\ Len(wire) \in Nat /\ Len(wire') = Len(wire) - 1
      /\ \A j \in 1..Len(wire') : wire'[j] = wire[j + 1]
  BY WireMovesUp
<1>3. i # 1 /\ i - 1 \in 1..Len(wire') /\ (i - 1) + 1 = i
  BY <1>1, <1>2
<1>4. wire'[i - 1] = wire[i]
  BY <1>2, <1>3
<1> QED BY <1>1, <1>3, <1>4 DEF OnWire, About

LEMMA WireStep ==
  ASSUME PageTypeOK, RendersInOrder, WireIsCurrent, [PageNext]_pageVars
  PROVE  WireIsCurrent'
<1>1. /\ Len(wire) \in Nat
      /\ \A i \in 1..Len(wire) :
           wire[i].type = "result_updated" => wire[i].case \in Rows /\ wire[i].status \in Nat
  BY WireFields
<1>2. ASSUME UNCHANGED <<latest, late, missed>>, NEW m \in Messages,
             m.type # "result_updated", Send(m)
      PROVE  WireIsCurrent'
  <2>1. CASE socket = "joined"
    <3>1. /\ Len(wire') = Len(wire) + 1 /\ \A i \in 1..Len(wire) : wire'[i] = wire[i]
          /\ wire'[Len(wire) + 1] = m
      BY <1>2, <2>1, WireGrows
    <3>2. ASSUME NEW i \in 1..Len(wire'), wire'[i].type = "result_updated"
          PROVE  /\ wire'[i].status <= latest'[wire'[i].case]
                 /\ \/ late' \/ wire'[i].case \in missed'
                    \/ wire'[i].status = latest'[wire'[i].case]
                    \/ \E j \in i + 1..Len(wire') :
                         wire'[j].type = "result_updated" /\ wire'[j].case = wire'[i].case
      <4>1. i \in 1..Len(wire) /\ wire'[i] = wire[i]
        BY <1>1, <1>2, <3>1, <3>2
      <4>2. \A j \in i + 1..Len(wire) : j \in i + 1..Len(wire') /\ wire'[j] = wire[j]
        BY <1>1, <3>1, <4>1
      <4>3. /\ wire[i].status <= latest[wire[i].case]
            /\ \/ late \/ wire[i].case \in missed \/ wire[i].status = latest[wire[i].case]
               \/ \E j \in i + 1..Len(wire) : About(j, wire[i].case)
        BY <3>2, <4>1 DEF WireIsCurrent
      <4> QED BY <1>2, <4>1, <4>2, <4>3 DEF About
    <3> QED BY <3>2 DEF WireIsCurrent, About
  <2>2. CASE socket # "joined"
    BY <1>2, <2>2, WireGrows DEF WireIsCurrent, About
  <2> QED BY <2>1, <2>2
<1>3. ASSUME NEW u \in Updates, Broadcast(u) PROVE WireIsCurrent'
  <2>1. PICK c \in Rows, s \in Nat, m \in Messages :
           /\ m.type = "result_updated" /\ m.case = c /\ m.status = s
           /\ Send(m)
           /\ latest'[c] = IF s > latest[c] THEN s ELSE latest[c]
           /\ \A d \in Rows \ {c} : latest'[d] = latest[d]
           /\ latest'[c] \in Nat /\ latest[c] \in Nat
           /\ late' = (late \/ s < latest[c]) /\ missed' = missed
    BY <1>3, BroadcastIs
  <2>2. CASE socket = "joined"
    <3>1. /\ Len(wire') = Len(wire) + 1 /\ \A i \in 1..Len(wire) : wire'[i] = wire[i]
          /\ wire'[Len(wire) + 1] = m
      BY <2>1, <2>2, WireGrows
    <3>2. ASSUME NEW i \in 1..Len(wire'), wire'[i].type = "result_updated"
          PROVE  /\ wire'[i].status <= latest'[wire'[i].case]
                 /\ \/ late' \/ wire'[i].case \in missed'
                    \/ wire'[i].status = latest'[wire'[i].case]
                    \/ \E j \in i + 1..Len(wire') :
                         wire'[j].type = "result_updated" /\ wire'[j].case = wire'[i].case
      <4>1. CASE i \in 1..Len(wire)
        <5>1. wire'[i] = wire[i] /\ wire[i].case \in Rows /\ wire[i].status \in Nat
          BY <1>1, <3>1, <3>2, <4>1
        <5>2. \A j \in i + 1..Len(wire) : j \in i + 1..Len(wire') /\ wire'[j] = wire[j]
          BY <1>1, <3>1, <4>1
        <5>3. /\ wire[i].status <= latest[wire[i].case]
              /\ \/ late \/ wire[i].case \in missed \/ wire[i].status = latest[wire[i].case]
                 \/ \E j \in i + 1..Len(wire) : About(j, wire[i].case)
          BY <3>2, <4>1, <5>1 DEF WireIsCurrent
        <5>4. CASE wire[i].case = c
          <6>1. Len(wire) + 1 \in i + 1..Len(wire')
            BY <1>1, <3>1, <4>1
          <6>2. wire[i].status <= latest'[c]
            BY <2>1, <5>1, <5>3, <5>4
          <6> QED BY <2>1, <3>1, <5>1, <5>4, <6>1, <6>2
        <5>5. CASE wire[i].case # c
          <6>1. latest'[wire[i].case] = latest[wire[i].case]
            BY <2>1, <5>1, <5>5
          <6> QED BY <2>1, <5>1, <5>2, <5>3, <6>1 DEF About
        <5> QED BY <5>4, <5>5
      <4>2. CASE i \notin 1..Len(wire)
        <5>1. i = Len(wire) + 1
          BY <1>1, <3>1, <4>2
        <5>2. s <= latest'[c] /\ (s >= latest[c] => s = latest'[c])
          BY <2>1
        <5>3. s < latest[c] \/ s >= latest[c]
          BY <2>1
        <5> QED BY <2>1, <3>1, <5>1, <5>2, <5>3
      <4> QED BY <4>1, <4>2
    <3> QED BY <3>2 DEF WireIsCurrent, About
  <2>3. CASE socket # "joined"
    <3>1. wire' = <<>>
      BY <2>1, <2>3, WireGrows DEF RendersInOrder
    <3> QED BY <3>1 DEF WireIsCurrent
  <2> QED BY <2>2, <2>3
<1>4. ASSUME wire # <<>>, wire' = Tail(wire), UNCHANGED <<latest, late, missed>>
      PROVE  WireIsCurrent'
  <2>1. /\ Len(wire') = Len(wire) - 1
        /\ \A i \in 1..Len(wire') : i + 1 \in 1..Len(wire) /\ wire'[i] = wire[i + 1]
    BY <1>4, WireMovesUp
  <2>2. ASSUME NEW i \in 1..Len(wire'), wire'[i].type = "result_updated"
        PROVE  /\ wire'[i].status <= latest'[wire'[i].case]
               /\ \/ late' \/ wire'[i].case \in missed' \/ wire'[i].status = latest'[wire'[i].case]
                  \/ \E j \in i + 1..Len(wire') :
                       wire'[j].type = "result_updated" /\ wire'[j].case = wire'[i].case
    <3>1. i + 1 \in 1..Len(wire) /\ wire'[i] = wire[i + 1]
      BY <2>1
    <3>2. /\ wire[i + 1].status <= latest[wire[i + 1].case]
          /\ \/ late \/ wire[i + 1].case \in missed
             \/ wire[i + 1].status = latest[wire[i + 1].case]
             \/ \E j \in (i + 1) + 1..Len(wire) : About(j, wire[i + 1].case)
      BY <2>2, <3>1 DEF WireIsCurrent
    <3>3. ASSUME NEW j \in (i + 1) + 1..Len(wire), About(j, wire[i + 1].case)
          PROVE  \E k \in i + 1..Len(wire') :
                   wire'[k].type = "result_updated" /\ wire'[k].case = wire'[i].case
      <4>1. j - 1 \in i + 1..Len(wire') /\ j - 1 \in 1..Len(wire') /\ (j - 1) + 1 = j
        BY <1>1, <2>1
      <4>2. wire'[j - 1] = wire[j]
        BY <2>1, <4>1
      <4> QED BY <3>1, <3>3, <4>1, <4>2 DEF About
    <3> QED BY <1>4, <3>1, <3>2, <3>3
  <2> QED BY <2>2 DEF WireIsCurrent, About
<1>5. CASE Announce
  <2>1. [type |-> "results_populated"] \in Messages
    BY DEF Messages
  <2> QED BY <1>2, <1>5, <2>1 DEF Announce, puts, fanout
<1>6. CASE Join
  <2>1. Len(wire') = 1 /\ wire'[1].type = "subscribed"
    BY <1>6 DEF Join
  <2> QED BY <2>1 DEF WireIsCurrent
<1>7. CASE SocketDrops \/ \E n \in Renders : Rendered(n)
  <2>1. wire' = <<>>
    BY <1>7 DEF SocketDrops, Rendered
  <2> QED BY <2>1 DEF WireIsCurrent
<1>8. CASE Subscribed \/ ResultUpdated \/ ResultsPopulated
  BY <1>4, <1>8 DEF Subscribed, ResultUpdated, ResultsPopulated, Arrives, puts, fanout
<1>9. CASE \/ Populate \/ AnnouncementLost \/ UNCHANGED pageVars
           \/ \E u \in Updates : CommitUpdate(u) \/ RefreshUpdate(u) \/ Publish(u) \/ Answer(u)
           \/ \E n \in Renders : ServeRender(n) \/ ServeCatchUp(n) \/ CaughtUp(n) \/ CatchUpFails(n)
  <2>1. UNCHANGED <<wire, latest, late, missed>>
    BY <1>9 DEF Populate, AnnouncementLost, CommitUpdate, RefreshUpdate, Publish, Answer,
      ServeRender, ServeCatchUp, CaughtUp, CatchUpFails, pageVars, fanout
  <2> QED BY <2>1 DEF WireIsCurrent, About
\* A status is lost: the messages about its row are excused.
<1>10. ASSUME NEW u \in Updates, Loses(u) PROVE WireIsCurrent'
  <2>1. PICK c \in Rows, s \in Nat :
          /\ latest'[c] = IF s > latest[c] THEN s ELSE latest[c]
          /\ latest[c] \in Nat
          /\ \A d \in Rows \ {c} : latest'[d] = latest[d]
          /\ missed' = missed \cup {c} /\ UNCHANGED <<wire, late>>
    BY <1>10, LosesIs, LostIs
  <2>2. ASSUME NEW i \in 1..Len(wire), wire[i].type = "result_updated"
        PROVE  /\ wire[i].status <= latest'[wire[i].case]
               /\ \/ late \/ wire[i].case \in missed' \/ wire[i].status = latest'[wire[i].case]
                  \/ \E j \in i + 1..Len(wire) : About(j, wire[i].case)
    <3>1. /\ wire[i].case \in Rows /\ wire[i].status \in Nat
          /\ wire[i].status <= latest[wire[i].case]
          /\ \/ late \/ wire[i].case \in missed \/ wire[i].status = latest[wire[i].case]
             \/ \E j \in i + 1..Len(wire) : About(j, wire[i].case)
      BY <1>1, <2>2 DEF WireIsCurrent
    <3> QED BY <2>1, <3>1
  <2> QED BY <2>1, <2>2 DEF WireIsCurrent, About
<1> QED BY <1>3, <1>5, <1>6, <1>7, <1>8, <1>9, <1>10 DEF PageNext, ServerStep, PageStep, Loses

LEMMA RowsStep ==
  ASSUME PageTypeOK, RendersInOrder, RowsAnnounced, [PageNext]_pageVars
  PROVE  RowsAnnounced'
<1> DEFINE Lacks(x) == \E c \in Rows : x[c] = Absent
<1>1. /\ \A n \in Renders :
           render[n].at = "served" /\ populated /\ Lacks(render[n].data) =>
             n = 1 /\ (announced \in {"due", "never"} \/ unheard)
      /\ page # 0 /\ populated /\ Lacks(view) =>
           \/ unheard \/ announced \in {"due", "never"}
           \/ InWire("results_populated") \/ render[2].at # "none"
      /\ 1 \in Renders /\ 2 \in Renders /\ unheard \in BOOLEAN
  BY DEF RowsAnnounced, Renders, PageTypeOK
<1>2. \A c \in Rows : db[c] # Absent
  BY PageFields, PageAssumption
\* A step that touches neither the renders nor the announcement.
<1>3. ASSUME UNCHANGED <<populated, announced, rendering>>, unheard => unheard',
             Lacks(view)' => Lacks(view),
             InWire("results_populated") => InWire("results_populated")' \/ unheard'
      PROVE  RowsAnnounced'
  BY <1>1, <1>3 DEF RowsAnnounced, rendering
<1>4. CASE Populate
  <2>1. /\ announced = "no" /\ announced' \in {"due", "never"}
        /\ UNCHANGED <<rendering, view, unheard>>
    BY <1>4 DEF Populate, RendersInOrder, history
  <2>2. render[2].at = "none"
    BY <1>4, <2>1 DEF RendersInOrder, Populate
  <2> QED BY <2>1, <2>2, <1>1 DEF RowsAnnounced, rendering, Renders
<1>5. CASE Announce
  <2>1. /\ announced = "due" /\ announced' = "sent" /\ UNCHANGED <<populated, rendering, view>>
        /\ unheard' = (unheard \/ socket # "joined")
    BY <1>5 DEF Announce
  <2>2. socket = "joined" => InWire("results_populated")'
    <3>1. [type |-> "results_populated"] \in Messages
      BY DEF Messages
    <3>2. ASSUME socket = "joined" PROVE InWire("results_populated")'
      <4>1. /\ Len(wire) \in Nat /\ Len(wire') = Len(wire) + 1
            /\ wire'[Len(wire) + 1] = [type |-> "results_populated"]
        BY <1>5, <3>1, <3>2, WireGrows DEF Announce
      <4>2. Len(wire) + 1 \in 1..Len(wire')
        BY <4>1
      <4> QED BY <4>1, <4>2 DEF InWire
    <3> QED BY <3>2
  <2>3. render[1].at = "served" => socket # "joined"
    BY DEF RendersInOrder
  <2> QED BY <1>1, <2>1, <2>2, <2>3 DEF RowsAnnounced, rendering
<1>18. CASE AnnouncementLost
  <2>1. unheard' /\ UNCHANGED <<populated, rendering, view>> /\ announced = "due"
    BY <1>18 DEF AnnouncementLost
  <2> QED BY <1>1, <2>1 DEF RowsAnnounced, rendering
<1>6. ASSUME NEW n \in Renders, ServeRender(n) PROVE RowsAnnounced'
  <2>1. /\ render[n].at = "asked"
        /\ render' = [render EXCEPT ![n] = [at |-> "served", data |-> Snapshot]]
        /\ UNCHANGED <<populated, announced, page, view, unheard, wire>>
    BY <1>6 DEF ServeRender, server, history
  <2>2. /\ render'[n].at = "served" /\ render'[n].data = Snapshot
        /\ \A m \in Renders \ {n} : render'[m] = render[m]
    BY <2>1 DEF PageTypeOK
  <2>3. populated => ~Lacks(Snapshot)
    BY <1>2, SnapshotIs
  <2>4. render[2].at # "none" => render'[2].at # "none"
    BY <1>1, <2>2
  <2>5. \A m \in Renders :
           render'[m].at = "served" /\ populated' /\ Lacks(render'[m].data) =>
             m = 1 /\ (announced' \in {"due", "never"} \/ unheard')
    BY <1>1, <2>1, <2>2, <2>3
  <2> QED BY <1>1, <2>1, <2>4, <2>5 DEF RowsAnnounced, InWire
<1>7. ASSUME NEW n \in Renders, Rendered(n) PROVE RowsAnnounced'
  <2>1. /\ render[n].at = "served" /\ view' = render[n].data /\ page' = n
        /\ UNCHANGED <<populated, announced>>
        /\ unheard => unheard'
        /\ render' = [render EXCEPT ![n] = NoRender]
    BY <1>1, <1>7 DEF Rendered, server
  <2>2. \A m \in Renders : render'[m].at = "served" => m # n /\ render'[m] = render[m]
    BY <2>1 DEF PageTypeOK, NoRender
  <2>3. populated /\ Lacks(view') => announced \in {"due", "never"} \/ unheard
    BY <1>1, <2>1
  <2> QED BY <1>1, <2>1, <2>2, <2>3 DEF RowsAnnounced
<1>8. CASE SocketDrops
  BY <1>3, <1>8 DEF SocketDrops, server
<1>9. ASSUME wire # <<>>, wire' = Tail(wire), Head(wire).type # "results_populated",
             InWire("results_populated")
      PROVE  InWire("results_populated")'
  <2>1. PICK i \in 1..Len(wire) : wire[i].type = "results_populated"
    BY <1>9 DEF InWire
  <2>2. /\ Len(wire) \in Nat /\ Len(wire') = Len(wire) - 1 /\ Head(wire) = wire[1]
        /\ \A j \in 1..Len(wire') : wire'[j] = wire[j + 1]
    BY <1>9, WireMovesUp
  <2>3. i - 1 \in 1..Len(wire') /\ (i - 1) + 1 = i
    BY <1>9, <2>1, <2>2
  <2>4. wire'[i - 1] = wire[i]
    BY <2>2, <2>3
  <2> QED BY <2>1, <2>3, <2>4 DEF InWire
<1>10. CASE Subscribed
  BY <1>3, <1>9, <1>10 DEF Subscribed, Arrives, server
<1>11. CASE ResultUpdated
  <2>1. Lacks(view)' => Lacks(view)
    <3>1. Head(wire).status # Absent
      BY <1>11, WireMovesUp, WireFields, PageAssumption DEF ResultUpdated, Arrives
    <3>2. view' = view \/ view' = [view EXCEPT ![Head(wire).case] = Head(wire).status]
      BY <1>11 DEF ResultUpdated
    <3> QED BY <3>1, <3>2 DEF PageTypeOK, Fetches
  <2> QED BY <1>3, <1>9, <1>11, <2>1 DEF ResultUpdated, Arrives, server, history
<1>12. CASE ResultsPopulated
  <2>1. renders = 1
    <3>1. Head(wire) = wire[1] /\ 1 \in 1..Len(wire)
      BY <1>12, WireMovesUp DEF ResultsPopulated, Arrives
    <3> QED BY <1>12, <3>1 DEF ResultsPopulated, Arrives, RendersInOrder
  <2>2. /\ render' = [render EXCEPT ![2].at = "asked"]
        /\ UNCHANGED <<populated, announced, page, view, unheard>>
    <3>1. renders + 1 = 2
      BY <2>1
    <3> QED BY <1>12, <3>1 DEF ResultsPopulated, server, history
  <2>3. render'[2].at = "asked" /\ render'[1] = render[1]
    <3>1. PICK was \in RenderRecord : was = render[2]
      BY <1>1, PageFields
    <3>2. [was EXCEPT !.at = "asked"].at = "asked"
      BY DEF RenderRecord
    <3>3. render' = [render EXCEPT ![2] = [was EXCEPT !.at = "asked"]]
      BY <2>2, <3>1
    <3> QED BY <1>1, <3>2, <3>3 DEF PageTypeOK
  <2>4. \A n \in Renders : render'[n].at = "served" => n = 1 /\ render'[n] = render[n]
    BY <2>3 DEF Renders
  <2> QED BY <1>1, <2>2, <2>3, <2>4 DEF RowsAnnounced
<1>13. ASSUME NEW n \in Renders, CaughtUp(n) PROVE RowsAnnounced'
  <2>1. Lacks(view)' => Lacks(view)
    BY <1>13 DEF CaughtUp, Reconciled
  <2> QED BY <1>3, <1>13, <2>1 DEF CaughtUp, server, history, InWire
<1>14. ASSUME NEW u \in Updates, Answer(u) PROVE RowsAnnounced'
  <2>1. Lacks(view)' => Lacks(view)
    <3>1. \A c \in Rows : carried[u] # Absent
      BY PageFields, PageAssumption
    <3> QED BY <1>14, <3>1 DEF Answer, PageTypeOK, Fetches
  <2> QED BY <1>3, <1>14, <2>1 DEF Answer, server, InWire
<1>15. ASSUME NEW u \in Updates, Broadcast(u) PROVE RowsAnnounced'
  <2>1. PICK m \in Messages : Send(m) /\ UNCHANGED <<server, rendering, socket, view, history>>
    BY <1>15, BroadcastIs
  <2>2. InWire("results_populated") => InWire("results_populated")'
    <3>1. CASE socket = "joined"
      <4>1. /\ Len(wire') = Len(wire) + 1 /\ Len(wire) \in Nat
            /\ \A i \in 1..Len(wire) : wire'[i] = wire[i]
        BY <2>1, <3>1, WireGrows
      <4>2. \A i \in 1..Len(wire) : i \in 1..Len(wire')
        BY <4>1
      <4> QED BY <4>1, <4>2 DEF InWire
    <3>2. CASE socket # "joined"
      BY <2>1, <3>2, WireGrows DEF InWire
    <3> QED BY <3>1, <3>2
  <2> QED BY <1>3, <2>1, <2>2 DEF server, history
<1>16. CASE Join
  <2>1. ~InWire("results_populated")
    BY <1>16 DEF Join, RendersInOrder, InWire
  <2> QED BY <1>3, <1>16, <2>1 DEF Join, server, history
<1>17. CASE \/ UNCHANGED pageVars
            \/ \E u \in Updates : CommitUpdate(u) \/ RefreshUpdate(u) \/ Publish(u) \/ Loses(u)
            \/ \E n \in Renders : ServeCatchUp(n) \/ CatchUpFails(n)
  <2>1. UNCHANGED <<populated, announced, rendering, view, wire, unheard>>
    BY <1>17 DEF CommitUpdate, RefreshUpdate, Publish, Loses, BroadcastMisses, UpdateDies, Lost,
      ServeCatchUp, CatchUpFails, pageVars, server, history
  <2> QED BY <1>3, <2>1 DEF InWire
<1> QED BY <1>4, <1>5, <1>6, <1>7, <1>8, <1>10, <1>11, <1>12, <1>13, <1>14, <1>15, <1>16, <1>17,
       <1>18 DEF PageNext, ServerStep, PageStep, Loses


(* What the page shows *)

\* A page begins to listen only by handling "subscribed".
LEMMA ListenedBefore ==
  ASSUME PageTypeOK, RendersInOrder, [PageNext]_pageVars, Listening', ~Subscribed
  PROVE  /\ Listening /\ page' = page
         /\ ~Join /\ ~SocketDrops /\ \A n \in Renders : ~Rendered(n)
<1>1. socket' = "joined"
  BY DEF Listening
<1>2. ~Join
  <2> SUFFICES ASSUME Join PROVE FALSE
    OBVIOUS
  <2>1. 1 \in 1..Len(wire') /\ wire'[1].type = "subscribed"
    BY DEF Join
  <2> QED BY <2>1 DEF Listening, InWire
<1>3. ~SocketDrops /\ \A n \in Renders : ~Rendered(n)
  BY <1>1 DEF SocketDrops, Rendered
<1>4. socket = "joined" /\ page' = page
  BY <1>1, <1>2, <1>3
     DEF PageNext, ServerStep, PageStep, Populate, CatchUpFails, Announce, CommitUpdate,
       AnnouncementLost, RefreshUpdate, Publish, Broadcast, BroadcastMisses, UpdateDies, Lost,
       ServeRender, ServeCatchUp, ResultUpdated, ResultsPopulated, CaughtUp, Answer, pageVars,
       rendering
<1>5. ASSUME NEW i \in 1..Len(wire), wire[i].type = "subscribed" PROVE FALSE
  <2>0. i = 1 /\ Len(wire) \in Nat /\ Len(wire) >= 1
    BY <1>5, WireFields DEF RendersInOrder
  <2>1. CASE wire' = wire
    BY <1>5, <2>1 DEF Listening, InWire
  <2>2. ASSUME NEW m \in Messages, Send(m) PROVE FALSE
    <3>1. Len(wire') = Len(wire) + 1 /\ wire'[1] = wire[1]
      BY <1>4, <2>0, <2>2, WireGrows
    <3>2. 1 \in 1..Len(wire')
      BY <2>0, <3>1
    <3> QED BY <1>5, <2>0, <3>1, <3>2 DEF Listening, InWire
  <2>3. CASE ResultUpdated \/ ResultsPopulated
    <3>1. Head(wire) = wire[1] /\ Head(wire).type # "subscribed"
      BY <2>3, WireMovesUp DEF ResultUpdated, ResultsPopulated, Arrives
    <3> QED BY <1>5, <2>0, <3>1
  <2>4. CASE Announce
    <3>1. [type |-> "results_populated"] \in Messages
      BY DEF Messages
    <3> QED BY <2>2, <2>4, <3>1 DEF Announce
  <2>5. CASE \E u \in Updates : Broadcast(u)
    BY <2>2, <2>5, BroadcastIs
  <2> QED BY <1>2, <1>3, <2>1, <2>3, <2>4, <2>5
       DEF PageNext, ServerStep, PageStep, Populate, AnnouncementLost, CatchUpFails, CommitUpdate,
         RefreshUpdate, Publish, BroadcastMisses, UpdateDies, Lost, ServeRender, ServeCatchUp,
         CaughtUp, Answer, pageVars
<1> QED BY <1>2, <1>3, <1>4, <1>5 DEF Listening, InWire

LEMMA SubscribedIs ==
  ASSUME PageTypeOK, RendersInOrder, Subscribed
  PROVE  /\ page \in Renders /\ page' = page
         /\ \A n \in Renders \ {page} : catchUp'[n] = catchUp[n]
         /\ catchUp'[page].at = "asked" /\ catchUp'[page].touched = catchUp[page].touched
<1>1. page \in Renders /\ page' = page
  BY DEF Subscribed, Arrives, RendersInOrder, PageTypeOK, Renders, rendering
<1>2. PICK was \in CatchUpRecord : was = catchUp[page]
  BY <1>1, PageFields
<1> DEFINE R == [was EXCEPT !.at = "asked"]
<1>3. R.at = "asked" /\ R.touched = was.touched
  BY DEF CatchUpRecord
<1>4. catchUp' = [catchUp EXCEPT ![page] = R]
  BY <1>2 DEF Subscribed
<1> HIDE DEF R
<1> QED BY <1>1, <1>2, <1>3, <1>4 DEF PageTypeOK

LEMMA ServeIs ==
  ASSUME PageTypeOK, NEW n \in Renders, ServeCatchUp(n)
  PROVE  /\ \A m \in Renders \ {n} : catchUp'[m] = catchUp[m]
         /\ catchUp[n].at = "asked" /\ catchUp'[n].at = "served"
         /\ catchUp'[n].touched = catchUp[n].touched /\ catchUp'[n].data = Snapshot
<1>1. PICK was \in CatchUpRecord : was = catchUp[n]
  BY PageFields
<1> DEFINE R == [was EXCEPT !.at = "served", !.data = Snapshot]
<1>2. R.at = "served" /\ R.touched = was.touched /\ R.data = Snapshot
  BY DEF CatchUpRecord
<1>3. catchUp' = [catchUp EXCEPT ![n] = R] /\ catchUp[n].at = "asked"
  BY <1>1 DEF ServeCatchUp
<1> HIDE DEF R
<1> QED BY <1>1, <1>2, <1>3 DEF PageTypeOK

LEMMA UpdatedIs ==
  ASSUME PageTypeOK, ResultUpdated
  PROVE  \E c \in Rows : \E s \in Nat :
           /\ About(1, c) /\ s = wire[1].status /\ 1 \in 1..Len(wire)
           /\ wire # <<>> /\ wire' = Tail(wire)
           /\ \A d \in Rows \ {c} : view'[d] = view[d]
           /\ IF view[c] = Absent THEN view'[c] = Absent ELSE view'[c] = s
           /\ \A n \in Renders :
                /\ catchUp'[n].at = catchUp[n].at /\ catchUp'[n].data = catchUp[n].data
                /\ catchUp'[n].touched = IF n = touching THEN catchUp[n].touched \cup {c}
                                                        ELSE catchUp[n].touched
           /\ UNCHANGED <<server, puts, fanout, rendering, socket, touching, history>>
<1>1. wire # <<>> /\ wire' = Tail(wire) /\ Head(wire) = wire[1] /\ 1 \in 1..Len(wire)
      /\ wire[1].type = "result_updated"
  BY WireMovesUp DEF ResultUpdated, Arrives
<1>2. PICK c \in Rows : c = wire[1].case /\ wire[1].status \in Nat
  BY <1>1, WireFields
<1>3. /\ catchUp' = [n \in Renders |->
            IF n = touching THEN [catchUp[n] EXCEPT !.touched = @ \cup {c}] ELSE catchUp[n]]
      /\ view' = IF view[c] = Absent THEN view ELSE [view EXCEPT ![c] = wire[1].status]
      /\ UNCHANGED <<server, puts, fanout, rendering, socket, touching, history>>
  BY <1>1, <1>2 DEF ResultUpdated
<1>4. ASSUME NEW n \in Renders
      PROVE  /\ catchUp'[n].at = catchUp[n].at /\ catchUp'[n].data = catchUp[n].data
             /\ catchUp'[n].touched = IF n = touching THEN catchUp[n].touched \cup {c}
                                                     ELSE catchUp[n].touched
  <2>1. PICK was \in CatchUpRecord : was = catchUp[n]
    BY PageFields
  <2> DEFINE R == [was EXCEPT !.touched = was.touched \cup {c}]
  <2>2. R.at = was.at /\ R.data = was.data /\ R.touched = was.touched \cup {c}
    BY DEF CatchUpRecord
  <2>3. catchUp'[n] = IF n = touching THEN R ELSE was
    BY <1>3, <2>1
  <2> HIDE DEF R
  <2> QED BY <2>1, <2>2, <2>3
<1>5. view \in [Rows -> Shown]
  BY DEF PageTypeOK, Fetches
<1>6. \A d \in Rows \ {c} : view'[d] = view[d]
  BY <1>3, <1>5
<1>7. IF view[c] = Absent THEN view'[c] = Absent ELSE view'[c] = wire[1].status
  BY <1>3, <1>5
<1> QED BY <1>1, <1>2, <1>3, <1>4, <1>6, <1>7 DEF About

LEMMA CatchingStep ==
  ASSUME PageTypeOK, RendersInOrder, CatchingUp, [PageNext]_pageVars
  PROVE  CatchingUp'
<1>1. CASE Subscribed
  <2>1. /\ page \in Renders /\ page' = page
        /\ \A n \in Renders \ {page} : catchUp'[n] = catchUp[n]
        /\ catchUp'[page].at = "asked"
    BY <1>1, SubscribedIs
  <2>2. touching' = page /\ (~overlapped' => \A n \in Renders : ~InFlight(n))
    BY <1>1 DEF Subscribed
  <2>3. InFlight(page)' /\ \A n \in Renders \ {page} : InFlight(n)' <=> InFlight(n)
    BY <2>1 DEF InFlight
  <2>4. \A n \in Renders : ~InFlight(n)' => catchUp'[n].touched = {}
    BY <2>1, <2>3 DEF CatchingUp
  <2>5. ~overlapped' => \A n \in Renders : InFlight(n)' => n = page' /\ touching' = page'
    BY <2>1, <2>2, <2>3
  <2> QED BY <2>4, <2>5 DEF CatchingUp
<1>2. ASSUME ~Subscribed, overlapped => overlapped',
             \A n \in Renders : ~InFlight(n)' => catchUp'[n].touched = {},
             \A n \in Renders : InFlight(n)' => InFlight(n),
             \A n \in Renders : InFlight(n)' /\ touching = n => touching' = n
      PROVE  CatchingUp'
  <2>1. ASSUME Listening', ~overlapped', NEW n \in Renders, InFlight(n)'
        PROVE  n = page' /\ touching' = page'
    <3>1. Listening /\ page' = page
      BY <1>2, <2>1, ListenedBefore
    <3>2. n = page /\ touching = n
      BY <1>2, <2>1, <3>1 DEF CatchingUp
    <3> QED BY <1>2, <2>1, <3>1, <3>2
  <2> QED BY <1>2, <2>1 DEF CatchingUp
<1>3. CASE ~Subscribed /\ ResultUpdated
  <2>1. PICK c \in Rows :
          /\ \A n \in Renders :
                /\ catchUp'[n].at = catchUp[n].at
                /\ catchUp'[n].touched = IF n = touching THEN catchUp[n].touched \cup {c}
                                                        ELSE catchUp[n].touched
          /\ UNCHANGED <<touching, history>>
    BY <1>3, UpdatedIs
  <2>2. \A n \in Renders : InFlight(n)' <=> InFlight(n)
    BY <2>1 DEF InFlight
  <2>3. \A n \in Renders : n = touching => InFlight(n)
    BY DEF PageTypeOK, Renders
  <2> QED BY <1>2, <1>3, <2>1, <2>2, <2>3 DEF CatchingUp, history
<1>4. ASSUME ~Subscribed, NEW n \in Renders, ServeCatchUp(n) PROVE CatchingUp'
  <2>1. /\ \A m \in Renders \ {n} : catchUp'[m] = catchUp[m]
        /\ catchUp[n].at = "asked" /\ catchUp'[n].at = "served"
    BY <1>4, ServeIs
  <2>2. \A m \in Renders : InFlight(m)' <=> InFlight(m)
    BY <2>1 DEF InFlight
  <2>3. \A m \in Renders : ~InFlight(m)' => catchUp'[m].touched = {}
    BY <2>1, <2>2 DEF CatchingUp, InFlight
  <2> QED BY <1>2, <1>4, <2>2, <2>3 DEF ServeCatchUp, history
<1>5. ASSUME ~Subscribed, NEW n \in Renders, CaughtUp(n) \/ CatchUpFails(n) PROVE CatchingUp'
  <2>1. EndCatchUp(n) /\ overlapped' = overlapped
    BY <1>5 DEF CaughtUp, CatchUpFails, history
  <2>2. /\ ~InFlight(n)' /\ catchUp'[n].touched = {}
        /\ \A m \in Renders \ {n} : catchUp'[m] = catchUp[m] /\ (InFlight(m)' <=> InFlight(m))
        /\ touching' = IF touching = n THEN 0 ELSE touching
    BY <2>1, CatchUpEnds
  <2>3. \A m \in Renders : ~InFlight(m)' => catchUp'[m].touched = {}
    BY <2>2 DEF CatchingUp
  <2>4. \A m \in Renders : InFlight(m)' /\ touching = m => touching' = m
    BY <2>2
  <2> QED BY <1>2, <1>5, <2>1, <2>2, <2>3, <2>4
<1>6. CASE ~Subscribed /\ UNCHANGED <<catchUp, touching, overlapped>>
  BY <1>2, <1>6 DEF CatchingUp, InFlight
<1>7. \/ Subscribed \/ ResultUpdated
      \/ \E n \in Renders : ServeCatchUp(n) \/ CaughtUp(n) \/ CatchUpFails(n)
      \/ UNCHANGED <<catchUp, touching, overlapped>>
  BY DEF PageNext, ServerStep, PageStep, Populate, SocketDrops, Announce, Join, CommitUpdate,
    AnnouncementLost, RefreshUpdate, Publish, Broadcast, BroadcastMisses, UpdateDies, Lost,
    ServeRender, ResultsPopulated, Rendered, Answer, pageVars, history
<1> QED BY <1>1, <1>3, <1>4, <1>5, <1>6, <1>7

\* A flag that is up stays up, and what a page missed it missed until it joins anew.
LEMMA FlagsStay ==
  ASSUME [PageNext]_pageVars
  PROVE  (late => late') /\ (crossed => crossed') /\ (overlapped => overlapped')
         /\ (failed => failed') /\ (~Join => missed \subseteq missed')
<1> DEFINE Stay == /\ (late => late') /\ (crossed => crossed') /\ (overlapped => overlapped')
                   /\ (failed => failed') /\ missed \subseteq missed'
<1>1. CASE \/ Announce \/ AnnouncementLost \/ Populate \/ SocketDrops
           \/ ResultUpdated \/ ResultsPopulated
  BY <1>1 DEF Announce, AnnouncementLost, Populate, SocketDrops, ResultUpdated, ResultsPopulated,
    fanout, history
<1>2. CASE Subscribed
  BY <1>2 DEF Subscribed, fanout
<1>3. ASSUME NEW u \in Updates,
             \/ CommitUpdate(u) \/ RefreshUpdate(u) \/ Publish(u)
             \/ Broadcast(u) \/ Loses(u) \/ Answer(u)
      PROVE  Stay
  <2>1. CASE CommitUpdate(u)
    BY <2>1 DEF CommitUpdate, fanout, history
  <2>2. CASE RefreshUpdate(u) \/ Publish(u)
    BY <2>2 DEF RefreshUpdate, Publish, fanout, history
  <2>3. CASE Broadcast(u)
    BY <2>3, Zenon DEF Broadcast, history
  <2>4. CASE Answer(u)
    BY <2>4, Zenon DEF Answer, fanout
  <2>5. CASE Loses(u)
    BY <2>5 DEF Loses, BroadcastMisses, UpdateDies, Lost, history
  <2> QED BY <1>3, <2>1, <2>2, <2>3, <2>4, <2>5
<1>4. ASSUME NEW n \in Renders,
             \/ ServeRender(n) \/ Rendered(n)
             \/ ServeCatchUp(n) \/ CaughtUp(n) \/ CatchUpFails(n)
      PROVE  Stay
  <2>1. CASE ServeRender(n) \/ Rendered(n) \/ ServeCatchUp(n) \/ CaughtUp(n)
    BY <2>1 DEF ServeRender, Rendered, ServeCatchUp, CaughtUp, fanout, history
  <2>2. CASE CatchUpFails(n)
    BY <2>2 DEF CatchUpFails, fanout
  <2> QED BY <1>4, <2>1, <2>2
<1>5. CASE UNCHANGED pageVars
  BY <1>5 DEF pageVars, fanout, history
<1>6. CASE Join
  BY <1>6 DEF Join, history
<1> QED BY <1>1, <1>2, <1>3, <1>4, <1>5, <1>6 DEF PageNext, ServerStep, PageStep, Loses

LEMMA ShownStep ==
  ASSUME PageInv, [PageNext]_pageVars
  PROVE  ShownIsCurrent'
<1>1. /\ PageTypeOK /\ RendersInOrder /\ NothingAhead /\ WireIsCurrent /\ CatchingUp
      /\ ShownIsCurrent
  BY PageParts
<1> SUFFICES ASSUME Listening', ~late', ~crossed', ~overlapped', ~failed', NEW c \in Rows,
                    c \notin missed'
             PROVE  OnWire(c)' \/ WillShow(c)'
  BY DEF ShownIsCurrent
<1>2. ~late /\ ~crossed /\ ~overlapped /\ ~failed /\ (~Join => c \notin missed)
  BY FlagsStay
<1>3. CASE Subscribed
  <2>1. /\ page \in Renders /\ page' = page
        /\ catchUp'[page].at = "asked" /\ catchUp'[page].touched = catchUp[page].touched
    BY <1>1, <1>3, SubscribedIs
  <2>2. ~InFlight(page)
    BY <1>3, <2>1 DEF Subscribed
  <2>3. catchUp'[page].touched = {}
    BY <1>1, <2>1, <2>2 DEF CatchingUp
  <2> QED BY <2>1, <2>3 DEF WillShow, InFlight
<1>4. CASE ~Subscribed
  <2>1. /\ Listening /\ page' = page
        /\ ~Join /\ ~SocketDrops /\ \A n \in Renders : ~Rendered(n)
    BY <1>1, <1>4, ListenedBefore
  <2>2. page \in Renders /\ socket = "joined"
    BY <1>1, <2>1 DEF Listening, RendersInOrder, PageTypeOK, Renders
  <2>3. /\ OnWire(c) \/ WillShow(c)
        /\ \A n \in Renders : InFlight(n) => n = page /\ touching = page
    BY <1>1, <1>2, <2>1 DEF ShownIsCurrent, CatchingUp
  <2>4. ASSUME UNCHANGED <<catchUp, view, latest>>, WillShow(c) PROVE WillShow(c)'
    BY <2>1, <2>4 DEF WillShow, InFlight
  <2>5. ASSUME NEW m \in Messages, Send(m), OnWire(c) PROVE OnWire(c)'
    <3>1. Len(wire') = Len(wire) + 1 /\ Len(wire) \in Nat
          /\ \A i \in 1..Len(wire) : wire'[i] = wire[i]
      BY <1>1, <2>2, <2>5, WireGrows
    <3>2. \A i \in 1..Len(wire) : i \in 1..Len(wire')
      BY <3>1
    <3> QED BY <2>5, <3>1, <3>2 DEF OnWire, About
  <2>6. CASE Announce
    <3>1. [type |-> "results_populated"] \in Messages
      BY DEF Messages
    <3> QED BY <2>3, <2>4, <2>5, <2>6, <3>1 DEF Announce, puts, fanout
  <2>7. ASSUME NEW u \in Updates, Broadcast(u) PROVE OnWire(c)' \/ WillShow(c)'
    <3>1. PICK d \in Rows, m \in Messages :
            /\ m.type = "result_updated" /\ m.case = d
            /\ Send(m)
            /\ \A e \in Rows \ {d} : latest'[e] = latest[e]
            /\ UNCHANGED <<server, rendering, socket, catchUp, touching, view, history>>
      BY <1>1, <2>7, BroadcastIs
    <3>2. CASE c = d
      <4>1. Len(wire') = Len(wire) + 1 /\ Len(wire) \in Nat /\ wire'[Len(wire) + 1] = m
        BY <1>1, <2>2, <3>1, WireGrows
      <4>2. Len(wire) + 1 \in 1..Len(wire')
        BY <4>1
      <4> QED BY <3>1, <3>2, <4>1, <4>2 DEF OnWire, About
    <3>3. CASE c # d
      <4>1. latest'[c] = latest[c]
        BY <3>1, <3>3
      <4>2. WillShow(c) => WillShow(c)'
        BY <2>1, <3>1, <4>1 DEF WillShow, InFlight
      <4> QED BY <2>3, <2>5, <3>1, <4>2
    <3> QED BY <3>2, <3>3
  <2>8. CASE ResultUpdated
    <3>1. PICK d \in Rows, s \in Nat :
           /\ About(1, d) /\ s = wire[1].status /\ 1 \in 1..Len(wire)
           /\ wire # <<>> /\ wire' = Tail(wire)
           /\ \A e \in Rows \ {d} : view'[e] = view[e]
           /\ IF view[d] = Absent THEN view'[d] = Absent ELSE view'[d] = s
           /\ \A n \in Renders :
                /\ catchUp'[n].at = catchUp[n].at /\ catchUp'[n].data = catchUp[n].data
                /\ catchUp'[n].touched = IF n = touching THEN catchUp[n].touched \cup {d}
                                                        ELSE catchUp[n].touched
           /\ UNCHANGED <<server, puts, fanout, rendering, socket, touching, history>>
      BY <1>1, <2>8, UpdatedIs
    <3>2. InFlight(page)' <=> InFlight(page)
      BY <2>1, <2>2, <3>1 DEF InFlight
    <3>3. CASE c = d /\ ~OnWire(c)'
      <4>1. wire[1].status = latest[d]
        <5>1. ~ \E j \in 2..Len(wire) : About(j, d)
          <6> SUFFICES ASSUME NEW j \in 2..Len(wire), About(j, d) PROVE FALSE
            OBVIOUS
          <6>1. /\ Len(wire) \in Nat /\ Len(wire') = Len(wire) - 1
                /\ \A i \in 1..Len(wire') : wire'[i] = wire[i + 1]
            BY <1>1, <3>1, WireMovesUp
          <6>2. j - 1 \in 1..Len(wire') /\ (j - 1) + 1 = j
            BY <6>1
          <6>3. wire'[j - 1] = wire[j]
            BY <6>1, <6>2
          <6> QED BY <3>3, <6>2, <6>3 DEF OnWire, About
        <5>2. wire[1].type = "result_updated" /\ wire[1].case = d
          BY <3>1 DEF About
        <5>3. wire[1].status = latest[d] \/ \E j \in 1 + 1..Len(wire) : About(j, d)
          BY <1>1, <1>2, <2>1, <3>1, <3>3, <5>2 DEF WireIsCurrent
        <5> QED BY <5>1, <5>3
      <4>2. InFlight(page) => c \in catchUp'[page].touched
        BY <2>2, <2>3, <3>1, <3>3
      <4>3. view'[c] # Absent => latest'[c] <= view'[c]
        BY <3>1, <3>3, <4>1 DEF puts, fanout
      <4> QED BY <2>1, <3>2, <4>2, <4>3 DEF WillShow
    <3>4. CASE c # d
      <4>1. OnWire(c) => OnWire(c)'
        BY <1>1, <3>1, <3>4, WireAhead DEF About
      <4>2. /\ view'[c] = view[c] /\ latest'[c] = latest[c]
            /\ c \in catchUp'[page].touched <=> c \in catchUp[page].touched
            /\ catchUp'[page].at = catchUp[page].at /\ catchUp'[page].data = catchUp[page].data
        BY <2>2, <3>1, <3>4 DEF puts, fanout
      <4>3. WillShow(c) => WillShow(c)'
        BY <2>1, <3>2, <4>2 DEF WillShow
      <4> QED BY <2>3, <4>1, <4>3
    <3> QED BY <3>3, <3>4
  <2>9. CASE ResultsPopulated
    <3>1. /\ wire # <<>> /\ wire' = Tail(wire) /\ Head(wire).type = "results_populated"
          /\ UNCHANGED <<catchUp, view, latest>>
      BY <2>9 DEF ResultsPopulated, Arrives, puts, fanout
    <3>2. ~About(1, c)
      BY <1>1, <3>1, WireMovesUp DEF About
    <3> QED BY <1>1, <2>3, <2>4, <3>1, <3>2, WireAhead
  <2>10. ASSUME NEW n \in Renders, ServeCatchUp(n) PROVE OnWire(c)' \/ WillShow(c)'
    <3>1. /\ catchUp[n].at = "asked" /\ catchUp'[n].at = "served"
          /\ catchUp'[n].touched = catchUp[n].touched /\ catchUp'[n].data = Snapshot
      BY <1>1, <2>10, ServeIs
    <3>2. UNCHANGED <<server, puts, fanout, wire, view>>
      BY <2>10 DEF ServeCatchUp
    <3>3. n = page /\ InFlight(page)
      BY <2>3, <3>1 DEF InFlight
    <3>4. IF Snapshot[c] = Absent THEN latest[c] = 0 ELSE latest[c] <= Snapshot[c]
      <4>1. Snapshot[c] = IF populated THEN db[c] ELSE Absent
        BY <1>1, SnapshotIs
      <4>2. db[c] \in Nat /\ latest[c] \in Nat /\ latest[c] <= db[c] /\ db[c] # Absent
        BY <1>1, PageFields, PageAssumption DEF NothingAhead
      <4>3. ~populated => db[c] = 0
        BY <1>1 DEF NothingAhead
      <4>4. CASE populated
        BY <4>1, <4>2, <4>4
      <4>5. CASE ~populated
        BY <4>1, <4>2, <4>3, <4>5
      <4> QED BY <4>4, <4>5
    <3>5. WillShow(c) => WillShow(c)'
      <4>1. CASE c \in catchUp[page].touched
        BY <2>1, <3>1, <3>2, <3>3, <4>1 DEF WillShow, puts, fanout
      <4>2. CASE c \notin catchUp[page].touched
        <5>1. latest' = latest
          BY <3>2 DEF puts, fanout
        <5> QED BY <2>1, <3>1, <3>3, <3>4, <4>2, <5>1 DEF WillShow, InFlight
      <4> QED BY <4>1, <4>2
    <3>6. OnWire(c) => OnWire(c)'
      BY <3>2 DEF OnWire, About
    <3> QED BY <2>3, <3>5, <3>6
  <2>11. ASSUME NEW n \in Renders, CaughtUp(n) PROVE OnWire(c)' \/ WillShow(c)'
    <3>1. /\ catchUp[n].at = "served" /\ view' = Reconciled(n) /\ EndCatchUp(n)
          /\ UNCHANGED <<server, puts, fanout, wire>>
      BY <2>11 DEF CaughtUp
    <3>2. n = page /\ InFlight(page)
      BY <2>3, <3>1 DEF InFlight
    <3>3. ~InFlight(page)'
      BY <1>1, <2>1, <3>1, <3>2, CatchUpEnds DEF InFlight
    <3>4. view'[c] = IF c \in catchUp[page].touched \/ view[c] = Absent
                        \/ catchUp[page].data[c] = Absent
                     THEN view[c] ELSE catchUp[page].data[c]
      BY <3>1, <3>2 DEF Reconciled
    <3>5. view[c] # Absent => view[c] \in Nat
      BY <1>1, PageFields
    <3>6. ASSUME WillShow(c) PROVE view'[c] # Absent => latest[c] <= view'[c]
      <4>1. CASE c \in catchUp[page].touched
        BY <3>4, <3>6, <4>1 DEF WillShow
      <4>2. CASE c \notin catchUp[page].touched /\ catchUp[page].data[c] = Absent
        <5>1. latest[c] = 0
          BY <3>1, <3>2, <3>6, <4>2 DEF WillShow
        <5> QED BY <3>4, <3>5, <4>2, <5>1
      <4>3. CASE c \notin catchUp[page].touched /\ catchUp[page].data[c] # Absent
        <5>1. latest[c] <= catchUp[page].data[c]
          BY <3>1, <3>2, <3>6, <4>3 DEF WillShow
        <5> QED BY <3>4, <4>3, <5>1
      <4> QED BY <4>1, <4>2, <4>3
    <3>7. WillShow(c) => WillShow(c)'
      BY <3>1, <3>3, <3>6 DEF WillShow, puts, fanout
    <3>8. OnWire(c) => OnWire(c)'
      BY <3>1 DEF OnWire, About
    <3> QED BY <2>3, <3>7, <3>8
  <2>12. ASSUME NEW u \in Updates, Answer(u) PROVE OnWire(c)' \/ WillShow(c)'
    <3>1. /\ view' = IF sentBy[u] = page /\ view[updated[u]] # Absent
                     THEN [view EXCEPT ![updated[u]] = carried[u]] ELSE view
          /\ crossed' = (crossed \/ (sentBy[u] = page /\ view[updated[u]] # Absent
                                     /\ carried[u] < view[updated[u]]))
          /\ UNCHANGED <<latest, catchUp, wire>>
      BY <2>12 DEF Answer, fanout
    <3>2. view \in [Rows -> Shown] /\ updated[u] \in Rows /\ carried[u] \in Nat /\ latest[c] \in Nat
          /\ \A d \in Rows : view[d] # Absent => view[d] \in Nat
      BY <1>1, PageFields DEF Fetches
    <3>3. \/ view'[c] # Absent => latest[c] <= view'[c]
          \/ ~(view[c] # Absent => latest[c] <= view[c])
      <4>1. CASE view' = view
        BY <4>1
      <4>2. CASE /\ view' = [view EXCEPT ![updated[u]] = carried[u]]
                 /\ sentBy[u] = page /\ view[updated[u]] # Absent
        <5>1. ~(carried[u] < view[updated[u]])
          BY <3>1, <4>2
        <5>2. CASE c = updated[u]
          <6>1. /\ view'[c] = carried[u] /\ view[c] \in Nat /\ view[c] # Absent
                /\ ~(carried[u] < view[c])
            BY <3>2, <4>2, <5>1, <5>2
          <6> QED BY <3>2, <6>1
        <5>3. CASE c # updated[u]
          BY <3>2, <4>2, <5>3
        <5> QED BY <5>2, <5>3
      <4> QED BY <3>1, <4>1, <4>2
    <3>4. WillShow(c) => WillShow(c)'
      BY <2>1, <3>1, <3>3 DEF WillShow, InFlight
    <3>5. OnWire(c) => OnWire(c)'
      BY <3>1 DEF OnWire, About
    <3> QED BY <2>3, <3>4, <3>5
  <2>15. ASSUME NEW u \in Updates, Loses(u) PROVE OnWire(c)' \/ WillShow(c)'
    <3>1. PICK d \in Rows :
            /\ \A e \in Rows \ {d} : latest'[e] = latest[e]
            /\ missed' = missed \cup {d} /\ UNCHANGED <<wire, catchUp, view>>
      BY <1>1, <2>15, LosesIs, LostIs
    <3>2. latest'[c] = latest[c]
      BY <3>1
    <3> QED BY <2>1, <2>3, <3>1, <3>2 DEF OnWire, About, WillShow, InFlight
  <2>13. CASE UNCHANGED <<catchUp, view, latest, wire>>
    BY <2>3, <2>4, <2>13 DEF OnWire, About
  <2>14. \/ Announce \/ ResultUpdated \/ ResultsPopulated
         \/ \E u \in Updates : Broadcast(u) \/ Loses(u) \/ Answer(u)
         \/ \E n \in Renders : ServeCatchUp(n) \/ CaughtUp(n)
         \/ UNCHANGED <<catchUp, view, latest, wire>>
    <3>1. \A n \in Renders : ~CatchUpFails(n)
      BY DEF CatchUpFails
    <3> QED BY <1>4, <2>1, <3>1
         DEF PageNext, ServerStep, PageStep, Loses, Populate, AnnouncementLost, CommitUpdate,
           RefreshUpdate, Publish, ServeRender, pageVars, fanout
  <2> QED BY <2>6, <2>7, <2>8, <2>9, <2>10, <2>11, <2>12, <2>13, <2>14, <2>15
<1> QED BY <1>3, <1>4

LEMMA PageInvInit == PageInit => PageInv
<1> SUFFICES ASSUME PageInit PROVE PageInv
  OBVIOUS
<1> USE DEF PageInit
<1>1. PageTypeOK /\ Len(wire) = 0
  BY PageTypeInit
<1>2. /\ render[1].at = "asked" /\ render[2].at = "none"
      /\ \A n \in Renders : render[n].data = NotFetched /\ catchUp[n] = NoCatchUp
      /\ \A n \in Renders : render[n].at # "served"
  BY DEF Renders, NoRender
<1>3. RendersInOrder
  BY <1>1, <1>2 DEF RendersInOrder
<1>4. RowsAnnounced /\ NewsToCome /\ WireIsCurrent
  BY <1>1, <1>2 DEF RowsAnnounced, NewsToCome, WireIsCurrent
<1>5. NothingAhead
  BY <1>2 DEF NothingAhead, NoCatchUp, NotFetched
<1>6. CatchingUp /\ ShownIsCurrent
  BY <1>2 DEF CatchingUp, ShownIsCurrent, Listening, NoCatchUp
<1> QED BY <1>1, <1>3, <1>4, <1>5, <1>6 DEF PageInv

LEMMA PageInvStep == PageInv /\ [PageNext]_pageVars => PageInv'
<1> SUFFICES ASSUME PageInv, [PageNext]_pageVars PROVE PageInv'
  OBVIOUS
<1>1. /\ PageTypeOK /\ RendersInOrder /\ RowsAnnounced /\ NothingAhead /\ NewsToCome
      /\ WireIsCurrent /\ CatchingUp /\ ShownIsCurrent
  BY PageParts
<1>2. PageTypeOK'
  BY <1>1, PageTypeStep
<1>3. RendersInOrder' /\ RowsAnnounced' /\ WireIsCurrent' /\ CatchingUp'
  BY <1>1, RendersStep, RowsStep, WireStep, CatchingStep
<1>4. NothingAhead' /\ NewsToCome' /\ ShownIsCurrent'
  BY <1>1, <1>2, AheadStep, NewsStep, ShownStep
<1> QED BY <1>2, <1>3, <1>4 DEF PageInv

LEMMA PageInvariant == PageSpec => []PageInv
BY PageInvInit, PageInvStep, PTL DEF PageSpec

LEMMA PageSettles == PageInv => PageAgrees
<1> SUFFICES ASSUME PageInv, Settled
             PROVE  /\ Agrees \/ late \/ crossed \/ overlapped \/ failed
                    /\ populated /\ (\E c \in Rows : view[c] = Absent) =>
                          unheard \/ announced = "never"
  BY DEF PageAgrees
<1>1. /\ PageTypeOK /\ RendersInOrder /\ RowsAnnounced /\ NothingAhead /\ NewsToCome
      /\ ShownIsCurrent
  BY PageParts
<1>2. Len(wire) = 0 /\ socket = "joined" /\ announced # "due"
  BY DEF Settled
<1>3. page \in Renders /\ page # 0
  BY <1>1, <1>2 DEF RendersInOrder, PageTypeOK, Renders
<1>4. ~InFlight(page) /\ render[2].at = "none" /\ Listening
  BY <1>2, <1>3 DEF Settled, Listening, InWire, Renders
<1>5. populated /\ (\E c \in Rows : view[c] = Absent) => unheard \/ announced = "never"
  BY <1>1, <1>2, <1>3, <1>4 DEF RowsAnnounced, InWire
<1>6. ASSUME ~late, ~crossed, ~overlapped, ~failed, NEW c \in Rows \ missed
      PROVE  view[c] \in {db[c], Absent}
  <2>1. ~OnWire(c)
    BY <1>2 DEF OnWire
  <2>2. view[c] # Absent => latest[c] <= view[c]
    BY <1>1, <1>4, <1>6, <2>1 DEF ShownIsCurrent, WillShow
  <2>3. \A u \in Updates : ~Awaits(u)
    BY DEF Settled, Awaits
  <2>4. db[c] = latest[c]
    BY <1>1, <2>3 DEF NewsToCome
  <2>5. view[c] # Absent => view[c] <= db[c] /\ view[c] \in Nat /\ db[c] \in Nat
    BY <1>1, PageFields DEF NothingAhead
  <2> QED BY <2>2, <2>4, <2>5
<1> QED BY <1>5, <1>6 DEF Agrees

\* The state of the run page and of the server it talks to is well typed; the
\* page is rendered at most twice.
THEOREM PageTyped == PageSpec => []PageTypeOK
<1>1. PageInv => PageTypeOK
  BY DEF PageInv
<1> QED BY <1>1, PageInvariant, PTL

\* A run page that listens and has caught up agrees with the database on every row
\* of which no status was lost since it joined, unless a broadcast or an answer
\* overtook a later one, two catch-ups overlapped or one failed; replicas may die
\* after a commit, and PUBLISHes and broadcasts may fail to reach it.  It lacks rows
\* only if their announcement passed it by or there was none (update_result and
\* run_websocket; renderRun, reconcileRunResults, markResultInline of static/app.js).
THEOREM SettledPageAgrees == PageSpec => []PageAgrees
BY PageSettles, PageInvariant, PTL

============================================================================
