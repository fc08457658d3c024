------------------------------ MODULE GraphApi ------------------------------
(***************************************************************************)
(* A GraphQL request (api/gql): a query, or a document of mutations, whose *)
(* fields run one after the other in one database session with one set of  *)
(* DataLoaders.  A mutation calls the REST handler with that session.      *)
(* After each field its selection is resolved: the suite's test cases and  *)
(* runs, the results and the summary of each run, the test case of each    *)
(* result.                                                                 *)
(*                                                                         *)
(* A loader keeps its lists of rows for the whole request.  The session    *)
(* keeps the columns of a row it has read until its next commit, which     *)
(* expires every row; a SELECT leaves what is not expired as it was        *)
(* (SQLAlchemy's identity map, autoflush off).  A row the session deletes   *)
(* leaves it, and keeps its columns for whoever has the row in a list.     *)
(* Each SELECT sees what is committed then.                                *)
(***************************************************************************)
EXTENDS Board

CONSTANTS
  Documents \* sequences of fields: [op, run, case, status]

Ops == {"query", "createCase", "deleteCase", "createRun", "updateResult"}

\* The status of a field is that of the result, or of the case, it writes.
Fields ==
  [op : {"updateResult"}, run : Runs, case : Cases, status : Statuses]
    \cup [op : Ops \ {"updateResult"}, run : Runs, case : Cases, status : {"draft", "active"}]

ASSUME GraphAssumption == Documents \subseteq Seq(Fields)

VARIABLES
  document, \* fields not yet resolved; the first one is being resolved
  step,     \* where the request is
  held,     \* the status of each row in the session, or Expired
  detached, \* the status of each row the session deleted, as it was loaded
  caseList, \* test_cases_by_suite: the list it keeps, or Unread
  runList,  \* runs_by_suite
  rowList,  \* results_by_run, per run
  answer,   \* what the field resolved to
  seen,     \* history: statuses each row had since the session's last commit; of
            \* a row the session deleted, since its last commit before that one
  raced,    \* history: rows others changed while the session held them
  listed,   \* history: what the loaders kept before the field's own commit
  made      \* history: the case or the run the field created

lists == <<caseList, runList, rowList>>
session == <<held, detached, lists>>
graphHistory == <<seen, raced, listed, made>>
graph == <<document, step, session, answer, graphHistory>>

Expired == "expired"
Unread == {0}
NoAnswer == [cases |-> {}, summary |-> <<>>, results |-> <<>>, error |-> FALSE]
Nothing == [c \in Cases |-> Expired]
AllExpired == [r \in Runs |-> Nothing]

StatusNow(r, c) == IF r \in Existing THEN results[r][c] ELSE NoRow

GraphIdle ==
  /\ document = <<>>
  /\ step = "idle"

GraphAsked ==
  /\ document \in Documents
  /\ step = "field"

GraphInit ==
  /\ held = AllExpired
  /\ detached = AllExpired
  /\ caseList = Unread
  /\ runList = Unread
  /\ rowList = [r \in Runs |-> Unread]
  /\ answer = NoAnswer
  /\ seen = [r \in Runs |-> [c \in Cases |-> {StatusNow(r, c)}]]
  /\ raced = {}
  /\ listed = {}
  /\ made = {}

field == Head(document)

----------------------------------------------------------------------------
(* The session *)

\* A SELECT of rows: the ones held keep their columns.
Fetched(h, r, C) ==
  [h EXCEPT ![r] = [c \in Cases |->
     IF c \in C /\ h[r][c] = Expired THEN results[r][c] ELSE h[r][c]]]

\* db.delete(tc): the cascade selects the results of the case, which the session
\* then lets go, loaded as they are.
LetGo(c) ==
  [r \in Runs |->
     IF r \in Existing /\ c \in Rows(r)
     THEN [detached[r] EXCEPT ![c] = Fetched(held, r, {c})[r][c]]
     ELSE detached[r]]

\* Variant: sessionmaker(expire_on_commit=False).
KeepOnCommit == held
ExpireOnCommit == AllExpired

\* A commit of the session: which rows it has deleted so far, what it leaves of
\* the others, and the history of those starting anew.
Committed(deleted) ==
  /\ detached' = deleted
  /\ held' = ExpireOnCommit
  /\ seen' = [r \in Runs |-> [c \in Cases |->
                IF deleted[r][c] = Expired THEN {StatusNow(r, c)'} ELSE seen[r][c]]]
  /\ raced' = {}
  /\ listed' = (IF caseList = Unread THEN {} ELSE {"cases"})
               \cup (IF runList = Unread THEN {} ELSE {"runs"})

----------------------------------------------------------------------------
(* Mutations: the REST handler, with the request's session *)

Start(op, next) ==
  /\ step = "field" /\ document # <<>> /\ field.op = op
  /\ step' = next
  /\ answer' = NoAnswer

\* 404 of the REST handler.
Found(f) ==
  /\ f.op = "updateResult" => f.run \in Existing /\ f.case \in Rows(f.run)
  /\ f.op = "deleteCase" => f.case \in LiveCases

\* An HTTPException, or an error at the flush; the next field goes on.
FieldFails ==
  /\ answer' = [NoAnswer EXCEPT !.error = TRUE]
  /\ step' = "answered"
  /\ UNCHANGED <<board, document, session, graphHistory>>

ResolveQuery ==
  /\ Start("query", "select")
  /\ made' = {}
  /\ UNCHANGED <<board, document, session, seen, raced, listed>>

ResolveCreateCase ==
  /\ Start("createCase", "select")
  /\ \E c \in Cases : InsertCase(c, field.status) /\ made' = {c}
  /\ Committed(detached)
  /\ UNCHANGED <<writes, document, lists>>

ResolveCreateRun ==
  /\ Start("createRun", "select")
  /\ InsertRun("monolith")
  /\ Committed(detached)
  /\ made' = {Len(results')}
  /\ UNCHANGED <<writes, document, lists>>

\* A Boolean: nothing to select.
ResolveDeleteCase ==
  /\ Start("deleteCase", "answered")
  /\ DeleteCase(field.case, "monolith")
  /\ Committed(LetGo(field.case))
  /\ made' = {}
  /\ UNCHANGED <<writes, document, lists>>

\* _apply_result_update reads the row, then every row of the run; what the session
\* has of a row that others deleted is not read again before the commit.
ReadForUpdate ==
  /\ Start("updateResult", "update")
  /\ Found(field)
  /\ LET all == Rows(field.run)
         loaded == Fetched(held, field.run, all)[field.run] IN
       held' = [held EXCEPT ![field.run] =
                  [c \in Cases |-> IF c \in all THEN loaded[c] ELSE Expired]]
  /\ made' = {}
  /\ UNCHANGED <<board, document, detached, lists, seen, raced, listed>>

FieldNotFound ==
  /\ step = "field" /\ document # <<>> /\ ~Found(field)
  /\ FieldFails

\* Variant: a result that is not pending is not written over.
WrittenOnce == IF held[field.run][field.case] = "pending" THEN field.status
                                                          ELSE results[field.run][field.case]

\* The UPDATE has the status only if it is not the one the session holds.
Written == IF held[field.run][field.case] = field.status THEN results[field.run][field.case]
                                                         ELSE field.status

\* Variant: whether the run is done is read before the status is set.
DoneBefore == Recorded(held[field.run])

\* run_completed, of the rows as the session has them.
RunCompleted ==
  Recorded([c \in Cases |->
    IF c = field.case THEN field.status
    ELSE IF held[field.run][c] = Expired THEN NoRow ELSE held[field.run][c]])

\* The handler's commit.
CommitUpdate ==
  /\ step = "update"
  /\ field.case \in Rows(field.run)
  /\ results' = [results EXCEPT ![field.run][field.case] = Written]
  /\ completed' = IF RunCompleted THEN completed \cup {field.run} ELSE completed
  /\ Committed(detached)
  /\ step' = "refresh"
  /\ UNCHANGED <<cases, writes, document, lists, answer, made>>

\* db.refresh(result)
RefreshUpdated ==
  /\ step = "refresh"
  /\ IF field.case \in Rows(field.run)
     THEN /\ held' = [held EXCEPT ![field.run][field.case] = results[field.run][field.case]]
          /\ step' = "select"
          /\ UNCHANGED <<board, document, detached, lists, answer, graphHistory>>
     ELSE FieldFails

\* The row was deleted: the UPDATE matches nothing, and the session wants a
\* rollback nobody issues, so that the fields that are left fail too.
UpdateFails ==
  /\ step = "update"
  /\ field.case \notin Rows(field.run)
  /\ document' = <<field>>
  /\ answer' = [NoAnswer EXCEPT !.error = TRUE]
  /\ step' = "answered"
  /\ UNCHANGED <<board, session, graphHistory>>

----------------------------------------------------------------------------
(* The selection, level by level; a list the loader keeps is not read again *)

SelectCases ==
  /\ step = "select"
  /\ caseList' = IF caseList = Unread THEN LiveCases ELSE caseList
  /\ answer' = [answer EXCEPT !.cases = caseList']
  /\ step' = "runs"
  /\ UNCHANGED <<board, document, held, detached, runList, rowList, graphHistory>>

\* A case of the list is gone: its columns may be expired, which those of a case
\* that the document itself deleted are not.
CaseIsGone ==
  /\ step = "select"
  /\ caseList # Unread /\ ~(caseList \subseteq LiveCases)
  /\ FieldFails

SelectRuns ==
  /\ step = "runs"
  /\ runList' = IF runList = Unread THEN Existing ELSE runList
  /\ step' = "rows"
  /\ UNCHANGED <<board, document, held, detached, caseList, rowList, answer, graphHistory>>

\* One SELECT for the runs whose rows no field has asked for.
SelectRows ==
  /\ step = "rows"
  /\ LET new == {r \in runList : rowList[r] = Unread} IN
       /\ rowList' = [r \in Runs |-> IF r \in new THEN Rows(r) ELSE rowList[r]]
       /\ held' = [r \in Runs |-> IF r \in new THEN Fetched(held, r, Rows(r))[r] ELSE held[r]]
  /\ step' = "columns"
  /\ UNCHANGED <<board, document, detached, caseList, runList, answer, graphHistory>>

\* Variant: the session keeps no columns, and reads each of them anew.
ColumnAnew(r, c) == results[r][c]

\* The status of a row of a kept list; of one the session deleted it stays.
Column(r, c) == IF detached[r][c] = Expired THEN held[r][c] ELSE detached[r][c]

Stale(r) == {c \in Cases : c \in rowList[r] /\ Column(r, c) = Expired}

\* Reading a column of an expired row selects the row; it may be gone.
RefreshRow ==
  /\ step = "columns"
  /\ \E r \in runList : \E c \in Stale(r) :
       IF c \in Rows(r)
       THEN /\ held' = Fetched(held, r, {c})
            /\ UNCHANGED <<board, document, step, detached, lists, answer, graphHistory>>
       ELSE FieldFails

Tally(s, C) == [v \in Statuses |-> Cardinality({c \in C : s[c] = v})]

Summary(r) == Tally([c \in Cases |-> Column(r, c)], rowList[r])

\* Run.summary: of the loader's rows.
ReadSummary ==
  /\ step = "columns"
  /\ \E r \in runList \ DOMAIN answer.summary :
       /\ Stale(r) = {}
       /\ answer' = [answer EXCEPT !.summary =
            [q \in DOMAIN answer.summary \cup {r} |->
               IF q = r THEN Summary(r) ELSE answer.summary[q]]]
  /\ UNCHANGED <<board, document, step, session, graphHistory>>

\* Run.results: of the same rows, before or after the summary.
ReadResults ==
  /\ step = "columns"
  /\ \E r \in runList \ DOMAIN answer.results :
       /\ Stale(r) = {}
       /\ answer' = [answer EXCEPT !.results =
            [q \in DOMAIN answer.results \cup {r} |->
               IF q = r THEN [c \in rowList[r] |-> Column(r, c)] ELSE answer.results[q]]]
  /\ UNCHANGED <<board, document, step, session, graphHistory>>

AllRead == DOMAIN answer.summary = runList /\ DOMAIN answer.results = runList

\* TestResult.test_case, which may not be None.  Of a case that is gone an earlier
\* field may have had it loaded, and not every selection has it.
SelectTitles ==
  /\ step = "columns" /\ AllRead
  /\ \/ /\ \E r \in runList : ~(rowList[r] \subseteq LiveCases)
        /\ FieldFails
     \/ /\ step' = "answered"
        /\ UNCHANGED <<board, document, session, answer, graphHistory>>

NextField ==
  /\ step = "answered"
  /\ document' = Tail(document)
  /\ step' = IF Tail(document) = <<>> THEN "idle" ELSE "field"
  /\ UNCHANGED <<board, session, answer, graphHistory>>

GraphNext ==
  \/ ResolveQuery \/ ResolveCreateCase \/ ResolveCreateRun \/ ResolveDeleteCase
  \/ ReadForUpdate \/ CommitUpdate \/ RefreshUpdated \/ UpdateFails \/ FieldNotFound
  \/ SelectCases \/ CaseIsGone \/ SelectRuns \/ SelectRows \/ RefreshRow
  \/ ReadSummary \/ ReadResults \/ SelectTitles \/ NextField

\* What another request's commit adds to the history.
GraphWitness ==
  /\ seen' = [r \in Runs |-> [c \in Cases |-> seen[r][c] \cup {StatusNow(r, c)'}]]
  /\ raced' = raced \cup
       {p \in Runs \X Cases :
          StatusNow(p[1], p[2])' # StatusNow(p[1], p[2]) /\ held[p[1]] # Nothing}
  /\ UNCHANGED <<document, step, session, answer, listed, made>>

----------------------------------------------------------------------------
(* Properties *)

\* The two halves of a Run agree: its summary counts the very results that the
\* same answer lists, whichever is read first and whoever records or deletes in
\* between (Run.summary, Run.results).
SummaryMatchesResults ==
  \A r \in DOMAIN answer.summary \cap DOMAIN answer.results : \A v \in Statuses :
    answer.summary[r][v] =
      Cardinality({c \in DOMAIN answer.results[r] : answer.results[r][c] = v})

\* No answer shows a status from before the last commit of its own request: in a
\* document of mutations, what a loader has kept from an earlier field is read
\* again before it is shown.  A row that the document itself has deleted is still
\* shown, with a status from after the commit before its deletion (loaders.py,
\* the session of context.py, delete_testcase).
NeverBeforeItsCommit ==
  \A r \in DOMAIN answer.results : \A c \in DOMAIN answer.results[r] :
    answer.results[r][c] \in seen[r][c]

\* The selection of a mutation contains the case or the run it created, unless an
\* earlier field of the document had the list read, or the case was deleted
\* since (create_test_case, create_run of graph.py).
MutationSeesItself ==
  step = "answered" /\ ~answer.error =>
    /\ field.op = "createCase" /\ "cases" \notin listed =>
         \A c \in made : c \in answer.cases \/ cases[c] = "deleted"
    /\ field.op = "createRun" /\ "runs" \notin listed => made \subseteq DOMAIN answer.results

\* Both: a document of mutations reads its own writes.
ReadsOwnWrites == NeverBeforeItsCommit /\ MutationSeesItself

OurUpdate == step = "update" /\ step' = "refresh"
RacedIn(r) == \E c \in Cases : <<r, c>> \in raced

\* The status a mutation reports as set is set, unless another request changed
\* the row after this session had read it: then the session may send no UPDATE
\* of the status at all (update_result of graph.py, _apply_result_update).
UpdateIsWritten ==
  [][OurUpdate /\ <<field.run, field.case>> \notin raced =>
       results'[field.run][field.case] = field.status]_<<board, graph>>

\* The mutation that leaves no result of a run pending completes the run, and no
\* other does, unless another request changed the run after this session had
\* read its rows, in this field or for the selection of an earlier one.
LastResultCompletes ==
  [][OurUpdate /\ ~RacedIn(field.run) =>
       completed' = completed \cup (IF Recorded(results'[field.run]) THEN {field.run}
                                                                     ELSE {})]_<<board, graph>>

(* Types *)

GraphSteps ==
  {"idle", "field", "update", "refresh", "select", "runs", "rows", "columns", "answered"}

RequestTyped ==
  /\ document \in Seq(Fields)
  /\ step \in GraphSteps
  /\ step \notin {"idle", "field"} => document # <<>>

SessionTyped ==
  /\ held \in [Runs -> [Cases -> Statuses \cup {NoRow, Expired}]]
  /\ detached \in [Runs -> [Cases -> Statuses \cup {NoRow, Expired}]]
  /\ caseList = Unread \/ caseList \subseteq Cases
  /\ runList = Unread \/ runList \subseteq Existing
  /\ rowList \in [Runs -> {Unread} \cup SUBSET Cases]
  /\ seen \in [Runs -> [Cases -> SUBSET (Statuses \cup {NoRow})]]
  /\ raced \subseteq Runs \X Cases
  /\ listed \subseteq {"cases", "runs"}

AnswerTyped ==
  /\ answer = [k \in {"cases", "summary", "results", "error"} |-> answer[k]]
  /\ DOMAIN answer.results \subseteq Existing
  /\ \A r \in DOMAIN answer.results : DOMAIN answer.results[r] \subseteq Cases

GraphTypeOK == RequestTyped /\ SessionTyped /\ AnswerTyped

=============================================================================
