--------------------------- MODULE RunPopulation ---------------------------
(***************************************************************************)
(* How a test run gets its pending results in the microservice stack.      *)
(*                                                                         *)
(* create_run (services/runs/main.py) commits an empty TestRun and XADDs   *)
(* an entry to the Redis stream runs.populate; one of the worker replicas  *)
(* (services/worker/main.py) reads the entry through the consumer group    *)
(* run-populators, inserts one pending row per test case, tells the        *)
(* connected browsers and acks.  When the XADD raises, create_run inserts  *)
(* the rows itself.  The check and the insert of populate_pending_results  *)
(* are two database round trips, nothing locks between them, and           *)
(* runs_test_results has no unique constraint.                             *)
(*                                                                         *)
(* Faults (a lost reply, a database error, a crash, a Redis restart) are   *)
(* ordinary steps that spend a shared budget, MaxFaults.                   *)
(***************************************************************************)
EXTENDS Naturals, Sequences

CONSTANTS
  Runs,      \* TestRun ids, one create_run request each
  Cases,     \* test case ids of the projects service
  Workers,   \* replicas of services/worker
  NoRun,     \* what an idle worker holds
  MaxFaults  \* bound: faults in a behaviour

ASSUME PopulationAssumption == NoRun \notin Runs /\ MaxFaults \in Nat

VARIABLES
  request,    \* where the create_run request of each run is
  snapshot,   \* the active cases create_run fetched: the entry's testcase_ids
  rows,       \* rows[r][c]: TestResult rows of run r for case c
  stream,     \* entries of runs.populate the group has not delivered
  pel,        \* delivered and not acked (the group's pending entries list)
  workerAt,   \* where each worker's loop is
  workerRun,  \* the run of the entry it works on
  announced,  \* runs whose results_populated was published
  ambiguous,  \* history: the XADD was applied but its reply was lost
  discarded,  \* history: the entry left Redis without having been processed
  faults      \* faults spent so far

requestVars == <<request, snapshot>>
workerVars == <<workerAt, workerRun>>
history == <<ambiguous, discarded>>
vars == <<request, snapshot, rows, stream, pel, workerAt, workerRun,
          announced, ambiguous, discarded, faults>>

RequestStates ==
  {"idle", "fetched", "refused", "committed", "inline", "inserting",
   "done", "failed", "died"}

WorkerStates == {"idle", "check", "insert", "notify", "ack"}

InStream(r) == \E i \in 1..Len(stream) : stream[i] = r
HeldBy(w, r) == workerRun[w] = r
Held(r) == \E w \in Workers : HeldBy(w, r)

\* The TestRun row is in the database.
Created(r) ==
  request[r] \in {"committed", "inline", "inserting", "done", "failed", "died"}

\* populate_pending_results: "select ... where run_id = r" finds a row.
AlreadyPopulated(r) == \E c \in Cases : rows[r][c] > 0

\* Variant: the insert takes the cases that are active when it runs, whatever
\* the entry says.
InsertCurrentCases(r) ==
  \E S \in SUBSET Cases :
    rows' = [rows EXCEPT ![r] = [c \in Cases |-> IF c \in S THEN 1 ELSE 0]]

\* populate_pending_results: one row per case of the entry, in one commit.
InsertPending(r) ==
  rows' = [rows EXCEPT ![r] =
             [c \in Cases |-> IF c \in snapshot[r] THEN rows[r][c] + 1
                                                   ELSE rows[r][c]]]

Fault == faults < MaxFaults /\ faults' = faults + 1
NoFault == UNCHANGED faults

----------------------------------------------------------------------------
(* create_run *)

\* get_with_retry answers with the suite's active cases ...
FetchCases(r) ==
  /\ request[r] = "idle"
  /\ \E S \in SUBSET Cases : snapshot' = [snapshot EXCEPT ![r] = S]
  /\ request' = [request EXCEPT ![r] = "fetched"]
  /\ UNCHANGED <<rows, stream, pel, workerVars, announced, history, faults>>

\* ... or with 404, or all its attempts fail: 503.  Nothing was written.
RefuseRun(r) ==
  /\ request[r] = "idle"
  /\ request' = [request EXCEPT ![r] = "refused"]
  /\ UNCHANGED <<snapshot, rows, stream, pel, workerVars, announced, history,
                 faults>>

CommitRun(r) ==
  /\ request[r] = "fetched"
  /\ request' = [request EXCEPT ![r] = "committed"]
  /\ UNCHANGED <<snapshot, rows, stream, pel, workerVars, announced, history,
                 faults>>

\* Variant: create_run populates inline whether or not it queued the entry.
EnqueueAndPopulate(r) ==
  /\ request[r] = "committed"
  /\ request' = [request EXCEPT ![r] = "inline"]
  /\ stream' = Append(stream, r)
  /\ UNCHANGED <<snapshot, rows, pel, workerVars, announced, history, faults>>

\* Variant: without a client enqueue_run_population still answers True.
EnqueueNowhere(r) ==
  /\ request[r] = "committed"
  /\ request' = [request EXCEPT ![r] = "done"]
  /\ UNCHANGED <<snapshot, rows, stream, pel, workerVars, announced, history, faults>>

\* enqueue_run_population returns True: the request is answered.
Enqueue(r) ==
  /\ request[r] = "committed"
  /\ request' = [request EXCEPT ![r] = "done"]
  /\ stream' = Append(stream, r)
  /\ UNCHANGED <<snapshot, rows, pel, workerVars, announced, history, faults>>

\* No client, or the XADD failed before Redis applied it: False.
EnqueueFails(r) ==
  /\ request[r] = "committed"
  /\ Fault
  /\ request' = [request EXCEPT ![r] = "inline"]
  /\ UNCHANGED <<snapshot, rows, stream, pel, workerVars, announced, history>>

\* Redis applied the XADD but the reply was lost: the caller still sees False.
EnqueueReplyLost(r) ==
  /\ request[r] = "committed"
  /\ Fault
  /\ request' = [request EXCEPT ![r] = "inline"]
  /\ stream' = Append(stream, r)
  /\ ambiguous' = ambiguous \cup {r}
  /\ UNCHANGED <<snapshot, rows, pel, workerVars, announced, discarded>>

InlineCheck(r) ==
  /\ request[r] = "inline"
  /\ request' = [request EXCEPT ![r] =
                   IF AlreadyPopulated(r) THEN "done" ELSE "inserting"]
  /\ UNCHANGED <<snapshot, rows, stream, pel, workerVars, announced, history,
                 faults>>

InlineInsert(r) ==
  /\ request[r] = "inserting"
  /\ request' = [request EXCEPT ![r] = "done"]
  /\ InsertPending(r)
  /\ UNCHANGED <<snapshot, stream, pel, workerVars, announced, history, faults>>

\* The check or the commit raises: the request ends in a 500.
InlineFails(r) ==
  /\ request[r] \in {"inline", "inserting"}
  /\ Fault
  /\ request' = [request EXCEPT ![r] = "failed"]
  /\ UNCHANGED <<snapshot, rows, stream, pel, workerVars, announced, history>>

\* The runs replica dies: what it had committed stays, nothing resumes it.
RequestDies(r) ==
  /\ request[r] \in {"fetched", "committed", "inline", "inserting"}
  /\ Fault
  /\ request' = [request EXCEPT ![r] =
                   IF request[r] = "fetched" THEN "refused" ELSE "died"]
  /\ UNCHANGED <<snapshot, rows, stream, pel, workerVars, announced, history>>

----------------------------------------------------------------------------
(* consume_forever and handle_message *)

Goto(w, place) == workerAt' = [workerAt EXCEPT ![w] = place]

GoIdle(w) ==
  /\ workerAt' = [workerAt EXCEPT ![w] = "idle"]
  /\ workerRun' = [workerRun EXCEPT ![w] = NoRun]

\* Variant: the consumers first wait for the pending entries to be acked.
ReadWhenNonePending(w) ==
  /\ workerAt[w] = "idle"
  /\ stream # <<>>
  /\ pel = {}
  /\ Goto(w, "check")
  /\ workerRun' = [workerRun EXCEPT ![w] = Head(stream)]
  /\ stream' = Tail(stream)
  /\ pel' = {Head(stream)}
  /\ UNCHANGED <<requestVars, rows, announced, history, faults>>

\* XREADGROUP with ">" and count=1: the oldest entry nobody was given.
Read(w) ==
  /\ workerAt[w] = "idle"
  /\ stream # <<>>
  /\ Goto(w, "check")
  /\ workerRun' = [workerRun EXCEPT ![w] = Head(stream)]
  /\ stream' = Tail(stream)
  /\ pel' = pel \cup {Head(stream)}
  /\ UNCHANGED <<requestVars, rows, announced, history, faults>>

\* Redis delivered the entry, the worker's connection dropped: it reconnects
\* and asks for ">" again, which never returns a delivered entry.
ReadReplyLost(w) ==
  /\ workerAt[w] = "idle"
  /\ stream # <<>>
  /\ Fault
  /\ stream' = Tail(stream)
  /\ pel' = pel \cup {Head(stream)}
  /\ UNCHANGED <<requestVars, rows, workerVars, announced, history>>

Check(w) ==
  /\ workerAt[w] = "check"
  /\ Goto(w, IF AlreadyPopulated(workerRun[w]) THEN "notify" ELSE "insert")
  /\ UNCHANGED <<requestVars, rows, stream, pel, workerRun, announced, history,
                 faults>>

Insert(w) ==
  /\ workerAt[w] = "insert"
  /\ Goto(w, "notify")
  /\ InsertPending(workerRun[w])
  /\ UNCHANGED <<requestVars, stream, pel, workerRun, announced, history, faults>>

\* The query or the commit raises.  The loop logs it and acks all the same.
ProcessingFails(w) ==
  /\ workerAt[w] \in {"check", "insert"}
  /\ Fault
  /\ Goto(w, "ack")
  /\ discarded' = discarded \cup {workerRun[w]}
  /\ UNCHANGED <<requestVars, rows, stream, pel, workerRun, announced, ambiguous>>

\* The commit was applied but the connection dropped before the answer.
CommitReplyLost(w) ==
  /\ workerAt[w] = "insert"
  /\ Fault
  /\ Goto(w, "ack")
  /\ InsertPending(workerRun[w])
  /\ UNCHANGED <<requestVars, stream, pel, workerRun, announced, history>>

\* publish_ws_broadcast(results_populated).
Notify(w) ==
  /\ workerAt[w] = "notify"
  /\ Goto(w, "ack")
  /\ announced' = announced \cup {workerRun[w]}
  /\ UNCHANGED <<requestVars, rows, stream, pel, workerRun, history, faults>>

\* It returned False: handle_message ignores that.
NotifyFails(w) ==
  /\ workerAt[w] = "notify"
  /\ Fault
  /\ Goto(w, "ack")
  /\ UNCHANGED <<requestVars, rows, stream, pel, workerRun, announced, history>>

Ack(w) ==
  /\ workerAt[w] = "ack"
  /\ pel' = pel \ {workerRun[w]}
  /\ GoIdle(w)
  /\ UNCHANGED <<requestVars, rows, stream, announced, history, faults>>

\* The process restarts, or the XACK raises: the entry stays in the PEL.
WorkerDies(w) ==
  /\ workerAt[w] # "idle"
  /\ Fault
  /\ discarded' = IF workerAt[w] \in {"check", "insert"} /\ workerRun[w] \notin pel
                  THEN discarded \cup {workerRun[w]} ELSE discarded
  /\ GoIdle(w)
  /\ UNCHANGED <<requestVars, rows, stream, pel, announced, ambiguous>>

----------------------------------------------------------------------------

\* Redis has no volume: a restart loses the stream and the group, and the
\* workers' next _ensure_group creates both again, empty.
RedisRestarts ==
  /\ stream # <<>> \/ pel # {}
  /\ Fault
  /\ discarded' = discarded \cup pel \cup {r \in Runs : InStream(r)}
  /\ stream' = <<>>
  /\ pel' = {}
  /\ UNCHANGED <<requestVars, rows, workerVars, announced, ambiguous>>

Init ==
  /\ request = [r \in Runs |-> "idle"]
  /\ snapshot = [r \in Runs |-> {}]
  /\ rows = [r \in Runs |-> [c \in Cases |-> 0]]
  /\ stream = <<>>
  /\ pel = {}
  /\ workerAt = [w \in Workers |-> "idle"]
  /\ workerRun = [w \in Workers |-> NoRun]
  /\ announced = {}
  /\ ambiguous = {}
  /\ discarded = {}
  /\ faults = 0

RequestStep(r) ==
  \/ FetchCases(r) \/ RefuseRun(r) \/ CommitRun(r) \/ Enqueue(r)
  \/ InlineCheck(r) \/ InlineInsert(r)

RequestFault(r) ==
  \/ EnqueueFails(r) \/ EnqueueReplyLost(r) \/ InlineFails(r) \/ RequestDies(r)

WorkerStep(w) ==
  Read(w) \/ Check(w) \/ Insert(w) \/ Notify(w) \/ Ack(w)

WorkerFault(w) ==
  \/ ReadReplyLost(w) \/ ProcessingFails(w) \/ CommitReplyLost(w)
  \/ NotifyFails(w) \/ WorkerDies(w)

Next ==
  \/ \E r \in Runs : RequestStep(r) \/ RequestFault(r)
  \/ \E w \in Workers : WorkerStep(w) \/ WorkerFault(w)
  \/ RedisRestarts

\* A handler that was started is run to its end, and a live worker keeps
\* polling (restartPolicy Always restarts a dead one).  Nobody is obliged to
\* create a run, and no fault is obliged to happen.
Fairness ==
  /\ \A r \in Runs : WF_vars(request[r] # "idle" /\ RequestStep(r))
  /\ \A w \in Workers : WF_vars(WorkerStep(w))

Spec == Init /\ [][Next]_vars /\ Fairness

----------------------------------------------------------------------------
(* What is checked *)

TypeOK ==
  /\ request \in [Runs -> RequestStates]
  /\ snapshot \in [Runs -> SUBSET Cases]
  /\ rows \in [Runs -> [Cases -> Nat]]
  /\ stream \in Seq(Runs)
  /\ pel \in SUBSET Runs
  /\ workerAt \in [Workers -> WorkerStates]
  /\ workerRun \in [Workers -> Runs \cup {NoRun}]
  /\ \A w \in Workers : workerAt[w] = "idle" <=> workerRun[w] = NoRun
  /\ announced \in SUBSET Runs
  /\ ambiguous \in SUBSET Runs
  /\ discarded \in SUBSET Runs
  /\ faults \in 0..MaxFaults

\* Every case create_run fetched has its row.
Populated(r) == \A c \in snapshot[r] : rows[r][c] > 0

\* The entry of the run still has an insert ahead of it.
Coming(r) ==
  \/ InStream(r)
  \/ \E w \in Workers : HeldBy(w, r) /\ workerAt[w] \in {"check", "insert"}

\* Somebody is still on the way to populating the run.
InFlight(r) == request[r] \in {"committed", "inline", "inserting"} \/ Coming(r)

\* Delivered to a worker that no longer knows it.
Stranded(r) == r \in pel /\ ~Held(r)

\* The ways a run is lost for good: its request ended before or during its own
\* insert, its entry is stranded, or its entry left Redis unprocessed.
Lost(r) == request[r] \in {"failed", "died"} \/ Stranded(r) \/ r \in discarded

\* The rows of a run are all or nothing: whatever the interleaving, every case
\* of the entry has the same number of rows and no other case has any.
AllOrNothing ==
  \A r \in Runs :
    \A c, d \in Cases :
      /\ c \in snapshot[r] /\ d \in snapshot[r] => rows[r][c] = rows[r][d]
      /\ c \notin snapshot[r] => rows[r][c] = 0

\* A case gets a second row only in a run whose XADD was applied although the
\* runs service was told it had failed, and never a third: the check of
\* populate_pending_results has no other way to be overtaken, because the
\* group hands an entry to one worker, once.
DuplicatesOnlyAfterLostReply ==
  \A r \in Runs : \A c \in Cases :
    rows[r][c] <= IF r \in ambiguous THEN 2 ELSE 1

\* Browsers are told "results_populated" only of runs whose rows are committed.
AnnouncedArePopulated == \A r \in announced : Populated(r)

\* A created run without its rows is still being worked on or is lost in one
\* of the named ways: there is no other way to lose a run.
NoSilentLoss ==
  \A r \in Runs : Created(r) => Populated(r) \/ InFlight(r) \/ Lost(r)

\* Every run that was created ends up populated, or lost in a named way.
EventuallySettled ==
  \A r \in Runs : Created(r) ~> (Populated(r) \/ Lost(r))

\* The ledger the rows and announcements stand for.
Wanted == [r \in Runs |-> IF Created(r) THEN {snapshot[r]} ELSE {}]
Shown == [r \in Runs |-> {c \in Cases : rows[r][c] > 0}]

Ledger ==
  INSTANCE PopulationLedger WITH wanted <- Wanted, shown <- Shown, told <- announced

\* Inline inserts, workers, retries and faults together implement the ledger:
\* the rows of a run appear in one step, before any announcement of it, and
\* never change afterwards (a second copy of the rows shows no new case).
ImplementsLedger == Ledger!Spec

============================================================================
