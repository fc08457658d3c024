------------------------ MODULE RunPopulationProofs ------------------------
(***************************************************************************)
(* Proofs about RunPopulation, for any number of runs, cases, workers and  *)
(* faults.                                                                 *)
(***************************************************************************)
EXTENDS RunPopulation, TLAPS

BeforePost == {"idle", "fetched", "refused", "committed"}

\* create_run posts a run's entry at most once, and the consumer group hands
\* the entry to one worker: it is in the stream, or with one worker, not both.
EntryUnique ==
  /\ \A i, j \in 1..Len(stream) : stream[i] = stream[j] => i = j
  /\ \A w, x \in Workers :
       workerRun[w] = workerRun[x] /\ workerRun[w] # NoRun => w = x
  /\ \A r \in Runs : InStream(r) => ~Held(r)

\* Nothing exists of a run before its request reaches the XADD.
NothingBeforePost ==
  \A r \in Runs : request[r] \in BeforePost =>
    /\ ~InStream(r)
    /\ ~Held(r)
    /\ r \notin announced
    /\ r \notin ambiguous
    /\ \A c \in Cases : rows[r][c] = 0

\* Inserts still to come: from the entry, and from the request itself.
FromEntry(r) == IF Coming(r) THEN 1 ELSE 0
FromRequest(r) == IF request[r] \in {"inline", "inserting"} THEN 1 ELSE 0

\* The rows a case has and those it may still get never exceed its allowance.
InsertBudget ==
  \A r \in Runs : \A c \in Cases :
    rows[r][c] + FromEntry(r) + FromRequest(r) <= IF r \in ambiguous THEN 2 ELSE 1

\* A worker about to announce has a populated run in its hands; one about to
\* ack has a populated run or one whose entry it discards.
WorkerKnows ==
  \A w \in Workers :
    /\ workerAt[w] = "notify" => Populated(workerRun[w])
    /\ workerAt[w] = "ack" => Populated(workerRun[w]) \/ workerRun[w] \in discarded

LEMMA TypeInit == Init => TypeOK
BY PopulationAssumption
DEF Init, TypeOK, RequestStates, WorkerStates

LEMMA TypeRequest ==
  ASSUME TypeOK, NEW r \in Runs, RequestStep(r) \/ RequestFault(r)
  PROVE  TypeOK'
<1> USE PopulationAssumption
    DEF TypeOK, RequestStates, WorkerStates, Fault, workerVars, history
<1>1. CASE FetchCases(r)       BY <1>1 DEF FetchCases
<1>2. CASE RefuseRun(r)        BY <1>2 DEF RefuseRun
<1>3. CASE CommitRun(r)        BY <1>3 DEF CommitRun
<1>4. CASE Enqueue(r)          BY <1>4 DEF Enqueue
<1>5. CASE InlineCheck(r)      BY <1>5 DEF InlineCheck
<1>6. CASE InlineInsert(r)     BY <1>6 DEF InlineInsert, InsertPending
<1>7. CASE EnqueueFails(r)     BY <1>7 DEF EnqueueFails
<1>8. CASE EnqueueReplyLost(r) BY <1>8 DEF EnqueueReplyLost
<1>9. CASE InlineFails(r)      BY <1>9 DEF InlineFails
<1>10. CASE RequestDies(r)     BY <1>10 DEF RequestDies
<1> QED BY <1>1, <1>2, <1>3, <1>4, <1>5, <1>6, <1>7, <1>8, <1>9, <1>10
        DEF RequestStep, RequestFault

LEMMA TypeWorker ==
  ASSUME TypeOK, NEW w \in Workers, WorkerStep(w) \/ WorkerFault(w)
  PROVE  TypeOK'
<1> USE PopulationAssumption
    DEF TypeOK, RequestStates, WorkerStates, Fault, Goto, GoIdle,
        requestVars, workerVars, history
<1>1. CASE Read(w)             BY <1>1 DEF Read
<1>2. CASE Check(w)            BY <1>2 DEF Check
<1>3. CASE Insert(w)           BY <1>3 DEF Insert, InsertPending
<1>4. CASE Notify(w)           BY <1>4 DEF Notify
<1>5. CASE Ack(w)              BY <1>5 DEF Ack
<1>6. CASE ReadReplyLost(w)    BY <1>6 DEF ReadReplyLost
<1>7. CASE ProcessingFails(w)  BY <1>7 DEF ProcessingFails
<1>8. CASE CommitReplyLost(w)  BY <1>8 DEF CommitReplyLost, InsertPending
<1>9. CASE NotifyFails(w)      BY <1>9 DEF NotifyFails
<1>10. CASE WorkerDies(w)      BY <1>10 DEF WorkerDies
<1> QED BY <1>1, <1>2, <1>3, <1>4, <1>5, <1>6, <1>7, <1>8, <1>9, <1>10
        DEF WorkerStep, WorkerFault

LEMMA TypeStep == TypeOK /\ [Next]_vars => TypeOK'
<1> SUFFICES ASSUME TypeOK, [Next]_vars PROVE TypeOK'
  OBVIOUS
<1>1. CASE \E r \in Runs : RequestStep(r) \/ RequestFault(r)
  BY <1>1, TypeRequest
<1>2. CASE \E w \in Workers : WorkerStep(w) \/ WorkerFault(w)
  BY <1>2, TypeWorker
<1>3. CASE RedisRestarts
  BY <1>3, PopulationAssumption
  DEF RedisRestarts, TypeOK, Fault, requestVars, workerVars
<1>4. CASE UNCHANGED vars
  BY <1>4 DEF TypeOK, vars
<1> QED BY <1>1, <1>2, <1>3, <1>4 DEF Next

\* Every variable keeps its type; in particular a worker holds an entry
\* exactly while it is not waiting in XREADGROUP.
THEOREM TypeCorrect == Spec => []TypeOK
BY TypeInit, TypeStep, PTL DEF Spec

----------------------------------------------------------------------------
(* The stream: posting adds one entry, delivering removes the oldest. *)

LEMMA Posted ==
  ASSUME TypeOK, NEW r \in Runs, stream' = Append(stream, r)
  PROVE  /\ \A s \in Runs : InStream(s)' <=> InStream(s) \/ s = r
         /\ ~InStream(r) /\ (\A i, j \in 1..Len(stream) : stream[i] = stream[j] => i = j)
            => \A i, j \in 1..Len(stream') : stream'[i] = stream'[j] => i = j
<1>1. /\ stream \in Seq(Runs)
      /\ Len(stream) \in Nat
      /\ Len(stream') = Len(stream) + 1
      /\ \A i \in 1..Len(stream) : stream'[i] = stream[i]
      /\ stream'[Len(stream) + 1] = r
  BY DEF TypeOK
<1>2. ASSUME NEW s \in Runs
      PROVE  InStream(s)' <=> InStream(s) \/ s = r
  <2>1. InStream(s)' => InStream(s) \/ s = r
    BY <1>1 DEF InStream
  <2>2. InStream(s) => InStream(s)'
    BY <1>1 DEF InStream
  <2>3. s = r => InStream(s)'
    <3>1. Len(stream) + 1 \in 1..Len(stream')
      BY <1>1
    <3> QED BY <3>1, <1>1 DEF InStream
  <2> QED BY <2>1, <2>2, <2>3
<1>3. ASSUME ~InStream(r),
             \A i, j \in 1..Len(stream) : stream[i] = stream[j] => i = j,
             NEW i \in 1..Len(stream'), NEW j \in 1..Len(stream'),
             stream'[i] = stream'[j]
      PROVE  i = j
  BY <1>1, <1>3 DEF InStream
<1> QED BY <1>2, <1>3

LEMMA Delivered ==
  ASSUME TypeOK, EntryUnique, stream # <<>>, stream' = Tail(stream)
  PROVE  /\ Head(stream) \in Runs
         /\ InStream(Head(stream))
         /\ \A s \in Runs : InStream(s)' <=> InStream(s) /\ s # Head(stream)
         /\ \A i, j \in 1..Len(stream') : stream'[i] = stream'[j] => i = j
<1>1. /\ stream \in Seq(Runs)
      /\ Len(stream) \in Nat \ {0}
      /\ Len(stream') = Len(stream) - 1
      /\ \A i \in 1..Len(stream') : stream'[i] = stream[i + 1]
      /\ Head(stream) = stream[1]
      /\ Head(stream) \in Runs
  BY DEF TypeOK
<1>2. InStream(Head(stream))
  BY <1>1 DEF InStream
<1>3. ASSUME NEW s \in Runs
      PROVE  InStream(s)' <=> InStream(s) /\ s # Head(stream)
  <2>1. ASSUME InStream(s)' PROVE InStream(s) /\ s # Head(stream)
    <3>1. PICK i \in 1..Len(stream') : stream'[i] = s
      BY <2>1 DEF InStream
    <3>2. i + 1 \in 1..Len(stream) /\ stream[i + 1] = s /\ 1 \in 1..Len(stream)
      BY <3>1, <1>1
    <3> QED BY <3>1, <3>2, <1>1 DEF InStream, EntryUnique
  <2>2. ASSUME InStream(s), s # Head(stream) PROVE InStream(s)'
    <3>1. PICK i \in 1..Len(stream) : stream[i] = s
      BY <2>2 DEF InStream
    <3>2. i - 1 \in 1..Len(stream') /\ stream'[i - 1] = s
      BY <3>1, <2>2, <1>1
    <3> QED BY <3>2 DEF InStream
  <2> QED BY <2>1, <2>2
<1>4. ASSUME NEW i \in 1..Len(stream'), NEW j \in 1..Len(stream'),
             stream'[i] = stream'[j]
      PROVE  i = j
  <2>1. i + 1 \in 1..Len(stream) /\ j + 1 \in 1..Len(stream)
    BY <1>1
  <2>2. stream[i + 1] = stream[j + 1]
    BY <1>1, <1>4
  <2> QED BY <2>1, <2>2, <1>1 DEF EntryUnique
<1> QED BY <1>1, <1>2, <1>3, <1>4

----------------------------------------------------------------------------
(* One entry, in one place. *)

EntryInv == TypeOK /\ EntryUnique /\ NothingBeforePost

LEMMA EntryInit == Init => EntryInv
<1> SUFFICES ASSUME Init PROVE EntryUnique /\ NothingBeforePost
  BY TypeInit DEF EntryInv
<1>1. /\ Len(stream) = 0
      /\ \A w \in Workers : workerRun[w] = NoRun
  BY DEF Init
<1>2. \A r \in Runs : ~InStream(r) /\ ~Held(r)
  BY <1>1, PopulationAssumption DEF InStream, Held, HeldBy
<1>3. EntryUnique
  BY <1>1, <1>2 DEF EntryUnique
<1>4. NothingBeforePost
  BY <1>2 DEF Init, NothingBeforePost
<1> QED BY <1>3, <1>4

LEMMA StreamFrame ==
  ASSUME UNCHANGED stream
  PROVE  \A r \in Runs : InStream(r)' <=> InStream(r)
BY DEF InStream

LEMMA HeldFrame ==
  ASSUME UNCHANGED workerRun
  PROVE  \A r \in Runs : Held(r)' <=> Held(r)
BY DEF Held, HeldBy

\* A step that posts and delivers nothing, and changes nothing of the runs that
\* are not posted yet, keeps the entry where it is.
LEMMA EntryFrame ==
  ASSUME EntryInv, UNCHANGED stream,
         \A w \in Workers : workerRun'[w] \in {workerRun[w], NoRun},
         \A r \in Runs : request'[r] \in BeforePost =>
           /\ request[r] \in BeforePost
           /\ r \in announced' => r \in announced
           /\ r \in ambiguous' => r \in ambiguous
           /\ rows'[r] = rows[r]
  PROVE  EntryUnique' /\ NothingBeforePost'
<1>1. \A r \in Runs : InStream(r)' <=> InStream(r)
  BY StreamFrame
<1>2. \A r \in Runs : Held(r)' => Held(r)
  BY PopulationAssumption DEF Held, HeldBy
<1>3. EntryUnique'
  BY <1>1, <1>2 DEF EntryInv, EntryUnique
<1>4. NothingBeforePost'
  BY <1>1, <1>2 DEF EntryInv, NothingBeforePost, BeforePost
<1> QED BY <1>3, <1>4

LEMMA EntryRequest ==
  ASSUME EntryInv, TypeOK', NEW r \in Runs, RequestStep(r) \/ RequestFault(r)
  PROVE  EntryUnique' /\ NothingBeforePost'
<1> USE DEF Fault, workerVars, history
<1>0. TypeOK
  BY DEF EntryInv
<1>1. CASE FetchCases(r)
  BY <1>0, <1>1, EntryFrame DEF FetchCases, TypeOK, BeforePost
<1>2. CASE RefuseRun(r)
  BY <1>0, <1>2, EntryFrame DEF RefuseRun, TypeOK, BeforePost
<1>3. CASE CommitRun(r)
  BY <1>0, <1>3, EntryFrame DEF CommitRun, TypeOK, BeforePost
<1>4. CASE Enqueue(r) \/ EnqueueReplyLost(r)
  <2>1. /\ stream' = Append(stream, r)
        /\ request[r] = "committed"
        /\ UNCHANGED <<rows, workerRun, announced>>
        /\ \E x \in {"done", "inline"} : request' = [request EXCEPT ![r] = x]
        /\ \A s \in Runs : s # r => (s \in ambiguous' <=> s \in ambiguous)
    BY <1>4 DEF Enqueue, EnqueueReplyLost
  <2>2. ~InStream(r) /\ ~Held(r)
    BY <2>1 DEF EntryInv, NothingBeforePost, BeforePost
  <2>3. /\ \A s \in Runs : InStream(s)' <=> InStream(s) \/ s = r
        /\ \A i, j \in 1..Len(stream') : stream'[i] = stream'[j] => i = j
        /\ \A s \in Runs : Held(s)' <=> Held(s)
    BY <1>0, <2>1, <2>2, Posted, HeldFrame DEF EntryInv, EntryUnique
  <2>4. EntryUnique'
    BY <2>1, <2>2, <2>3 DEF EntryInv, EntryUnique
  <2>5. NothingBeforePost'
    BY <1>0, <2>1, <2>3 DEF EntryInv, NothingBeforePost, TypeOK, BeforePost
  <2> QED BY <2>4, <2>5
<1>5. CASE InlineCheck(r)
  BY <1>0, <1>5, EntryFrame DEF InlineCheck, TypeOK, BeforePost
<1>6. CASE InlineInsert(r)
  BY <1>0, <1>6, EntryFrame DEF InlineInsert, InsertPending, TypeOK, BeforePost
<1>7. CASE EnqueueFails(r)
  BY <1>0, <1>7, EntryFrame DEF EnqueueFails, TypeOK, BeforePost
<1>8. CASE InlineFails(r)
  BY <1>0, <1>8, EntryFrame DEF InlineFails, TypeOK, BeforePost
<1>9. CASE RequestDies(r)
  BY <1>0, <1>9, EntryFrame DEF RequestDies, TypeOK, BeforePost
<1> QED BY <1>1, <1>2, <1>3, <1>4, <1>5, <1>6, <1>7, <1>8, <1>9
        DEF RequestStep, RequestFault

\* What a worker holds has been posted.
LEMMA HeldIsPosted ==
  ASSUME EntryInv, NEW w \in Workers, workerAt[w] # "idle"
  PROVE  workerRun[w] \in Runs /\ request[workerRun[w]] \notin BeforePost
BY PopulationAssumption
DEF EntryInv, TypeOK, NothingBeforePost, Held, HeldBy

LEMMA EntryWorker ==
  ASSUME EntryInv, TypeOK', NEW w \in Workers, WorkerStep(w) \/ WorkerFault(w)
  PROVE  EntryUnique' /\ NothingBeforePost'
<1> USE DEF Fault, Goto, GoIdle, requestVars, workerVars, history
<1>0. TypeOK
  BY DEF EntryInv
<1>1. CASE Read(w) \/ ReadReplyLost(w)
  <2>1. /\ stream # <<>>
        /\ stream' = Tail(stream)
        /\ workerAt[w] = "idle"
        /\ \/ workerRun' = [workerRun EXCEPT ![w] = Head(stream)]
           \/ workerRun' = workerRun
        /\ UNCHANGED <<request, rows, announced, ambiguous>>
    BY <1>1 DEF Read, ReadReplyLost
  <2>2. /\ Head(stream) \in Runs
        /\ InStream(Head(stream))
        /\ \A s \in Runs : InStream(s)' <=> InStream(s) /\ s # Head(stream)
        /\ \A i, j \in 1..Len(stream') : stream'[i] = stream'[j] => i = j
    BY <1>0, <2>1, Delivered DEF EntryInv
  <2>3. ~Held(Head(stream)) /\ request[Head(stream)] \notin BeforePost
    BY <2>2 DEF EntryInv, EntryUnique, NothingBeforePost
  <2>4. \A s \in Runs : Held(s)' => Held(s) \/ s = Head(stream)
    BY <1>0, <2>1 DEF Held, HeldBy, TypeOK
  <2>5. \A x, y \in Workers :
          workerRun'[x] = workerRun'[y] /\ workerRun'[x] # NoRun => x = y
    <3>1. \A x \in Workers : workerRun[x] # Head(stream)
      BY <2>3 DEF Held, HeldBy
    <3> QED BY <1>0, <2>1, <3>1 DEF EntryInv, EntryUnique, TypeOK
  <2>6. EntryUnique'
    BY <2>2, <2>4, <2>5 DEF EntryInv, EntryUnique
  <2>7. NothingBeforePost'
    BY <2>1, <2>2, <2>3, <2>4 DEF EntryInv, NothingBeforePost
  <2> QED BY <2>6, <2>7
<1>2. CASE Check(w)
  BY <1>0, <1>2, EntryFrame DEF Check, TypeOK
<1>3. CASE Insert(w) \/ CommitReplyLost(w)
  <2>1. workerRun[w] \in Runs /\ request[workerRun[w]] \notin BeforePost
    BY <1>3, HeldIsPosted DEF Insert, CommitReplyLost
  <2> QED BY <1>0, <1>3, <2>1, EntryFrame
          DEF Insert, CommitReplyLost, InsertPending, TypeOK
<1>4. CASE Notify(w)
  <2>1. workerRun[w] \in Runs /\ request[workerRun[w]] \notin BeforePost
    BY <1>4, HeldIsPosted DEF Notify
  <2> QED BY <1>0, <1>4, <2>1, EntryFrame DEF Notify, TypeOK
<1>5. CASE Ack(w)
  BY <1>0, <1>5, EntryFrame DEF Ack, TypeOK
<1>6. CASE ProcessingFails(w)
  BY <1>0, <1>6, EntryFrame DEF ProcessingFails, TypeOK
<1>7. CASE NotifyFails(w)
  BY <1>0, <1>7, EntryFrame DEF NotifyFails, TypeOK
<1>8. CASE WorkerDies(w)
  BY <1>0, <1>8, EntryFrame DEF WorkerDies, TypeOK
<1> QED BY <1>1, <1>2, <1>3, <1>4, <1>5, <1>6, <1>7, <1>8
        DEF WorkerStep, WorkerFault

LEMMA EntryStep == EntryInv /\ [Next]_vars => EntryInv'
<1> SUFFICES ASSUME EntryInv, [Next]_vars PROVE EntryInv'
  OBVIOUS
<1>1. TypeOK /\ TypeOK'
  BY TypeStep DEF EntryInv
<1>2. CASE \E r \in Runs : RequestStep(r) \/ RequestFault(r)
  BY <1>1, <1>2, EntryRequest DEF EntryInv
<1>3. CASE \E w \in Workers : WorkerStep(w) \/ WorkerFault(w)
  BY <1>1, <1>3, EntryWorker DEF EntryInv
<1>4. CASE RedisRestarts
  <2>1. /\ Len(stream') = 0
        /\ UNCHANGED <<request, rows, workerRun, announced, ambiguous>>
    BY <1>4 DEF RedisRestarts, requestVars, workerVars
  <2>2. \A r \in Runs : ~InStream(r)' /\ (Held(r)' <=> Held(r))
    BY <2>1, HeldFrame DEF InStream
  <2>3. EntryUnique' /\ NothingBeforePost'
    BY <2>1, <2>2 DEF EntryInv, EntryUnique, NothingBeforePost
  <2> QED BY <1>1, <2>3 DEF EntryInv
<1>5. CASE UNCHANGED vars
  <2>1. EntryUnique' /\ NothingBeforePost'
    BY <1>5, EntryFrame DEF vars
  <2> QED BY <1>1, <2>1 DEF EntryInv
<1> QED BY <1>2, <1>3, <1>4, <1>5 DEF Next

----------------------------------------------------------------------------
(* What only grows. *)

\* Once a run is committed its case list is fixed; rows are only added, and
\* only to runs that are past their XADD.
Grows(r) ==
  /\ request[r] # "idle" => snapshot'[r] = snapshot[r]
  /\ request[r] \in BeforePost => \A c \in Cases : rows'[r][c] = rows[r][c]
  /\ \A c \in Cases : rows'[r][c] >= rows[r][c]
  /\ r \in discarded => r \in discarded'

LEMMA GrowsRequest ==
  ASSUME EntryInv, NEW q \in Runs, RequestStep(q) \/ RequestFault(q)
  PROVE  \A r \in Runs : Grows(r)
<1> USE DEF Fault, workerVars, history, Grows, BeforePost
<1>0. TypeOK
  BY DEF EntryInv
<1>1. CASE FetchCases(q)
  BY <1>0, <1>1 DEF FetchCases, TypeOK
<1>2. CASE InlineInsert(q)
  BY <1>0, <1>2 DEF InlineInsert, InsertPending, TypeOK
<1>3. CASE ~FetchCases(q) /\ ~InlineInsert(q)
  <2>1. UNCHANGED <<snapshot, rows, discarded>>
    BY <1>3 DEF RequestStep, RequestFault, RefuseRun, CommitRun, Enqueue,
      InlineCheck, EnqueueFails, EnqueueReplyLost, InlineFails, RequestDies
  <2> QED BY <1>0, <2>1 DEF TypeOK
<1> QED BY <1>1, <1>2, <1>3

LEMMA GrowsWorker ==
  ASSUME EntryInv, NEW w \in Workers, WorkerStep(w) \/ WorkerFault(w)
  PROVE  \A r \in Runs : Grows(r)
<1> USE DEF Fault, requestVars, history, Grows
<1>0. TypeOK
  BY DEF EntryInv
<1>1. CASE Insert(w) \/ CommitReplyLost(w)
  <2>1. workerRun[w] \in Runs /\ request[workerRun[w]] \notin BeforePost
    BY <1>1, HeldIsPosted DEF Insert, CommitReplyLost
  <2>2. InsertPending(workerRun[w]) /\ UNCHANGED <<snapshot, discarded>>
    BY <1>1 DEF Insert, CommitReplyLost
  <2>3. \A r \in Runs : \A c \in Cases :
          /\ rows'[r][c] >= rows[r][c]
          /\ r # workerRun[w] => rows'[r][c] = rows[r][c]
    BY <1>0, <2>1, <2>2 DEF InsertPending, TypeOK
  <2> QED BY <2>1, <2>2, <2>3
<1>2. CASE ~Insert(w) /\ ~CommitReplyLost(w)
  <2>1. UNCHANGED <<snapshot, rows>> /\ discarded \subseteq discarded'
    BY <1>2 DEF WorkerStep, WorkerFault, Read, Check, Notify, Ack,
      ReadReplyLost, ProcessingFails, NotifyFails, WorkerDies
  <2> QED BY <1>0, <2>1 DEF TypeOK
<1> QED BY <1>1, <1>2

LEMMA GrowsStep == EntryInv /\ [Next]_vars => \A r \in Runs : Grows(r)
<1> SUFFICES ASSUME EntryInv, [Next]_vars PROVE \A r \in Runs : Grows(r)
  OBVIOUS
<1>1. CASE \E q \in Runs : RequestStep(q) \/ RequestFault(q)
  BY <1>1, GrowsRequest
<1>2. CASE \E w \in Workers : WorkerStep(w) \/ WorkerFault(w)
  BY <1>2, GrowsWorker
<1>3. CASE RedisRestarts \/ UNCHANGED vars
  <2>1. UNCHANGED <<snapshot, rows>> /\ discarded \subseteq discarded'
    BY <1>3 DEF RedisRestarts, requestVars, vars
  <2> QED BY <2>1 DEF Grows, EntryInv, TypeOK
<1> QED BY <1>1, <1>2, <1>3 DEF Next

\* A populated run stays populated.
LEMMA PopulatedStays ==
  ASSUME EntryInv, TypeOK', NEW r \in Runs, Grows(r), request[r] # "idle", Populated(r)
  PROVE  Populated(r)'
BY DEF EntryInv, TypeOK, Grows, Populated

----------------------------------------------------------------------------
(* All or nothing. *)

LEMMA InsertFillsRun ==
  ASSUME TypeOK, AllOrNothing, NEW r \in Runs, InsertPending(r), UNCHANGED snapshot
  PROVE  AllOrNothing' /\ Populated(r)'
<1>1. \A s \in Runs : \A c \in Cases :
        rows'[s][c] = IF s = r /\ c \in snapshot[s] THEN rows[s][c] + 1 ELSE rows[s][c]
  BY DEF TypeOK, InsertPending
<1>2. AllOrNothing'
  BY <1>1 DEF AllOrNothing
<1>3. Populated(r)'
  BY <1>1 DEF Populated, TypeOK
<1> QED BY <1>2, <1>3

LEMMA AllOrNothingStep ==
  EntryInv /\ AllOrNothing /\ [Next]_vars => AllOrNothing'
<1> SUFFICES ASSUME EntryInv, AllOrNothing, [Next]_vars PROVE AllOrNothing'
  OBVIOUS
<1>0. TypeOK
  BY DEF EntryInv
<1>1. CASE \E r \in Runs : FetchCases(r)
  <2>1. PICK r \in Runs : FetchCases(r)
    BY <1>1
  <2>2. /\ UNCHANGED rows
        /\ \A s \in Runs : s # r => snapshot'[s] = snapshot[s]
        /\ \A c \in Cases : rows[r][c] = 0
    BY <1>0, <2>1 DEF FetchCases, TypeOK, EntryInv, NothingBeforePost, BeforePost
  <2> QED BY <2>2 DEF AllOrNothing
<1>2. CASE \E r \in Runs : InsertPending(r) /\ UNCHANGED snapshot
  BY <1>0, <1>2, InsertFillsRun
<1>3. CASE UNCHANGED <<rows, snapshot>>
  BY <1>3 DEF AllOrNothing
<1>4. \/ \E r \in Runs : FetchCases(r)
      \/ \E r \in Runs : InsertPending(r) /\ UNCHANGED snapshot
      \/ UNCHANGED <<rows, snapshot>>
  <2>1. ASSUME NEW r \in Runs, RequestStep(r) \/ RequestFault(r)
        PROVE  \/ FetchCases(r)
               \/ InsertPending(r) /\ UNCHANGED snapshot
               \/ UNCHANGED <<rows, snapshot>>
    BY <2>1 DEF RequestStep, RequestFault, RefuseRun, CommitRun, Enqueue, InlineCheck,
      InlineInsert, EnqueueFails, EnqueueReplyLost, InlineFails, RequestDies
  <2>2. ASSUME NEW w \in Workers, WorkerStep(w) \/ WorkerFault(w)
        PROVE  \/ \E r \in Runs : InsertPending(r) /\ UNCHANGED snapshot
               \/ UNCHANGED <<rows, snapshot>>
    <3>1. CASE Insert(w) \/ CommitReplyLost(w)
      <4>1. workerRun[w] \in Runs
        BY <3>1, HeldIsPosted DEF Insert, CommitReplyLost
      <4> QED BY <3>1, <4>1 DEF Insert, CommitReplyLost, requestVars
    <3>2. CASE ~Insert(w) /\ ~CommitReplyLost(w)
      BY <2>2, <3>2 DEF WorkerStep, WorkerFault, Read, Check, Notify, Ack,
        ReadReplyLost, ProcessingFails, NotifyFails, WorkerDies, requestVars
    <3> QED BY <3>1, <3>2
  <2>3. CASE RedisRestarts \/ UNCHANGED vars
    BY <2>3 DEF RedisRestarts, requestVars, vars
  <2> QED BY <2>1, <2>2, <2>3 DEF Next
<1> QED BY <1>1, <1>2, <1>3, <1>4

----------------------------------------------------------------------------
(* Two copies at most. *)

\* No insert becomes possible that was not, and nothing is inserted.
LEMMA BudgetFrame ==
  ASSUME TypeOK, InsertBudget, UNCHANGED rows, ambiguous \subseteq ambiguous',
         \A r \in Runs : Coming(r)' => Coming(r),
         \A r \in Runs : request'[r] \in {"inline", "inserting"}
                         => request[r] \in {"inline", "inserting"}
  PROVE  InsertBudget'
<1>1. \A r \in Runs : FromEntry(r) \in {0, 1} /\ FromEntry(r)' \in {0, 1}
                      /\ FromEntry(r)' <= FromEntry(r)
  BY DEF FromEntry
<1>2. \A r \in Runs : FromRequest(r) \in {0, 1} /\ FromRequest(r)' \in {0, 1}
                      /\ FromRequest(r)' <= FromRequest(r)
  BY DEF FromRequest
<1>3. \A r \in Runs : \A c \in Cases : rows[r][c] \in Nat
  BY DEF TypeOK
<1> QED BY <1>1, <1>2, <1>3 DEF InsertBudget

\* An insert spends what it was counted for.
LEMMA BudgetSpent ==
  ASSUME TypeOK, InsertBudget, UNCHANGED ambiguous,
         NEW r \in Runs, InsertPending(r),
         \A s \in Runs : Coming(s)' => Coming(s),
         \A s \in Runs : request'[s] \in {"inline", "inserting"}
                         => request[s] \in {"inline", "inserting"},
         FromEntry(r)' + FromRequest(r)' < FromEntry(r) + FromRequest(r)
  PROVE  InsertBudget'
<1>1. \A s \in Runs : FromEntry(s) \in {0, 1} /\ FromEntry(s)' \in {0, 1}
                      /\ FromEntry(s)' <= FromEntry(s)
  BY DEF FromEntry
<1>2. \A s \in Runs : FromRequest(s) \in {0, 1} /\ FromRequest(s)' \in {0, 1}
                      /\ FromRequest(s)' <= FromRequest(s)
  BY DEF FromRequest
<1>3. \A s \in Runs : \A c \in Cases :
        /\ rows[s][c] \in Nat /\ rows'[s][c] \in Nat
        /\ rows'[s][c] <= rows[s][c] + 1
        /\ s # r => rows'[s][c] = rows[s][c]
  BY DEF TypeOK, InsertPending
<1> QED BY <1>1, <1>2, <1>3 DEF InsertBudget

LEMMA ComingFrame ==
  ASSUME UNCHANGED <<stream, workerAt, workerRun>>
  PROVE  \A r \in Runs : Coming(r)' <=> Coming(r)
BY DEF Coming, InStream, HeldBy

LEMMA BudgetRequest ==
  ASSUME EntryInv, InsertBudget, NEW r \in Runs, RequestStep(r) \/ RequestFault(r)
  PROVE  InsertBudget'
<1> USE DEF Fault, workerVars, history
<1>0. TypeOK
  BY DEF EntryInv
<1>1. CASE FetchCases(r) \/ RefuseRun(r) \/ CommitRun(r) \/ InlineCheck(r)
           \/ InlineFails(r) \/ RequestDies(r)
  <2>1. /\ UNCHANGED <<stream, workerAt, workerRun, rows, ambiguous>>
        /\ \A s \in Runs : request'[s] \in {"inline", "inserting"}
                           => request[s] \in {"inline", "inserting"}
    BY <1>0, <1>1 DEF FetchCases, RefuseRun, CommitRun, InlineCheck, InlineFails,
                      RequestDies, TypeOK
  <2> QED BY <1>0, <2>1, ComingFrame, BudgetFrame
<1>2. CASE InlineInsert(r)
  <2>1. /\ UNCHANGED <<stream, workerAt, workerRun, ambiguous>>
        /\ InsertPending(r)
        /\ request[r] = "inserting"
        /\ request' = [request EXCEPT ![r] = "done"]
    BY <1>2 DEF InlineInsert
  <2>2. FromRequest(r) = 1 /\ FromRequest(r)' = 0
    BY <1>0, <2>1 DEF FromRequest, TypeOK
  <2>3. FromEntry(r)' = FromEntry(r) /\ FromEntry(r) \in {0, 1}
    BY <2>1, ComingFrame DEF FromEntry
  <2>4. \A s \in Runs : request'[s] \in {"inline", "inserting"}
                        => request[s] \in {"inline", "inserting"}
    BY <1>0, <2>1 DEF TypeOK
  <2> QED BY <1>0, <2>1, <2>2, <2>3, <2>4, ComingFrame, BudgetSpent
<1>3. CASE Enqueue(r) \/ EnqueueFails(r) \/ EnqueueReplyLost(r)
  <2>1. /\ request[r] = "committed"
        /\ UNCHANGED <<rows, workerAt, workerRun>>
        /\ \/ /\ request' = [request EXCEPT ![r] = "done"]
              /\ stream' = Append(stream, r)
              /\ UNCHANGED ambiguous
           \/ /\ request' = [request EXCEPT ![r] = "inline"]
              /\ UNCHANGED <<stream, ambiguous>>
           \/ /\ request' = [request EXCEPT ![r] = "inline"]
              /\ stream' = Append(stream, r)
              /\ ambiguous' = ambiguous \cup {r}
    BY <1>3 DEF Enqueue, EnqueueFails, EnqueueReplyLost
  <2>2. /\ \A c \in Cases : rows[r][c] = 0
        /\ ~Coming(r)
    BY <2>1 DEF EntryInv, NothingBeforePost, BeforePost, Coming, Held
  <2>3. \A s \in Runs : s # r => (Coming(s)' <=> Coming(s))
    <3>1. \A s \in Runs : s # r => (InStream(s)' <=> InStream(s))
      BY <1>0, <2>1, Posted, StreamFrame
    <3> QED BY <2>1, <3>1 DEF Coming, HeldBy
  <2>4. UNCHANGED stream => ~Coming(r)'
    BY <2>1, <2>2, ComingFrame
  <2>5. FromEntry(r)' \in {0, 1} /\ (UNCHANGED stream => FromEntry(r)' = 0)
    BY <2>4 DEF FromEntry
  <2>6. /\ FromRequest(r)' \in {0, 1}
        /\ request'[r] = "done" => FromRequest(r)' = 0
    BY DEF FromRequest
  <2>7. \A s \in Runs : s # r => /\ FromEntry(s)' = FromEntry(s)
                                 /\ FromRequest(s)' = FromRequest(s)
                                 /\ s \in ambiguous' <=> s \in ambiguous
    BY <1>0, <2>1, <2>3 DEF FromEntry, FromRequest, TypeOK
  <2>8. ASSUME NEW c \in Cases
        PROVE  rows'[r][c] + FromEntry(r)' + FromRequest(r)'
                 <= IF r \in ambiguous' THEN 2 ELSE 1
    BY <1>0, <2>1, <2>2, <2>5, <2>6 DEF TypeOK
  <2> QED BY <2>1, <2>7, <2>8 DEF InsertBudget
<1> QED BY <1>1, <1>2, <1>3 DEF RequestStep, RequestFault

LEMMA BudgetWorker ==
  ASSUME EntryInv, InsertBudget, NEW w \in Workers, WorkerStep(w) \/ WorkerFault(w)
  PROVE  InsertBudget'
<1> USE DEF Fault, Goto, GoIdle, requestVars, workerVars, history
<1>0. TypeOK
  BY DEF EntryInv
<1>1. CASE Read(w) \/ ReadReplyLost(w)
  <2>1. /\ stream # <<>>
        /\ stream' = Tail(stream)
        /\ UNCHANGED <<request, rows, ambiguous>>
        /\ \/ /\ workerRun' = [workerRun EXCEPT ![w] = Head(stream)]
              /\ workerAt' = [workerAt EXCEPT ![w] = "check"]
           \/ UNCHANGED <<workerAt, workerRun>>
    BY <1>1 DEF Read, ReadReplyLost
  <2>2. /\ InStream(Head(stream))
        /\ \A s \in Runs : InStream(s)' => InStream(s)
    BY <1>0, <2>1, Delivered DEF EntryInv
  <2>3. \A s \in Runs : Coming(s)' => Coming(s)
    BY <1>0, <2>1, <2>2 DEF Coming, HeldBy, TypeOK
  <2> QED BY <1>0, <2>1, <2>3, BudgetFrame
<1>2. CASE Insert(w) \/ CommitReplyLost(w)
  <2>0. workerRun[w] \in Runs /\ workerAt[w] = "insert"
    BY <1>2, HeldIsPosted DEF Insert, CommitReplyLost
  <2>1. PICK r \in Runs : r = workerRun[w] /\ workerAt[w] = "insert"
    BY <2>0
  <2>2. /\ InsertPending(r)
        /\ UNCHANGED <<request, stream, workerRun, ambiguous>>
        /\ \E x \in {"notify", "ack"} : workerAt' = [workerAt EXCEPT ![w] = x]
    BY <1>2, <2>1 DEF Insert, CommitReplyLost
  <2>3. ~InStream(r) /\ \A x \in Workers : workerRun[x] = r => x = w
    BY <1>0, <2>1, PopulationAssumption DEF EntryInv, EntryUnique, Held, HeldBy
  <2>4. Coming(r) /\ ~Coming(r)'
    <3>1. Coming(r)
      BY <2>1 DEF Coming, HeldBy
    <3>2. ~InStream(r)'
      BY <2>1, <2>2, <2>3, StreamFrame
    <3>3. ~Coming(r)'
      BY <1>0, <2>2, <2>3, <3>2 DEF Coming, HeldBy, TypeOK
    <3> QED BY <3>1, <3>3
  <2>5. \A s \in Runs : Coming(s)' => Coming(s)
    BY <1>0, <2>2, StreamFrame DEF Coming, HeldBy, TypeOK
  <2>6. FromEntry(r)' + FromRequest(r)' < FromEntry(r) + FromRequest(r)
    BY <2>2, <2>4 DEF FromEntry, FromRequest
  <2> QED BY <1>0, <2>1, <2>2, <2>5, <2>6, BudgetSpent
<1>3. CASE Check(w) \/ Notify(w) \/ Ack(w) \/ ProcessingFails(w) \/ NotifyFails(w)
           \/ WorkerDies(w)
  <2>1. /\ UNCHANGED <<request, stream, rows, ambiguous>>
        /\ \A x \in Workers :
             \/ workerRun'[x] = workerRun[x]
                /\ (workerAt'[x] \in {"check", "insert"} => workerAt[x] \in {"check", "insert"})
             \/ workerAt'[x] = "idle"
    BY <1>0, <1>3 DEF Check, Notify, Ack, ProcessingFails, NotifyFails, WorkerDies, TypeOK
  <2>2. \A s \in Runs : Coming(s)' => Coming(s)
    BY <2>1, StreamFrame DEF Coming, HeldBy
  <2> QED BY <1>0, <2>1, <2>2, BudgetFrame
<1> QED BY <1>1, <1>2, <1>3 DEF WorkerStep, WorkerFault

LEMMA BudgetStep ==
  EntryInv /\ InsertBudget /\ [Next]_vars => InsertBudget'
<1> SUFFICES ASSUME EntryInv, InsertBudget, [Next]_vars PROVE InsertBudget'
  OBVIOUS
<1>1. CASE \E r \in Runs : RequestStep(r) \/ RequestFault(r)
  BY <1>1, BudgetRequest
<1>2. CASE \E w \in Workers : WorkerStep(w) \/ WorkerFault(w)
  BY <1>2, BudgetWorker
<1>3. CASE RedisRestarts
  <2>1. /\ Len(stream') = 0
        /\ UNCHANGED <<request, rows, workerAt, workerRun, ambiguous>>
    BY <1>3 DEF RedisRestarts, requestVars, workerVars
  <2>2. \A r \in Runs : Coming(r)' => Coming(r)
    BY <2>1 DEF Coming, InStream, HeldBy
  <2> QED BY <2>1, <2>2, BudgetFrame DEF EntryInv
<1>4. CASE UNCHANGED vars
  BY <1>4, ComingFrame, BudgetFrame DEF vars, EntryInv
<1> QED BY <1>1, <1>2, <1>3, <1>4 DEF Next

----------------------------------------------------------------------------
(* Every run is accounted for. *)

LEMMA KnowsStep ==
  ASSUME EntryInv, TypeOK', AllOrNothing, AllOrNothing', WorkerKnows,
         \A r \in Runs : Grows(r), [Next]_vars
  PROVE  WorkerKnows'
<1> USE DEF Fault, Goto, GoIdle, requestVars, workerVars, history
<1>0. TypeOK
  BY DEF EntryInv
<1>1. ASSUME NEW x \in Workers, workerAt'[x] = workerAt[x], workerRun'[x] = workerRun[x]
      PROVE  /\ workerAt'[x] = "notify" => \A c \in snapshot'[workerRun'[x]] : rows'[workerRun'[x]][c] > 0
             /\ workerAt'[x] = "ack" =>
                  \/ \A c \in snapshot'[workerRun'[x]] : rows'[workerRun'[x]][c] > 0
                  \/ workerRun'[x] \in discarded'
  <2>1. CASE workerAt[x] \in {"notify", "ack"}
    <3>1. PICK r \in Runs : r = workerRun[x] /\ request[r] \notin BeforePost
      BY <2>1, HeldIsPosted
    <3>2. Populated(r) => Populated(r)'
      BY <3>1, PopulatedStays DEF BeforePost
    <3>3. r \in discarded => r \in discarded'
      BY DEF Grows
    <3> QED BY <1>1, <2>1, <3>1, <3>2, <3>3 DEF WorkerKnows, Populated
  <2> QED BY <1>1, <2>1
<1>2. CASE \E w \in Workers : WorkerStep(w) \/ WorkerFault(w)
  <2>1. PICK w \in Workers : WorkerStep(w) \/ WorkerFault(w)
    BY <1>2
  <2>2. \A x \in Workers : x # w => workerAt'[x] = workerAt[x] /\ workerRun'[x] = workerRun[x]
    BY <1>0, <2>1 DEF WorkerStep, WorkerFault, Read, Check, Insert, Notify, Ack,
      ReadReplyLost, ProcessingFails, CommitReplyLost, NotifyFails, WorkerDies, TypeOK
  <2>3. /\ workerAt'[w] = "notify" => \A c \in snapshot'[workerRun'[w]] : rows'[workerRun'[w]][c] > 0
        /\ workerAt'[w] = "ack" =>
             \/ \A c \in snapshot'[workerRun'[w]] : rows'[workerRun'[w]][c] > 0
             \/ workerRun'[w] \in discarded'
    <3>1. CASE Read(w) \/ ReadReplyLost(w) \/ Ack(w) \/ WorkerDies(w)
      BY <1>0, <3>1 DEF Read, ReadReplyLost, Ack, WorkerDies, TypeOK
    <3>2. CASE Check(w)
      <4>1. workerRun[w] \in Runs
        BY <3>2, HeldIsPosted DEF Check
      <4> QED BY <1>0, <3>2, <4>1 DEF Check, TypeOK, AlreadyPopulated, AllOrNothing
    <3>3. CASE Insert(w) \/ CommitReplyLost(w)
      <4>1. workerRun[w] \in Runs
        BY <3>3, HeldIsPosted DEF Insert, CommitReplyLost
      <4> QED BY <1>0, <3>3, <4>1 DEF Insert, CommitReplyLost, InsertPending, TypeOK
    <3>4. CASE Notify(w) \/ NotifyFails(w)
      BY <1>0, <3>4 DEF Notify, NotifyFails, WorkerKnows, Populated, TypeOK
    <3>5. CASE ProcessingFails(w)
      BY <1>0, <3>5 DEF ProcessingFails, TypeOK
    <3> QED BY <2>1, <3>1, <3>2, <3>3, <3>4, <3>5 DEF WorkerStep, WorkerFault
  <2> QED BY <1>1, <2>2, <2>3 DEF WorkerKnows, Populated
<1>3. CASE UNCHANGED workerVars
  BY <1>1, <1>3 DEF WorkerKnows, Populated
<1>4. UNCHANGED workerVars \/ \E w \in Workers : WorkerStep(w) \/ WorkerFault(w)
  BY DEF Next, vars, RequestStep, RequestFault, FetchCases, RefuseRun, CommitRun,
    Enqueue, InlineCheck, InlineInsert, EnqueueFails, EnqueueReplyLost, InlineFails,
    RequestDies, RedisRestarts
<1> QED BY <1>2, <1>3, <1>4

LEMMA AnnouncedStep ==
  ASSUME EntryInv, TypeOK', WorkerKnows, AnnouncedArePopulated,
         \A r \in Runs : Grows(r), [Next]_vars
  PROVE  AnnouncedArePopulated'
<1> SUFFICES ASSUME NEW r \in Runs, r \in announced' PROVE Populated(r)'
  BY DEF AnnouncedArePopulated, TypeOK
<1>1. CASE r \in announced
  <2>1. request[r] \notin BeforePost /\ Populated(r)
    BY <1>1 DEF EntryInv, NothingBeforePost, AnnouncedArePopulated
  <2> QED BY <2>1, PopulatedStays DEF BeforePost
<1>2. CASE r \notin announced
  <2>1. PICK w \in Workers : Notify(w) /\ workerRun[w] = r
    BY <1>2 DEF Next, vars, history, requestVars, workerVars, RequestStep, RequestFault,
      FetchCases, RefuseRun, CommitRun, Enqueue, InlineCheck, InlineInsert, EnqueueFails,
      EnqueueReplyLost, InlineFails, RequestDies, WorkerStep, WorkerFault, Read, Check,
      Insert, Notify, Ack, ReadReplyLost, ProcessingFails, CommitReplyLost, NotifyFails,
      WorkerDies, RedisRestarts
  <2>2. Populated(r) /\ request[r] \notin BeforePost
    BY <2>1, HeldIsPosted DEF Notify, WorkerKnows
  <2> QED BY <2>2, PopulatedStays DEF BeforePost
<1> QED BY <1>1, <1>2

\* With all or nothing, the check's first row stands for all of them.
LEMMA CheckDecides ==
  ASSUME TypeOK, AllOrNothing, NEW r \in Runs, AlreadyPopulated(r)
  PROVE  Populated(r)
<1>1. PICK c \in Cases : rows[r][c] > 0
  BY DEF AlreadyPopulated
<1>2. c \in snapshot[r]
  BY <1>1 DEF AllOrNothing
<1>3. \A d \in snapshot[r] : d \in Cases /\ rows[r][d] = rows[r][c]
  BY <1>2 DEF AllOrNothing, TypeOK
<1> QED BY <1>1, <1>3 DEF Populated

\* What a step can do to a run that was on its way or already lost: unless it
\* populates the run, the run is on its way or lost afterwards.
LEMMA AccountedRequest ==
  ASSUME EntryInv, AllOrNothing, NEW q \in Runs, RequestStep(q) \/ RequestFault(q),
         NEW r \in Runs, Created(r)', InFlight(r) \/ Lost(r) \/ ~Created(r)
  PROVE  InFlight(r)' \/ Lost(r)' \/ Populated(r)'
<1> USE DEF Fault, workerVars, history, Created
<1>0. TypeOK
  BY DEF EntryInv
<1>1. UNCHANGED <<pel, workerAt, workerRun, discarded>>
  BY DEF RequestStep, RequestFault, FetchCases, RefuseRun, CommitRun, Enqueue, InlineCheck,
    InlineInsert, EnqueueFails, EnqueueReplyLost, InlineFails, RequestDies
<1>2. Stranded(r) => Stranded(r)'
  BY <1>1, HeldFrame DEF Stranded
<1>3. InStream(r) => InStream(r)'
  <2>1. stream' = stream \/ stream' = Append(stream, q)
    BY DEF RequestStep, RequestFault, FetchCases, RefuseRun, CommitRun, Enqueue, InlineCheck,
      InlineInsert, EnqueueFails, EnqueueReplyLost, InlineFails, RequestDies
  <2> QED BY <1>0, <2>1, Posted, StreamFrame
<1>4. Coming(r) => Coming(r)'
  BY <1>1, <1>3 DEF Coming, HeldBy
<1>5. CASE r # q
  <2>1. request'[r] = request[r]
    BY <1>0, <1>5 DEF RequestStep, RequestFault, FetchCases, RefuseRun, CommitRun, Enqueue,
      InlineCheck, InlineInsert, EnqueueFails, EnqueueReplyLost, InlineFails, RequestDies, TypeOK
  <2> QED BY <1>1, <1>2, <1>4, <2>1 DEF InFlight, Lost
<1>6. CASE r = q
  <2>1. CASE InlineInsert(q)
    BY <1>0, <1>6, <2>1 DEF InlineInsert, InsertPending, Populated, TypeOK
  <2>2. CASE InlineCheck(q)
    <3>1. CASE AlreadyPopulated(q)
      <4>1. Populated(q)
        BY <1>0, <3>1, CheckDecides
      <4> QED BY <1>6, <2>2, <4>1 DEF InlineCheck, Populated
    <3>2. CASE ~AlreadyPopulated(q)
      <4>1. request'[q] = "inserting"
        BY <1>0, <2>2, <3>2 DEF InlineCheck, TypeOK
      <4> QED BY <1>6, <4>1 DEF InFlight
    <3> QED BY <3>1, <3>2
  <2>3. CASE Enqueue(q)
    <3>1. InStream(q)'
      BY <1>0, <2>3, Posted DEF Enqueue
    <3> QED BY <1>6, <3>1 DEF InFlight, Coming
  <2>4. CASE FetchCases(q) \/ RefuseRun(q) \/ CommitRun(q) \/ EnqueueFails(q)
             \/ EnqueueReplyLost(q) \/ InlineFails(q) \/ RequestDies(q)
    BY <1>0, <1>6, <2>4 DEF FetchCases, RefuseRun, CommitRun, EnqueueFails, EnqueueReplyLost,
      InlineFails, RequestDies, InFlight, Lost, TypeOK
  <2> QED BY <2>1, <2>2, <2>3, <2>4 DEF RequestStep, RequestFault
<1> QED BY <1>5, <1>6

LEMMA AccountedWorker ==
  ASSUME EntryInv, AllOrNothing, WorkerKnows, NEW w \in Workers, WorkerStep(w) \/ WorkerFault(w),
         NEW r \in Runs, Created(r)', InFlight(r) \/ Lost(r), ~Populated(r)
  PROVE  InFlight(r)' \/ Lost(r)' \/ Populated(r)'
<1> USE DEF Fault, Goto, GoIdle, requestVars, workerVars, history
<1>0. TypeOK
  BY DEF EntryInv
<1>1. UNCHANGED request /\ discarded \subseteq discarded'
  BY DEF WorkerStep, WorkerFault, Read, Check, Insert, Notify, Ack,
      ReadReplyLost, ProcessingFails, CommitReplyLost, NotifyFails, WorkerDies
<1>2. \A x \in Workers : x # w => workerAt'[x] = workerAt[x] /\ workerRun'[x] = workerRun[x]
  BY <1>0 DEF WorkerStep, WorkerFault, Read, Check, Insert, Notify, Ack,
      ReadReplyLost, ProcessingFails, CommitReplyLost, NotifyFails, WorkerDies, TypeOK
<1>3. CASE request[r] \in {"committed", "inline", "inserting", "failed", "died"} \/ r \in discarded
  BY <1>1, <1>3 DEF InFlight, Lost
<1>4. CASE Stranded(r) \/ Coming(r)
  <2>1. CASE Read(w)
    <3>1. /\ stream # <<>> /\ stream' = Tail(stream)
          /\ workerAt[w] = "idle"
          /\ workerAt' = [workerAt EXCEPT ![w] = "check"]
          /\ workerRun' = [workerRun EXCEPT ![w] = Head(stream)]
          /\ pel \subseteq pel'
      BY <2>1 DEF Read
    <3>2. \A s \in Runs : InStream(s)' <=> InStream(s) /\ s # Head(stream)
      BY <1>0, <3>1, Delivered DEF EntryInv
    <3>3. CASE r = Head(stream)
      BY <1>0, <3>1, <3>3 DEF InFlight, Coming, HeldBy, TypeOK
    <3>4. CASE r # Head(stream)
      BY <1>0, <1>2, <1>4, <3>1, <3>2, <3>4
      DEF InFlight, Lost, Coming, Stranded, Held, HeldBy, TypeOK
    <3> QED BY <3>3, <3>4
  <2>2. CASE ReadReplyLost(w)
    <3>1. /\ stream # <<>> /\ stream' = Tail(stream)
          /\ UNCHANGED <<workerAt, workerRun>>
          /\ pel' = pel \cup {Head(stream)}
      BY <2>2 DEF ReadReplyLost
    <3>2. /\ \A s \in Runs : InStream(s)' <=> InStream(s) /\ s # Head(stream)
          /\ ~Held(Head(stream))
      BY <1>0, <3>1, Delivered DEF EntryInv, EntryUnique
    <3>3. CASE r = Head(stream)
      BY <3>1, <3>2, <3>3, HeldFrame DEF Lost, Stranded
    <3>4. CASE r # Head(stream)
      BY <1>4, <3>1, <3>2, <3>4, HeldFrame DEF InFlight, Lost, Coming, Stranded, HeldBy
    <3> QED BY <3>3, <3>4
  <2>3. CASE ~Read(w) /\ ~ReadReplyLost(w)
    <3>1. UNCHANGED stream
      BY <2>3 DEF WorkerStep, WorkerFault, Check, Insert, Notify, Ack,
        ProcessingFails, CommitReplyLost, NotifyFails, WorkerDies
    <3>2. CASE InStream(r)
      BY <3>1, <3>2, StreamFrame DEF InFlight, Coming
    <3>3. CASE workerRun[w] # r
      <4>1. (r \in pel => r \in pel') /\ workerRun'[w] \in {workerRun[w], NoRun}
        <5>1. CASE Ack(w)
          BY <1>0, <3>3, <5>1 DEF Ack, TypeOK
        <5>2. CASE WorkerDies(w)
          BY <1>0, <5>2 DEF WorkerDies, TypeOK
        <5>3. CASE Check(w) \/ Insert(w) \/ Notify(w) \/ ProcessingFails(w)
                   \/ CommitReplyLost(w) \/ NotifyFails(w)
          BY <5>3 DEF Check, Insert, Notify, ProcessingFails, CommitReplyLost, NotifyFails
        <5> QED BY <2>3, <5>1, <5>2, <5>3 DEF WorkerStep, WorkerFault
      <4>2. Held(r)' => Held(r)
        BY <1>2, <3>3, <4>1, PopulationAssumption DEF Held, HeldBy
      <4>3. Coming(r) => Coming(r)'
        BY <1>2, <3>1, <3>3, StreamFrame DEF Coming, HeldBy
      <4> QED BY <1>4, <4>1, <4>2, <4>3 DEF InFlight, Lost, Stranded
    <3>4. CASE workerRun[w] = r /\ ~InStream(r)
      <4>1. \A x \in Workers : workerRun[x] = r => x = w
        BY <3>4, PopulationAssumption DEF EntryInv, EntryUnique
      <4>2. workerAt[w] \in {"check", "insert"}
        BY <1>4, <3>4, <4>1 DEF Stranded, Coming, Held, HeldBy
      <4>3. CASE Check(w)
        <5>1. ~AlreadyPopulated(r)
          BY <1>0, CheckDecides
        <5>2. workerAt'[w] = "insert" /\ workerRun'[w] = r
          BY <1>0, <3>4, <4>3, <5>1 DEF Check, TypeOK
        <5> QED BY <5>2 DEF InFlight, Coming, HeldBy
      <4>4. CASE Insert(w) \/ CommitReplyLost(w)
        BY <1>0, <3>4, <4>4 DEF Insert, CommitReplyLost, InsertPending, Populated, TypeOK
      <4>5. CASE ProcessingFails(w)
        BY <3>4, <4>5 DEF ProcessingFails, Lost
      <4>6. CASE WorkerDies(w)
        <5>1. ~Held(r)'
          BY <1>0, <1>2, <4>1, <4>6, PopulationAssumption
          DEF WorkerDies, Held, HeldBy, TypeOK
        <5> QED BY <3>4, <4>2, <4>6, <5>1 DEF WorkerDies, Lost, Stranded
      <4> QED BY <2>3, <4>2, <4>3, <4>4, <4>5, <4>6
          DEF WorkerStep, WorkerFault, Notify, Ack, NotifyFails
    <3> QED BY <3>2, <3>3, <3>4
  <2> QED BY <2>1, <2>2, <2>3
<1> QED BY <1>3, <1>4 DEF InFlight, Lost

LEMMA AccountedStep ==
  ASSUME EntryInv, TypeOK', AllOrNothing, WorkerKnows, NoSilentLoss,
         \A r \in Runs : Grows(r), [Next]_vars
  PROVE  NoSilentLoss'
<1> SUFFICES ASSUME NEW r \in Runs, Created(r)'
             PROVE  Populated(r)' \/ InFlight(r)' \/ Lost(r)'
  BY DEF NoSilentLoss
<1>1. CASE Created(r) /\ Populated(r)
  BY <1>1, PopulatedStays DEF Created
<1>2. CASE ~Created(r) \/ ~Populated(r)
  <2>1. InFlight(r) \/ Lost(r) \/ ~Created(r)
    BY <1>2 DEF NoSilentLoss
  <2>2. CASE \E q \in Runs : RequestStep(q) \/ RequestFault(q)
    BY <2>1, <2>2, AccountedRequest
  <2>3. CASE \E w \in Workers : WorkerStep(w) \/ WorkerFault(w)
    <3>1. UNCHANGED request
      BY <2>3 DEF WorkerStep, WorkerFault, Read, Check, Insert, Notify, Ack,
        ReadReplyLost, ProcessingFails, CommitReplyLost, NotifyFails, WorkerDies, requestVars
    <3>2. Created(r)
      BY <3>1 DEF Created
    <3> QED BY <1>2, <2>1, <2>3, <3>2, AccountedWorker
  <2>4. CASE RedisRestarts
    <3>1. /\ UNCHANGED <<request, workerAt, workerRun>>
          /\ discarded' = discarded \cup pel \cup {s \in Runs : InStream(s)}
      BY <2>4 DEF RedisRestarts, requestVars, workerVars
    <3>2. Created(r)
      BY <3>1 DEF Created
    <3> QED BY <2>1, <3>1, <3>2 DEF InFlight, Coming, Lost, Stranded, HeldBy
  <2>5. CASE UNCHANGED vars
    <3>1. /\ UNCHANGED <<request, pel, discarded>>
          /\ Coming(r)' <=> Coming(r)
          /\ Held(r)' <=> Held(r)
      BY <2>5, ComingFrame, HeldFrame DEF vars
    <3> QED BY <2>1, <3>1 DEF InFlight, Lost, Stranded, Created
  <2> QED BY <2>2, <2>3, <2>4, <2>5 DEF Next
<1> QED BY <1>1, <1>2

----------------------------------------------------------------------------

IInv ==
  /\ EntryInv
  /\ AllOrNothing
  /\ InsertBudget
  /\ WorkerKnows
  /\ AnnouncedArePopulated
  /\ NoSilentLoss

LEMMA IInvInit == Init => IInv
<1> SUFFICES ASSUME Init PROVE IInv
  OBVIOUS
<1>1. EntryInv
  BY EntryInit
<1>2. \A r \in Runs : /\ ~Coming(r)
                      /\ ~Created(r)
                      /\ request[r] = "idle"
                      /\ \A c \in Cases : rows[r][c] = 0
  BY <1>1 DEF Init, EntryInv, NothingBeforePost, BeforePost, Coming, Held, Created
<1>3. AllOrNothing
  BY <1>2 DEF AllOrNothing
<1>4. InsertBudget
  BY <1>2 DEF InsertBudget, FromEntry, FromRequest
<1>5. WorkerKnows /\ AnnouncedArePopulated
  BY DEF Init, WorkerKnows, AnnouncedArePopulated
<1>6. NoSilentLoss
  BY <1>2 DEF NoSilentLoss
<1> QED BY <1>1, <1>3, <1>4, <1>5, <1>6 DEF IInv

LEMMA IInvStep == IInv /\ [Next]_vars => IInv'
<1> SUFFICES ASSUME IInv, [Next]_vars PROVE IInv'
  OBVIOUS
<1>1. EntryInv /\ EntryInv' /\ TypeOK'
  BY EntryStep DEF IInv, EntryInv
<1>2. \A r \in Runs : Grows(r)
  BY <1>1, GrowsStep
<1>3. AllOrNothing /\ AllOrNothing'
  BY <1>1, AllOrNothingStep DEF IInv
<1>4. InsertBudget'
  BY <1>1, BudgetStep DEF IInv
<1>5. WorkerKnows'
  BY <1>1, <1>2, <1>3, KnowsStep DEF IInv
<1>6. AnnouncedArePopulated'
  BY <1>1, <1>2, AnnouncedStep DEF IInv
<1>7. NoSilentLoss'
  BY <1>1, <1>2, <1>3, AccountedStep DEF IInv
<1> QED BY <1>1, <1>3, <1>4, <1>5, <1>6, <1>7 DEF IInv

THEOREM Invariance == Spec => []IInv
BY IInvInit, IInvStep, PTL DEF Spec

LEMMA BudgetBoundsRows == IInv => DuplicatesOnlyAfterLostReply
<1> SUFFICES ASSUME IInv, NEW r \in Runs, NEW c \in Cases
             PROVE  rows[r][c] <= IF r \in ambiguous THEN 2 ELSE 1
  BY DEF DuplicatesOnlyAfterLostReply
<1>1. rows[r][c] \in Nat /\ FromEntry(r) \in {0, 1} /\ FromRequest(r) \in {0, 1}
  BY DEF IInv, EntryInv, TypeOK, FromEntry, FromRequest
<1>2. rows[r][c] + FromEntry(r) + FromRequest(r) <= IF r \in ambiguous THEN 2 ELSE 1
  BY DEF IInv, InsertBudget
<1> QED BY <1>1, <1>2

\* A case has a second row only in a run whose XADD reply was lost, and never a
\* third, however many workers drain the stream.
THEOREM DuplicatesBounded == Spec => []DuplicatesOnlyAfterLostReply
BY Invariance, BudgetBoundsRows, PTL

\* A run's rows are all there or none is.
THEOREM PopulationAtomic == Spec => []AllOrNothing
<1>1. IInv => AllOrNothing
  BY DEF IInv
<1> QED BY <1>1, Invariance, PTL

\* "results_populated" is published only of runs whose rows are committed.
THEOREM AnnouncementsTrue == Spec => []AnnouncedArePopulated
<1>1. IInv => AnnouncedArePopulated
  BY DEF IInv
<1> QED BY <1>1, Invariance, PTL

\* A created run without rows is on its way or lost in one of the named ways.
THEOREM RunsAccountedFor == Spec => []NoSilentLoss
<1>1. IInv => NoSilentLoss
  BY DEF IInv
<1> QED BY <1>1, Invariance, PTL

----------------------------------------------------------------------------
(* The ledger. *)

LEMMA LedgerInit == Init => Ledger!Init
<1> SUFFICES ASSUME Init PROVE Ledger!Init
  OBVIOUS
<1>1. Wanted = [r \in Runs |-> {}]
  BY DEF Init, Wanted, Created
<1>2. Shown = [r \in Runs |-> {}]
  BY DEF Init, Shown
<1> QED BY <1>1, <1>2 DEF Init, Ledger!Init

\* A step that creates no run and changes no created run's cases leaves the
\* ledger's runs open as they are.
LEMMA WantedFrame ==
  ASSUME \A r \in Runs : /\ Created(r)' <=> Created(r)
                         /\ Created(r) => snapshot'[r] = snapshot[r]
  PROVE  Wanted' = Wanted
BY DEF Wanted

\* The first insert of a run's pending rows fills the run; a second insert, of
\* the inline fallback or of the worker it lost to, shows nothing new.
LEMMA InsertFills ==
  ASSUME IInv, NEW r \in Runs, Created(r), InsertPending(r),
         UNCHANGED <<snapshot, announced>>, Wanted' = Wanted
  PROVE  Ledger!Fill(r) \/ UNCHANGED Ledger!ledger
<1>0. TypeOK /\ AllOrNothing
  BY DEF IInv, EntryInv
<1>1. \A s \in Runs : \A c \in Cases :
        rows'[s][c] = IF s = r /\ c \in snapshot[s] THEN rows[s][c] + 1 ELSE rows[s][c]
  BY <1>0 DEF TypeOK, InsertPending
<1>2. \A s \in Runs : s # r => Shown'[s] = Shown[s]
  BY <1>1 DEF Shown
<1>3. Shown'[r] = snapshot[r]
  <2>1. \A c \in Cases : rows'[r][c] > 0 <=> c \in snapshot[r]
    BY <1>0, <1>1 DEF TypeOK, AllOrNothing
  <2> QED BY <1>0, <2>1 DEF Shown, TypeOK
<1>4. UNION Wanted[r] = snapshot[r] /\ Wanted[r] # {}
  BY DEF Wanted
<1>5. CASE Shown[r] = {}
  <2>1. Shown' = [Shown EXCEPT ![r] = UNION Wanted[r]]
    BY <1>2, <1>3, <1>4 DEF Shown
  <2> QED BY <1>4, <1>5, <2>1 DEF Ledger!Fill
<1>6. CASE Shown[r] # {}
  <2>1. Populated(r)
    BY <1>0, <1>6, CheckDecides DEF Shown, AlreadyPopulated
  <2>2. \A c \in Cases : rows[r][c] > 0 <=> c \in snapshot[r]
    BY <1>0, <2>1 DEF AllOrNothing, Populated, TypeOK
  <2>3. Shown[r] = snapshot[r]
    BY <1>0, <2>2 DEF Shown, TypeOK
  <2>4. Shown' = Shown
    BY <1>2, <1>3, <2>3 DEF Shown
  <2> QED BY <2>4 DEF Ledger!ledger
<1> QED BY <1>5, <1>6

LEMMA LedgerRequest ==
  ASSUME IInv, NEW r \in Runs, RequestStep(r) \/ RequestFault(r)
  PROVE  Ledger!Next \/ UNCHANGED Ledger!ledger
<1> USE DEF Fault, workerVars, history
<1>0. TypeOK
  BY DEF IInv, EntryInv
<1>1. CASE CommitRun(r)
  <2>1. Wanted[r] = {} /\ snapshot[r] \in SUBSET Cases
    BY <1>0, <1>1 DEF CommitRun, Wanted, Created, TypeOK
  <2>2. \A s \in Runs : Created(s)' <=> Created(s) \/ s = r
    BY <1>0, <1>1 DEF CommitRun, Created, TypeOK
  <2>3. UNCHANGED <<snapshot, rows, announced>>
    BY <1>1 DEF CommitRun
  <2>4. Wanted' = [Wanted EXCEPT ![r] = {snapshot[r]}] /\ Shown' = Shown
    BY <2>2, <2>3 DEF Wanted, Shown
  <2> QED BY <2>1, <2>3, <2>4 DEF Ledger!Next, Ledger!Open
<1>2. CASE InlineInsert(r)
  <2>1. /\ Created(r) /\ InsertPending(r)
        /\ UNCHANGED <<snapshot, announced>>
    BY <1>2 DEF InlineInsert, Created
  <2>2. \A s \in Runs : Created(s)' <=> Created(s)
    BY <1>0, <1>2 DEF InlineInsert, Created, TypeOK
  <2>3. Wanted' = Wanted
    BY <2>1, <2>2, WantedFrame
  <2> QED BY <2>1, <2>3, InsertFills DEF Ledger!Next
<1>3. CASE FetchCases(r)
  <2>1. /\ \A s \in Runs : Created(s)' <=> Created(s)
        /\ \A s \in Runs : Created(s) => snapshot'[s] = snapshot[s]
        /\ UNCHANGED <<rows, announced>>
    BY <1>0, <1>3 DEF FetchCases, Created, TypeOK
  <2> QED BY <2>1, WantedFrame DEF Ledger!ledger, Shown
<1>4. CASE ~CommitRun(r) /\ ~InlineInsert(r) /\ ~FetchCases(r)
  <2>1. /\ \A s \in Runs : Created(s)' <=> Created(s)
        /\ UNCHANGED <<snapshot, rows, announced>>
    BY <1>0, <1>4 DEF RequestStep, RequestFault, RefuseRun, Enqueue, InlineCheck,
      EnqueueFails, EnqueueReplyLost, InlineFails, RequestDies, Created, TypeOK
  <2> QED BY <2>1, WantedFrame DEF Ledger!ledger, Shown
<1> QED BY <1>1, <1>2, <1>3, <1>4

LEMMA LedgerWorker ==
  ASSUME IInv, NEW w \in Workers, WorkerStep(w) \/ WorkerFault(w)
  PROVE  Ledger!Next \/ UNCHANGED Ledger!ledger
<1> USE DEF Fault, requestVars, history
<1>0. TypeOK /\ EntryInv /\ AllOrNothing
  BY DEF IInv, EntryInv
<1>1. UNCHANGED <<request, snapshot>>
  BY DEF WorkerStep, WorkerFault, Read, Check, Insert, Notify, Ack,
      ReadReplyLost, ProcessingFails, CommitReplyLost, NotifyFails, WorkerDies
<1>2. Wanted' = Wanted
  BY <1>1 DEF Wanted, Created
<1>3. workerAt[w] # "idle" => workerRun[w] \in Runs /\ Created(workerRun[w])
  BY <1>0, HeldIsPosted DEF Created, BeforePost, TypeOK, RequestStates
<1>4. CASE Insert(w) \/ CommitReplyLost(w)
  <2>1. /\ workerRun[w] \in Runs /\ Created(workerRun[w])
        /\ InsertPending(workerRun[w])
        /\ UNCHANGED <<snapshot, announced>>
    BY <1>1, <1>3, <1>4 DEF Insert, CommitReplyLost
  <2> QED BY <1>2, <2>1, InsertFills DEF Ledger!Next
<1>5. CASE Notify(w)
  <2> DEFINE r == workerRun[w]
  <2>1. r \in Runs /\ Created(r) /\ Populated(r)
    BY <1>3, <1>5 DEF Notify, IInv, WorkerKnows
  <2>2. \A c \in Cases : rows[r][c] > 0 <=> c \in snapshot[r]
    BY <1>0, <2>1 DEF AllOrNothing, Populated, TypeOK
  <2>3. Shown[r] = snapshot[r]
    BY <1>0, <2>1, <2>2 DEF Shown, TypeOK
  <2>4. Wanted[r] = {Shown[r]}
    BY <2>1, <2>3 DEF Wanted
  <2>5. announced' = announced \cup {r} /\ Shown' = Shown
    BY <1>5 DEF Notify, Shown
  <2> QED BY <1>2, <2>1, <2>4, <2>5 DEF Ledger!Next, Ledger!Tell
<1>6. CASE ~Insert(w) /\ ~CommitReplyLost(w) /\ ~Notify(w)
  <2>1. UNCHANGED <<rows, announced>>
    BY <1>6 DEF WorkerStep, WorkerFault, Read, Check, Ack,
      ReadReplyLost, ProcessingFails, NotifyFails, WorkerDies
  <2> QED BY <1>2, <2>1 DEF Ledger!ledger, Shown
<1> QED BY <1>4, <1>5, <1>6

LEMMA LedgerStep == IInv /\ [Next]_vars => [Ledger!Next]_Ledger!ledger
<1> SUFFICES ASSUME IInv, [Next]_vars
             PROVE  Ledger!Next \/ UNCHANGED Ledger!ledger
  OBVIOUS
<1>1. CASE \E r \in Runs : RequestStep(r) \/ RequestFault(r)
  BY <1>1, LedgerRequest
<1>2. CASE \E w \in Workers : WorkerStep(w) \/ WorkerFault(w)
  BY <1>2, LedgerWorker
<1>3. CASE RedisRestarts \/ UNCHANGED vars
  BY <1>3 DEF RedisRestarts, requestVars, vars, Ledger!ledger, Wanted, Shown, Created
<1> QED BY <1>1, <1>2, <1>3 DEF Next

\* Whatever the inline fallback, the workers, the retries and the faults do to
\* each other, a reader of the database and a listener of the run's WebSocket
\* see the ledger: a run opens with the cases create_run fetched and no rows,
\* its rows appear in one step and stay, and only then is it announced.
THEOREM LedgerImplemented == Spec => ImplementsLedger
BY Invariance, LedgerInit, LedgerStep, PTL DEF Spec, ImplementsLedger, Ledger!Spec

============================================================================
