---------------------------- MODULE MonolithProofs ----------------------------
(***************************************************************************)
(* Proofs about two parts of the monolith: its server process, for any     *)
(* number of requests, threads, connections, log rows, statistics readers, *)
(* sockets, subscriptions and updates, and the triage of a test run, for   *)
(* any set of cases, any number of iterations and any calls of the model.  *)
(***************************************************************************)
EXTENDS ServerProcess, Triage, HistoriesProofs, SequenceTheorems

(* The CI statistics *)

\* A request is not older than its patience, and what it fetched is younger than it.
InTime(R) ==
  /\ R.at \notin {"off", "rest"} => R.now <= clock /\ clock <= R.now + Patience
  /\ R.at \in {"fetched", "stored"} => R.data.from >= R.now /\ R.data.from <= clock

\* What a request has read is about as young as the time beside it, unless that
\* was written in between; what it answers is about as young as the cache allows.
ReadsMatch(R) ==
  ~R.torn =>
    /\ (R.at = "read" /\ R.data # NoData /\ fetchedAt # Unset)
         => R.data.from >= fetchedAt - Patience
    /\ R.at = "served" => R.data.from > R.now - Lifetime - Patience

\* The data is about as young as the time beside it says, or as a request that has
\* stored its own data is going to say.
EntriesMatch ==
  /\ fetchedAt <= clock
  /\ fetchedAt # Unset => data.from >= fetchedAt - Patience
  /\ \A r \in Readers : reader[r].at = "stored" => data.from >= reader[r].now - Patience

StatsInv ==
  StatsTypeOK /\ EntriesMatch /\ \A r \in Readers : InTime(reader[r]) /\ ReadsMatch(reader[r])

LEMMA Ticks == Lifetime \in Nat \ {0} /\ Patience \in Nat /\ MaxTime \in Nat
BY PipelineStatsAssumption

LEMMA NothingMeasured == NoData \in Answers /\ Resting \in Readings
BY DEF NoData, Answers, Resting, Readings, ReaderSteps

LEMMA StatsBegin == StatsInit \/ StatsNone => StatsInv
<1> SUFFICES ASSUME StatsInit \/ StatsNone PROVE StatsInv
  OBVIOUS
<1> DEFINE Off == [Resting EXCEPT !.at = "off"]
<1>1. Off \in Readings /\ Off.at = "off"
  BY NothingMeasured DEF Readings, ReaderSteps
<1>2. Resting \in Readings /\ Resting.at = "rest"
  BY NothingMeasured DEF Resting
<1>3. reader \in [Readers -> Readings] /\ \A r \in Readers : reader[r].at \in {"off", "rest"}
  BY <1>1, <1>2 DEF StatsInit, StatsNone
<1>4. clock \in Nat /\ data = NoData /\ fetchedAt = Unset
  BY Ticks DEF StatsInit, StatsNone
<1>5. StatsTypeOK
  BY <1>3, <1>4, NothingMeasured DEF StatsTypeOK, Unset
<1>6. EntriesMatch
  BY <1>3, <1>4 DEF EntriesMatch, Unset
<1>7. \A r \in Readers : InTime(reader[r]) /\ ReadsMatch(reader[r])
  BY <1>3 DEF InTime, ReadsMatch
<1> QED BY <1>5, <1>6, <1>7 DEF StatsInv

\* A request that changes neither entry changes nothing for the others.
LEMMA ReaderMoves ==
  ASSUME StatsInv, NEW r \in Readers, NEW R \in Readings,
         reader' = [reader EXCEPT ![r] = R], UNCHANGED <<clock, data, fetchedAt>>,
         R.at # "stored", InTime(R), ReadsMatch(R)
  PROVE  StatsInv'
<1>1. \A q \in Readers : reader'[q] = IF q = r THEN R ELSE reader[q]
  BY DEF StatsInv, StatsTypeOK
<1>2. StatsTypeOK'
  BY DEF StatsInv, StatsTypeOK
<1>3. EntriesMatch'
  BY <1>1 DEF StatsInv, EntriesMatch
<1>4. \A q \in Readers : InTime(reader'[q]) /\ ReadsMatch(reader'[q])
  BY <1>1 DEF StatsInv
<1>5. \A q \in Readers : InTime(reader[q])' /\ ReadsMatch(reader[q])'
  BY <1>4 DEF InTime, ReadsMatch
<1> QED BY <1>2, <1>3, <1>5 DEF StatsInv

LEMMA ReaderFields ==
  ASSUME StatsInv, NEW r \in Readers
  PROVE  /\ reader[r] \in Readings
         /\ reader[r].at \in ReaderSteps /\ reader[r].now \in Int
         /\ reader[r].data \in Answers /\ reader[r].torn \in BOOLEAN
         /\ reader[r].data.from \in Int
         /\ data.from \in Int /\ clock \in Int /\ fetchedAt \in Int
         /\ InTime(reader[r]) /\ ReadsMatch(reader[r])
<1>1. reader[r] \in Readings /\ data \in Answers
  BY DEF StatsInv, StatsTypeOK
<1>2. reader[r].data \in Answers
  BY <1>1 DEF Readings
<1> QED BY <1>1, <1>2 DEF StatsInv, StatsTypeOK, Readings, Answers

LEMMA StatsReads ==
  ASSUME StatsInv, NEW r \in Readers, ReadData(r) \/ ReadTime(r) \/ Fetch(r) \/ Return(r)
  PROVE  StatsInv'
<1> DEFINE was == reader[r]
<1>0. /\ was \in Readings /\ was.now \in Int /\ was.data \in Answers /\ was.torn \in BOOLEAN
      /\ was.data.from \in Int /\ data.from \in Int /\ clock \in Int /\ fetchedAt \in Int
      /\ data \in Answers
      /\ InTime(was) /\ ReadsMatch(was)
  BY ReaderFields DEF StatsInv, StatsTypeOK
<1>1. CASE ReadData(r)
  <2> DEFINE R == [at |-> "read", now |-> clock, data |-> data, torn |-> FALSE]
  <2>1. R \in Readings
    BY <1>0, Zenon DEF Readings, ReaderSteps
  <2>2. R.at = "read" /\ R.now = clock /\ R.data = data
    OBVIOUS
  <2>3. reader' = [reader EXCEPT ![r] = R] /\ UNCHANGED <<clock, data, fetchedAt>>
    BY <1>1 DEF ReadData
  <2> HIDE DEF R
  <2>4. InTime(R)
    BY <1>0, <2>2, Ticks DEF InTime
  <2>5. ReadsMatch(R)
    BY <2>2 DEF ReadsMatch, StatsInv, EntriesMatch
  <2> QED BY <2>1, <2>2, <2>3, <2>4, <2>5, ReaderMoves
<1>2. CASE ReadTime(r)
  <2> DEFINE R == [was EXCEPT !.at = IF Fresh(r) THEN "served" ELSE "fetch"]
  <2>1. R \in Readings
    BY <1>0 DEF Readings, ReaderSteps
  <2>2. /\ R.now = was.now /\ R.data = was.data /\ R.torn = was.torn
        /\ R.at \in {"served", "fetch"} /\ (R.at = "served" => Fresh(r))
    BY <1>0 DEF Readings
  <2>3. /\ reader' = [reader EXCEPT ![r] = R] /\ UNCHANGED <<clock, data, fetchedAt>>
        /\ was.at = "read"
    BY <1>2 DEF ReadTime
  <2> HIDE DEF R
  <2>4. InTime(R)
    BY <1>0, <2>2, <2>3 DEF InTime
  <2>5. ReadsMatch(R)
    <3>1. R.at = "served" /\ ~R.torn => R.data.from > R.now - Lifetime - Patience
      BY <1>0, <2>2, <2>3, Ticks DEF ReadsMatch, Fresh
    <3> QED BY <2>2, <3>1 DEF ReadsMatch
  <2> QED BY <2>1, <2>2, <2>3, <2>4, <2>5, ReaderMoves
<1>3. CASE Fetch(r)
  <2>1. PICK ok \in BOOLEAN :
          reader' = [reader EXCEPT ![r].at = "fetched",
                                   ![r].data = [from |-> clock, measured |-> ok],
                                   ![r].torn = FALSE]
    BY <1>3 DEF Fetch
  <2> DEFINE R == [was EXCEPT !.at = "fetched", !.data = [from |-> clock, measured |-> ok],
                              !.torn = FALSE]
  <2>2. [from |-> clock, measured |-> ok] \in Answers
    BY <1>0, <2>1 DEF Answers
  <2>3. R \in Readings /\ R.at = "fetched" /\ R.now = was.now /\ R.data.from = clock
    BY <1>0, <2>2 DEF Readings, ReaderSteps
  <2>4. reader' = [reader EXCEPT ![r] = R]
    BY <1>0, <2>1 DEF StatsInv, StatsTypeOK, Readings
  <2>5. UNCHANGED <<clock, data, fetchedAt>> /\ was.at = "fetch"
    BY <1>3 DEF Fetch
  <2> HIDE DEF R
  <2>6. InTime(R) /\ ReadsMatch(R)
    BY <1>0, <2>3, <2>5 DEF InTime, ReadsMatch
  <2> QED BY <2>3, <2>4, <2>5, <2>6, ReaderMoves
<1>4. CASE Return(r)
  <2>1. /\ reader' = [reader EXCEPT ![r] = Resting] /\ UNCHANGED <<clock, data, fetchedAt>>
        /\ Resting.at = "rest"
    BY <1>4 DEF Return, Resting
  <2>2. InTime(Resting) /\ ReadsMatch(Resting)
    BY <2>1 DEF InTime, ReadsMatch
  <2> QED BY <2>1, <2>2, NothingMeasured, ReaderMoves
<1> QED BY <1>1, <1>2, <1>3, <1>4

LEMMA StatsStores ==
  ASSUME StatsInv, NEW r \in Readers, StoreData(r)
  PROVE  StatsInv'
<1> DEFINE was == reader[r]
           R == [was EXCEPT !.at = "stored"]
<1>0. /\ was \in Readings /\ was.now \in Int /\ was.data \in Answers
      /\ was.data.from \in Int /\ clock \in Int /\ fetchedAt \in Int
      /\ InTime(was)
  BY ReaderFields
<1>1. R \in Readings /\ R.at = "stored" /\ R.now = was.now /\ R.data = was.data
  BY <1>0 DEF Readings, ReaderSteps
<1>2. /\ was.at = "fetched" /\ data' = was.data
      /\ reader' = [reader EXCEPT ![r] = R] /\ UNCHANGED <<clock, fetchedAt>>
  BY DEF StoreData
<1> HIDE DEF R
<1>3. \A q \in Readers : reader'[q] = IF q = r THEN R ELSE reader[q]
  BY <1>2 DEF StatsInv, StatsTypeOK
<1>4. StatsTypeOK'
  BY <1>0, <1>1, <1>2 DEF StatsInv, StatsTypeOK
<1>5. was.data.from >= was.now /\ was.data.from <= clock /\ was.now <= clock
      /\ clock <= was.now + Patience
  BY <1>0, <1>2 DEF InTime
<1>6. EntriesMatch'
  <2>1. fetchedAt <= clock
    BY DEF StatsInv, EntriesMatch
  <2>2. fetchedAt # Unset => was.data.from >= fetchedAt - Patience
    BY <1>0, <1>5, <2>1, Ticks
  <2>3. ASSUME NEW q \in Readers, reader'[q].at = "stored"
        PROVE  was.data.from >= reader'[q].now - Patience
    <3>1. CASE q = r
      BY <1>0, <1>1, <1>3, <1>5, <3>1, Ticks
    <3>2. CASE q # r
      <4>1. reader[q].now \in Int /\ reader[q].now <= clock
        BY <1>3, <2>3, <3>2, ReaderFields DEF InTime
      <4> QED BY <1>0, <1>3, <1>5, <3>2, <4>1, Ticks
    <3> QED BY <3>1, <3>2
  <2> QED BY <1>2, <2>1, <2>2, <2>3 DEF EntriesMatch
<1>7. \A q \in Readers : InTime(reader'[q]) /\ ReadsMatch(reader'[q])
  <2>1. InTime(R) /\ ReadsMatch(R)
    BY <1>0, <1>1, <1>2, <1>5 DEF InTime, ReadsMatch
  <2> QED BY <1>3, <2>1 DEF StatsInv
<1>8. \A q \in Readers : InTime(reader[q])' /\ ReadsMatch(reader[q])'
  BY <1>2, <1>7 DEF InTime, ReadsMatch
<1> QED BY <1>4, <1>6, <1>8 DEF StatsInv

LEMMA StatsDates ==
  ASSUME StatsInv, NEW r \in Readers, StoreTime(r)
  PROVE  StatsInv'
<1> DEFINE was == reader[r]
           R == [was EXCEPT !.at = "served"]
           T(q) == [reader[q] EXCEPT !.torn = reader[q].torn \/ reader[q].at = "read"]
<1>0. /\ was \in Readings /\ was.now \in Int /\ was.data \in Answers
      /\ was.data.from \in Int /\ data.from \in Int /\ clock \in Int
      /\ InTime(was)
  BY ReaderFields
<1>1. R \in Readings /\ R.at = "served" /\ R.now = was.now /\ R.data = was.data
  BY <1>0 DEF Readings, ReaderSteps
<1>2. \A q \in Readers :
        /\ T(q) \in Readings
        /\ T(q).at = reader[q].at /\ T(q).now = reader[q].now /\ T(q).data = reader[q].data
        /\ T(q).torn = (reader[q].torn \/ reader[q].at = "read")
  <2>1. ASSUME NEW q \in Readers PROVE reader[q] \in Readings /\ reader[q].torn \in BOOLEAN
    BY ReaderFields
  <2> QED BY <2>1 DEF Readings
<1>3. /\ was.at = "stored" /\ fetchedAt' = was.now
      /\ reader' = [q \in Readers |-> IF q = r THEN R ELSE T(q)]
      /\ UNCHANGED <<clock, data>>
  BY DEF StoreTime
<1> HIDE DEF R, T
<1>4. \A q \in Readers : reader'[q] = IF q = r THEN R ELSE T(q)
  BY <1>3
<1>5. reader' \in [Readers -> Readings]
  BY <1>1, <1>2, <1>3
<1>6. StatsTypeOK'
  BY <1>0, <1>3, <1>5 DEF StatsInv, StatsTypeOK
<1>7. EntriesMatch'
  <2>1. was.now <= clock /\ data.from >= was.now - Patience
    BY <1>0, <1>3 DEF InTime, StatsInv, EntriesMatch
  <2>2. \A q \in Readers : reader'[q].at = "stored" => data.from >= reader'[q].now - Patience
    BY <1>1, <1>2, <1>4 DEF StatsInv, EntriesMatch
  <2> QED BY <1>3, <2>1, <2>2 DEF EntriesMatch
<1>8. \A q \in Readers : InTime(reader'[q])
  <2>1. InTime(R)
    BY <1>0, <1>1, <1>3 DEF InTime
  <2>2. ASSUME NEW q \in Readers PROVE InTime(T(q))
    BY <1>2, ReaderFields DEF InTime
  <2> QED BY <1>4, <2>1, <2>2
<1>9. ASSUME NEW q \in Readers PROVE ReadsMatch(reader[q])'
  <2>1. CASE q = r
    <3>1. was.data.from >= was.now
      BY <1>0, <1>3 DEF InTime
    <3>2. was.data.from > was.now - Lifetime - Patience
      BY <1>0, <3>1, Ticks
    <3> QED BY <1>1, <1>4, <2>1, <3>2 DEF ReadsMatch
  <2>2. CASE q # r
    <3>1. reader'[q].at # "read" \/ reader'[q].torn
      BY <1>2, <1>4, <2>2
    <3>2. ~reader'[q].torn /\ reader'[q].at = "served" =>
            reader'[q].data.from > reader'[q].now - Lifetime - Patience
      BY <1>2, <1>4, <2>2, ReaderFields DEF ReadsMatch
    <3> QED BY <3>1, <3>2 DEF ReadsMatch
  <2> QED BY <2>1, <2>2
<1>10. \A q \in Readers : InTime(reader[q])'
  BY <1>3, <1>8 DEF InTime
<1> QED BY <1>6, <1>7, <1>9, <1>10 DEF StatsInv

LEMMA StatsTick == StatsInv /\ Tick => StatsInv'
<1> SUFFICES ASSUME StatsInv, Tick PROVE StatsInv'
  OBVIOUS
<1>1. /\ clock' = clock + 1 /\ clock \in Nat
      /\ \A r \in Readers : reader[r].at # "rest" => clock - reader[r].now < Patience
      /\ UNCHANGED <<data, fetchedAt, reader>>
  BY DEF Tick, StatsInv, StatsTypeOK
<1>2. StatsTypeOK'
  BY <1>1 DEF StatsInv, StatsTypeOK
<1>3. EntriesMatch'
  <2>1. fetchedAt \in Int /\ fetchedAt <= clock
    BY DEF StatsInv, StatsTypeOK, EntriesMatch
  <2> QED BY <1>1, <2>1 DEF StatsInv, EntriesMatch
<1>4. ASSUME NEW r \in Readers PROVE InTime(reader[r])' /\ ReadsMatch(reader[r])'
  <2>1. /\ reader[r].now \in Int /\ reader[r].data.from \in Int
        /\ InTime(reader[r]) /\ ReadsMatch(reader[r])
    BY <1>4, ReaderFields
  <2>2. InTime(reader[r])'
    BY <1>1, <2>1, Ticks DEF InTime
  <2>3. ReadsMatch(reader[r])'
    BY <1>1, <2>1 DEF ReadsMatch
  <2> QED BY <2>2, <2>3
<1> QED BY <1>2, <1>3, <1>4 DEF StatsInv

LEMMA StatsStep == StatsInv /\ [StatsNext]_statsVars => StatsInv'
<1> SUFFICES ASSUME StatsInv, [StatsNext]_statsVars PROVE StatsInv'
  OBVIOUS
<1>1. CASE UNCHANGED statsVars
  BY <1>1 DEF statsVars, StatsInv, StatsTypeOK, EntriesMatch, InTime, ReadsMatch
<1> QED BY <1>1, StatsReads, StatsStores, StatsDates, StatsTick DEF StatsNext

LEMMA YoungEnough == StatsInv => AnswersAreRecent
<1> SUFFICES ASSUME StatsInv, NEW r \in Readers, reader[r].at = "served", ~reader[r].torn
             PROVE  clock - reader[r].data.from < Lifetime + 2 * Patience
  BY DEF AnswersAreRecent
<1>1. /\ reader[r].now \in Int /\ reader[r].data.from \in Int /\ clock \in Int
      /\ InTime(reader[r]) /\ ReadsMatch(reader[r])
  BY ReaderFields
<1>2. /\ clock <= reader[r].now + Patience
      /\ reader[r].data.from > reader[r].now - Lifetime - Patience
  BY <1>1 DEF InTime, ReadsMatch
<1> QED BY <1>1, <1>2, Ticks


----------------------------------------------------------------------------
(* The rooms *)

\* Only the lost are found dead and only the lost leave a room, so whoever still
\* waits is left to be met by the iterator.
WaitingAreLeft ==
  \A u \in Updates :
    /\ cast[u].dead \subseteq broken
    /\ waiting[u] \cap broken = {}
    /\ cast[u].at = "sending" => waiting[u] \subseteq Left(u)

RoomInv == RoomsTypeOK /\ WaitingAreLeft /\ StayersHear /\ SubscribersHearAll

LEMMA EmptyRooms == {} \in FiniteRooms /\ <<>> \in Seq(FiniteRooms) /\ Len(<<>>) = 0
BY FS_EmptySet DEF FiniteRooms

LEMMA RoomSizes ==
  /\ \A S \in FiniteRooms : Cardinality(S) \in Nat
  /\ \A S \in FiniteRooms : \A x \in Sockets : S \cup {x} \in FiniteRooms /\ {x} \in FiniteRooms
  /\ \A S \in FiniteRooms : \A T : S \ T \in FiniteRooms
<1>1. \A S \in FiniteRooms : Cardinality(S) \in Nat
  BY FS_CardinalityType DEF FiniteRooms
<1>2. \A S \in FiniteRooms : \A x \in Sockets : S \cup {x} \in FiniteRooms /\ {x} \in FiniteRooms
  BY FS_AddElement, FS_Singleton DEF FiniteRooms
<1>3. \A S \in FiniteRooms : \A T : S \ T \in FiniteRooms
  BY FS_Difference DEF FiniteRooms
<1> QED BY <1>1, <1>2, <1>3

LEMMA RoomsBegin ==
  ASSUME NEW here \in SUBSET (Sockets \cup Updates), RoomsStart(here)
  PROVE  RoomInv
<1> DEFINE C(u) == [Quiet EXCEPT !.at = IF u \in here THEN "new" ELSE "none"]
           L == [at |-> IF here # {} THEN "new" ELSE "none", queue |-> <<>>, upTo |-> 0]
<1>1. \A u \in Updates : C(u) \in Casts(0) /\ C(u).dead = {} /\ C(u).at \in {"new", "none"}
  BY DEF Quiet, Casts
<1>2. L \in Listeners(0)
  BY DEF Listeners
<1>3. /\ cast = [u \in Updates |-> C(u)] /\ listener = [q \in Subscribers |-> L]
      /\ broken = {} /\ sets = <<>> /\ current = 0 /\ started = <<>>
      /\ waiting = [u \in Updates |-> {}]
  BY DEF RoomsStart
<1> HIDE DEF C, L
<1>4. RoomsTypeOK
  BY <1>1, <1>2, <1>3, EmptyRooms DEF RoomsTypeOK
<1>5. WaitingAreLeft /\ StayersHear
  BY <1>1, <1>3 DEF WaitingAreLeft, StayersHear
<1>6. SubscribersHearAll
  BY <1>2, <1>3 DEF SubscribersHearAll, L
<1> QED BY <1>4, <1>5, <1>6 DEF RoomInv

\* A sequence of the same length is typed elementwise.
LEMMA SetsOfRooms ==
  ASSUME sets \in Seq(FiniteRooms), NEW n \in Nat, n = Len(sets),
         NEW f, f \in [1..n -> FiniteRooms]
  PROVE  f \in Seq(FiniteRooms) /\ Len(f) = Len(sets)
OBVIOUS

\* Nobody is passed over in a step that starts no broadcast: rooms lose none but
\* the lost, a broadcast tries only whom it sends to, and it ends when nobody is
\* left.
LEMMA NobodyPassedOver ==
  ASSUME RoomInv, RoomsTypeOK', broken \subseteq broken',
         \A i \in 1..Len(sets) : sets[i] \ broken \subseteq sets'[i],
         \A u \in Updates :
           /\ waiting'[u] \subseteq waiting[u] \ broken'
           /\ cast'[u].dead \subseteq broken'
           /\ cast'[u].at = "sending" =>
                /\ cast[u].at = "sending"
                /\ cast'[u].room = cast[u].room /\ cast'[u].members = cast[u].members
                /\ cast'[u].tried \cap waiting'[u] \subseteq cast[u].tried
           /\ cast'[u].at = "answered" =>
                cast[u].at = "answered" \/ (cast[u].at = "sending" /\ Left(u) = {})
  PROVE  WaitingAreLeft' /\ StayersHear'
<1>1. \A u \in Updates : cast[u] \in Casts(Len(sets))
  BY DEF RoomInv, RoomsTypeOK
<1>2. ASSUME NEW u \in Updates, cast'[u].at = "sending", NEW s \in waiting'[u]
      PROVE  s \in Left(u)'
  <2>1. /\ s \in waiting[u] /\ s \notin broken /\ s \in Left(u)
        /\ cast'[u].room = cast[u].room /\ cast'[u].members = cast[u].members
        /\ s \in cast'[u].tried => s \in cast[u].tried
    BY <1>2 DEF RoomInv, WaitingAreLeft
  <2>2. s \in Room(u) /\ s \in cast[u].members /\ s \notin cast[u].tried
    BY <2>1 DEF Left
  <2>3. cast[u].room # 0 /\ cast[u].room \in 1..Len(sets)
    BY <1>1, <2>2 DEF Room, Casts
  <2>4. s \in sets'[cast[u].room]
    BY <2>1, <2>2, <2>3 DEF Room
  <2> QED BY <2>1, <2>2, <2>3, <2>4 DEF Left, Room
<1>3. WaitingAreLeft'
  BY <1>2 DEF WaitingAreLeft
<1>4. StayersHear'
  <2>1. ASSUME NEW u \in Updates, cast'[u].at = "answered" PROVE waiting[u] = {}
    BY <2>1 DEF RoomInv, WaitingAreLeft, StayersHear
  <2> QED BY <2>1 DEF StayersHear
<1> QED BY <1>3, <1>4

LEMMA HeardFrame ==
  SubscribersHearAll /\ UNCHANGED <<listener, started>> => SubscribersHearAll'
BY DEF SubscribersHearAll

LEMMA SocketStep ==
  ASSUME RoomInv, NEW s \in Sockets,
         Join(s) \/ Welcome(s) \/ Break(s) \/ Disconnect(s) \/ EndpointFails(s)
  PROVE  RoomInv'
<1>0. /\ RoomsTypeOK /\ Len(sets) \in Nat
      /\ \A i \in 1..Len(sets) : sets[i] \in FiniteRooms
      /\ \A u \in Updates : cast[u].dead \subseteq broken /\ waiting[u] \cap broken = {}
  BY DEF RoomInv, RoomsTypeOK, WaitingAreLeft
<1>1. UNCHANGED <<cast, listener, started>>
  BY DEF Join, Welcome, Break, Disconnect, EndpointFails
<1>2. CASE Join(s)
  <2>1. CASE current = 0
    <3>1. sets' = Append(sets, {s}) /\ current' = Len(sets) + 1 /\ UNCHANGED <<broken, waiting>>
      BY <1>2, <2>1 DEF Join
    <3>2. {s} \in FiniteRooms
      BY EmptyRooms, RoomSizes
    <3>3. /\ sets' \in Seq(FiniteRooms) /\ Len(sets') = Len(sets) + 1
          /\ \A i \in 1..Len(sets) : sets'[i] = sets[i]
      BY <1>0, <3>1, <3>2 DEF RoomsTypeOK
    <3>4. \A u \in Updates : cast[u] \in Casts(Len(sets'))
      BY <1>0, <3>3 DEF RoomsTypeOK, Casts
    <3>5. RoomsTypeOK'
      BY <1>0, <1>1, <3>1, <3>3, <3>4 DEF RoomsTypeOK
    <3> QED BY <1>0, <1>1, <3>1, <3>3, <3>5, NobodyPassedOver, HeardFrame DEF RoomInv
  <2>2. CASE current # 0
    <3>1. /\ sets' = [sets EXCEPT ![current] = sets[current] \cup {s}]
          /\ UNCHANGED <<current, broken, waiting>> /\ current \in 1..Len(sets)
      BY <1>0, <1>2, <2>2 DEF Join, RoomsTypeOK
    <3>2. sets[current] \cup {s} \in FiniteRooms
      BY <1>0, <3>1, RoomSizes
    <3>3. /\ sets' \in Seq(FiniteRooms) /\ Len(sets') = Len(sets)
          /\ \A i \in 1..Len(sets) : sets[i] \subseteq sets'[i]
      BY <1>0, <3>1, <3>2 DEF RoomsTypeOK
    <3>4. RoomsTypeOK'
      BY <1>0, <1>1, <3>1, <3>3 DEF RoomsTypeOK
    <3> QED BY <1>0, <1>1, <3>1, <3>3, <3>4, NobodyPassedOver, HeardFrame DEF RoomInv
  <2> QED BY <2>1, <2>2
<1>3. CASE Welcome(s)
  <2>1. UNCHANGED <<sets, current, broken, waiting>>
    BY <1>3 DEF Welcome
  <2>2. RoomsTypeOK'
    BY <1>0, <1>1, <2>1 DEF RoomsTypeOK
  <2> QED BY <1>0, <1>1, <2>1, <2>2, NobodyPassedOver, HeardFrame DEF RoomInv
<1>4. CASE Break(s) \/ EndpointFails(s)
  <2>1. /\ broken' = broken \cup {s} /\ waiting' = [u \in Updates |-> waiting[u] \ {s}]
        /\ UNCHANGED <<sets, current>>
    BY <1>4 DEF Break, EndpointFails
  <2>2. RoomsTypeOK'
    BY <1>0, <1>1, <2>1 DEF RoomsTypeOK
  <2> QED BY <1>0, <1>1, <2>1, <2>2, NobodyPassedOver, HeardFrame DEF RoomInv
<1>5. CASE Disconnect(s)
  <2>1. /\ s \in broken /\ UNCHANGED <<broken, waiting>>
        /\ sets' = [i \in DOMAIN sets |-> IF i = current THEN sets[i] \ {s} ELSE sets[i]]
        /\ current' \in {current, 0}
    BY <1>5 DEF Disconnect
  <2>2. sets' \in [1..Len(sets) -> FiniteRooms]
    <3>1. DOMAIN sets = 1..Len(sets)
      BY <1>0 DEF RoomsTypeOK
    <3>2. \A i \in 1..Len(sets) : sets[i] \ {s} \in FiniteRooms
      BY <1>0, RoomSizes
    <3> QED BY <1>0, <2>1, <3>1, <3>2
  <2>3. sets' \in Seq(FiniteRooms) /\ Len(sets') = Len(sets)
    BY <1>0, <2>2, SetsOfRooms DEF RoomsTypeOK
  <2>4. \A i \in 1..Len(sets) : sets[i] \ broken \subseteq sets'[i]
    BY <1>0, <2>1 DEF RoomsTypeOK
  <2>5. RoomsTypeOK'
    BY <1>0, <1>1, <2>1, <2>3 DEF RoomsTypeOK
  <2> QED BY <1>0, <1>1, <2>1, <2>4, <2>5, NobodyPassedOver, HeardFrame DEF RoomInv
<1> QED BY <1>2, <1>3, <1>4, <1>5


\* The rest of a sequence from a position on, by elements.
LEMMA RestOf ==
  ASSUME NEW S, NEW s \in Seq(S), NEW n \in 0..Len(s)
  PROVE  /\ SubSeq(s, n + 1, Len(s)) \in Seq(S)
         /\ Len(SubSeq(s, n + 1, Len(s))) = Len(s) - n
         /\ \A i \in 1..Len(s) - n : SubSeq(s, n + 1, Len(s))[i] = s[n + i]
<1>1. Len(s) \in Nat /\ n \in Nat /\ n <= Len(s) /\ n + 1 \in Int /\ Len(s) \in Int
  BY LenProperties
<1>2. \A i \in n + 1..Len(s) : s[i] \in S
  <2>1. \A i \in n + 1..Len(s) : i \in 1..Len(s)
    BY <1>1
  <2> QED BY <2>1, ElementOfSeq
<1>3. /\ SubSeq(s, n + 1, Len(s)) \in Seq(S)
      /\ Len(SubSeq(s, n + 1, Len(s))) = IF n + 1 <= Len(s) THEN Len(s) - (n + 1) + 1 ELSE 0
      /\ \A i \in 1..Len(s) - (n + 1) + 1 : SubSeq(s, n + 1, Len(s))[i] = s[n + 1 + i - 1]
  BY <1>1, <1>2, SubSeqProperties
<1>4. Len(s) - (n + 1) + 1 = Len(s) - n /\ (~(n + 1 <= Len(s)) => Len(s) - n = 0)
  BY <1>1
<1>5. \A i \in 1..Len(s) - n : n + 1 + i - 1 = n + i
  BY <1>1
<1> QED BY <1>3, <1>4, <1>5

\* The head of the rest is the next element, and a new element ends the rest too.
LEMMA RestMoves ==
  ASSUME NEW S, NEW s \in Seq(S), NEW n \in 0..Len(s)
  PROVE  /\ SubSeq(s, n + 1, Len(s)) # <<>> =>
              /\ n + 1 \in 1..Len(s)
              /\ Head(SubSeq(s, n + 1, Len(s))) = s[n + 1]
              /\ Tail(SubSeq(s, n + 1, Len(s))) = SubSeq(s, n + 2, Len(s))
         /\ \A e \in S : Append(SubSeq(s, n + 1, Len(s)), e)
                           = SubSeq(Append(s, e), n + 1, Len(s) + 1)
<1> DEFINE rest == SubSeq(s, n + 1, Len(s))
<1>0. Len(s) \in Nat /\ n \in Nat /\ n <= Len(s)
  BY LenProperties
<1>1. /\ rest \in Seq(S) /\ Len(rest) = Len(s) - n
      /\ \A i \in 1..Len(s) - n : rest[i] = s[n + i]
  BY RestOf
<1>2. ASSUME rest # <<>>
      PROVE  /\ n + 1 \in 1..Len(s)
             /\ Head(rest) = s[n + 1]
             /\ Tail(rest) = SubSeq(s, n + 2, Len(s))
  <2>1. n + 1 \in 1..Len(s) /\ Len(s) \in n + 1..Len(s)
    <3>1. Len(rest) \in Nat \ {0}
      BY <1>1, <1>2, EmptySeq
    <3> QED BY <1>0, <1>1, <3>1
  <2>2. Head(rest) = s[n + 1] /\ Tail(rest) = SubSeq(s, n + 1 + 1, Len(s))
    BY <2>1, HeadTailOfSubSeq
  <2>3. n + 1 + 1 = n + 2
    BY <1>0
  <2> QED BY <2>1, <2>2, <2>3
<1>3. ASSUME NEW e \in S
      PROVE  Append(rest, e) = SubSeq(Append(s, e), n + 1, Len(s) + 1)
  <2> DEFINE more == Append(s, e)
             cut == SubSeq(more, n + 1, Len(more))
             longer == Append(rest, e)
  <2>1. /\ more \in Seq(S) /\ Len(more) = Len(s) + 1
        /\ \A i \in 1..Len(s) : more[i] = s[i]
        /\ more[Len(s) + 1] = e
    BY AppendProperties
  <2>2. n \in 0..Len(more)
    BY <1>0, <2>1
  <2>3. /\ cut \in Seq(S) /\ Len(cut) = Len(more) - n
        /\ \A i \in 1..Len(more) - n : cut[i] = more[n + i]
    BY <2>1, <2>2, RestOf
  <2> HIDE DEF rest
  <2>4. /\ longer \in Seq(S) /\ Len(longer) = Len(rest) + 1
        /\ \A i \in 1..Len(rest) : longer[i] = rest[i]
        /\ longer[Len(rest) + 1] = e
    BY <1>1, AppendProperties
  <2> HIDE DEF more, cut, longer
  <2>5. Len(longer) = Len(cut) /\ Len(longer) = Len(s) - n + 1
    BY <1>0, <1>1, <2>1, <2>3, <2>4
  <2>6. ASSUME NEW i \in 1..Len(longer) PROVE longer[i] = cut[i]
    <3>1. CASE i = Len(s) - n + 1
      <4>1. n + i = Len(s) + 1 /\ i \in 1..Len(more) - n /\ i = Len(rest) + 1
        BY <1>0, <1>1, <2>1, <3>1
      <4> QED BY <2>1, <2>3, <2>4, <4>1
    <3>2. CASE i # Len(s) - n + 1
      <4>1. i \in 1..Len(s) - n /\ i \in 1..Len(more) - n /\ n + i \in 1..Len(s)
        BY <1>0, <2>1, <2>5, <3>2
      <4> QED BY <1>1, <2>1, <2>3, <2>4, <4>1
    <3> QED BY <3>1, <3>2
  <2>7. longer = cut
    BY <2>3, <2>4, <2>5, <2>6, SeqEqual
  <2> QED BY <2>1, <2>7 DEF cut, longer, more
<1> QED BY <1>2, <1>3

LEMMA ListenerStep ==
  ASSUME RoomInv, NEW q \in Subscribers, Listen(q) \/ Yield(q) \/ Unlisten(q)
  PROVE  RoomInv'
<1>0. /\ RoomsTypeOK /\ listener[q] \in Listeners(Len(started)) /\ Len(started) \in Nat
      /\ \A u \in Updates : cast[u].dead \subseteq broken /\ waiting[u] \cap broken = {}
  BY DEF RoomInv, RoomsTypeOK, WaitingAreLeft
<1>1. UNCHANGED <<sets, current, broken, cast, started, waiting>>
  BY DEF Listen, Yield, Unlisten
<1>2. \E R \in Listeners(Len(started)) :
        /\ listener' = [listener EXCEPT ![q] = R]
        /\ R.at = "on" => R.queue = SubSeq(started, R.upTo + 1, Len(started))
  <2>1. CASE Listen(q)
    <3>1. [at |-> "on", queue |-> <<>>, upTo |-> Len(started)] \in Listeners(Len(started))
      BY <1>0 DEF Listeners
    <3>2. SubSeq(started, Len(started) + 1, Len(started)) = <<>>
      BY <1>0, SubSeqEmpty
    <3> QED BY <2>1, <3>1, <3>2 DEF Listen
  <2>2. CASE Yield(q)
    <3> DEFINE was == listener[q]
               R == [was EXCEPT !.queue = Tail(was.queue), !.upTo = was.upTo + 1]
    <3>1. /\ was \in Listeners(Len(started)) /\ was.at = "on" /\ was.queue # <<>>
          /\ was.upTo \in 0..Len(started) /\ started \in Seq(Updates)
      BY <1>0, <2>2 DEF Listeners, Yield, RoomsTypeOK
    <3>2. was.queue = SubSeq(started, was.upTo + 1, Len(started))
      BY <3>1 DEF RoomInv, SubscribersHearAll
    <3>3. /\ was.upTo + 1 \in 1..Len(started)
          /\ Head(was.queue) = started[was.upTo + 1]
          /\ Tail(was.queue) = SubSeq(started, was.upTo + 2, Len(started))
          /\ Tail(was.queue) \in Seq(Updates)
      <4>1. was.queue \in Seq(Updates) /\ Tail(was.queue) \in Seq(Updates)
        BY <3>1, HeadTailProperties DEF Listeners
      <4> QED BY <3>1, <3>2, <4>1, RestMoves
    <3>4. /\ R \in Listeners(Len(started)) /\ R.at = "on" /\ R.upTo = was.upTo + 1
          /\ R.queue = SubSeq(started, R.upTo + 1, Len(started))
      <4>1. was.upTo + 1 \in 0..Len(started) /\ was.upTo + 1 + 1 = was.upTo + 2
        BY <1>0, <3>1, <3>3
      <4> HIDE DEF was
      <4>2. /\ R \in Listeners(Len(started)) /\ R.at = "on" /\ R.upTo = was.upTo + 1
            /\ R.queue = Tail(was.queue)
        BY <3>1, <3>3, <4>1 DEF Listeners
      <4> QED BY <3>3, <4>1, <4>2
    <3>5. listener' = [listener EXCEPT ![q] = R]
      BY <1>0, <2>2, <3>3 DEF Yield
    <3> HIDE DEF R
    <3> QED BY <3>4, <3>5
  <2>3. CASE Unlisten(q)
    <3>1. [at |-> "off", queue |-> <<>>, upTo |-> 0] \in Listeners(Len(started))
      BY <1>0 DEF Listeners
    <3> QED BY <2>3, <3>1 DEF Unlisten
  <2> QED BY <2>1, <2>2, <2>3
<1>3. RoomsTypeOK'
  BY <1>0, <1>1, <1>2 DEF RoomsTypeOK
<1>4. SubscribersHearAll'
  BY <1>0, <1>1, <1>2 DEF RoomInv, RoomsTypeOK, SubscribersHearAll
<1> QED BY <1>0, <1>1, <1>3, <1>4, NobodyPassedOver DEF RoomInv


LEMMA CastFields ==
  ASSUME RoomInv, NEW u \in Updates
  PROVE  /\ RoomsTypeOK /\ Len(sets) \in Nat /\ Len(started) \in Nat
         /\ cast[u] \in Casts(Len(sets))
         /\ cast[u].dead \subseteq broken /\ waiting[u] \cap broken = {}
         /\ Quiet \in [at : {"new"}, room : 0..Len(sets), size : Nat, members : SUBSET Sockets,
                       tried : SUBSET Sockets, dead : {{}}]
BY DEF RoomInv, RoomsTypeOK, WaitingAreLeft, Quiet

LEMMA SendStep ==
  ASSUME RoomInv, NEW u \in Updates, NEW s \in Sockets, Send(u, s)
  PROVE  RoomInv'
<1> DEFINE was == cast[u]
<1>0. /\ RoomsTypeOK /\ Len(sets) \in Nat /\ was \in Casts(Len(sets))
      /\ \A v \in Updates : cast[v].dead \subseteq broken /\ waiting[v] \cap broken = {}
  BY CastFields
<1>1. PICK noticed \in {{}, {s}} :
        /\ noticed \subseteq broken
        /\ cast' = [cast EXCEPT ![u].tried = was.tried \cup {s}, ![u].dead = was.dead \cup noticed]
  BY DEF Send
<1>2. /\ was.at = "sending" /\ waiting' = [waiting EXCEPT ![u] = waiting[u] \ {s}]
      /\ UNCHANGED <<broken, sets, current, listener, started>>
  BY DEF Send, Iterating
<1> DEFINE R == [was EXCEPT !.tried = was.tried \cup {s}, !.dead = was.dead \cup noticed]
<1>3. /\ R \in Casts(Len(sets)) /\ R.at = was.at /\ R.room = was.room
      /\ R.members = was.members /\ R.tried = was.tried \cup {s} /\ R.dead \subseteq broken
  BY <1>0, <1>1 DEF Casts
<1>4. cast' = [cast EXCEPT ![u] = R]
  BY <1>0, <1>1 DEF RoomsTypeOK, Casts
<1> HIDE DEF R
<1>5. \A v \in Updates : cast'[v] = IF v = u THEN R ELSE cast[v]
  BY <1>0, <1>4 DEF RoomsTypeOK
<1>6. \A v \in Updates : waiting'[v] = IF v = u THEN waiting[u] \ {s} ELSE waiting[v]
  BY <1>0, <1>2 DEF RoomsTypeOK
<1>7. RoomsTypeOK'
  BY <1>0, <1>2, <1>3, <1>4 DEF RoomsTypeOK
<1> QED BY <1>0, <1>2, <1>3, <1>5, <1>6, <1>7, NobodyPassedOver, HeardFrame DEF RoomInv

\* A broadcast that is over, in either way, tries and finds nobody any more.
LEMMA OverStep ==
  ASSUME RoomInv, NEW u \in Updates, IterationFails(u) \/ EndBroadcast(u)
  PROVE  RoomInv'
<1> DEFINE ends == IF IterationFails(u) THEN "failed" ELSE "answered"
           R == [Quiet EXCEPT !.at = ends]
<1>0. /\ RoomsTypeOK /\ Len(sets) \in Nat
      /\ \A i \in 1..Len(sets) : sets[i] \in FiniteRooms
      /\ \A v \in Updates : cast[v].dead \subseteq broken /\ waiting[v] \cap broken = {}
  BY CastFields DEF RoomsTypeOK
<1>1. R \in Casts(Len(sets)) /\ R.at = ends /\ R.dead = {}
  BY CastFields DEF Casts
<1>2. cast' = [cast EXCEPT ![u] = R]
  BY DEF IterationFails, EndBroadcast, Iterating
<1>3. ends \in {"failed", "answered"}
  OBVIOUS
<1>4. UNCHANGED <<broken, current, listener, started>> /\ cast[u].at = "sending"
  BY DEF IterationFails, EndBroadcast, Iterating
<1>5. ends = "answered" => Left(u) = {}
  BY DEF EndBroadcast
<1> HIDE DEF R, ends
<1>6. \A v \in Updates : cast'[v] = IF v = u THEN R ELSE cast[v]
  BY <1>0, <1>2 DEF RoomsTypeOK
<1>7. /\ waiting' \in [Updates -> SUBSET Sockets]
      /\ \A v \in Updates : waiting'[v] \subseteq waiting[v]
  BY <1>0 DEF IterationFails, EndBroadcast, RoomsTypeOK
<1>8. /\ sets' \in Seq(FiniteRooms) /\ Len(sets') = Len(sets)
      /\ \A i \in 1..Len(sets) : sets[i] \ broken \subseteq sets'[i]
  <2>1. CASE IterationFails(u)
    BY <1>0, <2>1 DEF IterationFails, RoomsTypeOK
  <2>2. CASE EndBroadcast(u)
    <3>1. sets' = [i \in DOMAIN sets |->
                     IF i = cast[u].room THEN sets[i] \ cast[u].dead ELSE sets[i]]
      BY <2>2 DEF EndBroadcast
    <3>2. DOMAIN sets = 1..Len(sets)
      BY <1>0 DEF RoomsTypeOK
    <3>3. \A i \in 1..Len(sets) : sets[i] \ cast[u].dead \in FiniteRooms
      BY <1>0, RoomSizes
    <3>4. sets' \in [1..Len(sets) -> FiniteRooms]
      BY <1>0, <3>1, <3>2, <3>3
    <3>5. sets' \in Seq(FiniteRooms) /\ Len(sets') = Len(sets)
      BY <1>0, <3>4, SetsOfRooms DEF RoomsTypeOK
    <3>6. \A i \in 1..Len(sets) : sets[i] \ broken \subseteq sets'[i]
      BY <1>0, <3>1, <3>2
    <3> QED BY <3>5, <3>6
  <2> QED BY <2>1, <2>2
<1>9. RoomsTypeOK'
  BY <1>0, <1>1, <1>2, <1>4, <1>7, <1>8 DEF RoomsTypeOK
<1>10. \A v \in Updates : cast'[v].dead \subseteq broken'
  BY <1>0, <1>1, <1>4, <1>6
<1> QED BY <1>0, <1>1, <1>3, <1>4, <1>5, <1>6, <1>7, <1>8, <1>9, <1>10, NobodyPassedOver,
           HeardFrame DEF RoomInv

LEMMA StartStep ==
  ASSUME RoomInv, NEW u \in Updates, StartBroadcast(u)
  PROVE  RoomInv'
<1> DEFINE members == IF current = 0 THEN {} ELSE sets[current]
           R == [at |-> "sending", room |-> current, size |-> Cardinality(members),
                 members |-> members, tried |-> {}, dead |-> {}]
           P(q) == [listener[q] EXCEPT !.queue = Append(listener[q].queue, u)]
<1>0. /\ RoomsTypeOK /\ Len(sets) \in Nat /\ Len(started) \in Nat
      /\ \A v \in Updates : cast[v].dead \subseteq broken /\ waiting[v] \cap broken = {}
  BY CastFields
<1>1. members \in FiniteRooms /\ current \in 0..Len(sets)
  BY <1>0, EmptyRooms DEF RoomsTypeOK
<1>2. Cardinality(members) \in Nat /\ members \in SUBSET Sockets
  BY <1>1, RoomSizes DEF FiniteRooms
<1>3. R \in Casts(Len(sets)) /\ R.at = "sending" /\ R.room = current
      /\ R.members = members /\ R.tried = {} /\ R.dead = {}
  <2> HIDE DEF members
  <2> QED BY <1>1, <1>2 DEF Casts
<1>4. /\ cast' = [cast EXCEPT ![u] = R]
      /\ listener' = [q \in Subscribers |->
                        IF listener[q].at = "on" THEN P(q) ELSE listener[q]]
      /\ started' = Append(started, u)
      /\ waiting' = [waiting EXCEPT ![u] = members \ broken]
      /\ UNCHANGED <<broken, sets, current>>
  BY DEF StartBroadcast, Put
<1>5. /\ started' \in Seq(Updates) /\ Len(started') = Len(started) + 1
  BY <1>0, <1>4 DEF RoomsTypeOK
<1>6. \A q \in Subscribers :
        /\ listener[q] \in Listeners(Len(started')) /\ listener[q].upTo \in 0..Len(started)
        /\ P(q) \in Listeners(Len(started')) /\ P(q).at = listener[q].at
        /\ P(q).upTo = listener[q].upTo /\ P(q).queue = Append(listener[q].queue, u)
  <2>1. ASSUME NEW q \in Subscribers PROVE listener[q] \in Listeners(Len(started))
    BY <1>0 DEF RoomsTypeOK
  <2>2. ASSUME NEW q \in Subscribers PROVE Append(listener[q].queue, u) \in Seq(Updates)
    BY <2>1, AppendProperties DEF Listeners
  <2>3. ASSUME NEW q \in Subscribers
        PROVE  /\ P(q) \in Listeners(Len(started)) /\ P(q).at = listener[q].at
               /\ P(q).upTo = listener[q].upTo /\ P(q).queue = Append(listener[q].queue, u)
    BY <2>1, <2>2 DEF Listeners
  <2>4. Listeners(Len(started)) \subseteq Listeners(Len(started'))
    BY <1>0, <1>5 DEF Listeners
  <2>5. \A L \in Listeners(Len(started)) : L.upTo \in 0..Len(started)
    BY DEF Listeners
  <2> HIDE DEF P
  <2> QED BY <2>1, <2>3, <2>4, <2>5
<1> HIDE DEF R, P
<1>7. \A v \in Updates : cast'[v] = IF v = u THEN R ELSE cast[v]
  BY <1>0, <1>4 DEF RoomsTypeOK
<1>8. \A v \in Updates : waiting'[v] = IF v = u THEN members \ broken ELSE waiting[v]
  BY <1>0, <1>4 DEF RoomsTypeOK
<1>9. RoomsTypeOK'
  <2>1. listener' \in [Subscribers -> Listeners(Len(started'))]
    BY <1>4, <1>6
  <2>2. waiting' \in [Updates -> SUBSET Sockets]
    BY <1>0, <1>2, <1>4 DEF RoomsTypeOK
  <2>3. cast' \in [Updates -> Casts(Len(sets))]
    BY <1>0, <1>3, <1>4 DEF RoomsTypeOK
  <2> QED BY <1>0, <1>4, <1>5, <2>1, <2>2, <2>3 DEF RoomsTypeOK
<1>10. WaitingAreLeft'
  <2>1. ASSUME NEW v \in Updates, v # u, cast[v].at = "sending"
        PROVE  waiting[v] \subseteq Left(v)' /\ waiting'[v] = waiting[v]
    BY <1>4, <1>7, <1>8, <2>1 DEF RoomInv, WaitingAreLeft, Left, Room
  <2>2. members \ broken \subseteq Left(u)'
    BY <1>3, <1>4, <1>7 DEF Left, Room
  <2>3. ASSUME NEW v \in Updates
        PROVE  /\ cast'[v].dead \subseteq broken'
               /\ waiting'[v] \cap broken' = {}
               /\ cast'[v].at = "sending" => waiting'[v] \subseteq Left(v)'
    BY <1>0, <1>3, <1>4, <1>7, <1>8, <2>1, <2>2
  <2> QED BY <2>3 DEF WaitingAreLeft
<1>11. StayersHear'
  BY <1>3, <1>7, <1>8 DEF RoomInv, StayersHear
<1>12. SubscribersHearAll'
  <2>1. ASSUME NEW q \in Subscribers, listener'[q].at = "on"
        PROVE  listener'[q].queue = SubSeq(started', listener'[q].upTo + 1, Len(started'))
    <3>1. listener[q].at = "on" /\ listener'[q] = P(q)
      BY <1>4, <1>6, <2>1
    <3>2. listener[q].queue = SubSeq(started, listener[q].upTo + 1, Len(started))
      BY <3>1 DEF RoomInv, SubscribersHearAll
    <3>3. Append(listener[q].queue, u)
            = SubSeq(Append(started, u), listener[q].upTo + 1, Len(started) + 1)
      <4>1. started \in Seq(Updates) /\ listener[q].upTo \in 0..Len(started) /\ u \in Updates
        BY <1>0, <1>6 DEF RoomsTypeOK
      <4>2. Append(SubSeq(started, listener[q].upTo + 1, Len(started)), u)
              = SubSeq(Append(started, u), listener[q].upTo + 1, Len(started) + 1)
        BY <4>1, RestMoves
      <4> QED BY <3>2, <4>2
    <3> QED BY <1>4, <1>5, <1>6, <3>1, <3>3
  <2> QED BY <2>1 DEF SubscribersHearAll
<1> QED BY <1>9, <1>10, <1>11, <1>12 DEF RoomInv

LEMMA RoomStep == RoomInv /\ [RoomsNext]_roomVars => RoomInv'
<1> SUFFICES ASSUME RoomInv, [RoomsNext]_roomVars PROVE RoomInv'
  OBVIOUS
<1>1. CASE UNCHANGED roomVars
  BY <1>1 DEF roomVars, RoomInv, RoomsTypeOK, WaitingAreLeft, Left, Room, StayersHear,
    SubscribersHearAll
<1> QED BY <1>1, SocketStep, ListenerStep, SendStep, OverStep, StartStep DEF RoomsNext


----------------------------------------------------------------------------
(* The Log Center *)

Stages ==
  {"new", "authenticating", "known", "handling", "handled", "submitting", "resolving",
   "refreshing", "answered", "done"}

\* Row numbers are handed out in order, no row is written for a request that has
\* not begun, and an entry that is submitted is written before it is answered.
LogOrder ==
  /\ Present \subseteq Clients
  /\ stage \in [Clients -> Stages]
  /\ logging \in [Clients -> LogSteps \cup {"none", "done"}]
  /\ surplus \in [Clients -> SUBSET Nat]
  /\ nextRow \in Nat \ {0}
  /\ rows \in SUBSET (1..nextRow - 1)
  /\ \A c \in Present :
       /\ stage[c] = "new" => logging[c] = "none"
       /\ kind[c] = "clientLog" => stage[c] \in {"new", "submitting", "answered", "done"}

\* Rows beyond the limit.
Excess == Cardinality(rows) - MaxRows

\* c will delete as many rows as there are too many now.
WillTrim(c) ==
  \/ logging[c] = "inserted"
  \/ logging[c] = "counted" /\ IsFiniteSet(surplus[c]) /\ Cardinality(surplus[c]) >= Excess
  \/ logging[c] = "listed" /\ Cardinality(surplus[c] \cap rows) >= Excess

\* Rows too many are somebody's to delete, whoever counted what meanwhile.
ExcessIsSomebodys == untrimmed \/ Excess <= 0 \/ \E c \in Clients : WillTrim(c)

\* As long as no row came or went between a count and its delete, a writer's
\* count is still right.
CountsHold ==
  overlapped \/
    \A c \in Clients :
      /\ logging[c] = "counted" => Excess > 0 /\ surplus[c] = 1..Excess
      /\ logging[c] = "listed" => Excess > 0 /\ surplus[c] = Oldest(Excess)

LogInv == LogOrder /\ ExcessIsSomebodys /\ CountsHold /\ NewestRowsKept

LEMMA RowCounts ==
  ASSUME LogOrder
  PROVE  /\ rows \subseteq Nat /\ IsFiniteSet(rows)
         /\ Cardinality(rows) \in Nat /\ MaxRows \in Nat \ {0} /\ Excess \in Int
         /\ \A S : /\ IsFiniteSet(rows \cap S) /\ IsFiniteSet(rows \ S)
                   /\ Cardinality(rows \cap S) \in Nat /\ Cardinality(rows \ S) \in Nat
                   /\ Cardinality(rows \ S) = Cardinality(rows) - Cardinality(rows \cap S)
<1>1. nextRow - 1 \in Int /\ IsFiniteSet(1..nextRow - 1)
  BY FS_Interval DEF LogOrder
<1>2. IsFiniteSet(rows)
  BY <1>1, FS_Subset DEF LogOrder
<1>3. Cardinality(rows) \in Nat
  BY <1>2, FS_CardinalityType
<1>4. ASSUME NEW S
      PROVE  /\ IsFiniteSet(rows \cap S) /\ IsFiniteSet(rows \ S)
             /\ Cardinality(rows \cap S) \in Nat /\ Cardinality(rows \ S) \in Nat
             /\ Cardinality(rows \ S) = Cardinality(rows) - Cardinality(rows \cap S)
  BY <1>2, FS_Intersection, FS_Difference, FS_CardinalityType
<1>5. rows \subseteq Nat
  BY DEF LogOrder
<1>6. MaxRows \in Nat \ {0} /\ Excess \in Int
  BY <1>3, RequestsAssumption DEF Excess
<1> QED BY <1>2, <1>3, <1>4, <1>5, <1>6

\* stale_ids are as many rows as were asked for, if there are so many: below the
\* least row that is not among them there are that many.
LEMMA OldestCount ==
  ASSUME LogOrder, NEW n \in Nat, n <= Cardinality(rows)
  PROVE  Oldest(n) \subseteq rows /\ Cardinality(Oldest(n)) >= n
<1>1. Oldest(n) \subseteq rows
  BY DEF Oldest
<1>2. CASE Oldest(n) = rows
  BY <1>2, RowCounts
<1>3. CASE Oldest(n) # rows
  <2>1. PICK m \in rows \ Oldest(n) : \A k \in rows \ Oldest(n) : m <= k
    <3>1. rows \ Oldest(n) \in SUBSET Nat /\ rows \ Oldest(n) # {}
      BY <1>1, <1>3, RowCounts
    <3> QED BY <3>1, LeastOf
  <2> DEFINE below == {j \in rows : j < m}
  <2>2. ~(Cardinality(below) < n)
    BY <2>1 DEF Oldest
  <2>3. below \subseteq Oldest(n)
    <3>1. ASSUME NEW j \in rows, j < m, j \notin Oldest(n) PROVE FALSE
      <4>1. m <= j /\ m \in Nat /\ j \in Nat
        BY <2>1, <3>1, RowCounts
      <4> QED BY <3>1, <4>1
    <3> QED BY <3>1
  <2>4. IsFiniteSet(Oldest(n)) /\ Cardinality(Oldest(n)) \in Nat
    BY <1>1, RowCounts, FS_Subset, FS_CardinalityType
  <2>5. Cardinality(below) <= Cardinality(Oldest(n)) /\ Cardinality(below) \in Nat
    BY <2>3, <2>4, FS_Subset, FS_CardinalityType
  <2> QED BY <1>1, <2>2, <2>4, <2>5
<1> QED BY <1>2, <1>3

\* None of the newest MaxRows numbers is among the oldest rows in excess: so few
\* rows have the same or a higher number that enough have a lower one.
LEMMA NewestAreSafe ==
  ASSUME LogOrder, NEW i \in rows, i >= nextRow - MaxRows, Excess > 0
  PROVE  i \notin Oldest(Excess)
<1> DEFINE below == {j \in rows : j < i}
           S == i..nextRow - 1
<1>0. i \in Nat /\ nextRow \in Nat /\ rows \subseteq 1..nextRow - 1
  BY DEF LogOrder
<1>1. /\ IsFiniteSet(S)
      /\ Cardinality(S) = IF i > nextRow - 1 THEN 0 ELSE nextRow - 1 - i + 1
  BY <1>0, FS_Interval
<1>2. Cardinality(S) <= MaxRows
  BY <1>0, <1>1, RowCounts
<1>3. rows \cap S \subseteq S /\ rows \ S = below
  <2>1. \A j \in rows : j \in S <=> ~(j < i)
    BY <1>0
  <2> HIDE DEF S
  <2> QED BY <2>1
<1> HIDE DEF S, below
<1>4. Cardinality(rows \cap S) <= Cardinality(S) /\ Cardinality(S) \in Nat
  BY <1>1, <1>3, FS_Subset, FS_CardinalityType
<1>5. Cardinality(below) = Cardinality(rows) - Cardinality(rows \cap S)
  BY <1>3, RowCounts
<1>6. Cardinality(rows \cap S) \in Nat
  BY RowCounts
<1>7. ~(Cardinality(below) < Excess)
  BY <1>2, <1>4, <1>5, <1>6, RowCounts DEF Excess
<1> QED BY <1>7 DEF Oldest, below


LEMMA LogBegins == RequestsInit \/ RequestsNone => LogInv
<1> SUFFICES ASSUME RequestsInit \/ RequestsNone PROVE LogInv
  OBVIOUS
<1>1. (nextRow = MaxRows + 1 /\ rows = 1..MaxRows) \/ (nextRow = 1 /\ rows = {})
  <2>1. RequestsInit => nextRow = MaxRows + 1
    BY DEF RequestsInit
  <2>2. RequestsInit => rows = 1..MaxRows
    BY DEF RequestsInit
  <2>3. RequestsNone => nextRow = 1
    BY DEF RequestsNone
  <2>4. RequestsNone => rows = {}
    BY DEF RequestsNone
  <2> QED BY <2>1, <2>2, <2>3, <2>4
<1>2. MaxRows \in Nat \ {0} /\ nextRow \in Nat \ {0} /\ rows \in SUBSET (1..nextRow - 1)
  BY <1>1, RequestsAssumption
<1>3. Present \subseteq Clients
  BY MixesAssumption DEF RequestsInit, RequestsNone, Present
<1>4. /\ stage \in [Clients -> Stages] /\ \A c \in Clients : stage[c] \in {"new", "done"}
      /\ logging \in [Clients -> LogSteps \cup {"none", "done"}]
      /\ surplus \in [Clients -> SUBSET Nat]
      /\ \A c \in Clients : logging[c] = "none" \/ (logging[c] = "done" /\ stage[c] = "done")
  BY DEF RequestsInit, RequestsNone, Stages
<1>5. LogOrder
  BY <1>2, <1>3, <1>4 DEF LogOrder
<1>6. Excess <= 0
  <2>1. Cardinality(rows) = MaxRows \/ Cardinality(rows) = 0
    <3>1. 1 \in Int /\ MaxRows \in Int
      BY <1>2
    <3>2. Cardinality(1..MaxRows) = MaxRows
      BY <3>1, <1>2, FS_Interval
    <3>3. Cardinality({}) = 0
      BY FS_EmptySet
    <3> QED BY <1>1, <3>2, <3>3
  <2> QED BY <1>2, <2>1 DEF Excess
<1>7. ExcessIsSomebodys
  BY <1>6 DEF ExcessIsSomebodys
<1>8. CountsHold
  BY <1>4 DEF CountsHold
<1>9. NewestRowsKept
  BY <1>1, <1>2 DEF NewestRowsKept
<1> QED BY <1>5, <1>7, <1>8, <1>9 DEF LogInv

\* What does not concern the log leaves it in order.
LEMMA LogQuiet ==
  ASSUME LogInv, UNCHANGED <<rows, nextRow, surplus, untrimmed, overlapped>>,
         \A d \in Clients : \/ logging'[d] = logging[d]
                            \/ {logging[d], logging'[d]} \subseteq {"none", "waiting", "done"}
  PROVE  ExcessIsSomebodys' /\ CountsHold' /\ NewestRowsKept'
<1>1. Excess' = Excess
  BY DEF Excess
<1>2. \A d \in Clients : WillTrim(d) => WillTrim(d)'
  BY <1>1 DEF WillTrim
<1>3. ExcessIsSomebodys'
  BY <1>1, <1>2 DEF LogInv, ExcessIsSomebodys
<1>4. CountsHold'
  <2>1. ASSUME ~overlapped, NEW d \in Clients
        PROVE  /\ logging'[d] = "counted" => Excess' > 0 /\ surplus'[d] = 1..Excess'
               /\ logging'[d] = "listed" => Excess' > 0 /\ surplus'[d] = Oldest(Excess)'
    BY <1>1, <2>1 DEF LogInv, CountsHold, Oldest
  <2> QED BY <2>1 DEF CountsHold
<1>5. NewestRowsKept'
  BY DEF LogInv, NewestRowsKept
<1> QED BY <1>3, <1>4, <1>5

LEMMA LoopLogStep ==
  ASSUME LogInv, NEW c \in Present, LoopSteps(c) \/ Connect(c) \/ Commit(c) \/ PoolTimeout(c)
  PROVE  LogInv'
<1>0. LogOrder /\ c \in Clients
  BY DEF LogInv, LogOrder
<1>1. UNCHANGED <<kind, rows, nextRow, surplus, untrimmed, overlapped>>
  BY DEF LoopSteps, GiveThread, TakeThread, StartGraph, GraphCommits, GraphAnswers, Close,
    StartLog, EndLog, Connect, Commit, PoolTimeout, logVars
<1>2. /\ logging' \in [Clients -> LogSteps \cup {"none", "done"}]
      /\ \A d \in Clients : d # c => logging'[d] = logging[d] /\ stage'[d] = stage[d]
      /\ \/ logging'[c] = logging[c]
         \/ {logging[c], logging'[c]} \subseteq {"none", "waiting", "done"}
      /\ stage' \in [Clients -> Stages]
      /\ stage'[c] = "new" => stage[c] = "new" /\ logging'[c] = logging[c]
      /\ kind[c] = "clientLog" => stage'[c] \in {"new", "submitting", "answered", "done"}
  <2>1. CASE GiveThread(c)
    <3>1. kind[c] = "clientLog" => stage[c] = "new" /\ stage' = [stage EXCEPT ![c] = "submitting"]
      BY <2>1 DEF GiveThread, Moves
    <3>2. \E x \in Stages \ {"new"} : stage' = [stage EXCEPT ![c] = x]
      BY <2>1 DEF GiveThread, Moves, Stages
    <3>3. \/ kind[c] # "clientLog" /\ logging' = logging
          \/ kind[c] = "clientLog" /\ logging' = [logging EXCEPT ![c] = "waiting"]
      BY <2>1 DEF GiveThread
    <3>4. kind[c] = "clientLog" => logging[c] = "none"
      BY <1>0, <3>1 DEF LogOrder
    <3> QED BY <1>0, <3>1, <3>2, <3>3, <3>4 DEF LogOrder, LogSteps
  <2>2. CASE TakeThread(c)
    <3>1. \/ \E x \in {"known", "answered"} :
               /\ stage[c] \in {"authenticating", "handling", "handled"}
               /\ stage' = [stage EXCEPT ![c] = x]
          \/ logging[c] = "done" /\ stage' = [stage EXCEPT ![c] = "answered"]
      BY <2>2 DEF TakeThread, Moves
    <3>2. \/ kind[c] # "clientLog" /\ logging' = logging
          \/ kind[c] = "clientLog" /\ logging' = [logging EXCEPT ![c] = "none"]
      BY <2>2 DEF TakeThread
    <3> QED BY <1>0, <3>1, <3>2 DEF LogOrder, LogSteps, Stages
  <2>3. CASE StartLog(c)
    BY <1>0, <2>3 DEF StartLog, LogOrder, LogSteps
  <2>4. CASE EndLog(c) \/ Connect(c)
    BY <1>0, <2>4 DEF EndLog, Connect, logVars, LogOrder
  <2>5. CASE StartGraph(c) \/ GraphCommits(c) \/ GraphAnswers(c) \/ Close(c) \/ Commit(c)
    <3>1. \E x \in {"resolving", "refreshing", "answered", "done", "handled"} :
            /\ stage' = [stage EXCEPT ![c] = x]
            /\ kind[c] = "graph" \/ stage[c] = "handling" \/ x = "done"
      BY <2>5 DEF StartGraph, GraphCommits, GraphAnswers, Close, Commit, Moves
    <3>2. logging' = logging
      BY <2>5 DEF StartGraph, GraphCommits, GraphAnswers, Close, Commit, logVars
    <3> QED BY <1>0, <3>1, <3>2 DEF LogOrder, Stages
  <2>6. CASE PoolTimeout(c)
    <3>1. \/ stage' = [stage EXCEPT ![c] = "answered"] /\ logging' = logging
          \/ /\ logging[c] = "waiting" /\ logging' = [logging EXCEPT ![c] = "done"]
             /\ stage' = stage
      BY <2>6 DEF PoolTimeout, WaitsForLog
    <3> QED BY <1>0, <3>1 DEF LogOrder, Stages
  <2> QED BY <2>1, <2>2, <2>3, <2>4, <2>5, <2>6 DEF LoopSteps
<1>3. LogOrder'
  BY <1>0, <1>1, <1>2 DEF LogOrder, Present
<1>4. ExcessIsSomebodys' /\ CountsHold' /\ NewestRowsKept'
  BY <1>1, <1>2, LogQuiet
<1> QED BY <1>3, <1>4 DEF LogInv

\* A writer's step leaves the log in order.
LEMMA WriterOrder ==
  ASSUME LogOrder, NEW c \in Present, logging[c] # "none",
         NEW x \in {"inserted", "counted", "listed", "done"},
         logging' = [logging EXCEPT ![c] = x], UNCHANGED <<kind, stage>>,
         surplus' \in [Clients -> SUBSET Nat], nextRow' \in Nat \ {0},
         rows' \in SUBSET (1..nextRow' - 1)
  PROVE  LogOrder' /\ logging'[c] = x /\ \A d \in Clients \ {c} : logging'[d] = logging[d]
<1>1. /\ logging' \in [Clients -> LogSteps \cup {"none", "done"}] /\ logging'[c] = x
      /\ \A d \in Clients \ {c} : logging'[d] = logging[d]
  BY DEF LogOrder, LogSteps
<1>2. \A d \in Present : /\ stage[d] = "new" => logging'[d] = "none"
                         /\ kind[d] = "clientLog"
                              => stage[d] \in {"new", "submitting", "answered", "done"}
  BY <1>1 DEF LogOrder
<1> QED BY <1>1, <1>2 DEF LogOrder, Present

LEMMA InsertStep ==
  ASSUME LogInv, NEW c \in Present, InsertRow(c)
  PROVE  LogInv'
<1>0. LogOrder /\ c \in Clients
  BY DEF LogInv, LogOrder
<1>1. /\ logging[c] = "waiting" /\ logging' = [logging EXCEPT ![c] = "inserted"]
      /\ rows' = rows \cup {nextRow} /\ nextRow' = nextRow + 1
      /\ UNCHANGED <<kind, stage, surplus>>
  BY DEF InsertRow, LogMoves, requestVars
<1>2. overlapped' = (overlapped \/ Meanwhile(c))
  BY DEF InsertRow
<1>3. nextRow \in Nat \ {0} /\ rows \in SUBSET (1..nextRow - 1) /\ surplus \in [Clients -> SUBSET Nat]
  BY <1>0 DEF LogOrder
<1>4. nextRow' \in Nat \ {0} /\ rows' \in SUBSET (1..nextRow' - 1)
  BY <1>1, <1>3
<1>5. LogOrder' /\ logging'[c] = "inserted" /\ \A d \in Clients \ {c} : logging'[d] = logging[d]
  BY <1>0, <1>1, <1>3, <1>4, WriterOrder
<1>6. ExcessIsSomebodys'
  BY <1>0, <1>5 DEF ExcessIsSomebodys, WillTrim
<1>7. ASSUME ~overlapped' PROVE CountsHold'
  <2>1. \A d \in Clients : logging'[d] \notin {"counted", "listed"}
    BY <1>2, <1>5, <1>7 DEF Meanwhile
  <2> QED BY <2>1 DEF CountsHold
<1>8. ASSUME ~overlapped', NEW i \in 1..nextRow' - 1, i >= nextRow' - MaxRows PROVE i \in rows'
  <2>1. ~overlapped
    BY <1>2, <1>8
  <2>2. i = nextRow \/ (i \in 1..nextRow - 1 /\ i >= nextRow - MaxRows)
    BY <1>1, <1>3, <1>8, RequestsAssumption
  <2>3. i \in 1..nextRow - 1 /\ i >= nextRow - MaxRows => i \in rows
    BY <2>1 DEF LogInv, NewestRowsKept
  <2> QED BY <1>1, <2>2, <2>3
<1> QED BY <1>5, <1>6, <1>7, <1>8 DEF LogInv, CountsHold, NewestRowsKept

LEMMA CountStep ==
  ASSUME LogInv, NEW c \in Present, CountRows(c)
  PROVE  LogInv'
<1>0. LogOrder /\ c \in Clients
  BY DEF LogInv, LogOrder
<1>1. /\ logging[c] = "inserted"
      /\ UNCHANGED <<kind, stage, rows, nextRow, overlapped>>
  BY DEF CountRows
<1>2. Excess' = Excess /\ Excess \in Int /\ surplus \in [Clients -> SUBSET Nat]
  BY <1>0, <1>1, RowCounts DEF Excess, LogOrder
<1>3. \/ /\ Excess > 0 /\ logging' = [logging EXCEPT ![c] = "counted"]
         /\ surplus' = [surplus EXCEPT ![c] = 1..Excess]
      \/ /\ Excess <= 0 /\ logging' = [logging EXCEPT ![c] = "done"]
         /\ surplus' = [surplus EXCEPT ![c] = {}]
  <2>1. Cardinality(rows) > MaxRows <=> Excess > 0
    BY <1>0, RowCounts DEF Excess
  <2>2. Excess <= 0 <=> ~(Excess > 0)
    BY <1>2
  <2> QED BY <2>1, <2>2 DEF CountRows, LogMoves, LogDone, Excess
<1>4. surplus' \in [Clients -> SUBSET Nat] /\ \A d \in Clients \ {c} : surplus'[d] = surplus[d]
  BY <1>2, <1>3
<1>5. LogOrder' /\ \A d \in Clients \ {c} : logging'[d] = logging[d]
  BY <1>0, <1>1, <1>3, <1>4, WriterOrder DEF LogOrder
<1>6. /\ Excess > 0 => logging'[c] = "counted" /\ surplus'[c] = 1..Excess
      /\ Excess <= 0 => logging'[c] = "done"
  BY <1>0, <1>2, <1>3 DEF LogOrder
<1>7. ExcessIsSomebodys'
  <2>1. CASE Excess > 0
    <3>1. IsFiniteSet(1..Excess) /\ Cardinality(1..Excess) = Excess
      BY <1>2, <2>1, FS_Interval
    <3>2. WillTrim(c)'
      BY <1>2, <1>6, <2>1, <3>1 DEF WillTrim
    <3> QED BY <1>0, <3>2 DEF ExcessIsSomebodys
  <2>2. CASE Excess <= 0
    BY <1>2, <2>2 DEF ExcessIsSomebodys
  <2> QED BY <1>2, <2>1, <2>2
<1>8. ASSUME ~overlapped', NEW d \in Clients
      PROVE  /\ logging'[d] = "counted" => Excess' > 0 /\ surplus'[d] = 1..Excess'
             /\ logging'[d] = "listed" => Excess' > 0 /\ surplus'[d] = Oldest(Excess)'
  <2>1. CASE d = c
    BY <1>2, <1>6, <2>1
  <2>2. CASE d # c
    <3>1. logging'[d] = logging[d] /\ surplus'[d] = surplus[d] /\ ~overlapped
      BY <1>1, <1>4, <1>5, <1>8, <2>2
    <3>2. Oldest(Excess)' = Oldest(Excess)
      BY <1>1, <1>2 DEF Oldest
    <3> QED BY <1>2, <3>1, <3>2 DEF LogInv, CountsHold
  <2> QED BY <2>1, <2>2
<1>9. NewestRowsKept'
  BY <1>1 DEF LogInv, NewestRowsKept
<1> QED BY <1>5, <1>7, <1>8, <1>9 DEF LogInv, CountsHold

LEMMA ListStep ==
  ASSUME LogInv, NEW c \in Present, ListSurplus(c)
  PROVE  LogInv'
<1>0. LogOrder /\ c \in Clients
  BY DEF LogInv, LogOrder
<1> DEFINE S == Oldest(Cardinality(surplus[c]))
<1>1. /\ logging[c] = "counted" /\ logging' = [logging EXCEPT ![c] = "listed"]
      /\ surplus' = [surplus EXCEPT ![c] = S]
      /\ UNCHANGED <<kind, stage, rows, nextRow, untrimmed, overlapped>>
  BY DEF ListSurplus, LogMoves, requestVars
<1>2. Excess' = Excess /\ Excess \in Int /\ surplus \in [Clients -> SUBSET Nat]
  BY <1>0, <1>1, RowCounts DEF Excess, LogOrder
<1>3. S \subseteq rows /\ rows \subseteq Nat
  BY <1>0, RowCounts DEF Oldest
<1>4. IsFiniteSet(surplus[c]) /\ Cardinality(surplus[c]) >= Excess => Cardinality(S \cap rows) >= Excess
  <2> DEFINE n == Cardinality(surplus[c])
  <2> SUFFICES ASSUME IsFiniteSet(surplus[c]), n >= Excess PROVE Cardinality(S) >= Excess
    BY <1>3
  <2>1. n \in Nat
    BY FS_CardinalityType
  <2>2. CASE n <= Cardinality(rows)
    <3>1. Cardinality(S) >= n
      BY <1>0, <2>1, <2>2, OldestCount
    <3>2. Cardinality(S) \in Nat
      BY <1>0, <1>3, RowCounts, FS_Subset, FS_CardinalityType
    <3> HIDE DEF S, n
    <3> QED BY <1>2, <2>1, <3>1, <3>2
  <2>3. CASE ~(n <= Cardinality(rows))
    <3>1. Oldest(Cardinality(rows)) \subseteq S
      <4>1. ASSUME NEW i \in rows, Cardinality({j \in rows : j < i}) < Cardinality(rows)
            PROVE  Cardinality({j \in rows : j < i}) < n
        <5>1. Cardinality({j \in rows : j < i}) \in Nat /\ Cardinality(rows) \in Nat
          BY <1>0, RowCounts, FS_Subset, FS_CardinalityType
        <5> QED BY <2>1, <2>3, <4>1, <5>1
      <4> QED BY <4>1 DEF Oldest
    <3>2. Cardinality(Oldest(Cardinality(rows))) >= Cardinality(rows)
      BY <1>0, RowCounts, OldestCount
    <3>3. IsFiniteSet(S) /\ Cardinality(S) \in Nat
      BY <1>0, <1>3, RowCounts, FS_Subset, FS_CardinalityType
    <3>4. /\ Cardinality(Oldest(Cardinality(rows))) <= Cardinality(S)
          /\ Cardinality(Oldest(Cardinality(rows))) \in Nat
      BY <3>1, <3>3, FS_Subset, FS_CardinalityType
    <3>5. Cardinality(rows) >= Excess /\ Cardinality(rows) \in Nat
      BY <1>0, RowCounts DEF Excess
    <3> HIDE DEF S, n
    <3> QED BY <1>2, <3>2, <3>3, <3>4, <3>5
  <2> QED BY <2>2, <2>3
<1>5. ~overlapped => Excess > 0 /\ S = Oldest(Excess)
  <2> SUFFICES ASSUME ~overlapped PROVE Excess > 0 /\ S = Oldest(Excess)
    OBVIOUS
  <2>1. Excess > 0 /\ surplus[c] = 1..Excess
    BY <1>0, <1>1 DEF LogInv, CountsHold
  <2>2. Cardinality(1..Excess) = Excess
    BY <1>2, <2>1, FS_Interval
  <2> QED BY <2>1, <2>2
<1> HIDE DEF S
<1>6. /\ surplus' \in [Clients -> SUBSET Nat] /\ surplus'[c] = S
      /\ \A d \in Clients \ {c} : surplus'[d] = surplus[d]
  BY <1>0, <1>1, <1>2, <1>3
<1>7. LogOrder' /\ logging'[c] = "listed" /\ \A d \in Clients \ {c} : logging'[d] = logging[d]
  BY <1>0, <1>1, <1>6, WriterOrder DEF LogOrder
<1>8. \A d \in Clients : WillTrim(d) => WillTrim(d)'
  <2>1. WillTrim(c) => WillTrim(c)'
    BY <1>1, <1>2, <1>4, <1>6, <1>7 DEF WillTrim
  <2>2. \A d \in Clients \ {c} : WillTrim(d) => WillTrim(d)'
    BY <1>1, <1>2, <1>6, <1>7 DEF WillTrim
  <2> QED BY <2>1, <2>2
<1>9. ExcessIsSomebodys'
  BY <1>1, <1>2, <1>8 DEF LogInv, ExcessIsSomebodys
<1>10. ASSUME ~overlapped', NEW d \in Clients
       PROVE  /\ logging'[d] = "counted" => Excess' > 0 /\ surplus'[d] = 1..Excess'
              /\ logging'[d] = "listed" => Excess' > 0 /\ surplus'[d] = Oldest(Excess)'
  <2>1. Oldest(Excess)' = Oldest(Excess) /\ ~overlapped
    BY <1>1, <1>2, <1>10 DEF Oldest
  <2>2. CASE d = c
    BY <1>2, <1>5, <1>6, <1>7, <2>1, <2>2
  <2>3. CASE d # c
    <3>1. logging'[d] = logging[d] /\ surplus'[d] = surplus[d]
      BY <1>6, <1>7, <2>3
    <3> QED BY <1>2, <3>1, <2>1 DEF LogInv, CountsHold
  <2> QED BY <2>2, <2>3
<1>11. NewestRowsKept'
  BY <1>1 DEF LogInv, NewestRowsKept
<1> QED BY <1>7, <1>9, <1>10, <1>11 DEF LogInv, CountsHold

LEMMA DeleteStep ==
  ASSUME LogInv, NEW c \in Present, DeleteSurplus(c)
  PROVE  LogInv'
<1>0. LogOrder /\ c \in Clients
  BY DEF LogInv, LogOrder
<1> DEFINE S == surplus[c]
<1>1. /\ logging[c] = "listed" /\ logging' = [logging EXCEPT ![c] = "done"]
      /\ surplus' = [surplus EXCEPT ![c] = {}]
      /\ rows' = rows \ S
      /\ UNCHANGED <<kind, stage, nextRow, untrimmed>>
  BY DEF DeleteSurplus, LogDone
<1>2. overlapped' = (overlapped \/ Meanwhile(c))
  BY DEF DeleteSurplus
<1>3. /\ surplus' \in [Clients -> SUBSET Nat]
      /\ \A d \in Clients \ {c} : surplus'[d] = surplus[d]
      /\ nextRow' \in Nat \ {0} /\ rows' \in SUBSET (1..nextRow' - 1)
  BY <1>0, <1>1 DEF LogOrder
<1>4. LogOrder' /\ logging'[c] = "done" /\ \A d \in Clients \ {c} : logging'[d] = logging[d]
  BY <1>0, <1>1, <1>3, WriterOrder
<1> DEFINE gone == Cardinality(rows \cap S)
<1>5. Excess \in Int /\ gone \in Nat /\ Excess' = Excess - gone
  <2>1. Cardinality(rows \ S) = Cardinality(rows) - Cardinality(rows \cap S)
    BY <1>0, RowCounts
  <2>2. Excess' = Cardinality(rows \ S) - MaxRows
    BY <1>1 DEF Excess
  <2>3. gone \in Nat /\ Cardinality(rows) \in Nat /\ MaxRows \in Nat /\ Excess \in Int
    BY <1>0, RowCounts
  <2>4. Excess = Cardinality(rows) - MaxRows
    BY DEF Excess
  <2> QED BY <2>1, <2>2, <2>3, <2>4
\* The rows another writer listed and still finds are fewer by those c deleted, at most.
<1>6. ASSUME NEW d \in Clients \ {c}, WillTrim(d) PROVE WillTrim(d)'
  <2>1. Excess' <= Excess
    <3> HIDE DEF gone
    <3> QED BY <1>5
  <2>2. CASE logging[d] = "inserted"
    BY <1>4, <2>2 DEF WillTrim
  <2>3. CASE logging[d] = "counted"
    <3>1. IsFiniteSet(surplus[d]) /\ Cardinality(surplus[d]) >= Excess
      BY <1>6, <2>3 DEF WillTrim
    <3>2. Cardinality(surplus[d]) >= Excess'
      BY <1>5, <2>1, <3>1, FS_CardinalityType
    <3> QED BY <1>3, <1>4, <2>3, <3>1, <3>2 DEF WillTrim
  <2>4. CASE logging[d] = "listed"
    <3> DEFINE D == surplus[d] \cap rows
               L == surplus[d] \cap (rows \ S)
    <3>1. Cardinality(D) >= Excess
      BY <1>6, <2>4 DEF WillTrim
    <3>2. /\ IsFiniteSet(D) /\ Cardinality(D) \in Nat
          /\ IsFiniteSet(rows \cap S)
      <4>1. D = rows \cap surplus[d]
        OBVIOUS
      <4> QED BY <1>0, <4>1, RowCounts
    <3>3. /\ Cardinality(D \ S) = Cardinality(D) - Cardinality(D \cap S)
          /\ Cardinality(D \cap S) \in Nat
      BY <3>2, FS_Difference, FS_Intersection, FS_CardinalityType
    <3>4. Cardinality(D \cap S) <= gone
      <4>1. D \cap S \subseteq rows \cap S
        OBVIOUS
      <4> QED BY <3>2, <4>1, FS_Subset
    <3>5. D \ S = L
      OBVIOUS
    <3> HIDE DEF D, L, gone
    <3>6. Cardinality(L) >= Excess'
      BY <1>5, <3>1, <3>2, <3>3, <3>4, <3>5
    <3>7. surplus'[d] \cap rows' = L
      BY <1>1, <1>3 DEF L
    <3> QED BY <1>4, <2>4, <3>6, <3>7 DEF WillTrim
  <2> QED BY <1>6, <2>2, <2>3, <2>4 DEF WillTrim
<1>7. WillTrim(c) => Excess' <= 0
  <2>1. WillTrim(c) => gone >= Excess
    <3>1. rows \cap S = surplus[c] \cap rows
      OBVIOUS
    <3> QED BY <1>1, <3>1 DEF WillTrim
  <2> HIDE DEF gone
  <2> QED BY <1>5, <2>1
<1>8. ExcessIsSomebodys'
  <2>1. Excess <= 0 => Excess' <= 0
    <3> HIDE DEF gone
    <3> QED BY <1>5
  <2>2. untrimmed \/ Excess <= 0 \/ \E d \in Clients : WillTrim(d)
    BY DEF LogInv, ExcessIsSomebodys
  <2> QED BY <1>1, <1>6, <1>7, <2>1, <2>2 DEF ExcessIsSomebodys
<1>9. ASSUME ~overlapped' PROVE CountsHold'
  <2>1. \A d \in Clients : logging'[d] \notin {"counted", "listed"}
    BY <1>2, <1>4, <1>9 DEF Meanwhile
  <2> QED BY <2>1 DEF CountsHold
<1>10. ASSUME ~overlapped', NEW i \in 1..nextRow' - 1, i >= nextRow' - MaxRows PROVE i \in rows'
  <2>1. ~overlapped /\ nextRow' = nextRow
    BY <1>1, <1>2, <1>10
  <2>2. i \in rows
    BY <1>10, <2>1 DEF LogInv, NewestRowsKept
  <2>3. Excess > 0 /\ S = Oldest(Excess)
    BY <1>0, <1>1, <2>1 DEF LogInv, CountsHold
  <2>4. i \notin S
    BY <1>0, <1>10, <2>1, <2>2, <2>3, NewestAreSafe
  <2> QED BY <1>1, <2>2, <2>4
<1> QED BY <1>4, <1>8, <1>9, <1>10 DEF LogInv, CountsHold, NewestRowsKept

LEMMA FailStep ==
  ASSUME LogInv, NEW c \in Present, LogFails(c)
  PROVE  LogInv'
<1>0. LogOrder /\ c \in Clients
  BY DEF LogInv, LogOrder
<1>1. /\ logging[c] # "none" /\ logging' = [logging EXCEPT ![c] = "done"]
      /\ surplus' = [surplus EXCEPT ![c] = {}]
      /\ UNCHANGED <<kind, stage, rows, nextRow, overlapped>>
  BY DEF LogFails, LogDone
<1>2. untrimmed'
  BY DEF LogFails
<1>3. Excess' = Excess /\ surplus' \in [Clients -> SUBSET Nat]
      /\ \A d \in Clients \ {c} : surplus'[d] = surplus[d]
  BY <1>0, <1>1 DEF Excess, LogOrder
<1>4. LogOrder' /\ logging'[c] = "done" /\ \A d \in Clients \ {c} : logging'[d] = logging[d]
  BY <1>0, <1>1, <1>3, WriterOrder DEF LogOrder
<1>5. ASSUME ~overlapped', NEW d \in Clients
      PROVE  /\ logging'[d] = "counted" => Excess' > 0 /\ surplus'[d] = 1..Excess'
             /\ logging'[d] = "listed" => Excess' > 0 /\ surplus'[d] = Oldest(Excess)'
  <2>1. Oldest(Excess)' = Oldest(Excess) /\ ~overlapped
    BY <1>1, <1>3, <1>5 DEF Oldest
  <2>2. CASE d = c
    BY <1>4, <2>2
  <2>3. CASE d # c
    <3>1. logging'[d] = logging[d] /\ surplus'[d] = surplus[d]
      BY <1>3, <1>4, <2>3
    <3> QED BY <1>3, <3>1, <2>1 DEF LogInv, CountsHold
  <2> QED BY <2>2, <2>3
<1>6. NewestRowsKept'
  BY <1>1 DEF LogInv, NewestRowsKept
<1> QED BY <1>2, <1>4, <1>5, <1>6 DEF LogInv, CountsHold, ExcessIsSomebodys

LEMMA LogStep == LogInv /\ [RequestsNext]_serving => LogInv'
<1> SUFFICES ASSUME LogInv, [RequestsNext]_serving PROVE LogInv'
  OBVIOUS
<1>1. CASE RequestsNext
  <2>1. PICK c \in Present : LoopSteps(c) \/ Statements(c) \/ PoolTimeout(c)
    BY <1>1 DEF RequestsNext
  <2>2. CASE LoopSteps(c) \/ Connect(c) \/ Commit(c) \/ PoolTimeout(c)
    BY <2>2, LoopLogStep
  <2>3. CASE InsertRow(c) \/ CountRows(c) \/ ListSurplus(c) \/ DeleteSurplus(c) \/ LogFails(c)
    BY <2>3, InsertStep, CountStep, ListStep, DeleteStep, FailStep
  <2> QED BY <2>1, <2>2, <2>3 DEF Statements
<1>2. CASE UNCHANGED serving
  <2>1. UNCHANGED <<kind, stage, logging, rows, nextRow, surplus, untrimmed, overlapped>>
    BY <1>2 DEF serving, requestVars, logVars
  <2>2. LogOrder'
    BY <2>1 DEF LogInv, LogOrder, Present
  <2>3. ExcessIsSomebodys' /\ CountsHold' /\ NewestRowsKept'
    BY <2>1, LogQuiet
  <2> QED BY <2>2, <2>3 DEF LogInv
<1> QED BY <1>1, <1>2

LEMMA LimitKept == LogInv => LogIsNewest
<1> SUFFICES ASSUME LogInv, Loggers = {}, ~untrimmed PROVE Cardinality(rows) <= MaxRows
  BY DEF LogIsNewest, LogWithinLimit, LogInv
<1>1. \A c \in Clients : ~WillTrim(c)
  BY DEF Loggers, LogSteps, WillTrim
<1>2. Excess <= 0
  BY <1>1 DEF LogInv, ExcessIsSomebodys
<1> QED BY <1>2, RowCounts DEF LogInv, Excess

----------------------------------------------------------------------------
(* Who waits for what *)

InThread == {"authenticating", "handling", "handled", "submitting"}

\* A request has what its stage says: a thread, a session's connection, the loop, the
\* writing of its log row.
Standing(c) ==
  /\ stage[c] \in InThread => c \in threads
  /\ c \in threads => \/ stage[c] \in InThread
                      \/ stage[c] \in {"answered", "done"} /\ logging[c] # "none"
  /\ c \in session => stage[c] \in {"authenticating", "known", "handling", "handled",
                                    "resolving", "refreshing", "answered"}
  /\ logging[c] \in LogSteps => c \in threads /\ stage[c] \in {"submitting", "answered", "done"}
  /\ stage[c] = "submitting" => logging[c] # "none"
  /\ stage[c] \in {"authenticating", "known"} => kind[c] = "rest"
  /\ stage[c] \in {"resolving", "refreshing"} => kind[c] = "graph" /\ (c \in session \/ loop = c)
  /\ loop = c => c \notin session /\ stage[c] \in {"resolving", "refreshing"}

WithinPools ==
  /\ IsFiniteSet(threads) /\ Cardinality(threads) <= Threads
  /\ IsFiniteSet(session) /\ IsFiniteSet(Loggers)
  /\ Cardinality(session) + Cardinality(Loggers) <= Connections

WaitInv ==
  /\ kind \in [Present -> RequestKinds] /\ Present \subseteq Clients
  /\ stage \in [Clients -> Stages]
  /\ logging \in [Clients -> LogSteps \cup {"none", "done"}]
  /\ loop \in Present \cup {Free} /\ session \subseteq Present /\ threads \subseteq Present
  /\ \A c \in Clients \ Present : logging[c] = "none"
  /\ \A c \in Present : Standing(c)
  /\ WithinPools

LEMMA WaitsBegin == RequestsInit \/ RequestsNone => WaitInv
<1> SUFFICES ASSUME RequestsInit \/ RequestsNone PROVE WaitInv
  OBVIOUS
<1>1. kind \in [Present -> RequestKinds] /\ Present \subseteq Clients
  <2>1. CASE RequestsInit
    BY <2>1, MixesAssumption DEF RequestsInit, Present
  <2>2. CASE RequestsNone
    BY <2>2 DEF RequestsNone, Present, RequestKinds
  <2> QED BY <2>1, <2>2
<1>2. session = {} /\ threads = {} /\ loop = Free
  BY DEF RequestsInit, RequestsNone
<1>3. \/ stage = [c \in Clients |-> "new"] /\ logging = [c \in Clients |-> "none"]
      \/ /\ stage = [c \in Clients |-> "done"] /\ logging = [c \in Clients |-> "done"]
         /\ Present = Clients
  BY DEF RequestsInit, RequestsNone, Present
<1>4. Loggers = {}
  BY <1>3 DEF Loggers, LogSteps
<1>5. WithinPools
  BY <1>2, <1>4, FS_EmptySet, RequestsAssumption DEF WithinPools
<1>6. \A c \in Present : Standing(c)
  BY <1>1, <1>2, <1>3, MixesAssumption DEF Standing, InThread, LogSteps
<1> QED BY <1>1, <1>2, <1>3, <1>5, <1>6 DEF WaitInv, Stages

\* Threads are taken while there is one, and so are connections.
LEMMA PoolsHold ==
  ASSUME WithinPools, NEW c,
         \/ threads' \subseteq threads
         \/ ThreadFree /\ threads' = threads \cup {c},
         \/ session' \subseteq session /\ Loggers' \subseteq Loggers
         \/ ConnectionFree /\ session' = session \cup {c} /\ Loggers' = Loggers
         \/ ConnectionFree /\ session' = session /\ Loggers' = Loggers \cup {c}
  PROVE  WithinPools'
<1>1. /\ Cardinality(threads) \in Nat /\ Cardinality(session) \in Nat
      /\ Cardinality(Loggers) \in Nat /\ Threads \in Nat /\ Connections \in Nat
  BY FS_CardinalityType, RequestsAssumption DEF WithinPools
<1>2. \A S : IsFiniteSet(S) => /\ IsFiniteSet(S \cup {c})
                               /\ Cardinality(S \cup {c}) <= Cardinality(S) + 1
                               /\ Cardinality(S) \in Nat /\ Cardinality(S \cup {c}) \in Nat
  <2> TAKE S
  <2> HAVE IsFiniteSet(S)
  <2>1. IsFiniteSet(S \cup {c})
    BY FS_AddElement
  <2>2. Cardinality(S) \in Nat /\ Cardinality(S \cup {c}) \in Nat
    BY <2>1, FS_CardinalityType
  <2>3. CASE c \in S
    <3>1. S \cup {c} = S
      BY <2>3
    <3> QED BY <2>1, <2>2, <3>1
  <2>4. CASE c \notin S
    <3>1. Cardinality(S \cup {c}) = Cardinality(S) + 1
      BY <2>4, FS_AddElement
    <3> QED BY <2>1, <2>2, <3>1
  <2> QED BY <2>3, <2>4
<1>3. \A S, T : IsFiniteSet(S) /\ T \subseteq S =>
        IsFiniteSet(T) /\ Cardinality(T) <= Cardinality(S) /\ Cardinality(T) \in Nat
  BY FS_Subset, FS_CardinalityType
<1>4. IsFiniteSet(threads') /\ Cardinality(threads') <= Threads
  <2>1. CASE threads' \subseteq threads
    BY <1>1, <1>3, <2>1 DEF WithinPools
  <2>2. CASE ThreadFree /\ threads' = threads \cup {c}
    <3>1. Cardinality(threads) < Threads
      BY <2>2 DEF ThreadFree
    <3>2. /\ IsFiniteSet(threads') /\ Cardinality(threads') <= Cardinality(threads) + 1
          /\ Cardinality(threads') \in Nat
      BY <1>2, <2>2 DEF WithinPools
    <3> QED BY <1>1, <3>1, <3>2
  <2> QED BY <2>1, <2>2
<1>5. /\ IsFiniteSet(session') /\ IsFiniteSet(Loggers')
      /\ Cardinality(session') + Cardinality(Loggers') <= Connections
  <2>1. CASE session' \subseteq session /\ Loggers' \subseteq Loggers
    <3>1. /\ IsFiniteSet(session') /\ IsFiniteSet(Loggers')
          /\ Cardinality(session') <= Cardinality(session) /\ Cardinality(session') \in Nat
          /\ Cardinality(Loggers') <= Cardinality(Loggers) /\ Cardinality(Loggers') \in Nat
      BY <1>3, <2>1 DEF WithinPools
    <3> QED BY <1>1, <3>1 DEF WithinPools
  <2>2. CASE ConnectionFree /\ session' = session \cup {c} /\ Loggers' = Loggers
    <3>1. Cardinality(session) + Cardinality(Loggers) < Connections
      BY <2>2 DEF ConnectionFree
    <3>2. /\ IsFiniteSet(session') /\ Cardinality(session') <= Cardinality(session) + 1
          /\ Cardinality(session') \in Nat
      BY <1>2, <2>2 DEF WithinPools
    <3> QED BY <1>1, <2>2, <3>1, <3>2 DEF WithinPools
  <2>3. CASE ConnectionFree /\ session' = session /\ Loggers' = Loggers \cup {c}
    <3>1. Cardinality(session) + Cardinality(Loggers) < Connections
      BY <2>3 DEF ConnectionFree
    <3>2. /\ IsFiniteSet(Loggers') /\ Cardinality(Loggers') <= Cardinality(Loggers) + 1
          /\ Cardinality(Loggers') \in Nat
      BY <1>2, <2>3 DEF WithinPools
    <3> QED BY <1>1, <2>3, <3>1, <3>2 DEF WithinPools
  <2> QED BY <2>1, <2>2, <2>3
<1> QED BY <1>4, <1>5 DEF WithinPools

\* What a step of c may change.
Alone(c) ==
  /\ kind' = kind
  /\ \A d \in Clients \ {c} :
       /\ stage'[d] = stage[d] /\ logging'[d] = logging[d] /\ (loop' = d <=> loop = d)
       /\ (d \in session' <=> d \in session) /\ (d \in threads' <=> d \in threads)
  /\ stage' \in [Clients -> Stages]
  /\ logging' \in [Clients -> LogSteps \cup {"none", "done"}]
  /\ loop' \in Present \cup {Free} /\ session' \subseteq Present /\ threads' \subseteq Present

LEMMA StepOfOne ==
  ASSUME WaitInv, NEW c \in Present, Alone(c), Standing(c)', WithinPools'
  PROVE  WaitInv'
<1>1. Present' = Present
  BY DEF Alone, Present
<1>2. \A d \in Clients \ Present : logging'[d] = "none"
  BY DEF WaitInv, Alone
<1>3. ASSUME NEW d \in Present, d # c
      PROVE  Standing(d)'
  <2>1. /\ stage'[d] = stage[d] /\ logging'[d] = logging[d] /\ (loop' = d <=> loop = d)
        /\ (d \in session' <=> d \in session) /\ (d \in threads' <=> d \in threads)
        /\ kind' = kind /\ Standing(d)
    BY <1>3 DEF Alone, WaitInv
  <2> QED BY <2>1 DEF Standing
<1> QED BY <1>1, <1>2, <1>3 DEF WaitInv, Alone

\* Steps that leave the log row alone.
LEMMA LoopWaits ==
  ASSUME WaitInv, NEW c \in Present,
         StartGraph(c) \/ GraphCommits(c) \/ GraphAnswers(c) \/ Close(c) \/ Connect(c) \/ Commit(c)
  PROVE  WaitInv'
<1>1. /\ c \in Clients /\ kind[c] \in RequestKinds /\ Standing(c) /\ c # Free
      /\ stage[c] \in Stages /\ loop \in Present \cup {Free}
      /\ session \subseteq Present /\ threads \subseteq Present
  BY MixesAssumption DEF WaitInv
<1>2. kind' = kind /\ logging' = logging /\ threads' = threads
  BY DEF StartGraph, GraphCommits, GraphAnswers, Close, Connect, Commit, logVars
<1>3. Loggers' = Loggers
  BY <1>2 DEF Loggers
<1>4. CASE StartGraph(c)
  <2>1. /\ loop = Free /\ kind[c] = "graph" /\ stage[c] = "new" /\ loop' = c /\ session' = session
        /\ stage' = [stage EXCEPT ![c] = "resolving"]
    BY <1>4 DEF StartGraph, LoopFree, Moves
  <2>2. Alone(c)
    BY <1>1, <1>2, <2>1, MixesAssumption DEF Alone, WaitInv, Stages
  <2>3. stage'[c] = "resolving"
    BY <1>1, <2>1 DEF WaitInv
  <2>4. Standing(c)'
    BY <1>1, <1>2, <2>1, <2>3 DEF Standing, InThread
  <2>5. WithinPools'
    BY <1>2, <1>3, <2>1, PoolsHold DEF WaitInv
  <2> QED BY <2>2, <2>4, <2>5, StepOfOne
<1>5. CASE GraphCommits(c)
  <2>1. /\ loop = Free /\ kind[c] = "graph" /\ stage[c] = "resolving" /\ loop' = c
        /\ session' = session \ {c} /\ stage' = [stage EXCEPT ![c] = "refreshing"]
    BY <1>5 DEF GraphCommits, LoopFree, Moves
  <2>2. Alone(c)
    BY <1>1, <1>2, <2>1, MixesAssumption DEF Alone, WaitInv, Stages
  <2>3. stage'[c] = "refreshing"
    BY <1>1, <2>1 DEF WaitInv
  <2>4. Standing(c)'
    BY <1>1, <1>2, <2>1, <2>3 DEF Standing, InThread
  <2>5. WithinPools'
    BY <1>2, <1>3, <2>1, PoolsHold DEF WaitInv
  <2> QED BY <2>2, <2>4, <2>5, StepOfOne
<1>6. CASE GraphAnswers(c)
  <2>1. /\ loop = Free /\ kind[c] = "graph" /\ stage[c] \in {"resolving", "refreshing"}
        /\ loop' = loop /\ session' = session /\ stage' = [stage EXCEPT ![c] = "answered"]
    BY <1>6 DEF GraphAnswers, LoopFree, Moves
  <2>2. Alone(c)
    BY <1>1, <1>2, <2>1 DEF Alone, WaitInv, Stages
  <2>3. stage'[c] = "answered"
    BY <1>1, <2>1 DEF WaitInv
  <2>4. Standing(c)'
    BY <1>1, <1>2, <2>1, <2>3 DEF Standing, InThread
  <2>5. WithinPools'
    BY <1>2, <1>3, <2>1, PoolsHold DEF WaitInv
  <2> QED BY <2>2, <2>4, <2>5, StepOfOne
<1>7. CASE Close(c)
  <2>1. /\ stage[c] = "answered" /\ loop = Free /\ loop' = loop /\ session' = session \ {c}
        /\ stage' = [stage EXCEPT ![c] = "done"]
    BY <1>7 DEF Close, LoopFree, Moves
  <2>2. Alone(c)
    BY <1>1, <1>2, <2>1 DEF Alone, WaitInv, Stages
  <2>3. stage'[c] = "done"
    BY <1>1, <2>1 DEF WaitInv
  <2>4. Standing(c)'
    BY <1>1, <1>2, <2>1, <2>3 DEF Standing, InThread
  <2>5. WithinPools'
    BY <1>2, <1>3, <2>1, PoolsHold DEF WaitInv
  <2> QED BY <2>2, <2>4, <2>5, StepOfOne
<1>8. CASE Connect(c)
  <2>1. /\ c \notin session /\ ConnectionFree /\ session' = session \cup {c}
        /\ loop' = (IF loop = c THEN Free ELSE loop) /\ stage' = stage
        /\ \/ c \in threads /\ stage[c] \in {"authenticating", "handling", "handled"}
           \/ loop = c /\ kind[c] = "graph"
    BY <1>8 DEF Connect, WaitsForSession
  <2>2. Alone(c)
    BY <1>1, <1>2, <2>1, MixesAssumption DEF Alone, WaitInv, Stages
  <2>3. loop' # c
    BY <1>1, <2>1
  <2>4. Standing(c)'
    BY <1>1, <1>2, <2>1, <2>3 DEF Standing, InThread
  <2>5. WithinPools'
    BY <1>2, <1>3, <2>1, PoolsHold DEF WaitInv
  <2> QED BY <2>2, <2>4, <2>5, StepOfOne
<1>9. CASE Commit(c)
  <2>1. /\ c \in threads /\ stage[c] = "handling" /\ loop' = loop /\ session' = session \ {c}
        /\ stage' = [stage EXCEPT ![c] = "handled"]
    BY <1>9 DEF Commit, Moves
  <2>2. Alone(c)
    BY <1>1, <1>2, <2>1 DEF Alone, WaitInv, Stages
  <2>3. stage'[c] = "handled"
    BY <1>1, <2>1 DEF WaitInv
  <2>4. Standing(c)'
    BY <1>1, <1>2, <2>1, <2>3 DEF Standing, InThread, LogSteps
  <2>5. WithinPools'
    BY <1>2, <1>3, <2>1, PoolsHold DEF WaitInv
  <2> QED BY <2>2, <2>4, <2>5, StepOfOne
<1> QED BY <1>4, <1>5, <1>6, <1>7, <1>8, <1>9

\* Steps by which c gets a thread or gives it back.
LEMMA ThreadWaits ==
  ASSUME WaitInv, NEW c \in Present, GiveThread(c) \/ TakeThread(c) \/ StartLog(c) \/ EndLog(c)
  PROVE  WaitInv'
<1>1. /\ c \in Clients /\ kind[c] \in RequestKinds /\ Standing(c) /\ c # Free
      /\ stage[c] \in Stages /\ loop \in Present \cup {Free} /\ loop = Free
      /\ logging[c] \in LogSteps \cup {"none", "done"}
      /\ session \subseteq Present /\ threads \subseteq Present
  BY MixesAssumption DEF WaitInv, GiveThread, TakeThread, StartLog, EndLog, LoopFree
<1>2. kind' = kind /\ session' = session /\ loop' = loop
  BY DEF GiveThread, TakeThread, StartLog, EndLog, logVars
<1>3. CASE GiveThread(c)
  <2>1. /\ ThreadFree /\ threads' = threads \cup {c}
        /\ \/ kind[c] = "rest" /\ stage[c] = "new" /\ stage' = [stage EXCEPT ![c] = "authenticating"]
           \/ kind[c] = "rest" /\ stage[c] = "known" /\ stage' = [stage EXCEPT ![c] = "handling"]
           \/ kind[c] = "open" /\ stage[c] = "new" /\ stage' = [stage EXCEPT ![c] = "handling"]
           \/ /\ kind[c] = "clientLog" /\ stage[c] = "new"
              /\ stage' = [stage EXCEPT ![c] = "submitting"]
        /\ logging' = IF kind[c] = "clientLog" THEN [logging EXCEPT ![c] = "waiting"] ELSE logging
    BY <1>3 DEF GiveThread, Moves
  <2>2. Alone(c)
    BY <1>1, <1>2, <2>1 DEF Alone, WaitInv, Stages, LogSteps
  <2>3. /\ \/ kind[c] = "rest" /\ stage[c] = "new" /\ stage'[c] = "authenticating"
           \/ kind[c] \in {"rest", "open"} /\ stage[c] \in {"new", "known"} /\ stage'[c] = "handling"
           \/ kind[c] = "clientLog" /\ stage[c] = "new" /\ stage'[c] = "submitting"
        /\ logging'[c] = IF kind[c] = "clientLog" THEN "waiting" ELSE logging[c]
    BY <1>1, <2>1 DEF WaitInv
  <2>4. Standing(c)'
    BY <1>1, <1>2, <2>1, <2>3 DEF Standing, InThread, LogSteps
  <2>5. Loggers' \subseteq Loggers
    BY <1>1, <2>1, <2>3 DEF Loggers, LogSteps, WaitInv
  <2>6. WithinPools'
    BY <1>2, <2>1, <2>5, PoolsHold DEF WaitInv
  <2> QED BY <2>2, <2>4, <2>6, StepOfOne
<1>4. CASE TakeThread(c)
  <2>1. /\ c \in threads /\ threads' = threads \ {c}
        /\ \/ c \in session /\ stage[c] = "authenticating" /\ stage' = [stage EXCEPT ![c] = "known"]
           \/ /\ c \in session /\ stage[c] \in {"handling", "handled"}
              /\ stage' = [stage EXCEPT ![c] = "answered"]
           \/ /\ logging[c] = "done" /\ stage[c] = "submitting"
              /\ stage' = [stage EXCEPT ![c] = "answered"]
        /\ logging' = IF kind[c] = "clientLog" THEN [logging EXCEPT ![c] = "none"] ELSE logging
    BY <1>4 DEF TakeThread, Moves
  <2>2. Alone(c)
    BY <1>1, <1>2, <2>1 DEF Alone, WaitInv, Stages, LogSteps
  <2>3. /\ \/ c \in session /\ stage[c] = "authenticating" /\ stage'[c] = "known"
           \/ c \in session /\ stage[c] \in {"handling", "handled"} /\ stage'[c] = "answered"
           \/ logging[c] = "done" /\ stage[c] = "submitting" /\ stage'[c] = "answered"
        /\ logging'[c] = IF kind[c] = "clientLog" THEN "none" ELSE logging[c]
    BY <1>1, <2>1 DEF WaitInv
  <2>4. Standing(c)'
    BY <1>1, <1>2, <2>1, <2>3 DEF Standing, InThread, LogSteps
  <2>5. Loggers' \subseteq Loggers
    BY <1>1, <2>1, <2>3 DEF Loggers, LogSteps, WaitInv
  <2>6. WithinPools'
    BY <1>2, <2>1, <2>5, PoolsHold DEF WaitInv
  <2> QED BY <2>2, <2>4, <2>6, StepOfOne
<1>5. CASE StartLog(c)
  <2>1. /\ ThreadFree /\ threads' = threads \cup {c} /\ stage' = stage
        /\ stage[c] \in {"answered", "done"} /\ logging[c] = "none"
        /\ logging' = [logging EXCEPT ![c] = "waiting"]
    BY <1>5 DEF StartLog
  <2>2. Alone(c)
    BY <1>1, <1>2, <2>1 DEF Alone, WaitInv, LogSteps
  <2>3. logging'[c] = "waiting"
    BY <1>1, <2>1 DEF WaitInv
  <2>4. Standing(c)'
    BY <1>1, <1>2, <2>1, <2>3 DEF Standing, InThread, LogSteps
  <2>5. Loggers' \subseteq Loggers
    BY <1>1, <2>1, <2>3 DEF Loggers, LogSteps, WaitInv
  <2>6. WithinPools'
    BY <1>2, <2>1, <2>5, PoolsHold DEF WaitInv
  <2> QED BY <2>2, <2>4, <2>6, StepOfOne
<1>6. CASE EndLog(c)
  <2>1. /\ c \in threads /\ threads' = threads \ {c} /\ stage' = stage /\ logging' = logging
        /\ stage[c] \in {"answered", "done"} /\ logging[c] = "done"
    BY <1>6 DEF EndLog, logVars
  <2>2. Alone(c)
    BY <1>1, <1>2, <2>1 DEF Alone, WaitInv
  <2>3. Standing(c)'
    BY <1>1, <1>2, <2>1 DEF Standing, InThread, LogSteps
  <2>4. Loggers' = Loggers
    BY <2>1 DEF Loggers
  <2>5. WithinPools'
    BY <1>2, <2>1, <2>4, PoolsHold DEF WaitInv
  <2> QED BY <2>2, <2>3, <2>5, StepOfOne
<1> QED BY <1>3, <1>4, <1>5, <1>6

\* The statements of the log row, and the timeouts.
LEMMA WriterWaits ==
  ASSUME WaitInv, NEW c \in Present,
         InsertRow(c) \/ CountRows(c) \/ ListSurplus(c) \/ DeleteSurplus(c) \/ LogFails(c)
  PROVE  WaitInv'
<1>1. /\ c \in Clients /\ kind[c] \in RequestKinds /\ Standing(c) /\ c # Free
      /\ stage[c] \in Stages /\ loop \in Present \cup {Free}
      /\ logging[c] \in LogSteps \cup {"none", "done"}
      /\ session \subseteq Present /\ threads \subseteq Present
  BY MixesAssumption DEF WaitInv
<1>2. kind' = kind /\ session' = session /\ threads' = threads /\ stage' = stage
  BY DEF InsertRow, CountRows, ListSurplus, DeleteSurplus, LogFails, requestVars, LogDone
<1>3. logging[c] \in LogSteps
  BY DEF InsertRow, CountRows, ListSurplus, DeleteSurplus, LogFails, LogMoves, LogSteps
<1>4. c \in threads /\ stage[c] \in {"submitting", "answered", "done"} /\ loop # c
  BY <1>1, <1>3 DEF Standing
<1>5. loop' = loop
  BY <1>4 DEF InsertRow, CountRows, ListSurplus, DeleteSurplus, LogFails, requestVars, LogDone
<1>6. PICK x \in {"inserted", "counted", "listed", "done"} : logging' = [logging EXCEPT ![c] = x]
  BY DEF InsertRow, CountRows, ListSurplus, DeleteSurplus, LogFails, LogDone, LogMoves
<1>7. logging'[c] = x /\ x \in LogSteps \cup {"done"}
  BY <1>1, <1>6 DEF WaitInv, LogSteps
<1>8. Alone(c)
  BY <1>1, <1>2, <1>5, <1>6, <1>7 DEF Alone, WaitInv
<1>9. Standing(c)'
  BY <1>1, <1>2, <1>4, <1>5, <1>7 DEF Standing, InThread, LogSteps
<1>10. CASE InsertRow(c)
  <2>1. ConnectionFree /\ logging' = [logging EXCEPT ![c] = "inserted"]
    BY <1>10 DEF InsertRow, LogMoves
  <2>2. Loggers' = Loggers \cup {c}
    BY <1>1, <2>1 DEF Loggers, LogSteps, WaitInv
  <2>3. WithinPools'
    BY <1>2, <2>1, <2>2, PoolsHold DEF WaitInv
  <2> QED BY <1>8, <1>9, <2>3, StepOfOne
<1>11. CASE CountRows(c) \/ ListSurplus(c) \/ DeleteSurplus(c) \/ LogFails(c)
  <2>1. logging[c] \in LogSteps \ {"waiting"}
    BY <1>11 DEF CountRows, ListSurplus, DeleteSurplus, LogFails, LogMoves, LogSteps
  <2>2. Loggers' \subseteq Loggers
    BY <1>1, <1>6, <2>1 DEF Loggers, WaitInv
  <2>3. WithinPools'
    BY <1>2, <2>2, PoolsHold DEF WaitInv
  <2> QED BY <1>8, <1>9, <2>3, StepOfOne
<1> QED BY <1>10, <1>11

LEMMA TimeoutWaits ==
  ASSUME WaitInv, NEW c \in Present, PoolTimeout(c)
  PROVE  WaitInv'
<1>1. /\ c \in Clients /\ kind[c] \in RequestKinds /\ Standing(c) /\ c # Free
      /\ stage[c] \in Stages /\ loop \in Present \cup {Free}
      /\ logging[c] \in LogSteps \cup {"none", "done"}
      /\ session \subseteq Present /\ threads \subseteq Present
  BY MixesAssumption DEF WaitInv
<1>2. /\ kind' = kind /\ session' = session
      /\ threads' = (IF WaitsForSession(c) THEN threads \ {c} ELSE threads)
      /\ loop' = IF loop = c THEN Free ELSE loop
  BY DEF PoolTimeout
<1>3. loop' # c /\ (\A d \in Clients \ {c} : loop' = d <=> loop = d)
      /\ loop' \in Present \cup {Free}
  BY <1>1, <1>2, MixesAssumption
<1>4. CASE WaitsForSession(c) /\ stage' = [stage EXCEPT ![c] = "answered"] /\ logging' = logging
  <2>1. stage'[c] = "answered" /\ threads' = threads \ {c}
    BY <1>1, <1>2, <1>4 DEF WaitInv
  <2>2. logging[c] \notin LogSteps
    BY <1>1, <1>4 DEF WaitsForSession, Standing
  <2>3. Alone(c)
    BY <1>1, <1>2, <1>3, <1>4, <2>1 DEF Alone, WaitInv, Stages
  <2>4. Standing(c)'
    BY <1>1, <1>2, <1>3, <1>4, <2>1, <2>2 DEF Standing, InThread
  <2>5. Loggers' = Loggers
    BY <1>4 DEF Loggers
  <2>6. WithinPools'
    BY <1>2, <2>1, <2>5, PoolsHold DEF WaitInv
  <2> QED BY <2>3, <2>4, <2>6, StepOfOne
<1>5. CASE WaitsForLog(c) /\ logging' = [logging EXCEPT ![c] = "done"] /\ stage' = stage
  <2>1. /\ logging[c] = "waiting" /\ logging'[c] = "done"
        /\ c \in threads /\ stage[c] \in {"submitting", "answered", "done"}
    BY <1>1, <1>5 DEF WaitsForLog, Standing, LogSteps, WaitInv
  <2>2. threads' = threads
    BY <1>1, <1>2, <2>1 DEF WaitsForSession, Standing
  <2>3. Alone(c)
    BY <1>1, <1>2, <1>3, <1>5, <2>2 DEF Alone, WaitInv
  <2>4. Standing(c)'
    BY <1>1, <1>2, <1>3, <1>5, <2>1, <2>2 DEF Standing, InThread, LogSteps
  <2>5. Loggers' \subseteq Loggers
    BY <1>1, <1>5, <2>1 DEF Loggers, LogSteps, WaitInv
  <2>6. WithinPools'
    BY <1>2, <2>2, <2>5, PoolsHold DEF WaitInv
  <2> QED BY <2>3, <2>4, <2>6, StepOfOne
<1> QED BY <1>4, <1>5 DEF PoolTimeout

LEMMA WaitStep == WaitInv /\ [RequestsNext]_serving => WaitInv'
<1> SUFFICES ASSUME WaitInv, [RequestsNext]_serving PROVE WaitInv'
  OBVIOUS
<1>1. CASE RequestsNext
  BY <1>1, LoopWaits, ThreadWaits, WriterWaits, TimeoutWaits DEF RequestsNext, LoopSteps, Statements
<1>2. CASE UNCHANGED serving
  BY <1>2 DEF serving, requestVars, logVars, WaitInv, Standing, WithinPools, Loggers, Present
<1> QED BY <1>1, <1>2


\* What can move is what has a step.
LEMMA StepsAreGuarded ==
  ASSUME WaitInv, NEW c \in Present, LoopSteps(c) \/ Statements(c)
  PROVE  CanMove(c)
<1>1. kind[c] \in RequestKinds
  BY DEF WaitInv
<1>2. CASE LoopSteps(c)
  BY <1>1, <1>2 DEF LoopSteps, GiveThread, TakeThread, StartGraph, GraphCommits, GraphAnswers,
    Close, StartLog, EndLog, Moves, CanMove
<1>3. CASE Statements(c)
  BY <1>3 DEF Statements, Connect, Commit, InsertRow, CountRows, ListSurplus, DeleteSurplus,
    LogFails, Moves, LogMoves, CanMove
<1> QED BY <1>2, <1>3

LEMMA KnotsNamed == WaitInv => StuckIsNamed
<1> SUFFICES ASSUME WaitInv, Stuck
             PROVE  \/ loop \in Clients /\ kind[loop] = "graph" /\ WaitsForSession(loop)
                    \/ /\ \A c \in threads : WaitsForSession(c) \/ WaitsForLog(c)
                       /\ Cardinality(threads) = Threads
                       /\ \A c \in session : stage[c] = "known"
                       /\ Cardinality(session) = Connections
  BY DEF StuckIsNamed
<1>1. \A c \in Present : /\ c \in Clients /\ Standing(c) /\ ~CanMove(c)
                         /\ kind[c] \in RequestKinds /\ stage[c] \in Stages
                         /\ logging[c] \in LogSteps \cup {"none", "done"}
  BY DEF WaitInv, Stuck
<1>2. session \subseteq Present /\ threads \subseteq Present /\ loop \in Present \cup {Free}
  BY DEF WaitInv
<1>3. CASE loop # Free
  <2>1. loop \in Present /\ loop \notin session /\ stage[loop] \in {"resolving", "refreshing"}
    BY <1>1, <1>2, <1>3 DEF Standing
  <2>2. kind[loop] = "graph" /\ loop \in Clients
    BY <1>1, <2>1 DEF Standing
  <2> QED BY <2>1, <2>2 DEF WaitsForSession
<1>4. CASE loop = Free
  <2>1. LoopFree /\ \A c \in Present : loop # c
    BY <1>1, <1>4, MixesAssumption DEF LoopFree
  <2>2. \A c \in Present : logging[c] \in {"none", "waiting", "done"}
    BY <1>1 DEF CanMove, LogSteps
  <2>3. Loggers = {}
    BY <2>2 DEF Loggers, LogSteps, WaitInv
  <2>4. ASSUME NEW c \in threads
        PROVE  WaitsForSession(c) \/ WaitsForLog(c)
    <3>1. c \in Present /\ Standing(c) /\ ~CanMove(c) /\ logging[c] \in {"none", "waiting", "done"}
      BY <1>1, <1>2, <2>2
    <3>2. CASE stage[c] \in {"authenticating", "handling", "handled"}
      BY <2>1, <3>1, <3>2 DEF CanMove, WaitsForSession
    <3>3. CASE stage[c] \in {"submitting", "answered", "done"} /\ logging[c] # "none"
      BY <2>1, <3>1, <3>3 DEF CanMove, WaitsForLog
    <3>4. stage[c] = "submitting" => logging[c] # "none"
      BY <3>1 DEF Standing
    <3>5. \/ stage[c] \in {"authenticating", "handling", "handled", "submitting"}
          \/ stage[c] \in {"answered", "done"} /\ logging[c] # "none"
      BY <3>1 DEF Standing, InThread
    <3> QED BY <3>2, <3>3, <3>4, <3>5
  <2>5. ASSUME NEW c \in session
        PROVE  stage[c] = "known" /\ kind[c] = "rest"
    <3>1. c \in Present /\ Standing(c) /\ ~CanMove(c)
      BY <1>1, <1>2
    <3> QED BY <2>1, <3>1 DEF CanMove, Standing, InThread
  <2>6. threads # {}
    <3> SUFFICES ASSUME threads = {} PROVE FALSE
      OBVIOUS
    <3>1. ThreadFree
      <4>1. Cardinality(threads) = 0
        BY FS_EmptySet
      <4> QED BY <4>1, RequestsAssumption DEF ThreadFree
    <3>2. PICK c \in Present : ~Served(c)
      BY DEF Stuck
    <3>3. /\ Standing(c) /\ ~CanMove(c) /\ kind[c] \in RequestKinds /\ stage[c] \in Stages
          /\ c \notin threads
      BY <1>1
    <3>4. logging[c] \in {"none", "done"}
      BY <1>1, <3>3 DEF Standing
    <3>5. stage[c] \notin InThread /\ stage[c] # "answered"
      BY <2>1, <3>3 DEF Standing, CanMove
    <3>6. stage[c] \notin {"resolving", "refreshing"}
      BY <2>1, <3>3 DEF Standing, CanMove
    <3>7. stage[c] \notin {"new", "known"}
      BY <2>1, <3>1, <3>3 DEF Standing, CanMove, RequestKinds
    <3>8. stage[c] = "done"
      BY <3>3, <3>5, <3>6, <3>7 DEF Stages, InThread
    <3> QED BY <2>1, <3>1, <3>2, <3>3, <3>4, <3>8 DEF Served, CanMove
  <2>7. Cardinality(session) = Connections
    <3>1. PICK c \in threads : TRUE
      BY <2>6
    <3>2. ~ConnectionFree
      BY <1>1, <1>2, <2>4, <3>1 DEF CanMove
    <3>3. /\ Cardinality(session) \in Nat /\ Cardinality(Loggers) = 0 /\ Connections \in Nat
          /\ Cardinality(session) + Cardinality(Loggers) <= Connections
      BY <2>3, FS_EmptySet, FS_CardinalityType, RequestsAssumption DEF WaitInv, WithinPools
    <3>4. ~ (Cardinality(session) + Cardinality(Loggers) < Connections)
      BY <3>2 DEF ConnectionFree
    <3> QED BY <3>3, <3>4
  <2>8. Cardinality(threads) = Threads
    <3>1. session # {}
      BY <2>7, FS_EmptySet, RequestsAssumption
    <3>2. PICK c \in session : stage[c] = "known" /\ kind[c] = "rest"
      BY <2>5, <3>1
    <3>3. ~ThreadFree
      BY <1>1, <1>2, <2>1, <3>2 DEF CanMove
    <3>4. Cardinality(threads) \in Nat /\ Threads \in Nat /\ Cardinality(threads) <= Threads
      BY FS_CardinalityType, RequestsAssumption DEF WaitInv, WithinPools
    <3> QED BY <3>3, <3>4 DEF ThreadFree
  <2> QED BY <2>4, <2>5, <2>7, <2>8
<1> QED BY <1>3, <1>4

(* The process *)

LEMMA ProcessStarts == Init => LogInv /\ StatsInv /\ RoomInv
<1> SUFFICES ASSUME Init PROVE LogInv /\ StatsInv /\ RoomInv
  OBVIOUS
<1>1. LogInv
  BY LogBegins DEF Init
<1>2. StatsInv
  BY StatsBegin DEF Init
<1>3. RoomInv
  <2>1. {} \in SUBSET (Sockets \cup Updates)
    OBVIOUS
  <2>2. RoomsNone => RoomInv
    BY <2>1, RoomsBegin DEF RoomsNone
  <2>3. RoomsInit => RoomInv
    BY GatheringsAssumption, RoomsBegin DEF RoomsInit
  <2> QED BY <2>2, <2>3 DEF Init
<1> QED BY <1>1, <1>2, <1>3

LEMMA ProcessSteps ==
  LogInv /\ StatsInv /\ RoomInv /\ [Next]_vars => LogInv' /\ StatsInv' /\ RoomInv'
<1> SUFFICES ASSUME LogInv, StatsInv, RoomInv, [Next]_vars PROVE LogInv' /\ StatsInv' /\ RoomInv'
  OBVIOUS
<1>1. [RequestsNext]_serving /\ [StatsNext]_statsVars /\ [RoomsNext]_roomVars
  BY DEF Next, Serve, vars
<1> QED BY <1>1, LogStep, StatsStep, RoomStep

\* When no row is being written and no writer failed, the Log Center has at most
\* LOG_RETENTION_MAX_ROWS rows, however many requests write at a time; and a row is
\* missing only when as many newer ones came, unless two trims overlapped
\* (_record_log).
THEOREM LogKeepsNewest == Spec => []LogIsNewest
<1> QED BY ProcessStarts, ProcessSteps, LimitKept, PTL DEF Spec

\* When nothing can move until a wait for a connection times out, it is one of two
\* knots: a GraphQL statement waits on the event loop, or every thread waits for a
\* connection and every connection is kept by a request that waits for a thread; the
\* log row is never what the others wait for (log_requests, get_context, get_db).
THEOREM KnotsAreNamed == Spec => []StuckIsNamed
<1>1. Init => WaitInv
  BY WaitsBegin DEF Init
<1>2. WaitInv /\ [Next]_vars => WaitInv'
  BY WaitStep DEF Next, Serve, vars
<1> QED BY <1>1, <1>2, KnotsNamed, PTL DEF Spec

\* An answer of ci_pipeline_stats is older than the cache's lifetime and two
\* requests only if the cache was refreshed between the answering request's own
\* two reads, however the readers' refreshes overlap.
THEOREM AnswersYoung == Spec => []AnswersAreRecent
<1> QED BY ProcessStarts, ProcessSteps, YoungEnough, PTL DEF Spec

\* A socket that is in a run's room all the time of a broadcast, and whose connection
\* holds, is sent it, whichever others are lost, come or leave (broadcast).
THEOREM NobodyMissed == Spec => []StayersHear
<1>1. RoomInv => StayersHear
  BY DEF RoomInv
<1> QED BY <1>1, ProcessStarts, ProcessSteps, PTL DEF Spec

\* A subscription's queue is the updates that began since it was on, each once and in
\* their order (listen, run_updates).
THEOREM EventsInOrder == Spec => []SubscribersHearAll
<1>1. RoomInv => SubscribersHearAll
  BY DEF RoomInv
<1> QED BY <1>1, ProcessStarts, ProcessSteps, PTL DEF Spec

(* The triage of a run *)

CallRecords == [use : Uses, isError : BOOLEAN]

\* What the request's progress says of the loop's results.
LoopPhases ==
  /\ at = "asked" => trace = <<>>
  /\ at = "tools" => todo # <<>>
  /\ prior # NoEvidence => at = "judging" /\ prior.case \in Cases
  /\ \A c \in Cases :
       judged[c].heuristic # None => at \in {"judging", "200"} /\ judged[c].agent = sink[c]

\* The sink has the first legible verdict of each case.
SinkHasFirst ==
  \A c \in Cases :
    IF sink[c] = None THEN Legible(c) = {}
    ELSE \E i \in Legible(c) : /\ trace[i].use.verdict = sink[c]
                               /\ \A j \in Legible(c) : i <= j

\* The only call for a case that was not refused is the first legible one.
AcceptedAreFirst ==
  \A c \in Cases \cup Strangers : \A i \in CallsFor(c) \ Refused :
    i \in Legible(c) /\ \A j \in Legible(c) : i <= j

VerdictsInv == TriageTypeOK /\ LoopPhases /\ SinkHasFirst /\ AcceptedAreFirst

LEMMA HeuristicIsVerdict ==
  ASSUME NEW s, NEW h, NEW o
  PROVE  HeuristicVerdict(s, h, o) \in Verdicts
<1>1. HeuristicVerdict(s, h, o) \in {"environment", "flaky", "product_bug", "unknown"}
  BY DEF HeuristicVerdict
<1> QED BY <1>1 DEF Verdicts

LEMMA UsesAre ==
  ASSUME NEW u \in Uses
  PROVE  u.case \in Cases \cup Strangers
<1>1. u \in [tool : STRING, case : Cases \cup Strangers, verdict : STRING]
  BY TriageAssumption
<1> QED BY <1>1

LEMMA RepliesAre ==
  ASSUME NEW forced \in BOOLEAN, NEW reply \in Replies(forced)
  PROVE  reply.uses \in Seq(Uses)
<1>1. Turns \cup {<<>>} \subseteq Seq(Uses)
  <2>1. ASSUME NEW n \in 1..MaxUses, NEW t \in [1..n -> Uses] PROVE t \in Seq(Uses)
    <3>1. n \in Nat
      BY TriageAssumption
    <3> QED BY <3>1, <2>1
  <2>2. <<>> \in Seq(Uses)
    OBVIOUS
  <2> QED BY <2>1, <2>2 DEF Turns
<1>2. reply.uses \in Turns \cup {<<>>}
  BY DEF Replies, OllamaReplies, AnthropicReplies
<1> QED BY <1>1, <1>2

LEMMA TraceIs ==
  ASSUME TriageTypeOK
  PROVE  /\ Len(trace) \in Nat /\ DOMAIN trace = 1..Len(trace)
         /\ \A i \in DOMAIN trace : trace[i] \in CallRecords /\ i \in Nat
<1>1. trace \in Seq(CallRecords)
  BY DEF TriageTypeOK, CallRecords
<1> QED BY <1>1

\* What a call adds.
LEMMA Appended ==
  ASSUME TriageTypeOK, NEW rec \in CallRecords, trace' = Append(trace, rec), failing' = failing
  PROVE  LET n == Len(trace) + 1
             verdict == rec.use.tool = "record_verdict"
             legible == verdict /\ rec.use.case \in failing /\ rec.use.verdict \in Verdicts
         IN  /\ n \in Nat /\ n \notin DOMAIN trace /\ trace'[n] = rec
             /\ \A i \in DOMAIN trace : trace'[i] = trace[i] /\ i < n
             /\ \A c, i : i \in CallsFor(c)' <=> i \in CallsFor(c) \/ (verdict /\ rec.use.case = c /\ i = n)
             /\ \A c, i : i \in Legible(c)' <=> i \in Legible(c) \/ (legible /\ rec.use.case = c /\ i = n)
             /\ \A i : i \in Refused' <=> i \in Refused \/ (verdict /\ rec.isError /\ i = n)
<1> DEFINE n == Len(trace) + 1
           verdict == rec.use.tool = "record_verdict"
           legible == verdict /\ rec.use.case \in failing /\ rec.use.verdict \in Verdicts
<1>1. /\ n \in Nat /\ DOMAIN trace = 1..Len(trace) /\ n \notin DOMAIN trace
      /\ DOMAIN trace' = DOMAIN trace \cup {n} /\ trace'[n] = rec
      /\ \A i \in DOMAIN trace : trace'[i] = trace[i] /\ i < n
  <2>1. trace \in Seq(CallRecords) /\ Len(trace) \in Nat
    BY DEF TriageTypeOK, CallRecords
  <2> QED BY <2>1
<1> HIDE DEF n
<1>2. \A c, i : i \in CallsFor(c)' <=> i \in CallsFor(c) \/ (verdict /\ rec.use.case = c /\ i = n)
  BY <1>1 DEF CallsFor, Calls
<1>3. \A c, i : i \in Legible(c)' <=> i \in Legible(c) \/ (legible /\ rec.use.case = c /\ i = n)
  BY <1>1, <1>2 DEF Legible, CallsFor, Calls
<1>4. \A i : i \in Refused' <=> i \in Refused \/ (verdict /\ rec.isError /\ i = n)
  BY <1>1 DEF Refused, Calls
<1> QED BY <1>1, <1>2, <1>3, <1>4 DEF n

\* The loop's results are as they were.
LEMMA LoopStays ==
  ASSUME VerdictsInv, UNCHANGED <<failing, trace, sink>>
  PROVE  SinkHasFirst' /\ AcceptedAreFirst'
<1>1. \A c : Legible(c)' = Legible(c)
  BY DEF Legible, CallsFor, Calls
<1>2. Refused' = Refused /\ \A c : CallsFor(c)' = CallsFor(c)
  BY DEF Refused, CallsFor, Calls
<1> QED BY <1>1, <1>2 DEF VerdictsInv, SinkHasFirst, AcceptedAreFirst

LEMMA DispatchKeeps ==
  ASSUME VerdictsInv, Dispatch
  PROVE  VerdictsInv'
<1> DEFINE use == Head(todo)
<1>1. PICK raised \in MayRaise(use) :
        /\ trace' = Append(trace, [use |-> use, isError |-> raised \/ ToolFails(use)])
        /\ sink' = IF Records(use) THEN [sink EXCEPT ![use.case] = use.verdict] ELSE sink
  BY DEF Dispatch
<1>2. /\ at = "tools" /\ todo' = Tail(todo) /\ at' = IF Tail(todo) = <<>> THEN "model" ELSE "tools"
      /\ UNCHANGED <<failing, prior, judged>>
  BY DEF Dispatch
<1>3. /\ TriageTypeOK /\ todo # <<>> /\ todo \in Seq(Uses) /\ use \in Uses
      /\ Tail(todo) \in Seq(Uses)
  BY <1>2 DEF VerdictsInv, LoopPhases, TriageTypeOK
<1> HIDE DEF use
<1>4. PICK rec \in CallRecords : rec.use = use /\ rec.isError = (raised \/ ToolFails(use)) /\ trace' = Append(trace, rec)
  <2>1. (raised \/ ToolFails(use)) \in BOOLEAN
    OBVIOUS
  <2> QED BY <1>1, <1>3, <2>1 DEF CallRecords
<1> DEFINE n == Len(trace) + 1
           verdict == use.tool = "record_verdict"
           legible == verdict /\ use.case \in failing /\ use.verdict \in Verdicts
<1>5. /\ n \in Nat /\ n \notin DOMAIN trace /\ trace'[n] = rec
      /\ \A i \in DOMAIN trace : trace'[i] = trace[i] /\ i < n
      /\ \A c, i : i \in CallsFor(c)' <=> i \in CallsFor(c) \/ (verdict /\ use.case = c /\ i = n)
      /\ \A c, i : i \in Legible(c)' <=> i \in Legible(c) \/ (legible /\ use.case = c /\ i = n)
      /\ \A i : i \in Refused' <=> i \in Refused \/ (verdict /\ rec.isError /\ i = n)
  BY <1>2, <1>3, <1>4, Appended
<1>6. /\ \A c : CallsFor(c) \subseteq DOMAIN trace
      /\ \A c : Legible(c) \subseteq DOMAIN trace
      /\ \A i \in DOMAIN trace : i \in Nat
  BY <1>3, TraceIs DEF Calls, CallsFor, Legible
<1>7. /\ Records(use) => legible /\ sink[use.case] = None /\ use.case \in Cases
      /\ legible /\ sink[use.case] = None => Records(use)
      /\ verdict => (rec.isError <=> ~Records(use))
  <2>1. failing \subseteq Cases
    BY <1>3 DEF TriageTypeOK
  <2>2. verdict => raised = FALSE /\ use.tool \in Tools /\ use.tool # "get_test_case_history"
    BY DEF MayRaise, Tools
  <2> QED BY <1>4, <2>1, <2>2 DEF Records, VerdictRefused, ToolFails
<1> HIDE DEF n, verdict, legible
<1>8. TriageTypeOK'
  <2>1. trace' \in Seq(CallRecords)
    BY <1>3, <1>4 DEF TriageTypeOK, CallRecords
  <2>2. sink' \in [Cases -> Uttered]
    <3>1. Records(use) => use.verdict \in Uttered
      BY <1>7 DEF legible, Uttered
    <3> QED BY <1>1, <1>3, <3>1 DEF TriageTypeOK
  <2> QED BY <1>2, <1>3, <2>1, <2>2 DEF TriageTypeOK, CallRecords
<1>9. LoopPhases'
  <2>1. at \notin {"judging", "200", "asked"} /\ at' \notin {"judging", "200", "asked"}
    BY <1>2
  <2>2. at' = "tools" => todo' # <<>>
    BY <1>2
  <2>3. prior = NoEvidence /\ \A c \in Cases : judged[c].heuristic = None
    BY <2>1 DEF VerdictsInv, LoopPhases
  <2>4. prior' = NoEvidence /\ \A c \in Cases : judged'[c].heuristic = None
    BY <1>2, <2>3 DEF NoEvidence
  <2> QED BY <2>1, <2>2, <2>4 DEF LoopPhases
<1>10. SinkHasFirst'
  <2>1. ASSUME NEW c \in Cases
        PROVE  IF sink'[c] = None THEN \A i : i \notin Legible(c)'
               ELSE \E i \in Legible(c)' : /\ trace'[i].use.verdict = sink'[c]
                                           /\ \A j \in Legible(c)' : i <= j
    <3>1. IF sink[c] = None THEN Legible(c) = {}
          ELSE \E i \in Legible(c) : /\ trace[i].use.verdict = sink[c]
                                     /\ \A j \in Legible(c) : i <= j
      BY DEF VerdictsInv, SinkHasFirst
    <3>2. CASE Records(use) /\ c = use.case
      <4>1. sink'[c] = use.verdict /\ sink[c] = None /\ legible
        BY <1>1, <1>3, <1>7, <3>2 DEF TriageTypeOK
      <4>2. use.verdict # None
        BY <4>1 DEF legible, Verdicts, None
      <4>3. \A i : i \in Legible(c)' <=> i = n
        BY <1>5, <3>1, <3>2, <4>1
      <4>4. n <= n /\ trace'[n].use.verdict = sink'[c]
        BY <1>4, <1>5, <4>1
      <4> QED BY <4>1, <4>2, <4>3, <4>4
    <3>3. CASE ~(Records(use) /\ c = use.case)
      <4>1. sink'[c] = sink[c]
        BY <1>1, <1>3, <3>3 DEF TriageTypeOK
      <4>2. CASE sink[c] = None
        <5>1. ~(legible /\ use.case = c)
          BY <1>7, <3>3, <4>2
        <5> QED BY <1>5, <3>1, <4>1, <4>2, <5>1
      <4>3. CASE sink[c] # None
        <5>1. PICK i \in Legible(c) : /\ trace[i].use.verdict = sink[c]
                                      /\ \A j \in Legible(c) : i <= j
          BY <3>1, <4>3
        <5>2. i \in Legible(c)' /\ trace'[i] = trace[i] /\ i <= n
          BY <1>5, <1>6, <5>1
        <5>3. \A j \in Legible(c)' : i <= j
          BY <1>5, <5>1, <5>2
        <5> QED BY <4>1, <4>3, <5>1, <5>2, <5>3
      <4> QED BY <4>2, <4>3
    <3> QED BY <3>2, <3>3
  <2>2. \A c \in Cases : (\A i : i \notin Legible(c)') => Legible(c)' = {}
    OBVIOUS
  <2> QED BY <2>1, <2>2 DEF SinkHasFirst
<1>11. AcceptedAreFirst'
  <2>1. ASSUME NEW c \in Cases \cup Strangers, NEW i, i \in CallsFor(c)', i \notin Refused'
        PROVE  i \in Legible(c)' /\ \A j \in Legible(c)' : i <= j
    <3>1. CASE i \in CallsFor(c)
      <4>1. i \in Legible(c) /\ \A j \in Legible(c) : i <= j
        BY <1>5, <2>1, <3>1 DEF VerdictsInv, AcceptedAreFirst
      <4>2. i < n /\ i \in Nat
        BY <1>5, <1>6, <3>1
      <4>3. i <= n
        BY <1>5, <4>2
      <4> QED BY <1>5, <4>1, <4>3
    <3>2. CASE verdict /\ use.case = c /\ i = n
      <4>1. Records(use)
        BY <1>5, <1>7, <2>1, <3>2
      <4>2. legible /\ sink[c] = None /\ c \in Cases
        BY <1>7, <3>2, <4>1
      <4>3. Legible(c) = {}
        BY <4>2 DEF VerdictsInv, SinkHasFirst
      <4>4. \A j : j \in Legible(c)' <=> j = n
        BY <1>5, <3>2, <4>2, <4>3
      <4> QED BY <1>5, <3>2, <4>4
    <3> QED BY <1>5, <2>1, <3>1, <3>2
  <2> QED BY <2>1 DEF AcceptedAreFirst
<1> QED BY <1>8, <1>9, <1>10, <1>11 DEF VerdictsInv

LEMMA TriageStarts == TriageInit => VerdictsInv
<1> SUFFICES ASSUME TriageInit PROVE VerdictsInv
  OBVIOUS
<1>1. /\ failing = {} /\ trace = <<>> /\ todo = <<>> /\ at = "asked" /\ prior = NoEvidence
      /\ sink = [c \in Cases |-> None] /\ judged = [c \in Cases |-> NoVerdict]
  BY DEF TriageInit
<1>2. TriageTypeOK
  <2>1. NoVerdict \in [agent : Uttered, heuristic : Uttered, review : BOOLEAN]
    BY DEF NoVerdict, Uttered
  <2>2. sink \in [Cases -> Uttered] /\ judged \in [Cases -> [agent : Uttered, heuristic : Uttered, review : BOOLEAN]]
    BY <1>1, <2>1 DEF Uttered
  <2>3. todo \in Seq(Uses) /\ trace \in Seq([use : Uses, isError : BOOLEAN])
    BY <1>1
  <2> QED BY <1>1, <2>2, <2>3 DEF TriageTypeOK
<1>3. \A c : CallsFor(c) = {} /\ Legible(c) = {}
  BY <1>1 DEF CallsFor, Calls, Legible
<1>4. SinkHasFirst /\ AcceptedAreFirst
  BY <1>1, <1>3 DEF SinkHasFirst, AcceptedAreFirst
<1>5. LoopPhases
  BY <1>1 DEF LoopPhases, NoVerdict
<1> QED BY <1>2, <1>4, <1>5 DEF VerdictsInv

LEMMA TriageOthers ==
  ASSUME VerdictsInv,
         \/ Collect \/ CallModel \/ ModelFails \/ SingleShot \/ Recall \/ Judge \/ Respond
         \/ RecordResult \/ HealthMoves
  PROVE  VerdictsInv'
<1>0. TriageTypeOK /\ LoopPhases /\ SinkHasFirst /\ AcceptedAreFirst
  BY DEF VerdictsInv
\* Before the judgement nothing is judged.
<1>a. at \notin {"judging", "200"} => prior = NoEvidence /\ \A c \in Cases : judged[c].heuristic = None
  BY <1>0 DEF LoopPhases
<1>b. ASSUME UNCHANGED <<trace, sink, prior, judged>>, at \notin {"judging", "200"},
             at' # "asked", at' = "tools" => todo' # <<>>
      PROVE  LoopPhases'
  <2>1. prior' = NoEvidence /\ \A c \in Cases : judged'[c].heuristic = None
    BY <1>a, <1>b
  <2> QED BY <1>b, <2>1 DEF LoopPhases, NoEvidence
<1>1. CASE Collect
  <2>1. at = "asked" /\ UNCHANGED <<todo, trace, sink, prior, judged>> /\ trace = <<>>
    BY <1>0, <1>1 DEF Collect, toolLoop, LoopPhases
  <2>2. \A c : CallsFor(c) = {} /\ Legible(c) = {} /\ CallsFor(c)' = {} /\ Legible(c)' = {}
    BY <2>1 DEF CallsFor, Calls, Legible
  <2>3. SinkHasFirst' /\ AcceptedAreFirst'
    BY <1>0, <2>1, <2>2 DEF SinkHasFirst, AcceptedAreFirst
  <2>4. failing' \subseteq Cases /\ at' \in {"404", "200", "503", "model", "single"}
    BY <1>1 DEF Collect, Problems
  <2>5. TriageTypeOK'
    BY <1>0, <2>1, <2>4 DEF TriageTypeOK
  <2>6. LoopPhases'
    BY <1>b, <2>1, <2>4
  <2> QED BY <2>3, <2>5, <2>6 DEF VerdictsInv
<1>2. CASE CallModel
  <2> DEFINE forced == iterations >= MaxIterations
  <2>1. PICK reply \in Replies(forced) :
          IF reply.uses = <<>> \/ forced
          THEN /\ at' = IF Eval THEN "scored" ELSE IF reply.text THEN "judging" ELSE "502"
               /\ todo' = <<>>
          ELSE /\ at' = "tools"
               /\ todo' = reply.uses
    BY <1>2 DEF CallModel
  <2>2. at = "model" /\ UNCHANGED <<failing, trace, sink, prior, judged>>
    BY <1>2 DEF CallModel
  <2>3. reply.uses \in Seq(Uses)
    <3>1. forced \in BOOLEAN
      OBVIOUS
    <3> HIDE DEF forced
    <3> QED BY <3>1, RepliesAre
  <2>4. /\ todo' \in Seq(Uses) /\ (at' = "tools" => todo' # <<>>) /\ at' # "asked"
    <3>1. CASE reply.uses = <<>> \/ forced
      <4>1. todo' = <<>> /\ at' \in {"scored", "judging", "502"}
        BY <2>1, <3>1
      <4> QED BY <4>1
    <3>2. CASE ~(reply.uses = <<>> \/ forced)
      BY <2>1, <2>3, <3>2
    <3> QED BY <3>1, <3>2
  <2>5. TriageTypeOK' /\ SinkHasFirst' /\ AcceptedAreFirst'
    BY <1>0, <2>2, <2>4, LoopStays DEF TriageTypeOK
  <2>6. LoopPhases'
    BY <1>b, <2>2, <2>4
  <2> QED BY <2>5, <2>6 DEF VerdictsInv
<1>3. CASE ModelFails \/ SingleShot
  <2>1. /\ at \in {"model", "single"} /\ at' \in {"scored", "502", "judging"}
        /\ UNCHANGED <<failing, todo, trace, sink, prior, judged>>
    BY <1>3 DEF ModelFails, SingleShot, toolLoop
  <2>2. TriageTypeOK' /\ SinkHasFirst' /\ AcceptedAreFirst'
    BY <1>0, <2>1, LoopStays DEF TriageTypeOK
  <2>3. LoopPhases'
    BY <1>b, <2>1
  <2> QED BY <2>2, <2>3 DEF VerdictsInv
<1>4. CASE Recall
  <2>1. /\ at = "judging" /\ UNCHANGED <<at, failing, todo, trace, sink, judged>>
    BY <1>4 DEF Recall, toolLoop
  <2>2. \E c \in Unjudged : prior'.case = c
    BY <1>4 DEF Recall
  <2>3. prior'.case \in Cases
    BY <1>0, <2>2 DEF Unjudged, TriageTypeOK
  <2>4. TriageTypeOK' /\ SinkHasFirst' /\ AcceptedAreFirst'
    BY <1>0, <2>1, LoopStays DEF TriageTypeOK
  <2>5. LoopPhases'
    BY <1>0, <2>1, <2>3 DEF LoopPhases
  <2> QED BY <2>4, <2>5 DEF VerdictsInv
<1>5. CASE Judge
  <2>1. PICK c, h :
          /\ c = prior.case /\ h = HeuristicVerdict(prior.statuses, prior.health, OtherEnvironments(c))
          /\ judged' = [judged EXCEPT ![c] =
               [agent |-> sink[c], heuristic |-> h,
                review |-> IF Agentic THEN sink[c] \in {None, "unknown"} \/ sink[c] # h
                                      ELSE h = "unknown"]]
    BY <1>5 DEF Judge
  <2>2. /\ prior # NoEvidence /\ prior' = NoEvidence /\ UNCHANGED <<at, failing, todo, trace, sink>>
    BY <1>5 DEF Judge, toolLoop
  <2>3. at = "judging" /\ c \in Cases
    BY <1>0, <2>1, <2>2 DEF LoopPhases
  <2>4. h \in Uttered /\ sink[c] \in Uttered /\ h # None
    BY <1>0, <2>1, <2>3, HeuristicIsVerdict DEF Uttered, TriageTypeOK, Verdicts, None
  <2>5. PICK v \in [agent : Uttered, heuristic : Uttered, review : BOOLEAN] :
          v.agent = sink[c] /\ judged' = [judged EXCEPT ![c] = v]
    <3>1. (IF Agentic THEN sink[c] \in {None, "unknown"} \/ sink[c] # h ELSE h = "unknown") \in BOOLEAN
      OBVIOUS
    <3> QED BY <2>1, <2>4, <3>1
  <2>6. TriageTypeOK' /\ SinkHasFirst' /\ AcceptedAreFirst'
    BY <1>0, <2>2, <2>5, LoopStays DEF TriageTypeOK
  <2>7. LoopPhases'
    <3>1. \A d \in Cases : judged'[d].heuristic # None => judged'[d].agent = sink'[d]
      BY <1>0, <2>2, <2>3, <2>5 DEF LoopPhases, TriageTypeOK
    <3> QED BY <1>0, <2>2, <2>3, <3>1 DEF LoopPhases, NoEvidence
  <2> QED BY <2>6, <2>7 DEF VerdictsInv
<1>6. CASE Respond
  <2>1. /\ at = "judging" /\ at' = "200" /\ prior = NoEvidence
        /\ UNCHANGED <<failing, todo, trace, sink, prior, judged>>
    BY <1>6 DEF Respond, toolLoop
  <2>2. TriageTypeOK' /\ SinkHasFirst' /\ AcceptedAreFirst'
    BY <1>0, <2>1, LoopStays DEF TriageTypeOK
  <2>3. LoopPhases'
    BY <1>0, <2>1 DEF LoopPhases, NoEvidence
  <2> QED BY <2>2, <2>3 DEF VerdictsInv
<1>7. CASE RecordResult \/ HealthMoves
  <2>1. UNCHANGED <<at, failing, todo, trace, sink, prior, judged>>
    BY <1>7 DEF RecordResult, HealthMoves, toolLoop
  <2>2. TriageTypeOK' /\ SinkHasFirst' /\ AcceptedAreFirst'
    BY <1>0, <2>1, LoopStays DEF TriageTypeOK
  <2>3. LoopPhases'
    BY <1>0, <2>1 DEF LoopPhases, NoEvidence
  <2> QED BY <2>2, <2>3 DEF VerdictsInv
<1> QED BY <1>1, <1>2, <1>3, <1>4, <1>5, <1>6, <1>7

LEMMA TriageStep == VerdictsInv /\ [TriageNext]_triageVars => VerdictsInv'
<1> SUFFICES ASSUME VerdictsInv, [TriageNext]_triageVars PROVE VerdictsInv'
  OBVIOUS
<1>1. CASE TriageNext
  BY <1>1, DispatchKeeps, TriageOthers DEF TriageNext
<1>2. CASE UNCHANGED triageVars
  <2>1. UNCHANGED <<at, failing, todo, trace, sink, prior, judged>>
    BY <1>2 DEF triageVars, toolLoop
  <2>2. TriageTypeOK' /\ SinkHasFirst' /\ AcceptedAreFirst'
    BY <2>1, LoopStays DEF TriageTypeOK, VerdictsInv
  <2>3. LoopPhases'
    BY <2>1 DEF LoopPhases, NoEvidence, VerdictsInv
  <2> QED BY <2>2, <2>3 DEF VerdictsInv
<1> QED BY <1>1, <1>2

(***************************************************************************)
(* What the answer shows, and what the eval counts                         *)
(***************************************************************************)
LEMMA FirstVerdict == VerdictsInv => FirstVerdictWins
<1> SUFFICES ASSUME VerdictsInv, NEW c \in Cases
             PROVE  /\ sink[c] = FirstLegible(c)
                    /\ judged[c].heuristic # None => judged[c].agent = FirstLegible(c)
  BY DEF FirstVerdictWins
<1>1. sink[c] = FirstLegible(c)
  <2>1. IF sink[c] = None THEN Legible(c) = {}
        ELSE \E i \in Legible(c) : /\ trace[i].use.verdict = sink[c]
                                   /\ \A j \in Legible(c) : i <= j
    BY DEF VerdictsInv, SinkHasFirst
  <2>2. CASE sink[c] = None
    BY <2>1, <2>2 DEF FirstLegible
  <2>3. CASE sink[c] # None
    <3>1. PICK i \in Legible(c) : trace[i].use.verdict = sink[c] /\ \A j \in Legible(c) : i <= j
      BY <2>1, <2>3
    <3>2. \A j \in Legible(c) : j \in Nat
      BY TraceIs DEF VerdictsInv, Legible, CallsFor, Calls
    <3>3. \A k \in Legible(c) : (\A j \in Legible(c) : k <= j) => k = i
      BY <3>1, <3>2
    <3>4. Min(Legible(c)) = i
      BY <3>1, <3>3 DEF Min
    <3> QED BY <3>1, <3>4 DEF FirstLegible
  <2> QED BY <2>2, <2>3
<1>2. judged[c].heuristic # None => judged[c].agent = sink[c]
  BY DEF VerdictsInv, LoopPhases
<1> QED BY <1>1, <1>2

\* The first call for a case.
FirstCall(i) == CHOOSE j \in CallsFor(trace[i].use.case) : \A k \in CallsFor(trace[i].use.case) : j <= k

LEMMA FirstCallIs ==
  ASSUME TriageTypeOK, NEW i \in Calls("record_verdict")
  PROVE  /\ FirstCall(i) \in CallsFor(trace[i].use.case)
         /\ \A k \in CallsFor(trace[i].use.case) : FirstCall(i) <= k
<1> DEFINE S == CallsFor(trace[i].use.case)
<1>1. i \in S /\ S \in SUBSET Nat
  BY TraceIs DEF CallsFor, Calls
<1>2. \E j \in S : \A k \in S : j <= k
  <2> HIDE DEF S
  <2> QED BY <1>1, LeastOf
<1> QED BY <1>2 DEF FirstCall

LEMMA CountsOfRepeats == VerdictsInv => ReVerdictsAreRefusals
<1> SUFFICES ASSUME VerdictsInv
             PROVE  /\ Cardinality(Repeats) <= ReVerdictAttempts
                    /\ ReVerdictAttempts <= Cardinality(Refused)
  BY DEF ReVerdictsAreRefusals
<1> DEFINE C == Calls("record_verdict")
           A == {i \in C : \E j \in CallsFor(trace[i].use.case) : j < i}
<1>0. TriageTypeOK
  BY DEF VerdictsInv
<1>1. /\ IsFiniteSet(C) /\ C \subseteq DOMAIN trace
      /\ \A i \in C : i \in Nat /\ trace[i].use.case \in Cases \cup Strangers
  <2>1. Len(trace) \in Nat /\ DOMAIN trace = 1..Len(trace)
    BY <1>0, TraceIs
  <2>2. 1 \in Int /\ Len(trace) \in Int
    BY <2>1
  <2>3. IsFiniteSet(DOMAIN trace)
    BY <2>1, <2>2, FS_Interval
  <2>4. C \subseteq DOMAIN trace
    BY DEF Calls
  <2>5. \A i \in DOMAIN trace : i \in Nat /\ trace[i].use \in Uses
    BY <1>0, TraceIs DEF CallRecords
  <2> QED BY <2>3, <2>4, <2>5, FS_Subset, UsesAre
<1>2. /\ Repeats \subseteq A /\ A \subseteq C /\ Refused \subseteq C
  BY DEF Repeats, Refused, Legible
<1>3. IsFiniteSet(A) /\ IsFiniteSet(Refused) /\ Cardinality(A) \in Nat
  BY <1>1, <1>2, FS_Subset, FS_CardinalityType
<1>4. Cardinality(Repeats) <= Cardinality(A)
  BY <1>2, <1>3, FS_Subset
<1>5. Cardinality(A) <= Cardinality(Refused)
  \* What an attempt that was not refused answers for: the first call for its case.
  <2> DEFINE f == [i \in A |-> IF i \in Refused THEN i ELSE FirstCall(i)]
  <2>1. ASSUME NEW i \in A, i \notin Refused
        PROVE  /\ i \in CallsFor(trace[i].use.case)
               /\ FirstCall(i) \in Refused /\ FirstCall(i) \notin A
               /\ FirstCall(i) \in C /\ trace[FirstCall(i)].use.case = trace[i].use.case
               /\ \A k \in CallsFor(trace[i].use.case) : k \notin Refused => k = i
    <3> DEFINE c == trace[i].use.case
    <3>1. i \in C /\ c \in Cases \cup Strangers /\ i \in CallsFor(c)
      BY <1>1, <1>2 DEF CallsFor
    <3>2. /\ FirstCall(i) \in CallsFor(c) /\ \A k \in CallsFor(c) : FirstCall(i) <= k
      BY <1>0, <3>1, FirstCallIs
    <3>3. FirstCall(i) \in C /\ trace[FirstCall(i)].use.case = c
      BY <3>2 DEF CallsFor
    <3> HIDE DEF c
    <3>4. /\ \A k \in CallsFor(c) : k \in Nat
          /\ \A k \in CallsFor(c) : k \notin Refused => k \in Legible(c) /\ \A j \in Legible(c) : k <= j
      BY <1>1, <3>1 DEF VerdictsInv, AcceptedAreFirst, CallsFor
    <3>5. \A k \in CallsFor(c) : k \notin Refused => k = i
      BY <2>1, <3>1, <3>4
    <3>6. PICK j \in CallsFor(c) : j < i
      BY <2>1 DEF c
    <3>7. FirstCall(i) # i
      BY <3>1, <3>2, <3>4, <3>6
    <3>8. FirstCall(i) \in Refused
      BY <3>2, <3>5, <3>7
    <3>9. FirstCall(i) \notin A
      BY <3>2, <3>3, <3>4
    <3> QED BY <3>1, <3>3, <3>5, <3>8, <3>9 DEF c
  <2>2. f \in Injection(A, Refused)
    <3>1. f \in [A -> Refused]
      BY <2>1
    <3>2. ASSUME NEW a \in A, NEW b \in A, f[a] = f[b] PROVE a = b
      <4>1. CASE a \in Refused /\ b \in Refused
        BY <3>2, <4>1
      <4>2. CASE a \notin Refused /\ b \in Refused
        BY <2>1, <3>2, <4>2
      <4>3. CASE a \in Refused /\ b \notin Refused
        BY <2>1, <3>2, <4>3
      <4>4. CASE a \notin Refused /\ b \notin Refused
        <5>1. FirstCall(a) = FirstCall(b)
          BY <3>2, <4>4
        <5>2. trace[a].use.case = trace[b].use.case
          BY <2>1, <4>4, <5>1
        <5> QED BY <2>1, <4>4, <5>2
      <4> QED BY <4>1, <4>2, <4>3, <4>4
    <3> QED BY <3>1, <3>2 DEF Injection, IsInjective
  <2> QED BY <1>3, <2>2, FS_Injection
<1> QED BY <1>4, <1>5 DEF ReVerdictAttempts

\* The first legible verdict that the model recorded for a case is the one the answer
\* shows and the eval scores, whatever it calls afterwards, and the eval's count of repeated
\* verdicts lies between the calls for a case that had one and the refused calls
\* (record_verdict, build_verdicts, score_trajectory).
THEOREM VerdictsStand == TriageSpec => []VerdictsAreFinal
<1>1. VerdictsInv => VerdictsAreFinal
  BY FirstVerdict, CountsOfRepeats DEF VerdictsAreFinal
<1> QED BY <1>1, TriageStarts, TriageStep, PTL DEF TriageSpec

----------------------------------------------------------------------------
(* What a verdict that nobody reviews rests on *)

StatusValues == Decisive \cup {"pending", "skip"}
HealthNow == IF env = NoEnv THEN None ELSE Health(env)

\* What collect_evidence read first is still what there is, unless something
\* changed since.
EvidenceInv ==
  /\ start \in Starts
  /\ status \in [Runs -> [Cases -> StatusValues]] /\ lost \in [Envs -> 0..2]
  /\ target = NoRun => at \in {"asked", "404"}
  /\ prior # NoEvidence /\ ~torn =>
       prior.statuses = Prior(prior.case) /\ prior.health = HealthNow

LEMMA StartIs ==
  ASSUME NEW s \in Starts
  PROVE  /\ s.target \in Runs \cup {NoRun} /\ s.env \in [Runs -> Envs \cup {NoEnv}]
         /\ s.lost \in [Envs -> 0..2] /\ s.status \in [Runs -> [Cases -> StatusValues]]
<1>1. s \in [caller : {"endpoint", "eval"}, provider : STRING,
             configured : BOOLEAN, agentic : BOOLEAN, target : Runs \cup {NoRun},
             env : [Runs -> Envs \cup {NoEnv}], lost : [Envs -> 0..2],
             changes : Nat, status : [Runs -> [Cases -> StatusValues]]]
  BY TriageAssumption DEF StatusValues
<1> QED BY <1>1

LEMMA RunNumbers ==
  Cardinality(Runs) \in Nat /\ Runs = 1..Cardinality(Runs) /\ NoRun \notin Runs
<1>1. IsFiniteSet(Runs) /\ Runs = 1..Cardinality(Runs)
  BY TriageAssumption
<1>2. Cardinality(Runs) \in Nat
  BY <1>1, FS_CardinalityType
<1> QED BY <1>1, <1>2 DEF NoRun

LEMMA EvidenceStarts == TriageInit => EvidenceInv
BY StartIs DEF TriageInit, EvidenceInv

\* As long as the tables and the evidence stand the evidence is right.
LEMMA EvidenceStands ==
  ASSUME EvidenceInv, UNCHANGED <<start, status, lost, prior, torn>>,
         target = NoRun => at' \in {"asked", "404"}
  PROVE  EvidenceInv'
BY DEF EvidenceInv, Prior, HealthNow, Health, target, env

LEMMA EvidenceStep ==
  ASSUME VerdictsInv, EvidenceInv, [TriageNext]_triageVars
  PROVE  EvidenceInv'
<1>0. /\ prior # NoEvidence => at = "judging"
      /\ start \in Starts /\ status \in [Runs -> [Cases -> StatusValues]]
      /\ lost \in [Envs -> 0..2] /\ (target = NoRun => at \in {"asked", "404"})
  BY DEF EvidenceInv, VerdictsInv, LoopPhases
<1>1. CASE Collect
  <2>1. UNCHANGED <<start, status, lost, prior, torn>> /\ (target = NoRun => at' = "404")
    BY <1>1 DEF Collect, world
  <2> QED BY <2>1, EvidenceStands
<1>2. CASE CallModel \/ ModelFails \/ SingleShot \/ Dispatch \/ Respond
  <2>1. UNCHANGED <<start, status, lost, prior, torn>> /\ at \notin {"asked", "404"}
    BY <1>2 DEF CallModel, ModelFails, SingleShot, Dispatch, Respond, world
  <2> QED BY <1>0, <2>1, EvidenceStands
<1>3. CASE Recall
  <2>1. UNCHANGED <<start, status, lost, at>>
    BY <1>3 DEF Recall, world
  <2>2. PICK c \in Unjudged : prior' = [case |-> c, statuses |-> Prior(c), health |-> HealthNow]
    BY <1>3 DEF Recall, HealthNow
  <2>3. prior'.case = c /\ prior'.statuses = Prior(c) /\ prior'.health = HealthNow
    BY <2>2
  <2>4. Prior(c)' = Prior(c) /\ HealthNow' = HealthNow
    BY <2>1 DEF Prior, HealthNow, Health, target, env
  <2>5. Prior(prior.case)' = Prior(c)
    BY <2>1, <2>3 DEF Prior, target
  <2> QED BY <1>0, <2>1, <2>3, <2>4, <2>5 DEF EvidenceInv, target
<1>4. CASE Judge
  <2>1. UNCHANGED <<start, status, lost, at>> /\ prior' = NoEvidence
    BY <1>4 DEF Judge, world
  <2> QED BY <1>0, <2>1 DEF EvidenceInv, target, NoEvidence
<1>5. CASE RecordResult
  <2>1. UNCHANGED <<start, lost, at>> /\ torn'
    BY <1>5 DEF RecordResult
  <2>2. PICK r \in Runs, c \in Cases, s \in Decisive : status' = [status EXCEPT ![r][c] = s]
    BY <1>5 DEF RecordResult
  <2>3. status' \in [Runs -> [Cases -> StatusValues]]
    BY <1>0, <2>2 DEF StatusValues
  <2> QED BY <1>0, <2>1, <2>3 DEF EvidenceInv, target
<1>6. CASE HealthMoves
  <2>1. UNCHANGED <<start, status, at>> /\ torn'
    BY <1>6 DEF HealthMoves
  <2>2. PICK e \in Envs, n \in 0..2 : lost' = [lost EXCEPT ![e] = n]
    BY <1>6 DEF HealthMoves
  <2>3. lost' \in [Envs -> 0..2]
    BY <1>0, <2>2
  <2> QED BY <1>0, <2>1, <2>3 DEF EvidenceInv, target
<1>7. CASE UNCHANGED triageVars
  <2>1. UNCHANGED <<start, status, lost, at, prior, torn>>
    BY <1>7 DEF triageVars, world
  <2> QED BY <1>0, <2>1, EvidenceStands
<1> QED BY <1>1, <1>2, <1>3, <1>4, <1>5, <1>6, <1>7 DEF TriageNext

\* A verdict of environment, and one of the others' failures: what the newest
\* results of the other environments are.
LEMMA OthersAre ==
  ASSUME EvidenceInv, target \in Runs, NEW c \in Cases
  PROVE  /\ \A o \in OtherEnvironments(c) :
              \E r \in Runs : NewestOn(r, c) /\ status[r][c] = o[2]
         /\ \A r \in Runs : NewestOn(r, c) =>
              \E o \in OtherEnvironments(c) : o[2] = status[r][c]
<1>1. /\ start.env \in [Runs -> Envs \cup {NoEnv}] /\ NoEnv \notin Envs
      /\ Cardinality(Runs) \in Nat /\ Runs = 1..Cardinality(Runs)
  BY StartIs, RunNumbers, TriageAssumption DEF EvidenceInv
<1>2. ASSUME NEW e \in Envs, Elsewhere(c, e) # {}
      PROVE  LET m == Max(Elsewhere(c, e))
             IN  m \in Elsewhere(c, e) /\ m \in Runs /\ \A k \in Elsewhere(c, e) : k <= m
  <2>1. Elsewhere(c, e) \in SUBSET (1..Cardinality(Runs))
    BY <1>1 DEF Elsewhere
  <2> QED BY <1>1, <1>2, <2>1, MaxIsLargest
<1>3. ASSUME NEW o \in OtherEnvironments(c)
      PROVE  \E r \in Runs : NewestOn(r, c) /\ status[r][c] = o[2]
  <2>1. PICK e \in Envs : /\ Elsewhere(c, e) # {}
                          /\ o = <<e, status[Max(Elsewhere(c, e))][c]>>
    BY DEF OtherEnvironments
  <2>2. PICK m : m = Max(Elsewhere(c, e))
    OBVIOUS
  <2>3. m \in Elsewhere(c, e) /\ m \in Runs /\ \A k \in Elsewhere(c, e) : k <= m
    BY <1>2, <2>1, <2>2
  <2>4. o[2] = status[m][c]
    BY <2>1, <2>2
  <2>5. m # target /\ start.env[m] = e /\ e # env /\ e # NoEnv /\ status[m][c] \in Decisive
    BY <1>1, <2>3 DEF Elsewhere
  <2>6. ASSUME NEW q \in Runs \ {target}, q > m, start.env[q] = e
        PROVE  status[q][c] \notin Decisive
    <3> SUFFICES ASSUME status[q][c] \in Decisive PROVE FALSE
      OBVIOUS
    <3>1. q \in Elsewhere(c, e)
      BY <2>5, <2>6 DEF Elsewhere
    <3>2. q <= m /\ q \in Nat /\ m \in Nat
      BY <1>1, <2>3, <3>1
    <3> QED BY <2>6, <3>2
  <2>7. NewestOn(m, c)
    BY <2>5, <2>6 DEF NewestOn
  <2> QED BY <2>3, <2>4, <2>7
<1>4. ASSUME NEW r \in Runs, NewestOn(r, c)
      PROVE  \E o \in OtherEnvironments(c) : o[2] = status[r][c]
  <2>1. PICK e : e = start.env[r]
    OBVIOUS
  <2>2. e \in Envs /\ e # env /\ r # target /\ status[r][c] \in Decisive
    BY <1>1, <1>4, <2>1 DEF NewestOn
  <2>3. r \in Elsewhere(c, e)
    BY <2>1, <2>2 DEF Elsewhere
  <2>4. PICK m : m = Max(Elsewhere(c, e))
    OBVIOUS
  <2>5. m \in Elsewhere(c, e) /\ m \in Runs /\ r <= m
    BY <1>2, <2>2, <2>3, <2>4
  <2>6. m = r
    <3> SUFFICES ASSUME m # r PROVE FALSE
      OBVIOUS
    <3>1. m > r /\ m \in Runs \ {target} /\ start.env[m] = start.env[r] /\ status[m][c] \in Decisive
      <4>1. m \in Nat /\ r \in Nat
        BY <1>1, <2>5
      <4>2. m > r
        BY <2>5, <4>1
      <4> QED BY <2>1, <2>5, <4>2 DEF Elsewhere
    <3> QED BY <1>4, <3>1 DEF NewestOn
  <2>7. <<e, status[Max(Elsewhere(c, e))][c]>> \in OtherEnvironments(c)
    BY <2>2, <2>3 DEF OtherEnvironments
  <2>8. <<e, status[r][c]>> \in OtherEnvironments(c)
    BY <2>4, <2>6, <2>7
  <2> QED BY <2>8
<1> QED BY <1>3, <1>4

\* The history that ends with the failure.
LEMMA FailureAdded ==
  ASSUME EvidenceInv, target \in Runs, NEW c \in Cases
  PROVE  LET h == WithFailure(Prior(c))
             D == DOMAIN Prior(c) \cup {target}
         IN  /\ target \in Nat /\ DOMAIN Prior(c) \in SUBSET (1..target - 1)
             /\ D \in SUBSET (1..target) /\ h \in [D -> {"pass", "fail"}]
             /\ h[target] = "fail"
             /\ \A r \in Earlier : /\ Failed(r, c) <=> r \in DOMAIN Prior(c) /\ h[r] = "fail"
                                   /\ Passed(r, c) <=> r \in DOMAIN Prior(c) /\ h[r] = "pass"
             /\ \A r \in DOMAIN Prior(c) : r \in Earlier /\ Prior(c)[r] = h[r] /\ r < target
<1>1. target \in Nat /\ target >= 1 /\ Runs = 1..Cardinality(Runs) /\ Cardinality(Runs) \in Nat
  BY RunNumbers
<1> DEFINE P == {q \in 1..target - 1 : status[q][c] \in Decisive}
           h == WithFailure(Prior(c))
<1>2. P \in SUBSET (1..target - 1) /\ Prior(c) = [r \in P |-> status[r][c]] /\ DOMAIN Prior(c) = P
  BY DEF Prior
<1>3. \A r \in P : r \in 1..target - 1 /\ r # target /\ r < target /\ r \in 1..target
  <2>1. \A r \in 1..target - 1 : r # target /\ r < target /\ r \in 1..target
    BY <1>1
  <2> QED BY <1>2, <2>1
<1>4. h = [r \in P \cup {target} |-> IF r = target THEN "fail" ELSE Prior(c)[r]]
  BY <1>2 DEF WithFailure
<1>5. \A r \in P : h[r] = status[r][c] /\ Prior(c)[r] = status[r][c] /\ status[r][c] \in {"pass", "fail"}
  BY <1>2, <1>3, <1>4 DEF Decisive
<1>6. \A r \in 1..target - 1 : r \in P <=> status[r][c] \in {"pass", "fail"}
  BY DEF Decisive
<1>7. h[target] = "fail" /\ h \in [P \cup {target} -> {"pass", "fail"}]
  BY <1>2, <1>3, <1>4, <1>5
<1>8. P \cup {target} \in SUBSET (1..target)
  BY <1>1, <1>3
<1> HIDE DEF P, h
<1>9. \A r \in Earlier : /\ Failed(r, c) <=> r \in P /\ h[r] = "fail"
                         /\ Passed(r, c) <=> r \in P /\ h[r] = "pass"
  BY <1>5, <1>6 DEF Earlier, Failed, Passed
<1> QED BY <1>1, <1>2, <1>3, <1>5, <1>7, <1>8, <1>9 DEF Earlier, h

\* The rules of heuristic_verdict claim no more than the results say.
LEMMA HeuristicSupported ==
  ASSUME EvidenceInv, target \in Runs, NEW c \in Cases, NEW v,
         v = HeuristicVerdict(Prior(c), HealthNow, OtherEnvironments(c)), v # "unknown"
  PROVE  Supported(c, v)
<1> DEFINE P == DOMAIN Prior(c)
           h == WithFailure(Prior(c))
           others == OtherEnvironments(c)
           passesElsewhere == \E o \in others : o[2] = "pass"
           recent == LastOf(P, 2)
<1>1. /\ target \in Nat /\ P \in SUBSET (1..target - 1)
      /\ P \cup {target} \in SUBSET (1..target) /\ h \in [P \cup {target} -> {"pass", "fail"}]
      /\ h[target] = "fail"
      /\ \A r \in Earlier : /\ Failed(r, c) <=> r \in P /\ h[r] = "fail"
                            /\ Passed(r, c) <=> r \in P /\ h[r] = "pass"
      /\ \A r \in P : r \in Earlier /\ Prior(c)[r] = h[r] /\ r < target
  BY FailureAdded
<1>2. HealthNow \in Unhealthy <=> Sick
  <2>1. start.env \in [Runs -> Envs \cup {NoEnv}] /\ lost \in [Envs -> 0..2]
    BY StartIs DEF EvidenceInv
  <2>2. env \in Envs \cup {NoEnv}
    BY <2>1 DEF env
  <2>3. CASE env = NoEnv
    BY <2>3 DEF HealthNow, Sick, Unhealthy, None
  <2>4. CASE env # NoEnv
    <3>1. lost[env] \in 0..2
      BY <2>1, <2>2, <2>4
    <3>2. Health(env) \in Unhealthy <=> lost[env] # 0
      BY DEF Health, Unhealthy
    <3> QED BY <2>4, <3>1, <3>2 DEF HealthNow, Sick
  <2> QED BY <2>3, <2>4
<1>3. /\ \A o \in others : \E r \in Runs : NewestOn(r, c) /\ status[r][c] = o[2]
      /\ \A r \in Runs : NewestOn(r, c) => \E o \in others : o[2] = status[r][c]
  BY OthersAre
<1>4. \/ v = "environment" /\ HealthNow \in Unhealthy /\ passesElsewhere
      \/ v = "flaky" /\ Flips(h) >= 2
      \/ /\ v = "product_bug" /\ ~ (Flips(h) >= 2)
         /\ \/ recent # {} /\ \A r \in recent : Prior(c)[r] = "pass"
            \/ others # {} /\ ~passesElsewhere /\ HealthNow \notin Unhealthy
  BY DEF HeuristicVerdict
<1>5. Flips(h) >= 2 <=> \E p, q, r \in P \cup {target} : /\ p < q /\ q < r
                                                         /\ h[p] # h[q] /\ h[r] = h[p]
  BY <1>1, FlipsMeanSwings
<1>6. \A r \in P : r \in Nat /\ r \in Earlier /\ r < target /\ ~ (target < r)
  BY <1>1
<1> HIDE DEF P, h, others, recent
<1>7. CASE v = "environment" /\ HealthNow \in Unhealthy /\ passesElsewhere
  BY <1>2, <1>3, <1>7 DEF Supported, Passed
<1>8. CASE v = "flaky" /\ Flips(h) >= 2
  <2>1. PICK p, q, r \in P \cup {target} : p < q /\ q < r /\ h[p] # h[q] /\ h[r] = h[p]
    BY <1>5, <1>8
  <2>2. p \in P /\ q \in P /\ p \in Earlier /\ q \in Earlier
    BY <1>1, <1>6, <2>1
  <2>3. \E x, y \in Earlier : x < y /\ Failed(x, c) /\ Passed(y, c)
    <3>1. CASE h[p] = "fail"
      <4>1. h[q] = "pass"
        BY <1>1, <2>1, <3>1
      <4> QED BY <1>1, <2>1, <2>2, <3>1, <4>1
    <3>2. CASE h[p] = "pass"
      <4>1. h[q] = "fail" /\ h[r] = "pass" /\ r \in P
        BY <1>1, <2>1, <3>2
      <4>2. r \in Earlier
        BY <1>6, <4>1
      <4> QED BY <1>1, <2>1, <2>2, <4>1, <4>2
    <3> QED BY <1>1, <3>1, <3>2
  <2> QED BY <1>8, <2>3 DEF Supported
<1>9. CASE /\ v = "product_bug" /\ ~ (Flips(h) >= 2)
           /\ recent # {} /\ \A r \in recent : Prior(c)[r] = "pass"
  <2>1. /\ recent \subseteq P
        /\ \A x \in P \ recent : \A q \in recent : q > x
    <3>1. PICK m : m = target - 1
      OBVIOUS
    <3>2. m \in Nat /\ P \in SUBSET (1..m)
      BY <1>1, <3>1, RunNumbers
    <3>3. 2 \in Nat \ {0}
      OBVIOUS
    <3> QED BY <3>2, <3>3, LastAreNewest DEF recent
  <2>2. PICK l \in recent : TRUE
    BY <1>9
  <2>3. l \in P /\ l \in Earlier /\ h[l] = "pass" /\ Passed(l, c) /\ l < target
    BY <1>1, <1>6, <1>9, <2>1, <2>2
  <2>4. ASSUME NEW x \in Earlier, Failed(x, c) PROVE FALSE
    <3>1. x \in P /\ h[x] = "fail"
      BY <1>1, <2>4
    <3>2. x \notin recent
      BY <1>1, <1>9, <3>1
    <3>3. l > x /\ x \in Nat /\ l \in Nat
      BY <1>6, <2>1, <2>2, <2>3, <3>1, <3>2
    <3>4. x < l
      BY <3>3
    <3> QED BY <1>1, <1>5, <1>9, <2>3, <3>1, <3>4
  <2> QED BY <1>9, <2>3, <2>4 DEF Supported
<1>10. CASE /\ v = "product_bug"
            /\ others # {} /\ ~passesElsewhere /\ HealthNow \notin Unhealthy
  <2>1. \E r \in Runs : NewestOn(r, c)
    BY <1>3, <1>10
  <2>2. \A r \in Runs : NewestOn(r, c) => Failed(r, c)
    BY <1>3, <1>10 DEF Failed, NewestOn, Decisive
  <2> QED BY <1>2, <1>10, <2>1, <2>2 DEF Supported
<1> QED BY <1>4, <1>7, <1>8, <1>9, <1>10

\* A case that is judged without a review has the heuristic's verdict.
LEMMA JudgedSupported ==
  ASSUME VerdictsInv, EvidenceInv, [TriageNext]_triageVars, NEW c \in Cases,
         judged'[c] # judged[c], ~judged'[c].review, ~torn
  PROVE  Supported(c, IF Agentic THEN judged'[c].agent ELSE judged'[c].heuristic)
<1>1. Judge
  <2>1. CASE UNCHANGED judged
    BY <2>1
  <2>2. CASE ~UNCHANGED judged
    BY <2>2 DEF TriageNext, Collect, CallModel, ModelFails, SingleShot, Dispatch, Recall,
      Respond, RecordResult, HealthMoves, triageVars
  <2> QED BY <2>1, <2>2
<1>2. PICK d, v :
        /\ d = prior.case
        /\ v = HeuristicVerdict(prior.statuses, prior.health, OtherEnvironments(d))
        /\ judged' = [judged EXCEPT ![d] =
             [agent |-> sink[d], heuristic |-> v,
              review |-> IF Agentic THEN sink[d] \in {None, "unknown"} \/ sink[d] # v
                                    ELSE v = "unknown"]]
  BY <1>1 DEF Judge
<1>3. prior # NoEvidence /\ at = "judging" /\ d \in Cases /\ target \in Runs
  <2>1. prior # NoEvidence
    BY <1>1 DEF Judge
  <2>2. at = "judging" /\ d \in Cases
    BY <1>2, <2>1 DEF VerdictsInv, LoopPhases
  <2>3. start.target \in Runs \cup {NoRun} /\ target # NoRun
    BY <2>2, StartIs DEF EvidenceInv
  <2> QED BY <2>1, <2>2, <2>3 DEF target
<1>4. d = c
  BY <1>2, <1>3 DEF VerdictsInv, TriageTypeOK
<1>5. judged'[c] = [agent |-> sink[c], heuristic |-> v,
                    review |-> IF Agentic THEN sink[c] \in {None, "unknown"} \/ sink[c] # v
                                          ELSE v = "unknown"]
  BY <1>2, <1>4 DEF VerdictsInv, TriageTypeOK
<1>6. v # "unknown" /\ (IF Agentic THEN judged'[c].agent ELSE judged'[c].heuristic) = v
  <2> DEFINE needs == IF Agentic THEN sink[c] \in {None, "unknown"} \/ sink[c] # v
                                ELSE v = "unknown"
  <2>0. judged'[c].review = needs
    BY <1>5
  <2>1. ~ needs
    <3> HIDE DEF needs
    <3> QED BY <2>0, Zenon
  <2>2. CASE Agentic
    BY <1>5, <2>1, <2>2
  <2>3. CASE ~Agentic
    BY <1>5, <2>1, <2>3
  <2> QED BY <2>2, <2>3
<1>7. v = HeuristicVerdict(Prior(c), HealthNow, OtherEnvironments(c))
  BY <1>2, <1>3, <1>4 DEF EvidenceInv
<1> QED BY <1>3, <1>6, <1>7, HeuristicSupported

\* A verdict nobody is asked to review says no more than the results do: the
\* rules of heuristic_verdict, and the agreement of the agent with it, cannot
\* pass an unfounded verdict as a settled one, unless results or health changed
\* between the reads of collect_evidence.
THEOREM SettledVerdictsHold == TriageSpec => UnflaggedIsSupported
<1>1. TriageInit => VerdictsInv /\ EvidenceInv
  BY TriageStarts, EvidenceStarts
<1>2. VerdictsInv /\ EvidenceInv /\ [TriageNext]_triageVars => (VerdictsInv /\ EvidenceInv)'
  BY TriageStep, EvidenceStep
<1>3. VerdictsInv /\ EvidenceInv /\ [TriageNext]_triageVars =>
        [\A c \in Cases :
           judged'[c] # judged[c] /\ ~judged'[c].review /\ ~torn =>
             Supported(c, IF Agentic THEN judged'[c].agent ELSE judged'[c].heuristic)]_triageVars
  BY JudgedSupported
<1> QED BY <1>1, <1>2, <1>3, PTL DEF TriageSpec, UnflaggedIsSupported

===============================================================================
