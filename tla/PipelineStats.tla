---------------------------- MODULE PipelineStats ----------------------------
(***************************************************************************)
(* ci_pipeline_stats of api/main.py: the durations of the CI runs, fetched *)
(* from GitHub and cached in the process, by requests in several threads.  *)
(* The two entries of the cache are read and written one after the other.  *)
(*                                                                         *)
(* Time is counted in ticks.  A value is the time of the fetch it is from, *)
(* for what GitHub says may change at any time.                            *)
(***************************************************************************)
EXTENDS Integers

CONSTANTS
  Readers,  \* threads that serve the request
  Lifetime, \* CI_PIPELINE_STATS_CACHE_TTL, in ticks
  Patience, \* ticks a request may take: the fetch times out
  MaxTime   \* bound

ASSUME PipelineStatsAssumption ==
  Lifetime \in Nat \ {0} /\ Patience \in Nat /\ MaxTime \in Nat

VARIABLES
  clock,
  data,      \* _ci_pipeline_stats_cache["data"]: [from, measured]
  fetchedAt, \* _ci_pipeline_stats_cache["fetched_at"]
  reader     \* each request: where it is, its "now", what it has read;
             \* history, torn: the other entry was written between its two reads

statsVars == <<clock, data, fetchedAt, reader>>

NoData == [from |-> -1, measured |-> FALSE]
Unset == -1
Resting == [at |-> "rest", now |-> 0, data |-> NoData, torn |-> FALSE]

StatsInit ==
  /\ clock = 0
  /\ data = NoData
  /\ fetchedAt = Unset
  /\ reader = [r \in Readers |-> Resting]

StatsNone ==
  /\ clock = MaxTime
  /\ data = NoData
  /\ fetchedAt = Unset
  /\ reader = [r \in Readers |-> [Resting EXCEPT !.at = "off"]]

\* now, then cached
ReadData(r) ==
  /\ reader[r].at = "rest"
  /\ reader' = [reader EXCEPT ![r] = [at |-> "read", now |-> clock, data |-> data,
                                             torn |-> FALSE]]
  /\ UNCHANGED <<clock, data, fetchedAt>>

Fresh(r) == reader[r].data # NoData /\ fetchedAt # Unset /\ reader[r].now - fetchedAt < Lifetime

\* fetched_at, then the decision
ReadTime(r) ==
  /\ reader[r].at = "read"
  /\ reader' = [reader EXCEPT ![r].at = IF Fresh(r) THEN "served" ELSE "fetch"]
  /\ UNCHANGED <<clock, data, fetchedAt>>

\* GitHub answers now, or it does not and nothing is measured.
Fetch(r) ==
  /\ reader[r].at = "fetch"
  /\ \E ok \in BOOLEAN :
       reader' = [reader EXCEPT ![r].at = "fetched",
                                ![r].data = [from |-> clock, measured |-> ok],
                                ![r].torn = FALSE]
  /\ UNCHANGED <<clock, data, fetchedAt>>

StoreData(r) ==
  /\ reader[r].at = "fetched"
  /\ data' = reader[r].data
  /\ reader' = [reader EXCEPT ![r].at = "stored"]
  /\ UNCHANGED <<clock, fetchedAt>>

\* The time the request began, not the time of the answer.
StoreTime(r) ==
  /\ reader[r].at = "stored"
  /\ fetchedAt' = reader[r].now
  /\ reader' = [q \in Readers |->
                  IF q = r THEN [reader[q] EXCEPT !.at = "served"]
                  ELSE [reader[q] EXCEPT !.torn = @ \/ reader[q].at = "read"]]
  /\ UNCHANGED <<clock, data>>

\* Variant: an answer from the cache prolongs it.
ReturnAndExtend(r) ==
  /\ reader[r].at = "served"
  /\ reader' = [reader EXCEPT ![r] = Resting]
  /\ fetchedAt' = reader[r].now
  /\ UNCHANGED <<clock, data>>

Return(r) ==
  /\ reader[r].at = "served"
  /\ reader' = [reader EXCEPT ![r] = Resting]
  /\ UNCHANGED <<clock, data, fetchedAt>>

\* Time passes, but no request takes longer than its patience.
Tick ==
  /\ clock < MaxTime
  /\ \A r \in Readers : reader[r].at # "rest" => clock - reader[r].now < Patience
  /\ clock' = clock + 1
  /\ UNCHANGED <<data, fetchedAt, reader>>

StatsNext ==
  \/ \E r \in Readers : ReadData(r) \/ ReadTime(r) \/ Fetch(r) \/ StoreData(r)
                        \/ StoreTime(r) \/ Return(r)
  \/ Tick

----------------------------------------------------------------------------
(* Property *)

\* An answer is older than the lifetime of the cache, and what two requests take,
\* only if the cache was refreshed between its request's reads of the two entries:
\* the request then takes the old value for the new one's time, and the old value
\* may be of any age.  Entries stored by overlapping requests, which need not
\* belong together, are not that harmful (ci_pipeline_stats).
AnswersAreRecent ==
  \A r \in Readers :
    (reader[r].at = "served" /\ ~reader[r].torn)
      => clock - reader[r].data.from < Lifetime + 2 * Patience

(* Types *)

Answers == [from : Int, measured : BOOLEAN]
ReaderSteps == {"off", "rest", "read", "fetch", "fetched", "stored", "served"}
Readings == [at : ReaderSteps, now : Int, data : Answers, torn : BOOLEAN]

StatsTypeOK ==
  /\ clock \in Nat
  /\ data \in Answers
  /\ fetchedAt \in Int
  /\ reader \in [Readers -> Readings]

=============================================================================
