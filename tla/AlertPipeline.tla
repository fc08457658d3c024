--------------------------- MODULE AlertPipeline ---------------------------
(***************************************************************************)
(* How failed results become rows of runs_alerts: the Kafka topic          *)
(* alerts.triggered, the consumer group alert-ingesters that the worker    *)
(* replicas form (services/worker/kafka_consumer.py), and the dead-letter  *)
(* topic.                                                                  *)
(*                                                                         *)
(* The topic has one partition (the broker's default), so one replica at a *)
(* time owns it.  The broker is external: it appends, assigns the          *)
(* partition, keeps the group's committed offset and refuses a commit of a *)
(* replica that lost the assignment.  A group without a committed offset   *)
(* starts at the end of the topic: the consumer does not set               *)
(* auto_offset_reset.  Offsets count from 1 here.                          *)
(***************************************************************************)
EXTENDS Naturals, Sequences

CONSTANTS
  Keys,        \* (run_id, testcase_id) pairs alerts are about
  Malformed,   \* a message parse_alert_message rejects
  Workers,     \* replicas of services/worker
  Nobody,      \* the partition is unassigned
  MAX_RETRIES, \* attempts at persisting one message
  MaxLog,      \* bound: messages published
  MaxFaults    \* bound: crashes, failed commits and rebalances under way

ASSUME PipelineAssumption ==
  /\ Malformed \notin Keys
  /\ Nobody \notin Workers
  /\ MAX_RETRIES \in Nat \ {0}
  /\ MaxLog \in Nat
  /\ MaxFaults \in Nat

NoOffset == 0

VARIABLES
  topic,      \* the messages of alerts.triggered, oldest first
  committed,  \* the offset the group reads next, or NoOffset
  owner,      \* the replica the partition is assigned to
  position,   \* the offset each replica reads next
  at,         \* where each replica is in its loop
  attempt,    \* the attempt at persisting its message
  rows,       \* runs_alerts rows of each key
  dlq,        \* offsets of messages in the dead-letter topic
  dropped,    \* history: offsets whose dead-lettering failed
  skipped,    \* history: offsets an assignment without a committed offset passed
  overlapped, \* history: the partition was taken from a replica at work
  faults      \* faults spent so far

workerVars == <<position, at, attempt>>
persisted == <<rows, dlq, dropped>>
alertsVars == <<topic, committed, owner, workerVars, persisted, skipped, overlapped, faults>>

Steps == {"polling", "checking", "inserting", "deadletter", "committing"}

Goto(w, place) == at' = [at EXCEPT ![w] = place]
Message(w) == topic[position[w]]
Fault == faults < MaxFaults /\ faults' = faults + 1

AlertsInit ==
  /\ topic = <<>>
  /\ committed = NoOffset
  /\ owner = Nobody
  /\ position = [w \in Workers |-> 1]
  /\ at = [w \in Workers |-> "polling"]
  /\ attempt = [w \in Workers |-> 1]
  /\ rows = [k \in Keys |-> 0]
  /\ dlq = {}
  /\ dropped = {}
  /\ skipped = {}
  /\ overlapped = FALSE
  /\ faults = 0

Published == 1..Len(topic)
Stored(i) == i \in Published /\ topic[i] # Malformed /\ rows[topic[i]] > 0

\* What consume_alerts_forever may do with a message and call it done.
Settled(i) == Stored(i) \/ i \in dlq \/ i \in dropped

----------------------------------------------------------------------------
(* The broker *)

\* publish_alert_triggered, or anybody else's message on the topic.
Publish ==
  /\ Len(topic) < MaxLog
  /\ \E m \in Keys \cup {Malformed} : topic' = Append(topic, m)
  /\ UNCHANGED <<committed, owner, workerVars, persisted, skipped, overlapped, faults>>

StartAt == IF committed = NoOffset THEN Len(topic) + 1 ELSE committed

\* The partition is given to a replica waiting in poll(), which reads on from
\* the group's offset.  Messages before it that no replica took are passed.
Assign(w) ==
  /\ at[w] = "polling"
  /\ owner' = w
  /\ position' = [position EXCEPT ![w] = StartAt]
  /\ skipped' = IF committed = NoOffset
                THEN skipped \cup {i \in Published : ~Settled(i)}
                ELSE skipped
  /\ UNCHANGED <<topic, committed, at, attempt, persisted>>

\* Nobody has it: the group's first replica, or a successor.
Rebalance(w) ==
  /\ owner = Nobody
  /\ Assign(w)
  /\ UNCHANGED <<overlapped, faults>>

\* The partition moves to another replica: the owner waits in poll() too, or it
\* overran max.poll.interval and is still at work on its message.
TakeOver(w) ==
  /\ owner \notin {Nobody, w}
  /\ Fault
  /\ Assign(w)
  /\ overlapped' = (overlapped \/ at[owner] # "polling")

----------------------------------------------------------------------------
(* consume_alerts_forever, process_message, handle_alert_message *)

\* The next message; parse_alert_message sends a malformed one to the
\* dead-letter topic, anything else is persisted.
Receive(w) ==
  /\ owner = w
  /\ at[w] = "polling"
  /\ position[w] <= Len(topic)
  /\ Goto(w, IF Message(w) = Malformed THEN "deadletter" ELSE "checking")
  /\ UNCHANGED <<topic, committed, owner, position, attempt, persisted, skipped,
                 overlapped, faults>>

\* Variant: persist_alert inserts without looking.
CheckNothing(w) ==
  /\ at[w] = "checking"
  /\ Goto(w, "inserting")
  /\ UNCHANGED <<topic, committed, owner, position, attempt, persisted, skipped,
                 overlapped, faults>>

\* persist_alert: does the key have a row?
CheckDuplicate(w) ==
  /\ at[w] = "checking"
  /\ Goto(w, IF rows[Message(w)] > 0 THEN "committing" ELSE "inserting")
  /\ UNCHANGED <<topic, committed, owner, position, attempt, persisted, skipped,
                 overlapped, faults>>

InsertRow(k) == rows' = [rows EXCEPT ![k] = @ + 1]

Insert(w) ==
  /\ at[w] = "inserting"
  /\ InsertRow(Message(w))
  /\ Goto(w, "committing")
  /\ UNCHANGED <<topic, committed, owner, position, attempt, dlq, dropped,
                 skipped, overlapped, faults>>

\* Variant: the attempts are not counted.
RetryUncounted(w) == Goto(w, "checking") /\ UNCHANGED attempt

\* Variant: a message whose attempts are exhausted is let go.
RetryThenForget(w) ==
  IF attempt[w] < MAX_RETRIES
  THEN attempt' = [attempt EXCEPT ![w] = @ + 1] /\ Goto(w, "checking")
  ELSE UNCHANGED attempt /\ Goto(w, "committing")

\* except Exception: try again, MAX_RETRIES times in all.
Retry(w) ==
  IF attempt[w] < MAX_RETRIES
  THEN /\ attempt' = [attempt EXCEPT ![w] = @ + 1]
       /\ Goto(w, "checking")
  ELSE /\ Goto(w, "deadletter")
       /\ UNCHANGED attempt

PersistFails(w) ==
  /\ at[w] \in {"checking", "inserting"}
  /\ Retry(w)
  /\ UNCHANGED <<topic, committed, owner, position, persisted, skipped, overlapped,
                 faults>>

\* The row was committed but the answer was lost.
InsertReplyLost(w) ==
  /\ at[w] = "inserting"
  /\ InsertRow(Message(w))
  /\ Retry(w)
  /\ UNCHANGED <<topic, committed, owner, position, dlq, dropped, skipped,
                 overlapped, faults>>

SendToDeadLetter(w) ==
  /\ at[w] = "deadletter"
  /\ dlq' = dlq \cup {position[w]}
  /\ Goto(w, "committing")
  /\ UNCHANGED <<topic, committed, owner, position, attempt, rows, dropped,
                 skipped, overlapped, faults>>

\* send_to_dead_letter returns False, which process_message ignores.
DeadLetterFails(w) ==
  /\ at[w] = "deadletter"
  /\ dropped' = dropped \cup {position[w]}
  /\ Goto(w, "committing")
  /\ UNCHANGED <<topic, committed, owner, position, attempt, rows, dlq, skipped,
                 overlapped, faults>>

\* consumer.commit(): everything before the next message is done with.
CommitOffset(w) ==
  /\ at[w] = "committing"
  /\ owner = w
  /\ committed' = position[w] + 1
  /\ position' = [position EXCEPT ![w] = @ + 1]
  /\ attempt' = [attempt EXCEPT ![w] = 1]
  /\ Goto(w, "polling")
  /\ UNCHANGED <<topic, owner, persisted, skipped, overlapped, faults>>

\* A new KafkaConsumer, which has no position until it is assigned one.
Reconnect(w) ==
  /\ Goto(w, "polling")
  /\ position' = [position EXCEPT ![w] = 1]
  /\ attempt' = [attempt EXCEPT ![w] = 1]

\* A replica that lost the assignment gets CommitFailedError, logs "Kafka
\* unavailable" and builds a new consumer.
CommitRefused(w) ==
  /\ at[w] = "committing"
  /\ owner # w
  /\ Reconnect(w)
  /\ UNCHANGED <<topic, committed, owner, persisted, skipped, overlapped, faults>>

\* The process dies or its connection does: the partition becomes free and the
\* replica starts over with a new consumer.
Crash(w) ==
  /\ owner = w \/ at[w] # "polling"
  /\ Fault
  /\ owner' = IF owner = w THEN Nobody ELSE owner
  /\ Reconnect(w)
  /\ UNCHANGED <<topic, committed, persisted, skipped, overlapped>>

Process(w) ==
  \/ Receive(w) \/ CheckDuplicate(w) \/ Insert(w) \/ PersistFails(w) \/ InsertReplyLost(w)
  \/ SendToDeadLetter(w) \/ DeadLetterFails(w) \/ CommitOffset(w)
  \/ CommitRefused(w)

AlertsNext ==
  \/ Publish
  \/ \E w \in Workers :
       Rebalance(w) \/ TakeOver(w) \/ Process(w) \/ Crash(w)

\* A replica goes on with what it has, and the broker does not leave the
\* partition unassigned while replicas wait for it.
Fairness ==
  /\ \A w \in Workers : WF_alertsVars(Process(w))
  /\ WF_alertsVars(\E w \in Workers : Rebalance(w))

AlertsSpec == AlertsInit /\ [][AlertsNext]_alertsVars /\ Fairness

----------------------------------------------------------------------------
(* What is checked *)

AlertsTypeOK ==
  /\ topic \in Seq(Keys \cup {Malformed})
  /\ Len(topic) <= MaxLog
  /\ committed \in 0..MaxLog + 1
  /\ owner \in Workers \cup {Nobody}
  /\ position \in [Workers -> 1..MaxLog + 1]
  /\ at \in [Workers -> Steps]
  /\ attempt \in [Workers -> 1..MAX_RETRIES]
  /\ rows \in [Keys -> Nat]
  /\ dlq \subseteq 1..MaxLog
  /\ dropped \subseteq 1..MaxLog
  /\ skipped \subseteq 1..MaxLog
  /\ overlapped \in BOOLEAN
  /\ faults \in 0..MaxFaults

\* The offset is committed past a message only once the message is settled, or
\* the group passed it when it had no offset.
CommittedAreSettled ==
  \A i \in Published : i < committed => Settled(i) \/ i \in skipped

\* A key has one alert, whatever is redelivered and retried, unless a replica
\* lost the partition while it was at work.
OneAlertPerKey == \A k \in Keys : rows[k] <= 1 \/ overlapped

\* Every message is settled in the end, or was passed for want of an offset.
EventuallySettled ==
  \A i \in 1..MaxLog : i \in Published ~> Settled(i) \/ i \in skipped

============================================================================
