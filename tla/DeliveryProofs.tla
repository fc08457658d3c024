-------------------------- MODULE DeliveryProofs ---------------------------
(***************************************************************************)
(* Proofs about what clients are given: the messages of LiveFanout, for    *)
(* any number of replicas, connections, messages and faults, and, of the   *)
(* Readers of the board, the answers of GraphApi and those of Statistics,  *)
(* for any cases, runs, documents, requests and number of writes by        *)
(* others.                                                                 *)
(***************************************************************************)
EXTENDS LiveFanout, Readers, HistoriesProofs, SequenceTheorems

Has(s, m) == \E i \in 1..Len(got[s]) : got[s][i] = m
Waits(r, m) == \E i \in 1..Len(queue[r]) : queue[r][i] = m
UnderWay(r, m) == \E b \in broadcasts : b.replica = r /\ b.message = m

\* Some replica broadcast m by itself, of those in l.
AloneIn(l, m) == \E r \in Replicas : <<r, m>> \in l

\* A room has connections of its replica only, and all that are open.
RoomsHold ==
  /\ \A r \in Replicas : \A s \in room[r] : Home[s] = r
  /\ \A s \in Sockets : socket[s] = "open" => s \in room[Home[s]]

\* Redis's messages reach a replica's sockets in the order of their numbers: m is
\* after what they were sent and before what waits.
InTurn(r, m) ==
  /\ \A i \in 1..Len(queue[r]) : m < queue[r][i]
  /\ \A s \in Sockets : Home[s] = r =>
       \A k \in 1..Len(got[s]) : got[s][k] <= m \/ AloneIn(local, got[s][k])

\* What a broadcast under way has done and for whom it began.
Sending(b) ==
  /\ b.message <= published
  /\ b.dead \subseteq Gone
  /\ \A s \in b.sent : s \in Gone \/ Has(s, b.message)
  /\ \A s \in OpenIn(b.replica) : joined[s] < b.message => s \in b.members
  /\ b.via = "local" => <<b.replica, b.message>> \in local
  /\ b.via = "redis" => InTurn(b.replica, b.message)

SendingsSound == \A b \in broadcasts : Sending(b)

\* A replica has one broadcast of Redis's messages under way, and one by itself of
\* a message.
OneAtATime ==
  \A b, c \in broadcasts :
    (/\ b.replica = c.replica /\ b.via = c.via
     /\ b.via = "redis" \/ b.message = c.message) => b = c

QueuesInOrder ==
  \A r \in Replicas : \A i \in 1..Len(queue[r]) :
    /\ queue[r][i] <= published
    /\ \A j \in 1..Len(queue[r]) : i < j => queue[r][i] < queue[r][j]
    /\ \A s \in Sockets : Home[s] = r =>
         \A k \in 1..Len(got[s]) : got[s][k] < queue[r][i] \/ AloneIn(local, got[s][k])

GotPublished == \A s \in Sockets : \A k \in 1..Len(got[s]) : got[s][k] <= published

LocalPublished == \A r \in Replicas, m \in Messages : <<r, m>> \in local => m <= published

\* A socket may yet be sent m through Redis, or by its replica itself.
DueRedis(s, m) ==
  \/ Waits(Home[s], m)
  \/ \E b \in broadcasts :
       b.replica = Home[s] /\ b.message = m /\ b.via = "redis" /\ s \notin b.sent
DueLocal(s, m) ==
  \E b \in broadcasts :
    b.replica = Home[s] /\ b.message = m /\ b.via = "local" /\ s \notin b.sent

\* What a socket was sent and may yet be sent is not too much.
Within(s, m) ==
  Times(s, m) + (IF DueRedis(s, m) THEN 1 ELSE 0) + (IF DueLocal(s, m) THEN 1 ELSE 0)
    <= IF m \in repeated THEN 2 ELSE 1
Counted == \A s \in Sockets, m \in Messages : Within(s, m)

\* A message is on its way to everyone who was there, or arrived, or its broadcast
\* raised.
Comes(r, m, s) == UnderWay(r, m) \/ Has(s, m) \/ <<r, m>> \in aborted
OnItsWay ==
  \A r \in Replicas, m \in Messages : \A s \in OpenIn(r) :
    joined[s] < m /\ m <= published =>
      /\ <<r, m>> \in local => Comes(r, m, s)
      /\ <<r, m>> \notin missed => Waits(r, m) \/ Comes(r, m, s)

Records ==
  [replica : Replicas, message : Messages, via : Via, popped : BOOLEAN,
   members : SUBSET Sockets, sent : SUBSET Sockets, dead : SUBSET Sockets]

\* What keeps the messages in order.
Orders ==
  RoomsHold /\ SendingsSound /\ OneAtATime /\ GotPublished /\ InOrder /\ QueuesInOrder

FanoutInv == TypeOK /\ Orders /\ LocalPublished /\ Counted /\ OnItsWay

LEMMA Numbers == MaxMessages \in Nat /\ Messages \subseteq Nat /\ \A s \in Sockets : Home[s] \in Replicas
BY FanoutAssumption DEF Messages

LEMMA Shape ==
  ASSUME TypeOK
  PROVE  /\ published \in Nat /\ published <= MaxMessages
         /\ \A r \in Replicas : queue[r] \in Seq(Messages) /\ Len(queue[r]) \in Nat
         /\ \A s \in Sockets : got[s] \in Seq(Messages) /\ Len(got[s]) \in Nat
         /\ \A r \in Replicas : \A i \in 1..Len(queue[r]) : queue[r][i] \in Nat
         /\ \A s \in Sockets : \A i \in 1..Len(got[s]) : got[s][i] \in Nat /\ got[s][i] \in Messages
         /\ \A s \in Sockets : joined[s] \in Nat
         /\ broadcasts \subseteq Records
         /\ \A b \in Records : b.message \in Messages /\ b.message \in Nat /\ b.replica \in Replicas
<1>1. published \in Nat /\ published <= MaxMessages
  BY Numbers DEF TypeOK
<1>2. /\ \A r \in Replicas : queue[r] \in Seq(Messages)
      /\ \A s \in Sockets : got[s] \in Seq(Messages)
  BY DEF TypeOK
<1>3. ASSUME NEW q \in Seq(Messages)
      PROVE  Len(q) \in Nat /\ \A i \in 1..Len(q) : q[i] \in Messages /\ q[i] \in Nat
  <2>1. Len(q) \in Nat /\ \A i \in 1..Len(q) : q[i] \in Messages
    OBVIOUS
  <2> QED BY <2>1, Numbers
<1>4. \A s \in Sockets : joined[s] \in Nat
  BY Numbers DEF TypeOK
<1>5. broadcasts \subseteq Records
  BY DEF TypeOK, Records
<1>6. \A b \in Records : b.message \in Messages /\ b.message \in Nat /\ b.replica \in Replicas
  BY Numbers DEF Records
<1> QED BY <1>1, <1>2, <1>3, <1>4, <1>5, <1>6

(***************************************************************************)
(* A send: c is the broadcast after it, s the socket it went to.           *)
(***************************************************************************)
After(b, s) ==
  [b EXCEPT !.sent = @ \cup {s}, !.dead = @ \cup IF s \in Gone THEN {s} ELSE {}]

Delivers(c, s) ==
  /\ got' \in [Sockets -> Seq(Messages)]
  /\ \A q \in Sockets \ {s} : got'[q] = got[q]
  /\ s \in Gone => got'[s] = got[s]
  /\ s \notin Gone => got'[s] = Append(got[s], c.message)

LEMMA AfterIs ==
  ASSUME NEW b \in Records, NEW s \in Sockets
  PROVE  LET c == After(b, s)
         IN  /\ c \in Records /\ c.replica = b.replica /\ c.message = b.message
             /\ c.via = b.via /\ c.members = b.members
             /\ c.sent = b.sent \cup {s} /\ c.dead = b.dead \cup ({s} \cap Gone)
<1> DEFINE dead == IF s \in Gone THEN {s} ELSE {}
           c == [b EXCEPT !.sent = @ \cup {s}, !.dead = @ \cup dead]
<1>1. dead \in SUBSET Sockets /\ dead = {s} \cap Gone
  OBVIOUS
<1> HIDE DEF dead
<1>2. /\ c \in Records /\ c.replica = b.replica /\ c.message = b.message /\ c.via = b.via
      /\ c.members = b.members /\ c.sent = b.sent \cup {s} /\ c.dead = b.dead \cup dead
  BY <1>1 DEF Records
<1> HIDE DEF c
<1>3. After(b, s) = c
  BY DEF After, c, dead
<1> QED BY <1>1, <1>2, <1>3

LEMMA DeliversIs ==
  ASSUME TypeOK, NEW c \in Records, NEW s \in Sockets,
         got' = IF s \in Gone THEN got ELSE [got EXCEPT ![s] = Append(@, c.message)]
  PROVE  Delivers(c, s)
<1>1. c.message \in Messages /\ got \in [Sockets -> Seq(Messages)]
  BY DEF Records, TypeOK
<1> QED BY <1>1 DEF Delivers

\* A broadcast begins with a send, or its room is empty.
LEMMA BeginDelivers ==
  ASSUME TypeOK, NEW r \in Replicas, NEW m \in Messages, NEW via \in Via, Begin(r, m, via)
  PROVE  \/ room[r] = {} /\ UNCHANGED <<broadcasts, got>>
         \/ \E s \in room[r], c \in Records :
              /\ s \in Sockets /\ broadcasts' = broadcasts \cup {c} /\ Delivers(c, s)
              /\ c.replica = r /\ c.message = m /\ c.via = via
              /\ c.members = room[r] /\ c.sent = {s} /\ c.dead = {s} \cap Gone
<1> DEFINE b == [replica |-> r, message |-> m, via |-> via, members |-> room[r],
                 popped |-> FALSE, sent |-> {}, dead |-> {}]
<1>1. \/ room[r] = {} /\ UNCHANGED <<broadcasts, got>>
      \/ \E s \in room[r] :
           /\ broadcasts' = broadcasts \cup {After(b, s)}
           /\ got' = IF s \in Gone THEN got ELSE [got EXCEPT ![s] = Append(@, b.message)]
  BY DEF Begin, Send, After
<1>2. room[r] \subseteq Sockets
  BY DEF TypeOK
<1>3. /\ b \in Records /\ b.replica = r /\ b.message = m /\ b.via = via
      /\ b.members = room[r] /\ b.sent = {} /\ b.dead = {}
  BY <1>2 DEF Records
<1> HIDE DEF b
<1>4. ASSUME NEW s \in room[r], broadcasts' = broadcasts \cup {After(b, s)},
             got' = IF s \in Gone THEN got ELSE [got EXCEPT ![s] = Append(@, b.message)]
      PROVE  \E c \in Records :
               /\ s \in Sockets /\ broadcasts' = broadcasts \cup {c} /\ Delivers(c, s)
               /\ c.replica = r /\ c.message = m /\ c.via = via
               /\ c.members = room[r] /\ c.sent = {s} /\ c.dead = {s} \cap Gone
  <2>0. s \in Sockets
    BY <1>2
  <2>1. PICK c : c = After(b, s)
    OBVIOUS
  <2>2. /\ c \in Records /\ c.replica = r /\ c.message = m
        /\ c.via = via /\ c.members = room[r]
        /\ c.sent = {s} /\ c.dead = {s} \cap Gone
    BY <1>3, <2>0, <2>1, AfterIs
  <2>3. Delivers(c, s)
    <3>1. got' = IF s \in Gone THEN got ELSE [got EXCEPT ![s] = Append(@, c.message)]
      BY <1>3, <1>4, <2>2
    <3> QED BY <2>0, <2>2, <3>1, DeliversIs
  <2> QED BY <1>4, <2>0, <2>1, <2>2, <2>3
<1> QED BY <1>1, <1>4

\* What the sockets have after a send.
LEMMA GotGrows ==
  ASSUME TypeOK, NEW c \in Records, NEW s \in Sockets, Delivers(c, s)
  PROVE  /\ \A q \in Sockets : Len(got'[q]) \in Nat
         /\ \A q \in Sockets : \A k \in 1..Len(got'[q]) :
              \/ k \in 1..Len(got[q]) /\ got'[q][k] = got[q][k]
              \/ q = s /\ k = Len(got[q]) + 1 /\ got'[q][k] = c.message
         /\ \A q \in Sockets : \A k \in 1..Len(got[q]) :
              k \in 1..Len(got'[q]) /\ got'[q][k] = got[q][k]
         /\ s \in Gone \/ Has(s, c.message)'
<1>1. ASSUME NEW q \in Sockets
      PROVE  \/ got'[q] = got[q]
             \/ q = s /\ s \notin Gone /\ got'[q] = Append(got[q], c.message)
  BY DEF Delivers
<1>2. ASSUME NEW q \in Sockets
      PROVE  /\ Len(got'[q]) \in Nat
             /\ \A k \in 1..Len(got'[q]) :
                  \/ k \in 1..Len(got[q]) /\ got'[q][k] = got[q][k]
                  \/ q = s /\ k = Len(got[q]) + 1 /\ got'[q][k] = c.message
             /\ \A k \in 1..Len(got[q]) : k \in 1..Len(got'[q]) /\ got'[q][k] = got[q][k]
  <2>1. got[q] \in Seq(Messages) /\ c.message \in Messages /\ Len(got[q]) \in Nat
    BY Shape
  <2> QED BY <1>1, <2>1
<1>3. s \notin Gone => Has(s, c.message)'
  <2> SUFFICES ASSUME s \notin Gone PROVE Has(s, c.message)'
    OBVIOUS
  <2>1. got[s] \in Seq(Messages) /\ c.message \in Messages /\ Len(got[s]) \in Nat
    BY Shape
  <2>2. got'[s] = Append(got[s], c.message)
    BY DEF Delivers
  <2>3. Len(got[s]) + 1 \in 1..Len(got'[s]) /\ got'[s][Len(got[s]) + 1] = c.message
    BY <2>1, <2>2
  <2> QED BY <2>3 DEF Has
<1> QED BY <1>2, <1>3

LEMMA TimesGrow ==
  ASSUME TypeOK, NEW c \in Records, NEW s \in Sockets, Delivers(c, s)
  PROVE  \A q \in Sockets, m \in Messages :
           /\ Times(q, m) \in Nat /\ Times(q, m)' \in Nat
           /\ Times(q, m)' <= Times(q, m) + 1
           /\ q # s \/ m # c.message => Times(q, m)' = Times(q, m)
<1> SUFFICES ASSUME NEW q \in Sockets, NEW m \in Messages
             PROVE  /\ Times(q, m) \in Nat /\ Times(q, m)' \in Nat
                    /\ Times(q, m)' <= Times(q, m) + 1
                    /\ q # s \/ m # c.message => Times(q, m)' = Times(q, m)
  OBVIOUS
<1> DEFINE I == {i \in 1..Len(got[q]) : got[q][i] = m}
           J == {i \in 1..Len(got'[q]) : got'[q][i] = m}
           n == Len(got[q]) + 1
<1>0. Len(got[q]) \in Nat /\ Len(got'[q]) \in Nat
  BY Shape, GotGrows
<1>1. IsFiniteSet(I)
  <2>1. 1 \in Int /\ Len(got[q]) \in Int
    BY <1>0
  <2>2. IsFiniteSet(1..Len(got[q]))
    BY <2>1, FS_Interval
  <2> QED BY <2>2, FS_Subset
<1>2. I \subseteq J /\ J \subseteq I \cup {n} /\ ((q # s \/ m # c.message) => J = I)
  <2>1. \A k \in 1..Len(got'[q]) :
          \/ k \in 1..Len(got[q]) /\ got'[q][k] = got[q][k]
          \/ q = s /\ k = n /\ got'[q][k] = c.message
    <3> HIDE DEF I, J
    <3> QED BY GotGrows
  <2>2. \A k \in 1..Len(got[q]) : k \in 1..Len(got'[q]) /\ got'[q][k] = got[q][k]
    BY GotGrows
  <2> HIDE DEF n
  <2>3. I \subseteq J
    BY <2>2
  <2>4. J \subseteq I \cup {n}
    BY <2>1
  <2>5. (q # s \/ m # c.message) => J \subseteq I
    BY <2>1
  <2> QED BY <2>3, <2>4, <2>5
<1>3. /\ IsFiniteSet(I \cup {n}) /\ Cardinality(I) \in Nat
      /\ Cardinality(I \cup {n}) <= Cardinality(I) + 1 /\ Cardinality(I \cup {n}) \in Nat
  <2> HIDE DEF I, n
  <2>1. IsFiniteSet(I \cup {n}) /\ Cardinality(I) \in Nat /\ Cardinality(I \cup {n}) \in Nat
    BY <1>1, FS_AddElement, FS_CardinalityType
  <2>2. Cardinality(I \cup {n}) = Cardinality(I) \/ Cardinality(I \cup {n}) = Cardinality(I) + 1
    BY <1>1, FS_AddElement
  <2> QED BY <2>1, <2>2
<1>4. Cardinality(J) <= Cardinality(I \cup {n}) /\ Cardinality(J) \in Nat
  BY <1>2, <1>3, FS_Subset, FS_CardinalityType
<1>5. Times(q, m) = Cardinality(I) /\ Times(q, m)' = Cardinality(J)
  BY DEF Times
<1> HIDE DEF I, J
<1> QED BY <1>2, <1>3, <1>4, <1>5

LEMMA TimesCount ==
  ASSUME TypeOK, NEW q \in Sockets, NEW m \in Messages
  PROVE  Times(q, m) \in Nat /\ (Has(q, m) <=> Times(q, m) > 0)
<1> DEFINE I == {i \in 1..Len(got[q]) : got[q][i] = m}
<1>1. IsFiniteSet(I)
  <2>1. 1 \in Int /\ Len(got[q]) \in Int
    BY Shape
  <2>2. IsFiniteSet(1..Len(got[q]))
    BY <2>1, FS_Interval
  <2> QED BY <2>2, FS_Subset
<1>2. Cardinality(I) \in Nat /\ (Cardinality(I) = 0 <=> I = {})
  BY <1>1, FS_CardinalityType, FS_EmptySet
<1> QED BY <1>2 DEF Times, Has

(***************************************************************************)
(* The order of messages                                                   *)
(***************************************************************************)
\* A step that gives a queue only a message newer than all.
QueuesMove ==
  /\ published' \in Nat /\ published <= published' /\ local \subseteq local'
  /\ queue' \in [Replicas -> Seq(Messages)]
  /\ \A r \in Replicas : \A i \in 1..Len(queue'[r]) :
       /\ \/ \E j \in 1..Len(queue[r]) : queue'[r][i] = queue[r][j]
          \/ queue'[r][i] > published
       /\ queue'[r][i] <= published'
       /\ \A j \in 1..Len(queue'[r]) : i < j => queue'[r][i] < queue'[r][j]

LEMMA QueueNumbers ==
  ASSUME QueuesMove, NEW r \in Replicas
  PROVE  Len(queue'[r]) \in Nat /\ \A i \in 1..Len(queue'[r]) : queue'[r][i] \in Nat
<1> DEFINE q == queue'[r]
<1>1. q \in Seq(Messages)
  BY DEF QueuesMove
<1> HIDE DEF q
<1>2. Len(q) \in Nat /\ \A i \in 1..Len(q) : q[i] \in Messages
  BY <1>1
<1>3. Len(q) \in Nat /\ \A i \in 1..Len(q) : q[i] \in Nat
  BY <1>2, Numbers
<1> QED BY <1>3 DEF q

\* A broadcast that goes on while queues move stays in its turn.
LEMMA TurnKept ==
  ASSUME TypeOK, QueuesMove, NEW r \in Replicas, NEW m \in Nat, m <= published, InTurn(r, m),
         \A s \in Sockets : Home[s] = r =>
           \A k \in 1..Len(got'[s]) : \/ k \in 1..Len(got[s]) /\ got'[s][k] = got[s][k]
                                      \/ AloneIn(local', got'[s][k])
  PROVE  InTurn(r, m)'
<1>1. ASSUME NEW i \in 1..Len(queue'[r]) PROVE m < queue'[r][i]
  <2>1. CASE \E j \in 1..Len(queue[r]) : queue'[r][i] = queue[r][j]
    BY <2>1 DEF InTurn
  <2>2. CASE queue'[r][i] > published
    <3>1. queue'[r][i] \in Nat
      BY QueueNumbers
    <3> QED BY <2>2, <3>1, Shape
  <2> QED BY <2>1, <2>2 DEF QueuesMove
<1>2. ASSUME NEW s \in Sockets, Home[s] = r, NEW k \in 1..Len(got'[s])
      PROVE  got'[s][k] <= m \/ AloneIn(local', got'[s][k])
  <2>1. CASE k \in 1..Len(got[s]) /\ got'[s][k] = got[s][k]
    <3>1. got[s][k] <= m \/ AloneIn(local, got[s][k])
      BY <1>2, <2>1 DEF InTurn
    <3>2. AloneIn(local, got[s][k]) => AloneIn(local', got'[s][k])
      BY <2>1 DEF QueuesMove, AloneIn
    <3> QED BY <2>1, <3>1, <3>2
  <2>2. CASE AloneIn(local', got'[s][k])
    BY <2>2
  <2> QED BY <1>2, <2>1, <2>2
<1> QED BY <1>1, <1>2 DEF InTurn

\* Nothing is sent.
LEMMA QuietKeeps ==
  ASSUME TypeOK, Orders, QueuesMove, UNCHANGED <<rooms, broadcasts, got>>
  PROVE  Orders'
<1>0. UNCHANGED <<socket, room, joined>>
  BY DEF rooms
<1>1. RoomsHold' /\ OneAtATime'
  BY <1>0 DEF Orders, RoomsHold, OneAtATime
<1>2. SendingsSound'
  <2>1. ASSUME NEW b \in broadcasts PROVE Sending(b)'
    <3>1. Sending(b) /\ b \in Records /\ b.message \in Nat /\ b.replica \in Replicas
      BY Shape DEF Orders, SendingsSound
    <3>2. b.message <= published' /\ (b.via = "local" => <<b.replica, b.message>> \in local')
      <4>1. b.message <= published /\ published \in Nat
        BY <3>1, Shape DEF Sending
      <4> QED BY <3>1, <4>1 DEF Sending, QueuesMove
    <3>3. b.via = "redis" => InTurn(b.replica, b.message)'
      BY <3>1, TurnKept DEF Sending
    <3> QED BY <1>0, <3>1, <3>2, <3>3 DEF Sending, Gone, OpenIn, Has
  <2> QED BY <2>1 DEF SendingsSound
<1>3. GotPublished'
  <2>1. \A s \in Sockets : \A k \in 1..Len(got[s]) : got[s][k] <= published /\ got[s][k] \in Nat
    BY Shape DEF Orders, GotPublished
  <2> QED BY <2>1, Shape DEF QueuesMove, GotPublished
<1>4. InOrder'
  BY DEF Orders, InOrder, QueuesMove
<1>5. QueuesInOrder'
  <2>1. ASSUME NEW r \in Replicas, NEW i \in 1..Len(queue'[r]), NEW s \in Sockets, Home[s] = r,
               NEW k \in 1..Len(got[s])
        PROVE  got[s][k] < queue'[r][i] \/ AloneIn(local', got[s][k])
    <3>1. CASE \E j \in 1..Len(queue[r]) : queue'[r][i] = queue[r][j]
      <4>1. got[s][k] < queue'[r][i] \/ AloneIn(local, got[s][k])
        BY <2>1, <3>1 DEF Orders, QueuesInOrder
      <4> QED BY <4>1 DEF QueuesMove, AloneIn
    <3>2. CASE queue'[r][i] > published
      <4>1. got[s][k] <= published /\ got[s][k] \in Nat /\ published \in Nat
        BY Shape DEF Orders, GotPublished
      <4>2. queue'[r][i] \in Nat
        BY QueueNumbers
      <4> QED BY <3>2, <4>1, <4>2
    <3> QED BY <3>1, <3>2 DEF QueuesMove
  <2> QED BY <2>1 DEF QueuesInOrder, QueuesMove
<1> QED BY <1>1, <1>2, <1>3, <1>4, <1>5 DEF Orders

\* c is sent to s.
LEMMA SendKeeps ==
  ASSUME TypeOK, Orders, QueuesMove, UNCHANGED rooms,
         NEW others \in SUBSET broadcasts, NEW c \in Records, NEW s \in room[c.replica],
         s \in Sockets, broadcasts' = others \cup {c}, Delivers(c, s),
         c.message <= published', c.dead \subseteq Gone,
         \A q \in c.sent : q = s \/ q \in Gone \/ Has(q, c.message),
         \A q \in OpenIn(c.replica) : joined[q] < c.message => q \in c.members,
         c.via = "local" => <<c.replica, c.message>> \in local',
         c.via = "redis" =>
           /\ \A i \in 1..Len(queue'[c.replica]) : c.message < queue'[c.replica][i]
           /\ \A q \in Sockets : Home[q] = c.replica =>
                \A k \in 1..Len(got[q]) : got[q][k] <= c.message \/ AloneIn(local, got[q][k]),
         \A b \in others : ~(/\ b.replica = c.replica /\ b.via = c.via
                             /\ b.via = "redis" \/ b.message = c.message)
  PROVE  Orders'
<1>0. /\ UNCHANGED <<socket, room, joined>> /\ Home[s] = c.replica
      /\ c.replica \in Replicas /\ c.message \in Nat
  BY Shape DEF rooms, Orders, RoomsHold
<1>1. RoomsHold' /\ OneAtATime'
  <2>1. \A b \in others, d \in others :
          (/\ b.replica = d.replica /\ b.via = d.via
           /\ b.via = "redis" \/ b.message = d.message) => b = d
    BY DEF Orders, OneAtATime
  <2> QED BY <1>0, <2>1 DEF Orders, RoomsHold, OneAtATime
<1>2. \A m : AloneIn(local, m) => AloneIn(local', m)
  BY DEF QueuesMove, AloneIn
<1>3. c.via = "local" => AloneIn(local', c.message)
  BY <1>0 DEF AloneIn
<1>4. c.via \in {"local", "redis"}
  BY DEF Records, Via
<1> DEFINE Old(q, k) == k \in 1..Len(got[q]) /\ got'[q][k] = got[q][k]
           New(q, k) == q = s /\ k = Len(got[q]) + 1 /\ got'[q][k] = c.message
<1>5. \A q \in Sockets : \A k \in 1..Len(got'[q]) : Old(q, k) \/ New(q, k)
  BY GotGrows
<1>6. \A q \in Sockets : \A m : Has(q, m) => Has(q, m)'
  BY GotGrows DEF Has
<1>7. \A q \in Sockets : \A k \in 1..Len(got[q]) :
        got[q][k] <= published /\ got[q][k] \in Nat /\ published \in Nat
  BY Shape DEF Orders, GotPublished
<1>8. SendingsSound'
  <2>1. ASSUME NEW b \in others PROVE Sending(b)'
    <3>1. Sending(b) /\ b \in Records /\ b.message \in Nat /\ b.replica \in Replicas
      BY Shape DEF Orders, SendingsSound
    <3>2. b.message <= published' /\ (b.via = "local" => <<b.replica, b.message>> \in local')
      <4>1. b.message <= published /\ published \in Nat
        BY <3>1, Shape DEF Sending
      <4> QED BY <3>1, <4>1 DEF Sending, QueuesMove
    <3>3. ASSUME b.via = "redis" PROVE InTurn(b.replica, b.message)'
      <4>1. ASSUME NEW q \in Sockets, Home[q] = b.replica, NEW k \in 1..Len(got'[q])
            PROVE  Old(q, k) \/ AloneIn(local', got'[q][k])
        <5>1. CASE New(q, k)
          <6>1. b.replica = c.replica
            BY <1>0, <4>1, <5>1
          <6>2. c.via = "local"
            BY <1>4, <3>3, <6>1
          <6> QED BY <1>3, <5>1, <6>2
        <5> QED BY <1>5, <4>1, <5>1
      <4>2. b.message <= published /\ InTurn(b.replica, b.message)
        BY <3>1, <3>3 DEF Sending
      <4> QED BY <3>1, <4>1, <4>2, TurnKept
    <3>4. \A q \in b.sent : q \in Gone \/ Has(q, b.message)'
      BY <1>6, <3>1 DEF Sending, Records
    <3> QED BY <1>0, <3>1, <3>2, <3>3, <3>4 DEF Sending, Gone, OpenIn
  <2>2. Sending(c)'
    <3>1. \A q \in c.sent : q \in Gone \/ Has(q, c.message)'
      BY <1>6, GotGrows DEF Records
    <3>2. ASSUME c.via = "redis" PROVE InTurn(c.replica, c.message)'
      <4>1. ASSUME NEW q \in Sockets, Home[q] = c.replica, NEW k \in 1..Len(got'[q])
            PROVE  got'[q][k] <= c.message \/ AloneIn(local', got'[q][k])
        <5>1. CASE Old(q, k)
          <6>1. got[q][k] <= c.message \/ AloneIn(local, got[q][k])
            BY <3>2, <4>1, <5>1
          <6> QED BY <1>2, <5>1, <6>1
        <5>2. CASE New(q, k)
          BY <1>0, <5>2
        <5> QED BY <1>5, <4>1, <5>1, <5>2
      <4> QED BY <3>2, <4>1 DEF InTurn
    <3> QED BY <1>0, <3>1, <3>2 DEF Sending, Gone, OpenIn
  <2> QED BY <2>1, <2>2 DEF SendingsSound
<1>9. GotPublished'
  <2>1. ASSUME NEW q \in Sockets, NEW k \in 1..Len(got'[q]) PROVE got'[q][k] <= published'
    <3>1. CASE Old(q, k)
      BY <1>7, <3>1 DEF QueuesMove
    <3>2. CASE New(q, k)
      BY <3>2
    <3> QED BY <1>5, <3>1, <3>2
  <2> QED BY <2>1 DEF GotPublished
<1>10. InOrder'
  <2>1. ASSUME NEW q \in Sockets, NEW i \in 1..Len(got'[q]), NEW j \in 1..Len(got'[q]), i < j
        PROVE  got'[q][i] <= got'[q][j] \/ AloneIn(local', got'[q][i]) \/ AloneIn(local', got'[q][j])
    <3>0. Len(got[q]) \in Nat
      BY Shape
    <3>1. CASE Old(q, i) /\ Old(q, j)
      <4>1. got[q][i] <= got[q][j] \/ AloneIn(local, got[q][i]) \/ AloneIn(local, got[q][j])
        <5>1. \/ got[q][i] <= got[q][j]
              \/ \E r \in Replicas : {<<r, got[q][i]>>, <<r, got[q][j]>>} \cap local # {}
          BY <2>1, <3>1 DEF Orders, InOrder
        <5> QED BY <5>1 DEF AloneIn
      <4> QED BY <1>2, <3>1, <4>1
    <3>2. CASE Old(q, i) /\ New(q, j)
      <4>1. c.via = "redis" => got[q][i] <= c.message \/ AloneIn(local, got[q][i])
        BY <1>0, <3>2
      <4> QED BY <1>2, <1>3, <1>4, <3>2, <4>1
    <3>3. ~New(q, i)
      BY <1>5, <2>1, <3>0
    <3> QED BY <1>5, <3>1, <3>2, <3>3
  <2> QED BY <2>1 DEF InOrder, AloneIn
<1>11. QueuesInOrder'
  <2>1. ASSUME NEW r \in Replicas, NEW i \in 1..Len(queue'[r]), NEW q \in Sockets, Home[q] = r,
               NEW k \in 1..Len(got'[q])
        PROVE  got'[q][k] < queue'[r][i] \/ AloneIn(local', got'[q][k])
    <3>1. CASE Old(q, k) /\ \E j \in 1..Len(queue[r]) : queue'[r][i] = queue[r][j]
      <4>1. got[q][k] < queue'[r][i] \/ AloneIn(local, got[q][k])
        BY <2>1, <3>1 DEF Orders, QueuesInOrder
      <4> QED BY <1>2, <3>1, <4>1
    <3>2. CASE Old(q, k) /\ queue'[r][i] > published
      <4>1. queue'[r][i] \in Nat
        BY QueueNumbers
      <4> QED BY <1>7, <3>2, <4>1
    <3>3. CASE New(q, k)
      <4>1. c.via = "redis" => c.message < queue'[r][i]
        BY <1>0, <2>1, <3>3
      <4> QED BY <1>3, <1>4, <3>3, <4>1
    <3> QED BY <1>5, <3>1, <3>2, <3>3 DEF QueuesMove
  <2> QED BY <2>1 DEF QueuesInOrder, QueuesMove
<1> QED BY <1>1, <1>8, <1>9, <1>10, <1>11 DEF Orders


(***************************************************************************)
(* The queues                                                              *)
(***************************************************************************)
\* The next message of Redis is after all the others.
LEMMA PublishQueues ==
  ASSUME TypeOK, Orders, ToSubscribers, local \subseteq local'
  PROVE  /\ QueuesMove
         /\ Message \in Messages /\ published' = Message /\ published \in Nat
         /\ \A r \in Replicas, m \in Messages :
              /\ Waits(r, m) => Waits(r, m)'
              /\ Waits(r, m)' => Waits(r, m) \/ m = Message
         /\ \A r \in subscribed, m \in Messages : m = Message => Waits(r, m)'
<1>1. published' = published + 1 /\ published \in Nat /\ Message = published + 1 /\ Message \in Messages
  <2>1. published < MaxMessages /\ published' = Message
    BY DEF ToSubscribers
  <2> QED BY <2>1, Shape, Numbers DEF Message, Messages
<1>2. queue' = [r \in Replicas |-> IF r \in subscribed THEN Append(queue[r], Message) ELSE queue[r]]
  BY DEF ToSubscribers
<1>3. ASSUME NEW r \in Replicas
      PROVE  /\ queue'[r] \in Seq(Messages)
             /\ \A i \in 1..Len(queue'[r]) :
                  \/ i \in 1..Len(queue[r]) /\ queue'[r][i] = queue[r][i]
                  \/ i = Len(queue[r]) + 1 /\ queue'[r][i] = Message
             /\ \A i \in 1..Len(queue[r]) : i \in 1..Len(queue'[r]) /\ queue'[r][i] = queue[r][i]
             /\ r \in subscribed =>
                  /\ Len(queue[r]) + 1 \in 1..Len(queue'[r])
                  /\ queue'[r][Len(queue[r]) + 1] = Message
  <2>1. queue[r] \in Seq(Messages) /\ Len(queue[r]) \in Nat
    BY Shape
  <2>2. queue'[r] = queue[r] \/ queue'[r] = Append(queue[r], Message)
    BY <1>2
  <2>3. r \in subscribed => queue'[r] = Append(queue[r], Message)
    BY <1>2
  <2>4. Message \in Messages
    BY <1>1
  <2>5. CASE queue'[r] = queue[r] /\ r \notin subscribed
    BY <2>1, <2>5
  <2>6. CASE queue'[r] = Append(queue[r], Message)
    <3>1. PICK q \in Seq(Messages), m \in Messages : q = queue[r] /\ m = Message
      BY <2>1, <2>4
    <3>2. Append(q, m) \in Seq(Messages) /\ Len(q) \in Nat /\ Len(Append(q, m)) = Len(q) + 1
          /\ \A i \in 1..Len(q) : Append(q, m)[i] = q[i]
          /\ Append(q, m)[Len(q) + 1] = m
      BY AppendProperties
    <3> QED BY <2>6, <3>1, <3>2
  <2> QED BY <2>2, <2>3, <2>5, <2>6
<1>4. queue' \in [Replicas -> Seq(Messages)]
  BY <1>2, <1>3
<1>5. ASSUME NEW r \in Replicas, NEW i \in 1..Len(queue'[r])
      PROVE  /\ \/ \E j \in 1..Len(queue[r]) : queue'[r][i] = queue[r][j]
                \/ queue'[r][i] > published
             /\ queue'[r][i] <= published'
             /\ \A j \in 1..Len(queue'[r]) : i < j => queue'[r][i] < queue'[r][j]
  <2>0. /\ Len(queue[r]) \in Nat
        /\ \A k \in 1..Len(queue[r]) : queue[r][k] \in Nat /\ queue[r][k] <= published
    BY Shape DEF Orders, QueuesInOrder
  <2>1. CASE i \in 1..Len(queue[r]) /\ queue'[r][i] = queue[r][i]
    <3>1. queue'[r][i] <= published'
      BY <1>1, <2>0, <2>1
    <3>2. ASSUME NEW j \in 1..Len(queue'[r]), i < j PROVE queue'[r][i] < queue'[r][j]
      <4>1. CASE j \in 1..Len(queue[r]) /\ queue'[r][j] = queue[r][j]
        BY <2>1, <3>2, <4>1 DEF Orders, QueuesInOrder
      <4>2. CASE queue'[r][j] = Message
        BY <1>1, <2>0, <2>1, <4>2
      <4> QED BY <1>3, <4>1, <4>2
    <3> QED BY <2>1, <3>1, <3>2
  <2>2. CASE i = Len(queue[r]) + 1 /\ queue'[r][i] = Message
    <3>1. \A j \in 1..Len(queue'[r]) : ~(i < j)
      BY <1>3, <2>0, <2>2
    <3> QED BY <1>1, <2>2, <3>1
  <2> QED BY <1>3, <2>1, <2>2
<1>6. QueuesMove
  BY <1>1, <1>4, <1>5 DEF QueuesMove
<1>7. \A r \in Replicas, m \in Messages : /\ Waits(r, m) => Waits(r, m)'
                                          /\ Waits(r, m)' => Waits(r, m) \/ m = Message
  BY <1>3 DEF Waits
<1>8. \A r \in subscribed, m \in Messages : m = Message => Waits(r, m)'
  <2>1. subscribed \subseteq Replicas
    BY DEF TypeOK
  <2>2. \A r \in subscribed : \E i \in 1..Len(queue'[r]) : queue'[r][i] = Message
    BY <1>3, <2>1
  <2> QED BY <2>2 DEF Waits
<1> QED BY <1>1, <1>6, <1>7, <1>8

LEMMA TakeQueues ==
  ASSUME TypeOK, Orders, NEW r \in Replicas, queue[r] # <<>>,
         queue' = [queue EXCEPT ![r] = Tail(@)], UNCHANGED <<published, local>>
  PROVE  LET m == Head(queue[r])
         IN  /\ QueuesMove
             /\ m \in Messages /\ m <= published /\ Waits(r, m)
             /\ \A i \in 1..Len(queue'[r]) : m < queue'[r][i]
             /\ \A s \in Sockets : Home[s] = r =>
                  \A k \in 1..Len(got[s]) : got[s][k] <= m \/ AloneIn(local, got[s][k])
             /\ \A q \in Replicas, n \in Messages : Waits(q, n)' => Waits(q, n)
             /\ \A q \in Replicas, n \in Messages :
                  Waits(q, n) => Waits(q, n)' \/ (q = r /\ n = m)
<1> DEFINE m == Head(queue[r])
<1>1. queue[r] \in Seq(Messages) /\ queue[r] # <<>> /\ Len(queue[r]) \in Nat
  BY Shape
<1>2. /\ m = queue[r][1] /\ 1 \in 1..Len(queue[r]) /\ m \in Messages
      /\ Tail(queue[r]) \in Seq(Messages)
      /\ \A i \in 1..Len(Tail(queue[r])) :
           i + 1 \in 1..Len(queue[r]) /\ Tail(queue[r])[i] = queue[r][i + 1] /\ i \in Nat
      /\ \A i \in 1..Len(queue[r]) : i = 1 \/ (i - 1 \in 1..Len(Tail(queue[r])) /\ Tail(queue[r])[i - 1] = queue[r][i])
  BY <1>1
<1> HIDE DEF m
<1>3. queue'[r] = Tail(queue[r]) /\ \A q \in Replicas \ {r} : queue'[q] = queue[q]
  BY DEF TypeOK
<1>4. queue' \in [Replicas -> Seq(Messages)]
  BY <1>2 DEF TypeOK
<1>5. \A q \in Replicas : \A i \in 1..Len(queue[q]) :
        /\ queue[q][i] <= published /\ queue[q][i] \in Nat
        /\ \A j \in 1..Len(queue[q]) : i < j => queue[q][i] < queue[q][j]
  BY Shape DEF Orders, QueuesInOrder
<1>6. QueuesMove
  <2>1. ASSUME NEW q \in Replicas, NEW i \in 1..Len(queue'[q])
        PROVE  /\ \E j \in 1..Len(queue[q]) : queue'[q][i] = queue[q][j]
               /\ queue'[q][i] <= published
               /\ \A j \in 1..Len(queue'[q]) : i < j => queue'[q][i] < queue'[q][j]
    <3>1. CASE q = r
      <4>1. i + 1 \in 1..Len(queue[r]) /\ queue'[r][i] = queue[r][i + 1] /\ i \in Nat
        BY <1>2, <1>3, <2>1, <3>1
      <4>2. ASSUME NEW j \in 1..Len(queue'[r]), i < j PROVE queue'[r][i] < queue'[r][j]
        <5>1. j + 1 \in 1..Len(queue[r]) /\ queue'[r][j] = queue[r][j + 1] /\ j \in Nat
          BY <1>2, <1>3
        <5>2. i + 1 < j + 1
          BY <4>1, <4>2, <5>1
        <5> QED BY <1>5, <4>1, <5>1, <5>2
      <4> QED BY <1>5, <3>1, <4>1, <4>2
    <3>2. CASE q # r
      BY <1>3, <1>5, <2>1, <3>2
    <3> QED BY <3>1, <3>2
  <2>2. published' \in Nat /\ published <= published' /\ published' = published /\ local \subseteq local'
    BY Shape
  <2>3. \A q \in Replicas : \A i \in 1..Len(queue'[q]) :
          /\ \E j \in 1..Len(queue[q]) : queue'[q][i] = queue[q][j]
          /\ queue'[q][i] <= published'
          /\ \A j \in 1..Len(queue'[q]) : i < j => queue'[q][i] < queue'[q][j]
    BY <2>1, <2>2
  <2> QED BY <1>4, <2>2, <2>3 DEF QueuesMove
<1>7. m <= published /\ Waits(r, m)
  BY <1>2, <1>5 DEF Waits
<1>8. \A i \in 1..Len(queue'[r]) : m < queue'[r][i]
  <2>1. ASSUME NEW i \in 1..Len(queue'[r]) PROVE m < queue'[r][i]
    <3>1. i + 1 \in 1..Len(queue[r]) /\ queue'[r][i] = queue[r][i + 1]
      BY <1>2, <1>3
    <3>2. 1 < i + 1
      OBVIOUS
    <3> QED BY <1>2, <1>5, <3>1, <3>2
  <2> QED BY <2>1
<1>9. \A s \in Sockets : Home[s] = r =>
        \A k \in 1..Len(got[s]) : got[s][k] <= m \/ AloneIn(local, got[s][k])
  <2>1. ASSUME NEW s \in Sockets, Home[s] = r, NEW k \in 1..Len(got[s])
        PROVE  got[s][k] <= m \/ AloneIn(local, got[s][k])
    <3>1. got[s][k] < queue[r][1] \/ AloneIn(local, got[s][k])
      BY <1>2, <2>1 DEF Orders, QueuesInOrder
    <3>2. got[s][k] \in Nat /\ queue[r][1] \in Nat
      BY <1>2, <1>5, Shape
    <3> QED BY <1>2, <3>1, <3>2
  <2> QED BY <2>1
<1>10. \A q \in Replicas, n \in Messages :
         /\ Waits(q, n)' => Waits(q, n)
         /\ Waits(q, n) => Waits(q, n)' \/ (q = r /\ n = m)
  <2>1. ASSUME NEW n \in Messages
        PROVE  /\ Waits(r, n)' => Waits(r, n)
               /\ Waits(r, n) => Waits(r, n)' \/ n = m
    <3>1. Waits(r, n)' => Waits(r, n)
      BY <1>2, <1>3 DEF Waits
    <3>2. ASSUME NEW i \in 1..Len(queue[r]), queue[r][i] = n PROVE Waits(r, n)' \/ n = m
      <4>1. CASE i = 1
        BY <1>2, <3>2, <4>1
      <4>2. CASE i - 1 \in 1..Len(Tail(queue[r])) /\ Tail(queue[r])[i - 1] = queue[r][i]
        BY <1>3, <3>2, <4>2 DEF Waits
      <4> QED BY <1>2, <4>1, <4>2
    <3> QED BY <3>1, <3>2 DEF Waits
  <2>2. \A q \in Replicas \ {r}, n \in Messages : Waits(q, n)' <=> Waits(q, n)
    BY <1>3 DEF Waits
  <2> QED BY <2>1, <2>2
<1> QED BY <1>2, <1>6, <1>7, <1>8, <1>9, <1>10 DEF m

LEMMA DropQueues ==
  ASSUME TypeOK, Orders, NEW r \in Replicas,
         queue' = [queue EXCEPT ![r] = <<>>], UNCHANGED <<published, local>>
  PROVE  /\ QueuesMove
         /\ \A q \in Replicas, n \in Messages : Waits(q, n)' => Waits(q, n)
         /\ \A q \in Replicas \ {r}, n \in Messages : Waits(q, n) => Waits(q, n)'
<1>1. /\ queue' \in [Replicas -> Seq(Messages)] /\ Len(queue'[r]) = 0
      /\ \A q \in Replicas \ {r} : queue'[q] = queue[q]
  BY DEF TypeOK
<1>2. QueuesMove
  <2>1. ASSUME NEW q \in Replicas, NEW i \in 1..Len(queue'[q])
        PROVE  /\ \E j \in 1..Len(queue[q]) : queue'[q][i] = queue[q][j]
               /\ queue'[q][i] <= published
               /\ \A j \in 1..Len(queue'[q]) : i < j => queue'[q][i] < queue'[q][j]
    <3>1. q # r
      BY <1>1, <2>1
    <3> QED BY <1>1, <2>1, <3>1 DEF Orders, QueuesInOrder
  <2> QED BY <1>1, <2>1, Shape DEF QueuesMove
<1>3. /\ \A q \in Replicas, n \in Messages : Waits(q, n)' => Waits(q, n)
      /\ \A q \in Replicas \ {r}, n \in Messages : Waits(q, n) => Waits(q, n)'
  BY <1>1 DEF Waits
<1> QED BY <1>2, <1>3

(***************************************************************************)
(* What is counted, and what is on its way                                 *)
(***************************************************************************)
\* A socket's messages stay within bounds when nothing more becomes due for it, when
\* what was due is sent, and when a message is new.
LEMMA CountKept ==
  ASSUME Counted, NEW q \in Sockets, NEW m \in Messages, repeated \subseteq repeated',
         Times(q, m) \in Nat, Times(q, m)' \in Nat,
         \/ /\ Times(q, m)' = Times(q, m)
            /\ DueRedis(q, m)' => DueRedis(q, m)
            /\ DueLocal(q, m)' => DueLocal(q, m)
         \/ /\ Times(q, m)' <= Times(q, m) + 1
            /\ \/ DueRedis(q, m) /\ ~DueRedis(q, m)' /\ (DueLocal(q, m)' => DueLocal(q, m))
               \/ DueLocal(q, m) /\ ~DueLocal(q, m)' /\ (DueRedis(q, m)' => DueRedis(q, m))
         \/ /\ Times(q, m)' = 0 \/ (Times(q, m)' <= 1 /\ ~DueLocal(q, m)')
            /\ ~DueRedis(q, m)' \/ m \in repeated' \/ (Times(q, m)' = 0 /\ ~DueLocal(q, m)')
  PROVE  Within(q, m)'
<1>1. Within(q, m)
  BY DEF Counted
<1>2. m \in repeated => m \in repeated'
  OBVIOUS
<1> DEFINE a == Times(q, m)
           b == Times(q, m)'
           redis0 == DueRedis(q, m)
           redis1 == DueRedis(q, m)'
           local0 == DueLocal(q, m)
           local1 == DueLocal(q, m)'
<1>3. a + (IF redis0 THEN 1 ELSE 0) + (IF local0 THEN 1 ELSE 0) <= IF m \in repeated THEN 2 ELSE 1
  BY <1>1 DEF Within
<1>4. b + (IF redis1 THEN 1 ELSE 0) + (IF local1 THEN 1 ELSE 0) <= IF m \in repeated' THEN 2 ELSE 1
  BY <1>2, <1>3
<1> QED BY <1>4 DEF Within

\* A message that is not published has not been sent.
LEMMA NewIsUnsent ==
  ASSUME TypeOK, Orders, NEW q \in Sockets, NEW m \in Messages, m > published
  PROVE  Times(q, m) = 0
<1>1. ~Has(q, m)
  <2>1. \A k \in 1..Len(got[q]) : got[q][k] <= published /\ got[q][k] \in Nat
    BY Shape DEF Orders, GotPublished
  <2>2. m \in Nat /\ published \in Nat
    BY Shape, Numbers
  <2> QED BY <2>1, <2>2 DEF Has
<1> QED BY <1>1, TimesCount

\* Nor is a broadcast of it under way, nor does it wait.
LEMMA NewIsUndue ==
  ASSUME TypeOK, Orders, NEW m \in Messages, m > published
  PROVE  /\ \A b \in broadcasts : b.message # m
         /\ \A r \in Replicas : ~Waits(r, m)
         /\ \A q \in Sockets : ~DueRedis(q, m) /\ ~DueLocal(q, m)
<1>1. m \in Nat /\ published \in Nat
  BY Shape, Numbers
<1>2. \A b \in broadcasts : b.message # m
  <2>1. ASSUME NEW b \in broadcasts PROVE b.message # m
    <3>1. b.message <= published /\ b.message \in Nat
      BY Shape DEF Orders, SendingsSound, Sending
    <3> QED BY <1>1, <3>1
  <2> QED BY <2>1
<1>3. \A r \in Replicas : ~Waits(r, m)
  <2>1. \A r \in Replicas : \A i \in 1..Len(queue[r]) : queue[r][i] <= published /\ queue[r][i] \in Nat
    BY Shape DEF Orders, QueuesInOrder
  <2> QED BY <1>1, <2>1 DEF Waits
<1> QED BY <1>2, <1>3, Numbers DEF DueRedis, DueLocal

LEMMA Conveyed ==
  ASSUME TypeOK, OnItsWay, published' \in Nat, published <= published', missed \subseteq missed',
         \A r \in Replicas : \A s \in OpenIn(r)' :
           (s \in OpenIn(r) /\ joined'[s] = joined[s]) \/ joined'[s] = published',
         \A r \in Replicas, m \in Messages : \A s \in OpenIn(r) :
           s \in OpenIn(r)' /\ joined[s] < m /\ Comes(r, m, s) => Comes(r, m, s)',
         \A r \in Replicas, m \in Messages : \A s \in OpenIn(r) :
           s \in OpenIn(r)' /\ Waits(r, m) =>
             Waits(r, m)' \/ Comes(r, m, s)' \/ <<r, m>> \in missed',
         \A r \in Replicas, m \in Messages :
           m <= published /\ <<r, m>> \in local' => <<r, m>> \in local,
         \A r \in Replicas, m \in Messages : \A s \in OpenIn(r) :
           s \in OpenIn(r)' /\ m > published /\ m <= published' =>
             /\ <<r, m>> \in local' => Comes(r, m, s)'
             /\ <<r, m>> \notin missed' => Waits(r, m)' \/ Comes(r, m, s)'
  PROVE  OnItsWay'
<1>1. ASSUME NEW r \in Replicas, NEW m \in Messages, NEW s \in OpenIn(r)',
             joined'[s] < m, m <= published'
      PROVE  /\ <<r, m>> \in local' => Comes(r, m, s)'
             /\ <<r, m>> \notin missed' => Waits(r, m)' \/ Comes(r, m, s)'
  <2>1. m \in Nat /\ published \in Nat
    BY Shape, Numbers
  <2>2. s \in OpenIn(r) /\ joined'[s] = joined[s]
    BY <1>1, <2>1
  <2>3. CASE m <= published
    <3>1. /\ <<r, m>> \in local => Comes(r, m, s)
          /\ <<r, m>> \notin missed => Waits(r, m) \/ Comes(r, m, s)
      BY <1>1, <2>2, <2>3 DEF OnItsWay
    <3> QED BY <1>1, <2>2, <2>3, <3>1
  <2>4. CASE m > published
    BY <1>1, <2>2, <2>4
  <2> QED BY <2>1, <2>3, <2>4
<1> QED BY <1>1 DEF OnItsWay

(***************************************************************************)
(* The actions                                                             *)
(***************************************************************************)
LEMMA BeginTypes ==
  ASSUME TypeOK, NEW r \in Replicas, NEW m \in Messages, NEW via \in Via, Begin(r, m, via)
  PROVE  broadcasts' \subseteq Records /\ got' \in [Sockets -> Seq(Messages)]
<1>1. broadcasts \subseteq Records /\ got \in [Sockets -> Seq(Messages)]
  BY DEF TypeOK, Records
<1>2. CASE UNCHANGED <<broadcasts, got>>
  BY <1>1, <1>2
<1>3. CASE \E s \in room[r], c \in Records : broadcasts' = broadcasts \cup {c} /\ Delivers(c, s)
  BY <1>1, <1>3 DEF Delivers
<1> QED BY <1>2, <1>3, BeginDelivers

LEMMA SendNextDelivers ==
  ASSUME TypeOK, NEW b \in broadcasts, SendNext(b)
  PROVE  \E s \in room[b.replica] \ b.sent, c \in Records :
           /\ s \in Sockets /\ broadcasts' = (broadcasts \ {b}) \cup {c} /\ Delivers(c, s)
           /\ c.replica = b.replica /\ c.message = b.message /\ c.via = b.via
           /\ c.members = b.members /\ c.sent = b.sent \cup {s} /\ c.dead = b.dead \cup ({s} \cap Gone)
<1>1. PICK s \in room[b.replica] \ b.sent :
        /\ broadcasts' = (broadcasts \ {b}) \cup {After(b, s)}
        /\ got' = IF s \in Gone THEN got ELSE [got EXCEPT ![s] = Append(@, b.message)]
  BY DEF SendNext, Send, After
<1>2. b \in Records /\ b.replica \in Replicas /\ s \in Sockets
  BY Shape DEF TypeOK
<1>3. PICK c : c = After(b, s)
  OBVIOUS
<1>4. /\ c \in Records /\ c.replica = b.replica /\ c.message = b.message /\ c.via = b.via
      /\ c.members = b.members /\ c.sent = b.sent \cup {s} /\ c.dead = b.dead \cup ({s} \cap Gone)
  BY <1>2, <1>3, AfterIs
<1>5. Delivers(c, s)
  <2>1. got' = IF s \in Gone THEN got ELSE [got EXCEPT ![s] = Append(@, c.message)]
    BY <1>1, <1>4
  <2> QED BY <1>2, <1>4, <2>1, DeliversIs
<1> QED BY <1>1, <1>2, <1>3, <1>4, <1>5

\* A broadcast and what Disconnect makes of it.
Passed(b, s) == IF b.replica = Home[s] THEN [b EXCEPT !.popped = TRUE] ELSE b

LEMMA PassedIs ==
  ASSUME NEW b \in Records, NEW s \in Sockets
  PROVE  LET c == Passed(b, s)
         IN  /\ c \in Records /\ c.replica = b.replica /\ c.message = b.message /\ c.via = b.via
             /\ c.members = b.members /\ c.sent = b.sent /\ c.dead = b.dead
<1> DEFINE c == [b EXCEPT !.popped = TRUE]
<1>1. /\ c \in Records /\ c.replica = b.replica /\ c.message = b.message /\ c.via = b.via
      /\ c.members = b.members /\ c.sent = b.sent /\ c.dead = b.dead
  BY DEF Records
<1> HIDE DEF c
<1>2. Passed(b, s) = c \/ Passed(b, s) = b
  BY DEF Passed, c
<1> QED BY <1>1, <1>2

LEMMA DisconnectPasses ==
  ASSUME TypeOK, NEW s \in Sockets, Disconnect(s)
  PROVE  broadcasts' = broadcasts \/ broadcasts' = {Passed(b, s) : b \in broadcasts}
BY DEF Disconnect, Passed

LEMMA DisconnectRecords ==
  ASSUME TypeOK, NEW s \in Sockets, Disconnect(s)
  PROVE  broadcasts' \subseteq Records
<1>1. broadcasts \subseteq Records
  BY Shape
<1>2. \A b \in Records : Passed(b, s) \in Records
  BY PassedIs
<1>3. CASE broadcasts' = {Passed(b, s) : b \in broadcasts}
  BY <1>1, <1>2, <1>3
<1> QED BY <1>1, <1>3, DisconnectPasses

LEMMA TypesKept ==
  ASSUME TypeOK, Next
  PROVE  TypeOK'
<1> USE DEF TypeOK
<1>0. /\ broadcasts \subseteq Records
      /\ (broadcasts' \subseteq Records => broadcasts' \subseteq
       [replica : Replicas, message : Messages, via : Via, popped : BOOLEAN,
        members : SUBSET Sockets, sent : SUBSET Sockets, dead : SUBSET Sockets])
      /\ "local" \in Via /\ "redis" \in Via /\ MaxFaults \in Nat
  BY FanoutAssumption DEF Records, Via
<1>1. ASSUME NEW b \in broadcasts, SendNext(b) PROVE TypeOK'
  <2>1. broadcasts' \subseteq Records /\ got' \in [Sockets -> Seq(Messages)]
    BY <1>0, <1>1, SendNextDelivers DEF Delivers
  <2> QED BY <1>0, <1>1, <2>1 DEF SendNext, redis, rooms, history
<1>2. ASSUME NEW b \in broadcasts, Finish(b) PROVE TypeOK'
  <2>1. room' \in [Replicas -> SUBSET Sockets] /\ broadcasts' \subseteq broadcasts
    BY <1>2 DEF Finish
  <2> QED BY <1>0, <1>2, <2>1 DEF Finish, redis, history
<1>3. ASSUME NEW b \in broadcasts, Abort(b) PROVE TypeOK'
  <2>1. broadcasts' \subseteq broadcasts /\ aborted' \in SUBSET (Replicas \X Messages)
    BY <1>0, <1>3 DEF Abort, Records
  <2> QED BY <1>0, <1>3, <2>1 DEF Abort, redis, rooms
<1>4. ASSUME ToSubscribers
      PROVE  /\ published' \in 0..MaxMessages /\ Message \in Messages /\ subscribed' \subseteq Replicas
             /\ queue' \in [Replicas -> Seq(Messages)] /\ missed' \in SUBSET (Replicas \X Messages)
  <2>1. published' \in 0..MaxMessages /\ Message \in Messages
    BY <1>4, Numbers DEF ToSubscribers, Message, Messages
  <2>2. \A r \in Replicas : Append(queue[r], Message) \in Seq(Messages)
    BY <2>1
  <2> QED BY <1>4, <2>1, <2>2 DEF ToSubscribers
<1>5. ASSUME Fault PROVE faults' \in 0..MaxFaults
  BY <1>0, <1>5 DEF Fault
<1>6. CASE Publish
  BY <1>4, <1>6 DEF Publish, rooms, history
<1>7. ASSUME NEW r \in Replicas, PublishFails(r) PROVE TypeOK'
  <2>1. published' \in 0..MaxMessages /\ Message \in Messages
    BY <1>7, Numbers DEF PublishFails, Message, Messages
  <2>2. broadcasts' \subseteq Records /\ got' \in [Sockets -> Seq(Messages)]
    BY <1>0, <1>7, <2>1, BeginTypes DEF PublishFails
  <2>3. {local', missed', aborted'} \subseteq SUBSET (Replicas \X Messages)
    BY <1>7, <2>1 DEF PublishFails
  <2>4. faults' \in 0..MaxFaults
    BY <1>5, <1>7 DEF PublishFails
  <2> QED BY <1>0, <1>7, <2>1, <2>2, <2>3, <2>4 DEF PublishFails, rooms
<1>8. ASSUME NEW r \in Replicas, PublishReplyLost(r) PROVE TypeOK'
  <2>1. /\ published' \in 0..MaxMessages /\ Message \in Messages /\ subscribed' \subseteq Replicas
        /\ queue' \in [Replicas -> Seq(Messages)] /\ missed' \in SUBSET (Replicas \X Messages)
    BY <1>4, <1>8 DEF PublishReplyLost
  <2>2. broadcasts' \subseteq Records /\ got' \in [Sockets -> Seq(Messages)]
    BY <1>0, <1>8, <2>1, BeginTypes DEF PublishReplyLost
  <2>3. {local', aborted'} \subseteq SUBSET (Replicas \X Messages) /\ repeated' \subseteq Messages
    BY <1>8, <2>1 DEF PublishReplyLost
  <2>4. faults' \in 0..MaxFaults
    BY <1>5, <1>8 DEF PublishReplyLost
  <2> QED BY <1>0, <1>8, <2>1, <2>2, <2>3, <2>4 DEF PublishReplyLost, rooms
<1>9. ASSUME NEW r \in Replicas, Take(r) PROVE TypeOK'
  <2>1. queue[r] \in Seq(Messages) /\ queue[r] # <<>>
    BY <1>9 DEF Take
  <2>2. Head(queue[r]) \in Messages /\ Tail(queue[r]) \in Seq(Messages)
    BY <2>1
  <2>3. broadcasts' \subseteq Records /\ got' \in [Sockets -> Seq(Messages)]
    BY <1>0, <1>9, <2>2, BeginTypes DEF Take
  <2>4. queue' \in [Replicas -> Seq(Messages)]
    BY <1>9, <2>2 DEF Take
  <2> QED BY <1>0, <1>9, <2>3, <2>4 DEF Take, rooms, history
<1>10. ASSUME NEW r \in Replicas, LosesRedis(r) PROVE TypeOK'
  <2>1. \A i \in 1..Len(queue[r]) : queue[r][i] \in Messages
    BY Shape
  <2>2. queue' \in [Replicas -> Seq(Messages)] /\ missed' \in SUBSET (Replicas \X Messages)
    BY <1>10, <2>1 DEF LosesRedis
  <2>3. faults' \in 0..MaxFaults
    BY <1>5, <1>10 DEF LosesRedis
  <2> QED BY <1>10, <2>2, <2>3 DEF LosesRedis, rooms, history
<1>11. ASSUME NEW r \in Replicas, Resubscribe(r) PROVE TypeOK'
  BY <1>11 DEF Resubscribe, rooms, history
<1>12. ASSUME NEW s \in Sockets, Join(s) PROVE TypeOK'
  BY <1>12, Numbers DEF Join, redis, history, SocketStates
<1>13. ASSUME NEW s \in Sockets, Leave(s) PROVE TypeOK'
  BY <1>13 DEF Leave, redis, history, SocketStates
<1>14. ASSUME NEW s \in Sockets, Disconnect(s) PROVE TypeOK'
  <2>1. broadcasts' \subseteq Records
    BY <1>0, <1>14, DisconnectRecords
  <2>2. room' \in [Replicas -> SUBSET Sockets] /\ socket' \in [Sockets -> SocketStates]
    BY <1>14 DEF Disconnect, SocketStates
  <2> QED BY <1>0, <1>14, <2>1, <2>2 DEF Disconnect, redis, history
<1> QED
  BY <1>1, <1>2, <1>3, <1>6, <1>7, <1>8, <1>9, <1>10, <1>11, <1>12, <1>13, <1>14
  DEF Next, BroadcastStep

\* Sockets come and go and broadcasts end: nothing is published and nothing sent.
LEMMA RoomsKeep ==
  ASSUME TypeOK, Orders, UNCHANGED <<published, queue, got, local>>, RoomsHold', OneAtATime',
         Gone \subseteq Gone',
         \A c \in broadcasts' : \E b \in broadcasts :
           /\ c.replica = b.replica /\ c.message = b.message /\ c.via = b.via
           /\ c.members = b.members /\ c.sent = b.sent /\ c.dead = b.dead,
         \A r \in Replicas : \A s \in OpenIn(r)' :
           (s \in OpenIn(r) /\ joined'[s] = joined[s]) \/ joined'[s] = published
  PROVE  Orders'
<1>1. SendingsSound'
  <2>1. ASSUME NEW c \in broadcasts' PROVE Sending(c)'
    <3>1. PICK b \in broadcasts :
            /\ c.replica = b.replica /\ c.message = b.message /\ c.via = b.via
            /\ c.members = b.members /\ c.sent = b.sent /\ c.dead = b.dead
      BY <2>1
    <3>2. Sending(b) /\ b.replica \in Replicas /\ b.message \in Nat
      BY Shape DEF Orders, SendingsSound
    <3>3. c.message <= published' /\ c.dead \subseteq Gone'
      BY <3>1, <3>2 DEF Sending
    <3>4. \A s \in c.sent : s \in Gone' \/ Has(s, c.message)'
      BY <3>1, <3>2 DEF Sending, Has
    <3>5. \A s \in OpenIn(c.replica)' : joined'[s] < c.message => s \in c.members
      <4>1. SUFFICES ASSUME NEW s \in OpenIn(c.replica)', joined'[s] < c.message
                     PROVE  s \in c.members
        OBVIOUS
      <4>2. joined'[s] # published
        BY <3>1, <3>2, <4>1, Shape DEF Sending
      <4> QED BY <3>1, <3>2, <4>1, <4>2 DEF Sending
    <3>6. c.via = "local" => <<c.replica, c.message>> \in local'
      BY <3>1, <3>2 DEF Sending
    <3>7. c.via = "redis" => InTurn(c.replica, c.message)'
      BY <3>1, <3>2 DEF Sending, InTurn
    <3> QED BY <3>3, <3>4, <3>5, <3>6, <3>7 DEF Sending
  <2> QED BY <2>1 DEF SendingsSound
<1>2. GotPublished' /\ InOrder' /\ QueuesInOrder'
  BY DEF Orders, GotPublished, InOrder, QueuesInOrder
<1> QED BY <1>1, <1>2 DEF Orders

\* Nothing is sent and nothing becomes due.
LEMMA CountsQuiet ==
  ASSUME TypeOK, TypeOK', Counted, got' = got, repeated \subseteq repeated',
         \A q \in Sockets, m \in Messages : DueRedis(q, m)' => DueRedis(q, m),
         \A q \in Sockets, m \in Messages : DueLocal(q, m)' => DueLocal(q, m)
  PROVE  Counted'
<1>1. ASSUME NEW q \in Sockets, NEW m \in Messages PROVE Within(q, m)'
  <2>1. Times(q, m) \in Nat /\ Times(q, m)' = Times(q, m)
    <3>1. Times(q, m)' = Times(q, m)
      BY DEF Times
    <3> QED BY <3>1, TimesCount
  <2> QED BY <2>1, CountKept
<1> QED BY <1>1 DEF Counted

\* Broadcasts end, or change in nothing the socket cares about.
LEMMA DueKept ==
  ASSUME \A c \in broadcasts' : \E b \in broadcasts :
           c.replica = b.replica /\ c.message = b.message /\ c.via = b.via /\ c.sent = b.sent,
         \A r \in Replicas, m \in Messages : Waits(r, m)' => Waits(r, m)
  PROVE  /\ \A q \in Sockets, m \in Messages : DueRedis(q, m)' => DueRedis(q, m)
         /\ \A q \in Sockets, m \in Messages : DueLocal(q, m)' => DueLocal(q, m)
<1>1. ASSUME NEW q \in Sockets, NEW m \in Messages, DueRedis(q, m)' PROVE DueRedis(q, m)
  BY <1>1, Numbers DEF DueRedis
<1>2. ASSUME NEW q \in Sockets, NEW m \in Messages, DueLocal(q, m)' PROVE DueLocal(q, m)
  BY <1>2 DEF DueLocal
<1> QED BY <1>1, <1>2

LEMMA JoinKeeps ==
  ASSUME TypeOK, TypeOK', FanoutInv, NEW s \in Sockets, Join(s)
  PROVE  Orders' /\ Counted' /\ OnItsWay'
<1>1. /\ socket[s] = "new" /\ socket' = [socket EXCEPT ![s] = "open"]
      /\ room' = [room EXCEPT ![Home[s]] = @ \cup {s}]
      /\ joined' = [joined EXCEPT ![s] = published]
      /\ UNCHANGED <<published, subscribed, queue, missed, broadcasts, got, repeated, local, aborted>>
  BY DEF Join, redis, history
<1>2. /\ socket'[s] = "open" /\ joined'[s] = published
      /\ \A q \in Sockets \ {s} : socket'[q] = socket[q] /\ joined'[q] = joined[q]
      /\ room'[Home[s]] = room[Home[s]] \cup {s}
      /\ \A r \in Replicas \ {Home[s]} : room'[r] = room[r]
  BY <1>1, Numbers DEF TypeOK
<1> HIDE DEF FanoutInv
<1>3. Orders /\ Counted /\ OnItsWay
  BY DEF FanoutInv
<1>4. RoomsHold'
  BY <1>2, <1>3, Numbers DEF Orders, RoomsHold
<1>5. \A r \in Replicas : \A q \in OpenIn(r)' :
           (q \in OpenIn(r) /\ joined'[q] = joined[q]) \/ joined'[q] = published
  BY <1>2 DEF OpenIn
<1>6. Gone \subseteq Gone'
  BY <1>1, <1>2 DEF Gone
<1>7. OneAtATime'
  BY <1>1, <1>3 DEF Orders, OneAtATime
<1>8. Orders'
  BY <1>1, <1>3, <1>4, <1>5, <1>6, <1>7, RoomsKeep
<1>9. Counted'
  <2>1. \A r \in Replicas, m \in Messages : Waits(r, m)' => Waits(r, m)
    BY <1>1 DEF Waits
  <2> QED BY <1>1, <1>3, <2>1, CountsQuiet, DueKept
<1>10. OnItsWay'
  <2>1. \A r \in Replicas, m \in Messages : Waits(r, m)' <=> Waits(r, m)
    BY <1>1 DEF Waits
  <2>2. \A r \in Replicas, m \in Messages, q \in Sockets : Comes(r, m, q)' <=> Comes(r, m, q)
    BY <1>1 DEF Comes, UnderWay, Has
  <2>3. \A r \in Replicas : OpenIn(r) \subseteq Sockets
    BY DEF OpenIn
  <2>4. published \in Nat
    BY Shape
  <2>5. \A m \in Messages : ~(m > published /\ m <= published')
    BY <1>1, <2>4, Numbers
  <2> QED BY <1>1, <1>3, <1>5, <2>1, <2>2, <2>3, <2>4, <2>5, Conveyed
<1> QED BY <1>8, <1>9, <1>10

LEMMA LeaveKeeps ==
  ASSUME TypeOK, TypeOK', FanoutInv, NEW s \in Sockets, Leave(s)
  PROVE  Orders' /\ Counted' /\ OnItsWay'
<1>1. /\ socket[s] = "open" /\ socket' = [socket EXCEPT ![s] = "left"]
      /\ UNCHANGED <<published, subscribed, queue, missed, room, joined, broadcasts, got,
                     repeated, local, aborted>>
  BY DEF Leave, redis, history
<1>2. socket'[s] = "left" /\ \A q \in Sockets \ {s} : socket'[q] = socket[q]
  BY <1>1 DEF TypeOK
<1> HIDE DEF FanoutInv
<1>3. Orders /\ Counted /\ OnItsWay
  BY DEF FanoutInv
<1>4. RoomsHold'
  BY <1>1, <1>2, <1>3 DEF Orders, RoomsHold
<1>5. \A r \in Replicas : \A q \in OpenIn(r)' : q \in OpenIn(r) /\ joined'[q] = joined[q]
  BY <1>1, <1>2 DEF OpenIn
<1>6. Gone \subseteq Gone'
  BY <1>1, <1>2 DEF Gone
<1>7. OneAtATime'
  BY <1>1, <1>3 DEF Orders, OneAtATime
<1>8. Orders'
  BY <1>1, <1>3, <1>4, <1>5, <1>6, <1>7, RoomsKeep
<1>9. Counted'
  <2>1. \A r \in Replicas, m \in Messages : Waits(r, m)' => Waits(r, m)
    BY <1>1 DEF Waits
  <2> QED BY <1>1, <1>3, <2>1, CountsQuiet, DueKept
<1>10. OnItsWay'
  <2>1. \A r \in Replicas, m \in Messages : Waits(r, m)' <=> Waits(r, m)
    BY <1>1 DEF Waits
  <2>2. \A r \in Replicas, m \in Messages, q \in Sockets : Comes(r, m, q)' <=> Comes(r, m, q)
    BY <1>1 DEF Comes, UnderWay, Has
  <2>3. \A r \in Replicas : OpenIn(r) \subseteq Sockets
    BY DEF OpenIn
  <2>4. published \in Nat
    BY Shape
  <2>5. \A m \in Messages : ~(m > published /\ m <= published')
    BY <1>1, <2>4, Numbers
  <2> QED BY <1>1, <1>3, <1>5, <2>1, <2>2, <2>3, <2>4, <2>5, Conveyed
<1> QED BY <1>8, <1>9, <1>10

LEMMA DisconnectKeeps ==
  ASSUME TypeOK, TypeOK', FanoutInv, NEW s \in Sockets, Disconnect(s)
  PROVE  Orders' /\ Counted' /\ OnItsWay'
<1>1. /\ socket[s] = "left" /\ socket' = [socket EXCEPT ![s] = "closed"]
      /\ room' = [room EXCEPT ![Home[s]] = @ \ {s}]
      /\ UNCHANGED <<published, subscribed, queue, missed, joined, got, repeated, local, aborted>>
  BY DEF Disconnect, redis, history
<1>2. /\ socket'[s] = "closed" /\ \A q \in Sockets \ {s} : socket'[q] = socket[q]
      /\ room'[Home[s]] = room[Home[s]] \ {s}
      /\ \A r \in Replicas \ {Home[s]} : room'[r] = room[r]
  BY <1>1, Numbers DEF TypeOK
<1> HIDE DEF FanoutInv
<1>3. Orders /\ Counted /\ OnItsWay
  BY DEF FanoutInv
<1>a. \A b \in broadcasts :
        LET c == Passed(b, s)
        IN  /\ c.replica = b.replica /\ c.message = b.message /\ c.via = b.via
            /\ c.members = b.members /\ c.sent = b.sent /\ c.dead = b.dead
  BY PassedIs, Shape
<1>d. /\ OneAtATime' /\ \A r \in Replicas, m \in Messages : UnderWay(r, m) => UnderWay(r, m)'
      /\ \A c \in broadcasts' : \E b \in broadcasts :
           /\ c.replica = b.replica /\ c.message = b.message /\ c.via = b.via
           /\ c.members = b.members /\ c.sent = b.sent /\ c.dead = b.dead
  <2>1. CASE broadcasts' = broadcasts
    <3>1. OneAtATime' /\ \A r \in Replicas, m \in Messages : UnderWay(r, m) => UnderWay(r, m)'
      BY <1>3, <2>1 DEF Orders, OneAtATime, UnderWay
    <3> QED BY <2>1, <3>1
  <2>2. CASE broadcasts' = {Passed(b, s) : b \in broadcasts}
    <3>1. \A c \in broadcasts' : \E b \in broadcasts : c = Passed(b, s)
      BY <2>2
    <3>2. OneAtATime'
      <4>1. ASSUME NEW c \in broadcasts', NEW d \in broadcasts', c.replica = d.replica, c.via = d.via,
                   c.via = "redis" \/ c.message = d.message
            PROVE  c = d
        <5>1. PICK a \in broadcasts : c = Passed(a, s)
          BY <3>1
        <5>2. PICK b \in broadcasts : d = Passed(b, s)
          BY <3>1
        <5>3. a.replica = b.replica /\ a.via = b.via /\ (a.via = "redis" \/ a.message = b.message)
          BY <1>a, <4>1, <5>1, <5>2
        <5>4. a = b
          BY <1>3, <5>3 DEF Orders, OneAtATime
        <5> QED BY <5>1, <5>2, <5>4
      <4> QED BY <4>1 DEF OneAtATime
    <3>3. ASSUME NEW r \in Replicas, NEW m \in Messages, UnderWay(r, m) PROVE UnderWay(r, m)'
      <4>1. PICK b \in broadcasts : b.replica = r /\ b.message = m
        BY <3>3 DEF UnderWay
      <4>2. PICK c \in broadcasts' : c = Passed(b, s)
        BY <2>2
      <4>3. c.replica = r /\ c.message = m
        BY <1>a, <4>1, <4>2
      <4> QED BY <4>3 DEF UnderWay
    <3>4. \A c \in broadcasts' : \E b \in broadcasts :
           /\ c.replica = b.replica /\ c.message = b.message /\ c.via = b.via
           /\ c.members = b.members /\ c.sent = b.sent /\ c.dead = b.dead
      BY <1>a, <3>1
    <3> QED BY <3>2, <3>3, <3>4
  <2> QED BY <2>1, <2>2, DisconnectPasses
<1>4. RoomsHold'
  BY <1>1, <1>2, <1>3, Numbers DEF Orders, RoomsHold
<1>5. \A r \in Replicas : \A q \in OpenIn(r)' : q \in OpenIn(r) /\ joined'[q] = joined[q]
  BY <1>1, <1>2 DEF OpenIn
<1>6. Gone \subseteq Gone'
  BY <1>1, <1>2 DEF Gone
<1>8. Orders'
  BY <1>1, <1>3, <1>4, <1>5, <1>6, <1>d, RoomsKeep
<1>9. Counted'
  <2>1. \A r \in Replicas, m \in Messages : Waits(r, m)' => Waits(r, m)
    BY <1>1 DEF Waits
  <2> QED BY <1>1, <1>3, <1>d, <2>1, CountsQuiet, DueKept
<1>10. OnItsWay'
  <2>1. \A r \in Replicas, m \in Messages : Waits(r, m)' <=> Waits(r, m)
    BY <1>1 DEF Waits
  <2>2. \A r \in Replicas, m \in Messages, q \in Sockets : Comes(r, m, q) => Comes(r, m, q)'
    BY <1>1, <1>d DEF Comes, Has
  <2>3. \A r \in Replicas : OpenIn(r) \subseteq Sockets
    BY DEF OpenIn
  <2>4. published \in Nat
    BY Shape
  <2>5. \A m \in Messages : ~(m > published /\ m <= published')
    BY <1>1, <2>4, Numbers
  <2> QED BY <1>1, <1>3, <1>5, <2>1, <2>2, <2>3, <2>4, <2>5, Conveyed
<1> QED BY <1>8, <1>9, <1>10

LEMMA FinishKeeps ==
  ASSUME TypeOK, TypeOK', FanoutInv, NEW b \in broadcasts, Finish(b)
  PROVE  Orders' /\ Counted' /\ OnItsWay'
<1>1. /\ room[b.replica] \cap b.members \subseteq b.sent
      /\ room' = [room EXCEPT ![b.replica] = @ \ b.dead]
      /\ broadcasts' = broadcasts \ {b}
      /\ UNCHANGED <<published, subscribed, queue, missed, socket, joined, got, repeated, local, aborted>>
  BY DEF Finish, redis, history
<1> HIDE DEF FanoutInv
<1>2. Orders /\ Counted /\ OnItsWay
  BY DEF FanoutInv
<1>3. b.replica \in Replicas /\ b.message \in Nat /\ Sending(b)
  BY <1>2, Shape DEF Orders, SendingsSound
<1>4. RoomsHold'
  <2>1. /\ room'[b.replica] = room[b.replica] \ b.dead
        /\ \A r \in Replicas \ {b.replica} : room'[r] = room[r]
    BY <1>1, <1>3 DEF TypeOK
  <2>2. \A s \in b.dead : socket[s] # "open"
    BY <1>3 DEF Sending, Gone
  <2> QED BY <1>1, <1>2, <2>1, <2>2, Numbers DEF Orders, RoomsHold
<1>5. \A r \in Replicas : \A q \in OpenIn(r)' : q \in OpenIn(r) /\ joined'[q] = joined[q]
  BY <1>1 DEF OpenIn
<1>6. Gone \subseteq Gone' /\ OneAtATime'
  BY <1>1, <1>2 DEF Gone, Orders, OneAtATime
<1>7. broadcasts' \subseteq broadcasts
  BY <1>1
<1>8. Orders'
  BY <1>1, <1>2, <1>4, <1>5, <1>6, <1>7, RoomsKeep
<1>9. Counted'
  <2>1. \A r \in Replicas, m \in Messages : Waits(r, m)' => Waits(r, m)
    BY <1>1 DEF Waits
  <2> QED BY <1>1, <1>2, <1>7, <2>1, CountsQuiet, DueKept
<1>10. OnItsWay'
  <2>1. \A r \in Replicas, m \in Messages : Waits(r, m)' <=> Waits(r, m)
    BY <1>1 DEF Waits
  <2>2. ASSUME NEW r \in Replicas, NEW m \in Messages, NEW q \in OpenIn(r), joined[q] < m, Comes(r, m, q)
        PROVE  Comes(r, m, q)'
    <3>1. CASE r = b.replica /\ m = b.message
      <4>1. q \in b.members /\ q \in room[b.replica] /\ q \notin Gone
        BY <1>2, <1>3, <2>2, <3>1 DEF Sending, OpenIn, Orders, RoomsHold, Gone
      <4>2. Has(q, m)
        BY <1>1, <1>3, <3>1, <4>1 DEF Sending
      <4> QED BY <1>1, <4>2 DEF Comes, Has
    <3>2. CASE ~(r = b.replica /\ m = b.message)
      BY <1>1, <2>2, <3>2 DEF Comes, UnderWay, Has
    <3> QED BY <3>1, <3>2
  <2>3. published \in Nat
    BY Shape
  <2>4. \A m \in Messages : ~(m > published /\ m <= published')
    BY <1>1, <2>3, Numbers
  <2> QED BY <1>1, <1>2, <1>5, <2>1, <2>2, <2>3, <2>4, Conveyed
<1> QED BY <1>8, <1>9, <1>10

LEMMA AbortKeeps ==
  ASSUME TypeOK, TypeOK', FanoutInv, NEW b \in broadcasts, Abort(b)
  PROVE  Orders' /\ Counted' /\ OnItsWay'
<1>1. /\ broadcasts' = broadcasts \ {b}
      /\ aborted' = aborted \cup {<<b.replica, b.message>>}
      /\ UNCHANGED <<published, subscribed, queue, missed, socket, room, joined, got, repeated, local>>
  BY DEF Abort, redis, rooms
<1> HIDE DEF FanoutInv
<1>2. Orders /\ Counted /\ OnItsWay
  BY DEF FanoutInv
<1>4. RoomsHold'
  BY <1>1, <1>2 DEF Orders, RoomsHold
<1>5. \A r \in Replicas : \A q \in OpenIn(r)' : q \in OpenIn(r) /\ joined'[q] = joined[q]
  BY <1>1 DEF OpenIn
<1>6. Gone \subseteq Gone' /\ OneAtATime'
  BY <1>1, <1>2 DEF Gone, Orders, OneAtATime
<1>7. broadcasts' \subseteq broadcasts
  BY <1>1
<1>8. Orders'
  BY <1>1, <1>2, <1>4, <1>5, <1>6, <1>7, RoomsKeep
<1>9. Counted'
  <2>1. \A r \in Replicas, m \in Messages : Waits(r, m)' => Waits(r, m)
    BY <1>1 DEF Waits
  <2> QED BY <1>1, <1>2, <1>7, <2>1, CountsQuiet, DueKept
<1>10. OnItsWay'
  <2>1. \A r \in Replicas, m \in Messages : Waits(r, m)' <=> Waits(r, m)
    BY <1>1 DEF Waits
  <2>2. ASSUME NEW r \in Replicas, NEW m \in Messages, NEW q \in OpenIn(r), Comes(r, m, q)
        PROVE  Comes(r, m, q)'
    BY <1>1, <2>2 DEF Comes, UnderWay, Has
  <2>3. published \in Nat
    BY Shape
  <2>4. \A m \in Messages : ~(m > published /\ m <= published')
    BY <1>1, <2>3, Numbers
  <2> QED BY <1>1, <1>2, <1>5, <2>1, <2>2, <2>3, <2>4, Conveyed
<1> QED BY <1>8, <1>9, <1>10

LEMMA ResubscribeKeeps ==
  ASSUME TypeOK, TypeOK', FanoutInv, NEW r \in Replicas, Resubscribe(r)
  PROVE  Orders' /\ Counted' /\ OnItsWay'
<1>1. UNCHANGED <<published, queue, missed, socket, room, joined, broadcasts, got, repeated, local, aborted>>
  BY DEF Resubscribe, rooms, history
<1>2. Orders' /\ OnItsWay'
  BY <1>1 DEF FanoutInv, Orders, RoomsHold, SendingsSound, Sending, InTurn, OneAtATime, GotPublished,
     InOrder, QueuesInOrder, OnItsWay, OpenIn, Gone, Comes, UnderWay, Has, Waits
<1>3. Counted'
  BY <1>1 DEF FanoutInv, Counted, Within, DueRedis, DueLocal, Waits, Times
<1> QED BY <1>2, <1>3

LEMMA LosesRedisKeeps ==
  ASSUME TypeOK, TypeOK', FanoutInv, NEW r \in Replicas, LosesRedis(r)
  PROVE  Orders' /\ Counted' /\ OnItsWay'
<1>1. /\ queue' = [queue EXCEPT ![r] = <<>>]
      /\ missed' = missed \cup {<<r, queue[r][i]>> : i \in 1..Len(queue[r])}
      /\ UNCHANGED <<published, rooms, socket, room, joined, broadcasts, got, repeated, local, aborted>>
  BY DEF LosesRedis, rooms, history
<1> HIDE DEF FanoutInv
<1>2. Orders /\ Counted /\ OnItsWay
  BY DEF FanoutInv
<1>3. /\ QueuesMove
      /\ \A q \in Replicas, n \in Messages : Waits(q, n)' => Waits(q, n)
      /\ \A q \in Replicas \ {r}, n \in Messages : Waits(q, n) => Waits(q, n)'
  BY <1>1, <1>2, DropQueues
<1>4. Orders'
  BY <1>1, <1>2, <1>3, QuietKeeps
<1>5. Counted'
  BY <1>1, <1>2, <1>3, CountsQuiet, DueKept
<1>6. OnItsWay'
  <2>1. \A q \in Replicas, m \in Messages : Waits(q, m) => Waits(q, m)' \/ <<q, m>> \in missed'
    <3>1. \A m \in Messages : Waits(r, m) => <<r, m>> \in missed'
      BY <1>1 DEF Waits
    <3> QED BY <1>3, <3>1
  <2>2. \A q \in Replicas, m \in Messages, s \in Sockets : Comes(q, m, s)' <=> Comes(q, m, s)
    BY <1>1 DEF Comes, UnderWay, Has
  <2>3. published \in Nat /\ missed \subseteq missed'
    BY <1>1, Shape
  <2>4. \A m \in Messages : ~(m > published /\ m <= published')
    BY <1>1, <2>3, Numbers
  <2>5. \A q \in Replicas : OpenIn(q)' = OpenIn(q) /\ OpenIn(q) \subseteq Sockets
    BY <1>1 DEF OpenIn
  <2> QED BY <1>1, <1>2, <2>1, <2>2, <2>3, <2>4, <2>5, Conveyed
<1> QED BY <1>4, <1>5, <1>6

LEMMA PublishKeeps ==
  ASSUME TypeOK, TypeOK', FanoutInv, Publish
  PROVE  Orders' /\ Counted' /\ OnItsWay'
<1>1. /\ ToSubscribers
      /\ UNCHANGED <<rooms, socket, room, joined, broadcasts, got, repeated, local, aborted>>
  BY DEF Publish, rooms, history
<1> HIDE DEF FanoutInv
<1>2. Orders /\ Counted /\ OnItsWay
  BY DEF FanoutInv
<1>3. /\ QueuesMove
      /\ Message \in Messages /\ published' = Message /\ published \in Nat /\ Message = published + 1
      /\ \A r \in Replicas, m \in Messages :
           /\ Waits(r, m) => Waits(r, m)'
           /\ Waits(r, m)' => Waits(r, m) \/ m = Message
      /\ \A r \in subscribed, m \in Messages : m = Message => Waits(r, m)'
  BY <1>1, <1>2, PublishQueues DEF Message
<1>4. Orders'
  BY <1>1, <1>2, <1>3, QuietKeeps
<1>5. missed' = missed \cup {<<r, Message>> : r \in Replicas \ subscribed}
  BY <1>1 DEF ToSubscribers
<1>6. Counted'
  <2>1. ASSUME NEW q \in Sockets, NEW m \in Messages PROVE Within(q, m)'
    <3>1. Times(q, m) \in Nat /\ Times(q, m)' = Times(q, m)
      <4>1. Times(q, m)' = Times(q, m)
        BY <1>1 DEF Times
      <4> QED BY <4>1, TimesCount
    <3>2. DueLocal(q, m)' => DueLocal(q, m)
      BY <1>1 DEF DueLocal
    <3>3. CASE m = Message
      <4>1. m > published
        BY <1>3, <3>3
      <4>2. Times(q, m) = 0
        BY <1>2, <4>1, NewIsUnsent
      <4>3. ~DueLocal(q, m)
        BY <1>2, <4>1, NewIsUndue
      <4> QED BY <1>1, <1>2, <3>1, <3>2, <4>2, <4>3, CountKept
    <3>4. CASE m # Message
      <4>1. DueRedis(q, m)' => DueRedis(q, m)
        BY <1>1, <1>3, <3>4, Numbers DEF DueRedis
      <4> QED BY <1>1, <1>2, <3>1, <3>2, <4>1, CountKept
    <3> QED BY <3>3, <3>4
  <2> QED BY <2>1 DEF Counted
<1>7. OnItsWay'
  <2>1. \A q \in Replicas, m \in Messages, s \in Sockets : Comes(q, m, s)' <=> Comes(q, m, s)
    BY <1>1 DEF Comes, UnderWay, Has
  <2>2. published' \in Nat /\ missed \subseteq missed' /\ published <= published'
    BY <1>3, <1>5
  <2>3. \A q \in Replicas : OpenIn(q)' = OpenIn(q) /\ OpenIn(q) \subseteq Sockets
    BY <1>1 DEF OpenIn
  <2>4. ASSUME NEW r \in Replicas, NEW m \in Messages, m > published, m <= published'
        PROVE  <<r, m>> \notin local' /\ (<<r, m>> \notin missed' => Waits(r, m)')
    <3>1. m = Message
      BY <1>3, <2>4, Numbers
    <3>2. <<r, m>> \notin missed' => Waits(r, m)'
      BY <1>3, <1>5, <3>1
    <3>3. <<r, m>> \notin local
      <4>1. LocalPublished /\ m \in Nat
        BY Numbers DEF FanoutInv
      <4> QED BY <1>3, <2>4, <4>1 DEF LocalPublished
    <3> QED BY <1>1, <3>2, <3>3
  <2> QED BY <1>1, <1>2, <1>3, <2>1, <2>2, <2>3, <2>4, Conveyed
<1> QED BY <1>4, <1>6, <1>7

LEMMA QueuesStay ==
  ASSUME TypeOK, Orders, UNCHANGED queue, published' \in Nat, published <= published', local \subseteq local'
  PROVE  QueuesMove
<1>1. \A r \in Replicas : \A i \in 1..Len(queue[r]) :
        /\ queue[r][i] <= published /\ queue[r][i] \in Nat
        /\ \A j \in 1..Len(queue[r]) : i < j => queue[r][i] < queue[r][j]
  BY Shape DEF Orders, QueuesInOrder
<1>2. \A r \in Replicas : \A i \in 1..Len(queue[r]) : queue[r][i] <= published'
  BY <1>1, Shape
<1>3. queue' \in [Replicas -> Seq(Messages)]
  BY DEF TypeOK
<1> QED BY <1>1, <1>2, <1>3 DEF QueuesMove

LEMMA SendNextKeeps ==
  ASSUME TypeOK, TypeOK', FanoutInv, NEW b \in broadcasts, SendNext(b)
  PROVE  Orders' /\ Counted' /\ OnItsWay'
<1>1. UNCHANGED <<rooms, published, subscribed, queue, missed, socket, room, joined, repeated, local, aborted>>
  BY DEF SendNext, redis, rooms, history
<1> HIDE DEF FanoutInv
<1>2. Orders /\ Counted /\ OnItsWay
  BY DEF FanoutInv
<1>3. PICK s \in room[b.replica] \ b.sent, c \in Records :
        /\ s \in Sockets /\ broadcasts' = (broadcasts \ {b}) \cup {c} /\ Delivers(c, s)
        /\ c.replica = b.replica /\ c.message = b.message /\ c.via = b.via
        /\ c.members = b.members /\ c.sent = b.sent \cup {s} /\ c.dead = b.dead \cup ({s} \cap Gone)
  BY SendNextDelivers
<1>4. /\ b.replica \in Replicas /\ b.message \in Nat /\ b.message \in Messages /\ b \in Records
      /\ Sending(b) /\ Home[s] = b.replica
  BY <1>2, <1>3, Shape DEF Orders, SendingsSound, RoomsHold
<1>5. \A d \in broadcasts \ {b} : ~(/\ d.replica = b.replica /\ d.via = b.via
                                    /\ d.via = "redis" \/ d.message = b.message)
  BY <1>2 DEF Orders, OneAtATime
<1>6. QueuesMove
  BY <1>1, <1>2, Shape, QueuesStay
<1>7. Orders'
  <2>1. c.message <= published' /\ c.dead \subseteq Gone
    BY <1>1, <1>3, <1>4 DEF Sending
  <2>2. \A q \in c.sent : q = s \/ q \in Gone \/ Has(q, c.message)
    BY <1>3, <1>4 DEF Sending
  <2>3. \A q \in OpenIn(c.replica) : joined[q] < c.message => q \in c.members
    BY <1>3, <1>4 DEF Sending
  <2>4. c.via = "local" => <<c.replica, c.message>> \in local'
    BY <1>1, <1>3, <1>4 DEF Sending
  <2>5. c.via = "redis" =>
           /\ \A i \in 1..Len(queue'[c.replica]) : c.message < queue'[c.replica][i]
           /\ \A q \in Sockets : Home[q] = c.replica =>
                \A k \in 1..Len(got[q]) : got[q][k] <= c.message \/ AloneIn(local, got[q][k])
    BY <1>1, <1>3, <1>4 DEF Sending, InTurn
  <2>6. \A d \in broadcasts \ {b} : ~(/\ d.replica = c.replica /\ d.via = c.via
                                      /\ d.via = "redis" \/ d.message = c.message)
    BY <1>3, <1>5
  <2>7. s \in room[c.replica]
    BY <1>3
  <2> QED BY <1>1, <1>2, <1>3, <1>6, <2>1, <2>2, <2>3, <2>4, <2>5, <2>6, <2>7, SendKeeps
<1>8. Counted'
  <2>1. ASSUME NEW q \in Sockets, NEW m \in Messages PROVE Within(q, m)'
    <3>1. /\ Times(q, m) \in Nat /\ Times(q, m)' \in Nat
          /\ Times(q, m)' <= Times(q, m) + 1
          /\ q # s \/ m # c.message => Times(q, m)' = Times(q, m)
      BY <1>3, TimesGrow
    <3>2. DueRedis(q, m)' => DueRedis(q, m)
      BY <1>1, <1>3 DEF DueRedis, Waits
    <3>3. DueLocal(q, m)' => DueLocal(q, m)
      BY <1>1, <1>3 DEF DueLocal
    <3>4. CASE q # s \/ m # c.message
      BY <1>1, <1>2, <3>1, <3>2, <3>3, <3>4, CountKept
    <3>5. CASE q = s /\ m = c.message /\ c.via = "redis"
      <4>1. DueRedis(q, m)
        BY <1>3, <1>4, <3>5 DEF DueRedis
      <4>2. ~Waits(b.replica, m)'
        <5>1. \A i \in 1..Len(queue[b.replica]) : m < queue[b.replica][i] /\ queue[b.replica][i] \in Nat
          BY <1>3, <1>4, <3>5, Shape DEF Sending, InTurn
        <5>2. m \in Nat
          BY Numbers
        <5> QED BY <1>1, <5>1, <5>2 DEF Waits
      <4>3. ~DueRedis(q, m)'
        BY <1>3, <1>4, <1>5, <3>5, <4>2 DEF DueRedis
      <4> QED BY <1>1, <1>2, <3>1, <3>3, <4>1, <4>3, CountKept
    <3>6. CASE q = s /\ m = c.message /\ c.via = "local"
      <4>1. DueLocal(q, m)
        BY <1>3, <1>4, <3>6 DEF DueLocal
      <4>2. ~DueLocal(q, m)'
        BY <1>3, <1>4, <1>5, <3>6 DEF DueLocal
      <4> QED BY <1>1, <1>2, <3>1, <3>2, <4>1, <4>2, CountKept
    <3> QED BY <3>4, <3>5, <3>6 DEF Records, Via
  <2> QED BY <2>1 DEF Counted
<1>9. OnItsWay'
  <2>1. \A q \in Sockets, m \in Messages : Has(q, m) => Has(q, m)'
    BY <1>3, GotGrows DEF Has
  <2>2. \A r \in Replicas, m \in Messages : UnderWay(r, m) => UnderWay(r, m)'
    BY <1>3 DEF UnderWay
  <2>3. \A r \in Replicas, m \in Messages, q \in Sockets : Comes(r, m, q) => Comes(r, m, q)'
    BY <1>1, <2>1, <2>2 DEF Comes
  <2>4. published \in Nat
    BY Shape
  <2>5. \A m \in Messages : ~(m > published /\ m <= published')
    BY <1>1, <2>4, Numbers
  <2>6. \A r \in Replicas : OpenIn(r)' = OpenIn(r) /\ OpenIn(r) \subseteq Sockets
    BY <1>1 DEF OpenIn
  <2>7. \A r \in Replicas, m \in Messages : Waits(r, m)' <=> Waits(r, m)
    BY <1>1 DEF Waits
  <2> QED BY <1>1, <1>2, <2>3, <2>4, <2>5, <2>6, <2>7, Conveyed
<1> QED BY <1>7, <1>8, <1>9

LEMMA TakeKeeps ==
  ASSUME TypeOK, TypeOK', FanoutInv, NEW r \in Replicas, Take(r)
  PROVE  Orders' /\ Counted' /\ OnItsWay'
<1>1. /\ queue[r] # <<>> /\ queue' = [queue EXCEPT ![r] = Tail(@)]
      /\ ~\E b \in broadcasts : b.replica = r /\ b.via = "redis"
      /\ UNCHANGED <<rooms, published, subscribed, missed, socket, room, joined, repeated, local, aborted>>
  BY DEF Take, rooms, history
<1> HIDE DEF FanoutInv
<1>2. Orders /\ Counted /\ OnItsWay
  BY DEF FanoutInv
<1>3. PICK h : h = Head(queue[r])
  OBVIOUS
<1>4. /\ QueuesMove
      /\ h \in Messages /\ h <= published /\ Waits(r, h)
      /\ \A i \in 1..Len(queue'[r]) : h < queue'[r][i]
      /\ \A s \in Sockets : Home[s] = r =>
           \A k \in 1..Len(got[s]) : got[s][k] <= h \/ AloneIn(local, got[s][k])
      /\ \A q \in Replicas, n \in Messages : Waits(q, n)' => Waits(q, n)
      /\ \A q \in Replicas, n \in Messages :
           Waits(q, n) => Waits(q, n)' \/ (q = r /\ n = h)
  BY <1>1, <1>2, <1>3, TakeQueues
<1>5. Begin(r, h, "redis")
  BY <1>3 DEF Take, Begin, Send
<1>6. OpenIn(r) \subseteq room[r]
  BY <1>2 DEF OpenIn, Orders, RoomsHold
<1>7. /\ published \in Nat /\ \A m \in Messages : ~(m > published /\ m <= published')
      /\ \A q \in Replicas : OpenIn(q)' = OpenIn(q) /\ OpenIn(q) \subseteq Sockets
  <2>1. published \in Nat
    BY Shape
  <2>2. published' = published /\ \A m \in Messages : m \in Nat
    BY <1>1, Numbers
  <2>3. \A m \in Messages : ~(m > published /\ m <= published')
    BY <2>1, <2>2
  <2> QED BY <1>1, <2>1, <2>3 DEF OpenIn
<1>8. CASE room[r] = {} /\ UNCHANGED <<broadcasts, got>>
  <2>1. Orders'
    BY <1>1, <1>2, <1>4, <1>8, QuietKeeps
  <2>2. Counted'
    BY <1>1, <1>2, <1>4, <1>8, CountsQuiet, DueKept
  <2>3. \A q \in Replicas, m \in Messages, s \in Sockets : Comes(q, m, s)' <=> Comes(q, m, s)
    BY <1>1, <1>8 DEF Comes, UnderWay, Has
  <2>4. \A q \in Replicas, m \in Messages : \A s \in OpenIn(q) : Waits(q, m) => Waits(q, m)'
    BY <1>4, <1>6, <1>8
  <2>5. OnItsWay'
    BY <1>1, <1>2, <1>7, <2>3, <2>4, Conveyed
  <2> QED BY <2>1, <2>2, <2>5
<1>9. ASSUME NEW s \in room[r], NEW c \in Records,
             s \in Sockets, broadcasts' = broadcasts \cup {c}, Delivers(c, s),
             c.replica = r, c.message = h, c.via = "redis",
             c.members = room[r], c.sent = {s}, c.dead = {s} \cap Gone
      PROVE  Orders' /\ Counted' /\ OnItsWay'
  <2>1. Orders'
    <3>1. c.message <= published' /\ c.dead \subseteq Gone /\ s \in room[c.replica]
      BY <1>1, <1>4, <1>9
    <3>2. \A q \in OpenIn(c.replica) : joined[q] < c.message => q \in c.members
      BY <1>6, <1>9
    <3>3. /\ \A i \in 1..Len(queue'[c.replica]) : c.message < queue'[c.replica][i]
          /\ \A q \in Sockets : Home[q] = c.replica =>
               \A k \in 1..Len(got[q]) : got[q][k] <= c.message \/ AloneIn(local, got[q][k])
      BY <1>4, <1>9
    <3>4. \A d \in broadcasts : ~(/\ d.replica = c.replica /\ d.via = c.via
                                  /\ d.via = "redis" \/ d.message = c.message)
      BY <1>1, <1>9
    <3>5. \A q \in c.sent : q = s \/ q \in Gone \/ Has(q, c.message)
      BY <1>9
    <3>6. c.via = "local" => <<c.replica, c.message>> \in local'
      BY <1>9
    <3> QED BY <1>1, <1>2, <1>4, <1>9, <3>1, <3>2, <3>3, <3>4, <3>5, <3>6, SendKeeps
  <2>2. Counted'
    <3>1. ASSUME NEW q \in Sockets, NEW m \in Messages PROVE Within(q, m)'
      <4>1. /\ Times(q, m) \in Nat /\ Times(q, m)' \in Nat
            /\ Times(q, m)' <= Times(q, m) + 1
            /\ q # s \/ m # c.message => Times(q, m)' = Times(q, m)
        BY <1>9, TimesGrow
      <4>2. DueRedis(q, m)' => DueRedis(q, m)
        BY <1>4, <1>9, Numbers DEF DueRedis
      <4>3. DueLocal(q, m)' => DueLocal(q, m)
        BY <1>9 DEF DueLocal
      <4>4. CASE q # s \/ m # c.message
        BY <1>1, <1>2, <4>1, <4>2, <4>3, <4>4, CountKept
      <4>5. CASE q = s /\ m = c.message
        <5>1. Home[q] = r
          BY <1>2, <1>9, <4>5 DEF Orders, RoomsHold
        <5>2. DueRedis(q, m)
          BY <1>4, <1>9, <4>5, <5>1 DEF DueRedis
        <5>3. ~Waits(r, m)'
          <6>1. m \in Nat /\ \A i \in 1..Len(queue'[r]) : m < queue'[r][i]
            BY <1>4, <1>9, <4>5, Numbers
          <6> QED BY <6>1 DEF Waits
        <5>4. ~DueRedis(q, m)'
          BY <1>1, <1>9, <4>5, <5>1, <5>3 DEF DueRedis
        <5> QED BY <1>1, <1>2, <4>1, <4>3, <5>2, <5>4, CountKept
      <4> QED BY <4>4, <4>5
    <3> QED BY <3>1 DEF Counted
  <2>3. OnItsWay'
    <3>1. \A q \in Sockets, m \in Messages : Has(q, m) => Has(q, m)'
      BY <1>9, GotGrows DEF Has
    <3>2. \A q \in Replicas, m \in Messages : UnderWay(q, m) => UnderWay(q, m)'
      BY <1>9 DEF UnderWay
    <3>3. \A q \in Replicas, m \in Messages, t \in Sockets : Comes(q, m, t) => Comes(q, m, t)'
      BY <1>1, <3>1, <3>2 DEF Comes
    <3>4. UnderWay(r, h)'
      BY <1>9 DEF UnderWay
    <3>5. \A q \in Replicas, m \in Messages : \A t \in OpenIn(q) :
             Waits(q, m) => Waits(q, m)' \/ Comes(q, m, t)'
      BY <1>4, <3>4 DEF Comes
    <3> QED BY <1>1, <1>2, <1>7, <3>3, <3>5, Conveyed
  <2> QED BY <2>1, <2>2, <2>3
<1> QED
  <2>1. "redis" \in Via
    BY DEF Via
  <2> QED BY <1>4, <1>5, <1>8, <1>9, <2>1, BeginDelivers

\* A publisher broadcasts the new message n by itself, whether or not Redis passed it on.
LEMMA AloneKeeps ==
  ASSUME TypeOK, TypeOK', FanoutInv, QueuesMove, NEW r \in Replicas, NEW n \in Messages,
         n = published + 1, published' = n, Begin(r, n, "local"),
         local' = local \cup {<<r, n>>}, missed \subseteq missed', repeated \subseteq repeated',
         UNCHANGED <<rooms, aborted>>,
         \A q \in Replicas, m \in Messages : Waits(q, m) => Waits(q, m)',
         \A q \in Replicas, m \in Messages :
           Waits(q, m)' => Waits(q, m) \/ (m = n /\ n \in repeated'),
         \A q \in Replicas : <<q, n>> \notin missed' => Waits(q, n)'
  PROVE  Orders' /\ Counted' /\ OnItsWay'
<1>1. UNCHANGED <<socket, room, joined>>
  BY DEF rooms
<1> HIDE DEF FanoutInv
<1>2. Orders /\ Counted /\ OnItsWay /\ LocalPublished
  BY DEF FanoutInv
<1>3. published \in Nat /\ n \in Nat /\ n > published /\ published <= published'
  BY Shape
<1>4. OpenIn(r) \subseteq room[r]
  BY <1>2 DEF OpenIn, Orders, RoomsHold
<1>5. \A m \in Messages : m > published /\ m <= published' => m = n
  BY <1>3, Numbers
<1>6. \A q \in Replicas : OpenIn(q)' = OpenIn(q) /\ OpenIn(q) \subseteq Sockets
  BY <1>1 DEF OpenIn
<1>7. /\ \A q \in Replicas, m \in Messages : m <= published /\ <<q, m>> \in local' => <<q, m>> \in local
      /\ \A q \in Replicas : <<q, n>> \in local' => q = r
  <2>1. ~(n <= published)
    BY <1>3
  <2> QED BY <1>2, <2>1 DEF LocalPublished
<1>8. /\ \A b \in broadcasts : b.message # n
      /\ \A q \in Replicas : ~Waits(q, n)
      /\ \A q \in Sockets : ~DueRedis(q, n) /\ ~DueLocal(q, n) /\ Times(q, n) = 0
  BY <1>2, <1>3, NewIsUndue, NewIsUnsent
<1>9. CASE room[r] = {} /\ UNCHANGED <<broadcasts, got>>
  <2>1. Orders'
    BY <1>1, <1>2, <1>9, QuietKeeps
  <2>2. Counted'
    <3>1. ASSUME NEW q \in Sockets, NEW m \in Messages PROVE Within(q, m)'
      <4>1. Times(q, m) \in Nat /\ Times(q, m)' = Times(q, m)
        <5>1. Times(q, m)' = Times(q, m)
          BY <1>9 DEF Times
        <5> QED BY <5>1, TimesCount
      <4>2. DueLocal(q, m)' => DueLocal(q, m)
        BY <1>9 DEF DueLocal
      <4>3. CASE m # n
        <5>1. DueRedis(q, m)' => DueRedis(q, m)
          BY <1>9, <4>3, Numbers DEF DueRedis
        <5> QED BY <1>2, <4>1, <4>2, <5>1, CountKept
      <4>4. CASE m = n
        BY <1>2, <1>8, <4>1, <4>2, <4>4, CountKept
      <4> QED BY <4>3, <4>4
    <3> QED BY <3>1 DEF Counted
  <2>3. OnItsWay'
    <3>1. \A q \in Replicas, m \in Messages, s \in Sockets : Comes(q, m, s)' <=> Comes(q, m, s)
      BY <1>1, <1>9 DEF Comes, UnderWay, Has
    <3>2. OpenIn(r) = {}
      BY <1>4, <1>9
    <3>3. ASSUME NEW q \in Replicas, NEW m \in Messages, NEW s \in OpenIn(q), m > published, m <= published'
          PROVE  /\ <<q, m>> \notin local'
                 /\ <<q, m>> \notin missed' => Waits(q, m)'
      <4>1. m = n
        BY <1>5, <3>3
      <4> QED BY <1>7, <3>2, <3>3, <4>1
    <3> QED BY <1>1, <1>2, <1>3, <1>6, <1>7, <3>1, <3>3, Conveyed
  <2> QED BY <2>1, <2>2, <2>3
<1>10. ASSUME NEW s \in room[r], NEW c \in Records,
              s \in Sockets, broadcasts' = broadcasts \cup {c}, Delivers(c, s),
              c.replica = r, c.message = n, c.via = "local",
              c.members = room[r], c.sent = {s}, c.dead = {s} \cap Gone
       PROVE  Orders' /\ Counted' /\ OnItsWay'
  <2>1. Orders'
    <3>1. c.message <= published' /\ c.dead \subseteq Gone /\ s \in room[c.replica]
      BY <1>3, <1>10
    <3>2. \A q \in OpenIn(c.replica) : joined[q] < c.message => q \in c.members
      BY <1>4, <1>10
    <3>3. c.via # "redis" /\ <<c.replica, c.message>> \in local'
      BY <1>10
    <3>4. \A d \in broadcasts : ~(/\ d.replica = c.replica /\ d.via = c.via
                                  /\ d.via = "redis" \/ d.message = c.message)
      BY <1>8, <1>10
    <3>5. \A q \in c.sent : q = s \/ q \in Gone \/ Has(q, c.message)
      BY <1>10
    <3> QED BY <1>1, <1>2, <1>10, <3>1, <3>2, <3>3, <3>4, <3>5, SendKeeps
  <2>2. Counted'
    <3>1. ASSUME NEW q \in Sockets, NEW m \in Messages PROVE Within(q, m)'
      <4>1. /\ Times(q, m) \in Nat /\ Times(q, m)' \in Nat
            /\ Times(q, m)' <= Times(q, m) + 1
            /\ q # s \/ m # c.message => Times(q, m)' = Times(q, m)
        BY <1>10, TimesGrow
      <4>2. CASE m # n
        <5>1. DueRedis(q, m)' => DueRedis(q, m)
          BY <1>10, <4>2, Numbers DEF DueRedis
        <5>2. DueLocal(q, m)' => DueLocal(q, m)
          BY <1>10, <4>2 DEF DueLocal
        <5> QED BY <1>2, <1>10, <4>1, <4>2, <5>1, <5>2, CountKept
      <4>3. CASE m = n
        <5>1. ~DueRedis(q, m)' \/ m \in repeated'
          BY <1>8, <1>10, <4>3, Numbers DEF DueRedis
        <5>2. q = s => Times(q, m)' <= 1 /\ ~DueLocal(q, m)'
          <6>1. q = s => ~DueLocal(q, m)'
            BY <1>8, <1>10, <4>3 DEF DueLocal
          <6>2. Times(q, m)' <= 1
            BY <1>8, <4>1, <4>3
          <6> QED BY <6>1, <6>2
        <5>3. q # s => Times(q, m)' = 0
          BY <1>8, <4>1, <4>3
        <5> QED BY <1>2, <4>1, <5>1, <5>2, <5>3, CountKept
      <4> QED BY <4>2, <4>3
    <3> QED BY <3>1 DEF Counted
  <2>3. OnItsWay'
    <3>1. \A q \in Sockets, m \in Messages : Has(q, m) => Has(q, m)'
      BY <1>10, GotGrows DEF Has
    <3>2. /\ \A q \in Replicas, m \in Messages : UnderWay(q, m) => UnderWay(q, m)'
          /\ UnderWay(r, n)'
      BY <1>10 DEF UnderWay
    <3>3. \A q \in Replicas, m \in Messages, t \in Sockets : Comes(q, m, t) => Comes(q, m, t)'
      BY <1>1, <3>1, <3>2 DEF Comes
    <3>4. ASSUME NEW q \in Replicas, NEW m \in Messages, NEW t \in OpenIn(q), m > published, m <= published'
          PROVE  /\ <<q, m>> \in local' => Comes(q, m, t)'
                 /\ <<q, m>> \notin missed' => Waits(q, m)'
      <4>1. m = n
        BY <1>5, <3>4
      <4>2. <<q, m>> \in local' => q = r
        BY <1>7, <4>1
      <4> QED BY <3>2, <4>1, <4>2 DEF Comes
    <3> QED BY <1>1, <1>2, <1>3, <1>6, <1>7, <3>3, <3>4, Conveyed
  <2> QED BY <2>1, <2>2, <2>3
<1> QED
  <2>1. "local" \in Via
    BY DEF Via
  <2> QED BY <1>9, <1>10, <2>1, BeginDelivers

LEMMA PublishFailsKeeps ==
  ASSUME TypeOK, TypeOK', FanoutInv, NEW r \in Replicas, PublishFails(r)
  PROVE  Orders' /\ Counted' /\ OnItsWay'
<1>1. PICK n : n = published + 1
  OBVIOUS
<1>2. /\ published < MaxMessages /\ published' = n /\ local' = local \cup {<<r, n>>}
      /\ missed' = missed \cup {<<q, n>> : q \in Replicas}
      /\ UNCHANGED <<queue, rooms, repeated, aborted>>
  BY <1>1 DEF PublishFails, Message
<1>3. Begin(r, n, "local")
  BY <1>1 DEF PublishFails, Message, Begin, Send
<1>4. n \in Messages /\ published' \in Nat /\ published <= published'
  BY <1>1, <1>2, Shape, Numbers DEF Messages
<1>5. QueuesMove
  BY <1>2, <1>4, QueuesStay DEF FanoutInv
<1>6. \A q \in Replicas, m \in Messages : Waits(q, m)' <=> Waits(q, m)
  BY <1>2 DEF Waits
<1>7. missed \subseteq missed' /\ \A q \in Replicas : <<q, n>> \in missed'
  BY <1>2
<1> HIDE DEF FanoutInv
<1> QED BY <1>1, <1>2, <1>3, <1>4, <1>5, <1>6, <1>7, AloneKeeps

LEMMA PublishReplyLostKeeps ==
  ASSUME TypeOK, TypeOK', FanoutInv, NEW r \in Replicas, PublishReplyLost(r)
  PROVE  Orders' /\ Counted' /\ OnItsWay'
<1>1. PICK n : n = published + 1
  OBVIOUS
<1>2. /\ local' = local \cup {<<r, n>>} /\ repeated' = repeated \cup {n}
      /\ missed' = missed \cup {<<q, n>> : q \in Replicas \ subscribed}
      /\ UNCHANGED <<rooms, aborted>> /\ ToSubscribers
  BY <1>1 DEF PublishReplyLost, ToSubscribers, Message
<1>3. Begin(r, n, "local")
  BY <1>1 DEF PublishReplyLost, Message, Begin, Send
<1>4. /\ QueuesMove
      /\ Message \in Messages /\ published' = Message
      /\ \A q \in Replicas, m \in Messages :
           /\ Waits(q, m) => Waits(q, m)'
           /\ Waits(q, m)' => Waits(q, m) \/ m = Message
      /\ \A q \in subscribed, m \in Messages : m = Message => Waits(q, m)'
  BY <1>2, PublishQueues DEF FanoutInv
<1>5. /\ n \in Messages /\ published' = n
      /\ \A q \in Replicas, m \in Messages :
           /\ Waits(q, m) => Waits(q, m)'
           /\ Waits(q, m)' => Waits(q, m) \/ (m = n /\ n \in repeated')
      /\ \A q \in subscribed : Waits(q, n)'
  BY <1>1, <1>2, <1>4 DEF Message
<1>6. missed \subseteq missed' /\ repeated \subseteq repeated'
  BY <1>2
<1>7. \A q \in Replicas : <<q, n>> \notin missed' => Waits(q, n)'
  BY <1>2, <1>5
<1> HIDE DEF FanoutInv
<1> QED BY <1>1, <1>2, <1>3, <1>4, <1>5, <1>6, <1>7, AloneKeeps

LEMMA LocalKept ==
  ASSUME TypeOK, LocalPublished, Next
  PROVE  LocalPublished'
<1>1. published \in Nat
  BY Shape
<1>2. ASSUME local' = local, published' = published \/ published' = published + 1
      PROVE  LocalPublished'
  BY <1>1, <1>2, Numbers DEF LocalPublished
<1>3. ASSUME NEW r \in Replicas, published' = Message, local' = local \cup {<<r, Message>>}
      PROVE  LocalPublished'
  BY <1>1, <1>3, Numbers DEF LocalPublished, Message
<1>4. CASE BroadcastStep
  BY <1>2, <1>4 DEF BroadcastStep, SendNext, Finish, Abort, redis, history
<1>5. CASE Publish
  BY <1>2, <1>5 DEF Publish, ToSubscribers, Message, history
<1>6. ASSUME NEW r \in Replicas,
             PublishFails(r) \/ PublishReplyLost(r) \/ Take(r) \/ LosesRedis(r) \/ Resubscribe(r)
      PROVE  LocalPublished'
  <2>1. CASE PublishFails(r) \/ PublishReplyLost(r)
    BY <1>3, <2>1 DEF PublishFails, PublishReplyLost, ToSubscribers
  <2>2. CASE Take(r) \/ LosesRedis(r) \/ Resubscribe(r)
    BY <1>2, <2>2 DEF Take, LosesRedis, Resubscribe, history
  <2> QED BY <1>6, <2>1, <2>2
<1>7. ASSUME NEW s \in Sockets, Join(s) \/ Leave(s) \/ Disconnect(s) PROVE LocalPublished'
  BY <1>2, <1>7 DEF Join, Leave, Disconnect, redis, history
<1> QED BY <1>4, <1>5, <1>6, <1>7 DEF Next

LEMMA FanoutInit == Init => FanoutInv
<1> SUFFICES ASSUME Init PROVE FanoutInv
  OBVIOUS
<1>1. TypeOK
  BY FanoutAssumption DEF Init, TypeOK, SocketStates
<1>2. /\ broadcasts = {} /\ local = {} /\ published = 0
      /\ \A s \in Sockets : socket[s] = "new" /\ got[s] = <<>> /\ Len(got[s]) = 0
      /\ \A r \in Replicas : room[r] = {} /\ queue[r] = <<>> /\ Len(queue[r]) = 0
  BY DEF Init
<1>3. Orders
  BY <1>2 DEF Orders, RoomsHold, SendingsSound, OneAtATime, GotPublished, InOrder, QueuesInOrder
<1>4. \A s \in Sockets, m \in Messages : Times(s, m) = 0 /\ ~DueRedis(s, m) /\ ~DueLocal(s, m)
  <2>1. \A s \in Sockets, m \in Messages : ~Has(s, m)
    BY <1>2 DEF Has
  <2>2. \A s \in Sockets, m \in Messages : Times(s, m) = 0
    BY <1>1, <2>1, TimesCount
  <2>3. \A r \in Replicas, m \in Messages : ~Waits(r, m)
    BY <1>2 DEF Waits
  <2> QED BY <1>2, <2>2, <2>3, Numbers DEF DueRedis, DueLocal
<1>5. Counted
  BY <1>4 DEF Counted, Within
<1>6. LocalPublished /\ OnItsWay
  BY <1>2 DEF LocalPublished, OnItsWay, OpenIn
<1> QED BY <1>1, <1>3, <1>5, <1>6 DEF FanoutInv

LEMMA FanoutStep == FanoutInv /\ [Next]_vars => FanoutInv'
<1> SUFFICES ASSUME FanoutInv, [Next]_vars PROVE FanoutInv'
  OBVIOUS
<1>1. CASE Next
  <2>1. TypeOK /\ TypeOK' /\ LocalPublished'
    BY <1>1, TypesKept, LocalKept DEF FanoutInv
  <2>2. Orders' /\ Counted' /\ OnItsWay'
    BY <1>1, <2>1, SendNextKeeps, FinishKeeps, AbortKeeps, PublishKeeps, PublishFailsKeeps,
       PublishReplyLostKeeps, TakeKeeps, LosesRedisKeeps, ResubscribeKeeps, JoinKeeps, LeaveKeeps,
       DisconnectKeeps
    DEF Next, BroadcastStep
  <2> QED BY <2>1, <2>2 DEF FanoutInv
<1>2. CASE UNCHANGED vars
  <2>1. UNCHANGED <<published, subscribed, queue, missed, socket, room, joined, broadcasts, got,
                    repeated, local, aborted, faults>>
    BY <1>2 DEF vars, redis, rooms, history
  <2>2. TypeOK' /\ LocalPublished'
    BY <2>1 DEF FanoutInv, TypeOK, LocalPublished
  <2>3. Orders' /\ OnItsWay'
    BY <2>1 DEF FanoutInv, Orders, RoomsHold, SendingsSound, Sending, InTurn, OneAtATime, GotPublished,
       InOrder, QueuesInOrder, OnItsWay, OpenIn, Gone, Comes, UnderWay, Has, Waits
  <2>4. Counted'
    BY <2>1 DEF FanoutInv, Counted, Within, DueRedis, DueLocal, Waits, Times
  <2> QED BY <2>2, <2>3, <2>4 DEF FanoutInv
<1> QED BY <1>1, <1>2

LEMMA FanoutImplies == FanoutInv => OnceInOrder /\ DeliveredOrNamed
<1> SUFFICES ASSUME FanoutInv PROVE OnceInOrder /\ DeliveredOrNamed
  OBVIOUS
<1>1. TypeOK /\ InOrder /\ Counted /\ OnItsWay
  BY DEF FanoutInv, Orders
<1>2. NeverTwice
  <2>1. ASSUME NEW s \in Sockets, NEW m \in Messages
        PROVE  Times(s, m) <= IF m \in repeated THEN 2 ELSE 1
    <3>1. Times(s, m) \in Nat
      BY <1>1, TimesCount
    <3>2. Times(s, m) + (IF DueRedis(s, m) THEN 1 ELSE 0) + (IF DueLocal(s, m) THEN 1 ELSE 0)
            <= IF m \in repeated THEN 2 ELSE 1
      BY <1>1 DEF Counted, Within
    <3> QED BY <3>1, <3>2
  <2> QED BY <2>1 DEF NeverTwice
<1>3. DeliveredOrNamed
  <2>1. ASSUME NEW r \in Replicas, NEW m \in Messages, NEW s \in OpenIn(r), Through(r, m), joined[s] < m
        PROVE  \/ Times(s, m) > 0
               \/ <<r, m>> \in missed /\ <<r, m>> \notin local
               \/ <<r, m>> \in aborted
    <3>1. m <= published /\ ~Waits(r, m) /\ ~UnderWay(r, m)
      BY <2>1 DEF Through, Waits, UnderWay
    <3>2. \/ Has(s, m)
          \/ <<r, m>> \in missed /\ <<r, m>> \notin local
          \/ <<r, m>> \in aborted
      BY <1>1, <2>1, <3>1 DEF OnItsWay, Comes
    <3> QED BY <1>1, <3>2, TimesCount DEF OpenIn
  <2> QED BY <2>1 DEF DeliveredOrNamed
<1> QED BY <1>1, <1>2, <1>3 DEF OnceInOrder

(***************************************************************************)
(* The theorems                                                            *)
(***************************************************************************)
\* The state keeps its types, whatever happens to the replicas' connections.
THEOREM FanoutTypes == Spec => []TypeOK
<1>1. FanoutInv => TypeOK
  BY DEF FanoutInv
<1> QED BY <1>1, FanoutInit, FanoutStep, PTL DEF Spec

\* Whatever joins, leaves, is published and fails, a socket is sent the run's updates
\* in the order of their publication and each once, but for those a replica broadcast by
\* itself because its PUBLISH raised (listen_for_ws_broadcasts, publish_ws_broadcast).
THEOREM EachOnceInOrder == Spec => []OnceInOrder
<1>1. FanoutInv => OnceInOrder
  BY FanoutImplies
<1> QED BY <1>1, FanoutInit, FanoutStep, PTL DEF Spec

\* No update is lost without a trace: when a replica is through with a message, every
\* socket that had joined before it and has not left was sent it, or the replica missed
\* it while its Redis connection was down, or its broadcast raised (ConnectionManager.broadcast,
\* publish_ws_broadcast).
THEOREM NoneLostUnnamed == Spec => []DeliveredOrNamed
<1>1. FanoutInv => DeliveredOrNamed
  BY FanoutImplies
<1> QED BY <1>1, FanoutInit, FanoutStep, PTL DEF Spec

----------------------------------------------------------------------------
(* A GraphQL request among others *)

\* What the session holds of a row was there since its last commit, and is there
\* still unless another request changed it.  A row it let go is of a deleted case.
SessionSound ==
  \A r \in Runs, c \in Cases :
    /\ detached[r][c] = Expired =>
         /\ StatusNow(r, c) \in seen[r][c]
         /\ held[r][c] # Expired => held[r][c] \in seen[r][c]
    /\ detached[r][c] # Expired => detached[r][c] \in seen[r][c] /\ cases[c] = "deleted"
    /\ held[r][c] # Expired /\ <<r, c>> \notin raced =>
         r \in Existing /\ held[r][c] = results[r][c]

\* A mutation of a result holds every row of the run when it commits, and has
\* answered nothing; the selection reads the lists it goes through first.
InItsPlace ==
  /\ step \in {"update", "refresh"} =>
       field.op = "updateResult" /\ field.run \in Existing /\ answer = NoAnswer
  /\ step = "update" =>
       /\ held[field.run][field.case] # Expired
       /\ \A c \in Cases : \/ held[field.run][c] # Expired
                           \/ <<field.run, c>> \in raced
                           \/ results[field.run][c] = NoRow
  /\ step \in {"rows", "columns"} => runList # Unread
  /\ step = "columns" => \A r \in runList : rowList[r] \subseteq Cases
  /\ step \in {"select", "runs", "rows"} => answer.summary = <<>> /\ answer.results = <<>>

\* While columns are read, what the answer has so far is what the session keeps.
AnswerAsKept ==
  step = "columns" =>
    /\ \A r \in DOMAIN answer.summary :
         /\ r \in runList /\ Stale(r) = {}
         /\ \A v \in Statuses :
              answer.summary[r][v] = Cardinality({c \in rowList[r] : Column(r, c) = v})
    /\ \A r \in DOMAIN answer.results :
         /\ r \in runList /\ Stale(r) = {} /\ DOMAIN answer.results[r] = rowList[r]
         /\ \A c \in rowList[r] : answer.results[r][c] = Column(r, c)

\* What a field created is in the lists that are read after it.
Selected == step = "answered" /\ ~answer.error

CaseInLists ==
  step # "field" /\ document # <<>> /\ field.op = "createCase" /\ "cases" \notin listed =>
    /\ step = "select" => caseList = Unread /\ \A c \in made : c \in Cases /\ cases[c] # "unborn"
    /\ step \in {"runs", "rows", "columns"} \/ Selected =>
         \A c \in made : c \in Cases /\ (c \in answer.cases \/ cases[c] = "deleted")

RunInLists ==
  step # "field" /\ document # <<>> /\ field.op = "createRun" /\ "runs" \notin listed =>
    /\ step \in {"select", "runs"} => runList = Unread /\ made \subseteq Existing
    /\ step \in {"rows", "columns"} => made \subseteq runList
    /\ Selected => made \subseteq DOMAIN answer.results

GraphInv ==
  /\ BoardTypeOK /\ GraphTypeOK /\ SessionSound /\ InItsPlace /\ AnswerAsKept
  /\ CaseInLists /\ RunInLists

RowValues == Statuses \cup {NoRow}
HeldValues == RowValues \cup {Expired}

\* What every change of the tables keeps: their types, the runs there are, and
\* the cases that were ever created.
TablesGo ==
  /\ cases' \in [Cases -> CaseStates] /\ results' \in Seq([Cases -> RowValues])
  /\ Existing' \subseteq Runs /\ completed' \subseteq Runs
  /\ Existing \subseteq Existing'
  /\ \A c \in Cases : /\ cases[c] # "unborn" => cases'[c] # "unborn"
                      /\ cases[c] = "deleted" => cases'[c] = "deleted"

LEMMA BoardIs ==
  ASSUME BoardTypeOK
  PROVE  /\ cases \in [Cases -> CaseStates] /\ results \in Seq([Cases -> RowValues])
         /\ Existing = 1..Len(results) /\ Len(results) \in Nat
         /\ \A r \in Existing : results[r] \in [Cases -> RowValues]
         /\ \A r \in Existing : r \in Runs /\ r # 0
         /\ completed \subseteq Runs
<1>1. cases \in [Cases -> CaseStates] /\ results \in Seq([Cases -> RowValues])
      /\ Existing \subseteq Runs /\ completed \subseteq Runs
  BY DEF BoardTypeOK, RowValues
<1>2. Existing = 1..Len(results) /\ Len(results) \in Nat
  BY <1>1 DEF Existing
<1>3. \A r \in 1..Len(results) : results[r] \in [Cases -> RowValues]
  BY <1>1
<1> QED BY <1>1, <1>2, <1>3

LEMMA RowsToRunTyped == RowsToRun \in [Cases -> RowValues] /\ NoRows \in [Cases -> RowValues]
BY DEF RowsToRun, NoRows, RowValues, Statuses, NoRow

LEMMA InsertCaseGoes ==
  ASSUME BoardTypeOK, NEW c \in Cases, NEW s \in {"draft", "active"}, InsertCase(c, s)
  PROVE  TablesGo /\ cases'[c] # "unborn"
<1>1. cases' = [cases EXCEPT ![c] = s] /\ cases[c] = "unborn"
      /\ results' = results /\ completed' = completed
  BY DEF InsertCase
<1>2. cases' \in [Cases -> CaseStates]
  BY <1>1, BoardIs DEF CaseStates
<1>3. \A d \in Cases : cases'[d] = IF d = c THEN s ELSE cases[d]
  BY <1>1, BoardIs
<1> QED BY <1>1, <1>2, <1>3, BoardIs DEF TablesGo, Existing

LEMMA DeleteCaseGoes ==
  ASSUME BoardTypeOK, NEW c \in Cases, NEW e, DeleteCase(c, e)
  PROVE  TablesGo
<1>1. cases' = [cases EXCEPT ![c] = "deleted"] /\ completed' = completed
  BY DEF DeleteCase
<1>2. cases' \in [Cases -> CaseStates]
  BY <1>1, BoardIs DEF CaseStates
<1>3. \A d \in Cases : cases'[d] = IF d = c THEN "deleted" ELSE cases[d]
  BY <1>1, BoardIs
<1>4. results' \in Seq([Cases -> RowValues]) /\ Existing' = Existing
  <2>1. CASE e = "services"
    BY <2>1, BoardIs DEF DeleteCase, Existing
  <2>2. CASE e # "services"
    <3>1. results' = [r \in 1..Len(results) |-> [results[r] EXCEPT ![c] = NoRow]]
      BY <2>2, BoardIs DEF DeleteCase
    <3>2. \A r \in 1..Len(results) : [results[r] EXCEPT ![c] = NoRow] \in [Cases -> RowValues]
      BY BoardIs DEF RowValues
    <3>3. results' \in [1..Len(results) -> [Cases -> RowValues]]
      BY <3>1, <3>2
    <3> QED BY <3>1, <3>3, BoardIs, SeqDef DEF Existing
  <2> QED BY <2>1, <2>2
<1> QED BY <1>1, <1>2, <1>3, <1>4, BoardIs DEF TablesGo, Existing

LEMMA InsertRunGoes ==
  ASSUME BoardTypeOK, NEW e, InsertRun(e)
  PROVE  /\ TablesGo
         /\ Len(results') = Len(results) + 1 /\ Len(results') \in Existing'
         /\ cases' = cases
<1> DEFINE row == IF e = "services" THEN NoRows ELSE RowsToRun
           Row == [Cases -> RowValues]
<1>1. row \in Row
  BY RowsToRunTyped
<1>2. results \in Seq(Row) /\ Len(results) \in Nat /\ Existing = 1..Len(results)
  BY BoardIs
<1>3. results' = Append(results, row) /\ Len(results) + 1 \in Runs
      /\ cases' = cases /\ completed' = completed
  BY DEF InsertRun
<1> HIDE DEF row, Row
<1>4. results' \in Seq(Row) /\ Len(results') = Len(results) + 1
  BY <1>1, <1>2, <1>3
<1>5. Existing' = 1..(Len(results) + 1)
  BY <1>4 DEF Existing
<1>6. \A r \in Existing' : r \in Runs
  BY <1>2, <1>3, <1>5, BoardIs
<1>7. Existing \subseteq Existing' /\ Len(results') \in Existing'
  BY <1>2, <1>4, <1>5
<1>8. results' \in Seq([Cases -> RowValues])
  BY <1>4 DEF Row
<1> QED BY <1>3, <1>4, <1>6, <1>7, <1>8, BoardIs DEF TablesGo

LEMMA RowWritten ==
  ASSUME BoardTypeOK, NEW r \in Existing, NEW row \in [Cases -> RowValues],
         results' = [results EXCEPT ![r] = row]
  PROVE  results' \in Seq([Cases -> RowValues]) /\ Existing' = Existing
<1> DEFINE Row == [Cases -> RowValues]
<1>1. results \in Seq(Row) /\ row \in Row /\ r \in 1..Len(results)
  BY BoardIs
<1> HIDE DEF Row
<1>2. results' \in Seq(Row) /\ Len(results') = Len(results)
  BY <1>1
<1>3. Existing' = 1..Len(results') /\ Existing = 1..Len(results)
  BY <1>1, <1>2 DEF Existing
<1> QED BY <1>2, <1>3 DEF Row

LEMMA PopulateRunGoes ==
  ASSUME BoardTypeOK, NEW r \in Existing, NEW e, PopulateRun(r, e)
  PROVE  TablesGo
<1>1. results' = [results EXCEPT ![r] = RowsToRun] /\ cases' = cases /\ completed' = completed
  BY DEF PopulateRun
<1>2. results' \in Seq([Cases -> RowValues]) /\ Existing' = Existing
  BY <1>1, RowWritten, RowsToRunTyped
<1> QED BY <1>1, <1>2, BoardIs DEF TablesGo

\* Writing one row of a run.
LEMMA CellWritten ==
  ASSUME BoardTypeOK, NEW r \in Existing, NEW c \in Cases, NEW v \in RowValues,
         results' = [results EXCEPT ![r][c] = v]
  PROVE  /\ results' \in Seq([Cases -> RowValues]) /\ Existing' = Existing
         /\ \A d \in Cases : results'[r][d] = IF d = c THEN v ELSE results[r][d]
<1> DEFINE row == [results[r] EXCEPT ![c] = v]
<1>1. results[r] \in [Cases -> RowValues]
  BY BoardIs
<1>2. row \in [Cases -> RowValues] /\ \A d \in Cases : row[d] = IF d = c THEN v ELSE results[r][d]
  BY <1>1
<1>3. results' = [results EXCEPT ![r] = row]
  OBVIOUS
<1> HIDE DEF row
<1>4. results' \in Seq([Cases -> RowValues]) /\ Existing' = Existing
  BY <1>2, <1>3, RowWritten
<1>5. results'[r] = row
  BY <1>3, BoardIs
<1> QED BY <1>2, <1>4, <1>5

LEMMA RecordGoes ==
  ASSUME BoardTypeOK, NEW r \in Existing, NEW c \in Cases, NEW s \in Statuses, Record(r, c, s)
  PROVE  TablesGo
<1>1. results' \in Seq([Cases -> RowValues]) /\ Existing' = Existing
  BY CellWritten DEF Record, RowValues
<1>2. cases' = cases /\ (completed' = completed \/ completed' = completed \cup {r})
  BY DEF Record
<1> QED BY <1>1, <1>2, BoardIs DEF TablesGo

LEMMA OthersGo ==
  ASSUME BoardTypeOK, NEW e, OtherRequest(e)
  PROVE  TablesGo /\ writes' \in 0..MaxWrites
<1>1. writes' \in 0..MaxWrites
  BY BoardAssumption DEF OtherRequest, BoardTypeOK
<1> QED BY <1>1, InsertCaseGoes, DeleteCaseGoes, InsertRunGoes, PopulateRunGoes, RecordGoes
        DEF OtherRequest

\* A step leaves the board alone or changes it as the handlers do.
BoardGoes == TablesGo /\ writes' \in 0..MaxWrites

LEMMA BoardKept ==
  ASSUME BoardTypeOK, UNCHANGED board
  PROVE  BoardGoes /\ Existing' = Existing
         /\ \A r \in Runs : \A c \in Cases : StatusNow(r, c)' = StatusNow(r, c)
<1>1. cases' = cases /\ results' = results /\ completed' = completed /\ writes' = writes
  BY DEF board, tables
<1> QED BY <1>1, BoardIs DEF BoardGoes, TablesGo, BoardTypeOK, Existing, StatusNow

LEMMA BoardTyped ==
  ASSUME BoardGoes
  PROVE  BoardTypeOK'
BY DEF BoardGoes, TablesGo, BoardTypeOK, RowValues

LEMMA FieldIs ==
  ASSUME GraphTypeOK, document # <<>>
  PROVE  /\ field \in Fields
         /\ field.op \in Ops /\ field.run \in Runs /\ field.case \in Cases
         /\ field.op = "updateResult" => field.status \in Statuses
         /\ field.op # "updateResult" => field.status \in {"draft", "active"}
<1>1. document \in Seq(Fields)
  BY DEF GraphTypeOK, RequestTyped
<1> HIDE DEF Fields
<1>2. field \in Fields
  BY <1>1 DEF field
<1>3. \A f \in Fields :
        /\ f.op \in Ops /\ f.run \in Runs /\ f.case \in Cases
        /\ f.op = "updateResult" => f.status \in Statuses
        /\ f.op # "updateResult" => f.status \in {"draft", "active"}
  BY DEF Fields, Ops
<1> QED BY <1>2, <1>3

\* The fields of the answer.
LEMMA AnswerIs ==
  ASSUME GraphTypeOK, NEW x
  PROVE  /\ [answer EXCEPT !.cases = x] =
              [k \in {"cases", "summary", "results", "error"} |->
                 [answer EXCEPT !.cases = x][k]]
         /\ [answer EXCEPT !.cases = x].cases = x
         /\ [answer EXCEPT !.cases = x].results = answer.results
         /\ [answer EXCEPT !.cases = x].summary = answer.summary
         /\ [answer EXCEPT !.summary = x] =
              [k \in {"cases", "summary", "results", "error"} |->
                 [answer EXCEPT !.summary = x][k]]
         /\ [answer EXCEPT !.summary = x].cases = answer.cases
         /\ [answer EXCEPT !.summary = x].results = answer.results
         /\ [answer EXCEPT !.summary = x].summary = x
         /\ [answer EXCEPT !.results = x] =
              [k \in {"cases", "summary", "results", "error"} |->
                 [answer EXCEPT !.results = x][k]]
         /\ [answer EXCEPT !.results = x].cases = answer.cases
         /\ [answer EXCEPT !.results = x].results = x
         /\ [answer EXCEPT !.results = x].summary = answer.summary
<1>1. answer = [k \in {"cases", "summary", "results", "error"} |-> answer[k]]
  BY DEF GraphTypeOK, AnswerTyped
<1> QED BY <1>1

LEMMA NoAnswerIs ==
  /\ NoAnswer = [k \in {"cases", "summary", "results", "error"} |-> NoAnswer[k]]
  /\ [NoAnswer EXCEPT !.error = TRUE] =
       [k \in {"cases", "summary", "results", "error"} |-> [NoAnswer EXCEPT !.error = TRUE][k]]
  /\ NoAnswer.results = <<>> /\ [NoAnswer EXCEPT !.error = TRUE].results = <<>>
  /\ NoAnswer.summary = <<>> /\ [NoAnswer EXCEPT !.error = TRUE].summary = <<>>
  /\ [NoAnswer EXCEPT !.error = TRUE].error
  /\ DOMAIN <<>> = {}
BY DEF NoAnswer

(* The session *)

LEMMA SessionIs ==
  ASSUME GraphTypeOK
  PROVE  /\ held \in [Runs -> [Cases -> HeldValues]]
         /\ detached \in [Runs -> [Cases -> HeldValues]]
         /\ seen \in [Runs -> [Cases -> SUBSET RowValues]]
         /\ \A r \in Runs : held[r] \in [Cases -> HeldValues]
         /\ \A r \in Runs : \A c \in Cases : held[r][c] \in HeldValues /\ seen[r][c] \subseteq RowValues
BY DEF GraphTypeOK, SessionTyped, HeldValues, RowValues

LEMMA AllExpiredIs ==
  /\ AllExpired \in [Runs -> [Cases -> HeldValues]]
  /\ \A r \in Runs : \A c \in Cases : AllExpired[r][c] = Expired
BY DEF AllExpired, Nothing, HeldValues

LEMMA StatusIs ==
  ASSUME BoardTypeOK, NEW r \in Runs, NEW c \in Cases
  PROVE  StatusNow(r, c) \in RowValues
<1>1. CASE r \in Existing
  BY <1>1, BoardIs DEF StatusNow
<1>2. CASE r \notin Existing
  BY <1>2 DEF StatusNow, RowValues
<1> QED BY <1>1, <1>2

\* A SELECT of rows of one run.
LEMMA FetchedIs ==
  ASSUME BoardTypeOK, GraphTypeOK, NEW r \in Existing, NEW C
  PROVE  /\ Fetched(held, r, C) \in [Runs -> [Cases -> HeldValues]]
         /\ \A q \in Runs : \A c \in Cases :
              Fetched(held, r, C)[q][c] =
                IF q = r /\ c \in C /\ held[q][c] = Expired THEN results[q][c] ELSE held[q][c]
<1> DEFINE row == [c \in Cases |-> IF c \in C /\ held[r][c] = Expired THEN results[r][c]
                                                                     ELSE held[r][c]]
<1>1. r \in Runs /\ results[r] \in [Cases -> RowValues]
  BY BoardIs
<1>2. row \in [Cases -> HeldValues]
  BY <1>1, SessionIs DEF HeldValues
<1>3. Fetched(held, r, C) = [held EXCEPT ![r] = row]
  BY DEF Fetched
<1>4. \A c \in Cases : row[c] = IF c \in C /\ held[r][c] = Expired THEN results[r][c] ELSE held[r][c]
  OBVIOUS
<1> HIDE DEF row
<1>5. \A q \in Runs : Fetched(held, r, C)[q] = IF q = r THEN row ELSE held[q]
  BY <1>3, SessionIs
<1>6. Fetched(held, r, C) \in [Runs -> [Cases -> HeldValues]]
  BY <1>2, <1>3, SessionIs
<1> QED BY <1>4, <1>5, <1>6

\* Reading rows that were expired keeps the session sound.
LEMMA SoundAfterReads ==
  ASSUME BoardTypeOK, SessionSound, UNCHANGED <<board, seen, raced, detached>>,
         \A r \in Runs : \A c \in Cases :
           \/ held'[r][c] = held[r][c] \/ held'[r][c] = Expired
           \/ r \in Existing /\ held'[r][c] = results[r][c]
  PROVE  SessionSound'
<1> SUFFICES ASSUME NEW r \in Runs, NEW c \in Cases
             PROVE  /\ detached'[r][c] = Expired =>
                         /\ StatusNow(r, c)' \in seen'[r][c]
                         /\ held'[r][c] # Expired => held'[r][c] \in seen'[r][c]
                    /\ detached'[r][c] # Expired =>
                         detached'[r][c] \in seen'[r][c] /\ cases'[c] = "deleted"
                    /\ held'[r][c] # Expired /\ <<r, c>> \notin raced' =>
                         r \in Existing' /\ held'[r][c] = results'[r][c]
  BY DEF SessionSound
<1>1. /\ StatusNow(r, c)' = StatusNow(r, c) /\ Existing' = Existing /\ cases' = cases
      /\ seen' = seen /\ raced' = raced /\ results' = results /\ detached' = detached
  BY BoardKept DEF board, tables
<1>2. /\ detached[r][c] = Expired =>
           /\ StatusNow(r, c) \in seen[r][c]
           /\ held[r][c] # Expired => held[r][c] \in seen[r][c]
      /\ detached[r][c] # Expired => detached[r][c] \in seen[r][c] /\ cases[c] = "deleted"
      /\ held[r][c] # Expired /\ <<r, c>> \notin raced =>
           r \in Existing /\ held[r][c] = results[r][c]
  BY DEF SessionSound
<1>3. CASE held'[r][c] = held[r][c] \/ held'[r][c] = Expired
  BY <1>1, <1>2, <1>3
<1>4. CASE r \in Existing /\ held'[r][c] = results[r][c]
  BY <1>1, <1>2, <1>4 DEF StatusNow
<1> QED BY <1>3, <1>4

\* A commit of the session, with the rows it deleted before and now.
LEMMA SoundAfterCommit ==
  ASSUME NEW gone, Committed(gone),
         \A r \in Runs : \A c \in Cases : gone[r][c] # Expired =>
           gone[r][c] \in seen[r][c] /\ cases'[c] = "deleted"
  PROVE  SessionSound'
<1>1. /\ held' = AllExpired /\ raced' = {} /\ detached' = gone
      /\ seen' = [r \in Runs |-> [c \in Cases |->
                    IF gone[r][c] = Expired THEN {StatusNow(r, c)'} ELSE seen[r][c]]]
  BY DEF Committed, ExpireOnCommit
<1>2. \A r \in Runs : \A c \in Cases :
        seen'[r][c] = IF gone[r][c] = Expired THEN {StatusNow(r, c)'} ELSE seen[r][c]
  BY <1>1
<1> QED BY <1>1, <1>2, AllExpiredIs DEF SessionSound

LEMMA SoundAfterOthers ==
  ASSUME BoardTypeOK, GraphTypeOK, SessionSound, TablesGo, GraphWitness
  PROVE  SessionSound'
<1> SUFFICES ASSUME NEW r \in Runs, NEW c \in Cases
             PROVE  /\ detached'[r][c] = Expired =>
                         /\ StatusNow(r, c)' \in seen'[r][c]
                         /\ held'[r][c] # Expired => held'[r][c] \in seen'[r][c]
                    /\ detached'[r][c] # Expired =>
                         detached'[r][c] \in seen'[r][c] /\ cases'[c] = "deleted"
                    /\ held'[r][c] # Expired /\ <<r, c>> \notin raced' =>
                         r \in Existing' /\ held'[r][c] = results'[r][c]
  BY DEF SessionSound
<1>1. /\ held' = held /\ detached' = detached
      /\ seen'[r][c] = seen[r][c] \cup {StatusNow(r, c)'}
  BY DEF GraphWitness, session
<1>2. /\ detached[r][c] = Expired /\ held[r][c] # Expired => held[r][c] \in seen[r][c]
      /\ detached[r][c] # Expired => detached[r][c] \in seen[r][c] /\ cases'[c] = "deleted"
      /\ held[r][c] # Expired /\ <<r, c>> \notin raced =>
           r \in Existing /\ held[r][c] = results[r][c]
  BY DEF SessionSound, TablesGo
<1>3. ASSUME held[r][c] # Expired, <<r, c>> \notin raced'
      PROVE  r \in Existing' /\ held[r][c] = results'[r][c]
  <2>1. raced \subseteq raced' /\ (StatusNow(r, c)' = StatusNow(r, c) \/ held[r] = Nothing)
    <3> DEFINE p == <<r, c>>
    <3>1. p \in Runs \X Cases /\ p[1] = r /\ p[2] = c
      OBVIOUS
    <3>2. p \notin raced'
      BY <1>3
    <3> HIDE DEF p
    <3> QED BY <3>1, <3>2 DEF GraphWitness
  <2>2. held[r] # Nothing
    BY <1>3 DEF Nothing
  <2>3. r \in Existing /\ held[r][c] = results[r][c] /\ r \in Existing'
    BY <1>2, <1>3, <2>1 DEF TablesGo
  <2> QED BY <2>1, <2>2, <2>3 DEF StatusNow
<1> QED BY <1>1, <1>2, <1>3

LEMMA CommitTyped ==
  ASSUME GraphTypeOK, TablesGo, NEW gone \in [Runs -> [Cases -> HeldValues]], Committed(gone)
  PROVE  /\ held' \in [Runs -> [Cases -> HeldValues]]
         /\ detached' \in [Runs -> [Cases -> HeldValues]]
         /\ seen' \in [Runs -> [Cases -> SUBSET RowValues]]
         /\ raced' \subseteq Runs \X Cases /\ listed' \subseteq {"cases", "runs"}
<1> DEFINE anew(r, c) == IF gone[r][c] = Expired THEN {StatusNow(r, c)'} ELSE seen[r][c]
<1>1. /\ held' = AllExpired /\ raced' = {} /\ detached' = gone
      /\ seen' = [r \in Runs |-> [c \in Cases |-> anew(r, c)]]
      /\ listed' \subseteq {"cases", "runs"}
  BY DEF Committed, ExpireOnCommit
<1>2. ASSUME NEW r \in Runs, NEW c \in Cases PROVE StatusNow(r, c)' \in RowValues
  <2>1. results' \in Seq([Cases -> RowValues])
    BY DEF TablesGo
  <2>2. Existing' = 1..Len(results') /\ \A q \in 1..Len(results') : results'[q] \in [Cases -> RowValues]
    BY <2>1 DEF Existing
  <2>3. CASE r \in Existing'
    BY <2>2, <2>3 DEF StatusNow
  <2>4. CASE r \notin Existing'
    BY <2>4 DEF StatusNow, RowValues
  <2> QED BY <2>3, <2>4
<1>3. \A r \in Runs : \A c \in Cases : anew(r, c) \subseteq RowValues
  BY <1>2, SessionIs
<1> HIDE DEF anew
<1>4. seen' \in [Runs -> [Cases -> SUBSET RowValues]]
  BY <1>1, <1>3
<1> QED BY <1>1, <1>4, AllExpiredIs

\* The rows a deletion lets go, as they were loaded.
LEMMA LetGoIs ==
  ASSUME BoardTypeOK, GraphTypeOK, SessionSound, NEW d \in LiveCases
  PROVE  /\ LetGo(d) \in [Runs -> [Cases -> HeldValues]]
         /\ \A r \in Runs : \A c \in Cases : LetGo(d)[r][c] # Expired =>
              /\ LetGo(d)[r][c] \in seen[r][c]
              /\ c = d \/ cases[c] = "deleted"
<1> DEFINE gone(r) == IF r \in Existing /\ d \in Rows(r)
                      THEN [detached[r] EXCEPT ![d] = Fetched(held, r, {d})[r][d]]
                      ELSE detached[r]
<1>1. d \in Cases /\ cases[d] # "deleted"
  BY DEF LiveCases
<1>2. ASSUME NEW r \in Runs
      PROVE  /\ gone(r) \in [Cases -> HeldValues]
             /\ \A c \in Cases : gone(r)[c] # Expired =>
                  gone(r)[c] \in seen[r][c] /\ (c = d \/ cases[c] = "deleted")
  <2>1. /\ detached[r] \in [Cases -> HeldValues]
        /\ \A c \in Cases : /\ detached[r][c] # Expired =>
                                 detached[r][c] \in seen[r][c] /\ cases[c] = "deleted"
                            /\ detached[r][c] = Expired =>
                                 /\ StatusNow(r, c) \in seen[r][c]
                                 /\ held[r][c] # Expired => held[r][c] \in seen[r][c]
    BY SessionIs DEF SessionSound
  <2>2. CASE r \in Existing /\ d \in Rows(r)
    <3> DEFINE x == Fetched(held, r, {d})[r][d]
    <3>1. x = IF held[r][d] = Expired THEN results[r][d] ELSE held[r][d]
      BY <1>1, <2>2, FetchedIs
    <3>2. results[r][d] = StatusNow(r, d) /\ detached[r][d] = Expired
      BY <1>1, <2>1, <2>2 DEF StatusNow
    <3>3. x \in seen[r][d] /\ x \in HeldValues
      BY <1>1, <2>1, <3>1, <3>2, SessionIs DEF HeldValues
    <3> HIDE DEF x
    <3>4. gone(r) = [detached[r] EXCEPT ![d] = x]
      BY <2>2 DEF x
    <3>5. gone(r) \in [Cases -> HeldValues]
          /\ \A c \in Cases : gone(r)[c] = IF c = d THEN x ELSE detached[r][c]
      BY <1>1, <2>1, <3>3, <3>4
    <3> QED BY <2>1, <3>3, <3>5
  <2>3. CASE ~(r \in Existing /\ d \in Rows(r))
    BY <2>1, <2>3
  <2> QED BY <2>2, <2>3
<1>3. LetGo(d) = [r \in Runs |-> gone(r)]
  BY DEF LetGo
<1> HIDE DEF gone
<1> QED BY <1>2, <1>3

\* A SELECT of the rows of several runs, as for a selection.
LEMMA SelectRowsReads ==
  ASSUME BoardTypeOK, GraphTypeOK, InItsPlace, SelectRows
  PROVE  /\ held' \in [Runs -> [Cases -> HeldValues]]
         /\ \A r \in Runs : \A c \in Cases :
              held'[r][c] = held[r][c] \/ (r \in Existing /\ held'[r][c] = results[r][c])
<1> DEFINE new == {r \in runList : rowList[r] = Unread}
<1>1. held' = [r \in Runs |-> IF r \in new THEN Fetched(held, r, Rows(r))[r] ELSE held[r]]
  BY DEF SelectRows
<1>2. runList \subseteq Existing
  BY DEF InItsPlace, GraphTypeOK, SessionTyped, SelectRows
<1>3. \A r \in new : r \in Existing
  BY <1>2
<1> HIDE DEF new
<1>4. ASSUME NEW r \in Runs
      PROVE  /\ held'[r] \in [Cases -> HeldValues]
             /\ \A c \in Cases :
                  held'[r][c] = held[r][c] \/ (r \in Existing /\ held'[r][c] = results[r][c])
  <2>1. CASE r \in new
    <3>1. r \in Existing /\ held'[r] = Fetched(held, r, Rows(r))[r]
      BY <1>1, <1>3, <2>1
    <3>2. /\ Fetched(held, r, Rows(r)) \in [Runs -> [Cases -> HeldValues]]
          /\ \A c \in Cases : Fetched(held, r, Rows(r))[r][c] =
               IF c \in Rows(r) /\ held[r][c] = Expired THEN results[r][c] ELSE held[r][c]
      BY <3>1, FetchedIs
    <3> QED BY <3>1, <3>2
  <2>2. CASE r \notin new
    BY <1>1, <2>2, SessionIs
  <2> QED BY <2>1, <2>2
<1> QED BY <1>1, <1>4

\* The rows of a run as _apply_result_update has them.
LEMMA ReadForUpdateReads ==
  ASSUME BoardTypeOK, GraphTypeOK, ReadForUpdate
  PROVE  /\ held' \in [Runs -> [Cases -> HeldValues]]
         /\ field.run \in Existing /\ field.run \in Runs
         /\ \A r \in Runs : \A c \in Cases :
              held'[r][c] = IF r # field.run THEN held[r][c]
                            ELSE IF c \notin Rows(r) THEN Expired
                            ELSE IF held[r][c] = Expired THEN results[r][c]
                            ELSE held[r][c]
<1> DEFINE all == Rows(field.run)
           loaded == Fetched(held, field.run, all)[field.run]
           row == [c \in Cases |-> IF c \in all THEN loaded[c] ELSE Expired]
<1>1. field.run \in Existing /\ field.run \in Runs
  BY BoardIs DEF ReadForUpdate, Start, Found
<1>2. \A c \in Cases : /\ loaded[c] \in HeldValues
                        /\ loaded[c] = IF c \in all /\ held[field.run][c] = Expired
                                       THEN results[field.run][c] ELSE held[field.run][c]
  BY <1>1, FetchedIs
<1>3. held' = [held EXCEPT ![field.run] = row]
  BY DEF ReadForUpdate
<1> HIDE DEF all, loaded
<1>4. row \in [Cases -> HeldValues]
  BY <1>2 DEF HeldValues
<1>5. \A c \in Cases : row[c] = IF c \notin all THEN Expired
                                 ELSE IF held[field.run][c] = Expired THEN results[field.run][c]
                                 ELSE held[field.run][c]
  BY <1>2
<1> HIDE DEF row
<1>6. /\ held' \in [Runs -> [Cases -> HeldValues]]
      /\ \A r \in Runs : held'[r] = IF r = field.run THEN row ELSE held[r]
  BY <1>1, <1>3, <1>4, SessionIs
<1> QED BY <1>1, <1>5, <1>6 DEF all

LEMMA HeldReads ==
  ASSUME BoardTypeOK, GraphTypeOK, InItsPlace,
         ReadForUpdate \/ RefreshUpdated \/ SelectRows \/ RefreshRow
  PROVE  /\ held' \in [Runs -> [Cases -> HeldValues]]
         /\ \A r \in Runs : \A c \in Cases :
              \/ held'[r][c] = held[r][c] \/ held'[r][c] = Expired
              \/ r \in Existing /\ held'[r][c] = results[r][c]
<1>1. CASE ReadForUpdate
  BY <1>1, ReadForUpdateReads
<1>2. CASE RefreshUpdated
  <2>1. step = "refresh" /\ document # <<>>
    BY <1>2 DEF RefreshUpdated, GraphTypeOK, RequestTyped
  <2>2. field.run \in Existing /\ field.case \in Cases /\ field.run \in Runs
    BY <2>1, FieldIs DEF InItsPlace
  <2>3. CASE field.case \in Rows(field.run)
    <3>1. held' = [held EXCEPT ![field.run][field.case] = results[field.run][field.case]]
      BY <1>2, <2>3 DEF RefreshUpdated
    <3>2. results[field.run][field.case] \in HeldValues
      BY <2>2, BoardIs DEF HeldValues
    <3>3. \A r \in Runs : \A c \in Cases :
            held'[r][c] = IF r = field.run /\ c = field.case THEN results[r][c] ELSE held[r][c]
      BY <2>2, <3>1, SessionIs
    <3>4. held' \in [Runs -> [Cases -> HeldValues]]
      BY <2>2, <3>1, <3>2, SessionIs
    <3> QED BY <2>2, <3>3, <3>4
  <2>4. CASE field.case \notin Rows(field.run)
    BY <1>2, <2>4, SessionIs DEF RefreshUpdated, FieldFails, session
  <2> QED BY <2>3, <2>4
<1>3. CASE SelectRows
  BY <1>3, SelectRowsReads
<1>4. CASE RefreshRow
  <2>1. PICK r \in runList : \E c \in Stale(r) :
          IF c \in Rows(r) THEN held' = Fetched(held, r, {c}) ELSE held' = held
    BY <1>4 DEF RefreshRow, FieldFails, session
  <2>2. PICK c \in Stale(r) :
          IF c \in Rows(r) THEN held' = Fetched(held, r, {c}) ELSE held' = held
    BY <2>1
  <2>3. r \in Existing
    BY <1>4 DEF RefreshRow, InItsPlace, GraphTypeOK, SessionTyped
  <2>4. CASE c \in Rows(r)
    BY <2>2, <2>3, <2>4, FetchedIs
  <2>5. CASE c \notin Rows(r)
    BY <2>2, <2>5, SessionIs
  <2> QED BY <2>4, <2>5
<1> QED BY <1>1, <1>2, <1>3, <1>4

\* The steps of a field, by what they do to the session.
Commits == ResolveCreateCase \/ ResolveCreateRun \/ ResolveDeleteCase \/ CommitUpdate
Selects == ReadForUpdate \/ RefreshUpdated \/ SelectRows \/ RefreshRow
GoesOn ==
  \/ ResolveQuery \/ UpdateFails \/ FieldNotFound \/ SelectCases \/ CaseIsGone \/ SelectRuns
  \/ ReadSummary \/ ReadResults \/ SelectTitles \/ NextField

LEMMA StepsOfField == GraphNext => Commits \/ Selects \/ GoesOn
BY DEF GraphNext, Commits, Selects, GoesOn

LEMMA WrittenTyped ==
  ASSUME BoardTypeOK, GraphTypeOK, InItsPlace, CommitUpdate
  PROVE  /\ field.run \in Existing /\ field.case \in Cases /\ field.status \in Statuses
         /\ Written \in RowValues
<1>1. step = "update" /\ document # <<>>
  BY DEF CommitUpdate, GraphTypeOK, RequestTyped
<1>2. field.run \in Existing /\ field.case \in Cases /\ field.op = "updateResult"
  BY <1>1, FieldIs DEF InItsPlace
<1>3. field.status \in Statuses
  BY <1>1, <1>2, FieldIs
<1>4. results[field.run][field.case] \in RowValues
  BY <1>2, BoardIs
<1> QED BY <1>2, <1>3, <1>4 DEF Written, RowValues

LEMMA CommitsGo ==
  ASSUME BoardTypeOK, GraphTypeOK, InItsPlace, Commits
  PROVE  BoardGoes
<1>1. CASE ResolveCreateCase
  <2>1. document # <<>> /\ field.op = "createCase"
    BY <1>1 DEF ResolveCreateCase, Start
  <2>2. field.status \in {"draft", "active"}
    BY <2>1, FieldIs
  <2> QED BY <1>1, <2>2, InsertCaseGoes DEF ResolveCreateCase, BoardGoes, BoardTypeOK
<1>2. CASE ResolveCreateRun
  BY <1>2, InsertRunGoes DEF ResolveCreateRun, BoardGoes, BoardTypeOK
<1>3. CASE ResolveDeleteCase
  <2>1. field.case \in Cases
    BY <1>3, FieldIs DEF ResolveDeleteCase, Start
  <2> QED BY <1>3, <2>1, DeleteCaseGoes DEF ResolveDeleteCase, BoardGoes, BoardTypeOK
<1>4. CASE CommitUpdate
  <2>1. /\ cases' = cases /\ writes' = writes
        /\ results' = [results EXCEPT ![field.run][field.case] = Written]
        /\ completed' = completed \/ completed' = completed \cup {field.run}
    BY <1>4 DEF CommitUpdate
  <2>2. results' \in Seq([Cases -> RowValues]) /\ Existing' = Existing
    BY <1>4, <2>1, WrittenTyped, CellWritten
  <2>3. completed' \subseteq Runs
    BY <1>4, <2>1, WrittenTyped, BoardIs
  <2> QED BY <2>1, <2>2, <2>3, BoardIs DEF BoardGoes, TablesGo, BoardTypeOK
<1> QED BY <1>1, <1>2, <1>3, <1>4 DEF Commits

\* What a commit of the document leaves of its session.
LEMMA CommitsLetGo ==
  ASSUME BoardTypeOK, GraphTypeOK, SessionSound, InItsPlace, Commits
  PROVE  \E gone \in [Runs -> [Cases -> HeldValues]] :
           /\ Committed(gone)
           /\ \A r \in Runs : \A c \in Cases : gone[r][c] # Expired =>
                gone[r][c] \in seen[r][c] /\ cases'[c] = "deleted"
<1>1. \A c \in Cases : cases[c] = "deleted" => cases'[c] = "deleted"
  BY CommitsGo DEF BoardGoes, TablesGo
<1>2. CASE Committed(detached)
  <2>1. \A r \in Runs : \A c \in Cases : detached[r][c] # Expired =>
          detached[r][c] \in seen[r][c] /\ cases[c] = "deleted"
    BY DEF SessionSound
  <2> QED BY <1>1, <1>2, <2>1, SessionIs
<1>3. CASE ResolveDeleteCase
  <2>1. /\ field.case \in LiveCases /\ Committed(LetGo(field.case))
        /\ cases' = [cases EXCEPT ![field.case] = "deleted"]
    BY <1>3 DEF ResolveDeleteCase, DeleteCase
  <2>2. cases'[field.case] = "deleted"
    BY <2>1, BoardIs DEF LiveCases
  <2> QED BY <1>1, <2>1, <2>2, LetGoIs
<1>4. Committed(detached) \/ ResolveDeleteCase
  BY DEF Commits, ResolveCreateCase, ResolveCreateRun, CommitUpdate
<1> QED BY <1>2, <1>3, <1>4

LEMMA SelectsKeep ==
  ASSUME Selects \/ GoesOn
  PROVE  /\ UNCHANGED <<board, seen, raced, listed, detached>>
         /\ GoesOn => held' = held /\ rowList' = rowList
BY DEF Selects, GoesOn, ReadForUpdate, RefreshUpdated, SelectRows, RefreshRow, ResolveQuery,
  UpdateFails, FieldNotFound, SelectCases, CaseIsGone, SelectRuns, ReadSummary, ReadResults,
  SelectTitles, NextField, FieldFails, session, lists, graphHistory

LEMMA BoardStep ==
  ASSUME GraphInv, [ReadersNext]_readersVars
  PROVE  BoardGoes
<1>1. BoardTypeOK /\ GraphTypeOK /\ InItsPlace
  BY DEF GraphInv
<1>2. CASE StatisticsNext
  <2>1. UNCHANGED board
    BY <1>2 DEF StatisticsNext, CountCases, CountRuns, FindLastRun, CountRows, ListHistory,
      ReadPoint, CountCoverage, CountActive, RetryCall, Degrade, ListCases, ReadCase, Reads
  <2> QED BY <1>1, <2>1, BoardKept
<1>3. CASE GraphNext
  <2>1. CASE Commits
    BY <1>1, <2>1, CommitsGo
  <2>2. CASE Selects \/ GoesOn
    BY <1>1, <2>2, SelectsKeep, BoardKept
  <2> QED BY <1>3, <2>1, <2>2, StepsOfField
<1>4. CASE Others
  BY <1>1, <1>4, OthersGo DEF Others, BoardGoes
<1>5. CASE UNCHANGED readersVars
  BY <1>1, <1>5, BoardKept DEF readersVars
<1> QED BY <1>2, <1>3, <1>4, <1>5 DEF ReadersNext

\* A request that counts, or a step that leaves the GraphQL request alone.
LEMMA GraphKept ==
  ASSUME BoardTypeOK, GraphTypeOK, SessionSound, InItsPlace, AnswerAsKept, CaseInLists,
         RunInLists, UNCHANGED <<board, graph>>
  PROVE  /\ GraphTypeOK' /\ SessionSound' /\ InItsPlace' /\ AnswerAsKept'
         /\ CaseInLists' /\ RunInLists'
<1>1. /\ document' = document /\ step' = step /\ held' = held /\ caseList' = caseList
      /\ runList' = runList /\ rowList' = rowList /\ answer' = answer /\ seen' = seen
      /\ raced' = raced /\ listed' = listed /\ made' = made /\ detached' = detached
      /\ cases' = cases /\ results' = results
  BY DEF graph, session, lists, graphHistory, board, tables
<1>2. Existing' = Existing /\ field' = field
  BY <1>1 DEF Existing, field
<1>3. GraphTypeOK'
  BY <1>1, <1>2 DEF GraphTypeOK, RequestTyped, SessionTyped, AnswerTyped
<1>4. SessionSound'
  BY <1>1, SoundAfterReads
<1>5. InItsPlace'
  BY <1>1, <1>2 DEF InItsPlace
<1>6. CaseInLists' /\ RunInLists'
  BY <1>1, <1>2 DEF CaseInLists, RunInLists, Selected
<1>7. AnswerAsKept'
  BY <1>1 DEF AnswerAsKept, Stale, Column
<1> QED BY <1>3, <1>4, <1>5, <1>6, <1>7

LEMMA SoundStep ==
  ASSUME BoardTypeOK, GraphTypeOK, SessionSound, InItsPlace, GraphNext
  PROVE  SessionSound'
<1>1. CASE Commits
  BY <1>1, CommitsLetGo, SoundAfterCommit
<1>2. CASE Selects
  BY <1>2, HeldReads, SelectsKeep, SoundAfterReads DEF Selects
<1>3. CASE GoesOn
  BY <1>3, SelectsKeep, SoundAfterReads
<1> QED BY <1>1, <1>2, <1>3, StepsOfField

(* Types *)

\* How a field moves on: the document changes only where a field is over.
LEMMA DocumentMoves ==
  ASSUME GraphNext
  PROVE  /\ step' \in GraphSteps
         /\ \/ document' = document /\ (step \notin {"idle", "field"} \/ document # <<>>)
            \/ UpdateFails \/ NextField
<1>1. CASE Commits
  BY <1>1 DEF Commits, ResolveCreateCase, ResolveCreateRun, ResolveDeleteCase, CommitUpdate,
    Start, GraphSteps
<1>2. CASE Selects
  BY <1>2 DEF Selects, ReadForUpdate, RefreshUpdated, SelectRows, RefreshRow, FieldFails,
    Start, GraphSteps, GraphNext, UpdateFails
<1>3. CASE GoesOn
  BY <1>3 DEF GoesOn, ResolveQuery, UpdateFails, FieldNotFound, SelectCases, CaseIsGone,
    SelectRuns, ReadSummary, ReadResults, SelectTitles, NextField, FieldFails, Start, GraphSteps
<1> QED BY <1>1, <1>2, <1>3, StepsOfField

LEMMA RequestStep ==
  ASSUME GraphTypeOK, GraphNext
  PROVE  RequestTyped'
<1>1. document \in Seq(Fields) /\ (step \notin {"idle", "field"} => document # <<>>)
  BY DEF GraphTypeOK, RequestTyped
<1>2. step' \in GraphSteps
  BY DocumentMoves
<1>3. CASE document' = document /\ (step \notin {"idle", "field"} \/ document # <<>>)
  BY <1>1, <1>2, <1>3 DEF RequestTyped
<1> HIDE DEF Fields
<1>4. CASE UpdateFails
  <2>1. document # <<>> /\ document' = <<field>>
    BY <1>1, <1>4 DEF UpdateFails
  <2>2. field \in Fields
    BY <2>1, FieldIs
  <2> QED BY <1>2, <2>1, <2>2 DEF RequestTyped
<1>5. CASE NextField
  <2>1. document # <<>> /\ document' = Tail(document)
        /\ step' = IF document' = <<>> THEN "idle" ELSE "field"
    BY <1>1, <1>5 DEF NextField
  <2>2. document' \in Seq(Fields)
    BY <1>1, <2>1
  <2> QED BY <1>2, <2>1, <2>2 DEF RequestTyped
<1> QED BY <1>3, <1>4, <1>5, DocumentMoves

\* The lists the loaders keep.
LEMMA ListsStep ==
  ASSUME BoardTypeOK, GraphTypeOK, TablesGo, GraphNext
  PROVE  /\ caseList' = Unread \/ caseList' \subseteq Cases
         /\ runList' = Unread \/ runList' \subseteq Existing'
         /\ rowList' \in [Runs -> {Unread} \cup SUBSET Cases]
<1>1. /\ caseList = Unread \/ caseList \subseteq Cases
      /\ runList = Unread \/ runList \subseteq Existing
      /\ rowList \in [Runs -> {Unread} \cup SUBSET Cases]
      /\ Existing \subseteq Existing'
  BY DEF GraphTypeOK, SessionTyped, TablesGo
<1>2. CASE SelectCases
  BY <1>1, <1>2 DEF SelectCases, LiveCases
<1>3. CASE SelectRuns
  BY <1>1, <1>3 DEF SelectRuns
<1>4. CASE SelectRows
  <2>1. \A r \in Runs : rowList'[r] = Rows(r) \/ rowList'[r] = rowList[r]
    BY <1>4 DEF SelectRows
  <2>2. \A r \in Runs : rowList'[r] \in {Unread} \cup SUBSET Cases
    BY <1>1, <2>1 DEF Rows
  <2>3. rowList' \in [Runs -> {Unread} \cup SUBSET Cases]
    BY <1>4, <2>2 DEF SelectRows
  <2> QED BY <1>1, <1>4, <2>3 DEF SelectRows
<1>5. CASE caseList' = caseList /\ runList' = runList /\ rowList' = rowList
  BY <1>1, <1>5
<1>6. \/ SelectCases \/ SelectRuns \/ SelectRows
      \/ caseList' = caseList /\ runList' = runList /\ rowList' = rowList
  BY DEF GraphNext, ResolveCreateCase, ResolveCreateRun, ResolveDeleteCase, CommitUpdate,
    ReadForUpdate, RefreshUpdated, RefreshRow, ResolveQuery, UpdateFails, FieldNotFound,
    CaseIsGone, ReadSummary, ReadResults, SelectTitles, NextField, FieldFails, session, lists
<1> QED BY <1>2, <1>3, <1>4, <1>5, <1>6

LEMMA SessionStep ==
  ASSUME BoardTypeOK, GraphTypeOK, SessionSound, InItsPlace, TablesGo, GraphNext
  PROVE  SessionTyped'
<1>1. /\ seen \in [Runs -> [Cases -> SUBSET RowValues]]
      /\ raced \subseteq Runs \X Cases /\ listed \subseteq {"cases", "runs"}
  BY SessionIs DEF GraphTypeOK, SessionTyped
<1>2. /\ held' \in [Runs -> [Cases -> HeldValues]]
      /\ detached' \in [Runs -> [Cases -> HeldValues]]
      /\ seen' \in [Runs -> [Cases -> SUBSET RowValues]]
      /\ raced' \subseteq Runs \X Cases /\ listed' \subseteq {"cases", "runs"}
  <2>1. CASE Commits
    BY <2>1, CommitsLetGo, CommitTyped
  <2>2. CASE Selects
    BY <1>1, <2>2, HeldReads, SelectsKeep, SessionIs DEF Selects
  <2>3. CASE GoesOn
    BY <1>1, <2>3, SelectsKeep, SessionIs
  <2> QED BY <2>1, <2>2, <2>3, StepsOfField
<1> QED BY <1>2, ListsStep DEF SessionTyped, HeldValues, RowValues

\* An answer that lists no result.
LEMMA AnswersTyped ==
  /\ answer' = NoAnswer \/ answer' = [NoAnswer EXCEPT !.error = TRUE] => AnswerTyped'
  /\ AnswerTyped /\ answer' = answer /\ Existing \subseteq Existing' => AnswerTyped'
BY NoAnswerIs DEF AnswerTyped

\* One half of a run, read of rows none of which is stale.
LEMMA SummaryRead ==
  ASSUME BoardTypeOK, GraphTypeOK, InItsPlace, ReadSummary
  PROVE  \E r \in runList :
           /\ r \in Existing /\ Stale(r) = {}
           /\ answer' = [k \in {"cases", "summary", "results", "error"} |-> answer'[k]]
           /\ answer'.cases = answer.cases /\ answer'.results = answer.results
           /\ DOMAIN answer'.summary = DOMAIN answer.summary \cup {r}
           /\ \A q \in DOMAIN answer.summary \ {r} : answer'.summary[q] = answer.summary[q]
           /\ \A v \in Statuses :
                answer'.summary[r][v] = Cardinality({c \in rowList[r] : Column(r, c) = v})
<1>1. PICK r \in runList \ DOMAIN answer.summary :
        /\ Stale(r) = {}
        /\ answer' = [answer EXCEPT !.summary =
             [q \in DOMAIN answer.summary \cup {r} |->
                IF q = r THEN Summary(r) ELSE answer.summary[q]]]
  BY DEF ReadSummary
<1> DEFINE x == [q \in DOMAIN answer.summary \cup {r} |->
                   IF q = r THEN Summary(r) ELSE answer.summary[q]]
<1>2. /\ answer' = [k \in {"cases", "summary", "results", "error"} |-> answer'[k]]
      /\ answer'.cases = answer.cases /\ answer'.results = answer.results
      /\ answer'.summary = x
  <2> HIDE DEF x
  <2>1. answer' = [answer EXCEPT !.summary = x]
    BY <1>1 DEF x
  <2> QED BY <2>1, AnswerIs
<1>3. r \in Existing /\ rowList[r] \subseteq Cases
  BY <1>1 DEF ReadSummary, InItsPlace, GraphTypeOK, SessionTyped
<1>4. ASSUME NEW v \in Statuses
      PROVE  Summary(r)[v] = Cardinality({c \in rowList[r] : Column(r, c) = v})
  <2> DEFINE columns == [c \in Cases |-> Column(r, c)]
  <2>1. \A c \in rowList[r] : columns[c] = Column(r, c)
    BY <1>3
  <2> HIDE DEF columns
  <2>2. {c \in rowList[r] : columns[c] = v} = {c \in rowList[r] : Column(r, c) = v}
    BY <2>1
  <2>3. Summary(r)[v] = Cardinality({c \in rowList[r] : columns[c] = v})
    BY DEF Summary, Tally, columns
  <2> QED BY <2>2, <2>3
<1>5. /\ DOMAIN x = DOMAIN answer.summary \cup {r} /\ x[r] = Summary(r)
      /\ \A q \in DOMAIN answer.summary \ {r} : x[q] = answer.summary[q]
  OBVIOUS
<1> HIDE DEF x
<1>6. \A v \in Statuses :
        answer'.summary[r][v] = Cardinality({c \in rowList[r] : Column(r, c) = v})
  BY <1>2, <1>4, <1>5
<1> QED BY <1>1, <1>2, <1>3, <1>5, <1>6

LEMMA ResultsRead ==
  ASSUME BoardTypeOK, GraphTypeOK, InItsPlace, ReadResults
  PROVE  \E r \in runList :
           /\ r \in Existing /\ Stale(r) = {} /\ rowList[r] \subseteq Cases
           /\ answer' = [k \in {"cases", "summary", "results", "error"} |-> answer'[k]]
           /\ answer'.cases = answer.cases /\ answer'.summary = answer.summary
           /\ DOMAIN answer'.results = DOMAIN answer.results \cup {r}
           /\ \A q \in DOMAIN answer.results \ {r} : answer'.results[q] = answer.results[q]
           /\ DOMAIN answer'.results[r] = rowList[r]
           /\ \A c \in rowList[r] : answer'.results[r][c] = Column(r, c)
<1>1. PICK r \in runList \ DOMAIN answer.results :
        /\ Stale(r) = {}
        /\ answer' = [answer EXCEPT !.results =
             [q \in DOMAIN answer.results \cup {r} |->
                IF q = r THEN [c \in rowList[r] |-> Column(r, c)] ELSE answer.results[q]]]
  BY DEF ReadResults
<1> DEFINE columns == [c \in rowList[r] |-> Column(r, c)]
           x == [q \in DOMAIN answer.results \cup {r} |->
                   IF q = r THEN columns ELSE answer.results[q]]
<1>2. /\ answer' = [k \in {"cases", "summary", "results", "error"} |-> answer'[k]]
      /\ answer'.cases = answer.cases /\ answer'.summary = answer.summary
      /\ answer'.results = x
  <2> HIDE DEF x
  <2>1. answer' = [answer EXCEPT !.results = x]
    BY <1>1 DEF x
  <2> QED BY <2>1, AnswerIs
<1>3. r \in Existing /\ rowList[r] \subseteq Cases
  BY <1>1 DEF ReadResults, InItsPlace, GraphTypeOK, SessionTyped
<1>4. DOMAIN columns = rowList[r] /\ \A c \in rowList[r] : columns[c] = Column(r, c)
  OBVIOUS
<1> HIDE DEF columns
<1>5. /\ DOMAIN x = DOMAIN answer.results \cup {r} /\ x[r] = columns
      /\ \A q \in DOMAIN answer.results \ {r} : x[q] = answer.results[q]
  OBVIOUS
<1> HIDE DEF x
<1> QED BY <1>1, <1>2, <1>3, <1>4, <1>5

LEMMA AnswerStep ==
  ASSUME BoardTypeOK, GraphTypeOK, InItsPlace, TablesGo, GraphNext
  PROVE  AnswerTyped'
<1>1. AnswerTyped /\ Existing \subseteq Existing'
  BY DEF GraphTypeOK, TablesGo
<1>2. CASE ReadSummary
  BY <1>1, <1>2, SummaryRead DEF AnswerTyped
<1>3. CASE ReadResults
  <2>1. PICK r \in runList :
          /\ r \in Existing /\ rowList[r] \subseteq Cases
          /\ answer' = [k \in {"cases", "summary", "results", "error"} |-> answer'[k]]
          /\ DOMAIN answer'.results = DOMAIN answer.results \cup {r}
          /\ \A q \in DOMAIN answer.results \ {r} : answer'.results[q] = answer.results[q]
          /\ DOMAIN answer'.results[r] = rowList[r]
    BY <1>3, ResultsRead
  <2> QED BY <1>1, <2>1 DEF AnswerTyped
<1>4. CASE SelectCases
  <2>1. answer' = [answer EXCEPT !.cases = caseList']
    BY <1>4 DEF SelectCases
  <2>2. /\ answer' = [k \in {"cases", "summary", "results", "error"} |-> answer'[k]]
        /\ answer'.results = answer.results
    BY <2>1, AnswerIs
  <2> QED BY <1>1, <2>2 DEF AnswerTyped
<1>5. CASE answer' = NoAnswer \/ answer' = [NoAnswer EXCEPT !.error = TRUE] \/ answer' = answer
  BY <1>1, <1>5, AnswersTyped
<1>6. \/ ReadSummary \/ ReadResults \/ SelectCases
      \/ answer' = NoAnswer \/ answer' = [NoAnswer EXCEPT !.error = TRUE] \/ answer' = answer
  BY DEF GraphNext, ResolveCreateCase, ResolveCreateRun, ResolveDeleteCase, CommitUpdate,
    ReadForUpdate, RefreshUpdated, RefreshRow, ResolveQuery, UpdateFails, FieldNotFound,
    CaseIsGone, SelectRuns, SelectRows, SelectTitles, NextField, FieldFails, Start
<1> QED BY <1>2, <1>3, <1>4, <1>5, <1>6

(* The places of a field *)

LEMMA PlaceStep ==
  ASSUME BoardTypeOK, GraphTypeOK, InItsPlace, TablesGo, GraphNext
  PROVE  InItsPlace'
<1>1. CASE ReadForUpdate
  <2>1. /\ field' = field /\ step' = "update" /\ answer' = NoAnswer /\ raced' = raced
        /\ results' = results /\ field.op = "updateResult" /\ document # <<>>
        /\ field.run \in Existing /\ field.case \in Rows(field.run)
    BY <1>1 DEF ReadForUpdate, Start, Found, field, board, tables
  <2>2. field.run \in Runs /\ field.case \in Cases
    BY <2>1, FieldIs
  <2>3. ASSUME NEW c \in Cases, c \in Rows(field.run) PROVE held'[field.run][c] # Expired
    <3>1. held'[field.run][c] = IF held[field.run][c] = Expired THEN results[field.run][c]
                                                              ELSE held[field.run][c]
      BY <1>1, <2>2, <2>3, ReadForUpdateReads
    <3>2. results[field.run][c] # Expired
      BY <2>1, BoardIs DEF RowValues, Statuses, NoRow, Expired
    <3> QED BY <3>1, <3>2
  <2>4. \A c \in Cases : held'[field.run][c] # Expired \/ results'[field.run][c] = NoRow
    BY <2>1, <2>3 DEF Rows
  <2>5. Existing' = Existing
    BY <2>1 DEF Existing
  <2> QED BY <2>1, <2>2, <2>3, <2>4, <2>5 DEF InItsPlace
<1>2. CASE CommitUpdate
  <2>1. step = "update" /\ step' = "refresh" /\ answer' = answer /\ field' = field
    BY <1>2 DEF CommitUpdate, field
  <2> QED BY <2>1 DEF InItsPlace, TablesGo
<1>3. CASE SelectRuns
  <2>1. /\ step = "runs" /\ step' = "rows" /\ answer' = answer
        /\ runList' = IF runList = Unread THEN Existing ELSE runList
    BY <1>3 DEF SelectRuns
  <2>2. 0 \notin Existing
    BY BoardIs
  <2> QED BY <2>1, <2>2 DEF InItsPlace, Unread
<1>4. CASE SelectRows
  <2>1. /\ step = "rows" /\ step' = "columns" /\ runList' = runList
        /\ rowList' = [r \in Runs |-> IF r \in runList /\ rowList[r] = Unread THEN Rows(r)
                                      ELSE rowList[r]]
    BY <1>4 DEF SelectRows
  <2>2. runList # Unread /\ runList \subseteq Existing
    BY <2>1 DEF InItsPlace, GraphTypeOK, SessionTyped
  <2>3. \A r \in runList : rowList[r] = Unread \/ rowList[r] \subseteq Cases
    BY <2>2, BoardIs DEF GraphTypeOK, SessionTyped
  <2>4. \A r \in runList : rowList'[r] \subseteq Cases
    BY <2>1, <2>2, <2>3, BoardIs DEF Rows
  <2> QED BY <2>1, <2>2, <2>4 DEF InItsPlace
<1>5. CASE RefreshRow \/ ReadSummary \/ ReadResults \/ SelectTitles
  <2>1. /\ step = "columns" /\ step' \in {"columns", "answered"}
        /\ runList' = runList /\ rowList' = rowList
    BY <1>5 DEF RefreshRow, ReadSummary, ReadResults, SelectTitles, FieldFails, session, lists
  <2> QED BY <2>1 DEF InItsPlace
<1>6. CASE step' \in {"field", "idle", "answered"}
  BY <1>6 DEF InItsPlace
<1>7. CASE SelectCases
  <2>1. /\ step = "select" /\ step' = "runs"
        /\ answer'.summary = answer.summary /\ answer'.results = answer.results
    BY <1>7, AnswerIs DEF SelectCases
  <2> QED BY <2>1 DEF InItsPlace
<1>8. CASE RefreshUpdated \/ ResolveQuery \/ ResolveCreateCase \/ ResolveCreateRun
  <2>1. \/ step' = "answered"
        \/ step' = "select" /\ answer' = NoAnswer
        \/ step' = "select" /\ answer' = answer /\ step = "refresh"
    BY <1>8 DEF RefreshUpdated, ResolveQuery, ResolveCreateCase, ResolveCreateRun, FieldFails,
      Start
  <2> QED BY <2>1, NoAnswerIs DEF InItsPlace
<1>9. \/ ReadForUpdate \/ CommitUpdate \/ SelectRuns \/ SelectRows \/ SelectCases
      \/ RefreshRow \/ ReadSummary \/ ReadResults \/ SelectTitles
      \/ RefreshUpdated \/ ResolveQuery \/ ResolveCreateCase \/ ResolveCreateRun
      \/ step' \in {"field", "idle", "answered"}
  BY DEF GraphNext, ResolveDeleteCase, UpdateFails, FieldNotFound, CaseIsGone, NextField,
    FieldFails, Start
<1> QED BY <1>1, <1>2, <1>3, <1>4, <1>5, <1>6, <1>7, <1>8, <1>9

\* Columns that are not expired are read again by nothing.
LEMMA ColumnsStay ==
  ASSUME BoardTypeOK, GraphTypeOK, InItsPlace, RefreshRow, NEW r \in runList, Stale(r) = {}
  PROVE  /\ Stale(r)' = {} /\ step = "columns" /\ runList' = runList /\ rowList' = rowList
         /\ \A c \in rowList[r] : Column(r, c)' = Column(r, c)
<1>1. /\ step = "columns" /\ runList' = runList /\ rowList' = rowList /\ detached' = detached
      /\ results' = results
  BY DEF RefreshRow, FieldFails, session, lists, board, tables
<1>2. r \in Runs /\ rowList[r] \subseteq Cases
  BY <1>1, BoardIs DEF InItsPlace, GraphTypeOK, SessionTyped
<1>3. PICK q \in runList : \E c \in Stale(q) :
        IF c \in Rows(q) THEN held' = Fetched(held, q, {c}) ELSE held' = held
  BY DEF RefreshRow, FieldFails, session
<1>4. PICK d \in Stale(q) :
        IF d \in Rows(q) THEN held' = Fetched(held, q, {d}) ELSE held' = held
  BY <1>3
<1>5. q \in Existing
  BY <1>1 DEF InItsPlace, GraphTypeOK, SessionTyped
<1>6. \A c \in Cases : held[r][c] # Expired => held'[r][c] = held[r][c]
  BY <1>2, <1>4, <1>5, FetchedIs
<1>7. \A c \in rowList[r] : Column(r, c) # Expired
  BY <1>2 DEF Stale
<1>8. \A c \in rowList[r] : Column(r, c)' = Column(r, c)
  BY <1>1, <1>2, <1>6, <1>7 DEF Column
<1>9. Stale(r)' = {}
  BY <1>1, <1>7, <1>8 DEF Stale
<1> QED BY <1>1, <1>8, <1>9

LEMMA KeptStep ==
  ASSUME BoardTypeOK, GraphTypeOK, InItsPlace, AnswerAsKept, GraphNext
  PROVE  AnswerAsKept'
<1> SUFFICES ASSUME step' = "columns" PROVE AnswerAsKept'
  BY DEF AnswerAsKept
<1>1. CASE SelectRows
  <2>1. answer'.summary = <<>> /\ answer'.results = <<>>
    BY <1>1 DEF SelectRows, InItsPlace
  <2> QED BY <2>1, NoAnswerIs DEF AnswerAsKept
<1>2. CASE RefreshRow
  <2>1. step = "columns" /\ answer' = answer /\ runList' = runList /\ rowList' = rowList
    BY <1>2 DEF RefreshRow, FieldFails, lists
  <2>2. ASSUME NEW r \in DOMAIN answer.summary
        PROVE  /\ r \in runList /\ Stale(r)' = {}
               /\ \A v \in Statuses :
                    answer.summary[r][v] = Cardinality({c \in rowList[r] : Column(r, c)' = v})
    <3>1. /\ r \in runList /\ Stale(r) = {}
          /\ \A v \in Statuses :
               answer.summary[r][v] = Cardinality({c \in rowList[r] : Column(r, c) = v})
      BY <2>1 DEF AnswerAsKept
    <3>2. Stale(r)' = {} /\ \A c \in rowList[r] : Column(r, c)' = Column(r, c)
      BY <1>2, <3>1, ColumnsStay
    <3>3. \A v \in Statuses : {c \in rowList[r] : Column(r, c)' = v} =
                                {c \in rowList[r] : Column(r, c) = v}
      BY <3>2
    <3> QED BY <3>1, <3>2, <3>3
  <2>3. ASSUME NEW r \in DOMAIN answer.results
        PROVE  /\ r \in runList /\ Stale(r)' = {} /\ DOMAIN answer.results[r] = rowList[r]
               /\ \A c \in rowList[r] : answer.results[r][c] = Column(r, c)'
    <3>1. /\ r \in runList /\ Stale(r) = {} /\ DOMAIN answer.results[r] = rowList[r]
          /\ \A c \in rowList[r] : answer.results[r][c] = Column(r, c)
      BY <2>1 DEF AnswerAsKept
    <3> QED BY <1>2, <3>1, ColumnsStay
  <2> QED BY <2>1, <2>2, <2>3 DEF AnswerAsKept
<1>3. CASE ReadSummary \/ ReadResults
  <2>1. /\ step = "columns" /\ runList' = runList /\ rowList' = rowList
        /\ \A r : Stale(r)' = Stale(r)
        /\ \A r, c : Column(r, c)' = Column(r, c)
    BY <1>3 DEF ReadSummary, ReadResults, session, lists, Stale, Column
  <2>3. CASE ReadSummary
    <3>1. PICK r \in runList :
             /\ Stale(r) = {} /\ answer'.results = answer.results
             /\ DOMAIN answer'.summary = DOMAIN answer.summary \cup {r}
             /\ \A q \in DOMAIN answer.summary \ {r} : answer'.summary[q] = answer.summary[q]
             /\ \A v \in Statuses :
                  answer'.summary[r][v] = Cardinality({c \in rowList[r] : Column(r, c) = v})
      BY <2>3, SummaryRead
    <3> QED BY <2>1, <3>1 DEF AnswerAsKept
  <2>4. CASE ReadResults
    <3>1. PICK r \in runList :
             /\ Stale(r) = {} /\ answer'.summary = answer.summary
             /\ DOMAIN answer'.results = DOMAIN answer.results \cup {r}
             /\ \A q \in DOMAIN answer.results \ {r} : answer'.results[q] = answer.results[q]
             /\ DOMAIN answer'.results[r] = rowList[r]
             /\ \A c \in rowList[r] : answer'.results[r][c] = Column(r, c)
      BY <2>4, ResultsRead
    <3> QED BY <2>1, <3>1 DEF AnswerAsKept
  <2> QED BY <1>3, <2>3, <2>4
<1>4. SelectRows \/ RefreshRow \/ ReadSummary \/ ReadResults
  BY DEF GraphNext, ResolveCreateCase, ResolveCreateRun, ResolveDeleteCase, CommitUpdate,
    ReadForUpdate, RefreshUpdated, ResolveQuery, UpdateFails, FieldNotFound, CaseIsGone,
    SelectCases, SelectRuns, SelectTitles, NextField, FieldFails, Start
<1> QED BY <1>1, <1>2, <1>3, <1>4

\* A step of a field that has created something, by its place.
LEMMA CreatedMoves ==
  ASSUME GraphTypeOK, InItsPlace, GraphNext, step' # "field", document' # <<>>,
         (field.op)' \in {"createCase", "createRun"}
  PROVE  \/ ResolveCreateCase \/ ResolveCreateRun
         \/ step' = "answered" /\ answer'.error
         \/ /\ UNCHANGED <<board, document, made, listed>> /\ step # "field" /\ document # <<>>
            /\ \/ SelectCases \/ SelectRuns \/ SelectRows \/ ReadSummary \/ ReadResults
               \/ /\ UNCHANGED <<caseList, runList, answer>> /\ step = "columns"
                  /\ step' = step \/ (step' = "answered" /\ AllRead)
<1>1. CASE ResolveQuery \/ ResolveDeleteCase \/ ReadForUpdate
  BY <1>1 DEF ResolveQuery, ResolveDeleteCase, ReadForUpdate, Start, field
<1>2. CASE CommitUpdate \/ RefreshUpdated
  <2>1. step \in {"update", "refresh"} /\ document' = document
    BY <1>2 DEF CommitUpdate, RefreshUpdated, FieldFails
  <2> QED BY <2>1 DEF InItsPlace, field
<1>3. CASE UpdateFails \/ FieldNotFound \/ CaseIsGone
  BY <1>3, NoAnswerIs DEF UpdateFails, FieldNotFound, CaseIsGone, FieldFails
<1>4. CASE NextField
  BY <1>4 DEF NextField
<1>5. CASE SelectCases \/ SelectRuns \/ SelectRows \/ ReadSummary \/ ReadResults
  BY <1>5 DEF SelectCases, SelectRuns, SelectRows, ReadSummary, ReadResults, graphHistory,
    GraphTypeOK, RequestTyped
<1>6. CASE RefreshRow \/ SelectTitles
  BY <1>6, NoAnswerIs DEF RefreshRow, SelectTitles, FieldFails, session, lists, graphHistory,
    GraphTypeOK, RequestTyped
<1> QED BY <1>1, <1>2, <1>3, <1>4, <1>5, <1>6 DEF GraphNext

LEMMA CaseStep ==
  ASSUME BoardTypeOK, GraphTypeOK, InItsPlace, CaseInLists, GraphNext
  PROVE  CaseInLists'
<1> SUFFICES ASSUME step' # "field", document' # <<>>, (field.op)' = "createCase",
                    "cases" \notin listed'
             PROVE  /\ step' = "select" =>
                         caseList' = Unread /\ \A c \in made' : c \in Cases /\ cases'[c] # "unborn"
                    /\ step' \in {"runs", "rows", "columns"} \/ Selected' =>
                         \A c \in made' : c \in Cases /\ (c \in answer'.cases \/ cases'[c] = "deleted")
  BY DEF CaseInLists
<1>1. CASE ResolveCreateCase
  <2>1. PICK c \in Cases : InsertCase(c, field.status) /\ made' = {c}
    BY <1>1 DEF ResolveCreateCase
  <2>2. field.status \in {"draft", "active"} /\ step' = "select" /\ caseList' = caseList
        /\ caseList = Unread
    <3>1. /\ step' = "select" /\ caseList' = caseList /\ document # <<>>
          /\ field.op = "createCase" /\ Committed(detached)
      BY <1>1 DEF ResolveCreateCase, Start, lists
    <3>2. caseList = Unread
      BY <3>1 DEF Committed
    <3> QED BY <3>1, <3>2, FieldIs
  <2>3. cases'[c] # "unborn"
    BY <2>1, <2>2, InsertCaseGoes
  <2> QED BY <2>1, <2>2, <2>3 DEF Selected
<1>2. CASE ResolveCreateRun
  BY <1>2 DEF ResolveCreateRun, Start, field
<1>3. CASE step' = "answered" /\ answer'.error
  BY <1>3 DEF Selected
<1>4. CASE UNCHANGED <<board, document, made, listed>> /\ step # "field" /\ document # <<>>
  <2>1. /\ field.op = "createCase" /\ "cases" \notin listed /\ made' = made /\ cases' = cases
    BY <1>4 DEF field, board, tables
  <2>2. /\ step = "select" =>
             caseList = Unread /\ \A c \in made : c \in Cases /\ cases[c] # "unborn"
        /\ step \in {"runs", "rows", "columns"} \/ Selected =>
             \A c \in made : c \in Cases /\ (c \in answer.cases \/ cases[c] = "deleted")
    BY <1>4, <2>1 DEF CaseInLists
  <2>3. CASE SelectCases
    <3>1. /\ step = "select" /\ step' = "runs" /\ answer' = [answer EXCEPT !.cases = caseList']
          /\ caseList' = IF caseList = Unread THEN LiveCases ELSE caseList
      BY <2>3 DEF SelectCases
    <3>2. answer'.cases = LiveCases
      BY <2>2, <3>1, AnswerIs
    <3>3. \A c \in Cases : cases[c] \in {"unborn", "draft", "active", "deleted"}
      BY BoardIs DEF CaseStates
    <3> QED BY <2>1, <2>2, <3>1, <3>2, <3>3 DEF LiveCases
  <2>4. CASE SelectRuns \/ SelectRows
    BY <2>1, <2>2, <2>4 DEF SelectRuns, SelectRows, Selected
  <2>5. CASE ReadSummary \/ ReadResults
    <3>1. step = "columns" /\ step' = "columns" /\ answer'.cases = answer.cases
      BY <2>5, SummaryRead, ResultsRead DEF ReadSummary, ReadResults
    <3> QED BY <2>1, <2>2, <3>1 DEF Selected
  <2>6. CASE /\ UNCHANGED <<caseList, runList, answer>> /\ step = "columns"
             /\ step' = step \/ (step' = "answered" /\ AllRead)
    BY <2>1, <2>2, <2>6 DEF Selected
  <2>7. CASE /\ ~(SelectCases \/ SelectRuns \/ SelectRows \/ ReadSummary \/ ReadResults)
             /\ ~(/\ UNCHANGED <<caseList, runList, answer>> /\ step = "columns"
                  /\ step' = step \/ (step' = "answered" /\ AllRead))
    BY <1>1, <1>2, <1>3, <2>7, CreatedMoves
  <2> QED BY <2>3, <2>4, <2>5, <2>6, <2>7
<1> QED BY <1>1, <1>2, <1>3, <1>4, CreatedMoves

LEMMA RunStep ==
  ASSUME BoardTypeOK, GraphTypeOK, InItsPlace, RunInLists, GraphNext
  PROVE  RunInLists'
<1> SUFFICES ASSUME step' # "field", document' # <<>>, (field.op)' = "createRun",
                    "runs" \notin listed'
             PROVE  /\ step' \in {"select", "runs"} => runList' = Unread /\ made' \subseteq Existing'
                    /\ step' \in {"rows", "columns"} => made' \subseteq runList'
                    /\ Selected' => made' \subseteq DOMAIN answer'.results
  BY DEF RunInLists
<1>1. CASE ResolveCreateRun
  <2>1. made' = {Len(results')} /\ step' = "select" /\ runList' = runList /\ runList = Unread
    <3>1. /\ made' = {Len(results')} /\ step' = "select" /\ runList' = runList
          /\ Committed(detached)
      BY <1>1 DEF ResolveCreateRun, Start, lists
    <3>2. runList = Unread
      BY <3>1 DEF Committed
    <3> QED BY <3>1, <3>2
  <2>2. Len(results') \in Existing'
    BY <1>1, InsertRunGoes DEF ResolveCreateRun
  <2> QED BY <2>1, <2>2 DEF Selected
<1>2. CASE ResolveCreateCase
  BY <1>2 DEF ResolveCreateCase, Start, field
<1>3. CASE step' = "answered" /\ answer'.error
  BY <1>3 DEF Selected
<1>4. CASE UNCHANGED <<board, document, made, listed>> /\ step # "field" /\ document # <<>>
  <2>1. /\ field.op = "createRun" /\ "runs" \notin listed /\ made' = made
        /\ Existing' = Existing
    BY <1>4 DEF field, board, tables, Existing
  <2>2. /\ step \in {"select", "runs"} => runList = Unread /\ made \subseteq Existing
        /\ step \in {"rows", "columns"} => made \subseteq runList
        /\ Selected => made \subseteq DOMAIN answer.results
    BY <1>4, <2>1 DEF RunInLists
  <2>3. CASE SelectCases \/ SelectRuns \/ SelectRows
    BY <2>1, <2>2, <2>3 DEF SelectCases, SelectRuns, SelectRows, Selected
  <2>4. CASE ReadSummary \/ ReadResults
    <3>1. step = "columns" /\ step' = "columns" /\ runList' = runList
      BY <2>4 DEF ReadSummary, ReadResults, session, lists
    <3> QED BY <2>1, <2>2, <3>1 DEF Selected
  <2>5. CASE /\ UNCHANGED <<caseList, runList, answer>> /\ step = "columns"
             /\ step' = step \/ (step' = "answered" /\ AllRead)
    BY <2>1, <2>2, <2>5 DEF Selected, AllRead
  <2>6. CASE /\ ~(SelectCases \/ SelectRuns \/ SelectRows \/ ReadSummary \/ ReadResults)
             /\ ~(/\ UNCHANGED <<caseList, runList, answer>> /\ step = "columns"
                  /\ step' = step \/ (step' = "answered" /\ AllRead))
    BY <1>1, <1>2, <1>3, <2>6, CreatedMoves
  <2> QED BY <2>3, <2>4, <2>5, <2>6
<1> QED BY <1>1, <1>2, <1>3, <1>4, CreatedMoves

\* A commit of somebody else.
LEMMA OthersStep ==
  ASSUME BoardTypeOK, GraphTypeOK, InItsPlace, AnswerAsKept, CaseInLists, RunInLists, TablesGo,
         GraphWitness
  PROVE  GraphTypeOK' /\ InItsPlace' /\ AnswerAsKept' /\ CaseInLists' /\ RunInLists'
<1>1. /\ document' = document /\ step' = step /\ held' = held /\ caseList' = caseList
      /\ runList' = runList /\ rowList' = rowList /\ answer' = answer
      /\ listed' = listed /\ made' = made /\ field' = field /\ detached' = detached
  BY DEF GraphWitness, session, lists, field
<1>2. Existing \subseteq Existing'
  BY DEF TablesGo
<1>3. seen' \in [Runs -> [Cases -> SUBSET RowValues]] /\ raced' \subseteq Runs \X Cases
      /\ raced \subseteq raced'
  <2>1. ASSUME NEW r \in Runs, NEW c \in Cases
        PROVE  StatusNow(r, c)' \in RowValues
    <3>1. results' \in Seq([Cases -> RowValues])
      BY DEF TablesGo
    <3>2. /\ Existing' = 1..Len(results')
          /\ \A q \in 1..Len(results') : results'[q] \in [Cases -> RowValues]
      BY <3>1 DEF Existing
    <3>3. CASE r \in Existing'
      BY <3>2, <3>3 DEF StatusNow
    <3>4. CASE r \notin Existing'
      BY <3>4 DEF StatusNow, RowValues
    <3> QED BY <3>3, <3>4
  <2>2. \A r \in Runs : \A c \in Cases : seen[r][c] \cup {StatusNow(r, c)'} \subseteq RowValues
    BY <2>1, SessionIs
  <2>3. seen' = [r \in Runs |-> [c \in Cases |-> seen[r][c] \cup {StatusNow(r, c)'}]]
    BY DEF GraphWitness
  <2>4. raced \subseteq Runs \X Cases
    BY DEF GraphTypeOK, SessionTyped
  <2> QED BY <2>2, <2>3, <2>4 DEF GraphWitness
<1>4. GraphTypeOK'
  <2>1. RequestTyped'
    BY <1>1 DEF GraphTypeOK, RequestTyped
  <2>2. SessionTyped'
    BY <1>1, <1>2, <1>3 DEF GraphTypeOK, SessionTyped, RowValues
  <2>3. AnswerTyped'
    BY <1>1, <1>2, AnswersTyped DEF GraphTypeOK
  <2> QED BY <2>1, <2>2, <2>3 DEF GraphTypeOK
<1>5. InItsPlace'
  <2>1. ASSUME step = "update"
        PROVE  \A c \in Cases : \/ held[field.run][c] # Expired
                                \/ <<field.run, c>> \in raced'
                                \/ results'[field.run][c] = NoRow
    <3>1. /\ field.run \in Existing /\ field.run \in Runs /\ field.case \in Cases
          /\ held[field.run][field.case] # Expired
      BY <2>1, FieldIs DEF InItsPlace, GraphTypeOK, RequestTyped
    <3>2. held[field.run] # Nothing
      BY <3>1 DEF Nothing
    <3>3. ASSUME NEW c \in Cases, held[field.run][c] = Expired, <<field.run, c>> \notin raced'
          PROVE  results'[field.run][c] = NoRow
      <4>0. PICK r \in Runs : r = field.run
        BY <3>1
      <4> DEFINE p == <<r, c>>
      <4>1. p \in Runs \X Cases /\ p[1] = r /\ p[2] = c /\ p \notin raced'
        BY <3>3, <4>0
      <4>2. results[r][c] = NoRow
        BY <1>3, <2>1, <3>3, <4>0 DEF InItsPlace
      <4>3. r \in Existing /\ r \in Existing' /\ held[r] # Nothing
        BY <1>2, <3>1, <3>2, <4>0
      <4> HIDE DEF p
      <4>4. StatusNow(r, c)' = StatusNow(r, c)
        BY <4>1, <4>3 DEF GraphWitness
      <4>5. results'[r][c] = NoRow
        BY <4>2, <4>3, <4>4 DEF StatusNow
      <4> QED BY <4>0, <4>5
    <3> QED BY <3>3
  <2> QED BY <1>1, <1>2, <2>1 DEF InItsPlace
<1>6. CaseInLists'
  <2>1. \A c \in Cases : /\ cases[c] # "unborn" => cases'[c] # "unborn"
                         /\ cases[c] = "deleted" => cases'[c] = "deleted"
    BY DEF TablesGo
  <2> QED BY <1>1, <2>1 DEF CaseInLists, Selected
<1>7. RunInLists'
  BY <1>1, <1>2 DEF RunInLists, Selected
<1>8. AnswerAsKept'
  BY <1>1 DEF AnswerAsKept, Stale, Column
<1> QED BY <1>4, <1>5, <1>6, <1>7, <1>8

(* The request as a whole *)

LEMMA GraphInvInit == ReadersInit => GraphInv
<1> SUFFICES ASSUME ReadersInit PROVE GraphInv
  OBVIOUS
<1>1. BoardTypeOK
  <2>1. PICK b \in CountBoards \cup GraphBoards :
          cases = b.cases /\ results = b.results /\ completed = b.completed
    BY DEF ReadersInit, BoardInit
  <2>2. b \in Boards
    BY <2>1, ReadersAssumption
  <2>3. /\ b.cases \in [Cases -> CaseStates]
        /\ b.results \in Seq([Cases -> Statuses \cup {NoRow}])
        /\ b.completed \subseteq Runs /\ DOMAIN b.results \subseteq Runs
    BY <2>2 DEF Boards
  <2>4. writes \in 0..MaxWrites
    BY BoardAssumption DEF ReadersInit, BoardInit
  <2> QED BY <2>1, <2>3, <2>4 DEF BoardTypeOK, Existing
<1>2. /\ document \in Seq(Fields) /\ step \in {"idle", "field"}
      /\ held = AllExpired /\ detached = AllExpired /\ caseList = Unread /\ runList = Unread
      /\ rowList = [r \in Runs |-> Unread] /\ answer = NoAnswer
      /\ seen = [r \in Runs |-> [c \in Cases |-> {StatusNow(r, c)}]]
      /\ raced = {} /\ listed = {} /\ made = {}
  <2>1. document = <<>> \/ document \in Documents
    BY DEF ReadersInit, GraphIdle, GraphAsked
  <2> HIDE DEF Fields
  <2>2. document \in Seq(Fields)
    <3>1. CASE document = <<>>
      BY <3>1, EmptySeq
    <3>2. CASE document \in Documents
      BY <3>2, GraphAssumption
    <3> QED BY <2>1, <3>1, <3>2
  <2> QED BY <2>2 DEF ReadersInit, GraphIdle, GraphAsked, GraphInit
<1>3. GraphTypeOK
  <2>1. \A r \in Runs : \A c \in Cases : StatusNow(r, c) \in RowValues
    BY <1>1, StatusIs
  <2>2. seen \in [Runs -> [Cases -> SUBSET RowValues]]
    BY <1>2, <2>1
  <2>3. SessionTyped
    BY <1>2, <2>2, AllExpiredIs DEF SessionTyped, HeldValues, RowValues
  <2>4. AnswerTyped
    BY <1>2, NoAnswerIs DEF AnswerTyped
  <2> QED BY <1>2, <2>3, <2>4 DEF GraphTypeOK, RequestTyped, GraphSteps
<1>4. SessionSound
  BY <1>2, AllExpiredIs DEF SessionSound
<1>5. InItsPlace /\ AnswerAsKept
  BY <1>2 DEF InItsPlace, AnswerAsKept
<1>6. CaseInLists /\ RunInLists
  <2>1. step = "idle" => document = <<>>
    BY DEF ReadersInit, GraphIdle, GraphAsked
  <2> QED BY <1>2, <2>1 DEF CaseInLists, RunInLists
<1> QED BY <1>1, <1>3, <1>4, <1>5, <1>6 DEF GraphInv

LEMMA GraphInvStep == GraphInv /\ [ReadersNext]_readersVars => GraphInv'
<1> SUFFICES ASSUME GraphInv, [ReadersNext]_readersVars PROVE GraphInv'
  OBVIOUS
<1>1. /\ BoardTypeOK /\ GraphTypeOK /\ SessionSound /\ InItsPlace /\ AnswerAsKept
      /\ CaseInLists /\ RunInLists
  BY DEF GraphInv
<1>2. BoardGoes /\ BoardTypeOK' /\ TablesGo
  BY BoardStep, BoardTyped DEF BoardGoes
<1>3. CASE GraphNext
  BY <1>1, <1>2, <1>3, RequestStep, SessionStep, AnswerStep, SoundStep, PlaceStep, KeptStep,
     CaseStep, RunStep DEF GraphInv, GraphTypeOK
<1>4. CASE Others
  <2>1. GraphWitness
    BY <1>4 DEF Others
  <2> QED BY <1>1, <1>2, <2>1, OthersStep, SoundAfterOthers DEF GraphInv
<1>5. CASE UNCHANGED <<board, graph>>
  BY <1>1, <1>2, <1>5, GraphKept DEF GraphInv
<1>6. GraphNext \/ Others \/ UNCHANGED <<board, graph>>
  BY DEF ReadersNext, readersVars, StatisticsNext, CountCases, CountRuns, FindLastRun, CountRows,
    ListHistory, ReadPoint, CountCoverage, CountActive, RetryCall, Degrade, ListCases, ReadCase,
    Reads
<1> QED BY <1>3, <1>4, <1>5, <1>6

LEMMA GraphInvariant == ReadersSpec => []GraphInv
<1> QED BY GraphInvInit, GraphInvStep, PTL DEF ReadersSpec

\* The tables, and what a GraphQL request keeps of them, are well typed.
THEOREM ReadersTyped == ReadersSpec => [](BoardTypeOK /\ GraphTypeOK)
<1>1. GraphInv => BoardTypeOK /\ GraphTypeOK
  BY DEF GraphInv
<1> QED BY <1>1, GraphInvariant, PTL

(* What an answer shows *)

\* Statuses that an answer shows are seen, and its summaries count them.
LEMMA ShownStays ==
  ASSUME GraphInv, SummaryMatchesResults, NeverBeforeItsCommit, [ReadersNext]_readersVars
  PROVE  SummaryMatchesResults' /\ NeverBeforeItsCommit'
<1>1. /\ BoardTypeOK /\ GraphTypeOK /\ SessionSound /\ InItsPlace /\ AnswerAsKept
  BY DEF GraphInv
<1>2. CASE ReadSummary \/ ReadResults
  <2>1. seen' = seen /\ step' = "columns" /\ runList' = runList /\ rowList' = rowList
        /\ \A r, c : Column(r, c)' = Column(r, c)
    BY <1>2 DEF ReadSummary, ReadResults, graphHistory, session, lists, Column
  <2>2. AnswerAsKept' /\ GraphNext
    BY <1>1, <1>2, KeptStep DEF GraphNext
  <2>3. \A r \in DOMAIN answer'.summary : \A v \in Statuses :
          answer'.summary[r][v] = Cardinality({c \in rowList[r] : Column(r, c) = v})
    BY <2>1, <2>2 DEF AnswerAsKept
  <2>4. \A r \in DOMAIN answer'.results :
          /\ r \in runList /\ DOMAIN answer'.results[r] = rowList[r]
          /\ Stale(r)' = {}
          /\ \A c \in rowList[r] : answer'.results[r][c] = Column(r, c)
    BY <2>1, <2>2 DEF AnswerAsKept
  <2>5. ASSUME NEW r \in DOMAIN answer'.summary \cap DOMAIN answer'.results, NEW v \in Statuses
        PROVE  answer'.summary[r][v] =
                 Cardinality({c \in DOMAIN answer'.results[r] : answer'.results[r][c] = v})
    <3>1. {c \in DOMAIN answer'.results[r] : answer'.results[r][c] = v} =
            {c \in rowList[r] : Column(r, c) = v}
      BY <2>4
    <3> QED BY <2>3, <3>1
  <2>6. ASSUME NEW r \in DOMAIN answer'.results, NEW c \in DOMAIN answer'.results[r]
        PROVE  answer'.results[r][c] \in seen'[r][c]
    <3>1. c \in rowList[r] /\ answer'.results[r][c] = Column(r, c) /\ r \in runList
      BY <2>4
    <3>2. r \in Runs /\ c \in Cases
      BY <1>1, <1>2, <3>1, BoardIs DEF InItsPlace, GraphTypeOK, SessionTyped, ReadSummary,
        ReadResults
    <3>3. Column(r, c) # Expired
      BY <2>1, <2>4, <3>1, <3>2 DEF Stale
    <3> QED BY <1>1, <2>1, <3>1, <3>2, <3>3 DEF SessionSound, Column
  <2> QED BY <2>5, <2>6 DEF SummaryMatchesResults, NeverBeforeItsCommit
<1>3. CASE answer'.results = <<>>
  BY <1>3, NoAnswerIs DEF SummaryMatchesResults, NeverBeforeItsCommit
<1>4. CASE /\ answer'.results = answer.results /\ answer'.summary = answer.summary
           /\ \A r \in Runs : \A c \in Cases : seen[r][c] \subseteq seen'[r][c]
  <2>1. ASSUME NEW r \in DOMAIN answer.results, NEW c \in DOMAIN answer.results[r]
        PROVE  answer.results[r][c] \in seen'[r][c]
    <3>1. r \in Runs /\ c \in Cases
      BY <1>1, BoardIs DEF GraphTypeOK, AnswerTyped
    <3> QED BY <1>4, <3>1 DEF NeverBeforeItsCommit
  <2> QED BY <1>4, <2>1 DEF SummaryMatchesResults, NeverBeforeItsCommit
<1>5. CASE GraphNext /\ ~ReadSummary /\ ~ReadResults
  <2>1. CASE Commits
    <3>1. answer'.results = <<>>
      BY <1>1, <2>1, NoAnswerIs DEF Commits, ResolveCreateCase, ResolveCreateRun,
        ResolveDeleteCase, CommitUpdate, Start, InItsPlace
    <3> QED BY <1>3, <3>1
  <2>2. CASE Selects \/ GoesOn
    <3>1. seen' = seen
      BY <2>2, SelectsKeep
    <3>2. CASE SelectCases
      BY <1>1, <1>4, <3>1, <3>2, AnswerIs DEF SelectCases
    <3>3. CASE ~SelectCases
      <4>1. answer' = answer \/ answer'.results = <<>>
        BY <1>5, <2>2, <3>3, NoAnswerIs DEF Selects, GoesOn, ReadForUpdate, RefreshUpdated,
          SelectRows, RefreshRow, ResolveQuery, UpdateFails, FieldNotFound, CaseIsGone,
          SelectRuns, SelectTitles, NextField, FieldFails, Start
      <4> QED BY <1>3, <1>4, <3>1, <4>1
    <3> QED BY <3>2, <3>3
  <2> QED BY <1>5, <2>1, <2>2, StepsOfField
<1>6. CASE Others
  BY <1>4, <1>6 DEF Others, GraphWitness
<1>7. CASE UNCHANGED graph
  BY <1>4, <1>7 DEF graph, graphHistory
<1> QED BY <1>2, <1>5, <1>6, <1>7 DEF ReadersNext, readersVars

LEMMA ShownInit == ReadersInit => SummaryMatchesResults /\ NeverBeforeItsCommit
BY NoAnswerIs DEF ReadersInit, GraphInit, SummaryMatchesResults, NeverBeforeItsCommit

\* The summary of a run counts the very results that the same answer lists,
\* whichever is read first and whoever records or deletes in between (Run.summary
\* and Run.results of graph.py, which share the loader's rows and their session).
THEOREM SummariesMatch == ReadersSpec => []SummaryMatchesResults
<1>1. SummaryMatchesResults /\ NeverBeforeItsCommit /\ GraphInv /\ [ReadersNext]_readersVars
        => (SummaryMatchesResults /\ NeverBeforeItsCommit)'
  BY ShownStays
<1> QED BY <1>1, ShownInit, GraphInvariant, PTL DEF ReadersSpec

\* No answer shows a status from before the last commit of its own request, or, of
\* a row the request has deleted, from before the commit that came before that; and
\* the selection of a mutation contains what the mutation created unless its list
\* was read before or the case is deleted (loaders.py, the session of context.py).
THEOREM OwnWritesRead == ReadersSpec => []ReadsOwnWrites
<1>1. SummaryMatchesResults /\ NeverBeforeItsCommit /\ GraphInv /\ [ReadersNext]_readersVars
        => (SummaryMatchesResults /\ NeverBeforeItsCommit)'
  BY ShownStays
<1>2. GraphInv => MutationSeesItself
  BY DEF GraphInv, GraphTypeOK, RequestTyped, CaseInLists, RunInLists, Selected,
    MutationSeesItself
<1>3. NeverBeforeItsCommit /\ MutationSeesItself => ReadsOwnWrites
  BY DEF ReadsOwnWrites
<1> QED BY <1>1, <1>2, <1>3, ShownInit, GraphInvariant, PTL DEF ReadersSpec

(* What a mutation writes *)

LEMMA OurCommit ==
  ASSUME GraphInv, [ReadersNext]_readersVars, OurUpdate
  PROVE  CommitUpdate
BY DEF OurUpdate, ReadersNext, readersVars, StatisticsNext, graph, Others, GraphWitness, GraphNext,
  ResolveCreateCase, ResolveCreateRun, ResolveDeleteCase, ReadForUpdate, RefreshUpdated,
  SelectRows, RefreshRow, ResolveQuery, UpdateFails, FieldNotFound, SelectCases, CaseIsGone,
  SelectRuns, ReadSummary, ReadResults, SelectTitles, NextField, FieldFails, Start

\* What the session holds of the run when it commits.
LEMMA CommitSees ==
  ASSUME GraphInv, CommitUpdate
  PROVE  /\ field.run \in Existing /\ field.case \in Cases
         /\ results'[field.run][field.case] = Written
         /\ \A c \in Cases \ {field.case} : results'[field.run][c] = results[field.run][c]
         /\ \A c \in Cases : <<field.run, c>> \notin raced =>
              \/ held[field.run][c] # Expired /\ held[field.run][c] = results[field.run][c]
              \/ held[field.run][c] = Expired /\ results[field.run][c] = NoRow
         /\ <<field.run, field.case>> \notin raced => Written = field.status
<1>1. /\ BoardTypeOK /\ GraphTypeOK /\ SessionSound /\ InItsPlace
  BY DEF GraphInv
<1>2. /\ field.run \in Existing /\ field.case \in Cases /\ field.status \in Statuses
      /\ Written \in RowValues
  BY <1>1, WrittenTyped
<1>3. results' = [results EXCEPT ![field.run][field.case] = Written]
  BY DEF CommitUpdate
<1>4. \A c \in Cases : results'[field.run][c] = IF c = field.case THEN Written
                                                                   ELSE results[field.run][c]
  BY <1>1, <1>2, <1>3, CellWritten
<1>5. step = "update" /\ field.run \in Runs
  BY <1>1, <1>2, BoardIs DEF CommitUpdate
<1>6. ASSUME NEW c \in Cases, <<field.run, c>> \notin raced
      PROVE  \/ held[field.run][c] # Expired /\ held[field.run][c] = results[field.run][c]
             \/ held[field.run][c] = Expired /\ results[field.run][c] = NoRow
  BY <1>1, <1>5, <1>6 DEF SessionSound, InItsPlace
<1>7. held[field.run][field.case] # Expired
  BY <1>1, <1>5 DEF InItsPlace
<1>8. <<field.run, field.case>> \notin raced => Written = field.status
  BY <1>2, <1>6, <1>7 DEF Written
<1> QED BY <1>2, <1>4, <1>6, <1>8

\* The status a mutation reports as set is set, unless another request changed
\* the row after this session had read it (update_result of graph.py,
\* _apply_result_update of api/main.py).
THEOREM ReportedIsWritten == ReadersSpec => UpdateIsWritten
<1>1. GraphInv /\ [ReadersNext]_readersVars =>
        [OurUpdate /\ <<field.run, field.case>> \notin raced =>
           results'[field.run][field.case] = field.status]_<<board, graph>>
  BY OurCommit, CommitSees
<1> QED BY <1>1, GraphInvariant, PTL DEF ReadersSpec, UpdateIsWritten

\* The mutation that leaves no result of a run pending completes the run, and no
\* other does, unless another request changed the run after this session had
\* read its rows (_apply_result_update of api/main.py in the session of a GraphQL
\* document).
THEOREM LastOneCompletes == ReadersSpec => LastResultCompletes
<1>1. ASSUME GraphInv, [ReadersNext]_readersVars, OurUpdate, ~RacedIn(field.run)
      PROVE  completed' = completed \cup (IF Recorded(results'[field.run]) THEN {field.run} ELSE {})
  <2>1. CommitUpdate
    BY <1>1, OurCommit
  <2>2. completed' = IF RunCompleted THEN completed \cup {field.run} ELSE completed
    BY <2>1 DEF CommitUpdate
  <2>3. \A c \in Cases : <<field.run, c>> \notin raced
    BY <1>1 DEF RacedIn
  <2>4. /\ field.case \in Cases
        /\ results'[field.run][field.case] = field.status
        /\ \A c \in Cases \ {field.case} : results'[field.run][c] = results[field.run][c]
        /\ \A c \in Cases :
             \/ held[field.run][c] # Expired /\ held[field.run][c] = results[field.run][c]
             \/ held[field.run][c] = Expired /\ results[field.run][c] = NoRow
    BY <1>1, <2>1, <2>3, CommitSees
  <2> DEFINE sees == [c \in Cases |->
                        IF c = field.case THEN field.status
                        ELSE IF held[field.run][c] = Expired THEN NoRow ELSE held[field.run][c]]
  <2>5. \A c \in Cases : sees[c] = results'[field.run][c]
    BY <2>4
  <2>6. RunCompleted <=> Recorded(sees)
    BY DEF RunCompleted
  <2> HIDE DEF sees
  <2>7. Recorded(sees) <=> Recorded(results'[field.run])
    BY <2>5 DEF Recorded
  <2> QED BY <2>2, <2>6, <2>7
<1>2. GraphInv /\ [ReadersNext]_readersVars =>
        [OurUpdate /\ ~RacedIn(field.run) =>
           completed' = completed \cup (IF Recorded(results'[field.run]) THEN {field.run}
                                                                         ELSE {})]_<<board, graph>>
  BY <1>1
<1> QED BY <1>2, GraphInvariant, PTL DEF ReadersSpec, LastResultCompletes

(* What a counting request has read *)

Points == [run : Runs, counts : [Statuses -> Nat], total : Nat, rate : Nat]

\* The pass rate is the nearest tenth of a percent.
LEMMA RateIsNearest ==
  ASSUME NEW p \in Nat, NEW t \in Nat, p <= t
  PROVE  LET q == PassRate(p, t) IN
         /\ q \in Nat
         /\ 2 * (q * t - 1000 * p) <= t /\ -(2 * (q * t - 1000 * p)) <= t
         /\ p = t /\ t > 0 => q = 1000
<1>1. CASE t = 0
  BY <1>1 DEF PassRate
<1>2. CASE t # 0
  <2> DEFINE n == 2000 * p + t
             d == 2 * t
             q == n \div d
  <2>1. n \in Nat /\ d \in Nat /\ d > 0
    BY <1>2
  <2>2. PassRate(p, t) = q
    BY <1>2 DEF PassRate
  <2>3. q \in Nat /\ d * q <= n /\ n < d * q + d
    <3> HIDE DEF n, d
    <3> QED BY <2>1
  <2> HIDE DEF q
  <2>4. d * q = 2 * (q * t)
    BY <2>3
  <2>5. q * t \in Nat
    BY <2>3
  <2>6. 2 * (q * t - 1000 * p) <= t /\ -(2 * (q * t - 1000 * p)) <= t
    <3> DEFINE w == q * t
    <3>1. w \in Nat /\ 2 * w <= 2000 * p + t /\ 2000 * p + t < 2 * w + 2 * t
      BY <2>3, <2>4, <2>5
    <3> HIDE DEF w
    <3>2. 2 * (w - 1000 * p) <= t /\ -(2 * (w - 1000 * p)) <= t
      BY <3>1
    <3> QED BY <3>2 DEF w
  <2>7. ASSUME p = t
        PROVE  q = 1000
    <3>1. 2 * (q * t) <= 2001 * t /\ 2001 * t < 2 * (q * t) + 2 * t
      BY <2>3, <2>4, <2>7
    <3>2. CASE q <= 999
      <4>1. q * t <= 999 * t
        BY <2>3, <3>2
      <4> QED BY <1>2, <2>5, <3>1, <4>1
    <3>3. CASE q >= 1001
      <4>1. q * t >= 1001 * t
        BY <2>3, <3>3
      <4> QED BY <1>2, <2>5, <3>1, <4>1
    <3> QED BY <2>3, <3>2, <3>3
  <2> QED BY <2>2, <2>3, <2>6, <2>7
<1> QED BY <1>1, <1>2

LEMMA SizeOfDisjoint ==
  ASSUME NEW S, IsFiniteSet(S), NEW T, IsFiniteSet(T), S \cap T = {}
  PROVE  IsFiniteSet(S \cup T) /\ Cardinality(S \cup T) = Cardinality(S) + Cardinality(T)
<1>1. Cardinality(S) \in Nat /\ Cardinality(T) \in Nat
  BY FS_CardinalityType
<1>2. Cardinality(S \cap T) = 0
  BY FS_EmptySet
<1>3. /\ IsFiniteSet(S \cup T)
      /\ Cardinality(S \cup T) = Cardinality(S) + Cardinality(T) - Cardinality(S \cap T)
  BY FS_Union
<1> QED BY <1>1, <1>2, <1>3

\* The four counts of a run are those of its rows.
LEMMA RowsCounted ==
  ASSUME BoardTypeOK, NEW r \in Existing
  PROVE  /\ Now(r) \in [Statuses -> Nat]
         /\ Total(Now(r)) = Cardinality(Rows(r)) /\ Total(Now(r)) \in Nat
         /\ Now(r)["pass"] <= Total(Now(r))
<1> DEFINE Of(v) == {c \in Cases : results[r][c] = v}
<1>1. \A v : IsFiniteSet(Of(v)) /\ Cardinality(Of(v)) \in Nat
  <2> TAKE v
  <2>1. IsFiniteSet(Cases) /\ Of(v) \subseteq Cases
    BY BoardAssumption
  <2>2. IsFiniteSet(Of(v))
    BY <2>1, FS_Subset
  <2> QED BY <2>2, FS_CardinalityType
<1>2. Rows(r) = ((Of("pending") \cup Of("pass")) \cup Of("fail")) \cup Of("skip")
  <2>1. \A c \in Cases : results[r][c] \in Statuses \cup {NoRow}
    BY BoardIs DEF RowValues
  <2> QED BY <2>1 DEF Rows, Statuses, NoRow
<1>3. \A v \in Statuses : Now(r)[v] = Cardinality(Of(v))
  BY DEF Now
<1>4. \A u, v : u # v => Of(u) \cap Of(v) = {}
  OBVIOUS
<1>5. Now(r) \in [Statuses -> Nat]
  BY <1>1 DEF Now
<1> DEFINE A == Of("pending")
           B == Of("pass")
           C == Of("fail")
           D == Of("skip")
<1>6. /\ IsFiniteSet(A) /\ IsFiniteSet(B) /\ IsFiniteSet(C) /\ IsFiniteSet(D)
      /\ A \cap B = {} /\ (A \cup B) \cap C = {} /\ ((A \cup B) \cup C) \cap D = {}
      /\ Cardinality(A) \in Nat /\ Cardinality(B) \in Nat
      /\ Cardinality(C) \in Nat /\ Cardinality(D) \in Nat
  BY <1>1, <1>4
<1>7. /\ Rows(r) = ((A \cup B) \cup C) \cup D
      /\ Now(r)["pending"] = Cardinality(A) /\ Now(r)["pass"] = Cardinality(B)
      /\ Now(r)["fail"] = Cardinality(C) /\ Now(r)["skip"] = Cardinality(D)
  BY <1>2, <1>3 DEF Statuses
<1> HIDE DEF A, B, C, D
<1>8. IsFiniteSet(A \cup B) /\ Cardinality(A \cup B) = Cardinality(A) + Cardinality(B)
  BY <1>6, SizeOfDisjoint
<1>9. IsFiniteSet((A \cup B) \cup C)
      /\ Cardinality((A \cup B) \cup C) = Cardinality(A) + Cardinality(B) + Cardinality(C)
  BY <1>6, <1>8, SizeOfDisjoint
<1>10. Cardinality(Rows(r)) =
         Cardinality(A) + Cardinality(B) + Cardinality(C) + Cardinality(D)
  BY <1>6, <1>7, <1>9, SizeOfDisjoint
<1>11. Total(Now(r)) = Cardinality(A) + Cardinality(B) + Cardinality(C) + Cardinality(D)
  BY <1>6, <1>7 DEF Total
<1> QED BY <1>5, <1>6, <1>7, <1>10, <1>11

\* The point of a run has its rate.
LEMMA PointIs ==
  ASSUME BoardTypeOK, NEW r \in Existing
  PROVE  LET point == [run |-> r, counts |-> Now(r), total |-> Total(Now(r)),
                       rate |-> PassRate(Now(r)["pass"], Total(Now(r)))]
         IN  point \in Points /\ RateOf(point)
<1> DEFINE p == Now(r)["pass"]
           t == Total(Now(r))
           q == PassRate(p, t)
           point == [run |-> r, counts |-> Now(r), total |-> t, rate |-> q]
<1>1. /\ Now(r) \in [Statuses -> Nat] /\ t \in Nat /\ p \in Nat /\ p <= t
      /\ t = Cardinality(Rows(r))
  BY RowsCounted DEF Statuses
<1>2. /\ q \in Nat
      /\ 2 * (q * t - 1000 * p) <= t /\ -(2 * (q * t - 1000 * p)) <= t
      /\ p = t /\ t > 0 => q = 1000
  <2> HIDE DEF p, t
  <2> QED BY <1>1, RateIsNearest
<1>3. p = Cardinality({c \in Cases : Status(r, c) = "pass"})
  BY DEF Now, Status, Statuses
<1>4. r \in Runs
  BY BoardIs
<1> HIDE DEF p, t, q
<1>5. point \in Points
  BY <1>1, <1>2, <1>4 DEF Points
<1>6. point.run = r /\ point.rate = q
  OBVIOUS
<1> HIDE DEF point
<1>7. RateOf(point)
  BY <1>1, <1>2, <1>3, <1>6 DEF RateOf
<1> QED BY <1>5, <1>7 DEF point, p, t, q

\* A case is flaky when it swung back and forth.
LEMMA FlakyIsSwings ==
  ASSUME BoardTypeOK, NEW c \in Cases
  PROVE  Flips(History(c)) >= 2 <=> Swings(c)
<1> DEFINE h == History(c)
           D == {q \in Existing : results[q][c] \in {"pass", "fail"}}
<1>1. D \in SUBSET (1..Len(results)) /\ Len(results) \in Nat
  BY BoardIs
<1>2. h \in [D -> {"pass", "fail"}] /\ \A q \in D : h[q] = results[q][c]
  BY DEF History
<1> HIDE DEF h, D
<1>3. Flips(h) >= 2 <=> \E p, q, r \in D : /\ p < q /\ q < r
                                           /\ h[p] # h[q] /\ h[r] = h[p]
  BY <1>1, <1>2, FlipsMeanSwings
<1>4. ASSUME NEW p \in D, NEW q \in D, NEW r \in D, p < q, q < r, h[p] # h[q], h[r] = h[p]
      PROVE  Swings(c)
  <2>1. /\ p \in Existing /\ q \in Existing /\ r \in Existing
        /\ {Status(p, c), Status(q, c)} = {"pass", "fail"} /\ Status(r, c) = Status(p, c)
    BY <1>2, <1>4 DEF D, Status
  <2> QED BY <1>4, <2>1 DEF Swings
<1>5. ASSUME NEW p \in Existing, NEW q \in Existing, NEW r \in Existing, p < q, q < r,
             {Status(p, c), Status(q, c)} = {"pass", "fail"}, Status(r, c) = Status(p, c)
      PROVE  p \in D /\ q \in D /\ r \in D /\ h[p] # h[q] /\ h[r] = h[p]
  <2>1. /\ Status(p, c) \in {"pass", "fail"} /\ Status(q, c) \in {"pass", "fail"}
        /\ Status(p, c) # Status(q, c)
    BY <1>5
  <2>2. p \in D /\ q \in D /\ r \in D
    BY <1>5, <2>1 DEF D, Status
  <2> QED BY <1>2, <1>5, <2>1, <2>2 DEF Status
<1>6. Swings(c) => \E p, q, r \in D : p < q /\ q < r /\ h[p] # h[q] /\ h[r] = h[p]
  BY <1>5 DEF Swings
<1> QED BY <1>3, <1>4, <1>6 DEF h

\* What the export shows of a case is its result in the newest run that has one.
IsLatest(x) ==
  \A r \in Existing : x[1] \in Rows(r) => r <= x[2] /\ (r = x[2] => Status(r, x[1]) = x[3])

LEMMA LatestIsLatest ==
  ASSUME BoardTypeOK, NEW c \in Cases
  PROVE  Latest(c)[1] = c /\ IsLatest(Latest(c))
<1> DEFINE with == {r \in Existing : c \in Rows(r)}
<1>1. with \in SUBSET (1..Len(results)) /\ Len(results) \in Nat
  BY BoardIs
<1>2. CASE with = {}
  BY <1>2 DEF Latest, IsLatest
<1>3. CASE with # {}
  <2>1. Max(with) \in with /\ \A k \in with : k <= Max(with)
    BY <1>1, <1>3, MaxIsLargest
  <2>2. Latest(c) = <<c, Max(with), results[Max(with)][c]>>
    BY <1>3 DEF Latest
  <2> DEFINE m == Max(with)
  <2>3. Latest(c)[1] = c /\ Latest(c)[2] = m /\ Latest(c)[3] = results[m][c]
    BY <2>2
  <2>4. \A r \in Existing : c \in Rows(r) => r <= m
    BY <2>1
  <2> HIDE DEF m, with
  <2> QED BY <2>3, <2>4 DEF IsLatest, Status
<1> QED BY <1>2, <1>3

\* The points so far are those of the runs to show that are not in t, the oldest
\* first, each with its rate.
PointsSoFar(h, t) ==
  /\ h \in Seq(Points)
  /\ t \subseteq RunsToShow
  /\ {h[i].run : i \in DOMAIN h} = RunsToShow \ t
  /\ \A i \in DOMAIN h : (\A r \in t : h[i].run < r) /\ RateOf(h[i])
  /\ \A i, j \in DOMAIN h : i < j => h[i].run < h[j].run
  /\ Len(h) + Cardinality(t) = Cardinality(RunsToShow)

FlakyIn(p, C) == {x[1] : x \in p} = {c \in C : Swings(c)}
LatestOf(p, C) == {x[1] : x \in p} = C /\ \A x \in p : IsLatest(x)

HasFigures(f) ==
  f = [cases |-> f.cases, active |-> f.active, runs |-> f.runs, last |-> f.last,
       counts |-> f.counts, history |-> f.history, flaky |-> f.flaky, latest |-> f.latest]

\* What the figures f say of the tables when the next SELECT is p, t is still to be
\* read, and d says that the runs service did not answer.
SoFar(p, f, t, d) ==
  /\ completed \subseteq Existing
  /\ HasFigures(f)
  /\ p \in {"runs", "last", "rows", "active"} => f.cases = Cardinality(LiveCases)
  /\ p \in {"last", "rows"} => f.runs = Cardinality(Existing)
  /\ p = "rows" => results # <<>> /\ f.last = Len(results)
  /\ p = "history" => f.history = <<>>
  /\ p = "points" => t # {} /\ PointsSoFar(f.history, t)
  /\ p \in {"coverage", "active"} /\ ~d => PointsSoFar(f.history, {})
  /\ p = "list" => f.flaky = {} /\ f.latest = {}
  /\ p = "each" => /\ t # {} /\ t \subseteq LiveCases
                   /\ asked.kind = "flaky" => FlakyIn(f.flaky, LiveCases \ t)
                   /\ asked.kind = "export" => LatestOf(f.latest, LiveCases \ t)

SelectsOf(k) ==
  CASE k = "stats" -> {"cases", "runs", "last", "rows", "done"}
    [] k = "analytics" -> {"history", "points", "coverage", "active", "done"}
    [] OTHER -> {"list", "each", "done"}

CountingInv ==
  /\ place # "idle" => step = "idle" /\ asked \in Kinds /\ place \in SelectsOf(asked.kind)
  /\ place \notin {"idle", "done"} /\ ~disturbed => SoFar(place, figures, todo, degraded)

\* A request that finishes is right, or goes on as it should.
GoesRight ==
  /\ place' \in SelectsOf(asked.kind)
  /\ place' = "done" => Correct(figures', degraded')
  /\ place' # "done" => SoFar(place', figures', todo', degraded')

\* The tables as a counting request finds them.
LEMMA TablesAre ==
  ASSUME BoardTypeOK
  PROVE  /\ Cardinality(Existing) = Len(results)
         /\ IsFiniteSet(LiveCases) /\ LiveCases \subseteq Cases
<1>1. Existing = 1..Len(results) /\ Len(results) \in Nat
  BY BoardIs
<1>2. Cardinality(1..Len(results)) = Len(results)
  <2> DEFINE n == Len(results)
  <2>1. n \in Nat
    BY <1>1
  <2> HIDE DEF n
  <2>2. Cardinality(1..n) = n
    BY <2>1, FS_Interval
  <2> QED BY <2>2 DEF n
<1>3. IsFiniteSet(Cases) /\ LiveCases \subseteq Cases
  BY BoardAssumption DEF LiveCases
<1>4. IsFiniteSet(LiveCases)
  BY <1>3, FS_Subset
<1> QED BY <1>1, <1>2, <1>3, <1>4

LEMMA NewestAre ==
  ASSUME BoardTypeOK, completed \subseteq Existing
  PROVE  /\ RunsToShow \subseteq completed /\ IsFiniteSet(RunsToShow)
         /\ RunsToShow = {} => completed = {}
         /\ \A r \in completed \ RunsToShow : /\ \A q \in RunsToShow : q > r
                                              /\ Cardinality(RunsToShow) = HistoryLimit
<1>1. completed \in SUBSET (1..Len(results)) /\ Len(results) \in Nat
  BY BoardIs
<1>2. HistoryLimit \in Nat \ {0}
  BY StatisticsAssumption
<1>3. /\ RunsToShow \subseteq completed
      /\ RunsToShow = {} => completed = {}
      /\ \A r \in completed \ RunsToShow : /\ \A q \in RunsToShow : q > r
                                           /\ Cardinality(RunsToShow) = HistoryLimit
  BY <1>1, <1>2, LastAreNewest DEF RunsToShow
<1>4. IsFiniteSet(1..Len(results)) /\ RunsToShow \subseteq 1..Len(results)
  BY <1>1, <1>3, FS_Interval
<1>5. IsFiniteSet(RunsToShow)
  BY <1>4, FS_Subset
<1> QED BY <1>3, <1>5

\* Once the points of all the runs to show are there they are the newest ones.
LEMMA AllPointsShown ==
  ASSUME BoardTypeOK, completed \subseteq Existing, NEW h, PointsSoFar(h, {})
  PROVE  ShowsNewest(h) /\ \A i \in DOMAIN h : RateOf(h[i])
<1> DEFINE shown == {h[i].run : i \in DOMAIN h}
<1>1. /\ shown = RunsToShow
      /\ \A i, j \in DOMAIN h : i < j => h[i].run < h[j].run
      /\ \A i \in DOMAIN h : RateOf(h[i])
      /\ Len(h) + Cardinality({}) = Cardinality(RunsToShow) /\ h \in Seq(Points)
  BY DEF PointsSoFar
<1>2. Len(h) \in Nat /\ Cardinality({}) = 0
  BY <1>1, FS_EmptySet
<1>3. Len(h) = Cardinality(RunsToShow)
  BY <1>1, <1>2
<1>4. /\ shown \subseteq completed
      /\ \A r \in completed \ shown : Len(h) = HistoryLimit /\ \A q \in shown : q > r
  BY <1>1, <1>3, NewestAre
<1> QED BY <1>1, <1>4 DEF ShowsNewest

LEMMA PointAdded ==
  ASSUME BoardTypeOK, completed \subseteq Existing, NEW h, NEW t, t # {}, PointsSoFar(h, t),
         NEW x \in Points, x.run = Min(t), RateOf(x)
  PROVE  PointsSoFar(Append(h, x), t \ {Min(t)})
<1> DEFINE r == Min(t)
           g == Append(h, x)
           u == t \ {r}
<1>1. t \subseteq RunsToShow /\ \A k \in RunsToShow : k \in Nat /\ k \in Existing
  BY NewestAre, BoardIs DEF PointsSoFar
<1>2. r \in t /\ \A k \in t : r <= k
  BY <1>1, MinIsLeast
<1>3. IsFiniteSet(t)
  BY <1>1, NewestAre, FS_Subset
<1>4. Cardinality(u) = Cardinality(t) - 1 /\ Cardinality(t) \in Nat /\ IsFiniteSet(u)
  BY <1>2, <1>3, FS_RemoveElement, FS_CardinalityType
<1>5. /\ h \in Seq(Points) /\ DOMAIN h = 1..Len(h) /\ Len(h) \in Nat
      /\ \A i \in DOMAIN h : h[i] \in Points
      /\ {h[i].run : i \in DOMAIN h} = RunsToShow \ t
      /\ \A i \in DOMAIN h : (\A k \in t : h[i].run < k) /\ RateOf(h[i])
      /\ \A i, j \in DOMAIN h : i < j => h[i].run < h[j].run
      /\ Len(h) + Cardinality(t) = Cardinality(RunsToShow)
  BY DEF PointsSoFar
<1>6. /\ g \in Seq(Points) /\ Len(g) = Len(h) + 1
      /\ \A i \in DOMAIN h : g[i] = h[i]
      /\ g[Len(h) + 1] = x
  <2> HIDE DEF Points
  <2> QED BY <1>5, AppendProperties
<1>7. DOMAIN g = DOMAIN h \cup {Len(h) + 1} /\ \A i \in DOMAIN h : i < Len(h) + 1
  BY <1>5, <1>6
<1> DEFINE n == Len(h) + 1
<1>8. x.run = r
  OBVIOUS
<1> HIDE DEF g, u, r, n
<1>9. {g[i].run : i \in DOMAIN g} = RunsToShow \ u
  <2>1. {g[i].run : i \in DOMAIN g} = {h[i].run : i \in DOMAIN h} \cup {r}
    BY <1>6, <1>7, <1>8 DEF n
  <2>2. RunsToShow \ u = (RunsToShow \ t) \cup {r}
    BY <1>1, <1>2 DEF u
  <2> QED BY <1>5, <2>1, <2>2
<1>10. ASSUME NEW i \in DOMAIN g
       PROVE  (\A k \in u : g[i].run < k) /\ RateOf(g[i])
  <2>1. CASE i \in DOMAIN h
    BY <1>5, <1>6, <2>1 DEF u
  <2>2. CASE i \notin DOMAIN h
    <3>1. g[i] = x
      BY <1>6, <1>7, <2>2
    <3>2. \A k \in u : r < k
      BY <1>1, <1>2 DEF u
    <3> QED BY <1>8, <3>1, <3>2
  <2> QED BY <2>1, <2>2
<1>11. ASSUME NEW i \in DOMAIN g, NEW j \in DOMAIN g, i < j
       PROVE  g[i].run < g[j].run
  <2>1. i \in DOMAIN h
    BY <1>5, <1>7, <1>11
  <2>2. CASE j \in DOMAIN h
    BY <1>5, <1>6, <1>11, <2>1, <2>2
  <2>3. CASE j \notin DOMAIN h
    <3>1. g[j] = x
      BY <1>6, <1>7, <2>3
    <3> QED BY <1>2, <1>5, <1>6, <1>8, <2>1, <3>1
  <2> QED BY <2>2, <2>3
<1>12. Len(g) + Cardinality(u) = Cardinality(RunsToShow)
  BY <1>4, <1>5, <1>6
<1>13. u \subseteq RunsToShow
  BY <1>1 DEF u
<1>14. PointsSoFar(g, u)
  BY <1>6, <1>9, <1>10, <1>11, <1>12, <1>13 DEF PointsSoFar
<1> QED BY <1>14 DEF g, u, r


LEMMA AskedIs ==
  ASSUME asked \in Kinds, place \in SelectsOf(asked.kind)
  PROVE  /\ asked.kind \in {"stats", "analytics", "flaky", "export"}
         /\ place \in {"cases", "runs", "last", "rows"} => asked.kind = "stats"
         /\ place \in {"history", "points", "coverage", "active"} => asked.kind = "analytics"
         /\ place \in {"list", "each"} => asked.kind \in {"flaky", "export"}
BY StatisticsAssumption DEF SelectsOf

\* project_stats
LEMMA StatsGoRight ==
  ASSUME BoardTypeOK, asked \in Kinds, place \in SelectsOf(asked.kind),
         SoFar(place, figures, todo, degraded),
         CountCases \/ CountRuns \/ FindLastRun \/ CountRows
  PROVE  GoesRight
<1>1. /\ asked.kind = "stats" /\ completed \subseteq Existing /\ HasFigures(figures)
      /\ degraded' = degraded /\ todo' = todo
  BY AskedIs DEF SoFar, Reads, CountCases, CountRuns, FindLastRun, CountRows
<1>2. CASE CountCases
  <2>1. place' = "runs" /\ figures' = [figures EXCEPT !.cases = Cardinality(LiveCases)]
    BY <1>2 DEF CountCases, Reads
  <2>2. HasFigures(figures') /\ figures'.cases = Cardinality(LiveCases)
    BY <1>1, <2>1 DEF HasFigures
  <2> QED BY <1>1, <2>1, <2>2 DEF GoesRight, SoFar, SelectsOf
<1>3. CASE CountRuns
  <2>1. place = "runs" /\ place' = "last" /\ figures' = [figures EXCEPT !.runs = Len(results)]
    BY <1>3 DEF CountRuns, Reads
  <2>2. HasFigures(figures') /\ figures'.cases = figures.cases /\ figures'.runs = Len(results)
    BY <1>1, <2>1 DEF HasFigures
  <2> QED BY <1>1, <2>1, <2>2, TablesAre DEF GoesRight, SoFar, SelectsOf
<1>4. CASE FindLastRun
  <2>1. /\ place = "last" /\ place' = (IF LastRun = NoRun THEN "done" ELSE "rows")
        /\ figures' = [figures EXCEPT !.last = LastRun]
    BY <1>4 DEF FindLastRun, Reads
  <2>2. /\ HasFigures(figures') /\ figures'.cases = figures.cases
        /\ figures'.runs = figures.runs /\ figures'.last = Len(results)
    BY <1>1, <2>1 DEF HasFigures, LastRun
  <2>3. figures.cases = Cardinality(LiveCases) /\ figures.runs = Cardinality(Existing)
    BY <2>1 DEF SoFar
  <2>4. results = <<>> <=> LastRun = NoRun
    BY BoardIs DEF LastRun, NoRun
  <2>5. CASE LastRun = NoRun
    BY <1>1, <2>1, <2>2, <2>3, <2>4, <2>5 DEF GoesRight, Correct, SelectsOf
  <2>6. CASE LastRun # NoRun
    BY <1>1, <2>1, <2>2, <2>3, <2>4, <2>6 DEF GoesRight, SoFar, SelectsOf
  <2> QED BY <2>5, <2>6
<1>5. CASE CountRows
  <2>1. /\ place = "rows" /\ place' = "done"
        /\ figures' = [figures EXCEPT !.counts = Now(figures.last)]
    BY <1>5 DEF CountRows, Reads
  <2>2. /\ figures'.cases = figures.cases /\ figures'.runs = figures.runs
        /\ figures'.last = figures.last /\ figures'.counts = Now(figures.last)
    BY <1>1, <2>1 DEF HasFigures
  <2>3. /\ figures.cases = Cardinality(LiveCases) /\ figures.runs = Cardinality(Existing)
        /\ results # <<>> /\ figures.last = Len(results)
    BY <2>1 DEF SoFar
  <2>4. figures.last \in Existing /\ \A r \in Existing : r <= figures.last
    BY <2>3, BoardIs
  <2>5. Total(Now(figures.last)) = Cardinality(Rows(figures.last))
    BY <2>4, RowsCounted
  <2> QED BY <1>1, <2>1, <2>2, <2>3, <2>4, <2>5 DEF GoesRight, Correct, SelectsOf
<1> QED BY <1>2, <1>3, <1>4, <1>5

\* project_analytics
LEMMA AnalyticsGoRight ==
  ASSUME BoardTypeOK, asked \in Kinds, place \in SelectsOf(asked.kind),
         SoFar(place, figures, todo, degraded),
         ListHistory \/ ReadPoint \/ CountCoverage \/ CountActive
  PROVE  GoesRight
<1>1. /\ asked.kind = "analytics" /\ completed \subseteq Existing /\ HasFigures(figures)
      /\ degraded' = degraded
  BY AskedIs DEF SoFar, Reads, ListHistory, ReadPoint, CountCoverage, CountActive
<1>2. CASE ListHistory
  <2>1. /\ place = "history" /\ place' = (IF RunsToShow = {} THEN "coverage" ELSE "points")
        /\ figures' = figures /\ todo' = RunsToShow
    BY <1>2 DEF ListHistory, Reads
  <2>2. figures.history = <<>>
    BY <2>1 DEF SoFar
  <2>3. PointsSoFar(<<>>, RunsToShow)
    <3>1. <<>> \in Seq(Points) /\ DOMAIN <<>> = {} /\ Len(<<>>) = 0
      BY EmptySeq
    <3>2. Cardinality(RunsToShow) \in Nat
      BY <1>1, NewestAre, FS_CardinalityType
    <3> QED BY <3>1, <3>2 DEF PointsSoFar
  <2> QED BY <1>1, <2>1, <2>2, <2>3 DEF GoesRight, SoFar, SelectsOf
<1>3. CASE ReadPoint
  <2> DEFINE r == Min(todo)
             point == [run |-> r, counts |-> Now(r), total |-> Total(Now(r)),
                       rate |-> PassRate(Now(r)["pass"], Total(Now(r)))]
  <2>1. /\ place = "points" /\ place' = (IF todo = {r} THEN "coverage" ELSE "points")
        /\ figures' = [figures EXCEPT !.history = Append(@, point)]
        /\ todo' = todo \ {r}
    BY <1>3 DEF ReadPoint, Reads
  <2>2. todo # {} /\ PointsSoFar(figures.history, todo)
    BY <2>1 DEF SoFar
  <2>3. r \in todo /\ r \in Existing
    <3>1. todo \subseteq Existing /\ Existing \subseteq Nat
      BY <1>1, <2>2, NewestAre, BoardIs DEF PointsSoFar
    <3> QED BY <2>2, <3>1, MinIsLeast
  <2>4. point \in Points /\ RateOf(point)
    <3> HIDE DEF r
    <3> QED BY <2>3, PointIs
  <2>5. point.run = Min(todo)
    OBVIOUS
  <2> HIDE DEF point
  <2>6. PointsSoFar(Append(figures.history, point), todo \ {Min(todo)})
    BY <1>1, <2>2, <2>4, <2>5, PointAdded
  <2>7. HasFigures(figures') /\ figures'.history = Append(figures.history, point)
    BY <1>1, <2>1 DEF HasFigures
  <2>8. todo = {r} <=> todo' = {}
    BY <2>1, <2>3
  <2> HIDE DEF r
  <2> QED BY <1>1, <2>1, <2>6, <2>7, <2>8 DEF GoesRight, SoFar, SelectsOf, r
<1>4. CASE CountCoverage
  <2>1. /\ place = "coverage" /\ place' = "active" /\ todo' = todo
        /\ figures' = [figures EXCEPT !.cases = Cardinality(LiveCases)]
    BY <1>4 DEF CountCoverage, Reads
  <2>2. /\ HasFigures(figures') /\ figures'.cases = Cardinality(LiveCases)
        /\ figures'.history = figures.history
    BY <1>1, <2>1 DEF HasFigures
  <2> QED BY <1>1, <2>1, <2>2 DEF GoesRight, SoFar, SelectsOf
<1>5. CASE CountActive
  <2> DEFINE actives == {c \in Cases : cases[c] = "active"}
  <2>1. /\ place = "active" /\ place' = "done"
        /\ figures' = [figures EXCEPT !.active = Cardinality(actives)]
    BY <1>5 DEF CountActive, Reads
  <2>2. /\ figures'.active = Cardinality(actives) /\ figures'.cases = figures.cases
        /\ figures'.history = figures.history
    BY <1>1, <2>1 DEF HasFigures
  <2>3. figures.cases = Cardinality(LiveCases)
    BY <2>1 DEF SoFar
  <2>4. actives \subseteq LiveCases
    BY DEF LiveCases
  <2>5. Cardinality(actives) <= Cardinality(LiveCases)
    BY <2>4, TablesAre, FS_Subset
  <2>6. ~degraded => ShowsNewest(figures.history) /\
                     \A i \in DOMAIN figures.history : RateOf(figures.history[i])
    BY <1>1, <2>1, AllPointsShown DEF SoFar
  <2> HIDE DEF actives
  <2> QED BY <1>1, <2>1, <2>2, <2>3, <2>5, <2>6 DEF GoesRight, Correct, SelectsOf
<1> QED BY <1>2, <1>3, <1>4, <1>5

\* The runs service does not answer.
LEMMA WithoutRunsGoesRight ==
  ASSUME BoardTypeOK, asked \in Kinds, place \in SelectsOf(asked.kind),
         SoFar(place, figures, todo, degraded), RetryCall \/ Degrade
  PROVE  GoesRight
<1>1. /\ asked.kind \in {"stats", "analytics"} /\ completed \subseteq Existing
      /\ asked.kind = "stats" => figures.cases = Cardinality(LiveCases)
      /\ figures' = WithoutRuns
  BY AskedIs DEF SoFar, RetryCall, Degrade, Remote
<1>2. /\ HasFigures(figures') /\ figures'.cases = figures.cases /\ figures'.history = <<>>
  BY <1>1 DEF WithoutRuns, NoFigures, HasFigures
<1>3. CASE RetryCall
  <2>1. place' = IF asked.kind = "stats" THEN "runs" ELSE "history"
    BY <1>3 DEF RetryCall
  <2> QED BY <1>1, <1>2, <2>1 DEF GoesRight, SoFar, SelectsOf
<1>4. CASE Degrade
  <2>1. degraded' = TRUE /\ place' = IF asked.kind = "stats" THEN "done" ELSE "coverage"
    BY <1>4 DEF Degrade
  <2> QED BY <1>1, <1>2, <2>1 DEF GoesRight, SoFar, Correct, SelectsOf
<1> QED BY <1>3, <1>4

\* flaky_tests and export_suite_csv
LEMMA CasesGoRight ==
  ASSUME BoardTypeOK, asked \in Kinds, place \in SelectsOf(asked.kind),
         SoFar(place, figures, todo, degraded), ListCases \/ ReadCase
  PROVE  GoesRight
<1>1. /\ asked.kind \in {"flaky", "export"} /\ completed \subseteq Existing
      /\ HasFigures(figures) /\ degraded' = degraded
  BY AskedIs DEF SoFar, Reads, ListCases, ReadCase
<1>2. CASE ListCases
  <2>1. /\ place = "list" /\ place' = (IF LiveCases = {} THEN "done" ELSE "each")
        /\ figures' = figures /\ todo' = LiveCases
    BY <1>2 DEF ListCases, Reads
  <2>2. figures.flaky = {} /\ figures.latest = {}
    BY <2>1 DEF SoFar
  <2>3. FlakyIn({}, LiveCases \ LiveCases) /\ LatestOf({}, LiveCases \ LiveCases)
    BY DEF FlakyIn, LatestOf
  <2>4. CASE LiveCases = {}
    BY <1>1, <2>1, <2>2, <2>4 DEF GoesRight, Correct, SelectsOf
  <2>5. CASE LiveCases # {}
    BY <1>1, <2>1, <2>2, <2>3, <2>5 DEF GoesRight, SoFar, SelectsOf
  <2> QED BY <2>4, <2>5
<1>3. CASE ReadCase
  <2>1. PICK c \in todo :
          /\ place = "each" /\ place' = (IF todo = {c} THEN "done" ELSE "each")
          /\ figures' = IF asked.kind = "flaky"
               THEN IF Flips(History(c)) >= 2
                    THEN [figures EXCEPT !.flaky = @ \cup
                            {<<c, Flips(History(c)), Cardinality(DOMAIN History(c))>>}]
                    ELSE figures
               ELSE [figures EXCEPT !.latest = @ \cup {Latest(c)}]
          /\ todo' = todo \ {c}
    BY <1>3 DEF ReadCase, Reads
  <2>2. /\ todo \subseteq LiveCases /\ c \in Cases /\ c \in LiveCases
        /\ asked.kind = "flaky" => FlakyIn(figures.flaky, LiveCases \ todo)
        /\ asked.kind = "export" => LatestOf(figures.latest, LiveCases \ todo)
    BY <2>1, TablesAre DEF SoFar
  <2>3. LiveCases \ todo' = (LiveCases \ todo) \cup {c}
    BY <2>1, <2>2
  <2>4. asked.kind = "flaky" => FlakyIn(figures'.flaky, LiveCases \ todo')
    <3> SUFFICES ASSUME asked.kind = "flaky"
                 PROVE  FlakyIn(figures'.flaky, LiveCases \ todo')
      OBVIOUS
    <3> DEFINE x == <<c, Flips(History(c)), Cardinality(DOMAIN History(c))>>
    <3>0. x[1] = c
      OBVIOUS
    <3>1. Flips(History(c)) >= 2 <=> Swings(c)
      BY <2>2, FlakyIsSwings
    <3> HIDE DEF x
    <3>2. CASE Flips(History(c)) >= 2
      <4>1. figures'.flaky = figures.flaky \cup {x}
        BY <1>1, <2>1, <3>2 DEF HasFigures, x
      <4>2. {y[1] : y \in figures.flaky \cup {x}} = {y[1] : y \in figures.flaky} \cup {c}
        BY <3>0
      <4> QED BY <2>2, <2>3, <3>1, <3>2, <4>1, <4>2 DEF FlakyIn
    <3>3. CASE ~(Flips(History(c)) >= 2)
      <4>1. figures' = figures
        BY <2>1, <3>3
      <4> QED BY <2>2, <2>3, <3>1, <3>3, <4>1 DEF FlakyIn
    <3> QED BY <3>2, <3>3
  <2>5. asked.kind = "export" => LatestOf(figures'.latest, LiveCases \ todo')
    <3> SUFFICES ASSUME asked.kind = "export"
                 PROVE  LatestOf(figures'.latest, LiveCases \ todo')
      OBVIOUS
    <3>1. Latest(c)[1] = c /\ IsLatest(Latest(c))
      BY <2>2, LatestIsLatest
    <3>2. figures'.latest = figures.latest \cup {Latest(c)}
      BY <1>1, <2>1 DEF HasFigures
    <3>3. {y[1] : y \in figures.latest \cup {Latest(c)}} = {y[1] : y \in figures.latest} \cup {c}
      BY <3>1
    <3> QED BY <2>2, <2>3, <3>1, <3>2, <3>3 DEF LatestOf
  <2>6. HasFigures(figures')
    BY <1>1, <2>1 DEF HasFigures
  <2>7. CASE todo = {c}
    <3>1. todo' = {} /\ place' = "done" /\ LiveCases \ todo' = LiveCases
      BY <2>1, <2>7
    <3> QED BY <1>1, <2>4, <2>5, <2>6, <3>1
            DEF GoesRight, Correct, SelectsOf, FlakyIn, LatestOf, IsLatest
  <2>8. CASE todo # {c}
    <3>1. todo' # {} /\ place' = "each" /\ todo' \subseteq LiveCases
      BY <2>1, <2>2, <2>8
    <3> QED BY <1>1, <2>4, <2>5, <2>6, <3>1 DEF GoesRight, SoFar, SelectsOf
  <2> QED BY <2>7, <2>8
<1> QED BY <1>2, <1>3


\* A request goes on from the same tables as long as nobody writes.
LEMMA SoFarKept ==
  ASSUME UNCHANGED <<board, asked>>, SoFar(place', figures', todo', degraded')
  PROVE  SoFar(place, figures, todo, degraded)'
<1>1. cases' = cases /\ results' = results /\ completed' = completed /\ asked' = asked
  BY DEF board, tables
<1>2. Existing' = Existing /\ LiveCases' = LiveCases /\ RunsToShow' = RunsToShow
  BY <1>1 DEF Existing, LiveCases, RunsToShow
<1>3. \A i : RateOf(figures'.history[i]) => RateOf(figures.history[i])'
  BY <1>1 DEF RateOf, Status, Rows
<1>4. PointsSoFar(figures'.history, todo') => PointsSoFar(figures.history, todo)'
  BY <1>2, <1>3 DEF PointsSoFar
<1>5. PointsSoFar(figures'.history, {}) => PointsSoFar(figures.history, {})'
  BY <1>2, <1>3 DEF PointsSoFar
<1>6. FlakyIn(figures'.flaky, LiveCases \ todo') => FlakyIn(figures.flaky, LiveCases \ todo)'
  <2>1. \A c : Swings(c)' <=> Swings(c)
    BY <1>1, <1>2 DEF Swings, Status
  <2> QED BY <1>2, <2>1 DEF FlakyIn
<1>7. LatestOf(figures'.latest, LiveCases \ todo') => LatestOf(figures.latest, LiveCases \ todo)'
  <2>1. \A x : IsLatest(x) <=> IsLatest(x)'
    BY <1>1, <1>2 DEF IsLatest, Status, Rows
  <2> QED BY <1>2, <2>1 DEF LatestOf
<1>8. HasFigures(figures') => HasFigures(figures)'
  BY DEF HasFigures
<1>9. (results # <<>>)' <=> results # <<>>
  BY <1>1
<1> QED BY <1>1, <1>2, <1>4, <1>5, <1>6, <1>7, <1>8, <1>9 DEF SoFar

LEMMA CountingStep ==
  ASSUME BoardTypeOK, CountingInv, StatisticsNext
  PROVE  /\ UNCHANGED <<board, asked, disturbed>> /\ place \notin {"idle", "done"}
         /\ asked \in Kinds /\ place' \in SelectsOf(asked.kind)
         /\ ~disturbed => GoesRight
<1>1. UNCHANGED <<board, asked, disturbed>> /\ place \notin {"idle", "done"}
  BY DEF StatisticsNext, CountCases, CountRuns, FindLastRun, CountRows, ListHistory, ReadPoint,
    CountCoverage, CountActive, RetryCall, Degrade, ListCases, ReadCase, Reads, Remote
<1>2. asked \in Kinds /\ place \in SelectsOf(asked.kind)
  BY <1>1 DEF CountingInv
<1>3. ~disturbed => SoFar(place, figures, todo, degraded)
  BY <1>1 DEF CountingInv
<1>4. ~disturbed => GoesRight
  BY <1>2, <1>3, StatsGoRight, AnalyticsGoRight, WithoutRunsGoesRight, CasesGoRight
  DEF StatisticsNext
<1>5. place' \in SelectsOf(asked.kind)
  BY <1>2, AskedIs DEF SelectsOf, StatisticsNext, CountCases, CountRuns, FindLastRun, CountRows,
    ListHistory, ReadPoint, CountCoverage, CountActive, RetryCall, Degrade, ListCases, ReadCase,
    Reads, Remote
<1> QED BY <1>1, <1>2, <1>4, <1>5

LEMMA CountingInvInit == ReadersInit => CountingInv
<1> SUFFICES ASSUME ReadersInit PROVE CountingInv
  OBVIOUS
<1>1. CASE CountingIdle
  BY <1>1 DEF CountingIdle, CountingInv
<1>2. CASE BoardInit(CountBoards) /\ CountingInit /\ GraphIdle
  <2>1. PICK b \in CountBoards : results = b.results /\ completed = b.completed
    BY <1>2 DEF BoardInit
  <2>2. b \in Boards
    BY <2>1, ReadersAssumption
  <2>3. completed \subseteq Existing
    BY <2>1, <2>2 DEF Boards, Existing
  <2>4. /\ asked \in Kinds /\ place = FirstSelect /\ figures = NoFigures /\ todo = {}
        /\ step = "idle"
    BY <1>2 DEF CountingInit, GraphIdle
  <2>5. /\ HasFigures(figures) /\ figures.history = <<>>
        /\ figures.flaky = {} /\ figures.latest = {}
    BY <2>4 DEF NoFigures, HasFigures
  <2>6. place \in {"cases", "history", "list"} /\ place \in SelectsOf(asked.kind)
    BY <2>4 DEF FirstSelect, SelectsOf
  <2>7. SoFar(place, figures, todo, degraded)
    BY <2>3, <2>5, <2>6 DEF SoFar
  <2> QED BY <2>4, <2>6, <2>7 DEF CountingInv
<1> QED BY <1>1, <1>2 DEF ReadersInit

LEMMA CountingInvStep == CountingInv /\ BoardTypeOK /\ [ReadersNext]_readersVars => CountingInv'
<1> SUFFICES ASSUME CountingInv, BoardTypeOK, [ReadersNext]_readersVars PROVE CountingInv'
  OBVIOUS
<1>1. CASE StatisticsNext /\ UNCHANGED graph
  <2>1. /\ UNCHANGED <<board, asked, disturbed>> /\ place \notin {"idle", "done"}
        /\ asked \in Kinds /\ place' \in SelectsOf(asked.kind)
        /\ ~disturbed => GoesRight
    BY <1>1, CountingStep
  <2>2. step' = "idle"
    BY <1>1, <2>1 DEF CountingInv, graph
  <2>3. ~disturbed /\ place' # "done" => SoFar(place, figures, todo, degraded)'
    BY <2>1, SoFarKept DEF GoesRight
  <2>4. place' \in SelectsOf(asked'.kind)
    BY <2>1
  <2> QED BY <2>1, <2>2, <2>3, <2>4 DEF CountingInv
<1>2. CASE GraphNext /\ UNCHANGED counting
  <2>1. step # "idle"
    BY <1>2 DEF GraphNext, ResolveCreateCase, ResolveCreateRun, ResolveDeleteCase, ReadForUpdate,
      RefreshUpdated, SelectRows, RefreshRow, ResolveQuery, UpdateFails, FieldNotFound,
      SelectCases, CaseIsGone, SelectRuns, ReadSummary, ReadResults, SelectTitles, NextField,
      FieldFails, Start, CommitUpdate
  <2>2. place = "idle"
    BY <2>1 DEF CountingInv
  <2>3. place' = "idle"
    BY <1>2, <2>2 DEF counting
  <2> QED BY <2>3 DEF CountingInv
<1>3. CASE Others
  <2>1. /\ UNCHANGED <<asked, place, attempt, todo, figures, degraded>> /\ step' = step
        /\ place \notin {"idle", "done"} => disturbed'
    BY <1>3 DEF Others, StatisticsWitness, GraphWitness
  <2> QED BY <2>1 DEF CountingInv, SelectsOf
<1>4. CASE UNCHANGED readersVars
  <2>1. /\ UNCHANGED <<board, asked, disturbed>> /\ place' = place /\ figures' = figures
        /\ todo' = todo /\ degraded' = degraded /\ step' = step
    BY <1>4 DEF readersVars, counting, graph
  <2>2. SoFar(place, figures, todo, degraded) => SoFar(place, figures, todo, degraded)'
    BY <2>1, SoFarKept
  <2> QED BY <2>1, <2>2 DEF CountingInv, SelectsOf
<1> QED BY <1>1, <1>2, <1>3, <1>4 DEF ReadersNext

\* An answer that no write of another request overlapped is right, by what it claims
\* of the tables when it is given: flaky cases, history, last run, counts and pass
\* rates (project_stats, project_analytics, flaky_tests and export_suite_csv of
\* api/main.py; services/projects with get_with_retry).
THEOREM QuietAnswersHold == ReadersSpec => QuietAnswersAreRight
<1>1. BoardTypeOK /\ CountingInv /\ [ReadersNext]_readersVars =>
        [place # "done" /\ place' = "done" /\ ~disturbed
           => Correct(figures', degraded')]_<<board, counting>>
  <2> SUFFICES ASSUME BoardTypeOK, CountingInv, [ReadersNext]_readersVars,
                      place # "done", place' = "done", ~disturbed
               PROVE  Correct(figures', degraded')
    OBVIOUS
  <2>1. StatisticsNext
    BY DEF ReadersNext, readersVars, counting, Others, StatisticsWitness
  <2> QED BY <2>1, CountingStep DEF GoesRight
<1>2. GraphInv => BoardTypeOK
  BY DEF GraphInv
<1> QED BY <1>1, <1>2, CountingInvInit, CountingInvStep, GraphInvariant, PTL
        DEF ReadersSpec, QuietAnswersAreRight

=============================================================================
