----------------------------- MODULE LiveFanout -----------------------------
(***************************************************************************)
(* How the messages of one run reach the browsers that have it open, in    *)
(* the services edition: broadcast_result_update and ConnectionManager of  *)
(* services/runs/main.py, publish_ws_broadcast and                         *)
(* listen_for_ws_broadcasts of services/runs/events.py.                    *)
(*                                                                         *)
(* Every runs replica subscribes to the Redis channel runs.ws_broadcast    *)
(* and passes what it receives on to the sockets in its own room of the    *)
(* run.  Redis keeps nothing for a subscriber that is not connected.  When *)
(* the PUBLISH raises, the replica that handled the request broadcasts to  *)
(* its own room.  A broadcast awaits each send, so sockets join and leave  *)
(* between two of its sends; a set that changed size makes the loop raise. *)
(*                                                                         *)
(* Messages are numbered in the order of their publication.                *)
(***************************************************************************)
EXTENDS Naturals, Sequences, FiniteSets

CONSTANTS
  Replicas,    \* of services/runs
  Sockets,     \* browsers' connections, each made once
  Home,        \* the replica each connection is routed to
  MaxMessages, \* bound: messages published
  MaxFaults    \* bound: failed publications and lost Redis connections

ASSUME FanoutAssumption ==
  Home \in [Sockets -> Replicas] /\ MaxMessages \in Nat /\ MaxFaults \in Nat

Messages == 1..MaxMessages

VARIABLES
  published,  \* how many messages were published
  subscribed, \* replicas whose subscriber loop is connected
  queue,      \* what Redis has sent each replica and its loop has not taken
  socket,     \* where the life of each connection is
  room,       \* _rooms[run] of each replica
  joined,     \* how many messages were published before each socket joined
  broadcasts, \* the broadcast coroutines under way
  got,        \* what each socket was sent
  repeated,   \* history: messages Redis passed on though their PUBLISH raised
  local,      \* history: <<replica, message>> broadcast without Redis
  missed,     \* history: <<replica, message>> not received from Redis
  aborted,    \* history: <<replica, message>> whose broadcast raised
  faults      \* faults spent so far

redis == <<published, subscribed, queue, missed>>
rooms == <<socket, room, joined>>
history == <<repeated, local, aborted>>
vars == <<redis, rooms, broadcasts, got, history, faults>>

SocketStates == {"new", "open", "left", "closed"}
Via == {"redis", "local"}

Gone == {s \in Sockets : socket[s] \in {"left", "closed"}}

Fault == faults < MaxFaults /\ faults' = faults + 1

Init ==
  /\ published = 0
  /\ subscribed = Replicas
  /\ queue = [r \in Replicas |-> <<>>]
  /\ socket = [s \in Sockets |-> "new"]
  /\ room = [r \in Replicas |-> {}]
  /\ joined = [s \in Sockets |-> 0]
  /\ broadcasts = {}
  /\ got = [s \in Sockets |-> <<>>]
  /\ repeated = {}
  /\ local = {}
  /\ missed = {}
  /\ aborted = {}
  /\ faults = 0

----------------------------------------------------------------------------
(* ConnectionManager *)

\* run_websocket, past its checks.
Join(s) ==
  /\ socket[s] = "new"
  /\ socket' = [socket EXCEPT ![s] = "open"]
  /\ room' = [room EXCEPT ![Home[s]] = @ \cup {s}]
  /\ joined' = [joined EXCEPT ![s] = published]
  /\ UNCHANGED <<redis, broadcasts, got, history, faults>>

\* The browser leaves; its socket is still in the room.
Leave(s) ==
  /\ socket[s] = "open"
  /\ socket' = [socket EXCEPT ![s] = "left"]
  /\ UNCHANGED <<redis, room, joined, broadcasts, got, history, faults>>

\* Variant: the whole room is dropped with its first leaver.
DisconnectRoom(s) ==
  /\ socket[s] = "left"
  /\ socket' = [socket EXCEPT ![s] = "closed"]
  /\ room' = [room EXCEPT ![Home[s]] = {}]
  /\ broadcasts' =
       {IF b.replica = Home[s] THEN [b EXCEPT !.popped = TRUE] ELSE b : b \in broadcasts}
  /\ UNCHANGED <<redis, joined, got, history, faults>>

\* WebSocketDisconnect reaches run_websocket, which calls disconnect.  A room
\* left empty is popped: a loop still over it is over a set nobody joins again.
Disconnect(s) ==
  /\ socket[s] = "left"
  /\ socket' = [socket EXCEPT ![s] = "closed"]
  /\ room' = [room EXCEPT ![Home[s]] = @ \ {s}]
  /\ broadcasts' =
       IF room[Home[s]] \subseteq {s}
       THEN {IF b.replica = Home[s] THEN [b EXCEPT !.popped = TRUE] ELSE b :
               b \in broadcasts}
       ELSE broadcasts
  /\ UNCHANGED <<redis, joined, got, history, faults>>

\* One turn of the loop b: the send to s succeeds, or s is found dead.
Send(others, b, s) ==
  LET dead == IF s \in Gone THEN {s} ELSE {}
  IN  /\ broadcasts' =
           others \cup {[b EXCEPT !.sent = @ \cup {s}, !.dead = @ \cup dead]}
      /\ got' = IF s \in Gone THEN got
                ELSE [got EXCEPT ![s] = Append(@, b.message)]

\* broadcast, up to its first await; over an empty room it is done at once.
Begin(r, m, via) ==
  IF room[r] = {}
  THEN UNCHANGED <<broadcasts, got>>
  ELSE \E s \in room[r] :
         Send(broadcasts,
              [replica |-> r, message |-> m, via |-> via, members |-> room[r],
               popped |-> FALSE, sent |-> {}, dead |-> {}], s)

\* The set still has the size the loop over it began with.
Intact(b) ==
  /\ ~b.popped
  /\ Cardinality(room[b.replica]) = Cardinality(b.members)

SendNext(b) ==
  /\ Intact(b)
  /\ \E s \in room[b.replica] \ b.sent : Send(broadcasts \ {b}, b, s)
  /\ UNCHANGED <<redis, rooms, history, faults>>

\* The loop ends and the dead sockets are discarded.  The loop may pass by a
\* socket that took the place of one that left.
Finish(b) ==
  /\ Intact(b)
  /\ room[b.replica] \cap b.members \subseteq b.sent
  /\ room' = [room EXCEPT ![b.replica] = @ \ b.dead]
  /\ broadcasts' = broadcasts \ {b}
  /\ UNCHANGED <<redis, socket, joined, got, history, faults>>

\* RuntimeError: Set changed size during iteration.
Abort(b) ==
  /\ ~Intact(b)
  /\ broadcasts' = broadcasts \ {b}
  /\ aborted' = aborted \cup {<<b.replica, b.message>>}
  /\ UNCHANGED <<redis, rooms, got, repeated, local, faults>>

----------------------------------------------------------------------------
(* events.py *)

Message == published + 1

\* Redis passes the message to the subscribers it has.
ToSubscribers ==
  /\ published < MaxMessages
  /\ published' = Message
  /\ queue' = [r \in Replicas |-> IF r \in subscribed THEN Append(queue[r], Message)
                                                      ELSE queue[r]]
  /\ missed' = missed \cup {<<r, Message>> : r \in Replicas \ subscribed}
  /\ UNCHANGED subscribed

Publish ==
  /\ ToSubscribers
  /\ UNCHANGED <<rooms, broadcasts, got, history, faults>>

\* publish_ws_broadcast returns False: Redis never saw the message.
PublishFails(r) ==
  /\ published < MaxMessages
  /\ Fault
  /\ published' = Message
  /\ missed' = missed \cup {<<q, Message>> : q \in Replicas}
  /\ Begin(r, Message, "local")
  /\ local' = local \cup {<<r, Message>>}
  /\ UNCHANGED <<subscribed, queue, rooms, repeated, aborted>>

\* It returns False although Redis passed the message on.
PublishReplyLost(r) ==
  /\ Fault
  /\ ToSubscribers
  /\ Begin(r, Message, "local")
  /\ local' = local \cup {<<r, Message>>}
  /\ repeated' = repeated \cup {Message}
  /\ UNCHANGED <<rooms, aborted>>

\* Variant: the loop starts a task for the message and takes the next one.
TakeAtOnce(r) ==
  /\ queue[r] # <<>>
  /\ Begin(r, Head(queue[r]), "redis")
  /\ queue' = [queue EXCEPT ![r] = Tail(@)]
  /\ UNCHANGED <<published, subscribed, missed, rooms, history, faults>>

\* Variant: the loop waits for somebody to have the run open.
TakeForSomebody(r) ==
  /\ queue[r] # <<>> /\ room[r] # {}
  /\ ~\E b \in broadcasts : b.replica = r /\ b.via = "redis"
  /\ Begin(r, Head(queue[r]), "redis")
  /\ queue' = [queue EXCEPT ![r] = Tail(@)]
  /\ UNCHANGED <<published, subscribed, missed, rooms, history, faults>>

\* The loop awaits on_message before it takes the next message.
Take(r) ==
  /\ queue[r] # <<>>
  /\ ~\E b \in broadcasts : b.replica = r /\ b.via = "redis"
  /\ Begin(r, Head(queue[r]), "redis")
  /\ queue' = [queue EXCEPT ![r] = Tail(@)]
  /\ UNCHANGED <<published, subscribed, missed, rooms, history, faults>>

\* The subscriber's connection drops with what it had not been read from it ...
LosesRedis(r) ==
  /\ r \in subscribed
  /\ Fault
  /\ subscribed' = subscribed \ {r}
  /\ missed' = missed \cup {<<r, queue[r][i]>> : i \in 1..Len(queue[r])}
  /\ queue' = [queue EXCEPT ![r] = <<>>]
  /\ UNCHANGED <<published, rooms, broadcasts, got, history>>

\* ... and is made again after RECONNECT_DELAY_SECONDS.
Resubscribe(r) ==
  /\ r \notin subscribed
  /\ subscribed' = subscribed \cup {r}
  /\ UNCHANGED <<published, queue, missed, rooms, broadcasts, got, history, faults>>

BroadcastStep == \E b \in broadcasts : SendNext(b) \/ Finish(b) \/ Abort(b)

Next ==
  \/ BroadcastStep
  \/ Publish
  \/ \E r \in Replicas :
       \/ PublishFails(r) \/ PublishReplyLost(r)
       \/ Take(r) \/ LosesRedis(r) \/ Resubscribe(r)
  \/ \E s \in Sockets : Join(s) \/ Leave(s) \/ Disconnect(s)

\* The event loop of a replica gets to every coroutine that can go on.
Fairness ==
  /\ WF_vars(BroadcastStep)
  /\ \A r \in Replicas : WF_vars(Take(r))

Spec == Init /\ [][Next]_vars /\ Fairness

----------------------------------------------------------------------------
(* What is checked *)

TypeOK ==
  /\ published \in 0..MaxMessages
  /\ subscribed \subseteq Replicas
  /\ queue \in [Replicas -> Seq(Messages)]
  /\ room \in [Replicas -> SUBSET Sockets]
  /\ socket \in [Sockets -> SocketStates]
  /\ joined \in [Sockets -> 0..MaxMessages]
  /\ broadcasts \subseteq
       [replica : Replicas, message : Messages, via : Via, popped : BOOLEAN,
        members : SUBSET Sockets, sent : SUBSET Sockets, dead : SUBSET Sockets]
  /\ got \in [Sockets -> Seq(Messages)]
  /\ repeated \subseteq Messages
  /\ {local, missed, aborted} \subseteq SUBSET (Replicas \X Messages)
  /\ faults \in 0..MaxFaults

OpenIn(r) == {s \in Sockets : Home[s] = r /\ socket[s] = "open"}

Times(s, m) == Cardinality({i \in 1..Len(got[s]) : got[s][i] = m})

\* A socket is sent a message at most once, or twice when Redis passed on a
\* message its publisher then broadcast by itself.
NeverTwice ==
  \A s \in Sockets, m \in Messages :
    Times(s, m) <= IF m \in repeated THEN 2 ELSE 1

\* The messages a socket is sent through Redis come in the order of their
\* publication.
InOrder ==
  \A s \in Sockets : \A i, j \in 1..Len(got[s]) :
    i < j => \/ got[s][i] <= got[s][j]
             \/ \E r \in Replicas : {<<r, got[s][i]>>, <<r, got[s][j]>>} \cap local # {}

\* What a socket is sent is the published updates in order and without repetition,
\* but for what its publisher broadcast by itself (listen_for_ws_broadcasts, which
\* awaits one broadcast before the next; publish_ws_broadcast).
OnceInOrder == NeverTwice /\ InOrder

\* The replica is through with the message.
Through(r, m) ==
  /\ m <= published
  /\ ~\E i \in 1..Len(queue[r]) : queue[r][i] = m
  /\ ~\E b \in broadcasts : b.replica = r /\ b.message = m

\* A socket that had joined when a message was published, and has not left, is
\* sent it, unless its replica missed it or the broadcast of it raised.
DeliveredOrNamed ==
  \A r \in Replicas, m \in Messages : \A s \in OpenIn(r) :
    Through(r, m) /\ joined[s] < m =>
      \/ Times(s, m) > 0
      \/ <<r, m>> \in missed /\ <<r, m>> \notin local
      \/ <<r, m>> \in aborted

\* Every broadcast of a message comes to its end.
EventuallyThrough ==
  \A r \in Replicas, m \in Messages : m <= published ~> Through(r, m)

============================================================================
