------------------------------- MODULE Rooms -------------------------------
(***************************************************************************)
(* The live updates of one run in the monolith: ConnectionManager of       *)
(* api/main.py, the /ws/runs/{id} endpoint, the broadcast of update_result *)
(* and the GraphQL subscription runUpdates.                                *)
(*                                                                         *)
(* A room is a Python set.  A broadcast iterates the set itself and lets   *)
(* the event loop go on at every send, so sockets join and leave meanwhile *)
(* and other updates broadcast; the iterator raises an error when the size *)
(* of the set is not what it was.  disconnect drops an empty set, and the  *)
(* next socket gets a new one, which a broadcast of before does not see.   *)
(* Fewer than five sockets ever join: the set is never rehashed.           *)
(***************************************************************************)
EXTENDS Sequences, FiniteSetsExt

CONSTANTS
  Sockets,     \* each connects once
  Subscribers, \* runUpdates subscriptions
  Updates,     \* PUTs of a result whose commit is done
  Gatherings   \* bound: which of the sockets and updates come together

ASSUME GatheringsAssumption == Gatherings \subseteq (SUBSET (Sockets \cup Updates)) \ {{}}

VARIABLES
  socket,    \* where the endpoint of each socket is
  broken,    \* sockets whose connection is lost or closed
  sets,      \* the sets made for the run, in order
  current,   \* _rooms[run_id]: a position in sets, or 0
  cast,      \* each update's broadcast
  listener,  \* each subscription: on, its queue and, history, how far in started
             \* it has come
  started,   \* history: the updates, in the order of their broadcasts
  waiting    \* history: who has been there all through each broadcast, unbroken,
             \* and was not sent it

roomVars == <<socket, broken, sets, current, cast, listener, started, waiting>>

Quiet == [at |-> "new", room |-> 0, size |-> 0, members |-> {}, tried |-> {}, dead |-> {}]

RoomsStart(here) ==
  /\ socket = [s \in Sockets |-> IF s \in here THEN "new" ELSE "none"]
  /\ broken = {}
  /\ sets = <<>>
  /\ current = 0
  /\ cast = [u \in Updates |-> [Quiet EXCEPT !.at = IF u \in here THEN "new" ELSE "none"]]
  /\ listener = [q \in Subscribers |-> [at |-> IF here # {} THEN "new" ELSE "none", queue |-> <<>>, upTo |-> 0]]
  /\ started = <<>>
  /\ waiting = [u \in Updates |-> {}]

RoomsInit == \E here \in Gatherings : RoomsStart(here)
RoomsNone == RoomsStart({})

----------------------------------------------------------------------------
(* Sockets *)

\* join, once admitted; the first message is not yet sent.
Join(s) ==
  /\ socket[s] = "new"
  /\ socket' = [socket EXCEPT ![s] = "joined"]
  /\ IF current = 0
     THEN sets' = Append(sets, {s}) /\ current' = Len(sets) + 1
     ELSE sets' = [sets EXCEPT ![current] = @ \cup {s}] /\ UNCHANGED current
  /\ UNCHANGED <<broken, cast, listener, started, waiting>>

Welcome(s) ==
  /\ socket[s] = "joined" /\ s \notin broken
  /\ socket' = [socket EXCEPT ![s] = "in"]
  /\ UNCHANGED <<broken, sets, current, cast, listener, started, waiting>>

Break(s) ==
  /\ socket[s] \in {"joined", "in"}
  /\ broken' = broken \cup {s}
  /\ waiting' = [u \in Updates |-> waiting[u] \ {s}]
  /\ UNCHANGED <<socket, sets, current, cast, listener, started>>

\* disconnect, on WebSocketDisconnect.
Disconnect(s) ==
  /\ socket[s] = "in" /\ s \in broken
  /\ socket' = [socket EXCEPT ![s] = "gone"]
  /\ sets' = [i \in DOMAIN sets |-> IF i = current THEN sets[i] \ {s} ELSE sets[i]]
  /\ current' = IF current # 0 /\ sets'[current] # {} THEN current ELSE 0
  /\ UNCHANGED <<broken, cast, listener, started, waiting>>

\* Another exception: the first message cannot be sent, or a frame is not text.
\* The socket stays in the room.
EndpointFails(s) ==
  /\ (socket[s] = "joined" /\ s \in broken) \/ socket[s] = "in"
  /\ socket' = [socket EXCEPT ![s] = "gone"]
  /\ broken' = broken \cup {s}
  /\ waiting' = [u \in Updates |-> waiting[u] \ {s}]
  /\ UNCHANGED <<sets, current, cast, listener, started>>

----------------------------------------------------------------------------
(* Subscriptions *)

Listen(q) ==
  /\ listener[q].at = "new"
  /\ listener' = [listener EXCEPT ![q] = [at |-> "on", queue |-> <<>>, upTo |-> Len(started)]]
  /\ UNCHANGED <<socket, broken, sets, current, cast, started, waiting>>

\* The event at the head is handed to the client.
Yield(q) ==
  /\ listener[q].at = "on" /\ listener[q].queue # <<>>
  /\ listener' = [listener EXCEPT ![q].queue = Tail(@),
                    ![q].upTo = IF started[@ + 1] = Head(listener[q].queue) THEN @ + 1 ELSE @]
  /\ UNCHANGED <<socket, broken, sets, current, cast, started, waiting>>

Unlisten(q) ==
  /\ listener[q].at = "on"
  /\ listener' = [listener EXCEPT ![q] = [at |-> "off", queue |-> <<>>, upTo |-> 0]]
  /\ UNCHANGED <<socket, broken, sets, current, cast, started, waiting>>

----------------------------------------------------------------------------
(* broadcast *)

Room(u) == IF cast[u].room = 0 THEN {} ELSE sets[cast[u].room]

\* Variant: the queues have room for one event.
PutIfEmpty(q, u) == IF listener[q].queue = <<>> THEN <<u>> ELSE listener[q].queue

Put(q, u) == Append(listener[q].queue, u)

\* Up to the first send.
StartBroadcast(u) ==
  LET members == IF current = 0 THEN {} ELSE sets[current]
  IN /\ cast[u].at = "new"
     /\ cast' = [cast EXCEPT ![u] = [at |-> "sending", room |-> current,
                  size |-> Cardinality(members), members |-> members, tried |-> {}, dead |-> {}]]
     /\ listener' = [q \in Subscribers |->
          IF listener[q].at = "on" THEN [listener[q] EXCEPT !.queue = Put(q, u)] ELSE listener[q]]
     /\ started' = Append(started, u)
     /\ waiting' = [waiting EXCEPT ![u] = members \ broken]
     /\ UNCHANGED <<socket, broken, sets, current>>

Iterating(u) == cast[u].at = "sending" /\ Cardinality(Room(u)) = cast[u].size

\* A lost connection is noticed or not.
Send(u, s) ==
  /\ Iterating(u)
  /\ s \in Room(u) \ cast[u].tried
  /\ \E noticed \in {{}, {s}} :
       /\ noticed \subseteq broken
       /\ cast' = [cast EXCEPT ![u].tried = @ \cup {s}, ![u].dead = @ \cup noticed]
  /\ waiting' = [waiting EXCEPT ![u] = @ \ {s}]
  /\ UNCHANGED <<socket, broken, sets, current, listener, started>>

\* RuntimeError: Set changed size during iteration; the PUT answers 500.
IterationFails(u) ==
  /\ cast[u].at = "sending" /\ Cardinality(Room(u)) # cast[u].size
  /\ cast' = [cast EXCEPT ![u] = [Quiet EXCEPT !.at = "failed"]]
  /\ waiting' = [waiting EXCEPT ![u] = {}]
  /\ UNCHANGED <<socket, broken, sets, current, listener, started>>

\* Variant: the try is around the loop.
LeftUntilDead(u) == IF cast[u].dead # {} THEN {} ELSE (Room(u) \cap cast[u].members) \ cast[u].tried

\* Who came meanwhile is met by the iterator or not.
Left(u) == (Room(u) \cap cast[u].members) \ cast[u].tried

\* The dead are discarded, from the set that was iterated, and the PUT answers.
EndBroadcast(u) ==
  /\ Iterating(u) /\ Left(u) = {}
  /\ cast' = [cast EXCEPT ![u] = [Quiet EXCEPT !.at = "answered"]]
  /\ sets' = [i \in DOMAIN sets |-> IF i = cast[u].room THEN sets[i] \ cast[u].dead ELSE sets[i]]
  /\ UNCHANGED <<socket, broken, current, listener, started, waiting>>

RoomsNext ==
  \/ \E s \in Sockets : Join(s) \/ Welcome(s) \/ Break(s) \/ Disconnect(s) \/ EndpointFails(s)
  \/ \E q \in Subscribers : Listen(q) \/ Yield(q) \/ Unlisten(q)
  \/ \E u \in Updates : StartBroadcast(u) \/ IterationFails(u) \/ EndBroadcast(u)
                        \/ \E s \in Sockets : Send(u, s)

----------------------------------------------------------------------------
(* Properties *)

\* An update that is answered 200 was sent to every socket that was in the room all
\* the time of its broadcast and whose connection held: not one of them is passed over
\* because others were lost, came or left (broadcast, disconnect).
StayersHear == \A u \in Updates : cast[u].at = "answered" => waiting[u] = {}

\* A subscription misses no update while it is on and hears each once, in the order in
\* which the broadcasts started, also those that failed for the sockets (listen,
\* broadcast, run_updates).
SubscribersHearAll ==
  \A q \in Subscribers : listener[q].at = "on" =>
    listener[q].queue = SubSeq(started, listener[q].upTo + 1, Len(started))

(* Types *)

FiniteRooms == {S \in SUBSET Sockets : IsFiniteSet(S)}
Casts(n) ==
  [at : {"none", "new", "sending", "failed", "answered"}, room : 0..n, size : Nat,
   members : SUBSET Sockets, tried : SUBSET Sockets, dead : SUBSET Sockets]
Listeners(n) == [at : {"none", "new", "on", "off"}, queue : Seq(Updates), upTo : 0..n]

RoomsTypeOK ==
  /\ broken \in SUBSET Sockets
  /\ sets \in Seq(FiniteRooms)
  /\ current \in 0..Len(sets)
  /\ started \in Seq(Updates)
  /\ waiting \in [Updates -> SUBSET Sockets]
  /\ cast \in [Updates -> Casts(Len(sets))]
  /\ listener \in [Subscribers -> Listeners(Len(started))]

=============================================================================
