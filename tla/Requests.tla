------------------------------ MODULE Requests ------------------------------
(***************************************************************************)
(* The requests of one monolith process and what they wait for: a thread   *)
(* of the server's pool, a connection of the engine's pool (api/database.  *)
(* py on SQLite) and the event loop; and the Log Center, to which every    *)
(* request adds a row (log_requests and _record_log of api/main.py).       *)
(*                                                                         *)
(* A REST request is authenticated in a thread, which leaves its session a *)
(* connection, and handled in a thread; a commit gives the connection back *)
(* and the next statement asks for one again.  A GraphQL request does its  *)
(* statements on the event loop (api/gql/context.py, graph.py).  When the  *)
(* response has begun the session is closed, by the event loop, while the  *)
(* log row is written in a thread with a connection of its own.  Threads   *)
(* are given back by the event loop too.  A connection is waited for 30    *)
(* seconds (PoolTimeout).                                                  *)
(***************************************************************************)
EXTENDS Naturals, FiniteSetsExt

CONSTANTS
  Clients,     \* requests
  Mixes,       \* bound: which of them come together, and of which kinds
  Threads,     \* threads of the pool: 40 in the program
  Connections, \* of the engine's pool: 15
  MaxRows      \* LOG_RETENTION_MAX_ROWS: 5000

ASSUME RequestsAssumption ==
  Threads \in Nat \ {0} /\ Connections \in Nat \ {0} /\ MaxRows \in Nat \ {0}

VARIABLES
  kind,      \* of each request: one of RequestKinds
  stage,     \* where the request itself is
  session,   \* requests whose session has a connection
  threads,   \* requests that have a thread
  loop,      \* the request whose statement blocks the event loop
  logging,   \* where the writing of the request's log row is
  rows,      \* log entries, numbered in the order of creation
  nextRow,
  surplus,   \* what each writer counted, or the ids it is going to delete
  untrimmed, \* history: a writer failed after its row was in
  overlapped \* history: a row was in or out between a writer's count and delete

requestVars == <<kind, stage, session, threads, loop>>
logVars == <<logging, rows, nextRow, surplus, untrimmed, overlapped>>
serving == <<requestVars, logVars>>

\* "open": no user is needed; "clientLog": submit_client_log.
RequestKinds == {"rest", "open", "graph", "clientLog"}

Free == "free"

ASSUME MixesAssumption ==
  /\ Mixes \subseteq UNION {[C -> RequestKinds] : C \in SUBSET Clients}
  /\ Free \notin Clients

LogSteps == {"waiting", "inserted", "counted", "listed"}

RequestsInit ==
  /\ kind \in Mixes
  /\ stage = [c \in Clients |-> "new"]
  /\ session = {}
  /\ threads = {}
  /\ loop = Free
  /\ logging = [c \in Clients |-> "none"]
  /\ rows = 1..MaxRows
  /\ nextRow = MaxRows + 1
  /\ surplus = [c \in Clients |-> {}]
  /\ untrimmed = FALSE
  /\ overlapped = FALSE

RequestsNone ==
  /\ kind = [c \in Clients |-> "rest"]
  /\ stage = [c \in Clients |-> "done"]
  /\ session = {}
  /\ threads = {}
  /\ loop = Free
  /\ logging = [c \in Clients |-> "done"]
  /\ rows = {}
  /\ nextRow = 1
  /\ surplus = [c \in Clients |-> {}]
  /\ untrimmed = FALSE
  /\ overlapped = FALSE

Present == DOMAIN kind
\* A log row is written with a connection from its insert on.
Loggers == {c \in Clients : logging[c] \in LogSteps \ {"waiting"}}
ConnectionFree == Cardinality(session) + Cardinality(Loggers) < Connections
ThreadFree == Cardinality(threads) < Threads
LoopFree == loop = Free

----------------------------------------------------------------------------
(* Steps of the event loop *)

Moves(c, from, to) == stage[c] = from /\ stage' = [stage EXCEPT ![c] = to]

\* get_current_user, or the handler of a request nobody has to be known for.
GiveThread(c) ==
  /\ LoopFree /\ ThreadFree
  /\ \/ kind[c] = "rest" /\ (Moves(c, "new", "authenticating") \/ Moves(c, "known", "handling"))
     \/ kind[c] = "open" /\ Moves(c, "new", "handling")
     \/ kind[c] = "clientLog" /\ Moves(c, "new", "submitting")
  /\ threads' = threads \cup {c}
  /\ logging' = IF kind[c] = "clientLog" THEN [logging EXCEPT ![c] = "waiting"] ELSE logging
  /\ UNCHANGED <<kind, session, loop, rows, nextRow, surplus, untrimmed, overlapped>>

\* The work in the thread is done.
TakeThread(c) ==
  /\ LoopFree /\ c \in threads
  /\ \/ c \in session /\ Moves(c, "authenticating", "known")
     \/ c \in session /\ (Moves(c, "handling", "answered") \/ Moves(c, "handled", "answered"))
     \/ logging[c] = "done" /\ Moves(c, "submitting", "answered")
  /\ threads' = threads \ {c}
  /\ logging' = IF kind[c] = "clientLog" THEN [logging EXCEPT ![c] = "none"] ELSE logging
  /\ UNCHANGED <<kind, session, loop, rows, nextRow, surplus, untrimmed, overlapped>>

\* get_context: the user's row is selected on the loop, which waits.
StartGraph(c) ==
  /\ LoopFree /\ kind[c] = "graph"
  /\ Moves(c, "new", "resolving")
  /\ loop' = c
  /\ UNCHANGED <<kind, session, threads, logVars>>

\* A mutation's commit, then the next statement, on the loop again.
GraphCommits(c) ==
  /\ LoopFree /\ kind[c] = "graph" /\ c \in session
  /\ Moves(c, "resolving", "refreshing")
  /\ session' = session \ {c}
  /\ loop' = c
  /\ UNCHANGED <<kind, threads, logVars>>

GraphAnswers(c) ==
  /\ LoopFree /\ kind[c] = "graph" /\ c \in session
  /\ Moves(c, "resolving", "answered") \/ Moves(c, "refreshing", "answered")
  /\ UNCHANGED <<kind, session, threads, loop, logVars>>

\* The end of get_db, once the response has begun; it needs no pool thread.
Close(c) ==
  /\ LoopFree
  /\ Moves(c, "answered", "done")
  /\ session' = session \ {c}
  /\ UNCHANGED <<kind, threads, loop, logVars>>

\* Variant: _record_log runs on the event loop, as it used to.
LogOnLoop(c) ==
  /\ LoopFree
  /\ stage[c] \in {"answered", "done"} /\ logging[c] = "none"
  /\ logging' = [logging EXCEPT ![c] = "waiting"]
  /\ loop' = c
  /\ UNCHANGED <<kind, stage, session, threads, rows, nextRow, surplus, untrimmed, overlapped>>

\* log_requests, while the session may still be open.
StartLog(c) ==
  /\ LoopFree /\ ThreadFree
  /\ stage[c] \in {"answered", "done"} /\ logging[c] = "none"
  /\ logging' = [logging EXCEPT ![c] = "waiting"]
  /\ threads' = threads \cup {c}
  /\ UNCHANGED <<kind, stage, session, loop, rows, nextRow, surplus, untrimmed, overlapped>>

EndLog(c) ==
  /\ LoopFree /\ c \in threads
  /\ stage[c] \in {"answered", "done"} /\ logging[c] = "done"
  /\ threads' = threads \ {c}
  /\ UNCHANGED <<kind, stage, session, loop, logVars>>

----------------------------------------------------------------------------
(* Statements, in a thread or on the loop *)

WaitsForSession(c) ==
  /\ c \notin session
  /\ \/ c \in threads /\ stage[c] \in {"authenticating", "handling", "handled"}
     \/ loop = c /\ kind[c] = "graph"

\* The pool gives the session a connection.
Connect(c) ==
  /\ WaitsForSession(c) /\ ConnectionFree
  /\ session' = session \cup {c}
  /\ loop' = IF loop = c THEN Free ELSE loop
  /\ UNCHANGED <<kind, stage, threads, logVars>>

\* A handler's commit: db.refresh or the next query connects again.
Commit(c) ==
  /\ c \in threads /\ c \in session
  /\ Moves(c, "handling", "handled")
  /\ session' = session \ {c}
  /\ UNCHANGED <<kind, threads, loop, logVars>>

WaitsForLog(c) == logging[c] = "waiting" /\ (c \in threads \/ loop = c)

\* Variant: pool_timeout is not set.
NoTimeout(c) == FALSE /\ UNCHANGED serving

\* QueuePool gives up: a 500 for a request, nothing for a log row.
PoolTimeout(c) ==
  /\ ~ConnectionFree
  /\ \/ /\ WaitsForSession(c)
        /\ stage' = [stage EXCEPT ![c] = "answered"]
        /\ UNCHANGED logging
     \/ /\ WaitsForLog(c)
        /\ logging' = [logging EXCEPT ![c] = "done"]
        /\ UNCHANGED stage
  /\ threads' = IF WaitsForSession(c) THEN threads \ {c} ELSE threads
  /\ loop' = IF loop = c THEN Free ELSE loop
  /\ UNCHANGED <<kind, session, rows, nextRow, surplus, untrimmed, overlapped>>

----------------------------------------------------------------------------
(* _record_log, one committed row at a time *)

LogMoves(c, from, to) == logging[c] = from /\ logging' = [logging EXCEPT ![c] = to]

\* Someone else is between its count and its delete.
Meanwhile(c) == \E d \in Clients \ {c} : logging[d] \in {"counted", "listed"}

InsertRow(c) ==
  /\ WaitsForLog(c) /\ ConnectionFree
  /\ LogMoves(c, "waiting", "inserted")
  /\ rows' = rows \cup {nextRow}
  /\ nextRow' = nextRow + 1
  /\ overlapped' = (overlapped \/ Meanwhile(c))
  /\ UNCHANGED <<requestVars, surplus, untrimmed>>

LogDone(c) ==
  /\ logging' = [logging EXCEPT ![c] = "done"]
  /\ surplus' = [surplus EXCEPT ![c] = {}]
  /\ loop' = IF loop = c THEN Free ELSE loop

\* total; the surplus is as many numbers as there are rows too many.
CountRows(c) ==
  /\ logging[c] = "inserted"
  /\ IF Cardinality(rows) > MaxRows
     THEN /\ LogMoves(c, "inserted", "counted")
          /\ surplus' = [surplus EXCEPT ![c] = 1..Cardinality(rows) - MaxRows]
          /\ UNCHANGED loop
     ELSE LogDone(c)
  /\ untrimmed' = FALSE
  /\ UNCHANGED <<kind, stage, session, threads, rows, nextRow, overlapped>>

\* Variant: stale_ids are ordered by descending id.
Newest(n) == {i \in rows : Cardinality({j \in rows : j > i}) < n}

Oldest(n) == {i \in rows : Cardinality({j \in rows : j < i}) < n}

\* stale_ids
ListSurplus(c) ==
  /\ LogMoves(c, "counted", "listed")
  /\ surplus' = [surplus EXCEPT ![c] = Oldest(Cardinality(@))]
  /\ UNCHANGED <<requestVars, rows, nextRow, untrimmed, overlapped>>

DeleteSurplus(c) ==
  /\ logging[c] = "listed"
  /\ rows' = rows \ surplus[c]
  /\ overlapped' = (overlapped \/ Meanwhile(c))
  /\ LogDone(c)
  /\ UNCHANGED <<kind, stage, session, threads, nextRow, untrimmed>>

\* An exception in the database, caught and printed.
LogFails(c) ==
  /\ logging[c] \in {"inserted", "counted", "listed"}
  /\ LogDone(c)
  /\ untrimmed' = TRUE
  /\ UNCHANGED <<kind, stage, session, threads, rows, nextRow, overlapped>>

LoopSteps(c) ==
  GiveThread(c) \/ TakeThread(c) \/ StartGraph(c) \/ GraphCommits(c) \/ GraphAnswers(c)
  \/ Close(c) \/ StartLog(c) \/ EndLog(c)

Statements(c) ==
  Connect(c) \/ Commit(c) \/ InsertRow(c) \/ CountRows(c) \/ ListSurplus(c)
  \/ DeleteSurplus(c) \/ LogFails(c)

RequestsNext == \E c \in Present : LoopSteps(c) \/ Statements(c) \/ PoolTimeout(c)

----------------------------------------------------------------------------
(* Properties *)

Served(c) == stage[c] = "done" /\ logging[c] = "done" /\ c \notin threads

\* When a step of c is possible: ENABLED (LoopSteps(c) \/ Statements(c)), written out.
CanMove(c) ==
  \/ /\ LoopFree /\ ThreadFree
     /\ \/ kind[c] # "graph" /\ stage[c] = "new"
        \/ kind[c] = "rest" /\ stage[c] = "known"
        \/ stage[c] \in {"answered", "done"} /\ logging[c] = "none"
  \/ /\ LoopFree /\ c \in threads
     /\ \/ c \in session /\ stage[c] \in {"authenticating", "handling", "handled"}
        \/ logging[c] = "done" /\ stage[c] \in {"submitting", "answered", "done"}
  \/ /\ LoopFree /\ kind[c] = "graph"
     /\ \/ stage[c] = "new"
        \/ c \in session /\ stage[c] \in {"resolving", "refreshing"}
  \/ LoopFree /\ stage[c] = "answered"
  \/ ConnectionFree /\ (WaitsForSession(c) \/ WaitsForLog(c))
  \/ c \in threads /\ c \in session /\ stage[c] = "handling"
  \/ logging[c] \in {"inserted", "counted", "listed"}

Stuck == (\E c \in Present : ~Served(c)) /\ \A c \in Present : ~CanMove(c)

\* When nothing can move until a wait for a connection times out, it is one of
\* two knots: a GraphQL statement waits on the event loop, or every thread waits
\* for a connection and every connection is kept by a request that waits for a
\* thread.  Writing the log row is never what the others wait for (the comment
\* on log_requests).
StuckIsNamed ==
  Stuck => \/ loop \in Clients /\ kind[loop] = "graph" /\ WaitsForSession(loop)
           \/ /\ \A c \in threads : WaitsForSession(c) \/ WaitsForLog(c)
              /\ Cardinality(threads) = Threads
              /\ \A c \in session : stage[c] = "known"
              /\ Cardinality(session) = Connections

\* Every request is answered, closed and logged in the end, because a wait for a
\* connection is given up (QueuePool's timeout, the except of _record_log).
EveryoneServed == <>(\A c \in Present : Served(c))

\* When no row is being written the log has at most as many rows as it may, unless
\* the last writer failed after its insert (_record_log).
LogWithinLimit ==
  (Loggers = {} /\ ~untrimmed) => Cardinality(rows) <= MaxRows

\* The newest rows are kept: a row is missing only when so many newer ones came
\* that it is surplus, or when two writers trimmed at a time, each by its own
\* count (_record_log).
NewestRowsKept ==
  overlapped \/ \A i \in 1..nextRow - 1 : i >= nextRow - MaxRows => i \in rows

\* Both: the log is the newest rows, as many as the limit, whoever writes meanwhile.
LogIsNewest == NewestRowsKept /\ LogWithinLimit

=============================================================================
