------------------------------ MODULE RunPage ------------------------------
(***************************************************************************)
(* What the run page of one browser shows (static/app.js) while others,    *)
(* and its own user, record results.                                       *)
(*                                                                         *)
(* renderRun fetches the run, builds the page's view of it and opens a     *)
(* WebSocket.  Once the server has joined the socket to the run's room it  *)
(* sends "subscribed", on which the page fetches the run again and applies *)
(* what differs (reconcileRunResults), except for cases a live update      *)
(* reached while that fetch was in flight.  "results_populated" makes the  *)
(* page render again.  Fetches and the PUT of a result are answered when   *)
(* they are answered: the page goes on handling messages meanwhile.        *)
(*                                                                         *)
(* A status is abstracted to the number of the commit that wrote it: the   *)
(* larger, the later.  The server side is update_result and the fan-out of *)
(* what it publishes, neither of them sure: the replica may die after the  *)
(* commit, the page's replica may be reconnecting to Redis or break off    *)
(* its loop over the sockets, and a run populated by the request that      *)
(* created it is not announced.  A dropped socket is not opened again.     *)
(***************************************************************************)
EXTENDS Naturals, Sequences

CONSTANTS
  Rows,    \* the test cases of the run
  Updates,  \* the PUTs of results in a behaviour, numbered as they commit
  Absent    \* the page, or the run, has no row of the case

ASSUME PageAssumption == Absent \notin Nat /\ Updates \subseteq Nat

VARIABLES
  populated, \* the run has its rows
  announced, \* results_populated: "no", "due", "sent" (or lost), "never" to be sent
  db,        \* the commit that wrote each row's status, 0 for the pending one
  commits,   \* commits so far
  updateAt,  \* where the PUT of each update is
  updated,   \* the case it updates
  carried,   \* the status it wrote, then the one it read back, to publish and answer
  sentBy,    \* the render of this page it was sent from, 0 from elsewhere
  relay,     \* the updates published that the page's replica has not broadcast yet
  latest,    \* history: the latest status of each case that was broadcast or lost
  renders,   \* calls of renderRun so far
  render,    \* the fetch of each renderRun
  page,      \* the renderRun that built _runView and opened the socket, or 0
  socket,    \* _activeRunWs: "none", "connecting", "joined"
  wire,      \* messages on their way to the page
  catchUp,   \* the reconcileRunResults of each render
  touching,  \* the reconcileRunResults that _reconcileTouched belongs to, or 0
  view,      \* the status the page shows for each case
  late,      \* history: a status was broadcast after a later one (broadcast or lost)
  crossed,   \* history: the answer of a PUT replaced a later status
  missed,    \* history: cases with a status lost since the page last joined
  unheard,   \* history: results_populated was lost, or sent past this page
  failed,    \* history: the fetch of a reconcileRunResults failed
  overlapped \* history: two calls of reconcileRunResults waited at a time

server == <<populated, announced, db, commits>>
puts == <<updateAt, updated, carried, sentBy>>
fanout == <<relay, latest, late, missed>>
rendering == <<render, renders, page>>
history == <<crossed, unheard, failed, overlapped>>
pageVars == <<server, puts, fanout, rendering, socket, wire, catchUp, touching, view, history>>

\* The user opens the page once; results_populated, sent once, renders it again.
Renders == 1..2
NotFetched == [c \in Rows |-> Absent]

\* GET /api/runs/{run_id}, as the database answers it now.
Snapshot == [c \in Rows |-> IF populated THEN db[c] ELSE Absent]

NoRender == [at |-> "none", data |-> NotFetched]
NoCatchUp == [at |-> "none", data |-> NotFetched, touched |-> {}]

PageInit ==
  /\ populated \in BOOLEAN
  /\ announced = "no"
  /\ db = [c \in Rows |-> 0]
  /\ commits = 0
  /\ updateAt = [u \in Updates |-> "idle"]
  /\ updated \in [Updates -> Rows]
  /\ carried = [u \in Updates |-> 0]
  /\ sentBy = [u \in Updates |-> 0]
  /\ relay = {}
  /\ latest = [c \in Rows |-> 0]
  /\ renders = 1
  /\ render = [n \in Renders |-> IF n = 1 THEN [NoRender EXCEPT !.at = "asked"]
                                         ELSE NoRender]
  /\ page = 0
  /\ socket = "none"
  /\ wire = <<>>
  /\ catchUp = [n \in Renders |-> NoCatchUp]
  /\ touching = 0
  /\ view = NotFetched
  /\ late = FALSE
  /\ missed = {}
  /\ crossed = FALSE
  /\ unheard = FALSE
  /\ failed = FALSE
  /\ overlapped = FALSE

\* To a socket of the room, by the loop that gets as far as it.
Send(message) == wire' = IF socket = "joined" THEN Append(wire, message) ELSE wire

----------------------------------------------------------------------------
(* The server *)

\* populate_pending_results commits, in the worker or, when the message that
\* asks for it could not be added, in create_run itself, which announces nothing.
Populate ==
  /\ ~populated
  /\ populated' = TRUE
  /\ announced' \in {"due", "never"}
  /\ UNCHANGED <<db, commits, puts, fanout, rendering, socket, wire, catchUp, touching,
                 view, history>>

\* The worker's handle_message publishes results_populated, and the page's
\* replica broadcasts it ...
Announce ==
  /\ announced = "due"
  /\ announced' = "sent"
  /\ Send([type |-> "results_populated"])
  /\ unheard' = (unheard \/ socket # "joined")
  /\ UNCHANGED <<populated, db, commits, puts, fanout, rendering, socket, catchUp,
                 touching, view, crossed, failed, overlapped>>

\* ... unless the PUBLISH failed, the worker died before it, or the replica did
\* not get it to this socket.
AnnouncementLost ==
  /\ announced = "due"
  /\ announced' = "sent"
  /\ unheard' = TRUE
  /\ UNCHANGED <<populated, db, commits, puts, fanout, rendering, socket, wire, catchUp,
                 touching, view, crossed, failed, overlapped>>

\* _apply_result_update up to its commit, for somebody else's PUT or, of a case
\* it shows, for this page's own (markResultInline).
CommitUpdate(u) ==
  /\ updateAt[u] = "idle" /\ u = commits + 1
  /\ populated
  /\ updateAt' = [updateAt EXCEPT ![u] = "committed"]
  /\ commits' = commits + 1
  /\ db' = [db EXCEPT ![updated[u]] = commits + 1]
  /\ carried' = [carried EXCEPT ![u] = commits + 1]
  /\ \E n \in {0} \cup (IF view[updated[u]] # Absent THEN {page} ELSE {}) :
       sentBy' = [sentBy EXCEPT ![u] = n]
  /\ UNCHANGED <<populated, announced, updated, fanout, rendering, socket, wire,
                 catchUp, touching, view, history>>

\* db.refresh(result): by now another update may have written the row.
RefreshUpdate(u) ==
  /\ updateAt[u] = "committed"
  /\ updateAt' = [updateAt EXCEPT ![u] = "refreshed"]
  /\ carried' = [carried EXCEPT ![u] = db[updated[u]]]
  /\ UNCHANGED <<server, updated, sentBy, fanout, rendering, socket, wire, catchUp,
                 touching, view, history>>

\* broadcast_result_update: the PUBLISH, or the replica's own loop instead.  The
\* answer need not wait for the fan-out; a loop that raises leaves none, nor does
\* a request whose page no longer waits for it.
Publish(u) ==
  /\ updateAt[u] = "refreshed"
  /\ \E next \in {"done"} \cup (IF sentBy[u] # 0 THEN {"answered"} ELSE {}) :
       updateAt' = [updateAt EXCEPT ![u] = next]
  /\ relay' = relay \cup {u}
  /\ UNCHANGED <<server, updated, carried, sentBy, latest, late, missed, rendering,
                 socket, wire, catchUp, touching, view, history>>

\* The status of update u is broadcast, or will not be: the latest one so far?
Noted(u) ==
  latest' = [latest EXCEPT ![updated[u]] = IF carried[u] > @ THEN carried[u] ELSE @]

\* ConnectionManager.broadcast, for the subscriber loop or in the request.
Broadcast(u) ==
  /\ u \in relay
  /\ relay' = relay \ {u}
  /\ Send([type |-> "result_updated", case |-> updated[u], status |-> carried[u]])
  /\ late' = (late \/ carried[u] < latest[updated[u]])
  /\ Noted(u)
  /\ UNCHANGED <<server, puts, missed, rendering, socket, catchUp, touching, view,
                 history>>

Lost(u) ==
  /\ Noted(u)
  /\ missed' = missed \cup {updated[u]}
  /\ UNCHANGED <<server, updated, carried, sentBy, late, rendering, socket, wire,
                 catchUp, touching, view, history>>

\* The page's replica was reconnecting to Redis, only another replica's own
\* sockets were told, or the loop broke off before this socket.
BroadcastMisses(u) ==
  /\ u \in relay
  /\ relay' = relay \ {u}
  /\ UNCHANGED updateAt
  /\ Lost(u)

\* The replica dies, or the refresh fails, between the commit and the broadcast.
UpdateDies(u) ==
  /\ updateAt[u] \in {"committed", "refreshed"}
  /\ updateAt' = [updateAt EXCEPT ![u] = "done"]
  /\ UNCHANGED relay
  /\ Lost(u)

\* run_websocket: join the room and say so, to a page that is still there.
Join ==
  /\ socket = "connecting"
  /\ socket' = "joined"
  /\ wire' = <<[type |-> "subscribed"]>>
  /\ missed' = {}
  /\ UNCHANGED <<server, puts, relay, latest, late, rendering, catchUp, touching, view, history>>

----------------------------------------------------------------------------
(* renderRun *)

ServeRender(n) ==
  /\ render[n].at = "asked"
  /\ render' = [render EXCEPT ![n] = [at |-> "served", data |-> Snapshot]]
  /\ UNCHANGED <<server, puts, fanout, renders, page, socket, wire, catchUp, touching, view,
                 history>>

InWire(type) == \E i \in 1..Len(wire) : wire[i].type = type

\* A new _runView, and connectRunWebSocket: the old socket is closed, whatever
\* it had still to deliver, and a new one is opened.
Rendered(n) ==
  /\ render[n].at = "served"
  /\ render' = [render EXCEPT ![n] = NoRender]
  /\ page' = n
  /\ view' = render[n].data
  /\ socket' = "connecting"
  /\ wire' = <<>>
  /\ unheard' = (unheard \/ InWire("results_populated"))
  /\ UNCHANGED <<server, puts, fanout, renders, catchUp, touching, crossed, failed,
                 overlapped>>

\* The connection is lost: onclose drops the reference and nothing reopens it.
SocketDrops ==
  /\ socket # "none"
  /\ socket' = "none"
  /\ wire' = <<>>
  /\ unheard' = (unheard \/ InWire("results_populated"))
  /\ UNCHANGED <<server, puts, fanout, rendering, catchUp, touching, view, crossed, failed,
                 overlapped>>

----------------------------------------------------------------------------
(* onmessage, reconcileRunResults, markResultInline *)

Arrives(type) == wire # <<>> /\ Head(wire).type = type /\ wire' = Tail(wire)

\* A fetch in flight: reconcileRunResults n waits for its answer.
InFlight(n) == catchUp[n].at \in {"asked", "served"}

\* reconcileRunResults begins: _reconcileTouched is a new set, its own.
Subscribed ==
  /\ Arrives("subscribed")
  /\ catchUp' = [catchUp EXCEPT ![page].at = "asked"]
  /\ touching' = page
  /\ overlapped' = (overlapped \/ \E n \in Renders : InFlight(n))
  /\ UNCHANGED <<server, puts, fanout, rendering, socket, view, crossed, unheard, failed>>

ResultUpdated ==
  /\ Arrives("result_updated")
  /\ LET c == Head(wire).case IN
       /\ catchUp' = [n \in Renders |->
            IF n = touching THEN [catchUp[n] EXCEPT !.touched = @ \cup {c}]
            ELSE catchUp[n]]
       /\ view' = IF view[c] = Absent THEN view
                  ELSE [view EXCEPT ![c] = Head(wire).status]
  /\ UNCHANGED <<server, puts, fanout, rendering, socket, touching, history>>

ResultsPopulated ==
  /\ Arrives("results_populated")
  /\ renders' = renders + 1
  /\ render' = [render EXCEPT ![renders + 1].at = "asked"]
  /\ UNCHANGED <<server, puts, fanout, page, socket, catchUp, touching, view, history>>

ServeCatchUp(n) ==
  /\ catchUp[n].at = "asked"
  /\ catchUp' = [catchUp EXCEPT ![n].at = "served", ![n].data = Snapshot]
  /\ UNCHANGED <<server, puts, fanout, rendering, socket, wire, touching, view, history>>

\* Variant: the answer changes the touched rows as well.
ReconciledAll(n) ==
  [c \in Rows |->
     IF view[c] = Absent \/ catchUp[n].data[c] = Absent THEN view[c]
     ELSE catchUp[n].data[c]]

\* What the answer changes: the rows the page has, but for the touched ones.
Reconciled(n) ==
  [c \in Rows |->
     IF c \in catchUp[n].touched \/ view[c] = Absent \/ catchUp[n].data[c] = Absent
     THEN view[c] ELSE catchUp[n].data[c]]

\* Variant: it fetches again as long as the page lacks rows, which no fetch gives it.
EndOnceComplete(n) ==
  /\ touching' = IF touching = n THEN 0 ELSE touching
  /\ catchUp' = [catchUp EXCEPT ![n] = [NoCatchUp EXCEPT !.at =
       IF \E c \in Rows : view[c] = Absent THEN "asked" ELSE "done"]]

EndCatchUp(n) ==
  /\ touching' = IF touching = n THEN 0 ELSE touching
  /\ catchUp' = [catchUp EXCEPT ![n] = [NoCatchUp EXCEPT !.at = "done"]]

CaughtUp(n) ==
  /\ catchUp[n].at = "served"
  /\ view' = Reconciled(n)
  /\ EndCatchUp(n)
  /\ UNCHANGED <<server, puts, fanout, rendering, socket, wire, history>>

CatchUpFails(n) ==
  /\ InFlight(n)
  /\ EndCatchUp(n)
  /\ failed' = TRUE
  /\ UNCHANGED <<server, puts, fanout, rendering, socket, wire, view, crossed, unheard,
                 overlapped>>

\* The answer of this page's own PUT, unless the page was rendered since.
Answer(u) ==
  /\ updateAt[u] = "answered"
  /\ updateAt' = [updateAt EXCEPT ![u] = "done"]
  /\ LET c == updated[u]
         heard == sentBy[u] = page /\ view[c] # Absent
     IN /\ view' = IF heard THEN [view EXCEPT ![c] = carried[u]] ELSE view
        /\ crossed' = (crossed \/ (heard /\ carried[u] < view[c]))
  /\ UNCHANGED <<server, updated, carried, sentBy, fanout, rendering, socket,
                 wire, catchUp, touching, unheard, failed, overlapped>>

ServerStep ==
  \/ Announce \/ Join
  \/ \E u \in Updates : RefreshUpdate(u) \/ Publish(u) \/ Broadcast(u)
  \/ \E n \in Renders : ServeRender(n) \/ ServeCatchUp(n)

PageStep ==
  \/ Subscribed \/ ResultUpdated \/ ResultsPopulated
  \/ \E n \in Renders : Rendered(n) \/ CaughtUp(n)
  \/ \E u \in Updates : Answer(u)

PageNext ==
  \/ ServerStep
  \/ PageStep
  \/ Populate \/ AnnouncementLost \/ SocketDrops
  \/ \E u \in Updates : CommitUpdate(u) \/ UpdateDies(u) \/ BroadcastMisses(u)
  \/ \E n \in Renders : CatchUpFails(n)

\* Requests are answered and messages handled; nobody has to record a result or
\* to lose a connection.
PageFairness == WF_pageVars(ServerStep) /\ WF_pageVars(PageStep)

PageSpec == PageInit /\ [][PageNext]_pageVars /\ PageFairness

----------------------------------------------------------------------------
(* What is checked *)

Shown == Nat \cup {Absent}
Fetches == [Rows -> Shown]

Messages ==
  [type : {"subscribed", "results_populated"}]
    \cup [type : {"result_updated"}, case : Rows, status : Nat]

PageTypeOK ==
  /\ populated \in BOOLEAN
  /\ announced \in {"no", "due", "sent", "never"}
  /\ db \in [Rows -> Nat]
  /\ commits \in Nat
  /\ updateAt \in [Updates -> {"idle", "committed", "refreshed", "answered", "done"}]
  /\ updated \in [Updates -> Rows]
  /\ carried \in [Updates -> Nat]
  /\ sentBy \in [Updates -> Nat]
  /\ relay \subseteq Updates
  /\ latest \in [Rows -> Nat]
  /\ renders \in Renders
  /\ render \in [Renders -> [at : {"none", "asked", "served"}, data : Fetches]]
  /\ page \in 0..renders
  /\ socket \in {"none", "connecting", "joined"}
  /\ wire \in Seq(Messages)
  /\ catchUp \in [Renders -> [at : {"none", "asked", "served", "done"},
                             data : Fetches, touched : SUBSET Rows]]
  /\ touching \in {0} \cup {n \in Renders : InFlight(n)}
  /\ view \in Fetches
  /\ late \in BOOLEAN /\ crossed \in BOOLEAN /\ unheard \in BOOLEAN
  /\ failed \in BOOLEAN /\ overlapped \in BOOLEAN /\ missed \subseteq Rows

\* Nothing is on its way to a page that is listening.
Settled ==
  /\ socket = "joined" /\ wire = <<>> /\ announced # "due" /\ relay = {}
  /\ \A u \in Updates : updateAt[u] \in {"idle", "done"}
  /\ \A n \in Renders : render[n].at = "none" /\ ~InFlight(n)

\* Of the rows it has, those whose every status since it joined was broadcast.
Agrees == \A c \in Rows \ missed : view[c] \in {db[c], Absent}

\* A page that listens and has caught up shows what the database holds of every
\* row of which no status was lost since it joined, however fetches, live updates
\* and its own answers interleave, except after one of four named accidents: a
\* broadcast or an answer overtook a later one, two catch-ups overlapped, or one
\* of them failed.  What was lost before it joined does no harm.  A row of a
\* populated run that it lacks was announced past it, or never (renderRun,
\* reconcileRunResults, run_websocket).
PageAgrees ==
  Settled =>
    /\ Agrees \/ late \/ crossed \/ overlapped \/ failed
    /\ populated /\ (\E c \in Rows : view[c] = Absent) => unheard \/ announced = "never"

\* A page whose socket is joined comes to rest, or loses the socket.
EventuallySettled == socket = "joined" ~> Settled \/ socket # "joined"

============================================================================
