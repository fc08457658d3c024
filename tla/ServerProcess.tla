--------------------------- MODULE ServerProcess ----------------------------
(***************************************************************************)
(* A process of the monolith: the requests that compete for its threads,   *)
(* connections and event loop, those that share its CI statistics, or the  *)
(* updates and listeners of one run.                                       *)
(***************************************************************************)
EXTENDS Requests, PipelineStats, Rooms

vars == <<serving, statsVars, roomVars>>

Init ==
  \/ RequestsInit /\ StatsNone /\ RoomsNone
  \/ RequestsNone /\ StatsInit /\ RoomsNone
  \/ RequestsNone /\ StatsNone /\ RoomsInit

Serve == RequestsNext /\ UNCHANGED <<statsVars, roomVars>>

Next ==
  \/ Serve
  \/ StatsNext /\ UNCHANGED <<serving, roomVars>>
  \/ RoomsNext /\ UNCHANGED <<serving, statsVars>>

\* Threads run on, the loop takes what is ready, and a wait ends with its timeout.
Spec == Init /\ [][Next]_vars /\ WF_vars(Serve)

=============================================================================
