-------------------------- MODULE MCServerProcess ---------------------------
(* Up to four requests for two threads and two connections; two threads that   *)
(* serve the CI statistics for eight ticks; or a run that a subscription and   *)
(* two sockets follow through two updates, or three through one.               *)
EXTENDS ServerProcess, TLC

CONSTANTS c1, c2, c3, c4

MCClients == {c1, c2, c3, c4}
MCMixes ==
  {[c \in MCClients |-> "rest"],
   c1 :> "graph" @@ c2 :> "graph" @@ c3 :> "rest",
   c1 :> "graph" @@ c2 :> "open" @@ c3 :> "clientLog"}
MCReaders == {"thread 1", "thread 2"}
MCSockets == {"socket 1", "socket 2", "socket 3"}
MCSubscribers == {"subscription"}
MCUpdates == {"update 1", "update 2"}
MCGatherings == {MCUpdates \cup {"socket 1", "socket 2"}, MCSockets \cup {"update 1"}}

============================================================================
