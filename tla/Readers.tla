------------------------------ MODULE Readers -------------------------------
(***************************************************************************)
(* One request that reads the board in several SELECTs, a counting one or  *)
(* a GraphQL one, while other requests change it.                          *)
(***************************************************************************)
EXTENDS Statistics, GraphApi

CONSTANTS
  CountBoards, \* first contents of the tables for a counting request
  GraphBoards  \* and for a GraphQL request

ASSUME ReadersAssumption == CountBoards \cup GraphBoards \subseteq Boards

readersVars == <<board, counting, graph>>

ReadersInit ==
  /\ \/ BoardInit(CountBoards) /\ CountingInit /\ GraphIdle
     \/ BoardInit(GraphBoards) /\ CountingIdle /\ GraphAsked
  /\ GraphInit

Others == OtherRequest(asked.edition) /\ StatisticsWitness /\ GraphWitness

ReadersNext ==
  \/ StatisticsNext /\ UNCHANGED graph
  \/ GraphNext /\ UNCHANGED counting
  \/ Others

ReadersSpec == ReadersInit /\ [][ReadersNext]_readersVars

=============================================================================
