----------------------------- MODULE MCReaders ------------------------------
(* Every counting request over every history of one case in three runs and a *)
(* few of another one, and every document of at most two mutations, or of    *)
(* three with a deletion between, over a suite of two cases and a run of     *)
(* both.                                                                     *)
EXTENDS Readers, TLC

MCCases == 1..2
MCRuns == 1..3
BothActive == <<"active", "active">>

Board(caseStates, rows) ==
  [cases |-> caseStates, results |-> rows,
   completed |-> {r \in DOMAIN rows : Recorded(rows[r])}]

MCCountBoards ==
  {Board(BothActive, <<<<a, "pass">>, <<b, "fail">>, <<c, d>>>>) :
     a \in {"pass", "fail"}, b \in Statuses, c \in {"pass", "fail"},
     d \in {"pass", "pending"}}
  \cup {Board(BothActive, <<>>), Board(<<"draft", "unborn">>, <<>>)}

MCGraphBoards ==
  {Board(<<"active", "active">>, <<<<a, b>>>>) : a \in {"pending", "pass"}, b \in {"pending", "pass"}}
  \cup {Board(<<"draft", "unborn">>, <<>>)}

MCKinds == {[kind |-> k, edition |-> "monolith"] : k \in {"stats", "analytics", "flaky", "export"}}
           \cup {[kind |-> k, edition |-> "services"] : k \in {"stats", "analytics"}}

Field(op, run, case, status) == [op |-> op, run |-> run, case |-> case, status |-> status]
Mutations == {
  Field("createCase", 1, 1, "active"),
  Field("deleteCase", 1, 1, "active"),
  Field("createRun", 1, 1, "active"),
  Field("updateResult", 1, 1, "pass"),
  Field("updateResult", 1, 1, "fail"),
  Field("updateResult", 1, 2, "pass")}
MCDocuments ==
  {<<Field("query", 1, 1, "active")>>}
  \cup {<<m>> : m \in Mutations} \cup {<<m, n>> : m, n \in Mutations}
  \cup {<<m, Field("deleteCase", 1, 1, "active"), n>> :
          m \in Mutations, n \in {Field("createRun", 1, 1, "active"),
                                 Field("updateResult", 1, 2, "pass")}}

============================================================================
