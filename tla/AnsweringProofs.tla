--------------------------- MODULE AnsweringProofs ----------------------------
(***************************************************************************)
(* Proofs about what answers a question, for any number of requests, calls, *)
(* rows, claims, symbols and documents: SQL Lab, the copilot's database     *)
(* branch, the documents pipeline, the token stream and the corpus listing. *)
(***************************************************************************)
EXTENDS SqlLab, DatabaseCopilot, RagAnswer, MarkerStream, CorpusListing, DataLemmas,
        SequenceTheorems

-------------------------------------------------------------------------------
(* SQL Lab. Rows are shown only with the one success record that stands for *)
(* them. A request that has not answered has no record and no response yet; *)
(* with that the property is inductive.                                     *)

(* The states of a request, and the records, of LabTypeOK. *)
LabStates == [at : {"new", "connect", "execute", "record", "done"},
              outcome : {"none", "rejected", "error", "success"},
              rows : 0..RowLimit, truncated : BOOLEAN,
              response : {"none", "forbidden", "invalid", "rejected", "error",
                          "server_error", "withheld", "rows", "schema",
                          "no_schema", "chart", "unavailable"}]
LabRecords == [outcome : {"rejected", "error", "success"}, rows : 0..RowLimit]

(* The type invariant of SQL Lab, with its records named.                   *)
LEMMA LabTypes ==
    LabTypeOK <=> /\ lab \in [LabRequests -> LabStates]
                  /\ audit \in [LabRequests -> Seq(LabRecords)]
                  /\ labFaults \in 0..MaxLabFaults
  BY DEF LabTypeOK, LabStates, LabRecords

(* What an unanswered request is. *)
Unanswered(r) ==
    lab[r].at # "done" =>
        /\ audit[r] = <<>>
        /\ lab[r].response = "none"
        /\ lab[r].at = "record" => lab[r].outcome # "none"

LabInv == LabTypeOK /\ RowsAreRecorded /\ \A r \in LabRequests : Unanswered(r)

(* One request's part of the invariant. *)
RequestRecorded(r) ==
    /\ lab[r].response = "rows" => audit[r] = <<[outcome |-> "success", rows |-> lab[r].rows]>>
    /\ Len(audit[r]) <= 1
    /\ audit[r] # <<>> =>
          \/ lab[r].response = "withheld"
          \/ lab[r].response = (IF audit[r][1].outcome = "success" THEN "rows"
                                ELSE audit[r][1].outcome)

(* No request was made and nothing is recorded at the start.                *)
LEMMA LabInitHolds == LabInit => LabInv
  BY SqlLabAssumption DEF LabInit, LabInv, LabTypeOK, RowsAreRecorded, Unanswered, NewLabRequest

(* A step of r leaves the other requests and their records alone.           *)
LEMMA OnlyOneMoves ==
    ASSUME LabInv, NEW r \in LabRequests, LabTypeOK',
           \A q \in LabRequests \ {r} : lab'[q] = lab[q] /\ audit'[q] = audit[q],
           RequestRecorded(r)', Unanswered(r)'
    PROVE  LabInv'
<1>1. \A q \in LabRequests : RequestRecorded(q)'
  BY DEF LabInv, RowsAreRecorded, RequestRecorded
<1>2. \A q \in LabRequests : Unanswered(q)'
  BY DEF LabInv, Unanswered
<1> QED BY <1>1, <1>2 DEF LabInv, RowsAreRecorded, RequestRecorded

(* A step that records nothing: the request goes on, or answers something   *)
(* other than rows.                                                         *)
LEMMA Unrecorded ==
    ASSUME LabInv, NEW r \in LabRequests,
           LabAt(r, "new") \/ LabAt(r, "connect") \/ LabAt(r, "execute"),
           UNCHANGED audit, labFaults' \in 0..MaxLabFaults,
           NEW q \in LabStates, lab' = [lab EXCEPT ![r] = q],
           q.response # "rows",
           q.at # "done" => q.response = "none",
           q.at = "record" => q.outcome # "none"
    PROVE  LabInv'
<1>1. audit[r] = <<>> /\ lab'[r] = q /\ \A s \in LabRequests \ {r} : lab'[s] = lab[s]
  BY LabTypes DEF LabInv, Unanswered, LabAt
<1>2. LabTypeOK'
  BY LabTypes DEF LabInv, LabTypeOK, LabStates, LabRecords
<1>3. RequestRecorded(r)' /\ Unanswered(r)'
  BY <1>1 DEF RequestRecorded, Unanswered
<1> QED BY <1>1, <1>2, <1>3, OnlyOneMoves

(* A step that answers, or is about to record, what has not been answered.  *)
LEMMA Goes ==
    ASSUME LabInv, NEW r \in LabRequests,
           LabAt(r, "new") \/ LabAt(r, "connect") \/ LabAt(r, "execute"),
           UNCHANGED audit, labFaults' \in 0..MaxLabFaults,
           \/ \E answer \in {"forbidden", "invalid", "server_error", "schema", "no_schema",
                             "unavailable"} : Answers(r, answer)
           \/ \E outcome \in {"rejected", "error"} : Records(r, outcome)
           \/ \E step \in {"connect", "execute"} : lab' = [lab EXCEPT ![r].at = step]
    PROVE  LabInv'
<1>1. lab[r] \in LabStates /\ lab[r].response = "none"
  BY LabTypes DEF LabInv, Unanswered, LabAt
<1>2. CASE \E answer \in {"forbidden", "invalid", "server_error", "schema", "no_schema",
                          "unavailable"} : Answers(r, answer)
  <2>1. PICK answer \in {"forbidden", "invalid", "server_error", "schema", "no_schema",
                         "unavailable"} : Answers(r, answer)
    BY <1>2
  <2> DEFINE q == [lab[r] EXCEPT !.at = "done", !.response = answer]
  <2>2. lab' = [lab EXCEPT ![r] = q]
    BY <2>1 DEF Answers
  <2>3. q \in LabStates /\ q.response # "rows" /\ q.at = "done"
    BY <1>1 DEF LabStates
  <2> HIDE DEF q
  <2> QED BY <2>2, <2>3, Unrecorded
<1>3. CASE \E outcome \in {"rejected", "error"} : Records(r, outcome)
  <2>1. PICK outcome \in {"rejected", "error"} : Records(r, outcome)
    BY <1>3
  <2> DEFINE q == [lab[r] EXCEPT !.at = "record", !.outcome = outcome]
  <2>2. lab' = [lab EXCEPT ![r] = q]
    BY <2>1 DEF Records
  <2>3. q \in LabStates /\ q.response = "none" /\ q.outcome # "none"
    BY <1>1 DEF LabStates
  <2> HIDE DEF q
  <2> QED BY <2>2, <2>3, Unrecorded
<1>4. CASE \E step \in {"connect", "execute"} : lab' = [lab EXCEPT ![r].at = step]
  <2>1. PICK step \in {"connect", "execute"} : lab' = [lab EXCEPT ![r].at = step]
    BY <1>4
  <2> DEFINE q == [lab[r] EXCEPT !.at = step]
  <2>2. lab' = [lab EXCEPT ![r] = q]
    BY <2>1
  <2>3. q \in LabStates /\ q.response = "none" /\ q.at # "record"
    BY <1>1 DEF LabStates
  <2> HIDE DEF q
  <2> QED BY <2>2, <2>3, Unrecorded
<1> QED BY <1>2, <1>3, <1>4

(* A fault is counted within its bound.                                     *)
LEMMA FaultCounted ==
    ASSUME LabInv, LabFault \/ UNCHANGED labFaults
    PROVE  labFaults' \in 0..MaxLabFaults
  BY SqlLabAssumption DEF LabInv, LabTypeOK, LabFault

------------------------------------------------------------------------------
(* The actions.                                                            *)

(* A request that is refused, cannot connect, or only lists the schema has  *)
(* run no query.                                                            *)
LEMMA BeforeRowsKeeps ==
    ASSUME LabInv, NEW r \in LabRequests, SubmitSql(r) \/ ConnectViewer(r) \/ ListSchema(r)
    PROVE  LabInv'
<1>1. CASE SubmitSql(r)
  <2>1. \/ \E answer \in {"forbidden", "invalid"} : Answers(r, answer)
        \/ Records(r, "rejected")
        \/ lab' = [lab EXCEPT ![r].at = "connect"]
    BY <1>1 DEF SubmitSql
  <2>2. LabAt(r, "new") /\ UNCHANGED audit /\ labFaults' \in 0..MaxLabFaults
    BY <1>1, FaultCounted DEF SubmitSql
  <2> QED BY <2>1, <2>2, Goes
<1>2. CASE ConnectViewer(r)
  <2>1. \/ Answers(r, "server_error")
        \/ Records(r, "error")
        \/ lab' = [lab EXCEPT ![r].at = "execute"]
    BY <1>2 DEF ConnectViewer
  <2>2. LabAt(r, "connect") /\ UNCHANGED audit /\ labFaults' \in 0..MaxLabFaults
    BY <1>2, FaultCounted DEF ConnectViewer
  <2> QED BY <2>1, <2>2, Goes
<1>3. CASE ListSchema(r)
  <2>1. Answers(r, "schema") \/ Answers(r, "no_schema")
    BY <1>3 DEF ListSchema
  <2>2. LabAt(r, "new") /\ UNCHANGED audit /\ labFaults' \in 0..MaxLabFaults
    BY <1>3, FaultCounted DEF ListSchema
  <2> QED BY <2>1, <2>2, Goes
<1> QED BY <1>1, <1>2, <1>3

(* Running a query that passed the guard, and recording what came of it.    *)
LEMMA RunSelectKeeps ==
    ASSUME LabInv, NEW r \in LabRequests, RunSelect(r)
    PROVE  LabInv'
<1>1. LabAt(r, "execute") /\ UNCHANGED audit /\ labFaults' \in 0..MaxLabFaults
  BY FaultCounted DEF RunSelect
<1>2. CASE Records(r, "error") \/ Answers(r, "server_error")
  BY <1>1, <1>2, Goes
<1>3. CASE \E fetched \in 0..(RowLimit + 1) :
              lab' = [lab EXCEPT ![r].at = "record", ![r].outcome = "success",
                                 ![r].rows = Shown(fetched), ![r].truncated = fetched > RowLimit]
  <2>1. PICK fetched \in 0..(RowLimit + 1) :
              lab' = [lab EXCEPT ![r].at = "record", ![r].outcome = "success",
                                 ![r].rows = Shown(fetched), ![r].truncated = fetched > RowLimit]
    BY <1>3
  <2>2. Shown(fetched) \in 0..RowLimit /\ (fetched > RowLimit) \in BOOLEAN
    BY SqlLabAssumption DEF Shown
  <2> DEFINE q == [lab[r] EXCEPT !.at = "record", !.outcome = "success",
                                 !.rows = Shown(fetched), !.truncated = fetched > RowLimit]
  <2>3. lab' = [lab EXCEPT ![r] = q]
    BY <2>1
  <2>4. lab[r] \in LabStates /\ lab[r].response = "none"
    BY <1>1, LabTypes DEF LabInv, Unanswered, LabAt
  <2>5. q \in LabStates /\ q.response = "none" /\ q.outcome # "none"
    BY <2>2, <2>4 DEF LabStates
  <2> HIDE DEF q
  <2> QED BY <1>1, <2>3, <2>5, Unrecorded
<1> QED BY <1>2, <1>3 DEF RunSelect

(* Handing the rows on for analysis changes no record.                      *)
LEMMA AnalyzeKeeps ==
    ASSUME LabInv, NEW r \in LabRequests, AnalyzeRows(r)
    PROVE  LabInv'
<1>1. LabAt(r, "new") /\ UNCHANGED audit /\ labFaults' \in 0..MaxLabFaults
  BY FaultCounted DEF AnalyzeRows
<1>2. CASE Answers(r, "unavailable")
  BY <1>1, <1>2, Goes
<1>3. CASE \E q \in LabRequests, response \in {"chart", "invalid"} :
              lab' = [lab EXCEPT ![r] = [NewLabRequest EXCEPT !.at = "done",
                  !.rows = IF lab[q].rows > MaxSampleRows THEN MaxSampleRows ELSE lab[q].rows,
                  !.response = response]]
  <2>1. PICK q \in LabRequests, response \in {"chart", "invalid"} :
              lab' = [lab EXCEPT ![r] = [NewLabRequest EXCEPT !.at = "done",
                  !.rows = IF lab[q].rows > MaxSampleRows THEN MaxSampleRows ELSE lab[q].rows,
                  !.response = response]]
    BY <1>3
  <2> DEFINE n == IF lab[q].rows > MaxSampleRows THEN MaxSampleRows ELSE lab[q].rows
             state == [NewLabRequest EXCEPT !.at = "done", !.rows = n, !.response = response]
  <2>2. n \in 0..RowLimit
    <3>1. lab[q].rows \in 0..RowLimit
      BY LabTypes DEF LabInv, LabStates
    <3> QED BY <3>1, SqlLabAssumption
  <2>3. lab' = [lab EXCEPT ![r] = state]
    BY <2>1
  <2> HIDE DEF n
  <2>4. state \in LabStates /\ state.response # "rows" /\ state.at = "done"
    BY <2>2 DEF LabStates, NewLabRequest
  <2> HIDE DEF state
  <2> QED BY <1>1, <2>3, <2>4, Unrecorded
<1> QED BY <1>2, <1>3 DEF AnalyzeRows

(* RecordOutcome stores the record of what is then answered, or withholds.  *)
LEMMA RecordOutcomeKeeps ==
    ASSUME LabInv, NEW r \in LabRequests, RecordOutcome(r)
    PROVE  LabInv'
<1> DEFINE shown == IF lab[r].outcome = "success" THEN "rows" ELSE lab[r].outcome
           e == RecordOf(r)
<1>1. /\ lab[r] \in LabStates /\ audit[r] = <<>>
      /\ lab[r].outcome \in {"rejected", "error", "success"}
  BY LabTypes DEF RecordOutcome, LabAt, LabInv, LabStates, Unanswered
<1>2. /\ e \in LabRecords
      /\ e.outcome = lab[r].outcome
      /\ lab[r].outcome = "success" => e = [outcome |-> "success", rows |-> lab[r].rows]
  BY <1>1, SqlLabAssumption DEF RecordOf, LabRecords, LabStates
<1>3. PICK answer \in {shown, "withheld"} :
         /\ Answers(r, answer)
         /\ audit' = [audit EXCEPT ![r] = Append(@, e)] \/ (audit' = audit /\ answer = "withheld")
  BY DEF RecordOutcome
<1> DEFINE q == [lab[r] EXCEPT !.at = "done", !.response = answer]
<1>4. /\ q \in LabStates /\ q.at = "done" /\ q.response = answer /\ q.rows = lab[r].rows
      /\ lab' = [lab EXCEPT ![r] = q]
  BY <1>1, <1>3 DEF Answers, LabStates
<1>5. labFaults' \in 0..MaxLabFaults
  BY FaultCounted DEF RecordOutcome
<1> HIDE DEF e, q
<1>6. /\ audit' \in [LabRequests -> Seq(LabRecords)]
      /\ audit'[r] = <<e>> \/ (audit'[r] = <<>> /\ answer = "withheld")
      /\ \A s \in LabRequests \ {r} : audit'[s] = audit[s]
  <2>1. audit \in [LabRequests -> Seq(LabRecords)]
    BY LabTypes DEF LabInv
  <2>2. Append(audit[r], e) = <<e>> /\ <<e>> \in Seq(LabRecords)
    BY <1>1, <1>2
  <2> QED BY <2>1, <2>2, <1>1, <1>3
<1>7. /\ lab' \in [LabRequests -> LabStates] /\ lab'[r] = q
      /\ \A s \in LabRequests \ {r} : lab'[s] = lab[s]
  BY <1>4, LabTypes DEF LabInv
<1>8. LabTypeOK'
  BY <1>5, <1>6, <1>7 DEF LabTypeOK, LabStates, LabRecords
<1>9. RequestRecorded(r)'
  <2>1. lab'[r].response = answer /\ lab'[r].rows = lab[r].rows
    BY <1>4, <1>7
  <2>2. CASE answer = "withheld"
    <3>1. lab'[r].response = "withheld"
      BY <2>1, <2>2
    <3>2. Len(<<e>>) = 1 /\ Len(<<>>) = 0
      OBVIOUS
    <3>3. PICK stored : stored = audit'[r]
      OBVIOUS
    <3>4. stored = <<e>> \/ stored = <<>>
      BY <3>3, <1>6
    <3>5. Len(stored) <= 1
      <4>1. CASE stored = <<e>>
        BY <4>1, <3>2
      <4>2. CASE stored = <<>>
        BY <4>2, <3>2
      <4> QED BY <4>1, <4>2, <3>4
    <3>6. Len(audit'[r]) <= 1
      BY <3>3, <3>5
    <3> QED BY <3>1, <3>6 DEF RequestRecorded
  <2>3. CASE answer = shown /\ answer # "withheld"
    <3>1. audit'[r] = <<e>> /\ Len(<<e>>) = 1 /\ <<e>>[1] = e
      BY <2>3, <1>6
    <3> QED BY <2>1, <2>3, <3>1, <1>1, <1>2 DEF RequestRecorded
  <2> QED BY <2>2, <2>3, <1>3
<1> QED BY <1>4, <1>6, <1>7, <1>8, <1>9, OnlyOneMoves DEF Unanswered

(* Every step of every request keeps the invariant. *)
LEMMA LabInvariant == LabSpec => []LabInv
<1>1. ASSUME LabInv, [LabNext]_labVars PROVE LabInv'
  <2>1. CASE UNCHANGED labVars
    BY <1>1, <2>1 DEF labVars, LabInv, LabTypeOK, RowsAreRecorded, Unanswered
  <2>2. ASSUME NEW r \in LabRequests, LabRequest(r) PROVE LabInv'
    BY <1>1, <2>2, BeforeRowsKeeps, RunSelectKeeps, AnalyzeKeeps, RecordOutcomeKeeps
       DEF LabRequest
  <2> QED BY <1>1, <2>1, <2>2 DEF LabNext
<1> QED BY <1>1, LabInitHolds, PTL DEF LabSpec

------------------------------------------------------------------------------
(* The theorems.                                                           *)

(* The states of the requests, their records and the faults keep their      *)
(* types.                                                                   *)
THEOREM LabTypeCorrect == LabSpec => []LabTypeOK
<1>1. LabInv => LabTypeOK
  BY DEF LabInv
<1> QED BY <1>1, LabInvariant, PTL

(* SqlLabService.run returns the rows of a statement only after _record    *)
(* has stored that it succeeded with as many, and records nothing twice.    *)
THEOREM ShownRowsAreRecorded == LabSpec => []RowsAreRecorded
<1>1. LabInv => RowsAreRecorded
  BY DEF LabInv
<1> QED BY <1>1, LabInvariant, PTL

-------------------------------------------------------------------------------
(* The copilot's database branch. The inductive invariant says that what is *)
(* about to be executed carries a LIMIT within the cap or has no GROUP BY,  *)
(* and that what was fetched is all that was produced, but for a statement  *)
(* the guard left unbounded.                                                *)

CopilotPoints == {"new", "generate", "limit", "execute", "answer", "answered", "raised"}
Branches == [at : CopilotPoints, statement : GuardedStatement, calls : 0..MaxCalls,
             rows : 0..CopilotMaxRows]

(* What the guard lets through to the database. *)
LimitOnWork(statement) ==
    \/ statement.limit.kind = "number" /\ statement.limit.rows <= CopilotMaxRows
    \/ statement.limit.kind = "none" /\ statement.shape # "grouped"

CopilotInv ==
    /\ CopilotTypeOK
    /\ copilot.calls < MaxCalls
    /\ copilot.at = "execute" => LimitOnWork(copilot.statement)
    /\ copilot.at \in {"new", "generate", "limit", "execute"} => produced = 0
    /\ copilot.at \in {"answer", "answered"} =>
          \/ copilot.rows = produced
          \/ ~Bounded(copilot.statement) /\ copilot.rows = CopilotMaxRows
    /\ Bounded(copilot.statement) => produced <= CopilotMaxRows
    /\ copilotOutcome \notin {"none", "error"} => copilot.at = "answered"

(* The guard leaves a query with a LIMIT within the cap, whatever LIMIT the *)
(* model wrote.                                                             *)
LEMMA LimitedIsBounded ==
    ASSUME NEW s \in GuardedStatement
    PROVE  /\ [s EXCEPT !.limit = Limited(s)] \in GuardedStatement
           /\ LimitOnWork([s EXCEPT !.limit = Limited(s)])
<1> DEFINE limited == [s EXCEPT !.limit = Limited(s)]
<1>1. /\ s.shape \in Shapes /\ s.limit.kind \in {"none", "other", "number"} /\ s.limit.rows \in Nat
      /\ s.limit \in [kind : {"none", "other", "number"}, rows : Nat]
  BY DEF GuardedStatement
<1>2. limited.shape = s.shape /\ limited.limit = Limited(s)
  BY DEF GuardedStatement
<1>3. /\ NoLimit.kind = "none" /\ Cap.kind = "number" /\ Cap.rows = CopilotMaxRows
      /\ {NoLimit, Cap} \subseteq [kind : {"none", "other", "number"}, rows : Nat]
  BY CopilotAssumption DEF NoLimit, Cap
<1>4. /\ Limited(s) \in [kind : {"none", "other", "number"}, rows : Nat]
      /\ \/ Limited(s).kind = "number" /\ Limited(s).rows <= CopilotMaxRows
         \/ Limited(s).kind = "none" /\ s.shape # "grouped"
  <2>1. CASE s.limit.kind = "none" /\ s.shape = "grouped"
    <3>1. Limited(s) = Cap
      BY <2>1 DEF Limited
    <3> QED BY <3>1, <1>3, CopilotAssumption
  <2>2. CASE s.limit.kind = "none" /\ s.shape # "grouped"
    <3>1. Limited(s) = NoLimit
      BY <2>2 DEF Limited
    <3> QED BY <3>1, <1>3, <2>2
  <2>3. CASE s.limit.kind = "number"
    <3>1. \/ Limited(s) = s.limit /\ s.limit.rows <= CopilotMaxRows
          \/ Limited(s) = Cap
      BY <2>3 DEF Limited
    <3> QED BY <3>1, <1>1, <1>3, <2>3, CopilotAssumption
  <2>4. CASE s.limit.kind = "other"
    <3>1. Limited(s) = Cap
      BY <2>4 DEF Limited
    <3> QED BY <3>1, <1>3, CopilotAssumption
  <2> QED BY <1>1, <2>1, <2>2, <2>3, <2>4
<1>5. limited \in GuardedStatement
  BY <1>4, Zenon DEF GuardedStatement
<1> QED BY <1>2, <1>4, <1>5 DEF LimitOnWork

(* A bounded query with such a LIMIT returns no more rows than the cap.     *)
LEMMA ProducesWithinTheCap ==
    ASSUME NEW s \in GuardedStatement, LimitOnWork(s), NEW found \in Found(s)
    PROVE  /\ Produces(s, found) \in Nat
           /\ Bounded(s) => Produces(s, found) <= CopilotMaxRows
<1>1. s.shape \in Shapes /\ s.limit.kind \in {"none", "other", "number"} /\ s.limit.rows \in Nat
  BY DEF GuardedStatement
<1>2. found \in Nat /\ (s.shape = "one_row" => found <= 1)
  BY CopilotAssumption DEF Found
<1>3. Produces(s, found) = IF s.limit.kind = "number" /\ s.limit.rows < found
                           THEN s.limit.rows ELSE found
  BY DEF Produces
<1> QED BY <1>1, <1>2, <1>3, CopilotAssumption DEF LimitOnWork, Bounded, Shapes

(* A branch that raises keeps its statement and stops.                      *)
LEMMA RaisedBranch ==
    ASSUME copilot \in Branches, copilot.calls < MaxCalls, BranchRaises
    PROVE  /\ copilot' \in Branches /\ copilot'.at = "raised" /\ copilot'.calls < MaxCalls
           /\ copilot'.statement = copilot.statement
<1>1. [copilot EXCEPT !.at = "raised"] \in Branches
  BY Zenon DEF Branches, CopilotPoints
<1>2. /\ [copilot EXCEPT !.at = "raised"].at = "raised"
      /\ [copilot EXCEPT !.at = "raised"].calls = copilot.calls
      /\ [copilot EXCEPT !.at = "raised"].statement = copilot.statement
  BY DEF Branches
<1> QED BY <1>1, <1>2 DEF BranchRaises

(* A model call that raises is counted, and is tried again or ends the      *)
(* branch.                                                                  *)
LEMMA RaisedCall ==
    ASSUME copilot \in Branches, copilot.calls < MaxCalls, CallRaises
    PROVE  /\ copilot' \in Branches /\ copilot'.calls < MaxCalls
           /\ copilot'.statement = copilot.statement
           /\ \/ copilot'.at = "raised"
              \/ copilot'.at = copilot.at /\ copilot'.rows = copilot.rows
<1>1. CASE copilot.calls + 1 < MaxCalls
  BY <1>1, CopilotAssumption DEF CallRaises, Branches
<1>2. CASE ~(copilot.calls + 1 < MaxCalls)
  BY <1>2, RaisedBranch DEF CallRaises
<1> QED BY <1>1, <1>2

(* The branch has called nothing before its first step.                     *)
LEMMA CopilotStarts == CopilotInit => CopilotInv
<1> SUFFICES ASSUME CopilotInit PROVE CopilotInv
  OBVIOUS
<1>1. NoStatement \in GuardedStatement
  BY DEF NoStatement, NoLimit, GuardedStatement, Shapes
<1>2. CopilotTypeOK /\ copilot.at = "new" /\ copilot.calls = 0
  BY <1>1, CopilotAssumption DEF CopilotInit, CopilotTypeOK
<1> QED BY <1>2, CopilotAssumption DEF CopilotInv, CopilotInit

(* Every step of the database branch keeps its invariant.                   *)
LEMMA CopilotKeeps == CopilotInv /\ [CopilotNext]_copilotVars => CopilotInv'
<1> SUFFICES ASSUME CopilotInv, [CopilotNext]_copilotVars PROVE CopilotInv'
  OBVIOUS
<1>1. /\ copilot \in Branches /\ copilot.calls < MaxCalls /\ produced \in Nat
      /\ copilot.statement \in GuardedStatement
  BY DEF CopilotInv, CopilotTypeOK, Branches, CopilotPoints
<1>2. CASE StartBranches
  BY <1>1, <1>2 DEF StartBranches, CopilotAt, CopilotInv, CopilotTypeOK
<1>3. CASE GenerateSql
  <2>1. UNCHANGED <<documents, produced, copilotOutcome>> /\ copilot.at = "generate"
    BY <1>3 DEF GenerateSql, CopilotAt
  <2>2. CASE CallRaises
    BY <1>1, <2>1, <2>2, RaisedCall DEF CopilotInv, CopilotTypeOK, Branches, CopilotPoints
  <2>3. CASE BranchRaises
    BY <1>1, <2>1, <2>3, RaisedBranch DEF CopilotInv, CopilotTypeOK, Branches, CopilotPoints
  <2>4. ASSUME NEW statement \in Statement,
               copilot' = [copilot EXCEPT !.at = "limit", !.statement = statement, !.calls = 0]
        PROVE  CopilotInv'
    <3>1. statement \in GuardedStatement
      BY CopilotAssumption DEF Statement, Limits, GuardedStatement
    <3>2. [copilot EXCEPT !.at = "limit", !.statement = statement, !.calls = 0].at = "limit"
      BY <1>1 DEF Branches
    <3>3. [copilot EXCEPT !.at = "limit", !.statement = statement, !.calls = 0].calls = 0
      BY <1>1 DEF Branches
    <3>4. 0 \in 0..MaxCalls /\ 0 < MaxCalls
      BY CopilotAssumption
    <3>5. [copilot EXCEPT !.at = "limit", !.statement = statement, !.calls = 0] \in Branches
      BY <1>1, <3>1, <3>4, Zenon DEF Branches, CopilotPoints
    <3>6. copilot'.at = "limit" /\ copilot'.calls < MaxCalls /\ copilot' \in Branches
      BY <2>4, <3>2, <3>3, <3>4, <3>5
    <3> QED BY <2>1, <3>6, CopilotAssumption DEF CopilotInv, CopilotTypeOK, Branches, CopilotPoints
  <2> QED BY <1>3, <2>2, <2>3, <2>4 DEF GenerateSql
<1>4. CASE ApplyLimit
  <2> PICK limited : limited = [copilot.statement EXCEPT !.limit = Limited(copilot.statement)]
    OBVIOUS
  <2>1. copilot' = [copilot EXCEPT !.at = "execute", !.statement = limited]
    BY <1>4 DEF ApplyLimit
  <2>2. limited \in GuardedStatement /\ LimitOnWork(limited)
    BY <1>1, LimitedIsBounded
  <2>3. [copilot EXCEPT !.at = "execute", !.statement = limited] \in Branches
    BY <1>1, <2>2, Zenon DEF Branches, CopilotPoints
  <2>4. [copilot EXCEPT !.at = "execute", !.statement = limited].at = "execute"
    BY <1>1 DEF Branches
  <2>5. [copilot EXCEPT !.at = "execute", !.statement = limited].statement = limited
    BY <1>1 DEF Branches
  <2>6. [copilot EXCEPT !.at = "execute", !.statement = limited].calls = copilot.calls
    BY <1>1 DEF Branches
  <2>7. /\ copilot' \in Branches /\ copilot'.at = "execute" /\ copilot'.statement = limited
        /\ copilot'.calls < MaxCalls
    BY <1>1, <2>1, <2>3, <2>4, <2>5, <2>6
  <2>8. LimitOnWork(copilot'.statement)
    BY <2>2, <2>7
  <2>9. copilot.at = "limit" /\ UNCHANGED <<documents, produced, copilotOutcome>>
    BY <1>4 DEF ApplyLimit, CopilotAt
  <2> QED BY <2>7, <2>8, <2>9, CopilotAssumption
          DEF CopilotInv, CopilotTypeOK, Branches, CopilotPoints
<1>5. CASE Execute
  <2>1. copilot.at = "execute" /\ UNCHANGED <<documents, copilotOutcome>>
    BY <1>5 DEF Execute, CopilotAt
  <2>2. CASE BranchRaises /\ UNCHANGED produced
    BY <1>1, <2>1, <2>2, RaisedBranch DEF CopilotInv, CopilotTypeOK, Branches, CopilotPoints
  <2>3. ASSUME NEW found \in Found(copilot.statement),
               NEW n, n = Produces(copilot.statement, found), produced' = n,
               copilot' = [copilot EXCEPT !.at = "answer",
                                          !.rows = IF n < CopilotMaxRows THEN n ELSE CopilotMaxRows]
        PROVE  CopilotInv'
    <3>1. n \in Nat /\ (Bounded(copilot.statement) => n <= CopilotMaxRows)
      BY <1>1, <2>1, <2>3, ProducesWithinTheCap DEF CopilotInv
    <3>2. PICK fetched \in 0..CopilotMaxRows :
             fetched = IF n < CopilotMaxRows THEN n ELSE CopilotMaxRows
      BY <3>1, CopilotAssumption
    <3>3. copilot' = [copilot EXCEPT !.at = "answer", !.rows = fetched]
      BY <2>3, <3>2, Zenon
    <3>4. [copilot EXCEPT !.at = "answer", !.rows = fetched] \in Branches
      BY <1>1, Zenon DEF Branches, CopilotPoints
    <3>5. /\ [copilot EXCEPT !.at = "answer", !.rows = fetched].at = "answer"
          /\ [copilot EXCEPT !.at = "answer", !.rows = fetched].rows = fetched
          /\ [copilot EXCEPT !.at = "answer", !.rows = fetched].calls = copilot.calls
          /\ [copilot EXCEPT !.at = "answer", !.rows = fetched].statement = copilot.statement
      BY <1>1 DEF Branches
    <3>6. /\ copilot'.at = "answer" /\ copilot'.rows = fetched /\ copilot'.calls < MaxCalls
          /\ copilot' \in Branches /\ copilot'.statement = copilot.statement
      BY <1>1, <3>3, <3>4, <3>5
    <3>7. \/ fetched = n
          \/ ~Bounded(copilot.statement) /\ fetched = CopilotMaxRows
      <4>1. n <= CopilotMaxRows => fetched = n
        BY <3>1, <3>2, CopilotAssumption
      <4>2. ~(n <= CopilotMaxRows) => fetched = CopilotMaxRows
        BY <3>1, <3>2, CopilotAssumption
      <4> QED BY <4>1, <4>2, <3>1, Zenon
    <3>8. Bounded(copilot'.statement) <=> Bounded(copilot.statement)
      BY <3>6
    <3> QED BY <2>1, <2>3, <3>1, <3>6, <3>7, <3>8
            DEF CopilotInv, CopilotTypeOK, Branches, CopilotPoints
  <2> QED BY <1>5, <2>2, <2>3 DEF Execute
<1>6. CASE AnswerFromRows
  <2>1. copilot.at = "answer" /\ UNCHANGED <<documents, produced, copilotOutcome>>
    BY <1>6 DEF AnswerFromRows, CopilotAt
  <2>2. CASE CallRaises
    BY <1>1, <2>1, <2>2, RaisedCall DEF CopilotInv, CopilotTypeOK, Branches, CopilotPoints
  <2>3. CASE copilot' = [copilot EXCEPT !.at = "answered"]
    BY <1>1, <2>1, <2>3 DEF CopilotInv, CopilotTypeOK, Branches, CopilotPoints
  <2> QED BY <1>6, <2>2, <2>3 DEF AnswerFromRows
<1>7. CASE DocumentsReturn
  BY <1>1, <1>7 DEF DocumentsReturn, CopilotInv, CopilotTypeOK
<1>8. CASE ReturnAnswer
  <2>1. UNCHANGED <<copilot, documents, produced>> /\ copilot.at \in {"answered", "raised"}
        /\ documents # "running"
    BY <1>8 DEF ReturnAnswer, BranchesEnded
  <2>2. \/ copilotOutcome' = "error"
        \/ copilot.at = "answered" /\ copilotOutcome' = EvidenceOfBranches /\ documents # "raised"
    BY <1>8, <2>1 DEF ReturnAnswer
  <2>3. documents \in {"none", "grounded", "ungrounded"} =>
           EvidenceOfBranches \in {"grounded", "partially_grounded", "no_rows", "insufficient_evidence"}
    BY DEF EvidenceOfBranches
  <2>4. documents \in {"none", "running", "grounded", "ungrounded", "raised"}
    BY DEF CopilotInv, CopilotTypeOK
  <2> QED BY <2>1, <2>2, <2>3, <2>4 DEF CopilotInv, CopilotTypeOK
<1>9. CASE UNCHANGED copilotVars
  BY <1>9 DEF copilotVars, CopilotInv, CopilotTypeOK
<1> QED BY <1>2, <1>3, <1>4, <1>5, <1>6, <1>7, <1>8, <1>9 DEF CopilotNext

(* The inductive invariant of the database branch holds in every state.     *)
LEMMA CopilotInvariant == CopilotSpec => []CopilotInv
  BY CopilotStarts, CopilotKeeps, PTL DEF CopilotSpec

(* The branch's state keeps its type, its statement one the SQL guard lets  *)
(* through (copilot.py).                                                    *)
THEOREM CopilotTypeCorrect == CopilotSpec => []CopilotTypeOK
<1>1. CopilotInv => CopilotTypeOK
  BY DEF CopilotInv
<1> QED BY <1>1, CopilotInvariant, PTL

(* Whatever LIMIT the model generates, the database produces no more than   *)
(* the row cap for a statement that is bounded, and an answer is over all   *)
(* the rows that were produced; only an ungrouped statement without a LIMIT *)
(* may be cut by the fetch (copilot.py and the SQL guard).                  *)
THEOREM StatementsStayBounded == CopilotSpec => []StatementsAreBounded
<1>1. CopilotInv => StatementsAreBounded
  BY DEF CopilotInv, StatementsAreBounded
<1> QED BY <1>1, CopilotInvariant, PTL

-------------------------------------------------------------------------------
(* The documents pipeline. An answer that is shown was verified claim by    *)
(* claim, whatever order the verdicts come in. The inductive invariant says *)
(* that the pairs begun are the first ones in their order and that each is  *)
(* under way or has the verdict the model gave it; so when all have one,    *)
(* the pairs are those of every claim with every passage.                   *)

Passages == Seq([document : Documents, score : RetrievalScores])

(* The pairs begun are the first ones, and each is under way or has its     *)
(* verdict.                                                                 *)
PoolKnown ==
    /\ IsFiniteSet(verifying) /\ IsFiniteSet(DOMAIN said)
    /\ verifying \cap DOMAIN said = {}
    /\ Begun <= PairCount
    /\ verifying \cup DOMAIN said = {PairAt(k) : k \in 1..Begun}

(* What was collected is what the model said; a flagged answer is not       *)
(* confident if the cap on its score is below the route's minimum.          *)
RagInv ==
    /\ RagTypeOK /\ verified = said
    /\ RouteMinimum > 350 => AnswersHoldUp /\ (graded.flagged => ~graded.confident)
    /\ ragStep # "done" => ragOutcome = "none"
    /\ ragStep = "search" => attempts = 0
    /\ ragStep = "generate" => attempts < MaxAttempts
    /\ ragStep \in {"search", "generate", "decompose"} =>
           verifying = {} /\ DOMAIN said = {} /\ claimCount = 0
    /\ ragStep = "verify" => PoolKnown

(* What division leaves.                                                    *)
LEMMA Quotients ==
    ASSUME NEW L \in Nat \ {0}, NEW n \in Nat
    PROVE  /\ n \div L \in Nat /\ n % L \in 0..L-1
           /\ n = L * (n \div L) + (n % L)
  OBVIOUS

(* Different multiples are a divisor apart.                                 *)
LEMMA Multiples ==
    ASSUME NEW L \in Nat \ {0}, NEW x \in Nat, NEW y \in Nat, x < y
    PROVE  L * x + L <= L * y
  OBVIOUS

(* A number has one quotient and one remainder.                             *)
LEMMA QuotientsAreUnique ==
    ASSUME NEW L \in Nat \ {0}, NEW q \in Nat, NEW r \in 0..L-1, NEW a \in Nat, NEW b \in 0..L-1,
           L * q + r = L * a + b
    PROVE  q = a /\ r = b
<1>1. L * q \in Nat /\ L * a \in Nat
  OBVIOUS
<1>2. ~(q < a)
  BY Multiples, <1>1
<1>3. ~(a < q)
  BY Multiples, <1>1
<1>4. q = a
  BY <1>2, <1>3
<1> QED BY <1>1, <1>4

(* The pairs in the order they are submitted: no two are the same one.      *)
LEMMA PairsAreDistinct ==
    ASSUME passages \in Passages, passages # <<>>, NEW k \in Nat \ {0}, NEW m \in Nat \ {0},
           PairAt(k) = PairAt(m)
    PROVE  k = m
<1> DEFINE L == Len(passages)
<1>1. L \in Nat \ {0}
  BY LenProperties, EmptySeq DEF Passages
<1>2. (k - 1) \div L + 1 = (m - 1) \div L + 1 /\ ((k - 1) % L) + 1 = ((m - 1) % L) + 1
  BY DEF PairAt
<1>3. k - 1 \in Nat /\ m - 1 \in Nat
  OBVIOUS
<1> HIDE DEF L
<1>4. /\ (k - 1) \div L \in Nat /\ (k - 1) % L \in 0..L-1
      /\ k - 1 = L * ((k - 1) \div L) + ((k - 1) % L)
  BY <1>1, <1>3, Quotients
<1>5. /\ (m - 1) \div L \in Nat /\ (m - 1) % L \in 0..L-1
      /\ m - 1 = L * ((m - 1) \div L) + ((m - 1) % L)
  BY <1>1, <1>3, Quotients
<1>6. (k - 1) \div L = (m - 1) \div L /\ (k - 1) % L = (m - 1) % L
  BY <1>1, <1>2, <1>4, <1>5
<1>7. k - 1 = m - 1
  BY <1>4, <1>5, <1>6
<1> QED BY <1>7

(* Those counted are of a claim and a passage. *)
LEMMA PairsAreOfClaims ==
    ASSUME passages \in Passages, claimCount \in Nat, NEW k \in 1..PairCount
    PROVE  passages # <<>> /\ PairAt(k) \in Claims \X DOMAIN passages
<1> DEFINE L == Len(passages)
<1>1. L \in Nat /\ DOMAIN passages = 1..L /\ PairCount = claimCount * L
  BY LenProperties DEF Passages, PairCount
<1>2. L # 0 /\ passages # <<>>
  BY <1>1, EmptySeq
<1>3. PairAt(k) = <<(k - 1) \div L + 1, ((k - 1) % L) + 1>>
  BY DEF PairAt
<1> HIDE DEF L
<1>4. /\ (k - 1) \div L \in Nat /\ (k - 1) % L \in 0..L-1
      /\ k - 1 = L * ((k - 1) \div L) + ((k - 1) % L)
  <2>1. L \in Nat \ {0} /\ k - 1 \in Nat
    BY <1>1, <1>2 DEF PairCount
  <2> QED BY <2>1, Quotients
<1> DEFINE q == (k - 1) \div L
<1>5. q < claimCount
  <2>1. CASE claimCount < q
    <3>1. L * claimCount + L <= L * q
      BY <1>1, <1>2, <1>4, <2>1, Multiples
    <3> HIDE DEF q
    <3> QED BY <1>1, <1>2, <1>4, <3>1 DEF q
  <2>2. CASE claimCount = q
    BY <1>1, <1>4, <2>2
  <2> QED BY <1>4, <2>1, <2>2
<1> QED BY <1>1, <1>2, <1>3, <1>4, <1>5 DEF Claims

(* And every claim meets every passage. *)
LEMMA EveryPairComes ==
    ASSUME passages \in Passages, claimCount \in Nat, NEW c \in Claims, NEW i \in DOMAIN passages
    PROVE  \E k \in 1..PairCount : PairAt(k) = <<c, i>>
<1> DEFINE L == Len(passages)
           k == L * (c - 1) + i
<1>1. L \in Nat /\ i \in 1..L /\ PairCount = claimCount * L /\ c \in 1..claimCount /\ L # 0
  BY LenProperties DEF Passages, PairCount, Claims
<1>2. PairAt(k) = <<(k - 1) \div L + 1, ((k - 1) % L) + 1>>
  BY DEF PairAt
<1> HIDE DEF L
<1>3. L * (c - 1) \in Nat /\ k - 1 \in Nat /\ k - 1 = L * (c - 1) + (i - 1)
  BY <1>1
<1>4. k \in 1..PairCount
  <2>1. L * (c - 1) + L <= L * claimCount
    BY <1>1, Multiples
  <2> QED BY <1>1, <1>3, <2>1
<1> HIDE DEF k
<1>5. /\ (k - 1) \div L \in Nat /\ (k - 1) % L \in 0..L-1
      /\ k - 1 = L * ((k - 1) \div L) + ((k - 1) % L)
  BY <1>1, <1>3, Quotients
<1>6. (k - 1) \div L = c - 1 /\ (k - 1) % L = i - 1
  <2> DEFINE q == c - 1
             r == i - 1
             a == (k - 1) \div L
             b == (k - 1) % L
  <2>1. q \in Nat /\ r \in 0..L-1 /\ L \in Nat \ {0} /\ a \in Nat /\ b \in 0..L-1
    BY <1>1, <1>5
  <2>2. L * q + r = L * a + b
    BY <1>3, <1>5
  <2> HIDE DEF q, r, a, b
  <2>3. q = a /\ r = b
    BY <2>1, <2>2, QuotientsAreUnique
  <2> QED BY <2>3 DEF q, r, a, b
<1>7. (k - 1) \div L + 1 = c /\ ((k - 1) % L) + 1 = i
  BY <1>1, <1>6
<1> QED BY <1>2, <1>4, <1>7

(* The score of a flagged answer is capped. *)
LEMMA FlaggedIsCapped ==
    ASSUME RouteMinimum > 350, NEW cited, NEW label, NEW prob
    PROVE  ~Graded(cited, TRUE, label, prob).confident
<1>1. RagScore(cited, TRUE, label, prob) \in 50..350
  <2> DEFINE average == Weighted(cited, TRUE, label, prob)
  <2> HIDE DEF average
  <2>1. Most(50, Least(990, IF TRUE /\ average \notin 0..350 THEN 350 ELSE average)) \in 50..350
    BY DEF Most, Least
  <2> QED BY <2>1 DEF RagScore, average
<1> DEFINE score == RagScore(cited, TRUE, label, prob)
<1>2. Graded(cited, TRUE, label, prob).confident = (score >= RouteMinimum)
  BY DEF Graded
<1> HIDE DEF score
<1>3. score \in 50..350 /\ RouteMinimum \in Nat
  <2>1. RouteMinimum \in 0..1000
    BY RagAnswerAssumption
  <2>2. score \in 50..350
    BY <1>1 DEF score
  <2> QED BY <2>1, <2>2
<1>4. ~(score >= RouteMinimum)
  BY <1>3
<1> QED BY <1>2, <1>4

(* A query begins with nothing retrieved, verified or answered.             *)
LEMMA RagInitHolds == RagInit => RagInv
<1> SUFFICES ASSUME RagInit PROVE RagInv
  OBVIOUS
<1>1. DOMAIN said = {} /\ DOMAIN verified = {} /\ passages \in Passages
  BY EmptySeq DEF RagInit, Passages
<1> QED BY <1>1, RagAnswerAssumption DEF RagInit, RagInv, RagTypeOK, AnswersHoldUp, Passages

(* The context is a sequence of passages.                                   *)
LEMMA SearchKeeps == RagInv /\ Search => RagInv'
<1> SUFFICES ASSUME RagInv, Search PROVE RagInv'
  OBVIOUS
<1>1. passages' \in Passages
  <2>1. PICK hits \in Searches : \E kept \in Context(hits) :
           passages' = [i \in DOMAIN kept |-> [document |-> hits[kept[i]].document,
                                               score |-> hits[kept[i]].score]]
    BY DEF Search
  <2>2. PICK kept \in Context(hits) :
           passages' = [i \in DOMAIN kept |-> [document |-> hits[kept[i]].document,
                                               score |-> hits[kept[i]].score]]
    BY <2>1
  <2>3. PICK n \in 0..ContextSize : kept \in [1..n -> DOMAIN hits]
    BY <2>2 DEF Context, SeqOf
  <2>4. PICK m \in 0..SearchDepth : hits \in [1..m -> Hits]
    BY <2>1 DEF Searches, SeqOf
  <2>5. \A i \in 1..n : hits[kept[i]] \in Hits
    BY <2>3, <2>4
  <2> DEFINE P == [document : Documents, score : RetrievalScores]
  <2>6. passages' \in [1..n -> P]
    BY <2>2, <2>3, <2>5 DEF Hits
  <2>7. n \in Nat
    BY <2>3, RagAnswerAssumption
  <2> HIDE DEF P
  <2>8. passages' \in Seq(P)
    BY <2>6, <2>7
  <2> QED BY <2>8 DEF Passages, P
<1>2. /\ ragStep = "search" /\ ragStep' = "generate"
      /\ UNCHANGED <<attempts, graded, claimCount, verifying, verified, said, ragOutcome>>
  BY DEF Search
<1>3. DOMAIN verified = {} /\ ragOutcome = "none" /\ attempts = 0 /\ attempts < MaxAttempts
  BY <1>2, RagAnswerAssumption DEF RagInv
<1>4. RagTypeOK'
  BY <1>1, <1>2, <1>3 DEF RagInv, RagTypeOK, Passages
<1>5. AnswersHoldUp'
  BY <1>2, <1>3 DEF AnswersHoldUp
<1> QED BY <1>2, <1>3, <1>4, <1>5 DEF RagInv

(* The call gives an answer, is tried again, or has failed for good.        *)
LEMMA GenerateKeeps == RagInv /\ Generate => RagInv'
<1> SUFFICES ASSUME RagInv, Generate PROVE RagInv'
  OBVIOUS
<1>1. /\ ragStep = "generate" /\ attempts' = attempts + 1 /\ attempts' \in 0..MaxAttempts
      /\ UNCHANGED <<passages, claimCount, verifying, verified, said>>
      /\ ragOutcome = "none" /\ DOMAIN verified = {} /\ verifying = {} /\ claimCount = 0
  BY RagAnswerAssumption DEF Generate, RagInv, RagTypeOK
<1>2. CASE ragStep' = "decompose" /\ ragOutcome' = ragOutcome
             /\ \E cited \in 0..Len(passages), flagged \in BOOLEAN,
                   label \in DOMAIN LabelScore, prob \in Probabilities, parsed \in BOOLEAN :
                   graded' = IF parsed THEN Graded(cited, flagged, label, prob)
                             ELSE Graded(0, TRUE, "low", prob)
  <2>1. PICK cited \in 0..Len(passages), flagged \in BOOLEAN, label \in DOMAIN LabelScore,
             prob \in Probabilities, parsed \in BOOLEAN :
           graded' = IF parsed THEN Graded(cited, flagged, label, prob)
                     ELSE Graded(0, TRUE, "low", prob)
    BY <1>2
  <2>2. graded' \in [flagged : BOOLEAN, confident : BOOLEAN]
    BY <2>1 DEF Graded
  <2>3. ASSUME RouteMinimum > 350, graded'.flagged PROVE ~graded'.confident
    <3>1. CASE parsed
      <4>1. graded' = Graded(cited, flagged, label, prob)
        BY <2>1, <3>1
      <4>2. flagged = TRUE
        BY <2>3, <4>1 DEF Graded
      <4> QED BY <2>3, <4>1, <4>2, FlaggedIsCapped
    <3>2. CASE ~parsed
      <4>1. graded' = Graded(0, TRUE, "low", prob)
        BY <2>1, <3>2
      <4> QED BY <2>3, <4>1, FlaggedIsCapped
    <3> QED BY <3>1, <3>2
  <2>4. RagTypeOK'
    BY <1>1, <1>2, <2>2 DEF RagInv, RagTypeOK
  <2> QED BY <1>1, <1>2, <2>3, <2>4 DEF RagInv, AnswersHoldUp
<1>3. CASE graded' = graded /\ (IF attempts' < MaxAttempts THEN UNCHANGED <<ragStep, ragOutcome>>
                                ELSE ragStep' = "done" /\ ragOutcome' = "error")
  <2>1. RagTypeOK'
    BY <1>1, <1>3 DEF RagInv, RagTypeOK
  <2> QED BY <1>1, <1>3, <2>1 DEF RagInv, AnswersHoldUp
<1> QED BY <1>2, <1>3 DEF Generate

(* Nothing is verified yet of the claims the answer has.                    *)
LEMMA DecomposeKeeps == RagInv /\ Decompose => RagInv'
<1> SUFFICES ASSUME RagInv, Decompose PROVE RagInv'
  OBVIOUS
<1>1. /\ ragStep = "decompose" /\ ragStep' = "verify" /\ claimCount' \in 0..MaxClaims
      /\ UNCHANGED <<passages, attempts, graded, verifying, verified, said, ragOutcome>>
      /\ ragOutcome = "none" /\ DOMAIN said = {} /\ verified = said /\ verifying = {}
  BY DEF Decompose, RagInv
<1>2. claimCount' \in Nat /\ Len(passages) \in Nat
  BY <1>1, RagAnswerAssumption, LenProperties DEF RagInv, RagTypeOK
<1>3. Begun' = 0 /\ PairCount' \in Nat
  BY <1>1, <1>2, FS_EmptySet DEF Begun, PairCount
<1>4. PoolKnown'
  BY <1>1, <1>3, FS_EmptySet DEF PoolKnown
<1>5. RagTypeOK'
  BY <1>1 DEF RagInv, RagTypeOK
<1> QED BY <1>1, <1>4, <1>5 DEF RagInv, AnswersHoldUp

(* The pool's own state in numbers. *)
LEMMA PoolCounts ==
    ASSUME RagTypeOK, PoolKnown
    PROVE  /\ Cardinality(verifying) \in Nat /\ Cardinality(DOMAIN said) \in Nat
           /\ Begun \in Nat /\ PairCount \in Nat /\ claimCount \in Nat /\ passages \in Passages
<1>1. Cardinality(verifying) \in Nat /\ Cardinality(DOMAIN said) \in Nat
  BY FS_CardinalityType DEF PoolKnown
<1>2. claimCount \in Nat /\ passages \in Passages /\ Len(passages) \in Nat
  BY RagAnswerAssumption, LenProperties DEF RagTypeOK, Passages
<1> QED BY <1>1, <1>2 DEF Begun, PairCount

(* The next pair in the order is handed to the pool.                        *)
LEMMA StartVerificationKeeps == RagInv /\ StartVerification => RagInv'
<1> SUFFICES ASSUME RagInv, StartVerification PROVE RagInv'
  OBVIOUS
<1>1. /\ ragStep = "verify" /\ Begun < PairCount /\ verifying' = verifying \cup {PairAt(Begun + 1)}
      /\ UNCHANGED <<ragStep, passages, attempts, graded, claimCount, verified, said, ragOutcome>>
      /\ RagTypeOK /\ PoolKnown /\ ragOutcome = "none"
  BY DEF StartVerification, RagInv
<1>2. /\ Cardinality(verifying) \in Nat /\ Cardinality(DOMAIN said) \in Nat
      /\ Begun \in Nat /\ PairCount \in Nat /\ claimCount \in Nat /\ passages \in Passages
  BY <1>1, PoolCounts
<1> DEFINE next == PairAt(Begun + 1)
<1>3. next \notin verifying \cup DOMAIN said
  <2>1. ASSUME NEW k \in 1..Begun PROVE PairAt(k) # next
    <3>1. Begun + 1 \in 1..PairCount
      BY <1>1, <1>2
    <3>2. passages # <<>>
      BY <1>2, <3>1, PairsAreOfClaims
    <3> QED BY <1>2, <3>2, PairsAreDistinct
  <2> HIDE DEF next
  <2> QED BY <1>1, <2>1 DEF PoolKnown
<1>4. PairCount' = PairCount /\ \A k : PairAt(k)' = PairAt(k)
  BY <1>1 DEF PairCount, PairAt
<1>5. PoolKnown'
  <2> HIDE DEF next
  <2>1. IsFiniteSet(verifying') /\ Cardinality(verifying') = Cardinality(verifying) + 1
    BY <1>1, <1>3, FS_AddElement DEF PoolKnown, next
  <2>2. Begun' = Begun + 1
    BY <1>1, <1>2, <2>1 DEF Begun
  <2>3. verifying' \cup DOMAIN said' = {PairAt(k) : k \in 1..Begun + 1}
    <3>1. 1..Begun + 1 = (1..Begun) \cup {Begun + 1}
      BY <1>2
    <3> QED BY <1>1, <3>1 DEF PoolKnown
  <2>4. verifying' \cap DOMAIN said' = {}
    BY <1>1, <1>3 DEF PoolKnown, next
  <2>5. verifying' \cup DOMAIN said' = {PairAt(k)' : k \in 1..Begun'}
    BY <1>4, <2>2, <2>3
  <2> QED BY <1>1, <1>2, <1>4, <2>1, <2>2, <2>4, <2>5 DEF PoolKnown
<1>6. RagTypeOK'
  BY <1>1 DEF RagTypeOK, Claims
<1> QED BY <1>1, <1>5, <1>6 DEF RagInv, AnswersHoldUp

(* A pair under way gets its verdict, in whatever order.                    *)
LEMMA FinishVerificationKeeps == RagInv /\ FinishVerification => RagInv'
<1> SUFFICES ASSUME RagInv, FinishVerification PROVE RagInv'
  OBVIOUS
<1>1. PICK pair \in verifying, verdict \in Verdicts :
         /\ verifying' = verifying \ {pair}
         /\ said' = [p \in DOMAIN said \cup {pair} |-> IF p = pair THEN verdict ELSE said[p]]
         /\ verified' = Filed(pair, verdict)
  BY DEF FinishVerification
<1>2. /\ ragStep = "verify" /\ RagTypeOK /\ PoolKnown /\ verified = said /\ ragOutcome = "none"
      /\ UNCHANGED <<ragStep, passages, attempts, graded, claimCount, ragOutcome>>
  BY DEF FinishVerification, RagInv
<1>3. verified' = said' /\ DOMAIN said' = DOMAIN said \cup {pair}
  BY <1>1, <1>2 DEF Filed
<1>4. /\ Cardinality(verifying) \in Nat /\ Cardinality(DOMAIN said) \in Nat
      /\ Begun \in Nat /\ PairCount \in Nat /\ claimCount \in Nat /\ passages \in Passages
  BY <1>2, PoolCounts
<1>5. PairCount' = PairCount /\ \A k : PairAt(k)' = PairAt(k)
  BY <1>2 DEF PairCount, PairAt
<1>6. PoolKnown'
  <2>1. IsFiniteSet(verifying') /\ Cardinality(verifying') = Cardinality(verifying) - 1
    BY <1>1, <1>2, FS_RemoveElement DEF PoolKnown
  <2>2. IsFiniteSet(DOMAIN said') /\ Cardinality(DOMAIN said') = Cardinality(DOMAIN said) + 1
    <3>1. pair \notin DOMAIN said
      BY <1>1, <1>2 DEF PoolKnown
    <3> QED BY <1>2, <1>3, <3>1, FS_AddElement DEF PoolKnown
  <2>3. Begun' = Begun
    BY <1>4, <2>1, <2>2 DEF Begun
  <2>4. verifying' \cup DOMAIN said' = verifying \cup DOMAIN said
        /\ verifying' \cap DOMAIN said' = {}
    BY <1>1, <1>2, <1>3 DEF PoolKnown
  <2>5. verifying' \cup DOMAIN said' = {PairAt(k)' : k \in 1..Begun'}
    BY <1>2, <1>5, <2>3, <2>4 DEF PoolKnown
  <2> QED BY <1>2, <1>5, <2>1, <2>2, <2>3, <2>4, <2>5 DEF PoolKnown
<1>7. pair \in Claims \X DOMAIN passages
  <2>1. PICK k \in 1..Begun : pair = PairAt(k)
    BY <1>1, <1>2 DEF PoolKnown
  <2>2. k \in 1..PairCount
    BY <1>2, <1>4 DEF PoolKnown
  <2> QED BY <1>4, <2>1, <2>2, PairsAreOfClaims
<1>8. RagTypeOK'
  BY <1>2, <1>3, <1>7 DEF RagTypeOK, Claims
<1> QED BY <1>2, <1>3, <1>6, <1>8 DEF RagInv, AnswersHoldUp

(* No gate fires when the outcome is an answer. *)
LEMMA GateIsOpen ==
    /\ Gate \in ToSet(GateOrder) \cup {"answer"}
    /\ Gate = "answer" => \A k \in DOMAIN GateOrder : ~Fires(GateOrder[k])
<1> DEFINE fired == {k \in DOMAIN GateOrder : Fires(GateOrder[k])}
           first == CHOOSE k \in fired : \A m \in fired : k <= m
<1>1. Gate = IF fired = {} THEN "answer" ELSE GateOrder[first]
  BY DEF Gate
<1>2. ASSUME fired # {} PROVE first \in fired
  <2>1. fired \in SUBSET Nat
    BY DEF GateOrder
  <2> HIDE DEF fired
  <2>2. \E k \in fired : \A m \in fired : k <= m
    BY <1>2, <2>1, LeastNatural
  <2> QED BY <2>2
<1> HIDE DEF first
<1>3. first \in fired => GateOrder[first] \in ToSet(GateOrder) /\ GateOrder[first] # "answer"
  BY DEF GateOrder, ToSet
<1> QED BY <1>1, <1>2, <1>3

(* Every pair has its verdict; an answer is shown when no gate fires.       *)
LEMMA GateAnswerKeeps == RagInv /\ GateAnswer => RagInv'
<1> SUFFICES ASSUME RagInv, GateAnswer PROVE RagInv'
  OBVIOUS
<1>1. /\ ragStep = "verify" /\ ragStep' = "done" /\ ragOutcome' = Gate
      /\ Cardinality(DOMAIN said) = PairCount
      /\ UNCHANGED <<passages, attempts, graded, claimCount, verifying, verified, said>>
      /\ RagTypeOK /\ PoolKnown /\ verified = said
  BY DEF GateAnswer, RagInv
<1>2. RagTypeOK'
  BY <1>1, GateIsOpen DEF RagTypeOK, Claims
<1>3. ASSUME RouteMinimum > 350, ragOutcome' = "answer" PROVE AnswersHoldUp'
  <2>1. \A k \in DOMAIN GateOrder : ~Fires(GateOrder[k])
    BY <1>1, <1>3, GateIsOpen
  <2>2. ~Fires("low_confidence") /\ ~Fires("unsupported_claims") /\ ~Fires("conflicting_evidence")
    BY <2>1 DEF GateOrder
  <2>3. ~graded.flagged
    BY <1>3, <2>2 DEF Fires, RagInv
  <2>4. \A c \in Claims : EvidenceStatus(VerdictsOn(c)) # "unsupported" /\ ~Conflicting(c)
    BY <2>2 DEF Fires
  <2>5. /\ Cardinality(verifying) \in Nat /\ Cardinality(DOMAIN said) \in Nat
        /\ Begun \in Nat /\ PairCount \in Nat /\ claimCount \in Nat /\ passages \in Passages
    BY <1>1, PoolCounts
  <2>6. Begun = PairCount /\ verifying = {}
    <3>1. Cardinality(verifying) = 0 /\ Begun = PairCount
      BY <1>1, <2>5 DEF PoolKnown, Begun
    <3> QED BY <1>1, <3>1, FS_EmptySet DEF PoolKnown
  <2>7. \A c \in Claims, i \in DOMAIN passages : <<c, i>> \in DOMAIN said
    <3> SUFFICES ASSUME NEW c \in Claims, NEW i \in DOMAIN passages PROVE <<c, i>> \in DOMAIN said
      OBVIOUS
    <3>1. \E k \in 1..PairCount : PairAt(k) = <<c, i>>
      BY <2>5, EveryPairComes
    <3> QED BY <1>1, <2>6, <3>1 DEF PoolKnown
  <2>8. ASSUME NEW c \in Claims
        PROVE  \/ \E i \in DOMAIN passages : said[<<c, i>>] \in {"full", "partial"}
               \/ \A i \in DOMAIN passages : said[<<c, i>>] = "undetermined"
    <3>1. "full" \in VerdictsOn(c) \/ "partial" \in VerdictsOn(c) \/ VerdictsOn(c) = {"undetermined"}
      BY <2>4 DEF EvidenceStatus
    <3> QED BY <1>1, <3>1 DEF VerdictsOn
  <2>9. ASSUME NEW c \in Claims, NEW i \in DOMAIN passages, NEW j \in DOMAIN passages,
               said[<<c, i>>] \in {"full", "partial", "nominal"}, said[<<c, j>>] = "refutes"
        PROVE  passages[i].document = passages[j].document
    BY <1>1, <2>4, <2>9 DEF Conflicting
  <2>10. AnswersHoldUp'
    BY <1>1, <2>3, <2>8, <2>9 DEF AnswersHoldUp, Claims
  <2> QED BY <2>10
<1> QED BY <1>1, <1>2, <1>3 DEF RagInv, AnswersHoldUp

(* Every step keeps the invariant.                                          *)
LEMMA RagStep == RagInv /\ [RagNext]_ragVars => RagInv'
<1>1. RagInv /\ UNCHANGED ragVars => RagInv'
  <2> SUFFICES ASSUME RagInv, UNCHANGED ragVars PROVE RagInv'
    OBVIOUS
  <2>1. UNCHANGED <<ragStep, passages, attempts, graded, claimCount, verifying, verified, said,
                    ragOutcome>>
    BY DEF ragVars
  <2>2. PoolKnown => PoolKnown'
    BY <2>1 DEF PoolKnown, Begun, PairCount, PairAt
  <2>3. RagTypeOK'
    BY <2>1 DEF RagInv, RagTypeOK, Claims
  <2>4. AnswersHoldUp => AnswersHoldUp'
    BY <2>1 DEF AnswersHoldUp, Claims
  <2> QED BY <2>1, <2>2, <2>3, <2>4 DEF RagInv
<1> QED
  BY <1>1, SearchKeeps, GenerateKeeps, DecomposeKeeps, StartVerificationKeeps,
     FinishVerificationKeeps, GateAnswerKeeps DEF RagNext

(* The passages, the attempts, the grade, the verdicts and the outcome of a *)
(* query keep their types.                                                  *)
THEOREM RagTypeCorrect == RagSpec => []RagTypeOK
<1>1. RagInv => RagTypeOK
  BY DEF RagInv
<1> QED BY <1>1, RagInitHolds, RagStep, PTL DEF RagSpec

(* When the route's minimum is above the cap on a flagged answer's score    *)
(* (route_min_confidence over 0.35; it is 0.5 by default), an answer is     *)
(* shown only if each of its claims was judged entailed by a passage or not *)
(* judged at all, no claim was entailed and refuted by different documents, *)
(* and its evidence was not flagged, whatever order the pool of verifiers   *)
(* ends in (map_claims, evaluate_abstention).                               *)
THEOREM AnswersAreVerified ==
    ASSUME RouteMinimum > 350
    PROVE  RagSpec => []AnswersHoldUp
<1>1. RagInv => AnswersHoldUp
  BY DEF RagInv
<1> QED BY <1>1, RagInitHolds, RagStep, PTL DEF RagSpec

-------------------------------------------------------------------------------
(* The token stream. However the stream is cut, the deltas are the prose    *)
(* before the marker. The inductive invariant says how far what was         *)
(* forwarded may reach while no marker has come: not to where one that has  *)
(* begun would start.                                                       *)

(* Where the first marker of a text ends. *)
FirstEnd(text) == CHOOSE k \in MarkerEndsAt(text) : \A m \in MarkerEndsAt(text) : k <= m

(* What was forwarded is a beginning of the buffer. Before a marker has     *)
(* come it stays as far from the end as the marker could reach; when one    *)
(* has come it is what stands before it.                                    *)
MarkerInv ==
    /\ MarkerTypeOK /\ DeltasAreTheProse
    /\ Len(deltas) <= Len(buffer) /\ deltas = SubSeq(buffer, 1, Len(deltas))
    /\ tokenStream = "open" /\ ~HasMarker(buffer) =>
           deltas = <<>> \/ Len(deltas) <= Safe(buffer)
    /\ tokenStream = "open" /\ HasMarker(buffer) => deltas = BeforeMarker(buffer)

(* A part of a text is the same part of every continuation of it. *)
LEMMA PartOfConcat ==
    ASSUME NEW S, NEW s \in Seq(S), NEW t \in Seq(S), NEW m \in Int, m >= 1,
           NEW n \in Int, n <= Len(s)
    PROVE  SubSeq(s \o t, m, n) = SubSeq(s, m, n)
<1>1. CASE n < m
  BY <1>1, SubSeqEmpty
<1>2. CASE m <= n
  <2>1. m \in 1..Len(s) /\ n \in 1..Len(s)
    BY <1>2
  <2> QED BY <2>1, SubSeqOfConcat1
<1> QED BY <1>1, <1>2

(* The first marker, and what stands before it. *)
LEMMA FirstMarker ==
    ASSUME NEW text \in Seq(Symbols), HasMarker(text)
    PROVE  /\ FirstEnd(text) \in MarkerEndsAt(text)
           /\ \A m \in MarkerEndsAt(text) : FirstEnd(text) <= m
           /\ BeforeMarker(text) = SubSeq(text, 1, FirstEnd(text) - Len(Marker))
           /\ BeforeMarker(text) \in Seq(Symbols)
           /\ Len(BeforeMarker(text)) = FirstEnd(text) - Len(Marker)
           /\ Len(BeforeMarker(text)) <= Len(text)
<1>1. Len(Marker) \in Nat /\ Len(text) \in Nat
  BY MarkerAssumption
<1>2. MarkerEndsAt(text) \in SUBSET Nat /\ MarkerEndsAt(text) # {}
  <2>1. ASSUME NEW k \in MarkerEndsAt(text) PROVE k \in Nat
    BY <1>1, <2>1 DEF MarkerEndsAt
  <2> QED BY <2>1 DEF HasMarker
<1>3. \E k \in MarkerEndsAt(text) : \A m \in MarkerEndsAt(text) : k <= m
  BY <1>2, LeastNatural
<1>4. /\ FirstEnd(text) \in MarkerEndsAt(text)
      /\ \A m \in MarkerEndsAt(text) : FirstEnd(text) <= m
  BY <1>3 DEF FirstEnd
<1>5. FirstEnd(text) \in Len(Marker)..Len(text)
  BY <1>4 DEF MarkerEndsAt
<1>6. BeforeMarker(text) = SubSeq(text, 1, FirstEnd(text) - Len(Marker))
  BY DEF BeforeMarker, FirstEnd
<1> DEFINE end == FirstEnd(text) - Len(Marker)
<1>7. end \in 0..Len(text)
  BY <1>1, <1>5
<1> HIDE DEF end
<1>8. \A i \in 1..end : text[i] \in Symbols
  BY <1>7, ElementOfSeq
<1>9. SubSeq(text, 1, end) \in Seq(Symbols) /\ Len(SubSeq(text, 1, end)) = end
  BY <1>7, <1>8, SubSeqProperties
<1> QED BY <1>4, <1>6, <1>7, <1>9 DEF end

(* A continuation has the markers the text has, and new ones end in it. *)
LEMMA MarkersOfConcat ==
    ASSUME NEW text \in Seq(Symbols), NEW piece \in Seq(Symbols)
    PROVE  /\ text \o piece \in Seq(Symbols)
           /\ Len(text \o piece) = Len(text) + Len(piece)
           /\ MarkerEndsAt(text) = {k \in MarkerEndsAt(text \o piece) : k <= Len(text)}
<1>1. /\ text \o piece \in Seq(Symbols) /\ Len(text \o piece) = Len(text) + Len(piece)
      /\ Len(text) \in Nat /\ Len(piece) \in Nat /\ Len(Marker) \in Nat
  BY ConcatProperties, MarkerAssumption
<1>2. ASSUME NEW k \in Len(Marker)..Len(text)
      PROVE  SubSeq(text \o piece, k - Len(Marker) + 1, k) = SubSeq(text, k - Len(Marker) + 1, k)
  BY <1>1, PartOfConcat
<1> QED BY <1>1, <1>2 DEF MarkerEndsAt

(* An empty stream satisfies the invariant.                                 *)
LEMMA MarkerInitHolds == MarkerInit => MarkerInv
<1> SUFFICES ASSUME MarkerInit PROVE MarkerInv
  OBVIOUS
<1>1. buffer = <<>> /\ deltas = <<>> /\ tokenStream = "open" /\ <<>> \in Seq(Symbols)
      /\ Len(<<>>) = 0
  BY EmptySeq DEF MarkerInit
<1>2. Len(Marker) \in Nat /\ Len(Marker) > 0
  BY MarkerAssumption, LenProperties, EmptySeq
<1>3. ~HasMarker(buffer)
  BY <1>1, <1>2 DEF HasMarker, MarkerEndsAt
<1>4. SubSeq(<<>>, 1, 0) = <<>>
  BY SubSeqEmpty
<1> QED BY <1>1, <1>3, <1>4 DEF MarkerInv, MarkerTypeOK, DeltasAreTheProse, Prose, IsPrefix

(* What is forwarded of a text up to an end that is not behind. *)
LEMMA Forwarded ==
    ASSUME NEW text \in Seq(Symbols), NEW old \in Seq(Symbols), Len(old) <= Len(text),
           old = SubSeq(text, 1, Len(old)), NEW end \in Int, end <= Len(text),
           NEW new, new = IF end > Len(old) THEN SubSeq(text, 1, end) ELSE old
    PROVE  /\ new \in Seq(Symbols) /\ Len(new) <= Len(text)
           /\ new = SubSeq(text, 1, Len(new))
           /\ Len(new) = IF end > Len(old) THEN end ELSE Len(old)
<1>1. Len(old) \in Nat /\ Len(text) \in Nat
  OBVIOUS
<1>2. CASE end > Len(old)
  <2>1. \A i \in 1..end : text[i] \in Symbols
    BY <1>1, ElementOfSeq
  <2>2. SubSeq(text, 1, end) \in Seq(Symbols) /\ Len(SubSeq(text, 1, end)) = end
    BY <1>1, <1>2, <2>1, SubSeqProperties
  <2> QED BY <1>2, <2>2
<1>3. CASE ~(end > Len(old))
  BY <1>3
<1> QED BY <1>2, <1>3

(* A part from the start is a prefix. *)
LEMMA StartIsPrefix ==
    ASSUME NEW text \in Seq(Symbols), NEW start \in Seq(Symbols), Len(start) <= Len(text),
           start = SubSeq(text, 1, Len(start))
    PROVE  /\ IsPrefix(start, text)
           /\ Len(start) = Len(text) => start = text
<1>1. SubSeq(start, 1, Len(start)) = start /\ SubSeq(text, 1, Len(text)) = text
  BY SubSeqFull
<1> QED BY <1>1 DEF IsPrefix

(* A piece comes: the marker is not in the buffer yet, was in it, or is     *)
(* completed.                                                               *)
LEMMA TakePieceKeeps ==
    ASSUME MarkerInv, TakePiece
    PROVE  MarkerInv'
<1>1. /\ buffer \in Seq(Symbols) /\ deltas \in Seq(Symbols) /\ Len(deltas) <= Len(buffer)
      /\ deltas = SubSeq(buffer, 1, Len(deltas))
      /\ Len(buffer) \in Nat /\ Len(deltas) \in Nat /\ Len(Marker) \in Nat /\ Len(Marker) > 0
      /\ tokenStream = "open" /\ tokenStream' = "open"
  BY MarkerAssumption, LenProperties, EmptySeq DEF MarkerInv, MarkerTypeOK, TakePiece
<1>2. PICK piece \in SeqOf(Symbols, MaxPiece) : buffer' = buffer \o piece
  BY DEF TakePiece
<1>3. piece \in Seq(Symbols)
  BY <1>2, MarkerAssumption DEF SeqOf
<1>4. /\ buffer' \in Seq(Symbols) /\ Len(buffer') = Len(buffer) + Len(piece)
      /\ MarkerEndsAt(buffer) = {k \in MarkerEndsAt(buffer') : k <= Len(buffer)}
      /\ Len(piece) \in Nat
  BY <1>1, <1>2, <1>3, MarkersOfConcat
<1>5. deltas = SubSeq(buffer', 1, Len(deltas)) /\ Len(deltas) <= Len(buffer')
  BY <1>1, <1>2, <1>3, <1>4, PartOfConcat
<1>6. CASE HasMarker(buffer')
  <2>1. deltas' = IF Len(BeforeMarker(buffer')) > Len(deltas)
                  THEN SubSeq(buffer', 1, Len(BeforeMarker(buffer'))) ELSE deltas
    BY <1>6 DEF TakePiece, Forwards
  <2>2. /\ FirstEnd(buffer') \in MarkerEndsAt(buffer')
        /\ \A m \in MarkerEndsAt(buffer') : FirstEnd(buffer') <= m
        /\ BeforeMarker(buffer') = SubSeq(buffer', 1, Len(BeforeMarker(buffer')))
        /\ BeforeMarker(buffer') \in Seq(Symbols)
        /\ Len(BeforeMarker(buffer')) = FirstEnd(buffer') - Len(Marker)
        /\ Len(BeforeMarker(buffer')) <= Len(buffer')
    BY <1>4, <1>6, FirstMarker
  <2>3. deltas' = BeforeMarker(buffer')
    <3>1. CASE HasMarker(buffer)
      <4>1. /\ FirstEnd(buffer) \in MarkerEndsAt(buffer)
            /\ \A m \in MarkerEndsAt(buffer) : FirstEnd(buffer) <= m
            /\ Len(BeforeMarker(buffer)) = FirstEnd(buffer) - Len(Marker)
        BY <1>1, <3>1, FirstMarker
      <4>2. FirstEnd(buffer) \in Nat /\ FirstEnd(buffer') \in Nat
        <5>1. /\ FirstEnd(buffer) \in Len(Marker)..Len(buffer)
              /\ FirstEnd(buffer') \in Len(Marker)..Len(buffer')
          BY <2>2, <4>1 DEF MarkerEndsAt
        <5> QED BY <1>1, <1>4, <5>1
      <4>3. FirstEnd(buffer') = FirstEnd(buffer)
        <5>1. FirstEnd(buffer) \in MarkerEndsAt(buffer') /\ FirstEnd(buffer) <= Len(buffer)
          BY <1>4, <4>1
        <5>2. FirstEnd(buffer') <= FirstEnd(buffer)
          BY <2>2, <5>1
        <5>3. FirstEnd(buffer') \in MarkerEndsAt(buffer)
          BY <1>1, <1>4, <2>2, <4>2, <5>1, <5>2
        <5>4. FirstEnd(buffer) <= FirstEnd(buffer')
          BY <4>1, <5>3
        <5> QED BY <4>2, <5>2, <5>4
      <4>4. deltas = BeforeMarker(buffer)
        BY <1>1, <3>1 DEF MarkerInv
      <4>5. Len(deltas) = Len(BeforeMarker(buffer'))
        BY <2>2, <4>1, <4>3, <4>4
      <4>6. deltas' = deltas
        BY <1>1, <2>1, <4>5
      <4> QED BY <1>5, <2>2, <4>5, <4>6
    <3>2. CASE ~HasMarker(buffer)
      <4>1. FirstEnd(buffer') > Len(buffer)
        <5>1. FirstEnd(buffer') \in Int
          BY <1>1, <1>4, <2>2 DEF MarkerEndsAt
        <5>2. ~(FirstEnd(buffer') <= Len(buffer))
          BY <1>4, <2>2, <3>2 DEF HasMarker
        <5> QED BY <1>1, <5>1, <5>2
      <4>2. deltas = <<>> \/ Len(deltas) <= Safe(buffer)
        BY <1>1, <3>2 DEF MarkerInv
      <4>3. FirstEnd(buffer') \in Int /\ FirstEnd(buffer') >= Len(Marker)
        BY <1>1, <1>4, <2>2 DEF MarkerEndsAt
      <4>4. Len(BeforeMarker(buffer')) >= Len(deltas)
        BY <1>1, <2>2, <4>1, <4>2, <4>3, EmptySeq DEF Safe
      <4>5. CASE Len(BeforeMarker(buffer')) > Len(deltas)
        BY <2>1, <2>2, <4>5
      <4>6. CASE Len(BeforeMarker(buffer')) = Len(deltas)
        BY <1>1, <1>5, <2>1, <2>2, <4>6
      <4> QED BY <1>1, <2>2, <4>3, <4>4, <4>5, <4>6
    <3> QED BY <3>1, <3>2
  <2>4. IsPrefix(deltas', deltas')
    BY <2>2, <2>3 DEF IsPrefix
  <2> QED BY <1>1, <1>4, <1>6, <2>2, <2>3, <2>4
       DEF MarkerInv, MarkerTypeOK, DeltasAreTheProse, Prose
<1>7. CASE ~HasMarker(buffer')
  <2>1. deltas' = IF Safe(buffer') > Len(deltas) THEN SubSeq(buffer', 1, Safe(buffer')) ELSE deltas
    BY <1>7 DEF TakePiece, Forwards
  <2>2. Safe(buffer') \in Int /\ Safe(buffer') <= Len(buffer')
        /\ Safe(buffer) \in Int /\ Safe(buffer) <= Safe(buffer')
    BY <1>1, <1>4 DEF Safe
  <2>3. /\ deltas' \in Seq(Symbols) /\ Len(deltas') <= Len(buffer')
        /\ deltas' = SubSeq(buffer', 1, Len(deltas'))
        /\ Len(deltas') = IF Safe(buffer') > Len(deltas) THEN Safe(buffer') ELSE Len(deltas)
    BY <1>1, <1>4, <1>5, <2>1, <2>2, Forwarded
  <2>4. ~HasMarker(buffer)
    BY <1>4, <1>7 DEF HasMarker
  <2>5. deltas' = <<>> \/ Len(deltas') <= Safe(buffer')
    <3>1. deltas = <<>> \/ Len(deltas) <= Safe(buffer)
      BY <1>1, <2>4 DEF MarkerInv
    <3>2. CASE Safe(buffer') > Len(deltas)
      BY <2>2, <2>3, <3>2
    <3>3. CASE ~(Safe(buffer') > Len(deltas))
      BY <1>1, <2>1, <2>2, <3>1, <3>3
    <3> QED BY <3>2, <3>3
  <2>6. IsPrefix(deltas', buffer')
    BY <1>4, <2>3, StartIsPrefix
  <2> QED BY <1>1, <1>4, <1>7, <2>3, <2>5, <2>6
       DEF MarkerInv, MarkerTypeOK, DeltasAreTheProse, Prose
<1> QED BY <1>6, <1>7

(* The model has finished: what was held back is forwarded if no marker     *)
(* came.                                                                    *)
LEMMA EndTokensKeeps ==
    ASSUME MarkerInv, EndTokens
    PROVE  MarkerInv'
<1>1. /\ buffer \in Seq(Symbols) /\ deltas \in Seq(Symbols) /\ Len(deltas) <= Len(buffer)
      /\ deltas = SubSeq(buffer, 1, Len(deltas)) /\ Len(buffer) \in Nat /\ Len(deltas) \in Nat
      /\ tokenStream = "open" /\ tokenStream' = "ended" /\ buffer' = buffer
  BY DEF MarkerInv, MarkerTypeOK, EndTokens
<1>2. CASE HasMarker(buffer)
  <2>1. deltas' = deltas /\ deltas = BeforeMarker(buffer)
    BY <1>1, <1>2 DEF EndTokens, MarkerInv
  <2>2. BeforeMarker(buffer)' = BeforeMarker(buffer) /\ HasMarker(buffer)'
    BY <1>1, <1>2 DEF HasMarker, MarkerEndsAt, BeforeMarker
  <2>3. IsPrefix(deltas', deltas')
    BY <1>1, <2>1 DEF IsPrefix
  <2> QED BY <1>1, <2>1, <2>2, <2>3 DEF MarkerInv, MarkerTypeOK, DeltasAreTheProse, Prose
<1>3. CASE ~HasMarker(buffer)
  <2>1. deltas' = IF Len(buffer) > Len(deltas) THEN SubSeq(buffer, 1, Len(buffer)) ELSE deltas
    BY <1>3 DEF EndTokens, Forwards
  <2>2. /\ deltas' \in Seq(Symbols) /\ Len(deltas') <= Len(buffer)
        /\ deltas' = SubSeq(buffer, 1, Len(deltas')) /\ Len(deltas') = Len(buffer)
    BY <1>1, <2>1, Forwarded
  <2>3. deltas' = buffer /\ IsPrefix(deltas', buffer)
    BY <1>1, <2>2, StartIsPrefix
  <2>4. ~HasMarker(buffer)'
    BY <1>1, <1>3 DEF HasMarker, MarkerEndsAt
  <2> QED BY <1>1, <2>2, <2>3, <2>4 DEF MarkerInv, MarkerTypeOK, DeltasAreTheProse, Prose
<1> QED BY <1>2, <1>3

(* Every step keeps the invariant.                                          *)
LEMMA MarkerStep == MarkerInv /\ [MarkerNext]_markerVars => MarkerInv'
<1>1. MarkerInv /\ UNCHANGED markerVars => MarkerInv'
  BY DEF markerVars, MarkerInv, MarkerTypeOK, DeltasAreTheProse, Prose, HasMarker, MarkerEndsAt,
     BeforeMarker, Safe
<1>2. MarkerInv /\ TokensRaise => MarkerInv'
  BY DEF TokensRaise, MarkerInv, MarkerTypeOK, DeltasAreTheProse, Prose, HasMarker, MarkerEndsAt,
     BeforeMarker
<1> QED
  BY <1>1, <1>2, TakePieceKeeps, EndTokensKeeps DEF MarkerNext

(* The buffer, the deltas and the state of the stream keep their types.     *)
THEOREM MarkerTypeCorrect == MarkerSpec => []MarkerTypeOK
<1>1. MarkerInv => MarkerTypeOK
  BY DEF MarkerInv
<1> QED BY <1>1, MarkerInitHolds, MarkerStep, PTL DEF MarkerSpec

(* However the pieces of the token stream are cut (answer_stream), the      *)
(* deltas are the beginning of the prose before META_MARKER, and all of it  *)
(* when the stream has ended.                                               *)
THEOREM ProseIsForwarded == MarkerSpec => []DeltasAreTheProse
<1>1. MarkerInv => DeltasAreTheProse
  BY DEF MarkerInv
<1> QED BY <1>1, MarkerInitHolds, MarkerStep, PTL DEF MarkerSpec

-------------------------------------------------------------------------------
(* The corpus listing. A client that reads every page sees nothing twice    *)
(* and everything that was there all along. The inductive invariant says    *)
(* what lies on which side of the cursor; that a page has a last item rests *)
(* on the well-foundedness of strict inclusion between finite sets.         *)

(* What is stored, as numbers: a title and an owner, or neither.            *)
CorpusDocuments == [title : CorpusTitles, owner : CorpusOwners]
SortKeys == Nat \X Nat
Fields == {"name", "owner"}

(* The listing's own state. *)
BrowsingTyped ==
    /\ browsing \in [pc : {"idle", "page", "done"}, viewer : CorpusViewers \cup {Operator},
                     field : Fields, descending : BOOLEAN, search : CorpusSearches \cup {0},
                     size : Nat, after : SortKeys \cup {<<>>}, shown : SUBSET CorpusIds,
                     twice : SUBSET CorpusIds, moved : SUBSET CorpusIds, stable : SUBSET CorpusIds]

(* Finitely many documents are stored: each was uploaded by a step. *)
StoredTyped ==
    /\ corpus \in [CorpusIds -> CorpusDocuments \cup {NoDocument}]
    /\ IsFiniteSet({f \in CorpusIds : Stored(f)})

(* Behind the cursor lies what was shown, unless it was retitled since.     *)
ShownBehind ==
    /\ browsing.after = <<>> => browsing.shown = {}
    /\ \A f \in browsing.shown \ browsing.moved : ~PastCursor(f, browsing)

(* Ahead of it lies what was there all along and has not been shown yet.    *)
StableAhead ==
    \A f \in browsing.stable \ browsing.shown : Listed(f, browsing) /\ PastCursor(f, browsing)

CorpusInv ==
    /\ CorpusTypeOK /\ BrowsingTyped /\ StoredTyped /\ CorpusPagesCompose
    /\ browsing.pc = "idle" => browsing = NotBrowsing
    /\ browsing.pc = "page" => ShownBehind /\ StableAhead

------------------------------------------------------------------------------
(* The order of the items. *)
LEMMA FollowsIsStrict ==
    ASSUME NEW d \in BOOLEAN, NEW x \in SortKeys, NEW y \in SortKeys, NEW z \in SortKeys
    PROVE  /\ ~Follows(x, x, d)
           /\ Follows(x, y, d) => ~Follows(y, x, d)
           /\ Follows(x, y, d) /\ Follows(y, z, d) => Follows(x, z, d)
           /\ x = y \/ Follows(x, y, d) \/ Follows(y, x, d)
<1>1. x[1] \in Nat /\ x[2] \in Nat /\ y[1] \in Nat /\ y[2] \in Nat /\ z[1] \in Nat /\ z[2] \in Nat
  BY DEF SortKeys
<1>2. x[1] = y[1] /\ x[2] = y[2] => x = y
  BY DEF SortKeys
<1>3. CASE d
  BY <1>1, <1>2, <1>3 DEF Follows, KeyBelow
<1>4. CASE ~d
  BY <1>1, <1>2, <1>4 DEF Follows, KeyBelow
<1> QED BY <1>3, <1>4

(* A finite page that is not empty has a last item. *)
LEMMA LastExists ==
    ASSUME NEW d \in BOOLEAN, NEW page, IsFiniteSet(page), page # {},
           NEW key \in [page -> SortKeys], \A f, g \in page : key[f] = key[g] => f = g
    PROVE  \E f \in page : \A g \in page \ {f} : Follows(key[f], key[g], d)
<1> DEFINE after(f) == {g \in page : Follows(key[g], key[f], d)}
           U == {after(f) : f \in page}
<1>1. U \subseteq FiniteSubsetsOf(page) /\ U # {}
  <2>1. ASSUME NEW f \in page PROVE after(f) \in FiniteSubsetsOf(page)
    <3>1. after(f) \in SUBSET page
      OBVIOUS
    <3> HIDE DEF after
    <3>2. IsFiniteSet(after(f))
      BY <3>1, FS_Subset, Zenon
    <3> QED BY <3>1, <3>2 DEF FiniteSubsetsOf
  <2>2. PICK f \in page : TRUE
    OBVIOUS
  <2>3. after(f) \in U
    OBVIOUS
  <2> HIDE DEF after
  <2> QED BY <2>1, <2>3
<1>2. IsWellFoundedOn(StrictSubsetOrdering(page), FiniteSubsetsOf(page))
  BY FS_StrictSubsetOrderingWellFounded
<1>3. PICK x \in U : \A y \in U : ~ (<<y, x>> \in StrictSubsetOrdering(page))
  BY <1>1, <1>2, WFMin
<1>4. PICK f \in page : x = after(f)
  OBVIOUS
<1>5. ASSUME NEW g \in page, Follows(key[g], key[f], d) PROVE FALSE
  <2>1. g \in after(f) /\ g \notin after(g)
    BY <1>5, FollowsIsStrict
  <2>2. \A h \in after(g) : h \in after(f)
    BY <1>5, FollowsIsStrict
  <2>3. after(g) \in U /\ after(g) \subseteq page /\ after(f) \subseteq page
    OBVIOUS
  <2>4. <<after(g), after(f)>> \in StrictSubsetOrdering(page)
    BY <2>1, <2>2, <2>3 DEF StrictSubsetOrdering
  <2> QED BY <1>3, <1>4, <2>3, <2>4
<1>6. \A g \in page \ {f} : Follows(key[f], key[g], d)
  <2> SUFFICES ASSUME NEW g \in page \ {f} PROVE Follows(key[f], key[g], d)
    OBVIOUS
  <2>1. key[f] # key[g] /\ ~Follows(key[g], key[f], d)
    BY <1>5
  <2> QED BY <2>1, FollowsIsStrict
<1> QED BY <1>6

(* The slice is closed downwards: what is left for later pages follows the  *)
(* whole page.                                                              *)
LEMMA PageIsFirst ==
    ASSUME NEW request, request.descending \in BOOLEAN, NEW remaining, IsFiniteSet(remaining),
           request.size \in Nat,
           \A f \in remaining : CorpusKey(f, request.field) \in SortKeys,
           NEW f \in PageFrom(remaining, request), NEW g \in remaining,
           g \notin PageFrom(remaining, request), f # g
    PROVE  Follows(CorpusKey(g, request.field), CorpusKey(f, request.field), request.descending)
<1> DEFINE key(h) == CorpusKey(h, request.field)
           before(h) == {i \in remaining : Follows(key(h), key(i), request.descending)}
<1>1. f \in remaining /\ Cardinality(before(f)) < request.size
      /\ ~(Cardinality(before(g)) < request.size)
  BY DEF PageFrom
<1>2. key(f) # key(g)
  BY DEF CorpusKey
<1>3. ASSUME Follows(key(f), key(g), request.descending) PROVE FALSE
  <2>1. before(g) \in SUBSET before(f)
    BY <1>1, <1>3, FollowsIsStrict
  <2>2. before(f) \in SUBSET remaining
    OBVIOUS
  <2> HIDE DEF before
  <2>3. IsFiniteSet(before(f))
    BY <2>2, FS_Subset, Zenon
  <2>4. Cardinality(before(g)) <= Cardinality(before(f)) /\ IsFiniteSet(before(g))
    BY <2>1, <2>3, FS_Subset
  <2>5. Cardinality(before(f)) \in Nat /\ Cardinality(before(g)) \in Nat
    BY <2>3, <2>4, FS_CardinalityType
  <2> QED BY <1>1, <2>4, <2>5
<1> QED BY <1>1, <1>2, <1>3, FollowsIsStrict

------------------------------------------------------------------------------
(* The steps. *)
LEMMA CorpusInitHolds == CorpusInit => CorpusInv
<1> SUFFICES ASSUME CorpusInit PROVE CorpusInv
  OBVIOUS
<1>1. {f \in CorpusIds : Stored(f)} = {}
  BY DEF CorpusInit, Stored
<1>2. BrowsingTyped
  BY DEF CorpusInit, BrowsingTyped, NotBrowsing, Fields
<1>3. StoredTyped
  BY <1>1, FS_EmptySet DEF CorpusInit, StoredTyped
<1> QED
  BY <1>2, <1>3, CorpusAssumption DEF CorpusInit, CorpusInv, CorpusTypeOK, CorpusPagesCompose,
     NotBrowsing

(* What a document's key and title are. *)
LEMMA StoredKeys ==
    ASSUME StoredTyped, NEW f \in CorpusIds, Stored(f), NEW field
    PROVE  corpus[f] \in CorpusDocuments /\ CorpusKey(f, field) \in SortKeys
<1>1. corpus[f] \in CorpusDocuments
  BY DEF StoredTyped, Stored
<1>2. corpus[f].title \in Nat /\ corpus[f].owner \in Nat /\ f \in Nat
  BY <1>1, CorpusAssumption DEF CorpusDocuments
<1> QED BY <1>1, <1>2 DEF CorpusKey, SortKeys

(* A listing begins: nothing shown, and all that is listed ahead.           *)
LEMMA BrowseCorpusKeeps ==
    ASSUME CorpusInv, BrowseCorpus
    PROVE  CorpusInv'
<1>1. PICK viewer \in CorpusViewers, field \in {"name", "owner"}, descending \in BOOLEAN,
           search \in CorpusSearches, size \in 0..MaxCorpusPage + 1 :
         browsing' = [[NotBrowsing EXCEPT
              !.pc = "page", !.viewer = viewer, !.field = field, !.search = search,
              !.descending = descending, !.size = PageSize(size)] EXCEPT
                !.stable = {f \in CorpusIds : Listed(f, [NotBrowsing EXCEPT
              !.pc = "page", !.viewer = viewer, !.field = field, !.search = search,
              !.descending = descending, !.size = PageSize(size)])}]
  BY DEF BrowseCorpus
<1>2. browsing' = [pc |-> "page", viewer |-> viewer, field |-> field, descending |-> descending,
                   search |-> search, size |-> PageSize(size), after |-> <<>>, shown |-> {},
                   twice |-> {}, moved |-> {}, stable |-> browsing'.stable]
      /\ browsing'.stable = {f \in CorpusIds : Listed(f, browsing')}
  BY <1>1 DEF NotBrowsing, Listed
<1>3. PageSize(size) \in Nat
  BY CorpusAssumption DEF PageSize
<1>4. BrowsingTyped'
  BY <1>2, <1>3 DEF BrowsingTyped, Fields
<1>5. StoredTyped' /\ UNCHANGED <<corpus, disturbances>>
  BY DEF BrowseCorpus, CorpusInv, StoredTyped, Stored
<1>6. ShownBehind' /\ StableAhead'
  BY <1>2, <1>5 DEF ShownBehind, StableAhead, PastCursor, Listed, InScope, Stored
<1> QED
  BY <1>2, <1>4, <1>5, <1>6 DEF CorpusInv, CorpusTypeOK, CorpusPagesCompose

(* The client has read the last page.                                       *)
LEMMA StopBrowsingKeeps ==
    ASSUME CorpusInv, StopBrowsing
    PROVE  CorpusInv'
<1>1. BrowsingTyped' /\ browsing' = NotBrowsing /\ UNCHANGED <<corpus, disturbances>>
  BY DEF StopBrowsing, BrowsingTyped, NotBrowsing, Fields
<1>2. StoredTyped'
  BY <1>1 DEF CorpusInv, StoredTyped, Stored
<1> QED
  BY <1>1, <1>2 DEF CorpusInv, CorpusTypeOK, CorpusPagesCompose, NotBrowsing

(* A record is written: a new one, or one under another title. *)
LEMMA WriteKeeps ==
    ASSUME CorpusInv, NEW f \in CorpusIds, NEW document \in CorpusDocuments,
           WriteDocument(f, document), Stored(f) => document.owner = corpus[f].owner
    PROVE  BrowsingTyped' /\ StoredTyped' /\ CorpusPagesCompose'
           /\ (browsing.pc = "idle" => browsing' = browsing)
           /\ (browsing'.pc = "page" => ShownBehind' /\ StableAhead')
           /\ browsing'.pc = browsing.pc /\ browsing'.shown = browsing.shown
<1>1. /\ corpus' = [corpus EXCEPT ![f] = document] /\ corpus'[f] = document
      /\ \A g \in CorpusIds \ {f} : corpus'[g] = corpus[g]
      /\ document # NoDocument /\ document.title # 0
  BY CorpusAssumption DEF WriteDocument, CorpusInv, StoredTyped, CorpusDocuments, NoDocument
<1>2. /\ browsing' = [browsing EXCEPT !.moved = browsing'.moved, !.stable = browsing'.stable]
      /\ browsing'.moved = IF /\ browsing.pc = "page" /\ browsing.field = "name"
                              /\ document.title # corpus[f].title
                           THEN browsing.moved \cup {f} ELSE browsing.moved
      /\ browsing'.stable = IF document.title # corpus[f].title THEN browsing.stable \ {f}
                            ELSE browsing.stable
  BY DEF WriteDocument, CorpusInv, BrowsingTyped
<1>3. /\ browsing'.pc = browsing.pc /\ browsing'.viewer = browsing.viewer
      /\ browsing'.field = browsing.field /\ browsing'.descending = browsing.descending
      /\ browsing'.search = browsing.search /\ browsing'.after = browsing.after
      /\ browsing'.shown = browsing.shown /\ browsing'.twice = browsing.twice
  BY <1>2 DEF CorpusInv, BrowsingTyped
<1>4. BrowsingTyped'
  <2>1. browsing'.moved \subseteq CorpusIds /\ browsing'.stable \subseteq CorpusIds
    BY <1>2 DEF CorpusInv, BrowsingTyped
  <2>2. browsing' = [browsing EXCEPT !.moved = browsing'.moved, !.stable = browsing'.stable]
    BY <1>2 DEF CorpusInv, BrowsingTyped
  <2> QED BY <2>1, <2>2 DEF CorpusInv, BrowsingTyped
<1>5. StoredTyped'
  <2>1. {g \in CorpusIds : Stored(g)'} = {g \in CorpusIds : Stored(g)} \cup {f}
    BY <1>1 DEF Stored
  <2>2. IsFiniteSet({g \in CorpusIds : Stored(g)} \cup {f})
    BY FS_AddElement DEF CorpusInv, StoredTyped
  <2> QED BY <1>1, <2>1, <2>2 DEF CorpusInv, StoredTyped, Stored
<1>6. \A g \in CorpusIds : InScope(g, browsing.viewer) => InScope(g, browsing.viewer)'
  BY <1>1, <1>3 DEF InScope, Stored
<1>7. CorpusPagesCompose'
  BY <1>2, <1>3, <1>6 DEF CorpusInv, CorpusPagesCompose, BrowsingTyped
<1>8. ASSUME NEW g \in CorpusIds, Stored(g),
             g # f \/ document.title = corpus[f].title \/ browsing.field # "name"
      PROVE  CorpusKey(g, browsing.field)' = CorpusKey(g, browsing.field)
  BY <1>1, <1>3, <1>8 DEF CorpusKey
<1>9. ASSUME browsing'.pc = "page" PROVE ShownBehind'
  <2>1. ASSUME NEW g \in browsing'.shown \ browsing'.moved PROVE ~PastCursor(g, browsing)'
    <3>1. /\ g \in browsing.shown \ browsing.moved /\ g \in CorpusIds /\ Stored(g)
          /\ g # f \/ document.title = corpus[f].title \/ browsing.field # "name"
      BY <1>2, <1>3, <1>9, <2>1 DEF CorpusInv, CorpusPagesCompose, BrowsingTyped, InScope
    <3>2. ~PastCursor(g, browsing)
      BY <1>3, <1>9, <3>1 DEF CorpusInv, ShownBehind
    <3> QED BY <1>3, <1>8, <3>1, <3>2 DEF PastCursor
  <2> QED BY <1>3, <1>9, <2>1 DEF CorpusInv, ShownBehind
<1>10. ASSUME browsing'.pc = "page" PROVE StableAhead'
  <2>1. ASSUME NEW g \in browsing'.stable \ browsing'.shown
        PROVE  Listed(g, browsing)' /\ PastCursor(g, browsing)'
    <3>1. /\ g \in browsing.stable \ browsing.shown /\ g \in CorpusIds
          /\ g # f \/ document.title = corpus[f].title
      BY <1>2, <1>3, <2>1 DEF CorpusInv, BrowsingTyped
    <3>2. Listed(g, browsing) /\ PastCursor(g, browsing)
      BY <1>3, <1>10, <3>1 DEF CorpusInv, StableAhead
    <3>3. Stored(g) /\ InScope(g, browsing.viewer)'
      BY <1>6, <3>1, <3>2 DEF Listed, InScope
    <3>4. corpus'[g].title = corpus[g].title
      BY <1>1, <3>1
    <3> QED BY <1>3, <1>8, <3>1, <3>2, <3>3, <3>4 DEF PastCursor, Listed
  <2> QED BY <2>1 DEF StableAhead
<1>11. ASSUME browsing.pc = "idle" PROVE browsing' = browsing
  <2>1. browsing = NotBrowsing
    BY <1>11 DEF CorpusInv
  <2>2. browsing.pc = "idle" /\ browsing.moved = {} /\ browsing.stable = {}
    BY <1>11, <2>1 DEF NotBrowsing
  <2>3. browsing' = [browsing EXCEPT !.moved = browsing.moved, !.stable = browsing.stable]
    BY <2>2 DEF WriteDocument
  <2>4. [browsing EXCEPT !.moved = browsing.moved, !.stable = browsing.stable] = browsing
    BY DEF CorpusInv, BrowsingTyped
  <2> QED BY <2>3, <2>4
<1> QED BY <1>3, <1>4, <1>5, <1>7, <1>9, <1>10, <1>11

(* A new document has no place behind the cursor that was promised.         *)
LEMMA UploadToCorpusKeeps ==
    ASSUME CorpusInv, UploadToCorpus
    PROVE  CorpusInv'
<1>1. PICK f \in CorpusIds, title \in CorpusTitles, owner \in CorpusOwners :
         ~Stored(f) /\ WriteDocument(f, [title |-> title, owner |-> owner])
  BY DEF UploadToCorpus
<1>2. [title |-> title, owner |-> owner] \in CorpusDocuments /\ UNCHANGED disturbances
  BY DEF CorpusDocuments, UploadToCorpus
<1> QED BY <1>1, <1>2, WriteKeeps DEF CorpusInv, CorpusTypeOK

(* A retitled document is promised no longer, and may come again.           *)
LEMMA ReplaceInCorpusKeeps ==
    ASSUME CorpusInv, ReplaceInCorpus
    PROVE  CorpusInv'
<1>1. PICK f \in CorpusIds, title \in CorpusTitles :
         Stored(f) /\ WriteDocument(f, [corpus[f] EXCEPT !.title = title])
  BY DEF ReplaceInCorpus
<1>2. corpus[f] \in CorpusDocuments
  BY <1>1 DEF CorpusInv, StoredTyped, Stored
<1> DEFINE document == [corpus[f] EXCEPT !.title = title]
<1>3. document \in CorpusDocuments /\ document.owner = corpus[f].owner
  BY <1>2 DEF CorpusDocuments
<1>4. disturbances' \in 0..MaxDisturbances
  BY CorpusAssumption DEF ReplaceInCorpus, Disturbed, CorpusInv, CorpusTypeOK
<1> HIDE DEF document
<1>5. WriteDocument(f, document)
  BY <1>1 DEF document
<1> QED BY <1>3, <1>4, <1>5, WriteKeeps DEF CorpusInv, CorpusTypeOK

(* One page, read of the records that could be read. *)
LEMMA ShowPageKeeps ==
    ASSUME CorpusInv, browsing.pc = "page", NEW unreadable \in SUBSET CorpusIds,
           ShowPage(unreadable), UNCHANGED corpus
    PROVE  BrowsingTyped' /\ StoredTyped' /\ CorpusPagesCompose'
           /\ browsing'.pc \in {"page", "done"} /\ browsing'.shown \subseteq CorpusIds
           /\ (browsing'.pc = "page" => ShownBehind' /\ StableAhead')
<1> DEFINE remaining == {f \in CorpusIds \ unreadable :
                          Listed(f, browsing) /\ PastCursor(f, browsing)}
           page == PageFrom(remaining, browsing)
           key(f) == CorpusKey(f, browsing.field)
           last == CHOOSE f \in page : \A g \in page \ {f} :
                      Follows(key(f), key(g), browsing.descending)
<1>1. browsing' = [browsing EXCEPT
            !.shown = browsing.shown \cup page,
            !.twice = browsing.twice \cup (page \cap browsing.shown),
            !.stable = browsing.stable \ unreadable,
            !.after = IF page = {} THEN browsing.after ELSE key(last),
            !.pc = IF page = remaining THEN "done" ELSE "page"]
  BY DEF ShowPage
<1>2. /\ page \subseteq remaining /\ remaining \subseteq CorpusIds
      /\ \A f \in remaining : Listed(f, browsing) /\ PastCursor(f, browsing) /\ Stored(f)
                              /\ f \notin unreadable
      /\ \A f \in CorpusIds \ unreadable :
            Listed(f, browsing) /\ PastCursor(f, browsing) => f \in remaining
  BY DEF PageFrom, Listed, InScope
<1>3. /\ \A f \in remaining : key(f) \in SortKeys
      /\ \A f, g \in remaining : key(f) = key(g) => f = g
  <2>1. \A f \in remaining : key(f) \in SortKeys
    BY <1>2, StoredKeys DEF CorpusInv
  <2> QED BY <2>1 DEF CorpusKey
<1>4. IsFiniteSet(remaining) /\ IsFiniteSet(page)
  <2>1. remaining \in SUBSET {f \in CorpusIds : Stored(f)}
    BY <1>2
  <2>2. IsFiniteSet(remaining)
    BY <2>1, FS_Subset, Zenon DEF CorpusInv, StoredTyped
  <2> QED BY <1>2, <2>2, FS_Subset
<1>5. ASSUME page # {} PROVE last \in page /\ \A g \in page \ {last} :
                      Follows(key(last), key(g), browsing.descending)
  <2> DEFINE keys == [f \in page |-> key(f)]
  <2>1. keys \in [page -> SortKeys] /\ \A f, g \in page : keys[f] = keys[g] => f = g
    BY <1>2, <1>3
  <2>2. browsing.descending \in BOOLEAN
    BY DEF CorpusInv, BrowsingTyped
  <2>3. \E f \in page : \A g \in page \ {f} : Follows(keys[f], keys[g], browsing.descending)
    <3> HIDE DEF keys, page
    <3> QED BY <1>4, <1>5, <2>1, <2>2, LastExists
  <2>4. \E f \in page : \A g \in page \ {f} : Follows(key(f), key(g), browsing.descending)
    BY <2>3
  <2> HIDE DEF page, key
  <2> QED BY <2>4
<1>6. ASSUME page # {}, NEW g \in remaining \ page
      PROVE  Follows(key(g), key(last), browsing.descending)
  <2>1. browsing.descending \in BOOLEAN /\ browsing.size \in Nat
    BY DEF CorpusInv, BrowsingTyped
  <2>2. last \in page /\ g # last /\ g \in remaining /\ g \notin page
    BY <1>5, <1>6
  <2> HIDE DEF remaining, last
  <2> QED BY <1>3, <1>4, <2>1, <2>2, PageIsFirst
<1> HIDE DEF remaining, page, last, key
<1>7. /\ browsing'.viewer = browsing.viewer /\ browsing'.field = browsing.field
      /\ browsing'.descending = browsing.descending /\ browsing'.search = browsing.search
      /\ browsing'.shown = browsing.shown \cup page
      /\ browsing'.twice = browsing.twice \cup (page \cap browsing.shown)
      /\ browsing'.stable = browsing.stable \ unreadable /\ browsing'.moved = browsing.moved
      /\ browsing'.after = (IF page = {} THEN browsing.after ELSE key(last))
      /\ browsing'.pc = (IF page = remaining THEN "done" ELSE "page")
  BY <1>1 DEF CorpusInv, BrowsingTyped
<1>8. BrowsingTyped'
  <2>1. page \subseteq CorpusIds /\ (page # {} => key(last) \in SortKeys)
    BY <1>2, <1>3, <1>5
  <2>2. browsing'.after \in SortKeys \cup {<<>>}
    BY <1>7, <2>1 DEF CorpusInv, BrowsingTyped
  <2> QED BY <1>1, <1>7, <2>1, <2>2 DEF CorpusInv, BrowsingTyped
<1>9. StoredTyped'
  BY DEF CorpusInv, StoredTyped, Stored
<1>10. \A f \in page : InScope(f, browsing.viewer) /\ PastCursor(f, browsing) /\ f \in CorpusIds
  BY <1>2 DEF Listed
<1>11. \A f \in browsing'.shown : InScope(f, browsing.viewer)'
  BY <1>7, <1>10 DEF CorpusInv, CorpusPagesCompose, InScope, Stored
<1>12. browsing'.twice \subseteq browsing'.moved
  BY <1>7, <1>10 DEF CorpusInv, CorpusPagesCompose, ShownBehind
<1>13. \A f \in browsing.stable \ browsing.shown : f \in remaining \/ f \in unreadable
  BY <1>2 DEF CorpusInv, StableAhead, BrowsingTyped
<1>14. CorpusPagesCompose'
  <2>1. browsing'.pc = "done" => browsing'.stable \subseteq browsing'.shown
    BY <1>7, <1>13
  <2> QED BY <1>11, <1>12, <2>1 DEF CorpusPagesCompose
<1>15. ShownBehind'
  <2>1. CASE page = {}
    BY <1>7, <2>1 DEF CorpusInv, ShownBehind, PastCursor, CorpusKey
  <2>2. CASE page # {}
    <3>0. last \in page /\ browsing'.after = key(last)
      BY <1>5, <1>7, <2>2
    <3>1. last \in page /\ key(last) \in SortKeys /\ key(last) # <<>> /\ browsing'.after = key(last)
      <4>1. \A x \in SortKeys : x # <<>>
        BY DEF SortKeys
      <4>2. last \in remaining
        BY <1>2, <3>0
      <4>3. key(last) \in SortKeys
        BY <1>3, <4>2
      <4> QED BY <3>0, <4>1, <4>3
    <3>2. ASSUME NEW f \in page PROVE ~Follows(key(f), key(last), browsing.descending)
      <4>1. browsing.descending \in BOOLEAN /\ key(f) \in SortKeys
        BY <1>2, <1>3 DEF CorpusInv, BrowsingTyped
      <4> QED BY <1>5, <2>2, <3>1, <4>1, FollowsIsStrict
    <3>3. ASSUME NEW f \in browsing.shown \ browsing.moved
          PROVE  ~Follows(key(f), key(last), browsing.descending)
      <4>1. ~PastCursor(f, browsing) /\ f \in CorpusIds /\ Stored(f)
        BY DEF CorpusInv, ShownBehind, CorpusPagesCompose, BrowsingTyped, InScope
      <4>2. /\ browsing.after # <<>> /\ ~Follows(key(f), browsing.after, browsing.descending)
            /\ Follows(key(last), browsing.after, browsing.descending)
        BY <1>10, <3>1, <4>1 DEF PastCursor, key
      <4>3. browsing.descending \in BOOLEAN /\ browsing.after \in SortKeys
        BY <4>2 DEF CorpusInv, BrowsingTyped
      <4>4. key(f) \in SortKeys
        BY <4>1, StoredKeys DEF key, CorpusInv
      <4> QED BY <3>1, <4>2, <4>3, <4>4, FollowsIsStrict
    <3>4. \A f \in browsing'.shown \ browsing'.moved :
             ~Follows(key(f), key(last), browsing.descending)
      BY <1>7, <3>2, <3>3
    <3>5. \A f \in CorpusIds : CorpusKey(f, browsing.field)' = key(f)
      BY <1>7 DEF key, CorpusKey
    <3> QED BY <1>7, <1>8, <3>1, <3>4, <3>5 DEF ShownBehind, PastCursor, BrowsingTyped
  <2> QED BY <2>1, <2>2
<1>16. ASSUME browsing'.pc = "page" PROVE StableAhead'
  <2>1. ASSUME NEW f \in browsing.stable \ browsing.shown, f \notin unreadable, f \notin page
        PROVE  Listed(f, browsing)' /\ PastCursor(f, browsing)'
    <3>1. f \in remaining /\ f \in CorpusIds
      BY <1>13, <2>1 DEF CorpusInv, BrowsingTyped
    <3>2. Listed(f, browsing) /\ PastCursor(f, browsing)
      BY <1>2, <3>1
    <3>3. Listed(f, browsing)'
      BY <1>7, <3>2 DEF Listed, InScope, Stored
    <3>4. CorpusKey(f, browsing.field)' = key(f)
      BY <1>7 DEF key, CorpusKey
    <3>5. page = {} => PastCursor(f, browsing)'
      BY <1>7, <3>2, <3>4 DEF PastCursor, key
    <3>6. page # {} => PastCursor(f, browsing)'
      BY <1>6, <1>7, <2>1, <3>1, <3>4 DEF PastCursor
    <3> QED BY <3>3, <3>5, <3>6
  <2> QED BY <1>7, <2>1 DEF StableAhead
<1> QED BY <1>7, <1>8, <1>9, <1>14, <1>15, <1>16 DEF BrowsingTyped

(* The next page, with every record read or with one that could not be.     *)
LEMMA ListCorpusKeeps ==
    ASSUME CorpusInv, ListCorpus
    PROVE  CorpusInv'
<1>1. /\ browsing.pc = "page" /\ UNCHANGED corpus /\ disturbances' \in 0..MaxDisturbances
      /\ ShowPage({}) \/ \E f \in CorpusIds : ShowPage({f})
  BY CorpusAssumption DEF ListCorpus, Disturbed, CorpusInv, CorpusTypeOK
<1>2. \E unreadable \in SUBSET CorpusIds : ShowPage(unreadable)
  BY <1>1
<1> QED BY <1>1, <1>2, ShowPageKeeps DEF CorpusInv, CorpusTypeOK

(* Every step keeps the invariant.                                          *)
LEMMA CorpusStep == CorpusInv /\ [CorpusNext]_corpusVars => CorpusInv'
<1>1. CorpusInv /\ UNCHANGED corpusVars => CorpusInv'
  BY DEF corpusVars, CorpusInv, CorpusTypeOK, BrowsingTyped, StoredTyped, CorpusPagesCompose,
     ShownBehind, StableAhead, PastCursor, Listed, InScope, Stored, CorpusKey
<1> QED
  BY <1>1, BrowseCorpusKeeps, ListCorpusKeeps, StopBrowsingKeeps, UploadToCorpusKeeps,
     ReplaceInCorpusKeeps DEF CorpusNext

(* The corpus, the listing and the count of disturbances keep their types.  *)
THEOREM CorpusTypeCorrect == CorpusSpec => []CorpusTypeOK
<1>1. CorpusInv => CorpusTypeOK
  BY DEF CorpusInv
<1> QED BY <1>1, CorpusInitHolds, CorpusStep, PTL DEF CorpusSpec

(* The pages of a listing (list_documents with its keyset cursor) hold no   *)
(* document twice that was not retitled in between, and when the last one   *)
(* has been read all that was listed and readable all along was shown.      *)
THEOREM PagesCompose == CorpusSpec => []CorpusPagesCompose
<1>1. CorpusInv => CorpusPagesCompose
  BY DEF CorpusInv
<1> QED BY <1>1, CorpusInitHolds, CorpusStep, PTL DEF CorpusSpec
===============================================================================
