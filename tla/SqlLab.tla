--------------------------------- MODULE SqlLab ---------------------------------
(***************************************************************************)
(* SQL Lab (sql_lab/): an operator's statement is guarded, executed over a *)
(* connection of the viewer role, and answered with its rows only once its *)
(* audit record is stored, over a connection of another role. The guard    *)
(* reads the statement alone, so its checks are one choice: the first one  *)
(* the statement fails. A row set is modelled by how many rows it has.     *)
(***************************************************************************)
EXTENDS Naturals, Sequences

CONSTANTS
    LabRequests,     \* requests to /sql/run, /sql/schema and /sql/analyze
    RowLimit,        \* sql_lab_row_limit
    MaxSampleRows,   \* MAX_SAMPLE_ROWS
    MaxLabFaults     \* bound: calls of a database or the model that fail

ASSUME SqlLabAssumption ==
    /\ RowLimit \in Nat \ {0} /\ MaxSampleRows \in Nat \ {0}
    /\ MaxLabFaults \in Nat

VARIABLES
    lab,         \* each request: its step, what is to be recorded, its response
    audit,       \* the records stored for each request, in order
    labFaults

labVars == <<lab, audit, labFaults>>

NewLabRequest == [at |-> "new", outcome |-> "none", rows |-> 0, truncated |-> FALSE,
                  response |-> "none"]

LabInit ==
    /\ lab = [r \in LabRequests |-> NewLabRequest]
    /\ audit = [r \in LabRequests |-> <<>>]
    /\ labFaults = 0

LabFault == labFaults < MaxLabFaults /\ labFaults' = labFaults + 1
LabAt(r, step) == lab[r].at = step
Answers(r, response) == lab' = [lab EXCEPT ![r].at = "done", ![r].response = response]
Records(r, outcome) == lab' = [lab EXCEPT ![r].at = "record", ![r].outcome = outcome]

(* require_operator: a 401 or 403 before anything else happens.            *)
Roles == {"nobody", "viewer", "operator"}
MayUseLab(role) == role = "operator"

(* The guard's checks, in their order. *)
Checks == <<"empty", "unparsable", "several", "not_select", "forbidden_node", "with_clause",
            "denied_function", "sensitive_table">>
(* What a submitted text is: refused by the handler, or the first check of  *)
(* the guard it fails, or a single read-only SELECT.                        *)
Texts == {"blank", "too_long", "select"} \cup {Checks[i] : i \in DOMAIN Checks}

(* POST /sql/run up to the guard. The handler's own checks leave no record. *)
SubmitSql(r) ==
    /\ LabAt(r, "new")
    /\ \E role \in Roles, text \in Texts :
          CASE ~MayUseLab(role) -> Answers(r, "forbidden")
            [] MayUseLab(role) /\ text \in {"blank", "too_long"} -> Answers(r, "invalid")
            [] MayUseLab(role) /\ text = "select" -> lab' = [lab EXCEPT ![r].at = "connect"]
            [] OTHER -> Records(r, "rejected")
    /\ UNCHANGED <<audit, labFaults>>

(* The viewer credentials and the connection, then the transaction's own    *)
(* commands, whose errors nothing maps: the request fails unrecorded.       *)
ConnectViewer(r) ==
    /\ LabAt(r, "connect")
    /\ \/ lab' = [lab EXCEPT ![r].at = "execute"] /\ UNCHANGED labFaults
       \/ LabFault /\ Records(r, "error")
       \/ LabFault /\ Answers(r, "server_error")
    /\ UNCHANGED audit

Shown(fetched) == IF fetched > RowLimit THEN RowLimit ELSE fetched

(* The statement is run and one row more than the limit is fetched. It      *)
(* fails or times out, or the rollback after it raises; or the rows are     *)
(* trimmed and their record comes before the response.                      *)
RunSelect(r) ==
    /\ LabAt(r, "execute")
    /\ \/ /\ \E fetched \in 0..(RowLimit + 1) :
                lab' = [lab EXCEPT ![r].at = "record", ![r].outcome = "success",
                                   ![r].rows = Shown(fetched), ![r].truncated = fetched > RowLimit]
          /\ UNCHANGED labFaults
       \/ LabFault /\ Records(r, "error")
       \/ LabFault /\ Answers(r, "server_error")
    /\ UNCHANGED audit

RecordOf(r) == [outcome |-> lab[r].outcome,
                rows    |-> IF lab[r].outcome = "success" THEN lab[r].rows ELSE 0]

(* Definitions whose comment begins with "Fault:" are not part of the       *)
(* specification: each is the definition after it with a plausible mistake. *)

(* Fault: the record is best effort. *)
RecordAndAnswer(r) ==
    /\ LabAt(r, "record")
    /\ Answers(r, IF lab[r].outcome = "success" THEN "rows" ELSE lab[r].outcome)
    /\ \/ audit' = [audit EXCEPT ![r] = Append(@, RecordOf(r))] /\ UNCHANGED labFaults
       \/ LabFault /\ UNCHANGED audit

(* _record, and the response. When storing the record fails nothing else is *)
(* returned; the commit may have happened all the same.                     *)
RecordOutcome(r) ==
    /\ LabAt(r, "record")
    /\ \/ /\ audit' = [audit EXCEPT ![r] = Append(@, RecordOf(r))]
          /\ Answers(r, IF lab[r].outcome = "success" THEN "rows" ELSE lab[r].outcome)
          /\ UNCHANGED labFaults
       \/ /\ LabFault
          /\ Answers(r, "withheld")
          /\ \/ UNCHANGED audit
             \/ audit' = [audit EXCEPT ![r] = Append(@, RecordOf(r))]

(* GET /sql/schema: the whole listing or none of it. *)
ListSchema(r) ==
    /\ LabAt(r, "new")
    /\ \/ Answers(r, "schema") /\ UNCHANGED labFaults
       \/ LabFault /\ Answers(r, "no_schema")
    /\ UNCHANGED audit

(* What the model may return for a chart specification. *)
ChartSpecs == [json : BOOLEAN, charts : 0..4, declarative : BOOLEAN]
ValidChartSpec(spec) == spec.json /\ spec.charts \in 1..3 /\ spec.declarative

(* POST /sql/analyze of rows an earlier request showed: only a sample of    *)
(* them goes to the model, and what it returns is validated.                *)
AnalyzeRows(r) ==
    /\ LabAt(r, "new")
    /\ \E q \in LabRequests :
          /\ lab[q].response = "rows"
          /\ \/ /\ \E spec \in ChartSpecs :
                      lab' = [lab EXCEPT ![r] = [NewLabRequest EXCEPT !.at = "done",
                          !.rows = IF lab[q].rows > MaxSampleRows THEN MaxSampleRows ELSE lab[q].rows,
                          !.response = IF ValidChartSpec(spec) THEN "chart" ELSE "invalid"]]
                /\ UNCHANGED labFaults
             \/ LabFault /\ Answers(r, "unavailable")
    /\ UNCHANGED audit

LabRequest(r) ==
    \/ SubmitSql(r) \/ ConnectViewer(r) \/ RunSelect(r) \/ RecordOutcome(r)
    \/ ListSchema(r) \/ AnalyzeRows(r)

LabNext == \E r \in LabRequests : LabRequest(r)

LabSpec == LabInit /\ [][LabNext]_labVars

------------------------------------------------------------------------------
(* Properties.                                                             *)

LabTypeOK ==
    /\ lab \in [LabRequests -> [at : {"new", "connect", "execute", "record", "done"},
                                outcome : {"none", "rejected", "error", "success"},
                                rows : 0..RowLimit, truncated : BOOLEAN,
                                response : {"none", "forbidden", "invalid", "rejected", "error",
                                            "server_error", "withheld", "rows", "schema",
                                            "no_schema", "chart", "unavailable"}]]
    /\ audit \in [LabRequests -> Seq([outcome : {"rejected", "error", "success"},
                                      rows : 0..RowLimit])]
    /\ labFaults \in 0..MaxLabFaults

(* "result rows are withheld when the request could not be recorded": the   *)
(* rows of a statement are shown only with its one success record, of as    *)
(* many rows, and no request is recorded twice or as what it was not.       *)
RowsAreRecorded ==
    \A r \in LabRequests :
        /\ lab[r].response = "rows" =>
              audit[r] = <<[outcome |-> "success", rows |-> lab[r].rows]>>
        /\ Len(audit[r]) <= 1
        /\ audit[r] # <<>> =>
              \/ lab[r].response = "withheld"
              \/ lab[r].response = (IF audit[r][1].outcome = "success" THEN "rows"
                                    ELSE audit[r][1].outcome)

(* "Exactly one audit record is persisted per request outcome": of every    *)
(* guarded statement whose record did not fail to be stored.                *)
OneRecordPerOutcome ==
    \A r \in LabRequests :
        lab[r].response \in {"rows", "rejected", "error", "server_error"} => Len(audit[r]) = 1
================================================================================
