---------------------------- MODULE DatabaseCopilot ----------------------------
(***************************************************************************)
(* A database or hybrid answer (copilot.py, router._route_hybrid): the     *)
(* model writes a statement, the guard approves and bounds it, it is run   *)
(* read-only and its rows are put into words. For a hybrid answer the      *)
(* documents are searched by another thread meanwhile. The guard reads the *)
(* statement alone, so its checks are one choice: the first that fails.    *)
(***************************************************************************)
EXTENDS Integers, Sequences

CONSTANTS
    CopilotMaxRows,  \* copilot_max_rows
    TableRows,       \* bound: the rows or groups the data has
    MaxCalls         \* attempts of retry_on_transient

ASSUME CopilotAssumption == {CopilotMaxRows, TableRows, MaxCalls} \subseteq Nat \ {0}

VARIABLES
    copilot,         \* the database branch: its step, statement, calls, rows
    documents,       \* the other branch of a hybrid answer, "none" for a database one
    produced,        \* history: the rows the database was made to produce
    copilotOutcome

copilotVars == <<copilot, documents, produced, copilotOutcome>>

(* A limit: none, a number, or something else that the guard cannot read.   *)
Limits == [kind : {"none", "other"}, rows : {0}] \cup [kind : {"number"}, rows : 0..TableRows]
(* What the guard cannot tell of a statement without GROUP BY: whether its  *)
(* aggregates make one row of it. They do not when it projects a set, or    *)
(* when the aggregate the guard found is of a nested query.                 *)
Shapes == {"one_row", "grouped", "many_rows"}
Statement == [shape : Shapes, limit : Limits]
NoLimit == [kind |-> "none", rows |-> 0]
Cap == [kind |-> "number", rows |-> CopilotMaxRows]
NoStatement == [shape |-> "one_row", limit |-> NoLimit]

CopilotInit ==
    /\ copilot = [at |-> "new", statement |-> NoStatement, calls |-> 0, rows |-> 0]
    /\ documents = "none"
    /\ produced = 0 /\ copilotOutcome = "none"

CopilotAt(step) == copilot.at = step
BranchRaises == copilot' = [copilot EXCEPT !.at = "raised"]

(* The route: the database alone, or both branches at once. *)
StartBranches ==
    /\ CopilotAt("new")
    /\ copilot' = [copilot EXCEPT !.at = "generate"]
    /\ documents' \in {"none", "running"}
    /\ UNCHANGED <<produced, copilotOutcome>>

(* _call_llm: tried again when it raises, then the branch raises. *)
CallRaises ==
    IF copilot.calls + 1 < MaxCalls THEN copilot' = [copilot EXCEPT !.calls = @ + 1]
    ELSE BranchRaises

(* generate_sql, and the guard's checks in their order: empty, unparsable,  *)
(* several statements, not a SELECT, a forbidden node, a denied function,   *)
(* a star, no aggregate, no table, a table or column that is not approved.  *)
GuardChecks == 1..11

GenerateSql ==
    /\ CopilotAt("generate")
    /\ \/ CallRaises
       \/ \E failed \in GuardChecks \cup {0}, statement \in Statement :
             IF failed # 0 THEN BranchRaises
             ELSE copilot' = [copilot EXCEPT !.at = "limit", !.statement = statement, !.calls = 0]
    /\ UNCHANGED <<documents, produced, copilotOutcome>>

(* Definitions whose comment begins with "Fault:" are not part of the       *)
(* specification: each is the definition after it with a plausible mistake. *)

(* Fault: a limit that is not a number is left alone. *)
LimitUnlessUnreadable(statement) ==
    LET limit == statement.limit IN
    CASE limit.kind = "none" -> IF statement.shape = "grouped" THEN Cap ELSE NoLimit
      [] limit.kind = "number" -> IF limit.rows <= CopilotMaxRows THEN limit ELSE Cap
      [] limit.kind = "other" -> limit

(* _apply_limit: a readable limit within the cap stays, any other is        *)
(* clamped; without one a grouped statement gets the cap and any other is   *)
(* taken for an aggregate of everything, which needs none.                  *)
Limited(statement) ==
    LET limit == statement.limit IN
    CASE limit.kind = "none" -> IF statement.shape = "grouped" THEN Cap ELSE NoLimit
      [] limit.kind = "number" -> IF limit.rows <= CopilotMaxRows THEN limit ELSE Cap
      [] limit.kind = "other" -> Cap

ApplyLimit ==
    /\ CopilotAt("limit")
    /\ copilot' = [copilot EXCEPT !.at = "execute",
                                  !.statement = [@ EXCEPT !.limit = Limited(copilot.statement)]]
    /\ UNCHANGED <<documents, produced, copilotOutcome>>

(* The rows that a statement may find: HAVING may leave none of one.        *)
Found(statement) == IF statement.shape = "one_row" THEN 0..1 ELSE 0..TableRows

(* What it produces of them; a limit that the guard could not read may let  *)
(* all of them through.                                                     *)
Produces(statement, found) ==
    IF statement.limit.kind = "number" /\ statement.limit.rows < found
    THEN statement.limit.rows ELSE found

(* execute: a read-only transaction with a timeout, of which at most the    *)
(* maximum is fetched. Any error raises.                                    *)
Execute ==
    /\ CopilotAt("execute")
    /\ \/ BranchRaises /\ UNCHANGED produced
       \/ \E found \in Found(copilot.statement) :
             LET n == Produces(copilot.statement, found) IN
             /\ produced' = n
             /\ copilot' = [copilot EXCEPT !.at = "answer",
                                           !.rows = IF n < CopilotMaxRows THEN n ELSE CopilotMaxRows]
    /\ UNCHANGED <<documents, copilotOutcome>>

(* The rows in words. *)
AnswerFromRows ==
    /\ CopilotAt("answer")
    /\ CallRaises \/ copilot' = [copilot EXCEPT !.at = "answered"]
    /\ UNCHANGED <<documents, produced, copilotOutcome>>

(* The documents' branch: an answer that is grounded or not, or an error.   *)
DocumentsReturn ==
    /\ documents = "running"
    /\ documents' \in {"grounded", "ungrounded", "raised"}
    /\ UNCHANGED <<copilot, produced, copilotOutcome>>

(* The pool of the two branches is left when both have ended. *)
BranchesEnded == copilot.at \in {"answered", "raised"} /\ documents # "running"

(* The evidence of the whole: that of the database alone, or of both.       *)
EvidenceOfBranches ==
    LET rows == copilot.rows > 0 IN
    CASE documents = "none" -> IF rows THEN "grounded" ELSE "no_rows"
      [] documents = "grounded" -> IF rows THEN "grounded" ELSE "partially_grounded"
      [] documents = "ungrounded" -> IF rows THEN "partially_grounded" ELSE "insufficient_evidence"

(* An error of either branch is the request's; the merge of the two answers *)
(* may raise too.                                                           *)
ReturnAnswer ==
    /\ copilotOutcome = "none" /\ BranchesEnded
    /\ IF copilot.at = "raised" \/ documents = "raised" THEN copilotOutcome' = "error"
       ELSE \/ copilotOutcome' = EvidenceOfBranches
            \/ documents # "none" /\ copilotOutcome' = "error"
    /\ UNCHANGED <<copilot, documents, produced>>

CopilotNext ==
    \/ StartBranches \/ GenerateSql \/ ApplyLimit \/ Execute \/ AnswerFromRows
    \/ DocumentsReturn \/ ReturnAnswer

CopilotSpec == CopilotInit /\ [][CopilotNext]_copilotVars

------------------------------------------------------------------------------
(* Properties.                                                             *)

GuardedStatement ==
    [shape : Shapes, limit : [kind : {"none", "other", "number"}, rows : Nat]]
CopilotTypeOK ==
    /\ copilot \in [at : {"new", "generate", "limit", "execute", "answer", "answered", "raised"},
                    statement : GuardedStatement, calls : 0..MaxCalls, rows : 0..CopilotMaxRows]
    /\ documents \in {"none", "running", "grounded", "ungrounded", "raised"}
    /\ produced \in Nat
    /\ copilotOutcome \in {"none", "error", "grounded", "partially_grounded", "no_rows",
                           "insufficient_evidence"}

(* A statement that has a limit, whatever it says, or that the guard could  *)
(* see to need one, or that is one row.                                     *)
Bounded(statement) == statement.shape = "many_rows" => statement.limit.kind # "none"

(* "Clamp or append the row limit": whatever limit the model wrote, a       *)
(* bounded statement makes the database produce no more rows than the       *)
(* maximum, and the answer was written from all that it produced. An        *)
(* answer from a part of the rows, as many as are fetched, is only ever of  *)
(* an ungrouped statement without a limit.                                  *)
StatementsAreBounded ==
    /\ Bounded(copilot.statement) => produced <= CopilotMaxRows
    /\ copilotOutcome \notin {"none", "error"} =>
          \/ copilot.rows = produced
          \/ ~Bounded(copilot.statement) /\ copilot.rows = CopilotMaxRows

(* "single-row aggregate; no limit needed": a statement without GROUP BY    *)
(* and LIMIT produces one row at most.                                      *)
UncappedIsOneRow ==
    copilot.at \in {"answer", "answered"} /\ copilot.statement.limit.kind = "none" => produced <= 1
================================================================================
