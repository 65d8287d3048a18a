----------------------------- MODULE EvaluationRun -----------------------------
(***************************************************************************)
(* A deterministic evaluation run (service.run_evaluation, evaluation.py,  *)
(* retrieval_metrics.py). Every benchmark case is put to the RAG pipeline  *)
(* in turn, within the one request that asked for the run: the pipeline    *)
(* submits the query trace of its answer under the request's trace id, and *)
(* the retrieval metrics of a labelled case are computed from whatever is  *)
(* stored under that id when it is read.                                   *)
(***************************************************************************)
EXTENDS TraceWriters

CONSTANTS
    Cases,           \* the set's cases in their order: write, labelled, human_reviewed
    MaxEvaluationFaults

ASSUME EvaluationAssumption ==
    /\ Cases \in Seq([write : Writes, labelled : BOOLEAN, human_reviewed : BOOLEAN])
    /\ MaxEvaluationFaults \in Nat

VARIABLES
    evaluation,      \* the run under way: its step, the results so far, the case's checks
    evaluationFaults

evaluationVars == <<writerVars, evaluation, evaluationFaults>>

EvaluationInit ==
    /\ WritersInit
    /\ evaluation = [at |-> "requested", results |-> <<>>, passed |-> TRUE, ci |-> FALSE]
    /\ evaluationFaults = 0

NextCase == Cases[Len(evaluation.results) + 1]
MoreCases == Len(evaluation.results) < Len(Cases)

(* validate_evaluation_set: a set without a human-reviewed case is refused. *)
StartRunOfCases ==
    /\ evaluation.at = "requested"
    /\ evaluation' = [evaluation EXCEPT
           !.at = IF \E i \in DOMAIN Cases : Cases[i].human_reviewed THEN "query" ELSE "invalid"]
    /\ UNCHANGED <<writerVars, evaluationFaults>>

(* query: the answer's deterministic checks (citations, required facts,     *)
(* evidence status) pass or not, and its trace is handed to the pool.       *)
QueryCase ==
    /\ evaluation.at = "query" /\ MoreCases
    /\ GetPool(NextCase.write)
    /\ \E passed \in BOOLEAN :
          evaluation' = [evaluation EXCEPT !.at = "submit", !.passed = passed]
    /\ UNCHANGED evaluationFaults

SubmitTrace ==
    /\ evaluation.at = "submit"
    /\ Submit(NextCase.write)
    /\ evaluation' = [evaluation EXCEPT !.at = "score"]
    /\ UNCHANGED evaluationFaults

(* The case's result: with labels, the metrics of the stored trace's hits.  *)
ScoreCase ==
    /\ evaluation.at = "score"
    /\ evaluation' = [evaluation EXCEPT !.at = "query", !.results = Append(@,
           [passed  |-> evaluation.passed,
            metrics |-> IF NextCase.labelled THEN traces[TraceIdOf[NextCase.write]] ELSE NoWrite])]
    /\ UNCHANGED <<writerVars, evaluationFaults>>

(* ci_run_passed, and the run is created. *)
StoreRun ==
    /\ evaluation.at = "query" /\ ~MoreCases
    /\ evaluation' = [evaluation EXCEPT !.at = "stored",
           !.ci = \A i \in DOMAIN evaluation.results : evaluation.results[i].passed]
    /\ UNCHANGED <<writerVars, evaluationFaults>>

(* The pipeline or the store raises: the request fails and nothing is kept. *)
RunRaises ==
    /\ evaluation.at = "query"
    /\ evaluationFaults < MaxEvaluationFaults
    /\ evaluationFaults' = evaluationFaults + 1
    /\ evaluation' = [evaluation EXCEPT !.at = "failed"]
    /\ UNCHANGED writerVars

(* Requests that only answer a question submit their traces meanwhile.     *)
OtherRequest ==
    /\ \E w \in Writes \ {Cases[i].write : i \in DOMAIN Cases} : GetPool(w) \/ Submit(w)
    /\ UNCHANGED <<evaluation, evaluationFaults>>

EvaluationNext ==
    \/ OtherRequest
    \/ StartRunOfCases \/ QueryCase \/ SubmitTrace \/ ScoreCase \/ StoreRun \/ RunRaises
    \/ (WriterThread \/ PoolShutdown) /\ UNCHANGED <<evaluation, evaluationFaults>>

EvaluationSpec == EvaluationInit /\ [][EvaluationNext]_evaluationVars

------------------------------------------------------------------------------
(* "retrieval metrics only when the case carries relevance labels and the   *)
(* trace's retrieved hits are available": the hits a case is scored by are  *)
(* those that were retrieved for it.                                        *)
MetricsAreOfTheCase ==
    \A i \in DOMAIN evaluation.results :
        evaluation.results[i].metrics \in {NoWrite, Cases[i].write}
================================================================================
