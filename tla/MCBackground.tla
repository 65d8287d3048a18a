------------------------------ MODULE MCBackground ------------------------------
(***************************************************************************)
(* What runs beside the requests, for TLC: capture and its flush workers,  *)
(* the retention cycle, the streams' producer threads, the trace writers   *)
(* under an evaluation run, and the shared router. One upload and the job  *)
(* it queued share a trace id, in two processes; the API also captures the *)
(* stores' own warnings, and only the API shuts down through a hook. An    *)
(* evaluation run's cases share the trace id of the request that asked for *)
(* it. The parts share no state, so a behaviour exercises one of them.     *)
(***************************************************************************)
EXTENDS Telemetry, Retention, AskStream, EvaluationRun, RouterCache

CONSTANTS upload, ingest, warn, t1, case1, case2, question, t2

Emitters == {upload, ingest, warn}
PipeOf == (upload :> <<"api", "spans">>) @@ (ingest :> <<"worker", "spans">>)
          @@ (warn :> <<"api", "logs">>)
TraceOf == [s \in Emitters |-> t1]
EntriesOf == (upload :> 3) @@ (ingest :> 2) @@ (warn :> 2)

WriteTraceIds == (case1 :> t1) @@ (case2 :> t1) @@ (question :> t2)
TwoCases == <<[write |-> case1, labelled |-> FALSE, human_reviewed |-> TRUE],
              [write |-> case2, labelled |-> TRUE, human_reviewed |-> FALSE]>>

VARIABLE exercised

parts == <<telemetryVars, retentionVars, streamVars, evaluationVars, cacheVars>>
vars == <<parts, exercised>>

Init ==
    /\ exercised \in {"capture", "retention", "stream", "evaluation", "router"}
    /\ TelemetryInit /\ RetentionInit /\ StreamInit /\ EvaluationInit /\ CacheInit
    /\ exercised # "retention" => poisoned = {}

StepCapture ==
    /\ exercised = "capture" /\ TelemetryNext
    /\ UNCHANGED <<retentionVars, streamVars, evaluationVars, cacheVars, exercised>>
StepRetention ==
    /\ exercised = "retention" /\ RetentionNext
    /\ UNCHANGED <<telemetryVars, streamVars, evaluationVars, cacheVars, exercised>>
StepStream ==
    /\ exercised = "stream" /\ StreamNext
    /\ UNCHANGED <<telemetryVars, retentionVars, evaluationVars, cacheVars, exercised>>
StepEvaluation ==
    /\ exercised = "evaluation" /\ EvaluationNext
    /\ UNCHANGED <<telemetryVars, retentionVars, streamVars, cacheVars, exercised>>
StepRouter ==
    /\ exercised = "router" /\ CacheNext
    /\ UNCHANGED <<telemetryVars, retentionVars, streamVars, evaluationVars, exercised>>

Next == StepCapture \/ StepRetention \/ StepStream \/ StepEvaluation \/ StepRouter

(* A thread is scheduled only in the behaviours that have it. *)
Spec ==
    /\ Init /\ [][Next]_vars
    /\ \A pipe \in Pipes : WF_telemetryVars(exercised = "capture" /\ FlushLoop(pipe))
    /\ WF_retentionVars(exercised = "retention" /\ SweepStep)
    /\ WF_streamVars(exercised = "stream" /\ Producer)
    /\ WF_streamVars(exercised = "stream" /\ SendEvent)
================================================================================
