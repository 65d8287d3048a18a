------------------------------ MODULE MCAnswering ------------------------------
(***************************************************************************)
(* What answers a question, for TLC: the unified answer path over one      *)
(* conversation, the documents pipeline, the token stream, the database    *)
(* and hybrid pipelines, SQL Lab and the corpus listing. The parts share   *)
(* no state, so a behaviour exercises one of them.                         *)
(***************************************************************************)
EXTENDS AgenticRouter, RagAnswer, MarkerStream, DatabaseCopilot, SqlLab,
        CorpusListing, TLC

CONSTANTS a, b

MarkerOfTest == <<a, a, b>>

Interchangeable == Permutations(Requests)

VARIABLE exercised

parts == <<routerVars, ragVars, markerVars, copilotVars, labVars, corpusVars>>
vars == <<parts, exercised>>

MCInit ==
    /\ exercised \in {"ask", "documents", "tokens", "database", "lab", "corpus"}
    /\ RouterInit /\ RagInit /\ MarkerInit /\ CopilotInit /\ LabInit /\ CorpusInit

StepAsk ==
    /\ exercised = "ask" /\ RouterNext
    /\ UNCHANGED <<ragVars, markerVars, copilotVars, labVars, corpusVars, exercised>>
StepDocuments ==
    /\ exercised = "documents" /\ RagNext
    /\ UNCHANGED <<routerVars, markerVars, copilotVars, labVars, corpusVars, exercised>>
StepTokens ==
    /\ exercised = "tokens" /\ MarkerNext
    /\ UNCHANGED <<routerVars, ragVars, copilotVars, labVars, corpusVars, exercised>>
StepDatabase ==
    /\ exercised = "database" /\ CopilotNext
    /\ UNCHANGED <<routerVars, ragVars, markerVars, labVars, corpusVars, exercised>>
StepLab ==
    /\ exercised = "lab" /\ LabNext
    /\ UNCHANGED <<routerVars, ragVars, markerVars, copilotVars, corpusVars, exercised>>

StepCorpus ==
    /\ exercised = "corpus" /\ CorpusNext
    /\ UNCHANGED <<routerVars, ragVars, markerVars, copilotVars, labVars, exercised>>

MCNext == StepAsk \/ StepDocuments \/ StepTokens \/ StepDatabase \/ StepLab \/ StepCorpus

MCSpec == MCInit /\ [][MCNext]_vars
================================================================================
