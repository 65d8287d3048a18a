------------------------------- MODULE ReplayRun -------------------------------
(***************************************************************************)
(* One replay run (replay.py): an operator creates it under an approved    *)
(* configuration and may cancel it, workers execute it stage by stage and  *)
(* look at the stored cancel flag between the stages. Every write is a     *)
(* read-modify-write under compare-and-set, so it is one step here; it may *)
(* raise although it landed. Workers may crash.                            *)
(***************************************************************************)
EXTENDS Naturals

CONSTANTS
    ReplayWorkers,
    NoReplayWorker,
    MaxReplayFaults    \* bound: writes that raise, and crashes

ASSUME ReplayAssumption ==
    /\ NoReplayWorker \notin ReplayWorkers
    /\ MaxReplayFaults \in Nat

VARIABLES
    replayRun,      \* replay_runs/<id>.json
    replayJobs,     \* execute_run in each worker
    replayCancels,  \* cancel_replay_run, one call at a time
    replayFaults    \* faults so far

replayVars == <<replayRun, replayJobs, replayCancels, replayFaults>>

TerminalReplayStates == {"completed", "failed", "cancelled"}
ReplayStates == {"queued", "running"} \cup TerminalReplayStates

(* The run names the worker whose result it carries. *)
ReplayRuns == [state : ReplayStates, cancel : BOOLEAN,
               result : ReplayWorkers \cup {NoReplayWorker}]
NoReplayRun == [state |-> "absent", cancel |-> FALSE, result |-> NoReplayWorker]

ReplayJobStates == {"idle", "check", "start", "execute", "settle"}
IdleReplayJob == [pc |-> "idle", stage |-> 0, target |-> "none"]

(* Boundaries of _execute_with_timeout: before classifying, after it, after *)
(* retrieval and after the SQL fixture; the last stage generates the answer. *)
LastReplayStage == 4

ReplayInit ==
    /\ replayRun = NoReplayRun
    /\ replayJobs = [w \in ReplayWorkers |-> IdleReplayJob]
    /\ replayCancels = "idle"
    /\ replayFaults = 0

ReplayFault == replayFaults < MaxReplayFaults /\ replayFaults' = replayFaults + 1

(* A compare-and-set that returns landed; one that raises may have landed. *)
ReplayWriteRaises(new) ==
    /\ ReplayFault
    /\ replayRun' \in {replayRun, new}

------------------------------------------------------------------------------
(* ReplayService.                                                          *)

(* The write that ends create_replay_run, for a request that named an       *)
(* approved configuration and an existing snapshot. The identifier is       *)
(* fresh, so the mutation, which ignores what is stored, finds nothing; the *)
(* run may be there although the caller was told that it failed.            *)
CreateReplayRun ==
    LET new == [NoReplayRun EXCEPT !.state = "queued"] IN
    /\ replayRun = NoReplayRun
    /\ \/ replayRun' = new /\ UNCHANGED replayFaults
       \/ ReplayWriteRaises(new)
    /\ UNCHANGED <<replayJobs, replayCancels>>

(* The first read: a run that is over already is returned as it is. *)
CancelReplayRun ==
    /\ replayRun # NoReplayRun
    /\ replayCancels = "idle"
    /\ replayRun.state \notin TerminalReplayStates
    /\ replayCancels' = "write"
    /\ UNCHANGED <<replayRun, replayJobs, replayFaults>>

(* Definitions whose comment begins with "Fault:" are not part of the       *)
(* specification: each is the definition after it with a plausible mistake. *)

(* Fault: the state read before the write is not checked again. *)
CancelledUnchecked(run) ==
    [run EXCEPT !.cancel = TRUE, !.state = "cancelled", !.result = NoReplayWorker]

Cancelled(run) ==
    IF run.state \in TerminalReplayStates THEN run
    ELSE [run EXCEPT !.cancel = TRUE, !.state = "cancelled", !.result = NoReplayWorker]

SaveCancellation ==
    /\ replayCancels = "write"
    /\ replayCancels' = "idle"
    /\ \/ replayRun' = Cancelled(replayRun) /\ UNCHANGED replayFaults
       \/ ReplayWriteRaises(Cancelled(replayRun))
    /\ UNCHANGED replayJobs

------------------------------------------------------------------------------
(* ReplayWorker.                                                           *)

ReplayJobGoes(w, pc, target) ==
    replayJobs' = [replayJobs EXCEPT ![w].pc = pc, ![w].target = target]
ReplayJobEnds(w) == replayJobs' = [replayJobs EXCEPT ![w] = IdleReplayJob]

(* _transition: a final state stays, a cancellation that came first wins. *)
Transitioned(run, target, w) ==
    IF run.state \in TerminalReplayStates THEN run
    ELSE IF run.cancel /\ target # "cancelled"
         THEN [run EXCEPT !.state = "cancelled", !.result = NoReplayWorker]
    ELSE [run EXCEPT !.state = target,
                     !.result = IF target = "completed" THEN w ELSE NoReplayWorker,
                     !.cancel = @ \/ target = "cancelled"]

(* execute_run reads the run and leaves everything but a queued one alone. *)
ExecuteRun(w) ==
    /\ replayRun.state = "queued"
    /\ replayJobs[w].pc = "idle"
    /\ ReplayJobGoes(w, "check", "none")
    /\ UNCHANGED <<replayRun, replayCancels, replayFaults>>

CheckBeforeStart(w) ==
    /\ replayJobs[w].pc = "check"
    /\ IF replayRun.cancel THEN ReplayJobGoes(w, "settle", "cancelled")
                           ELSE ReplayJobGoes(w, "start", "none")
    /\ UNCHANGED <<replayRun, replayCancels, replayFaults>>

(* Fault: the state that was really stored is not looked at. *)
StartRunRegardless(w) ==
    LET new == Transitioned(replayRun, "running", w) IN
    /\ replayJobs[w].pc = "start"
    /\ replayRun' = new
    /\ replayJobs' = [replayJobs EXCEPT ![w].pc = "execute", ![w].stage = 1]
    /\ UNCHANGED <<replayCancels, replayFaults>>

(* Only a worker whose transition to running was stored executes; running   *)
(* over running is, so two workers may both execute.                        *)
StartRun(w) ==
    LET new == Transitioned(replayRun, "running", w) IN
    /\ replayJobs[w].pc = "start"
    /\ \/ /\ replayRun' = new
          /\ IF new.state = "running"
             THEN replayJobs' = [replayJobs EXCEPT ![w].pc = "execute", ![w].stage = 1]
             ELSE ReplayJobEnds(w)
          /\ UNCHANGED replayFaults
       \/ ReplayWriteRaises(new) /\ ReplayJobEnds(w)
    /\ UNCHANGED replayCancels

(* A boundary: the timeout first, the stored flag next, then the stage,     *)
(* whose calls may raise (a missing fixture is one way).                    *)
ExecuteStage(w) ==
    /\ replayJobs[w].pc = "execute"
    /\ \/ ReplayJobGoes(w, "settle", "failed")
       \/ replayRun.cancel /\ ReplayJobGoes(w, "settle", "cancelled")
       \/ /\ ~replayRun.cancel
          /\ IF replayJobs[w].stage = LastReplayStage
             THEN ReplayJobGoes(w, "settle", "completed")
             ELSE replayJobs' = [replayJobs EXCEPT ![w].stage = @ + 1]
    /\ UNCHANGED <<replayRun, replayCancels, replayFaults>>

(* The last transition. A completion that raises is turned into a failure   *)
(* and written once more; any other write that raises ends the job.         *)
SettleRun(w) ==
    LET new == Transitioned(replayRun, replayJobs[w].target, w) IN
    /\ replayJobs[w].pc = "settle"
    /\ \/ replayRun' = new /\ ReplayJobEnds(w) /\ UNCHANGED replayFaults
       \/ /\ ReplayWriteRaises(new)
          /\ IF replayJobs[w].target = "completed"
             THEN ReplayJobGoes(w, "settle", "failed")
             ELSE ReplayJobEnds(w)
    /\ UNCHANGED replayCancels

ReplayWorkerCrash(w) ==
    /\ replayJobs[w].pc # "idle"
    /\ ReplayFault
    /\ ReplayJobEnds(w)
    /\ UNCHANGED <<replayRun, replayCancels>>

ReplayJobStep(w) == CheckBeforeStart(w) \/ StartRun(w) \/ ExecuteStage(w) \/ SettleRun(w)

ReplayNext ==
    \/ CreateReplayRun
    \/ CancelReplayRun
    \/ SaveCancellation
    \/ \E w \in ReplayWorkers : ExecuteRun(w) \/ ReplayJobStep(w) \/ ReplayWorkerCrash(w)

ReplaySpec == ReplayInit /\ [][ReplayNext]_replayVars

------------------------------------------------------------------------------
(* Properties.                                                             *)

ReplayTypeOK ==
    /\ replayRun \in ReplayRuns \cup {NoReplayRun}
    /\ replayJobs \in [ReplayWorkers -> [pc : ReplayJobStates, stage : 0..LastReplayStage,
                                         target : {"none"} \cup TerminalReplayStates]]
    /\ replayCancels \in {"idle", "write"}
    /\ replayFaults \in 0..MaxReplayFaults

(* The stored run, as its readers see it, implements the contract: a final  *)
(* state is never rewritten, by a cancellation, a second worker or a write  *)
(* that is repeated after it raised, and a result is stored with completed  *)
(* and with nothing else.                                                   *)
Contract == INSTANCE RunContract WITH
    Results <- ReplayWorkers, NoResult <- NoReplayWorker,
    NoRun <- [state |-> "absent", result |-> NoReplayWorker],
    run <- [state |-> replayRun.state, result |-> replayRun.result]

ReplayImplementsContract == Contract!Spec

(* Once a cancellation is stored no worker enters another stage: neither    *)
(* one that was about to start nor one that read the run while it ran.      *)
CancelledRunAdvances ==
    \E w \in ReplayWorkers : replayRun.cancel /\ replayJobs'[w].stage > replayJobs[w].stage

CancelledRunStops == [][~CancelledRunAdvances]_replayVars
================================================================================
