--------------------------- MODULE OperationsProofs ---------------------------
(***************************************************************************)
(* Proofs about what surrounds the answering of questions, for any number   *)
(* of workers, operators, callers, items and faults: replay runs, AI        *)
(* configuration versions, feedback review, the quality reports and the     *)
(* rate limiter. Each component has an inductive invariant of its own.      *)
(***************************************************************************)
EXTENDS ReplayRun, ConfigVersions, FeedbackReview, QualityReports, RateLimiter,
        DataLemmas, SequenceTheorems

-------------------------------------------------------------------------------
(* Replay runs. A replay run keeps the contract RunContract states, and a   *)
(* cancelled run is executed no further. Both follow from one inductive     *)
(* invariant, ReplayInv: a cancelled flag comes with the state cancelled,   *)
(* and whoever is about to write a run works on one that is stored, towards *)
(* a final state.                                                           *)

CancelIsFinal == replayRun.cancel => replayRun.state = "cancelled"

SettlesFinally ==
    \A w \in ReplayWorkers :
        replayJobs[w].pc = "settle" => replayJobs[w].target \in TerminalReplayStates

WritersHaveRun ==
    (replayCancels = "write" \/ \E w \in ReplayWorkers : replayJobs[w].pc # "idle")
        => replayRun.state # "absent"

ResultsAreCompleted ==
    replayRun.state # "completed" => replayRun.result = NoReplayWorker

ReplayInv ==
    /\ ReplayTypeOK /\ CancelIsFinal /\ SettlesFinally /\ WritersHaveRun
    /\ ResultsAreCompleted

------------------------------------------------------------------------------
(* What the two mutations make of a stored run.                            *)

(* A stored run: not the placeholder for one that does not exist yet. *)
StoredRun(run) == run \in ReplayRuns /\ (run.cancel => run.state = "cancelled")
                  /\ (run.state # "completed" => run.result = NoReplayWorker)

(* Cancelling a stored run, unless it was over, ends it as cancelled. *)
LEMMA CancelledRun ==
    ASSUME NEW run, StoredRun(run)
    PROVE  /\ StoredRun(Cancelled(run))
           /\ Cancelled(run) # run => /\ run.state \notin TerminalReplayStates
                                      /\ Cancelled(run).state = "cancelled"
  BY DEF Cancelled, StoredRun, ReplayRuns, ReplayStates, TerminalReplayStates

(* A worker's transition leaves a final state alone; any other it takes to  *)
(* the target or, if the run was cancelled, to cancelled.                   *)
LEMMA TransitionedRun ==
    ASSUME NEW run, StoredRun(run), NEW w \in ReplayWorkers,
           NEW target \in {"running"} \cup TerminalReplayStates
    PROVE  LET new == Transitioned(run, target, w) IN
           /\ StoredRun(new)
           /\ new # run => /\ run.state \notin TerminalReplayStates
                           /\ new.state \in {target, "cancelled"}
                           /\ new.result = IF new.state = "completed" THEN w
                                           ELSE NoReplayWorker
           /\ new.cancel => new.state = "cancelled"
  BY DEF Transitioned, StoredRun, ReplayRuns, ReplayStates, TerminalReplayStates

(* Whatever a worker or a canceller writes, landed or not, it writes to a   *)
(* stored run.                                                              *)
LEMMA RunIsStored ==
    ASSUME ReplayInv, replayRun.state # "absent"
    PROVE  StoredRun(replayRun)
  BY DEF ReplayInv, ReplayTypeOK, CancelIsFinal, ResultsAreCompleted, StoredRun, NoReplayRun

------------------------------------------------------------------------------
(* The writes of the stored run, action by action: Wrote is what a step did  *)
(* to it.                                                                    *)
Wrote ==
    \/ replayRun' = replayRun
    \/ replayRun = NoReplayRun /\ replayRun' = [NoReplayRun EXCEPT !.state = "queued"]
    \/ /\ replayRun.state # "absent" /\ StoredRun(replayRun) /\ StoredRun(replayRun')
       /\ replayRun'.state # "absent"
       /\ replayRun.state \notin TerminalReplayStates
       /\ \/ replayRun'.state \in {"running", "failed", "cancelled"}
          \/ replayRun'.state = "completed" /\ replayRun'.result \in ReplayWorkers

(* Every step of a worker, a canceller or a client writes the stored run by *)
(* one of the two mutations, creates it, or leaves it.                      *)
LEMMA StepsWrite ==
    ASSUME ReplayInv, [ReplayNext]_replayVars
    PROVE  Wrote
<1>1. CASE CreateReplayRun
  BY <1>1 DEF CreateReplayRun, ReplayWriteRaises, Wrote
<1>2. CASE SaveCancellation
  <2>1. StoredRun(replayRun)
    BY <1>2, RunIsStored DEF ReplayInv, WritersHaveRun, SaveCancellation
  <2>2. replayRun' \in {replayRun, Cancelled(replayRun)}
    BY <1>2 DEF SaveCancellation, ReplayWriteRaises
  <2> QED BY <2>1, <2>2, CancelledRun DEF Wrote, StoredRun, ReplayRuns, ReplayStates,
            TerminalReplayStates
<1>3. ASSUME NEW w \in ReplayWorkers, StartRun(w) \/ SettleRun(w)
      PROVE  Wrote
  <2>1. PICK target \in {"running"} \cup TerminalReplayStates :
            replayRun' \in {replayRun, Transitioned(replayRun, target, w)}
    BY <1>3 DEF StartRun, SettleRun, ReplayWriteRaises, ReplayInv, SettlesFinally
  <2>2. StoredRun(replayRun)
    BY <1>3, RunIsStored DEF ReplayInv, WritersHaveRun, StartRun, SettleRun
  <2> DEFINE new == Transitioned(replayRun, target, w)
  <2>3. /\ StoredRun(new)
        /\ new # replayRun => /\ replayRun.state \notin TerminalReplayStates
                              /\ new.state \in {target, "cancelled"}
                              /\ new.result = IF new.state = "completed" THEN w
                                              ELSE NoReplayWorker
    BY <2>2, TransitionedRun
  <2> HIDE DEF new
  <2>4. replayRun' \in {replayRun, new}
    BY <2>1 DEF new
  <2> QED BY <2>2, <2>3, <2>4 DEF Wrote, StoredRun, ReplayRuns, ReplayStates,
            TerminalReplayStates
<1>4. ASSUME NEW w \in ReplayWorkers,
             ExecuteRun(w) \/ CheckBeforeStart(w) \/ ExecuteStage(w) \/ ReplayWorkerCrash(w)
      PROVE  Wrote
  BY <1>4 DEF ExecuteRun, CheckBeforeStart, ExecuteStage, ReplayWorkerCrash, Wrote
<1>5. CASE CancelReplayRun \/ UNCHANGED replayVars
  BY <1>5 DEF CancelReplayRun, replayVars, Wrote
<1> QED BY <1>1, <1>2, <1>3, <1>4, <1>5 DEF ReplayNext, ReplayJobStep

------------------------------------------------------------------------------
(* The invariant.                                                          *)

(* There is no run, and nobody works on one, at the start.                  *)
LEMMA ReplayInitHolds == ReplayInit => ReplayInv
  BY ReplayAssumption DEF ReplayInit, ReplayInv, ReplayTypeOK, CancelIsFinal, SettlesFinally,
     WritersHaveRun, ResultsAreCompleted, NoReplayRun, IdleReplayJob, ReplayJobStates,
     LastReplayStage

(* What the invariant says of everything but the stored run. *)
CallsFit ==
    /\ replayJobs \in [ReplayWorkers -> [pc : ReplayJobStates, stage : 0..LastReplayStage,
                                         target : {"none"} \cup TerminalReplayStates]]
    /\ SettlesFinally
    /\ replayCancels \in {"idle", "write"}
    /\ replayFaults \in 0..MaxReplayFaults

(* A worker's step leaves every call at a control point with its target.    *)
LEMMA CallsKept ==
    ASSUME ReplayInv, [ReplayNext]_replayVars
    PROVE  CallsFit'
<1> USE DEF CallsFit, ReplayInv, ReplayTypeOK, SettlesFinally, ReplayJobGoes, ReplayJobEnds,
            IdleReplayJob, ReplayJobStates, TerminalReplayStates, LastReplayStage
<1>1. CASE CreateReplayRun \/ CancelReplayRun \/ UNCHANGED replayVars
  BY <1>1, ReplayAssumption
  DEF CreateReplayRun, CancelReplayRun, ReplayWriteRaises, ReplayFault, replayVars
<1>2. CASE SaveCancellation
  BY <1>2, ReplayAssumption DEF SaveCancellation, ReplayWriteRaises, ReplayFault
<1>3. ASSUME NEW w \in ReplayWorkers, ExecuteRun(w) \/ CheckBeforeStart(w)
      PROVE  CallsFit'
  BY <1>3 DEF ExecuteRun, CheckBeforeStart
<1>4. ASSUME NEW w \in ReplayWorkers, StartRun(w)
      PROVE  CallsFit'
  BY <1>4, ReplayAssumption DEF StartRun, ReplayWriteRaises, ReplayFault
<1>5. ASSUME NEW w \in ReplayWorkers, ExecuteStage(w)
      PROVE  CallsFit'
  BY <1>5 DEF ExecuteStage
<1>6. ASSUME NEW w \in ReplayWorkers, SettleRun(w) \/ ReplayWorkerCrash(w)
      PROVE  CallsFit'
  BY <1>6, ReplayAssumption DEF SettleRun, ReplayWorkerCrash, ReplayWriteRaises, ReplayFault
<1> HIDE DEF CallsFit, ReplayInv
<1> QED BY <1>1, <1>2, <1>3, <1>4, <1>5, <1>6 DEF ReplayNext, ReplayJobStep

(* Whoever is about to write works on a run that is stored.                 *)
LEMMA WritersKept ==
    ASSUME ReplayInv, [ReplayNext]_replayVars
    PROVE  WritersHaveRun'
<1>1. replayRun.state # "absent" => replayRun'.state # "absent"
  BY StepsWrite DEF Wrote, NoReplayRun
<1>2. CASE replayRun.state # "absent"
  BY <1>1, <1>2 DEF WritersHaveRun
<1>3. CASE replayRun.state = "absent"
  <2>1. replayRun = NoReplayRun /\ replayCancels # "write"
        /\ \A w \in ReplayWorkers : replayJobs[w].pc = "idle"
    BY <1>3 DEF ReplayInv, ReplayTypeOK, ReplayRuns, ReplayStates, TerminalReplayStates,
       WritersHaveRun
  <2>2. UNCHANGED <<replayJobs, replayCancels>>
    BY <2>1, <1>3 DEF ReplayNext, ReplayJobStep, replayVars, CreateReplayRun, CancelReplayRun,
       SaveCancellation, ExecuteRun, CheckBeforeStart, StartRun, ExecuteStage, SettleRun,
       ReplayWorkerCrash
  <2> QED BY <2>1, <2>2 DEF WritersHaveRun
<1> QED BY <1>2, <1>3

(* The inductive invariant of replay runs holds in every state.             *)
LEMMA ReplayInvariant == ReplaySpec => []ReplayInv
<1>1. ReplayInv /\ [ReplayNext]_replayVars => ReplayInv'
  <2> SUFFICES ASSUME ReplayInv, [ReplayNext]_replayVars PROVE ReplayInv'
    OBVIOUS
  <2>1. /\ replayRun' \in ReplayRuns \cup {NoReplayRun}
        /\ CancelIsFinal' /\ ResultsAreCompleted'
    BY StepsWrite DEF Wrote, StoredRun, ReplayInv, ReplayTypeOK, CancelIsFinal,
       ResultsAreCompleted, NoReplayRun, ReplayRuns, ReplayStates
  <2> QED BY <2>1, CallsKept, WritersKept DEF ReplayInv, ReplayTypeOK, CallsFit
<1> QED BY <1>1, ReplayInitHolds, PTL DEF ReplaySpec

------------------------------------------------------------------------------
(* Theorems.                                                               *)

(* Every reachable state is well typed (ReplayRun, execute_run).           *)
THEOREM ReplayTypeCorrect == ReplaySpec => []ReplayTypeOK
  BY ReplayInvariant, PTL DEF ReplayInv

(* A replay run moves forward to one final state, which no cancellation,    *)
(* second worker or repeated write ever rewrites, and carries a result      *)
(* exactly with completed (cancel_replay_run, _transition).                 *)
THEOREM ReplayKeepsContract == ReplaySpec => ReplayImplementsContract
<1>1. ReplayInit => Contract!Init
  BY DEF ReplayInit, NoReplayRun, Contract!Init
<1>2. ReplayInv /\ [ReplayNext]_replayVars
        => [Contract!Next]_([state |-> replayRun.state, result |-> replayRun.result])
  <2> SUFFICES ASSUME ReplayInv, [ReplayNext]_replayVars,
                      replayRun'.state # replayRun.state \/ replayRun'.result # replayRun.result
               PROVE  Contract!Next
    OBVIOUS
  <2>1. CASE replayRun = NoReplayRun /\ replayRun' = [NoReplayRun EXCEPT !.state = "queued"]
    BY <2>1 DEF Contract!Next, Contract!Create, NoReplayRun
  <2>2. CASE /\ replayRun.state # "absent" /\ StoredRun(replayRun')
             /\ replayRun.state \notin TerminalReplayStates
             /\ \/ replayRun'.state \in {"running", "failed", "cancelled"}
                \/ replayRun'.state = "completed" /\ replayRun'.result \in ReplayWorkers
    BY <2>2 DEF Contract!Next, Contract!Settle, Contract!Final, StoredRun,
       TerminalReplayStates
  <2> QED BY <2>1, <2>2, StepsWrite DEF Wrote
<1> QED BY <1>1, <1>2, ReplayInvariant, PTL
        DEF ReplaySpec, ReplayImplementsContract, Contract!Spec

(* Once a cancellation is stored the run is over: no worker enters another   *)
(* stage of it, however far each had come when it was stored (execute_run,   *)
(* _execute_with_timeout), and none of the writes still under way changes    *)
(* the stored run again (cancel_replay_run, _transition).                    *)
THEOREM CancelledStaysPut ==
    ReplaySpec => CancelledRunStops /\ [][replayRun.cancel => replayRun' = replayRun]_replayVars
<1>1. ReplayInv /\ [ReplayNext]_replayVars => [~CancelledRunAdvances]_replayVars
  <2> SUFFICES ASSUME ReplayInv, ReplayNext, replayRun.cancel, NEW w \in ReplayWorkers
               PROVE  ~(replayJobs'[w].stage > replayJobs[w].stage)
    BY DEF CancelledRunAdvances
  <2> USE DEF ReplayInv, ReplayTypeOK, ReplayJobGoes, ReplayJobEnds, IdleReplayJob,
              LastReplayStage
  <2>1. CASE CreateReplayRun \/ CancelReplayRun \/ SaveCancellation
    BY <2>1 DEF CreateReplayRun, CancelReplayRun, SaveCancellation
  <2>2. ASSUME NEW v \in ReplayWorkers, StartRun(v)
        PROVE  ~(replayJobs'[w].stage > replayJobs[w].stage)
    BY <2>2 DEF StartRun, Transitioned, CancelIsFinal, TerminalReplayStates
  <2>3. ASSUME NEW v \in ReplayWorkers,
               \/ ExecuteRun(v) \/ CheckBeforeStart(v) \/ ExecuteStage(v)
               \/ SettleRun(v) \/ ReplayWorkerCrash(v)
        PROVE  ~(replayJobs'[w].stage > replayJobs[w].stage)
    BY <2>3 DEF ExecuteRun, CheckBeforeStart, ExecuteStage, SettleRun, ReplayWorkerCrash
  <2> QED BY <2>1, <2>2, <2>3 DEF ReplayNext, ReplayJobStep
<1>2. ReplayInv /\ [ReplayNext]_replayVars
        => [replayRun.cancel => replayRun' = replayRun]_replayVars
  BY StepsWrite DEF Wrote, ReplayInv, CancelIsFinal, NoReplayRun, TerminalReplayStates
<1> QED BY <1>1, <1>2, ReplayInvariant, PTL DEF ReplaySpec, CancelledRunStops

-------------------------------------------------------------------------------
(* AI configuration versions. The activation events of a configuration      *)
(* explain its active pointer, and traces are stamped only with versions    *)
(* that were active and whose objects exist. The inductive invariant adds   *)
(* what each call under way knows of the version it holds: an object was    *)
(* created, it is in the history, or it was activated once.                 *)

Activated == {configIndex.events[i].selected : i \in 1..Len(configIndex.events)}

(* What a call knows about the version it holds. *)
Knows(c) ==
    /\ configCalls[c].pc = "append" => configCalls[c].version \in configVersions
    /\ configCalls[c].pc \in {"select", "activate"} =>
            configCalls[c].version \in configIndex.versions
    /\ configCalls[c].pc \in {"load", "stamp"} => configCalls[c].version \in Activated

CallsKnow == \A c \in ConfigCallers : Knows(c)

HistoryIsStored ==
    /\ Activated \subseteq configIndex.versions
    /\ configIndex.versions \subseteq configVersions
    /\ configStamps \subseteq Activated

ConfigInv == ConfigTypeOK /\ AuditExplainsActive /\ CallsKnow /\ HistoryIsStored

------------------------------------------------------------------------------
(* The index.                                                              *)

(* What the activation of v makes of the index (rollback.mutate). *)
LEMMA ActivationAppends ==
    ASSUME ConfigInv, NEW c \in ConfigCallers, NEW v \in configIndex.versions,
           configIndex' = ActivatedBy(c, v)
    PROVE  /\ configIndex' \in [versions : SUBSET ConfigVersionIds, active : ConfigPointers,
                                events : Seq(ActivationEvents)]
           /\ AuditExplainsActive'
           /\ configIndex'.versions = configIndex.versions
           /\ Activated' = Activated \cup {v}
<1> DEFINE old == configIndex.events
           e == [operator |-> c, previous |-> configIndex.active, selected |-> v]
<1>1. /\ old \in Seq(ActivationEvents) /\ configIndex.active \in ConfigPointers
      /\ configIndex.versions \subseteq ConfigVersionIds
  BY DEF ConfigInv, ConfigTypeOK
<1>2. e \in ActivationEvents
  BY <1>1 DEF ActivationEvents
<1>3. configIndex' = [versions |-> configIndex.versions, active |-> v,
                      events |-> Append(old, e)]
  BY <1>1 DEF ActivatedBy, ActiveConfigVersion, ConfigInv, ConfigTypeOK
<1> HIDE DEF e
<1>4. PICK n \in Nat : n = Len(old)
  BY <1>1
<1>5. /\ Append(old, e) \in Seq(ActivationEvents)
      /\ Len(Append(old, e)) = n + 1
      /\ \A i \in 1..n : Append(old, e)[i] = old[i]
      /\ Append(old, e)[n + 1] = e
  BY <1>1, <1>2, <1>4
<1>6. /\ configIndex'.events = Append(old, e) /\ configIndex'.active = v
      /\ configIndex'.versions = configIndex.versions
  BY <1>3
<1>7. /\ configIndex.active = SelectedAt(n)
      /\ \A i \in 1..n : old[i].previous = SelectedAt(i - 1)
  BY <1>4 DEF ConfigInv, AuditExplainsActive
<1>8. \A i \in 0..n : SelectedAt(i)' = SelectedAt(i)
  BY <1>5, <1>6 DEF SelectedAt
<1>9. e.selected = v /\ e.previous = configIndex.active
  BY DEF e
<1>10. AuditExplainsActive'
  <2>1. SelectedAt(n + 1)' = v
    BY <1>5, <1>6, <1>9 DEF SelectedAt
  <2>2. ASSUME NEW i \in 1..(n + 1)
        PROVE  Append(old, e)[i].previous = SelectedAt(i - 1)'
    <3>1. CASE i = n + 1
      <4>1. i - 1 = n
        BY <3>1
      <4>2. SelectedAt(i - 1)' = configIndex.active
        BY <4>1, <1>7, <1>8
      <4> QED BY <3>1, <4>2, <1>5, <1>9
    <3>2. CASE i \in 1..n
      BY <3>2, <1>5, <1>7, <1>8
    <3>3. i = n + 1 \/ i \in 1..n
      OBVIOUS
    <3> QED BY <3>1, <3>2, <3>3
  <2> QED BY <2>1, <2>2, <1>5, <1>6 DEF AuditExplainsActive
<1>11. configIndex' \in [versions : SUBSET ConfigVersionIds, active : ConfigPointers,
                         events : Seq(ActivationEvents)]
  BY <1>1, <1>3, <1>5 DEF ConfigPointers
<1>12. Activated' = Activated \cup {v}
  BY <1>4, <1>5, <1>6, <1>9 DEF Activated
<1> QED BY <1>6, <1>10, <1>11, <1>12

(* Every other step leaves the events and the pointer alone. *)
LEMMA EventsKept ==
    ASSUME UNCHANGED <<configIndex.events, configIndex.active>>
    PROVE  /\ AuditExplainsActive => AuditExplainsActive'
           /\ Activated' = Activated
  BY DEF AuditExplainsActive, SelectedAt, Activated

(* The active version was activated once. *)
LEMMA ActiveWasActivated ==
    ASSUME ConfigInv, configIndex.active # NoConfigVersion
    PROVE  configIndex.active \in Activated
<1>1. configIndex.active = SelectedAt(Len(configIndex.events)) /\ Len(configIndex.events) \in Nat
  BY DEF ConfigInv, ConfigTypeOK, AuditExplainsActive
<1> QED BY <1>1 DEF SelectedAt, Activated

------------------------------------------------------------------------------
(* The invariant.                                                          *)

(* No version exists and none is active at the start.                       *)
LEMMA ConfigInitHolds == ConfigInit => ConfigInv
<1> SUFFICES ASSUME ConfigInit PROVE ConfigInv
  OBVIOUS
<1>1. configIndex.events = <<>> /\ configIndex.active = NoConfigVersion
      /\ configIndex.versions = {}
  BY DEF ConfigInit
<1>2. Activated = {} /\ AuditExplainsActive
  BY <1>1 DEF Activated, AuditExplainsActive, SelectedAt
<1>3. ConfigTypeOK
  BY ConfigAssumption DEF ConfigInit, ConfigTypeOK, ConfigPointers, IdleConfigCall
<1> QED BY <1>1, <1>2, <1>3 DEF ConfigInv, ConfigInit, CallsKnow, Knows, HistoryIsStored,
        IdleConfigCall

(* A step of one call that leaves the store's objects and the index alone,  *)
(* or adds to them, keeps what the other calls know.                        *)
LEMMA KnowledgeGrows ==
    ASSUME ConfigInv, NEW c \in ConfigCallers, NEW pc, NEW v,
           ConfigGoes(c, pc, v),
           configVersions \subseteq configVersions',
           configIndex.versions \subseteq configIndex'.versions,
           Activated \subseteq Activated',
           pc \in {"append"} => v \in configVersions',
           pc \in {"select", "activate"} => v \in configIndex'.versions,
           pc \in {"load", "stamp"} => v \in Activated'
    PROVE  CallsKnow'
  BY DEF ConfigInv, ConfigTypeOK, CallsKnow, Knows, ConfigGoes

(* Creating a version's object before the index names it.                   *)
LEMMA CreationKeeps ==
    ASSUME ConfigInv, NEW c \in ConfigCallers, CreateConfigVersion(c)
    PROVE  ConfigInv'
<1>1. PICK v \in ConfigVersionIds \ configVersions :
          configVersions' = configVersions \cup {v} /\ ConfigGoes(c, "append", v)
  BY DEF CreateConfigVersion
<1>2. UNCHANGED <<configApproved, configIndex, configStamps, configFaults>>
  BY DEF CreateConfigVersion
<1>3. ConfigTypeOK'
  BY <1>1, <1>2 DEF ConfigInv, ConfigTypeOK, ConfigGoes, ConfigPointers
<1>4. AuditExplainsActive' /\ Activated' = Activated
  BY <1>2, EventsKept DEF ConfigInv
<1>5. CallsKnow'
  BY <1>1, <1>2, <1>4, KnowledgeGrows
<1> QED BY <1>1, <1>2, <1>3, <1>4, <1>5 DEF ConfigInv, HistoryIsStored

(* Appending the created version to the index, unless another writer was    *)
(* first.                                                                   *)
LEMMA AppendKeeps ==
    ASSUME ConfigInv, NEW c \in ConfigCallers, AppendConfigVersion(c)
    PROVE  ConfigInv'
<1> DEFINE v == configCalls[c].version
<1>1. v \in configVersions /\ v \in ConfigVersionIds
  BY DEF AppendConfigVersion, ConfigCallAt, ConfigInv, CallsKnow, Knows, ConfigTypeOK
<1>2. /\ configIndex' = [configIndex EXCEPT !.versions = @ \cup {v}]
      /\ UNCHANGED <<configVersions, configApproved, configStamps, configFaults>>
  BY DEF AppendConfigVersion
<1>3. /\ configIndex'.versions = configIndex.versions \cup {v}
      /\ UNCHANGED <<configIndex.events, configIndex.active>>
  BY <1>2 DEF ConfigInv, ConfigTypeOK
<1>4. AuditExplainsActive' /\ Activated' = Activated
  BY <1>3, EventsKept DEF ConfigInv
<1>5. ConfigGoes(c, "select", v) \/ ConfigGoes(c, "idle", NoConfigVersion)
  BY DEF AppendConfigVersion, ConfigEnds
<1>6. ConfigTypeOK'
  BY <1>1, <1>2, <1>5 DEF ConfigInv, ConfigTypeOK, ConfigGoes, ConfigPointers
<1>7. CallsKnow'
  BY <1>1, <1>2, <1>3, <1>4, <1>5, KnowledgeGrows
<1> QED BY <1>1, <1>2, <1>3, <1>4, <1>6, <1>7 DEF ConfigInv, HistoryIsStored

(* Activating a version, or rolling back to one, appends the event that     *)
(* explains the pointer.                                                    *)
LEMMA ActivationKeeps ==
    ASSUME ConfigInv, NEW c \in ConfigCallers, ActivateConfigVersion(c)
    PROVE  ConfigInv'
<1> DEFINE v == configCalls[c].version
<1>1. v \in configIndex.versions /\ configIndex' = ActivatedBy(c, v)
      /\ UNCHANGED <<configVersions, configApproved, configStamps>>
  BY DEF ActivateConfigVersion
<1>2. /\ configIndex' \in [versions : SUBSET ConfigVersionIds, active : ConfigPointers,
                           events : Seq(ActivationEvents)]
      /\ AuditExplainsActive'
      /\ configIndex'.versions = configIndex.versions
      /\ Activated' = Activated \cup {v}
  BY <1>1, ActivationAppends
<1>3. \/ ConfigGoes(c, "stamp", v) /\ UNCHANGED configFaults
      \/ ConfigGoes(c, "idle", NoConfigVersion) /\ UNCHANGED configFaults
      \/ ConfigFault /\ UNCHANGED configCalls
  BY DEF ActivateConfigVersion, ConfigEnds
<1>4. ConfigTypeOK'
  <2>1. v \in ConfigVersionIds /\ configFaults \in 0..MaxConfigFaults
    BY <1>1 DEF ConfigInv, ConfigTypeOK
  <2>2. configCalls' \in [ConfigCallers ->
          [pc : {"idle", "append", "select", "activate", "bootstrap", "load", "stamp"},
           version : ConfigPointers]]
    BY <1>3, <2>1 DEF ConfigInv, ConfigTypeOK, ConfigGoes, ConfigPointers
  <2>3. configFaults' \in 0..MaxConfigFaults
    BY <1>3, <2>1, ConfigAssumption DEF ConfigFault
  <2> QED BY <1>1, <1>2, <2>2, <2>3 DEF ConfigInv, ConfigTypeOK
<1>5. CallsKnow'
  <2>1. CASE UNCHANGED configCalls
    BY <2>1, <1>1, <1>2 DEF ConfigInv, CallsKnow, Knows
  <2>2. CASE ConfigGoes(c, "stamp", v) \/ ConfigGoes(c, "idle", NoConfigVersion)
    BY <2>2, <1>1, <1>2, KnowledgeGrows
  <2> QED BY <2>1, <2>2, <1>3
<1> QED BY <1>1, <1>2, <1>4, <1>5 DEF ConfigInv, HistoryIsStored

(* Every other step of a call only moves it, with a version it knows, and   *)
(* may stamp a trace with one that was activated.                           *)
LEMMA MovesKeep ==
    ASSUME ConfigInv, NEW c \in ConfigCallers,
           UNCHANGED <<configVersions, configIndex>>,
           configApproved' \subseteq configVersions,
           configStamps' \subseteq Activated,
           configFaults' \in 0..MaxConfigFaults,
           CallsKnow',
           configCalls' \in [ConfigCallers ->
              [pc : {"idle", "append", "select", "activate", "bootstrap", "load", "stamp"},
               version : ConfigPointers]]
    PROVE  ConfigInv'
<1>1. AuditExplainsActive' /\ Activated' = Activated
  BY EventsKept DEF ConfigInv
<1>2. Activated \subseteq ConfigVersionIds
  BY DEF ConfigInv, HistoryIsStored, ConfigTypeOK
<1> QED BY <1>1, <1>2 DEF ConfigInv, ConfigTypeOK, HistoryIsStored

(* One step of any caller. *)
LEMMA ConfigStepKeeps ==
    ASSUME ConfigInv, ConfigNext
    PROVE  ConfigInv'
<1> PICK c \in ConfigCallers :
        \/ CreateByOperator(c) \/ AppendConfigVersion(c) \/ ApproveConfigVersion(c)
        \/ RollbackConfig(c) \/ RollbackBootstrapped(c) \/ ActivateConfigVersion(c)
        \/ ConfigCallRaises(c)
        \/ ResolveConfig(c) \/ LoadResolved(c) \/ BootstrapDefault(c) \/ StampTrace(c)
  BY DEF ConfigNext
<1> DEFINE Calls == [ConfigCallers ->
              [pc : {"idle", "append", "select", "activate", "bootstrap", "load", "stamp"},
               version : ConfigPointers]]
<1>0. /\ configCalls \in Calls /\ configFaults \in 0..MaxConfigFaults
      /\ configApproved \subseteq configVersions /\ configStamps \subseteq Activated
      /\ configIndex.versions \subseteq ConfigVersionIds
      /\ configIndex.active \in ConfigPointers
  BY DEF ConfigInv, ConfigTypeOK, HistoryIsStored
<1>1. CASE CreateByOperator(c) \/ BootstrapDefault(c)
  BY <1>1, CreationKeeps DEF CreateByOperator, BootstrapDefault
<1>2. CASE AppendConfigVersion(c)
  BY <1>2, AppendKeeps
<1>3. CASE ActivateConfigVersion(c)
  BY <1>3, ActivationKeeps
<1>4. CASE ApproveConfigVersion(c)
  <2>1. configApproved' \subseteq configVersions
        /\ UNCHANGED <<configVersions, configIndex, configCalls, configStamps, configFaults>>
    BY <1>4, <1>0 DEF ApproveConfigVersion
  <2>2. CallsKnow'
    BY <2>1 DEF ConfigInv, CallsKnow, Knows, Activated
  <2> QED BY <2>1, <2>2, <1>0, MovesKeep
<1>5. CASE RollbackConfig(c) \/ RollbackBootstrapped(c)
  <2>1. PICK v \in configIndex.versions : ConfigGoes(c, "activate", v)
    BY <1>5 DEF RollbackConfig, RollbackBootstrapped, ConfigCallAt, ConfigInv, CallsKnow, Knows
  <2>2. UNCHANGED <<configVersions, configApproved, configIndex, configStamps, configFaults>>
    BY <1>5 DEF RollbackConfig, RollbackBootstrapped
  <2>3. CallsKnow'
    BY <2>1, <2>2, KnowledgeGrows DEF Activated
  <2>4. configCalls' \in Calls
    BY <2>1, <1>0 DEF ConfigGoes, ConfigPointers
  <2> QED BY <2>2, <2>3, <2>4, <1>0, MovesKeep
<1>6. CASE ConfigCallRaises(c)
  <2>1. ConfigGoes(c, "idle", NoConfigVersion)
        /\ UNCHANGED <<configVersions, configApproved, configIndex, configStamps>>
    BY <1>6 DEF ConfigCallRaises, ConfigEnds
  <2>2. CallsKnow'
    BY <2>1, KnowledgeGrows DEF Activated
  <2>3. configCalls' \in Calls
    BY <2>1, <1>0 DEF ConfigGoes, ConfigPointers
  <2>4. configFaults' \in 0..MaxConfigFaults
    BY <1>6, <1>0, ConfigAssumption DEF ConfigCallRaises, ConfigFault
  <2> QED BY <2>1, <2>2, <2>3, <2>4, <1>0, MovesKeep
<1>7. CASE ResolveConfig(c)
  <2>1. \/ ConfigGoes(c, "bootstrap", NoConfigVersion)
        \/ configIndex.active \in Activated /\ ConfigGoes(c, "load", configIndex.active)
    BY <1>7, ActiveWasActivated DEF ResolveConfig, ActiveConfigVersion
  <2>2. UNCHANGED <<configVersions, configApproved, configIndex, configStamps, configFaults>>
    BY <1>7 DEF ResolveConfig
  <2>3. CallsKnow'
    BY <2>1, <2>2, KnowledgeGrows DEF Activated
  <2>4. configCalls' \in Calls
    BY <2>1, <1>0 DEF ConfigGoes, ConfigPointers
  <2> QED BY <2>2, <2>3, <2>4, <1>0, MovesKeep
<1>8. CASE LoadResolved(c) \/ StampTrace(c)
  <2> DEFINE v == configCalls[c].version
  <2>1. v \in Activated
    BY <1>8 DEF LoadResolved, StampTrace, ConfigCallAt, ConfigInv, CallsKnow, Knows
  <2>2. ConfigGoes(c, "stamp", v) \/ ConfigGoes(c, "idle", NoConfigVersion)
    BY <1>8 DEF LoadResolved, StampTrace, ConfigEnds
  <2>3. /\ UNCHANGED <<configVersions, configApproved, configIndex, configFaults>>
        /\ configStamps' \subseteq configStamps \cup {v}
    BY <1>8 DEF LoadResolved, StampTrace
  <2>4. CallsKnow'
    BY <2>1, <2>2, <2>3, KnowledgeGrows DEF Activated
  <2>5. configCalls' \in Calls
    BY <2>2, <1>0 DEF ConfigGoes, ConfigPointers
  <2> QED BY <2>1, <2>3, <2>4, <2>5, <1>0, MovesKeep
<1> QED BY <1>1, <1>2, <1>3, <1>4, <1>5, <1>6, <1>7, <1>8

(* The inductive invariant of AI configuration versions holds in every      *)
(* state.                                                                   *)
LEMMA ConfigInvariant == ConfigSpec => []ConfigInv
<1>1. ConfigInv /\ [ConfigNext]_configVars => ConfigInv'
  <2>1. ConfigInv /\ UNCHANGED configVars => ConfigInv'
    BY DEF configVars, ConfigInv, ConfigTypeOK, AuditExplainsActive, SelectedAt, CallsKnow,
       Knows, HistoryIsStored, Activated
  <2> QED BY <2>1, ConfigStepKeeps
<1> QED BY <1>1, ConfigInitHolds, PTL DEF ConfigSpec

------------------------------------------------------------------------------
(* Theorems.                                                               *)

(* Every reachable state is well typed (AIConfigurationStore).             *)
THEOREM ConfigTypeCorrect == ConfigSpec => []ConfigTypeOK
  BY ConfigInvariant, PTL DEF ConfigInv

(* The activation events account for the active pointer without a gap, with *)
(* any operators and bootstraps at once and writes applied twice            *)
(* (AIConfigurationStore.rollback).                                         *)
THEOREM AuditIsComplete == ConfigSpec => []AuditExplainsActive
  BY ConfigInvariant, PTL DEF ConfigInv

(* Every version stamped on a trace was active, and every version that was  *)
(* is in the history and the store (create_version, resolve).               *)
THEOREM StampsAreSound == ConfigSpec => []StampsWereActive
<1>1. ConfigInv => StampsWereActive
  BY DEF ConfigInv, HistoryIsStored, Activated, StampsWereActive
<1> QED BY <1>1, ConfigInvariant, PTL

-------------------------------------------------------------------------------
(* Feedback review. A reader of the inbox misses nothing that matched all   *)
(* along and sees nothing twice, and a promoted item has its evaluation     *)
(* case. The inductive invariant says on which side of the cursor each item *)
(* lies, and what a promotion under way has written.                        *)

(* A promotion under way has an item that is stored and expects an answer;  *)
(* once its case is created, or it reports so, the case is there.           *)
Promotions == [pc : {"idle", "create", "point"}, item : Nat,
               outcome : {"none", "promoted", "already"}]

PromotionSound(p) ==
    LET item == promotions[p].item IN
    /\ promotions[p].pc # "idle" => item \in Submitted /\ feedback[item].expected
    /\ promotions[p].pc = "point" => item \in evaluationCases
    /\ promotions[p].outcome # "none" => item \in evaluationCases

CasesSound ==
    /\ evaluationCases \subseteq Submitted
    /\ \A f \in evaluationCases : feedback[f].expected
    /\ \A f \in Submitted : feedback[f].promoted => f \in evaluationCases

FeedbackTyped ==
    /\ feedback \in [FeedbackIds -> FeedbackRecords \cup {NoFeedback}]
    /\ promotions \in [Promoters -> Promotions]
    /\ reviews \in 0..MaxReviews /\ feedbackFaults \in 0..MaxFeedbackFaults

(* The cursor is the key of an item: what was shown does not precede it,    *)
(* and what matched all along and was not shown does.                       *)
After(f, cursor) == cursor = <<>> \/ Precedes(OrderingKey(f), cursor)

InboxTyped ==
    /\ DOMAIN inbox = {"pc", "filter", "after", "shown", "twice", "stable"}
    /\ inbox.pc \in {"idle", "page", "done"}
    /\ inbox.after = <<>> \/ inbox.after \in Nat \X Nat
    /\ inbox.shown \subseteq Submitted
    /\ inbox.stable \subseteq Selected(feedback, inbox.filter)

InboxSound ==
    /\ ~inbox.twice
    /\ \A f \in inbox.shown : ~After(f, inbox.after)
    /\ inbox.pc # "done" => \A f \in inbox.stable \ inbox.shown : After(f, inbox.after)
    /\ inbox.pc = "done" => inbox.stable \subseteq inbox.shown
    /\ IsFiniteSet(Submitted)

FeedbackInv ==
    /\ FeedbackTyped /\ CasesSound /\ (\A p \in Promoters : PromotionSound(p))
    /\ InboxTyped /\ InboxSound

(* The invariant implies the types and the two properties of the inbox and  *)
(* of the promotions.                                                       *)
LEMMA FeedbackInvImplies == FeedbackInv => FeedbackTypeOK /\ PagingIsComplete /\ PromotionsHaveCases
<1> SUFFICES ASSUME FeedbackInv PROVE FeedbackTypeOK /\ PagingIsComplete /\ PromotionsHaveCases
  OBVIOUS
<1>1. \A p \in Promoters : /\ promotions[p].pc \in {"idle", "create", "point"}
                           /\ promotions[p].outcome \in {"none", "promoted", "already"}
  BY DEF FeedbackInv, FeedbackTyped, Promotions
<1>2. Submitted \subseteq FeedbackIds
  BY DEF Submitted
<1>3. FeedbackTypeOK
  BY <1>1, <1>2 DEF FeedbackInv, FeedbackTyped, FeedbackTypeOK, CasesSound, InboxTyped
<1>4. PromotionsHaveCases
  <2>1. \A p \in Promoters : promotions[p].outcome \in {"promoted", "already"}
                                => promotions[p].item \in evaluationCases
    BY DEF FeedbackInv, PromotionSound
  <2> QED BY <2>1 DEF FeedbackInv, CasesSound, PromotionsHaveCases
<1> QED BY <1>3, <1>4 DEF FeedbackInv, InboxSound, PagingIsComplete

(* Nothing is submitted, promoted or listed at the start.                   *)
LEMMA FeedbackInitHolds == FeedbackInit => FeedbackInv
<1> SUFFICES ASSUME FeedbackInit PROVE FeedbackInv
  OBVIOUS
<1>1. Submitted = {} /\ feedback \in [FeedbackIds -> FeedbackRecords \cup {NoFeedback}]
  BY DEF FeedbackInit, Submitted
<1>2. NoPromotion \in Promotions
  BY DEF NoPromotion, Promotions
<1>3. FeedbackTyped
  BY <1>1, <1>2, FeedbackAssumption DEF FeedbackInit, FeedbackTyped
<1>4. CasesSound
  BY <1>1 DEF FeedbackInit, CasesSound
<1>5. \A p \in Promoters : PromotionSound(p)
  BY DEF FeedbackInit, PromotionSound, NoPromotion
<1>6. InboxTyped /\ InboxSound
  BY <1>1, FS_EmptySet DEF FeedbackInit, InboxTyped, InboxSound, NoListing
<1> QED BY <1>3, <1>4, <1>5, <1>6 DEF FeedbackInv

(* What is stored is a record, and a record is stored.                      *)
LEMMA StoredRecords ==
    ASSUME FeedbackTyped, NEW f \in FeedbackIds
    PROVE  f \in Submitted <=> feedback[f] \in FeedbackRecords
<1>1. NoFeedback \notin FeedbackRecords
  <2>1. DOMAIN NoFeedback = {"rating"}
    BY DEF NoFeedback
  <2>2. \A r \in FeedbackRecords : "time" \in DOMAIN r
    BY DEF FeedbackRecords
  <2> QED BY <2>1, <2>2
<1> QED BY <1>1 DEF FeedbackTyped, Submitted

(* An inbox page selects only stored items (list_feedback).                 *)
LEMMA SelectedAreStored ==
    ASSUME FeedbackTyped, NEW filter
    PROVE  Selected(feedback, filter) \subseteq Submitted
  BY DEF Selected, Submitted, NoFeedback

(* Keys are pairs of numbers, ordered totally. *)
LEMMA Keys ==
    ASSUME FeedbackTyped, NEW f \in Submitted
    PROVE  OrderingKey(f) \in Nat \X Nat /\ OrderingKey(f)[2] = f /\ OrderingKey(f)[1] = feedback[f].time
<1>1. feedback[f] \in FeedbackRecords /\ f \in FeedbackIds
  BY StoredRecords DEF Submitted
<1> QED BY <1>1, FeedbackAssumption DEF OrderingKey, FeedbackRecords

(* The ordering key (time, then id) orders the items strictly and totally.  *)
LEMMA KeyOrder ==
    ASSUME NEW a \in Nat \X Nat, NEW b \in Nat \X Nat, NEW c \in Nat \X Nat
    PROVE  /\ Precedes(a, b) => ~Precedes(b, a)
           /\ Precedes(a, b) /\ Precedes(b, c) => Precedes(a, c)
           /\ a[2] # b[2] => Precedes(a, b) \/ Precedes(b, a)
  BY DEF Precedes

(* The last item of a page is its oldest.                                   *)
LEMMA OldestExists ==
    ASSUME FeedbackTyped, NEW items \in SUBSET Submitted, items # {}
    PROVE  \E f \in items : NewerThan(f, items) = items \ {f}
<1> DEFINE T == {feedback[f].time : f \in items}
<1>1. \A f \in items : f \in Nat /\ feedback[f].time \in Nat
  BY FeedbackAssumption, Keys DEF Submitted
<1>2. PICK t \in T : \A u \in T : t <= u
  <2>1. T \in SUBSET Nat /\ T # {}
    BY <1>1
  <2> QED BY <2>1, LeastNatural
<1> DEFINE I == {f \in items : feedback[f].time = t}
<1>3. PICK f \in I : \A g \in I : f <= g
  <2>1. I \in SUBSET Nat /\ I # {}
    BY <1>1, <1>2
  <2> QED BY <2>1, LeastNatural
<1>4. ASSUME NEW g \in items, g # f PROVE Precedes(OrderingKey(f), OrderingKey(g))
  <2>1. feedback[g].time \in T /\ t <= feedback[g].time /\ feedback[f].time = t
    BY <1>2, <1>3
  <2>2. feedback[g].time = t => f <= g
    BY <1>3
  <2> QED BY <1>1, <1>4, <2>1, <2>2 DEF Precedes, OrderingKey
<1>5. ~Precedes(OrderingKey(f), OrderingKey(f))
  BY <1>1 DEF Precedes, OrderingKey
<1> QED BY <1>4, <1>5 DEF NewerThan

(* The inbox alone moves. *)
LEMMA InboxMoves ==
    ASSUME FeedbackInv, InboxTyped', InboxSound',
           UNCHANGED <<feedback, evaluationCases, promotions, reviews, feedbackFaults>>
    PROVE  FeedbackInv'
<1>1. Submitted' = Submitted
  BY DEF Submitted
<1>2. FeedbackTyped' /\ CasesSound'
  BY <1>1 DEF FeedbackInv, FeedbackTyped, CasesSound
<1>3. \A p \in Promoters : PromotionSound(p)'
  BY <1>1 DEF FeedbackInv, PromotionSound
<1> QED BY <1>2, <1>3 DEF FeedbackInv

(* A reader opens the inbox: no cursor yet, nothing shown.                  *)
LEMMA OpenInboxKeeps == FeedbackInv /\ OpenInbox => FeedbackInv'
<1> SUFFICES ASSUME FeedbackInv, OpenInbox PROVE FeedbackInv'
  OBVIOUS
<1>1. PICK filter \in InboxFilters :
         inbox' = [NoListing EXCEPT !.pc = "page", !.filter = filter, !.stable = Selected(feedback, filter)]
  BY DEF OpenInbox
<1>2. UNCHANGED <<feedback, evaluationCases, promotions, reviews, feedbackFaults>>
  BY DEF OpenInbox
<1>3. DOMAIN NoListing = {"pc", "filter", "after", "shown", "twice", "stable"}
  BY DEF NoListing
<1>4. /\ DOMAIN inbox' = {"pc", "filter", "after", "shown", "twice", "stable"}
      /\ inbox'.pc = "page" /\ inbox'.filter = filter /\ inbox'.after = <<>>
      /\ inbox'.shown = {} /\ inbox'.twice = FALSE /\ inbox'.stable = Selected(feedback, filter)
  BY <1>1, <1>3 DEF NoListing
<1>5. Submitted' = Submitted /\ Selected(feedback, filter)' = Selected(feedback, filter)
  BY <1>2 DEF Submitted, Selected
<1>6. InboxTyped' /\ InboxSound'
  BY <1>2, <1>4, <1>5 DEF FeedbackInv, InboxTyped, InboxSound, After
<1> QED BY <1>2, <1>6, InboxMoves

(* A reader who has seen the last page closes the inbox.                    *)
LEMMA CloseInboxKeeps == FeedbackInv /\ CloseInbox => FeedbackInv'
<1> SUFFICES ASSUME FeedbackInv, CloseInbox PROVE FeedbackInv'
  OBVIOUS
<1>1. inbox' = NoListing /\ UNCHANGED <<feedback, evaluationCases, promotions, reviews, feedbackFaults>>
  BY DEF CloseInbox
<1>2. Submitted' = Submitted
  BY <1>1 DEF Submitted
<1>3. InboxTyped' /\ InboxSound'
  BY <1>1, <1>2 DEF FeedbackInv, InboxTyped, InboxSound, NoListing
<1> QED BY <1>1, <1>3, InboxMoves

(* The page is what is newest of what remains: an item that waits precedes  *)
(* the page's last.                                                         *)
LEMMA WaitingPrecede ==
    ASSUME FeedbackTyped, NEW items \in SUBSET Submitted, IsFiniteSet(items),
           NEW last \in Page(items), NEW f \in items \ Page(items)
    PROVE  Precedes(OrderingKey(f), OrderingKey(last))
<1>0. /\ OrderingKey(f) \in Nat \X Nat /\ OrderingKey(last) \in Nat \X Nat
      /\ OrderingKey(f)[2] # OrderingKey(last)[2] /\ last \in items /\ f \in items
  BY Keys DEF Page
<1> SUFFICES ASSUME Precedes(OrderingKey(last), OrderingKey(f)) PROVE FALSE
  BY <1>0, KeyOrder
<1>1. NewerThan(f, items) \subseteq NewerThan(last, items)
  <2> SUFFICES ASSUME NEW g \in items, Precedes(OrderingKey(f), OrderingKey(g))
               PROVE  Precedes(OrderingKey(last), OrderingKey(g))
    BY DEF NewerThan
  <2>1. OrderingKey(g) \in Nat \X Nat
    BY Keys
  <2> QED BY <1>0, <2>1, KeyOrder
<1>2. NewerThan(last, items) \in SUBSET items
  BY DEF NewerThan
<1>3. IsFiniteSet(NewerThan(last, items)) /\ Cardinality(NewerThan(last, items)) \in Nat
  BY <1>2, FS_Subset, FS_CardinalityType
<1>4. /\ Cardinality(NewerThan(f, items)) <= Cardinality(NewerThan(last, items))
      /\ Cardinality(NewerThan(f, items)) \in Nat
  BY <1>1, <1>3, FS_Subset, FS_CardinalityType
<1>5. Cardinality(NewerThan(last, items)) < MaxInboxPage /\ ~(Cardinality(NewerThan(f, items)) < MaxInboxPage)
  BY <1>0 DEF Page
<1> QED BY <1>3, <1>4, <1>5, FeedbackAssumption

(* The next page shows the newest matching items before the cursor, and     *)
(* moves the cursor to the last it shows.                                   *)
LEMMA NextPageKeeps == FeedbackInv /\ NextPage => FeedbackInv'
<1> SUFFICES ASSUME FeedbackInv, NextPage PROVE FeedbackInv'
  OBVIOUS
<1> PICK R : R = Remaining
  OBVIOUS
<1> PICK page : page = Page(R)
  OBVIOUS
<1> PICK last : last = CHOOSE f \in page : NewerThan(f, page) = page \ {f}
  OBVIOUS
<1>1. /\ inbox.pc = "page"
      /\ inbox' = [inbox EXCEPT
             !.shown = @ \cup page,
             !.twice = @ \/ page \cap inbox.shown # {},
             !.after = IF page = {} THEN @ ELSE OrderingKey(last),
             !.pc = IF page = R THEN "done" ELSE "page"]
      /\ UNCHANGED <<feedback, evaluationCases, promotions, reviews, feedbackFaults>>
  BY DEF NextPage
<1>2. /\ DOMAIN inbox' = {"pc", "filter", "after", "shown", "twice", "stable"}
      /\ inbox'.pc = IF page = R THEN "done" ELSE "page"
      /\ inbox'.after = IF page = {} THEN inbox.after ELSE OrderingKey(last)
      /\ inbox'.shown = inbox.shown \cup page
      /\ inbox'.twice = (inbox.twice \/ page \cap inbox.shown # {})
      /\ inbox'.stable = inbox.stable /\ inbox'.filter = inbox.filter
  BY <1>1 DEF FeedbackInv, InboxTyped
<1>3. /\ FeedbackTyped /\ InboxTyped /\ InboxSound
      /\ Submitted' = Submitted /\ Selected(feedback, inbox.filter)' = Selected(feedback, inbox.filter)
  BY <1>1, <1>2 DEF FeedbackInv, Submitted, Selected
<1>4. /\ \A f : f \in R <=> f \in Selected(feedback, inbox.filter) /\ After(f, inbox.after)
      /\ R \subseteq Submitted /\ page \subseteq R
  BY <1>3, SelectedAreStored DEF Remaining, After, Page
<1>5. page \cap inbox.shown = {}
  BY <1>3, <1>4 DEF InboxSound
<1>6. IsFiniteSet(R)
  BY <1>3, <1>4, FS_Subset DEF InboxSound
<1>7. inbox.stable \ inbox.shown \subseteq R
  BY <1>1, <1>3, <1>4 DEF InboxTyped, InboxSound
<1>8. ASSUME page # {}
      PROVE  last \in page /\ NewerThan(last, page) = page \ {last}
  <2>1. \E f \in page : NewerThan(f, page) = page \ {f}
    BY <1>3, <1>4, <1>8, OldestExists
  <2> QED BY <2>1
<1>9. page # {} => OrderingKey(last) \in Nat \X Nat
  BY <1>3, <1>4, <1>8, Keys
<1>10. \A f, c : After(f, c)' <=> After(f, c)
  BY <1>1 DEF After, OrderingKey
<1>11. InboxTyped'
  BY <1>2, <1>3, <1>4, <1>9 DEF InboxTyped
<1>12. InboxSound'
  <2>1. CASE page = {}
    <3>1. inbox'.after = inbox.after /\ inbox'.shown = inbox.shown /\ ~inbox'.twice
      BY <1>2, <1>3, <2>1 DEF InboxSound
    <3>2. inbox'.pc = "done" => inbox'.stable \subseteq inbox'.shown
      BY <1>2, <1>7, <2>1
    <3>3. \A f \in inbox'.shown : ~After(f, inbox'.after)
      BY <1>3, <3>1 DEF InboxSound
    <3>4. \A f \in inbox'.stable \ inbox'.shown : After(f, inbox'.after)
      BY <1>2, <1>4, <1>7, <3>1
    <3> QED BY <1>3, <1>10, <3>1, <3>2, <3>3, <3>4 DEF InboxSound
  <2>2. CASE page # {}
    <3> PICK key \in Nat \X Nat : key = OrderingKey(last)
      BY <1>9, <2>2
    <3>0. key # <<>>
      <4>1. Len(key) = 2 /\ Len(<<>>) = 0
        OBVIOUS
      <4> QED BY <4>1
    <3>1. inbox'.after = key /\ ~inbox'.twice /\ key # <<>>
      BY <1>2, <1>3, <1>5, <2>2, <3>0 DEF InboxSound
    <3>2. \A f : After(f, key) <=> Precedes(OrderingKey(f), key)
      BY <3>1 DEF After
    <3>3. ASSUME NEW f \in page PROVE ~Precedes(OrderingKey(f), key)
      <4>1. OrderingKey(f) \in Nat \X Nat
        BY <1>3, <1>4, Keys
      <4>2. CASE f = last
        BY <4>1, <4>2, KeyOrder
      <4>3. CASE f # last
        <5>1. Precedes(key, OrderingKey(f))
          BY <1>8, <2>2, <4>3 DEF NewerThan
        <5> QED BY <4>1, <5>1, KeyOrder
      <4> QED BY <4>2, <4>3
    <3>4. ASSUME NEW f \in inbox.shown PROVE ~Precedes(OrderingKey(f), key)
      <4>1. inbox.after \in Nat \X Nat /\ ~Precedes(OrderingKey(f), inbox.after) /\ inbox.after # <<>>
        BY <1>3 DEF InboxTyped, InboxSound, After
      <4>2. Precedes(key, inbox.after)
        BY <1>4, <1>8, <2>2, <4>1 DEF After
      <4>3. OrderingKey(f) \in Nat \X Nat
        BY <1>3, Keys DEF InboxTyped
      <4> QED BY <4>1, <4>2, <4>3, KeyOrder
    <3>5. \A f \in inbox'.stable \ inbox'.shown : Precedes(OrderingKey(f), key)
      <4> SUFFICES ASSUME NEW f \in inbox'.stable \ inbox'.shown
                   PROVE  Precedes(OrderingKey(f), key)
        OBVIOUS
      <4>1. f \in R \ Page(R)
        BY <1>2, <1>7
      <4> QED BY <1>3, <1>4, <1>6, <1>8, <2>2, <4>1, WaitingPrecede
    <3>6. inbox'.pc = "done" => inbox'.stable \subseteq inbox'.shown
      BY <1>2, <1>7
    <3>7. \A f \in inbox'.shown : ~Precedes(OrderingKey(f), key)
      BY <1>2, <3>3, <3>4
    <3> QED BY <1>3, <1>10, <3>1, <3>2, <3>5, <3>6, <3>7 DEF InboxSound
  <2> QED BY <2>1, <2>2
<1> QED BY <1>1, <1>11, <1>12, InboxMoves

(* One record changes, or is new: what the inbox knows of the others stays. *)
LEMMA RecordChanges ==
    ASSUME FeedbackInv, NEW f \in FeedbackIds, NEW new \in FeedbackRecords,
           feedback' = [feedback EXCEPT ![f] = new],
           f \in Submitted => new.time = feedback[f].time,
           \/ inbox' = inbox /\ (f \in Submitted => new.rating = feedback[f].rating /\ new.status = feedback[f].status)
           \/ StillStable(feedback')
    PROVE  /\ feedback' \in [FeedbackIds -> FeedbackRecords \cup {NoFeedback}]
           /\ Submitted' = Submitted \cup {f} /\ feedback'[f] = new
           /\ \A g \in Submitted \ {f} : feedback'[g] = feedback[g]
           /\ InboxTyped' /\ InboxSound'
<1>1. /\ feedback' \in [FeedbackIds -> FeedbackRecords \cup {NoFeedback}] /\ feedback'[f] = new
      /\ \A g \in FeedbackIds \ {f} : feedback'[g] = feedback[g]
  BY DEF FeedbackInv, FeedbackTyped
<1>2. new # NoFeedback
  <2>1. "time" \in DOMAIN new /\ DOMAIN NoFeedback = {"rating"}
    BY DEF FeedbackRecords, NoFeedback
  <2> QED BY <2>1
<1>3. Submitted' = Submitted \cup {f}
  BY <1>1, <1>2 DEF Submitted
<1>4. \A g \in Submitted : feedback'[g].time = feedback[g].time
  BY <1>1 DEF Submitted
<1>5. \A g \in Submitted : \A c : After(g, c)' <=> After(g, c)
  BY <1>4 DEF After, OrderingKey
<1>6. /\ DOMAIN inbox' = {"pc", "filter", "after", "shown", "twice", "stable"}
      /\ inbox'.pc = inbox.pc /\ inbox'.filter = inbox.filter /\ inbox'.after = inbox.after
      /\ inbox'.shown = inbox.shown /\ inbox'.twice = inbox.twice
      /\ inbox'.stable \subseteq inbox.stable
      /\ inbox'.stable \subseteq Selected(feedback', inbox.filter)
  <2>1. CASE StillStable(feedback')
    BY <2>1 DEF StillStable, FeedbackInv, InboxTyped
  <2>2. CASE inbox' = inbox /\ (f \in Submitted => new.rating = feedback[f].rating /\ new.status = feedback[f].status)
    <3>1. Selected(feedback, inbox.filter) \subseteq Submitted
      BY SelectedAreStored DEF FeedbackInv
    <3>2. \A g \in Selected(feedback, inbox.filter) : g \in Selected(feedback', inbox.filter)
      BY <1>1, <2>2, <3>1 DEF Selected
    <3> QED BY <2>2, <3>2 DEF FeedbackInv, InboxTyped
  <2> QED BY <2>1, <2>2
<1>7. InboxTyped'
  BY <1>3, <1>6 DEF FeedbackInv, InboxTyped
<1>8. InboxSound'
  <2>1. inbox.stable \subseteq Submitted /\ inbox.shown \subseteq Submitted
    BY SelectedAreStored DEF FeedbackInv, InboxTyped
  <2>2. IsFiniteSet(Submitted')
    BY <1>3, FS_AddElement DEF FeedbackInv, InboxSound
  <2>3. \A g \in inbox'.shown : ~After(g, inbox.after)'
    BY <1>5, <1>6, <2>1 DEF FeedbackInv, InboxSound
  <2>4. inbox'.pc # "done" => \A g \in inbox'.stable \ inbox'.shown : After(g, inbox.after)'
    BY <1>5, <1>6, <2>1 DEF FeedbackInv, InboxSound
  <2> QED BY <1>6, <2>2, <2>3, <2>4 DEF FeedbackInv, InboxSound
<1> QED BY <1>1, <1>3, <1>7, <1>8 DEF Submitted

(* An item is submitted or rated again; while a reader pages, what still    *)
(* matches stays stable.                                                    *)
LEMMA RecordFeedbackKeeps == FeedbackInv /\ RecordFeedback => FeedbackInv'
<1> SUFFICES ASSUME FeedbackInv, RecordFeedback PROVE FeedbackInv'
  OBVIOUS
<1>1. PICK f \in FeedbackIds \ Submitted, t \in FeedbackTimes, k \in FeedbackKinds :
         feedback' = [feedback EXCEPT ![f] =
              [rating |-> k[1], time |-> t, expected |-> k[2], status |-> "unreviewed", promoted |-> FALSE]]
  BY DEF RecordFeedback
<1>2. PICK new : new = [rating |-> k[1], time |-> t, expected |-> k[2], status |-> "unreviewed", promoted |-> FALSE]
  OBVIOUS
<1>3. new \in FeedbackRecords
  <2>1. k[1] \in {"negative", "positive"} /\ k[2] \in BOOLEAN
    BY FeedbackAssumption
  <2> QED BY <1>2, <2>1 DEF FeedbackRecords, ReviewStatuses
<1>4. UNCHANGED <<evaluationCases, promotions, inbox, reviews, feedbackFaults>>
  BY DEF RecordFeedback
<1>5. /\ feedback' \in [FeedbackIds -> FeedbackRecords \cup {NoFeedback}]
      /\ Submitted' = Submitted \cup {f} /\ feedback'[f] = new
      /\ \A g \in Submitted \ {f} : feedback'[g] = feedback[g]
      /\ InboxTyped' /\ InboxSound'
  BY <1>1, <1>2, <1>3, <1>4, RecordChanges
<1>6. FeedbackTyped'
  BY <1>4, <1>5 DEF FeedbackInv, FeedbackTyped
<1>7. CasesSound'
  BY <1>1, <1>2, <1>4, <1>5 DEF FeedbackInv, CasesSound
<1>8. \A p \in Promoters : PromotionSound(p)'
  BY <1>1, <1>4, <1>5 DEF FeedbackInv, PromotionSound
<1> QED BY <1>5, <1>6, <1>7, <1>8 DEF FeedbackInv

(* A reviewer sets the status of an item, unless the store refuses.         *)
LEMMA ReviewKeeps ==
    ASSUME FeedbackInv, NEW status \in ReviewStatuses, ReviewFeedback(status)
    PROVE  FeedbackInv'
<1>1. PICK f \in Submitted : feedback' = [feedback EXCEPT ![f].status = status]
  BY DEF ReviewFeedback
<1>2. /\ reviews < MaxReviews /\ reviews' = reviews + 1 /\ StillStable(feedback')
      /\ UNCHANGED <<evaluationCases, promotions, feedbackFaults>>
  BY DEF ReviewFeedback
<1>3. PICK new : new = [feedback[f] EXCEPT !.status = status]
  OBVIOUS
<1>4. f \in FeedbackIds /\ feedback[f] \in FeedbackRecords
  BY StoredRecords DEF FeedbackInv, Submitted
<1>5. /\ new \in FeedbackRecords /\ new.time = feedback[f].time /\ new.expected = feedback[f].expected
      /\ new.promoted = feedback[f].promoted
  BY <1>3, <1>4 DEF FeedbackRecords
<1>6. feedback' = [feedback EXCEPT ![f] = new]
  BY <1>1, <1>3
<1>7. /\ feedback' \in [FeedbackIds -> FeedbackRecords \cup {NoFeedback}]
      /\ Submitted' = Submitted \cup {f} /\ feedback'[f] = new
      /\ \A g \in Submitted \ {f} : feedback'[g] = feedback[g]
      /\ InboxTyped' /\ InboxSound'
  BY <1>2, <1>4, <1>5, <1>6, RecordChanges
<1>8. FeedbackTyped'
  BY <1>2, <1>7, FeedbackAssumption DEF FeedbackInv, FeedbackTyped
<1>9. CasesSound'
  BY <1>2, <1>5, <1>7 DEF FeedbackInv, CasesSound
<1>10. \A p \in Promoters : PromotionSound(p)'
  BY <1>2, <1>5, <1>7 DEF FeedbackInv, PromotionSound
<1> QED BY <1>7, <1>8, <1>9, <1>10 DEF FeedbackInv

(* A promotion's step that leaves the records alone. *)
LEMMA PromotionMoves ==
    ASSUME FeedbackInv, NEW p \in Promoters, UNCHANGED <<feedback, inbox, reviews>>,
           feedbackFaults' \in 0..MaxFeedbackFaults,
           promotions' \in [Promoters -> Promotions],
           \A q \in Promoters \ {p} : promotions'[q] = promotions[q],
           evaluationCases \subseteq evaluationCases', CasesSound', PromotionSound(p)'
    PROVE  FeedbackInv'
<1>1. Submitted' = Submitted
  BY DEF Submitted
<1>2. FeedbackTyped'
  BY DEF FeedbackInv, FeedbackTyped
<1>3. \A f, c : After(f, c)' <=> After(f, c)
  BY DEF After, OrderingKey
<1>4. Selected(feedback, inbox.filter)' = Selected(feedback, inbox.filter)
  BY DEF Selected
<1>5. InboxTyped' /\ InboxSound'
  BY <1>1, <1>3, <1>4 DEF FeedbackInv, InboxTyped, InboxSound
<1>6. ASSUME NEW q \in Promoters \ {p} PROVE PromotionSound(q)'
  BY <1>1 DEF FeedbackInv, PromotionSound
<1> QED BY <1>2, <1>5, <1>6 DEF FeedbackInv

(* A refused call is counted within its bound.                              *)
LEMMA FaultsTyped == FeedbackInv /\ FeedbackFault => feedbackFaults' \in 0..MaxFeedbackFaults
  BY FeedbackAssumption DEF FeedbackInv, FeedbackTyped, FeedbackFault

(* A promotion that ends leaves the others alone.                           *)
LEMMA PromotionChanged ==
    ASSUME FeedbackTyped, NEW p \in Promoters, NEW outcome \in {"none", "promoted", "already"},
           PromotionEnds(p, outcome)
    PROVE  /\ promotions' \in [Promoters -> Promotions]
           /\ promotions'[p].pc = "idle" /\ promotions'[p].item = promotions[p].item
           /\ promotions'[p].outcome = outcome
           /\ \A q \in Promoters \ {p} : promotions'[q] = promotions[q]
<1>1. /\ promotions'[p] = [promotions[p] EXCEPT !.pc = "idle", !.outcome = outcome]
      /\ \A q \in Promoters \ {p} : promotions'[q] = promotions[q]
      /\ promotions[p] \in Promotions
  BY DEF FeedbackTyped, PromotionEnds
<1>2. /\ promotions'[p].pc = "idle" /\ promotions'[p].item = promotions[p].item
      /\ promotions'[p].outcome = outcome
  BY <1>1 DEF Promotions
<1>3. [promotions[p] EXCEPT !.pc = "idle", !.outcome = outcome] \in Promotions
  BY <1>1, Zenon DEF Promotions
<1>4. promotions' = [promotions EXCEPT ![p] = promotions'[p]]
  BY <1>1, Zenon DEF FeedbackTyped, PromotionEnds
<1>5. promotions' \in [Promoters -> Promotions]
  BY <1>1, <1>3, <1>4 DEF FeedbackTyped
<1> QED BY <1>1, <1>2, <1>5

(* A promotion starts from a stored item with an expected answer, or finds  *)
(* it promoted already (promote_feedback).                                  *)
LEMMA PromoteKeeps ==
    ASSUME FeedbackInv, NEW p \in Promoters, PromoteFeedback(p)
    PROVE  FeedbackInv'
<1>1. PICK f \in Submitted : promotions' = [promotions EXCEPT ![p] =
              CASE feedback[f].promoted -> [pc |-> "idle", item |-> f, outcome |-> "already"]
                [] Promotable(feedback[f]) -> [pc |-> "create", item |-> f, outcome |-> "none"]
                [] OTHER -> NoPromotion]
  BY DEF PromoteFeedback
<1>2. UNCHANGED <<feedback, evaluationCases, inbox, reviews, feedbackFaults>>
  BY DEF PromoteFeedback
<1>3. /\ f \in FeedbackIds /\ f \in Nat /\ feedback[f] \in FeedbackRecords
      /\ Submitted' = Submitted
  BY <1>2, StoredRecords, FeedbackAssumption DEF FeedbackInv, Submitted
<1>5. PICK new \in Promotions :
         /\ promotions' = [promotions EXCEPT ![p] = new]
         /\ \/ feedback[f].promoted /\ new = [pc |-> "idle", item |-> f, outcome |-> "already"]
            \/ feedback[f].expected /\ new = [pc |-> "create", item |-> f, outcome |-> "none"]
            \/ new = [pc |-> "idle", item |-> 0, outcome |-> "none"]
  <2>1. CASE feedback[f].promoted
    <3>1. promotions' = [promotions EXCEPT ![p] = [pc |-> "idle", item |-> f, outcome |-> "already"]]
      BY <1>1, <2>1 DEF Promotable
    <3>2. [pc |-> "idle", item |-> f, outcome |-> "already"] \in Promotions
      BY <1>3 DEF Promotions
    <3> QED BY <2>1, <3>1, <3>2
  <2>2. CASE ~feedback[f].promoted /\ feedback[f].expected
    <3>1. promotions' = [promotions EXCEPT ![p] = [pc |-> "create", item |-> f, outcome |-> "none"]]
      BY <1>1, <2>2 DEF Promotable
    <3>2. [pc |-> "create", item |-> f, outcome |-> "none"] \in Promotions
      BY <1>3 DEF Promotions
    <3> QED BY <2>2, <3>1, <3>2
  <2>3. CASE ~feedback[f].promoted /\ ~feedback[f].expected
    <3>1. promotions' = [promotions EXCEPT ![p] = NoPromotion]
      BY <1>1, <2>3 DEF Promotable
    <3>2. NoPromotion \in Promotions
      BY DEF NoPromotion, Promotions
    <3> QED BY <3>1, <3>2 DEF NoPromotion
  <2> QED BY <2>1, <2>2, <2>3
<1>6. /\ promotions' \in [Promoters -> Promotions] /\ promotions'[p] = new
      /\ \A q \in Promoters \ {p} : promotions'[q] = promotions[q]
  BY <1>5 DEF FeedbackInv, FeedbackTyped
<1>7. PromotionSound(p)'
  BY <1>2, <1>3, <1>5, <1>6 DEF FeedbackInv, CasesSound, PromotionSound
<1>8. CasesSound'
  BY <1>2, <1>3 DEF FeedbackInv, CasesSound
<1> QED BY <1>2, <1>6, <1>7, <1>8, PromotionMoves DEF FeedbackInv, FeedbackTyped

(* The evaluation case is created before the item points at it.             *)
LEMMA CreateCaseKeeps ==
    ASSUME FeedbackInv, NEW p \in Promoters, CreateCase(p)
    PROVE  FeedbackInv'
<1> PICK f : f = promotions[p].item
  OBVIOUS
<1>1. /\ promotions[p].pc = "create" /\ evaluationCases' = evaluationCases \cup {f}
      /\ UNCHANGED <<feedback, inbox, reviews>>
      /\ \/ PromotionGoes(p, "point") /\ UNCHANGED feedbackFaults
         \/ PromotionEnds(p, "already") /\ (UNCHANGED feedbackFaults \/ FeedbackFault)
  BY DEF CreateCase
<1>2. f \in Submitted /\ feedback[f].expected /\ promotions[p].outcome \in {"none", "promoted", "already"}
  BY <1>1 DEF FeedbackInv, PromotionSound, FeedbackTyped, Promotions
<1>3. Submitted' = Submitted
  BY <1>1 DEF Submitted
<1>4. CasesSound'
  BY <1>1, <1>2, <1>3 DEF FeedbackInv, CasesSound
<1>5. /\ promotions' \in [Promoters -> Promotions] /\ promotions'[p].item = f
      /\ \A q \in Promoters \ {p} : promotions'[q] = promotions[q]
  <2>1. CASE PromotionGoes(p, "point")
    BY <2>1 DEF PromotionGoes, FeedbackInv, FeedbackTyped, Promotions
  <2>2. CASE PromotionEnds(p, "already")
    BY <2>2, PromotionChanged DEF FeedbackInv
  <2> QED BY <1>1, <2>1, <2>2
<1>6. PromotionSound(p)'
  BY <1>1, <1>2, <1>3, <1>5 DEF PromotionSound
<1>7. feedbackFaults' \in 0..MaxFeedbackFaults
  BY <1>1, FaultsTyped DEF FeedbackInv, FeedbackTyped
<1> QED BY <1>1, <1>4, <1>5, <1>6, <1>7, PromotionMoves

(* A store fault ends a promotion between its two writes and takes nothing  *)
(* back.                                                                    *)
LEMMA PromotionRaisesKeeps ==
    ASSUME FeedbackInv, NEW p \in Promoters, PromotionRaises(p)
    PROVE  FeedbackInv'
<1>1. /\ UNCHANGED <<feedback, evaluationCases, inbox, reviews>> /\ FeedbackFault
      /\ PromotionEnds(p, "none")
  BY DEF PromotionRaises
<1>2. CasesSound'
  <2>1. Submitted' = Submitted
    BY <1>1 DEF Submitted
  <2> QED BY <1>1, <2>1 DEF FeedbackInv, CasesSound
<1>3. /\ promotions' \in [Promoters -> Promotions]
      /\ promotions'[p].pc = "idle" /\ promotions'[p].outcome = "none"
      /\ \A q \in Promoters \ {p} : promotions'[q] = promotions[q]
  BY <1>1, PromotionChanged DEF FeedbackInv
<1>4. PromotionSound(p)'
  BY <1>3 DEF PromotionSound
<1> QED BY <1>1, <1>2, <1>3, <1>4, FaultsTyped, PromotionMoves

(* The item is marked promoted once its case is there.                      *)
LEMMA PointAtCaseKeeps ==
    ASSUME FeedbackInv, NEW p \in Promoters, PointAtCase(p)
    PROVE  FeedbackInv'
<1> PICK f : f = promotions[p].item
  OBVIOUS
<1>1. /\ promotions[p].pc = "point" /\ feedback' = [feedback EXCEPT ![f].promoted = TRUE]
      /\ UNCHANGED <<evaluationCases, inbox, reviews>>
      /\ UNCHANGED feedbackFaults \/ FeedbackFault
      /\ PromotionEnds(p, "already") \/ PromotionEnds(p, "promoted")
  BY DEF PointAtCase
<1>2. f \in Submitted /\ f \in evaluationCases
  BY <1>1 DEF FeedbackInv, PromotionSound
<1>3. f \in FeedbackIds /\ feedback[f] \in FeedbackRecords
  BY <1>2, StoredRecords DEF FeedbackInv, Submitted
<1>4. PICK new : new = [feedback[f] EXCEPT !.promoted = TRUE]
  OBVIOUS
<1>5. /\ new \in FeedbackRecords /\ new.time = feedback[f].time /\ new.expected = feedback[f].expected
      /\ new.rating = feedback[f].rating /\ new.status = feedback[f].status
  BY <1>3, <1>4 DEF FeedbackRecords
<1>6. feedback' = [feedback EXCEPT ![f] = new]
  BY <1>1, <1>4
<1>7. /\ feedback' \in [FeedbackIds -> FeedbackRecords \cup {NoFeedback}]
      /\ Submitted' = Submitted \cup {f} /\ feedback'[f] = new
      /\ \A g \in Submitted \ {f} : feedback'[g] = feedback[g]
      /\ InboxTyped' /\ InboxSound'
  BY <1>1, <1>3, <1>5, <1>6, RecordChanges
<1>8. Submitted' = Submitted /\ \A g \in Submitted : feedback'[g].expected = feedback[g].expected
  BY <1>2, <1>5, <1>7
<1>9. /\ promotions' \in [Promoters -> Promotions]
      /\ promotions'[p].pc = "idle" /\ promotions'[p].item = f
      /\ \A q \in Promoters \ {p} : promotions'[q] = promotions[q]
  BY <1>1, PromotionChanged DEF FeedbackInv
<1>10. FeedbackTyped'
  BY <1>1, <1>7, <1>9, FaultsTyped DEF FeedbackInv, FeedbackTyped
<1>11. CasesSound'
  BY <1>1, <1>2, <1>7, <1>8 DEF FeedbackInv, CasesSound
<1>12. PromotionSound(p)'
  BY <1>1, <1>2, <1>9 DEF PromotionSound
<1>13. ASSUME NEW q \in Promoters \ {p} PROVE PromotionSound(q)'
  BY <1>1, <1>8, <1>9 DEF FeedbackInv, PromotionSound
<1> QED BY <1>7, <1>10, <1>11, <1>12, <1>13 DEF FeedbackInv

(* The inductive invariant of the feedback inbox and the promotions holds   *)
(* in every state.                                                          *)
LEMMA FeedbackInvHolds == FeedbackSpec => []FeedbackInv
<1>1. FeedbackInv /\ UNCHANGED feedbackVars => FeedbackInv'
  BY InboxMoves DEF feedbackVars, FeedbackInv, InboxTyped, InboxSound, After, OrderingKey, Submitted, Selected
<1>2. FeedbackInv /\ FeedbackNext => FeedbackInv'
  <2>1. FeedbackInv /\ (ClassifyFeedback \/ ResolveFeedback) => FeedbackInv'
    BY ReviewKeeps DEF ClassifyFeedback, ResolveFeedback, ReviewStatuses
  <2> QED BY <2>1, RecordFeedbackKeeps, OpenInboxKeeps, NextPageKeeps, CloseInboxKeeps, PromoteKeeps,
          CreateCaseKeeps, PointAtCaseKeeps, PromotionRaisesKeeps DEF FeedbackNext
<1> QED BY <1>1, <1>2, FeedbackInitHolds, PTL DEF FeedbackSpec

(* Feedback, cases, promotions and the inbox keep their types               *)
(* (feedback.py).                                                           *)
THEOREM FeedbackTypeCorrect == FeedbackSpec => []FeedbackTypeOK
  BY FeedbackInvHolds, FeedbackInvImplies, PTL

(* A reader who pages to the end has seen every item that matched all       *)
(* along, and none twice, while items are submitted, rated and reviewed     *)
(* between pages (list_feedback's cursor over time and id).                 *)
THEOREM PagingIsSound == FeedbackSpec => []PagingIsComplete
  BY FeedbackInvHolds, FeedbackInvImplies, PTL

(* An item marked promoted, and a promotion that reported success, have     *)
(* their evaluation case, whichever promoters raced and wherever the store  *)
(* failed between the two writes (promote_feedback).                        *)
THEOREM PromotionsAreBacked == FeedbackSpec => []PromotionsHaveCases
  BY FeedbackInvHolds, FeedbackInvImplies, PTL

-------------------------------------------------------------------------------
(* The quality reports. A knowledge gap map has every outcome of low        *)
(* quality in one topic. The inductive invariant says that while outcomes   *)
(* are placed each is in one cluster or still to be placed, and none was    *)
(* placed twice.                                                            *)

GapQueries == [stored : BOOLEAN, score : GapScores \cup {-1},
               embedding : Embeddings \cup {<<0, 0>>}]
GapClusters == [sum : Int \X Int, members : SUBSET Outcomes]
GapTopics == [members : SUBSET Outcomes, coverage : {"poor", "fair", "good"}]
GapMaps == [pc : {"idle", "feedback", "cluster", "map"}, traces : SUBSET Outcomes,
            due : SUBSET Outcomes, rated : SUBSET Outcomes, todo : SUBSET Outcomes,
            clusters : Seq(GapClusters), topics : Seq(GapTopics)]

(* The members of different clusters, or topics, are different. *)
Apart(groups) ==
    \A i, j \in DOMAIN groups : i # j => groups[i].members \cap groups[j].members = {}
MembersOf(groups) == UNION {groups[i].members : i \in DOMAIN groups}

(* Every eligible outcome is in one cluster, or still to be placed. *)
ClustersKnown ==
    /\ gapMap.todo \cup MembersOf(gapMap.clusters) \subseteq StoredTraces
    /\ Apart(gapMap.clusters)
    /\ gapMap.todo \cap MembersOf(gapMap.clusters) = {}
    /\ gapMap.due \subseteq gapMap.todo \cup MembersOf(gapMap.clusters)
    /\ \A o \in gapMap.todo \cup MembersOf(gapMap.clusters) : Eligible(o, negative)

GapInv ==
    /\ GapTypeOK /\ ReportsHoldUp
    /\ queries \in [Outcomes -> GapQueries] /\ gapMap \in GapMaps
    /\ gapMap.pc # "map" => gapMap.topics = <<>>
    /\ gapMap.pc # "cluster" => gapMap.clusters = <<>>
    /\ gapMap.pc = "feedback" =>
          /\ gapMap.traces \subseteq StoredTraces /\ gapMap.due \subseteq gapMap.traces
          /\ \A o \in gapMap.due : Eligible(o, negative)
    /\ gapMap.pc = "cluster" => ClustersKnown

(* Placing an outcome puts it into one cluster and moves no other. *)
LEMMA PlacedSound ==
    ASSUME NEW clusters \in Seq(GapClusters), Apart(clusters), NEW o \in Outcomes,
           o \notin MembersOf(clusters), queries[o].embedding \in Int \X Int
    PROVE  /\ Placed(clusters, o) \in Seq(GapClusters) /\ Apart(Placed(clusters, o))
           /\ MembersOf(Placed(clusters, o)) = MembersOf(clusters) \cup {o}
<1> DEFINE near == {i \in Nearest(clusters, queries[o].embedding) :
                    \/ ~Exceeds(JoinThreshold, Similarity(queries[o].embedding, clusters[i].sum))
                    \/ Len(clusters) >= MaxTopics}
           chosen == CHOOSE i \in near : TRUE
           placed == Placed(clusters, o)
<1>1. placed = IF near = {} THEN Append(clusters, Cluster(o))
               ELSE [clusters EXCEPT ![chosen] = Join(clusters[chosen], o)]
  BY DEF Placed
<1>2. near \subseteq DOMAIN clusters
  BY DEF Nearest
<1>3. DOMAIN clusters = 1..Len(clusters) /\ Len(clusters) \in Nat
      /\ \A i \in DOMAIN clusters : clusters[i] \in GapClusters
  OBVIOUS
<1>4. near # {} => chosen \in DOMAIN clusters
  BY <1>2
<1> HIDE DEF near, chosen, placed
<1>5. CASE near = {}
  <2>1. Cluster(o) \in GapClusters /\ Cluster(o).members = {o}
    BY DEF Cluster, GapClusters
  <2>2. placed = Append(clusters, Cluster(o))
    BY <1>1, <1>5
  <2> DEFINE new == Cluster(o)
             n == Len(clusters)
  <2> HIDE DEF new
  <2>3. /\ placed \in Seq(GapClusters) /\ DOMAIN placed = 1..n + 1
        /\ \A i \in 1..n : placed[i] = clusters[i]
        /\ placed[n + 1] = new
    BY <1>3, <2>1, <2>2, AppendProperties DEF new
  <2>4. \A i \in 1..n : o \notin clusters[i].members
    BY <1>3 DEF MembersOf
  <2>5. Apart(placed)
    BY <1>3, <2>1, <2>3, <2>4 DEF Apart, new
  <2>6. MembersOf(placed) = MembersOf(clusters) \cup {o}
    <3>1. 1..n + 1 = (1..n) \cup {n + 1}
      BY <1>3
    <3> QED BY <1>3, <2>1, <2>3, <3>1 DEF MembersOf, new
  <2> QED BY <2>3, <2>5, <2>6 DEF placed
<1>6. CASE near # {}
  <2>1. Join(clusters[chosen], o) \in GapClusters
        /\ Join(clusters[chosen], o).members = clusters[chosen].members \cup {o}
    <3>1. clusters[chosen] \in GapClusters
      BY <1>3, <1>4, <1>6
    <3>2. /\ clusters[chosen].sum[1] \in Int /\ clusters[chosen].sum[2] \in Int
          /\ queries[o].embedding[1] \in Int /\ queries[o].embedding[2] \in Int
          /\ clusters[chosen].members \in SUBSET Outcomes
      BY <3>1 DEF GapClusters
    <3>3. Join(clusters[chosen], o) =
            [sum |-> <<clusters[chosen].sum[1] + queries[o].embedding[1],
                       clusters[chosen].sum[2] + queries[o].embedding[2]>>,
             members |-> clusters[chosen].members \cup {o}]
      BY DEF Join
    <3>4. clusters[chosen].members \cup {o} \in SUBSET Outcomes
      BY <3>2
    <3>5. /\ clusters[chosen].sum[1] + queries[o].embedding[1] \in Int
          /\ clusters[chosen].sum[2] + queries[o].embedding[2] \in Int
      BY <3>2
    <3> QED BY <3>3, <3>4, <3>5 DEF GapClusters
  <2> DEFINE new == Join(clusters[chosen], o)
  <2> HIDE DEF new
  <2>2. placed = [clusters EXCEPT ![chosen] = new]
    BY <1>1, <1>6 DEF new
  <2>3. /\ placed \in Seq(GapClusters) /\ DOMAIN placed = DOMAIN clusters
        /\ placed[chosen] = new
        /\ \A i \in DOMAIN clusters \ {chosen} : placed[i] = clusters[i]
    BY <1>3, <1>4, <1>6, <2>1, <2>2, ExceptSeq DEF new
  <2>4. \A i \in DOMAIN clusters : o \notin clusters[i].members
    BY DEF MembersOf
  <2>5. Apart(placed)
    BY <1>4, <1>6, <2>1, <2>3, <2>4 DEF Apart, new
  <2>6. MembersOf(placed) = MembersOf(clusters) \cup {o}
    BY <1>4, <1>6, <2>1, <2>3 DEF MembersOf, new
  <2> QED BY <2>3, <2>5, <2>6 DEF placed
<1> QED BY <1>5, <1>6

(* Nothing is stored, and no map or diagnosis was asked for.                *)
LEMMA GapInitHolds == GapInit => GapInv
<1> SUFFICES ASSUME GapInit PROVE GapInv
  OBVIOUS
<1>1. queries \in [Outcomes -> GapQueries]
  BY DEF GapInit, Untraced, GapQueries
<1>2. NoMap \in GapMaps
  BY EmptySeq DEF NoMap, GapMaps
<1> QED BY <1>1, <1>2 DEF GapInit, GapInv, GapTypeOK, ReportsHoldUp, NoMap, NoDiagnosis, GapQueries,
          MaxRecommendations

(* A trace that is stored stays as it is, and an eligible outcome eligible. *)
LEMMA TracesStay ==
    ASSUME NEW o \in StoredTraces, queries'[o] = queries[o], negative \subseteq negative'
    PROVE  /\ o \in StoredTraces'
           /\ Eligible(o, negative) => Eligible(o, negative)'
  BY DEF StoredTraces, Eligible

(* What arrives beside a generation leaves it as it was, or ends a map. *)
LEMMA ArrivalKeeps ==
    ASSUME GapInv, KeepGeneration, queries' \in [Outcomes -> GapQueries],
           \A o \in StoredTraces : queries'[o] = queries[o],
           negative \subseteq negative', negative' \subseteq Outcomes,
           diagnosis'.elements \subseteq Elements, diagnosis'.recommendations \in 0..MaxRecommendations,
           diagnosis'.recommendations > 0 <=> diagnosis'.elements # {}
    PROVE  GapInv'
<1>1. \A o \in StoredTraces : o \in StoredTraces' /\ (Eligible(o, negative) => Eligible(o, negative)')
  BY TracesStay DEF GapInv
<1>2. \A o \in Outcomes : queries'[o].score \in GapScores \cup {-1}
  BY DEF GapQueries
<1>3. CASE Generating
  <2>1. gapMap' = gapMap /\ gapMap.pc \in {"feedback", "cluster"}
    BY <1>3 DEF KeepGeneration, Generating
  <2>2. gapMap.pc = "feedback" =>
          /\ gapMap.traces \subseteq StoredTraces' /\ gapMap.due \subseteq gapMap.traces
          /\ \A o \in gapMap.due : Eligible(o, negative)'
    BY <1>1 DEF GapInv
  <2>3. ASSUME gapMap.pc = "cluster" PROVE ClustersKnown'
    <3>1. ClustersKnown
      BY <2>3 DEF GapInv
    <3>2. MembersOf(gapMap.clusters)' = MembersOf(gapMap.clusters)
          /\ Apart(gapMap.clusters)'
      BY <2>1, <3>1 DEF MembersOf, Apart, ClustersKnown
    <3>3. gapMap.todo \cup MembersOf(gapMap.clusters) \subseteq StoredTraces
      BY <3>1 DEF ClustersKnown
    <3> QED BY <1>1, <2>1, <3>1, <3>2, <3>3 DEF ClustersKnown
  <2> QED BY <1>2, <2>1, <2>2, <2>3 DEF GapInv, GapTypeOK, ReportsHoldUp
<1>4. CASE ~Generating
  <2>1. gapMap' = NoMap
    BY <1>4 DEF KeepGeneration
  <2>2. NoMap \in GapMaps
    BY EmptySeq DEF NoMap, GapMaps
  <2> QED BY <1>2, <2>1, <2>2 DEF GapInv, GapTypeOK, ReportsHoldUp, NoMap
<1> QED BY <1>3, <1>4

(* A trace arrives; those that were read do not change.                     *)
LEMMA StoreTraceKeeps ==
    ASSUME GapInv, NEW o \in Outcomes, StoreTrace(o)
    PROVE  GapInv'
<1>1. PICK score \in GapScores, embedding \in Embeddings :
         queries' = [queries EXCEPT ![o] = [stored |-> TRUE, score |-> score, embedding |-> embedding]]
  BY DEF StoreTrace
<1>2. queries' \in [Outcomes -> GapQueries]
  BY <1>1 DEF GapInv, GapQueries
<1>3. \A q \in StoredTraces : queries'[q] = queries[q]
  BY <1>1 DEF GapInv, StoreTrace, StoredTraces
<1>4. diagnosis' = [elements |-> {}, recommendations |-> 0] /\ KeepGeneration /\ negative' = negative
  BY DEF StoreTrace, OtherRequest, NoDiagnosis
<1> QED BY <1>2, <1>3, <1>4, ArrivalKeeps DEF GapInv, GapTypeOK, MaxRecommendations

(* Negative feedback arrives; what was eligible stays so.                   *)
LEMMA RateNegativeKeeps ==
    ASSUME GapInv, NEW o \in Outcomes, RateNegative(o)
    PROVE  GapInv'
<1>1. diagnosis' = [elements |-> {}, recommendations |-> 0] /\ KeepGeneration
      /\ negative' = negative \cup {o} /\ queries' = queries
  BY DEF RateNegative, OtherRequest, NoDiagnosis
<1>2. /\ diagnosis'.elements \subseteq Elements /\ diagnosis'.recommendations \in 0..MaxRecommendations
      /\ diagnosis'.recommendations > 0 <=> diagnosis'.elements # {}
  BY <1>1 DEF MaxRecommendations
<1>3. queries' \in [Outcomes -> GapQueries] /\ negative' \subseteq Outcomes
  BY <1>1 DEF GapInv, GapTypeOK
<1> QED BY <1>1, <1>2, <1>3, ArrivalKeeps

(* A diagnosis refers to what was analyzed; the generation under way goes   *)
(* on.                                                                      *)
LEMMA DiagnoseTraceKeeps ==
    ASSUME GapInv, NEW o \in Outcomes, DiagnoseTrace(o)
    PROVE  GapInv'
<1>1. PICK named \in {{}, {"retrieval_scores"}}, recommended \in {0, MaxRecommendations + 1} :
         diagnosis' = DiagnosisOf(named, recommended)
  BY DEF DiagnoseTrace
<1>2. /\ diagnosis'.elements \subseteq Elements /\ diagnosis'.recommendations \in 0..MaxRecommendations
      /\ diagnosis'.recommendations > 0 <=> diagnosis'.elements # {}
  BY <1>1 DEF DiagnosisOf, NoDiagnosis, Elements, MaxRecommendations
<1>3. KeepGeneration /\ queries' = queries /\ negative' = negative
  BY DEF DiagnoseTrace
<1> QED BY <1>2, <1>3, ArrivalKeeps DEF GapInv, GapTypeOK

(* A request lists the traces; what is of low quality by then is due.       *)
LEMMA ReadTracesKeeps ==
    ASSUME GapInv, ReadTraces
    PROVE  GapInv'
<1>1. /\ gapMap' = [NoMap EXCEPT !.pc = "feedback", !.traces = StoredTraces,
                                 !.due = {o \in StoredTraces : Eligible(o, negative)}]
      /\ diagnosis' = NoDiagnosis /\ queries' = queries /\ negative' = negative
  BY DEF ReadTraces
<1>2. /\ gapMap'.pc = "feedback" /\ gapMap'.traces = StoredTraces
      /\ gapMap'.due = {o \in StoredTraces : Eligible(o, negative)}
      /\ gapMap'.clusters = <<>> /\ gapMap'.topics = <<>> /\ gapMap' \in GapMaps
  <2>1. NoMap \in GapMaps
    BY EmptySeq DEF NoMap, GapMaps
  <2> QED BY <1>1, <2>1 DEF NoMap, GapMaps, StoredTraces
<1> QED BY <1>1, <1>2 DEF GapInv, GapTypeOK, ReportsHoldUp, NoDiagnosis, StoredTraces, Eligible,
          MaxRecommendations

(* A step of the generation shows no diagnosis. *)
LEMMA GenerationTyped ==
    ASSUME GapInv, diagnosis' = NoDiagnosis, UNCHANGED <<queries, negative>>,
           gapMap'.pc \in {"idle", "feedback", "cluster", "map"}
    PROVE  /\ GapTypeOK' /\ queries' \in [Outcomes -> GapQueries]
           /\ diagnosis'.recommendations \in 0..MaxRecommendations
           /\ diagnosis'.recommendations > 0 <=> diagnosis'.elements # {}
  BY DEF GapInv, GapTypeOK, NoDiagnosis, MaxRecommendations

(* The feedback is read: all that is due is eligible, and to be placed, or  *)
(* there are too few.                                                       *)
LEMMA ReadFeedbackKeeps ==
    ASSUME GapInv, ReadFeedback
    PROVE  GapInv'
<1> DEFINE eligible == {o \in gapMap.traces : Eligible(o, negative)}
<1>1. /\ gapMap.pc = "feedback" /\ gapMap \in GapMaps /\ gapMap.clusters = <<>> /\ gapMap.topics = <<>>
      /\ diagnosis' = NoDiagnosis /\ UNCHANGED <<queries, negative>>
  BY DEF ReadFeedback, GapInv
<1>2. CASE gapMap' = [gapMap EXCEPT !.pc = "map"]
  <2>1. gapMap' \in GapMaps /\ gapMap'.pc = "map" /\ gapMap'.topics = <<>> /\ gapMap'.clusters = <<>>
    BY <1>1, <1>2 DEF GapMaps
  <2> QED BY <1>1, <2>1, GenerationTyped DEF GapInv, ReportsHoldUp
<1>3. CASE gapMap' = [gapMap EXCEPT !.pc = "cluster", !.rated = negative, !.todo = eligible]
  <2>1. /\ gapMap' \in GapMaps /\ gapMap'.pc = "cluster" /\ gapMap'.topics = <<>>
        /\ gapMap'.clusters = <<>> /\ gapMap'.todo = eligible /\ gapMap'.due = gapMap.due
    BY <1>1, <1>3 DEF GapMaps, GapInv, GapTypeOK
  <2>2. MembersOf(gapMap'.clusters) = {} /\ Apart(gapMap'.clusters)
    BY <2>1 DEF MembersOf, Apart
  <2>3. gapMap.due \subseteq eligible /\ eligible \subseteq StoredTraces
    BY <1>1 DEF GapInv
  <2>4. ClustersKnown'
    BY <1>1, <2>1, <2>2, <2>3 DEF ClustersKnown, Eligible, StoredTraces
  <2> QED BY <1>1, <2>1, <2>4, GenerationTyped DEF GapInv, ReportsHoldUp
<1> QED BY <1>2, <1>3 DEF ReadFeedback

(* One outcome is placed into one cluster.                                  *)
LEMMA PlaceOutcomeKeeps ==
    ASSUME GapInv, PlaceOutcome
    PROVE  GapInv'
<1>1. PICK o \in gapMap.todo :
         gapMap' = [gapMap EXCEPT !.todo = gapMap.todo \ {o}, !.clusters = Placed(gapMap.clusters, o)]
  BY DEF PlaceOutcome
<1>2. /\ gapMap.pc = "cluster" /\ gapMap \in GapMaps /\ gapMap.topics = <<>> /\ ClustersKnown
      /\ diagnosis' = NoDiagnosis /\ UNCHANGED <<queries, negative>>
  BY DEF PlaceOutcome, GapInv
<1> DEFINE clusters == gapMap.clusters
           placed == Placed(clusters, o)
<1>3. clusters \in Seq(GapClusters) /\ Apart(clusters) /\ o \in Outcomes /\ o \notin MembersOf(clusters)
  BY <1>2 DEF GapMaps, ClustersKnown
<1>4. queries[o].embedding \in Int \X Int
  BY <1>3, GapAssumption DEF GapInv, GapQueries
<1>5. /\ placed \in Seq(GapClusters) /\ Apart(placed)
      /\ MembersOf(placed) = MembersOf(clusters) \cup {o}
  BY <1>3, <1>4, PlacedSound
<1> HIDE DEF placed
<1>6. gapMap' = [gapMap EXCEPT !.todo = gapMap.todo \ {o}, !.clusters = placed]
  BY <1>1 DEF placed
<1>7. /\ gapMap' \in GapMaps /\ gapMap'.pc = "cluster" /\ gapMap'.topics = <<>>
      /\ gapMap'.clusters = placed /\ gapMap'.todo = gapMap.todo \ {o} /\ gapMap'.due = gapMap.due
  BY <1>2, <1>5, <1>6 DEF GapMaps
<1>8. gapMap'.todo \cup MembersOf(placed) = gapMap.todo \cup MembersOf(clusters)
      /\ gapMap'.todo \cap MembersOf(placed) = {}
  BY <1>2, <1>5, <1>7 DEF ClustersKnown
<1>9. StoredTraces' = StoredTraces /\ \A q : Eligible(q, negative)' = Eligible(q, negative)
  BY <1>2 DEF StoredTraces, Eligible
<1>10. ClustersKnown'
  BY <1>2, <1>5, <1>7, <1>8, <1>9 DEF ClustersKnown
<1> QED BY <1>2, <1>7, <1>10, GenerationTyped DEF GapInv, ReportsHoldUp

(* The clusters become the topics, when every outcome is placed.            *)
LEMMA FinishMapKeeps ==
    ASSUME GapInv, FinishMap
    PROVE  GapInv'
<1> DEFINE topics == [i \in DOMAIN gapMap.clusters |->
               [members |-> gapMap.clusters[i].members,
                coverage |-> Coverage(gapMap.clusters[i].members, gapMap.rated)]]
<1>1. /\ gapMap.pc = "cluster" /\ gapMap.todo = {} /\ gapMap \in GapMaps /\ ClustersKnown
      /\ gapMap' = [gapMap EXCEPT !.pc = "map", !.clusters = <<>>, !.topics = topics]
      /\ diagnosis' = NoDiagnosis /\ UNCHANGED <<queries, negative>>
  BY DEF FinishMap, GapInv
<1>2. gapMap.clusters \in Seq(GapClusters) /\ DOMAIN gapMap.clusters = 1..Len(gapMap.clusters)
      /\ Len(gapMap.clusters) \in Nat
  BY <1>1 DEF GapMaps
<1>3. topics \in Seq(GapTopics)
  <2>1. \A i \in 1..Len(gapMap.clusters) : gapMap.clusters[i].members \in SUBSET Outcomes
    <3>1. \A i \in 1..Len(gapMap.clusters) : gapMap.clusters[i] \in GapClusters
      BY <1>2, ElementOfSeq
    <3> QED BY <3>1 DEF GapClusters
  <2>2. \A S, T : Coverage(S, T) \in {"poor", "fair", "good"}
    BY DEF Coverage
  <2> HIDE DEF topics
  <2>3. topics \in [1..Len(gapMap.clusters) -> GapTopics]
    BY <1>2, <2>1, <2>2 DEF topics, GapTopics
  <2> QED BY <1>2, <2>3
<1>4. DOMAIN topics = DOMAIN gapMap.clusters
      /\ \A i \in DOMAIN topics : topics[i].members = gapMap.clusters[i].members
  OBVIOUS
<1> HIDE DEF topics
<1>5. /\ gapMap' \in GapMaps /\ gapMap'.pc = "map" /\ gapMap'.clusters = <<>>
      /\ gapMap'.topics = topics /\ gapMap'.due = gapMap.due
  BY <1>1, <1>3, EmptySeq DEF GapMaps
<1>6. UNION Topics' = MembersOf(gapMap.clusters)
  BY <1>4, <1>5 DEF Topics, MembersOf
<1>7. gapMap.due \subseteq MembersOf(gapMap.clusters)
      /\ \A o \in MembersOf(gapMap.clusters) : Eligible(o, negative)'
  BY <1>1 DEF ClustersKnown, Eligible
<1>8. \A i, j \in DOMAIN topics : i # j => topics[i].members \cap topics[j].members = {}
  BY <1>1, <1>4 DEF ClustersKnown, Apart
<1> QED BY <1>1, <1>5, <1>6, <1>7, <1>8, GenerationTyped DEF GapInv, ReportsHoldUp

(* A call raised: no map.                                                   *)
LEMMA FailMapKeeps ==
    ASSUME GapInv, FailMap
    PROVE  GapInv'
<1>1. gapMap' = NoMap /\ diagnosis' = NoDiagnosis /\ UNCHANGED <<queries, negative>>
  BY DEF FailMap
<1>2. /\ NoMap \in GapMaps /\ NoMap.pc = "idle" /\ NoMap.topics = <<>> /\ NoMap.clusters = <<>>
  BY EmptySeq DEF NoMap, GapMaps
<1> QED BY <1>1, <1>2, GenerationTyped DEF GapInv, ReportsHoldUp

(* Every step keeps the invariant.                                          *)
LEMMA GapStep == GapInv /\ [GapNext]_gapVars => GapInv'
<1>1. ASSUME GapInv, UNCHANGED gapVars PROVE GapInv'
  <2>1. UNCHANGED <<queries, negative, gapMap, diagnosis>>
    BY <1>1 DEF gapVars
  <2>2. ClustersKnown => ClustersKnown'
    BY <2>1 DEF ClustersKnown, MembersOf, Apart, StoredTraces, Eligible
  <2>3. ReportsHoldUp => ReportsHoldUp'
    BY <2>1 DEF ReportsHoldUp, Topics, Eligible
  <2> QED BY <1>1, <2>1, <2>2, <2>3 DEF GapInv, GapTypeOK, StoredTraces, Eligible
<1> QED
  BY <1>1, ReadTracesKeeps, ReadFeedbackKeeps, PlaceOutcomeKeeps, FinishMapKeeps, FailMapKeeps,
     StoreTraceKeeps, RateNegativeKeeps, DiagnoseTraceKeeps DEF GapNext

(* The traces, the feedback, the map and the diagnosis keep their types.    *)
THEOREM GapTypeCorrect == GapSpec => []GapTypeOK
<1>1. GapInv => GapTypeOK
  BY DEF GapInv
<1> QED BY <1>1, GapInitHolds, GapStep, PTL DEF GapSpec

(* A knowledge gap map with topics (generate_knowledge_gap_map) has every   *)
(* outcome that was of low quality when the request came in exactly one     *)
(* topic and nothing else, while traces and feedback keep arriving; and a   *)
(* diagnosis that recommends anything refers to an element of its trace.    *)
THEOREM ReportsAreSound == GapSpec => []ReportsHoldUp
<1>1. GapInv => ReportsHoldUp
  BY DEF GapInv
<1> QED BY <1>1, GapInitHolds, GapStep, PTL DEF GapSpec

-------------------------------------------------------------------------------
(* The rate limiter. No window, shortened by the delay between reading the  *)
(* clock and taking the lock, admits more than the limit. The inductive     *)
(* invariant relates a key's bucket to the history of what it admitted: the *)
(* bucket is its end, what left it is old, and requests are admitted almost *)
(* in the order of their times.                                             *)

RateCallStates == [waiting : BOOLEAN, key : RateKeys, now : 0..MaxRateClock]

(* The bucket is the end of the history, after its first m events. *)
BucketFollows(bucket, history, m) ==
    /\ m \in 0..Len(history)
    /\ Len(bucket) = Len(history) - m
    /\ \A i \in 1..Len(bucket) : bucket[i] = history[m + i]

(* Events that have left a bucket are so old that no request still waiting  *)
(* for the lock can fall into a shortened window with them.                 *)
Aged(history, m, clock) ==
    \A i \in 1..m : history[i] <= clock - RateWindow + MaxRateDelay

(* Threads take the lock at most MaxRateDelay out of the order of their times. *)
NearlyOrdered(history, clock) ==
    /\ \A i \in 1..Len(history) : history[i] <= clock
    /\ \A i, j \in 1..Len(history) : i < j => history[i] <= history[j] + MaxRateDelay

Within(history, from) ==
    {i \in 1..Len(history) : from <= history[i] /\ history[i] < from + (RateWindow - 2 * MaxRateDelay)}

KeySound(bucket, history, clock) ==
    /\ bucket \in Seq(Nat) /\ history \in Seq(Nat)
    /\ \E m \in 0..Len(history) : BucketFollows(bucket, history, m) /\ Aged(history, m, clock)
    /\ NearlyOrdered(history, clock)
    /\ Len(bucket) <= RateLimit
    /\ \A from \in 0..MaxRateClock : Cardinality(Within(history, from)) <= RateLimit

CallSound(call) ==
    call.waiting => call.now <= rateClock /\ rateClock - call.now <= MaxRateDelay

RateInv ==
    /\ hits \in [RateKeys -> Seq(Nat)] /\ admitted \in [RateKeys -> Seq(Nat)]
    /\ lastPrune \in 0..MaxRateClock
    /\ rateClock \in 0..MaxRateClock
    /\ rateCalls \in [RateCallers -> RateCallStates]
    /\ \A c \in RateCallers : CallSound(rateCalls[c])
    /\ \A k \in RateKeys : KeySound(hits[k], admitted[k], rateClock)

(* A key's bucket stays sound while the clock advances.                     *)
LEMMA TimePasses ==
    ASSUME NEW bucket, NEW history, NEW clock \in Nat, KeySound(bucket, history, clock)
    PROVE  KeySound(bucket, history, clock + 1)
<1>1. PICK m \in 0..Len(history) : BucketFollows(bucket, history, m) /\ Aged(history, m, clock)
  BY DEF KeySound
<1>2. history \in Seq(Nat) /\ Len(history) \in Nat /\ \A i \in 1..Len(history) : history[i] \in Nat
  BY DEF KeySound
<1>3. Aged(history, m, clock + 1)
  BY <1>1, <1>2, RateAssumption DEF Aged
<1>4. NearlyOrdered(history, clock + 1)
  BY <1>2 DEF KeySound, NearlyOrdered
<1> QED BY <1>1, <1>3, <1>4 DEF KeySound

(* The sweep drops a bucket whose newest event has left the window.         *)
LEMMA SweptBucket ==
    ASSUME NEW bucket, NEW history, NEW clock \in Nat, KeySound(bucket, history, clock),
           NEW cutoff \in Int, cutoff <= clock - RateWindow,
           bucket # <<>>, bucket[Len(bucket)] <= cutoff
    PROVE  KeySound(<<>>, history, clock)
<1>1. PICK m \in 0..Len(history) : BucketFollows(bucket, history, m) /\ Aged(history, m, clock)
  BY DEF KeySound
<1> PICK n : n = Len(history)
  OBVIOUS
<1>2. /\ history \in Seq(Nat) /\ n \in Nat /\ \A i \in 1..n : history[i] \in Nat
      /\ bucket \in Seq(Nat) /\ Len(bucket) \in Nat \ {0}
  BY SMTT(30) DEF KeySound
<1>3. history[n] <= cutoff
  <2>1. bucket[Len(bucket)] = history[m + Len(bucket)] /\ m + Len(bucket) = n
    BY <1>1, <1>2 DEF BucketFollows
  <2> QED BY <2>1
<1>4. \A i \in 1..n : history[i] <= clock - RateWindow + MaxRateDelay
  <2> SUFFICES ASSUME NEW i \in 1..n PROVE history[i] <= clock - RateWindow + MaxRateDelay
    OBVIOUS
  <2>1. n \in 1..n
    BY <1>2
  <2>2. i < n => history[i] <= history[n] + MaxRateDelay
    BY <2>1 DEF KeySound, NearlyOrdered
  <2>3. history[i] \in Nat /\ history[n] \in Nat
    BY <1>2, <2>1
  <2> QED BY <1>2, <1>3, <2>2, <2>3, RateAssumption
<1>5. BucketFollows(<<>>, history, n) /\ Aged(history, n, clock) /\ n \in 0..Len(history)
  BY <1>2, <1>4 DEF BucketFollows, Aged
<1>6. <<>> \in Seq(Nat) /\ Len(<<>>) <= RateLimit
  BY RateAssumption
<1> QED BY <1>5, <1>6 DEF KeySound

(* A check drops the events at the front of its bucket that have left the   *)
(* window, and those are old.                                               *)
LEMMA AgedBucket ==
    ASSUME NEW bucket, NEW history, NEW clock \in Nat, KeySound(bucket, history, clock),
           NEW cutoff \in Int, cutoff <= clock - RateWindow
    PROVE  KeySound(WithoutAged(bucket, cutoff), history, clock)
<1>1. PICK m \in 0..Len(history) : BucketFollows(bucket, history, m) /\ Aged(history, m, clock)
  BY DEF KeySound
<1> PICK n : n = Len(history)
  OBVIOUS
<1>0. /\ m \in 0..n /\ m \in Nat /\ n \in Nat /\ Len(bucket) \in Nat
      /\ m + Len(bucket) = n /\ n = Len(history)
  <2>1. Len(bucket) = Len(history) - m
    BY <1>1 DEF BucketFollows
  <2>2. Len(history) \in Nat /\ Len(bucket) \in Nat
    BY DEF KeySound
  <2> QED BY <2>1, <2>2
<1>2. /\ history \in Seq(Nat) /\ n \in Nat /\ \A i \in 1..n : history[i] \in Nat
      /\ bucket \in Seq(Nat) /\ Len(bucket) \in Nat /\ m + Len(bucket) = n
      /\ \A i \in 1..Len(bucket) : bucket[i] \in Nat /\ bucket[i] = history[m + i]
  <2>1. history \in Seq(Nat) /\ bucket \in Seq(Nat)
    BY DEF KeySound
  <2>2. Len(bucket) = Len(history) - m /\ \A i \in 1..Len(bucket) : bucket[i] = history[m + i]
    BY <1>1 DEF BucketFollows
  <2>3. \A i \in 1..Len(bucket) : bucket[i] \in Nat
    BY <2>1
  <2>4. n \in Nat /\ Len(bucket) \in Nat /\ \A i \in 1..n : history[i] \in Nat
    BY <2>1
  <2> QED BY <2>1, <2>2, <2>3, <2>4
<1> PICK inWindow : inWindow = {i \in 1..Len(bucket) : bucket[i] > cutoff}
  OBVIOUS
<1>3. PICK first \in 1..Len(bucket) + 1 :
         /\ \A i \in 1..(first - 1) : bucket[i] <= cutoff
         /\ WithoutAged(bucket, cutoff) = IF first > Len(bucket) THEN <<>> ELSE SubSeq(bucket, first, Len(bucket))
  <2>1. CASE inWindow = {}
    <3>1. ASSUME NEW i \in 1..Len(bucket) PROVE bucket[i] <= cutoff
      <4>1. ~(bucket[i] > cutoff)
        BY <2>1
      <4>2. bucket[i] \in Nat
        BY <1>2
      <4> QED BY <4>1, <4>2
    <3>2. WithoutAged(bucket, cutoff) = <<>>
      BY <2>1 DEF WithoutAged
    <3> PICK f : f = Len(bucket) + 1
      OBVIOUS
    <3>3. f \in 1..Len(bucket) + 1 /\ f > Len(bucket) /\ f - 1 = Len(bucket)
      BY <1>2
    <3>4. \A i \in 1..(f - 1) : bucket[i] <= cutoff
      BY <3>1, <3>3
    <3> QED BY <3>2, <3>3, <3>4
  <2>2. CASE inWindow # {}
    <3>1. inWindow \subseteq Nat
      BY <1>2
    <3>2. PICK least \in inWindow : \A j \in inWindow : least <= j
      BY <2>2, <3>1, LeastNatural
    <3>3. (CHOOSE i \in inWindow : \A j \in inWindow : i <= j) = least
      BY <3>1, <3>2
    <3>4. WithoutAged(bucket, cutoff) = SubSeq(bucket, least, Len(bucket))
      BY <2>2, <3>3 DEF WithoutAged
    <3>5. least \in 1..Len(bucket) /\ least \in Nat
      BY <1>2, <3>1, <3>2
    <3>6. ASSUME NEW i \in 1..(least - 1) PROVE bucket[i] <= cutoff
      <4>1. i \in 1..Len(bucket) /\ ~(least <= i)
        BY <1>2, <3>5
      <4>2. i \notin inWindow
        BY <3>2, <4>1
      <4>3. bucket[i] \in Nat /\ ~(bucket[i] > cutoff)
        BY <1>2, <4>1, <4>2
      <4> QED BY <4>3
    <3>7. least \in 1..Len(bucket) + 1 /\ ~(least > Len(bucket))
      BY SMTT(30), <1>2, <3>5
    <3> QED BY <3>4, <3>6, <3>7
  <2> QED BY <2>1, <2>2
<1> PICK rest : rest = WithoutAged(bucket, cutoff)
  OBVIOUS
<1>4. /\ rest \in Seq(Nat) /\ Len(rest) = Len(bucket) - (first - 1)
      /\ \A i \in 1..Len(rest) : rest[i] = bucket[first - 1 + i]
  BY SMTT(30), <1>2, <1>3
<1>5. BucketFollows(rest, history, m + (first - 1)) /\ m + (first - 1) \in 0..Len(history)
  <2>1. ASSUME NEW i \in 1..Len(rest) PROVE rest[i] = history[(m + (first - 1)) + i]
    <3> PICK j : j = first - 1 + i
      OBVIOUS
    <3>1. j \in 1..Len(bucket) /\ m + j = (m + (first - 1)) + i
      BY <1>2, <1>3, <1>4
    <3>2. rest[i] = bucket[j] /\ bucket[j] = history[m + j]
      BY <1>2, <1>4, <3>1
    <3> QED BY <3>1, <3>2
  <2>2. m + (first - 1) \in 0..Len(history) /\ Len(rest) = Len(history) - (m + (first - 1))
    <3>1. m \in 0..n /\ m \in Nat /\ n \in Nat /\ Len(bucket) \in Nat /\ m + Len(bucket) = n /\ n = Len(history)
      BY <1>0
    <3>2. first \in 1..Len(bucket) + 1 /\ Len(rest) = Len(bucket) - (first - 1)
      BY <1>3, <1>4
    <3> QED BY <3>1, <3>2
  <2> QED BY <2>1, <2>2 DEF BucketFollows
<1>6. Aged(history, m + (first - 1), clock)
  <2> SUFFICES ASSUME NEW i \in 1..(m + (first - 1))
               PROVE  history[i] <= clock - RateWindow + MaxRateDelay
    BY DEF Aged
  <2>1. CASE i <= m
    BY <1>1, <1>3, <2>1 DEF Aged
  <2>2. CASE i > m
    <3> PICK j : j = i - m
      OBVIOUS
    <3>1. j \in 1..(first - 1) /\ j \in 1..Len(bucket) /\ m + j = i
      BY <1>2, <1>3, <2>2
    <3>2. bucket[j] = history[m + j] /\ bucket[j] <= cutoff /\ bucket[j] \in Nat
      BY <1>2, <1>3, <3>1
    <3>3. history[i] <= cutoff /\ history[i] \in Nat
      BY <3>1, <3>2
    <3> QED BY <3>3, RateAssumption
  <2> QED BY <1>1, <1>3, <2>1, <2>2
<1>7. Len(rest) <= RateLimit
  BY <1>2, <1>3, <1>4, RateAssumption DEF KeySound
<1> QED BY <1>4, <1>5, <1>6, <1>7 DEF KeySound

(* The events of a history within a window are finitely many.               *)
LEMMA WindowsAreFinite ==
    ASSUME NEW history \in Seq(Nat), NEW from \in Nat
    PROVE  IsFiniteSet(Within(history, from)) /\ Cardinality(Within(history, from)) \in Nat
<1>1. IsFiniteSet(1..Len(history))
  BY FS_Interval
<1> QED BY <1>1, FS_Subset, FS_CardinalityType DEF Within

(* One more event is allowed. *)
LEMMA AllowedEvent ==
    ASSUME NEW bucket, NEW history, NEW clock \in Nat, KeySound(bucket, history, clock),
           NEW now \in Nat, now <= clock, clock - now <= MaxRateDelay, Len(bucket) < RateLimit
    PROVE  KeySound(Append(bucket, now), Append(history, now), clock)
<1>1. PICK m \in 0..Len(history) : BucketFollows(bucket, history, m) /\ Aged(history, m, clock)
  BY DEF KeySound
<1> PICK n : n = Len(history)
  OBVIOUS
<1> PICK later : later = Append(history, now)
  OBVIOUS
<1> PICK more : more = Append(bucket, now)
  OBVIOUS
<1>0. /\ m \in 0..n /\ m \in Nat /\ n \in Nat /\ Len(bucket) \in Nat
      /\ m + Len(bucket) = n /\ n = Len(history)
  <2>1. Len(bucket) = Len(history) - m
    BY <1>1 DEF BucketFollows
  <2>2. Len(history) \in Nat /\ Len(bucket) \in Nat
    BY DEF KeySound
  <2> QED BY <2>1, <2>2
<1>2. /\ history \in Seq(Nat) /\ n \in Nat /\ \A i \in 1..n : history[i] \in Nat
      /\ bucket \in Seq(Nat) /\ Len(bucket) \in Nat /\ m + Len(bucket) = n
      /\ \A i \in 1..Len(bucket) : bucket[i] = history[m + i]
  <2>1. history \in Seq(Nat) /\ bucket \in Seq(Nat)
    BY DEF KeySound
  <2>2. Len(bucket) = Len(history) - m /\ \A i \in 1..Len(bucket) : bucket[i] = history[m + i]
    BY <1>1 DEF BucketFollows
  <2>4. n \in Nat /\ Len(bucket) \in Nat /\ \A i \in 1..n : history[i] \in Nat
    BY <2>1
  <2> QED BY <2>1, <2>2, <2>4
<1>3. /\ later \in Seq(Nat) /\ Len(later) = n + 1 /\ later[n + 1] = now
      /\ \A i \in 1..n : later[i] = history[i]
      /\ more \in Seq(Nat) /\ Len(more) = Len(bucket) + 1 /\ more[Len(bucket) + 1] = now
      /\ \A i \in 1..Len(bucket) : more[i] = bucket[i]
  BY <1>2
<1>9. m + (Len(bucket) + 1) = n + 1
  BY <1>0
<1>4. BucketFollows(more, later, m) /\ m \in 0..Len(later)
  <2>1. ASSUME NEW i \in 1..Len(more) PROVE more[i] = later[m + i]
    <3>1. CASE i = Len(bucket) + 1
      <4>1. m + i = n + 1
        BY <1>9, <3>1
      <4> QED BY <1>3, <3>1, <4>1
    <3>2. CASE i # Len(bucket) + 1
      <4>1. i \in 1..Len(bucket) /\ m + i \in 1..n
        BY <1>2, <1>3, <3>2
      <4>2. more[i] = bucket[i] /\ bucket[i] = history[m + i] /\ later[m + i] = history[m + i]
        BY <1>2, <1>3, <4>1
      <4> QED BY <4>2
    <3> QED BY <3>1, <3>2
  <2>2. m \in 0..Len(later) /\ Len(more) = Len(later) - m
    <3>1. m \in 0..n /\ m \in Nat /\ n \in Nat /\ Len(bucket) \in Nat /\ m + Len(bucket) = n
      BY <1>0
    <3>2. Len(more) = Len(bucket) + 1 /\ Len(later) = n + 1
      BY <1>3
    <3> QED BY <3>1, <3>2
  <2> QED BY <2>1, <2>2 DEF BucketFollows
<1>5. Aged(later, m, clock)
  BY <1>1, <1>2, <1>3 DEF Aged
<1>6. NearlyOrdered(later, clock)
  <2>1. \A i \in 1..n : history[i] <= clock
    BY DEF KeySound, NearlyOrdered
  <2>2. \A i, j \in 1..n : i < j => history[i] <= history[j] + MaxRateDelay
    BY DEF KeySound, NearlyOrdered
  <2>3. \A i \in 1..Len(later) : later[i] <= clock
    BY <1>2, <1>3, <2>1
  <2>4. \A i, j \in 1..Len(later) : i < j => later[i] <= later[j] + MaxRateDelay
    <3> SUFFICES ASSUME NEW i \in 1..(n + 1), NEW j \in 1..(n + 1), i < j
                 PROVE  later[i] <= later[j] + MaxRateDelay
      BY <1>3
    <3>1. i \in 1..n /\ later[i] = history[i] /\ history[i] \in Nat /\ history[i] <= clock
      BY <1>2, <1>3, <2>1
    <3>2. CASE j = n + 1
      BY <1>3, <3>1, <3>2, RateAssumption
    <3>3. CASE j # n + 1
      <4>1. j \in 1..n
        BY <1>2, <3>3
      <4>2. later[j] = history[j] /\ history[i] <= history[j] + MaxRateDelay
        BY <1>3, <2>2, <3>1, <4>1
      <4> QED BY <3>1, <4>2
    <3> QED BY <3>2, <3>3
  <2> QED BY <2>3, <2>4 DEF NearlyOrdered
<1>7. \A from \in 0..MaxRateClock : Cardinality(Within(later, from)) <= RateLimit
  <2> SUFFICES ASSUME NEW from \in 0..MaxRateClock
               PROVE  Cardinality(Within(later, from)) <= RateLimit
    OBVIOUS
  <2> PICK end : end = from + (RateWindow - 2 * MaxRateDelay)
    OBVIOUS
  <2>0. end \in Int /\ from \in Nat
    BY RateAssumption
  <2>1. CASE from <= now /\ now < end
    <3>1. Within(later, from) \subseteq (m + 1)..(n + 1)
      <4> SUFFICES ASSUME NEW i \in 1..(n + 1), from <= later[i], later[i] < end, i <= m
                   PROVE  FALSE
        BY <1>1, <1>2, <1>3 DEF Within
      <4>1. later[i] = history[i] /\ history[i] \in Nat
            /\ history[i] <= clock - RateWindow + MaxRateDelay
        BY <1>1, <1>2, <1>3 DEF Aged
      <4> QED BY <4>1, <2>0, <2>1, RateAssumption
    <3> PICK low, high : low = m + 1 /\ high = n + 1
      OBVIOUS
    <3>5. low \in Int /\ high \in Int /\ high - low + 1 = Len(bucket) + 1 /\ ~(low > high)
      BY <1>1, <1>2
    <3>2. IsFiniteSet((m + 1)..(n + 1)) /\ Cardinality((m + 1)..(n + 1)) = Len(bucket) + 1
      BY <3>5, FS_Interval
    <3>3. Cardinality(Within(later, from)) <= Len(bucket) + 1
      BY <3>1, <3>2, FS_Subset
    <3>4. Cardinality(Within(later, from)) \in Nat
      BY <1>3, <2>0, WindowsAreFinite
    <3> QED BY <1>2, <3>3, <3>4, RateAssumption
  <2>2. CASE ~(from <= now /\ now < end)
    <3>1. Within(later, from) = Within(history, from)
      BY <1>2, <1>3, <2>2 DEF Within
    <3> QED BY <3>1 DEF KeySound
  <2> QED BY <2>1, <2>2
<1>8. Len(more) <= RateLimit
  BY <1>2, <1>3, RateAssumption
<1> QED BY <1>3, <1>4, <1>5, <1>6, <1>7, <1>8 DEF KeySound

(* Every bucket is empty before the first request.                          *)
LEMMA RateStarts == RateInit => RateInv
<1> SUFFICES ASSUME RateInit PROVE RateInv
  OBVIOUS
<1>1. NoRateCall \in RateCallStates /\ ~NoRateCall.waiting
  BY RateAssumption DEF NoRateCall, RateCallStates
<1>2. KeySound(<<>>, <<>>, 0)
  <2>1. BucketFollows(<<>>, <<>>, 0) /\ Aged(<<>>, 0, 0) /\ NearlyOrdered(<<>>, 0) /\ 0 \in 0..Len(<<>>)
    BY DEF BucketFollows, Aged, NearlyOrdered
  <2>2. \A from \in 0..MaxRateClock : Cardinality(Within(<<>>, from)) <= RateLimit
    <3>1. ASSUME NEW from \in 0..MaxRateClock PROVE Within(<<>>, from) = {}
      BY DEF Within
    <3>2. Cardinality({}) = 0 /\ 0 <= RateLimit
      BY FS_EmptySet, RateAssumption
    <3> QED BY <3>1, <3>2
  <2>3. <<>> \in Seq(Nat) /\ Len(<<>>) <= RateLimit
    BY RateAssumption
  <2> QED BY <2>1, <2>2, <2>3 DEF KeySound
<1>3. \A k \in RateKeys : KeySound(hits[k], admitted[k], rateClock)
  BY <1>2 DEF RateInit
<1>4. \A c \in RateCallers : CallSound(rateCalls[c])
  BY <1>1 DEF RateInit, CallSound
<1> QED BY <1>1, <1>3, <1>4, RateAssumption DEF RateInit, RateInv

(* One check of the limiter, sweep included, keeps every key's bucket sound *)
(* (RateLimiter.check).                                                     *)
LEMMA CheckKeeps ==
    ASSUME RateInv, NEW c \in RateCallers, CheckLimit(c)
    PROVE  RateInv'
<1> PICK key, now, cutoff, sweep, swept, bucket :
        /\ key = rateCalls[c].key /\ now = rateCalls[c].now /\ cutoff = now - RateWindow
        /\ sweep = (now - lastPrune >= RateWindow)
        /\ swept = IF sweep THEN Pruned(cutoff) ELSE hits
        /\ bucket = WithoutAged(swept[key], cutoff)
  OBVIOUS
<1>1. /\ rateCalls[c].waiting
      /\ lastPrune' = IF sweep THEN now ELSE lastPrune
      /\ hits' = [swept EXCEPT ![key] = IF Len(bucket) < RateLimit THEN Append(bucket, now) ELSE bucket]
      /\ admitted' = [admitted EXCEPT ![key] = IF Len(bucket) < RateLimit THEN Append(@, now) ELSE @]
      /\ rateCalls' = [rateCalls EXCEPT ![c] = NoRateCall]
      /\ rateClock' = rateClock
  BY DEF CheckLimit
<1>2. /\ key \in RateKeys /\ now \in 0..MaxRateClock /\ rateClock \in Nat
      /\ now <= rateClock /\ rateClock - now <= MaxRateDelay
  BY SMTT(30), <1>1, RateAssumption DEF RateInv, RateCallStates, CallSound
<1>3. cutoff \in Int /\ cutoff <= rateClock - RateWindow
  BY <1>2, RateAssumption
<1>4. /\ DOMAIN swept = RateKeys
      /\ \A k \in RateKeys : KeySound(swept[k], admitted[k], rateClock)
  <2>1. \A k \in RateKeys : KeySound(hits[k], admitted[k], rateClock)
    BY DEF RateInv
  <2>2. CASE swept = hits
    BY <2>1, <2>2 DEF RateInv
  <2>3. CASE swept = Pruned(cutoff)
    <3>1. DOMAIN swept = RateKeys
      BY <2>3 DEF Pruned
    <3>2. ASSUME NEW k \in RateKeys PROVE KeySound(swept[k], admitted[k], rateClock)
      <4>1. CASE hits[k] # <<>> /\ hits[k][Len(hits[k])] <= cutoff
        <5>1. swept[k] = <<>>
          BY <2>3, <4>1 DEF Pruned
        <5> QED BY <1>2, <1>3, <2>1, <4>1, <5>1, SweptBucket
      <4>2. CASE ~(hits[k] # <<>> /\ hits[k][Len(hits[k])] <= cutoff)
        <5>1. swept[k] = hits[k]
          BY <2>3, <4>2 DEF Pruned
        <5> QED BY <2>1, <5>1
      <4> QED BY <4>1, <4>2
    <3> QED BY <3>1, <3>2
  <2> QED BY <2>2, <2>3
<1>5. KeySound(bucket, admitted[key], rateClock)
  BY <1>2, <1>3, <1>4, AgedBucket
<1>6. \A k \in RateKeys : KeySound(hits'[k], admitted'[k], rateClock)
  <2>1. ASSUME NEW k \in RateKeys, k # key PROVE KeySound(hits'[k], admitted'[k], rateClock)
    BY <1>1, <1>4, <2>1 DEF RateInv
  <2>2. KeySound(hits'[key], admitted'[key], rateClock)
    <3>1. CASE Len(bucket) < RateLimit
      <4>1. hits'[key] = Append(bucket, now) /\ admitted'[key] = Append(admitted[key], now)
        BY <1>1, <1>2, <1>4, <3>1 DEF RateInv
      <4> QED BY SMTT(30), <1>2, <1>5, <3>1, <4>1, AllowedEvent
    <3>2. CASE ~(Len(bucket) < RateLimit)
      <4>1. hits'[key] = bucket /\ admitted'[key] = admitted[key]
        BY <1>1, <1>2, <1>4, <3>2 DEF RateInv
      <4> QED BY <1>5, <4>1
    <3> QED BY <3>1, <3>2
  <2> QED BY <2>1, <2>2
<1>7. hits' \in [RateKeys -> Seq(Nat)] /\ admitted' \in [RateKeys -> Seq(Nat)]
  <2>1. \A k \in RateKeys : hits'[k] \in Seq(Nat) /\ admitted'[k] \in Seq(Nat)
    BY <1>6 DEF KeySound
  <2>2. hits' = [k \in RateKeys |-> hits'[k]]
    BY <1>1, <1>4
  <2>3. admitted' = [k \in RateKeys |-> admitted'[k]]
    BY <1>1 DEF RateInv
  <2> QED BY <2>1, <2>2, <2>3
<1>8. /\ rateCalls' \in [RateCallers -> RateCallStates]
      /\ \A d \in RateCallers : CallSound(rateCalls[d])'
  <2>1. NoRateCall \in RateCallStates /\ ~NoRateCall.waiting
    BY RateAssumption DEF NoRateCall, RateCallStates
  <2> QED BY <1>1, <2>1 DEF RateInv, CallSound
<1>9. lastPrune' \in 0..MaxRateClock
  BY <1>1, <1>2 DEF RateInv
<1> QED BY <1>1, <1>6, <1>7, <1>8, <1>9 DEF RateInv

(* Every step of the callers and the clock keeps the invariant.             *)
LEMMA RateSteps == RateInv /\ [RateNext]_rateVars => RateInv'
<1> SUFFICES ASSUME RateInv, [RateNext]_rateVars PROVE RateInv'
  OBVIOUS
<1>1. CASE RateTick
  <2>1. /\ rateClock' = rateClock + 1 /\ rateClock' \in 0..MaxRateClock /\ rateClock \in Nat
        /\ UNCHANGED <<hits, lastPrune, rateCalls, admitted>>
    BY <1>1, RateAssumption DEF RateTick, RateInv
  <2>2. \A c \in RateCallers : CallSound(rateCalls[c])'
    BY <1>1, <2>1, RateAssumption DEF RateTick, RateInv, CallSound, RateCallStates
  <2>3. \A k \in RateKeys : KeySound(hits'[k], admitted'[k], rateClock')
    BY <2>1, TimePasses DEF RateInv
  <2> QED BY <2>1, <2>2, <2>3 DEF RateInv
<1>2. ASSUME NEW c \in RateCallers, ReadClock(c) PROVE RateInv'
  <2>1. PICK k \in RateKeys : rateCalls' = [rateCalls EXCEPT ![c] =
            [waiting |-> TRUE, key |-> k, now |-> rateClock]]
    BY <1>2 DEF ReadClock
  <2>2. UNCHANGED <<hits, lastPrune, rateClock, admitted>>
    BY <1>2 DEF ReadClock
  <2>3. rateCalls' \in [RateCallers -> RateCallStates]
    BY <2>1 DEF RateInv, RateCallStates
  <2>4. \A d \in RateCallers : CallSound(rateCalls[d])'
    BY <2>1, <2>2, RateAssumption DEF RateInv, CallSound
  <2> QED BY <2>2, <2>3, <2>4 DEF RateInv
<1>3. ASSUME NEW c \in RateCallers, CheckLimit(c) PROVE RateInv'
  BY <1>3, CheckKeeps
<1>4. CASE UNCHANGED rateVars
  BY <1>4 DEF rateVars, RateInv, CallSound
<1> QED BY <1>1, <1>2, <1>3, <1>4 DEF RateNext

(* The inductive invariant of the limiter holds in every state.             *)
LEMMA RateInvariant == RateSpec => []RateInv
  BY RateStarts, RateSteps, PTL DEF RateSpec

(* The buckets, the clock and the callers keep their types (rate_limit.py). *)
THEOREM RateTypeCorrect == RateSpec => []RateTypeOK
<1>1. RateInv => RateTypeOK
  BY DEF RateInv, RateTypeOK, RateCallStates
<1> QED BY <1>1, RateInvariant, PTL

(* No window, shortened by the delay between reading the clock and taking   *)
(* the lock, holds more admitted requests of a key than the limit, whatever *)
(* the sweep drops and in whatever order threads take the lock              *)
(* (RateLimiter.check).                                                     *)
THEOREM LimitIsKept == RateSpec => []LimitHolds
<1>1. RateInv => LimitHolds
  BY DEF RateInv, KeySound, LimitHolds, AllowedWithin, Within
<1> QED BY <1>1, RateInvariant, PTL
===============================================================================
