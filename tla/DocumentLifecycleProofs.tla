----------------------- MODULE DocumentLifecycleProofs ------------------------
(***************************************************************************)
(* Proofs about DocumentLifecycle, for any number of versions, workers,     *)
(* slots and requests, and any bounds.                                      *)
(***************************************************************************)
EXTENDS DocumentLifecycle, TLAPS

USE ConstantsAssumption

------------------------------------------------------------------------------
(* Types: what moving a control point or writing a record preserves.       *)

(* The empty store and the idle processes are well typed. *)
LEMMA InitType == Init => TypeOK
BY DEF Init, TypeOK, StoreType, CacheType, RequestType, JobType, Record, Absent, IdleJob,
       IdleRequest, MaybeVersion, Status, Stages, Message, Job, Request, JobPcs, RequestPcs

(* A running job that goes to another control point stays typed. *)
LEMMA JobGoesType ==
    ASSUME JobType, NEW s \in Slots, NEW pc \in JobPcs, jobs[s].pc # "idle", JobGoes(s, pc),
           pc = "run" => jobs[s].stage # "indexed"
    PROVE  JobType'
BY DEF JobType, JobGoes, Job

(* A job that ends frees its slot. *)
LEMMA JobEndsType ==
    ASSUME JobType, NEW s \in Slots, JobEnds(s)
    PROVE  JobType'
BY DEF JobType, JobEnds, Job, IdleJob, JobPcs, Stages, MaybeVersion

(* A request that goes on keeps its fields. *)
LEMMA RequestGoesType ==
    ASSUME RequestType, NEW r \in Requests, NEW pc \in RequestPcs, RequestGoes(r, pc),
           pc \in {"queue", "enqueue"} => requests[r].id > 0,
           pc \notin {"idle", "deleteVectors", "saveDeleted"} => requests[r].target \in Versions
    PROVE  RequestType'
BY DEF RequestType, RequestGoes, Request

(* A request that ends owes nothing. *)
LEMMA RequestEndsType ==
    ASSUME RequestType, NEW r \in Requests, RequestEnds(r)
    PROVE  RequestType'
BY DEF RequestType, RequestEnds, Request, IdleRequest, RequestPcs, MaybeVersion, Absent,
       Record, Status

(* A request begins with the record and the target it was given. *)
LEMMA BeginType ==
    ASSUME RequestType, NEW r \in Requests, NEW pc \in RequestPcs, NEW id \in 0 .. MaxUploads,
           NEW target \in MaybeVersion, NEW rec \in Record, Begin(r, pc, id, target, rec),
           pc \in {"queue", "enqueue"} => id > 0,
           pc \notin {"idle", "deleteVectors", "saveDeleted"} => target \in Versions
    PROVE  RequestType'
BY DEF RequestType, Begin, Request

(* A record that is written and cached by one process leaves the store and  *)
(* every cache typed.                                                       *)
LEMMA RecordWriteType ==
    ASSUME StoreType, CacheType, NEW new \in Record,
           record' \in {record, new}, apiCache' \in {apiCache, new},
           \/ UNCHANGED workerCache
           \/ \E w \in Workers : workerCache' = [workerCache EXCEPT ![w] = new],
           UNCHANGED <<artifacts, vectors, queue>>
    PROVE  StoreType' /\ CacheType'
BY DEF StoreType, CacheType, artifacts

(* What get_document returns is a record, and it is published at most once. *)
LEMMA GetDocumentType ==
    ASSUME record \in Record, NEW cache \in Record
    PROVE  GetDocument(cache) \in Record /\ PublishedVersionOf(GetDocument(cache)) \in MaybeVersion
BY DEF GetDocument, PublishedVersionOf, Record, MaybeVersion

(* What a job saves is a record. *)
LEMMA JobRecordType ==
    ASSUME JobType, NEW s \in Slots, NEW status \in Status
    PROVE  JobRecord(s, status) \in Record
BY DEF JobType, Job, JobRecord, Record

------------------------------------------------------------------------------
(* Types: the API process.                                                 *)

(* queue_document up to its queued record. *)
LEMMA UploadDocumentType ==
    ASSUME TypeOK, NEW r \in Requests, NEW v \in Versions, UploadDocument(r, v)
    PROVE  TypeOK'
<1> DEFINE rec == [status |-> "queued", version |-> v, active |-> NoVersion]
<1>1. rec \in Record
  BY DEF Record, Status, InProgress, MaybeVersion
<1>2. RequestType'
  BY <1>1, BeginType DEF UploadDocument, TypeOK, RequestPcs, MaybeVersion
<1> QED
  BY <1>2 DEF UploadDocument, TypeOK, StoreType, CacheType, JobType

(* update_document up to its queued record, which carries a published version over. *)
LEMMA ReplaceDocumentType ==
    ASSUME TypeOK, NEW r \in Requests, NEW v \in Versions, ReplaceDocument(r, v)
    PROVE  TypeOK'
<1> DEFINE existing == GetDocument(apiCache)
           rec == [status |-> "queued", version |-> v, active |-> PublishedVersionOf(existing)]
<1>1. existing \in Record /\ PublishedVersionOf(existing) \in MaybeVersion
  BY GetDocumentType DEF TypeOK, StoreType, CacheType
<1>2. rec \in Record
  BY <1>1 DEF Record, Status, InProgress, MaybeVersion
<1> HIDE DEF existing
<1>3. Begin(r, "queue", uploads + 1, v, rec) /\ uploads + 1 \in 0 .. MaxUploads
  BY DEF ReplaceDocument, TypeOK, existing
<1>4. RequestType'
  BY <1>2, <1>3, BeginType DEF TypeOK, RequestPcs, MaybeVersion
<1>5. apiCache' = existing
  BY DEF ReplaceDocument, existing
<1> QED
  BY <1>1, <1>3, <1>4, <1>5 DEF ReplaceDocument, TypeOK, StoreType, CacheType, JobType

(* The queued write of an upload. *)
LEMMA SaveQueuedType ==
    ASSUME TypeOK, NEW r \in Requests, SaveQueued(r)
    PROVE  TypeOK'
<1>1. RequestType'
  BY RequestGoesType, RequestEndsType
  DEF SaveQueued, PersistByRequest, TypeOK, RequestType, RequestPcs
<1>2. requests[r].rec \in Record
  BY DEF TypeOK, RequestType, Request
<1>3. StoreType' /\ CacheType'
  BY <1>2, RecordWriteType DEF SaveQueued, PersistByRequest, WriteInDoubt, TypeOK
<1> QED
  BY <1>1, <1>3 DEF SaveQueued, PersistByRequest, Fault, TypeOK, JobType

(* The message names the version of its upload. *)
LEMMA EnqueueJobType ==
    ASSUME TypeOK, NEW r \in Requests, EnqueueJob(r)
    PROVE  TypeOK'
<1>1. RequestType'
  BY RequestGoesType, RequestEndsType DEF EnqueueJob, TypeOK, RequestType, RequestPcs
<1>2. JobMessage(r) \in Message
  BY DEF EnqueueJob, TypeOK, RequestType, Request, JobMessage, Message
<1>3. StoreType'
  BY <1>2 DEF EnqueueJob, TypeOK, StoreType, artifacts
<1> QED
  BY <1>1, <1>3 DEF EnqueueJob, Fault, TypeOK, CacheType, JobType

(* The failed write after an enqueue that raised. *)
LEMMA SaveEnqueueFailureType ==
    ASSUME TypeOK, NEW r \in Requests, SaveEnqueueFailure(r)
    PROVE  TypeOK'
<1>1. RequestType'
  BY RequestEndsType DEF SaveEnqueueFailure, PersistByRequest, TypeOK
<1>2. [requests[r].rec EXCEPT !.status = "failed"] \in Record
  BY DEF TypeOK, RequestType, Request, Record, Status, Terminal
<1>3. StoreType' /\ CacheType'
  BY <1>2, RecordWriteType DEF SaveEnqueueFailure, PersistByRequest, WriteInDoubt, TypeOK
<1> QED
  BY <1>1, <1>3 DEF SaveEnqueueFailure, PersistByRequest, Fault, TypeOK, JobType

(* Reading the record at the start of a deletion or a restore. *)
LEMMA ReadAndBeginType ==
    ASSUME TypeOK, NEW r \in Requests, NEW pc \in {"deleteVectors", "loadIndex"},
           NEW target \in MaybeVersion, pc = "loadIndex" => target \in Versions,
           apiCache' = GetDocument(apiCache), Begin(r, pc, 0, target, GetDocument(apiCache)),
           UNCHANGED <<record, artifacts, vectors, queue, workerCache, jobs, uploads, faults>>
    PROVE  TypeOK'
<1> DEFINE existing == GetDocument(apiCache)
<1>1. existing \in Record
  BY GetDocumentType DEF TypeOK, StoreType, CacheType
<1> HIDE DEF existing
<1>2. Begin(r, pc, 0, target, existing) /\ apiCache' = existing
  BY DEF existing
<1>3. RequestType'
  BY <1>1, <1>2, BeginType DEF TypeOK, RequestPcs
<1> QED
  BY <1>1, <1>2, <1>3 DEF TypeOK, StoreType, CacheType, JobType, artifacts

(* delete_document reads the record it will mark. *)
LEMMA DeleteDocumentType ==
    ASSUME TypeOK, NEW r \in Requests, DeleteDocument(r)
    PROVE  TypeOK'
BY ReadAndBeginType DEF DeleteDocument, MaybeVersion

(* restore_version reads the record it will rewrite. *)
LEMMA RestoreVersionType ==
    ASSUME TypeOK, NEW r \in Requests, NEW v \in Versions, RestoreVersion(r, v)
    PROVE  TypeOK'
BY ReadAndBeginType DEF RestoreVersion, MaybeVersion

(* delete_document empties the vector index. *)
LEMMA DeleteVectorsType ==
    ASSUME TypeOK, NEW r \in Requests, DeleteVectors(r)
    PROVE  TypeOK'
<1>1. RequestType'
  BY RequestGoesType, RequestEndsType DEF DeleteVectors, TypeOK, RequestPcs
<1> QED
  BY <1>1 DEF DeleteVectors, Fault, TypeOK, StoreType, CacheType, JobType, artifacts

(* delete_document writes the terminal status. *)
LEMMA SaveDeletedType ==
    ASSUME TypeOK, NEW r \in Requests, SaveDeleted(r)
    PROVE  TypeOK'
<1>1. RequestType'
  BY RequestEndsType DEF SaveDeleted, PersistByRequest, TypeOK
<1>2. [requests[r].rec EXCEPT !.status = "deleted"] \in Record
  BY DEF TypeOK, RequestType, Request, Record, Status, Terminal
<1>3. StoreType' /\ CacheType'
  BY <1>2, RecordWriteType DEF SaveDeleted, PersistByRequest, WriteInDoubt, TypeOK
<1> QED
  BY <1>1, <1>3 DEF SaveDeleted, PersistByRequest, Fault, TypeOK, JobType

(* restore_version looks its target up. *)
LEMMA LoadVersionIndexType ==
    ASSUME TypeOK, NEW r \in Requests, LoadVersionIndex(r)
    PROVE  TypeOK'
<1>1. RequestType'
  BY RequestGoesType, RequestEndsType
  DEF LoadVersionIndex, TypeOK, StoreType, RequestType, RequestPcs
<1> QED
  BY <1>1 DEF LoadVersionIndex, TypeOK, StoreType, CacheType, JobType, artifacts

(* A first batch changes only what the index holds of its version. *)
LEMMA UpsertBatchType ==
    ASSUME StoreType, NEW v \in Versions, UpsertBatch(v), UNCHANGED <<record, artifacts, queue>>
    PROVE  StoreType'
BY DEF UpsertBatch, StoreType, artifacts

(* A restore's first batch. *)
LEMMA ReindexBatchType ==
    ASSUME TypeOK, NEW r \in Requests, ReindexBatch(r)
    PROVE  TypeOK'
<1>1. requests[r].target \in Versions
  BY DEF ReindexBatch, TypeOK, StoreType
<1>2. StoreType'
  BY <1>1, UpsertBatchType DEF ReindexBatch, TypeOK
<1> QED
  BY <1>2 DEF ReindexBatch, TypeOK, CacheType, JobType, RequestType

(* _reindex_version, through or failed. *)
LEMMA ReindexVersionType ==
    ASSUME TypeOK, NEW r \in Requests, ReindexVersion(r)
    PROVE  TypeOK'
<1>1. RequestType'
  BY RequestGoesType, RequestEndsType
  DEF ReindexVersion, TypeOK, StoreType, RequestType, RequestPcs
<1>2. StoreType'
  BY DEF ReindexVersion, Upserted, TypeOK, StoreType, artifacts
<1> QED
  BY <1>1, <1>2 DEF ReindexVersion, Fault, TypeOK, CacheType, JobType

(* Both writers of the version index keep its shape. *)
LEMMA ActivatedType ==
    ASSUME StoreType, NEW v \in Versions
    PROVE  Activated(versionIndex, v) \in [versions : SUBSET Versions, live : SUBSET Versions,
                                           active : MaybeVersion]
BY DEF StoreType, Activated, MaybeVersion

(* _activate_existing_version. *)
LEMMA ActivateRestoredType ==
    ASSUME TypeOK, NEW r \in Requests, ActivateRestored(r)
    PROVE  TypeOK'
<1>1. requests[r].target \in Versions
  BY DEF ActivateRestored, TypeOK, RequestType
<1>2. RequestType'
  BY <1>1, RequestGoesType, RequestEndsType DEF ActivateRestored, TypeOK, RequestPcs
<1>3. versionIndex' \in {versionIndex, Activated(versionIndex, requests[r].target)}
  BY DEF ActivateRestored
<1>4. StoreType'
  BY <1>1, <1>3, ActivatedType DEF ActivateRestored, TypeOK, StoreType
<1> QED
  BY <1>2, <1>4 DEF ActivateRestored, Fault, TypeOK, CacheType, JobType

(* restore_version's record write. *)
LEMMA SaveRestoredType ==
    ASSUME TypeOK, NEW r \in Requests, SaveRestored(r)
    PROVE  TypeOK'
<1> DEFINE new == [requests[r].rec EXCEPT !.status = "indexed", !.active = requests[r].target]
<1>1. RequestType'
  BY RequestEndsType DEF SaveRestored, PersistByRequest, TypeOK
<1>2. requests[r].rec \in Record /\ requests[r].target \in MaybeVersion
  BY DEF TypeOK, RequestType, Request
<1>3. new \in Record
  BY <1>2 DEF Record, Status, Terminal
<1>4. StoreType' /\ CacheType'
  BY <1>3, RecordWriteType DEF SaveRestored, PersistByRequest, WriteInDoubt, TypeOK
<1> QED
  BY <1>1, <1>4 DEF SaveRestored, PersistByRequest, Fault, TypeOK, JobType

(* Any read caches at most the stored record. *)
LEMMA ReadDocumentType ==
    ASSUME TypeOK, ReadDocument
    PROVE  TypeOK'
<1>1. apiCache' \in Record
  BY GetDocumentType DEF ReadDocument, TypeOK, StoreType, CacheType
<1> QED
  BY <1>1 DEF ReadDocument, TypeOK, StoreType, CacheType, JobType, RequestType, artifacts

------------------------------------------------------------------------------
(* Types: the worker processes.                                            *)

(* A slot takes a message from the queue. *)
LEMMA ReceiveJobType ==
    ASSUME TypeOK, NEW s \in Slots, ReceiveJob(s)
    PROVE  TypeOK'
<1>1. PICK m \in queue : jobs' = [jobs EXCEPT ![s] = JobOf(m)]
  BY DEF ReceiveJob
<1>2. m \in Message
  BY DEF TypeOK, StoreType
<1>3. JobOf(m) \in Job /\ JobOf(m).version \in Versions /\ JobOf(m).pc = "load"
  BY <1>2 DEF JobOf, Job, JobPcs, Stages, MaybeVersion, Message
<1>4. JobType'
  BY <1>1, <1>3 DEF TypeOK, JobType
<1> QED
  BY <1>4 DEF ReceiveJob, Fault, TypeOK, StoreType, CacheType, RequestType, artifacts

(* process_document_job up to the source it reads. *)
LEMMA LoadJobType ==
    ASSUME TypeOK, NEW s \in Slots, LoadJob(s)
    PROVE  TypeOK'
<1> DEFINE current == GetDocument(workerCache[Host[s]])
<1>1. current \in Record
  BY GetDocumentType DEF TypeOK, StoreType, CacheType
<1> HIDE DEF current
<1>2. /\ jobs[s].pc = "load"
      /\ workerCache' \in {workerCache, [workerCache EXCEPT ![Host[s]] = current]}
      /\ \/ JobGoes(s, "ack") \/ JobEnds(s)
         \/ \E pc \in {"save", "rawFailed"} :
               jobs' = [jobs EXCEPT ![s].pc = pc, ![s].active = current.active]
  BY DEF LoadJob, current
<1>3. current.active \in MaybeVersion
  BY <1>1 DEF Record
<1>4. JobType'
  <2>1. CASE JobGoes(s, "ack") \/ JobEnds(s)
    BY <1>2, <2>1, JobGoesType, JobEndsType DEF TypeOK, JobPcs
  <2>2. ASSUME NEW pc \in {"save", "rawFailed"},
               jobs' = [jobs EXCEPT ![s].pc = pc, ![s].active = current.active]
        PROVE  JobType'
    BY <1>2, <1>3, <2>2 DEF TypeOK, JobType, Job, JobPcs
  <2> QED
    BY <1>2, <2>1, <2>2
<1>5. CacheType'
  BY <1>1, <1>2 DEF LoadJob, TypeOK, CacheType
<1> QED
  BY <1>4, <1>5 DEF LoadJob, ReadRaises, Fault, TypeOK, StoreType, RequestType, artifacts

(* The failed write when the source is unreadable. *)
LEMMA SaveRawFailureType ==
    ASSUME TypeOK, NEW s \in Slots, SaveRawFailure(s)
    PROVE  TypeOK'
<1>1. JobType'
  BY JobGoesType, JobEndsType DEF SaveRawFailure, PersistByJob, TypeOK, JobPcs
<1>2. JobRecord(s, "failed") \in Record
  BY JobRecordType DEF TypeOK, Status, Terminal
<1>3. StoreType' /\ CacheType'
  BY <1>2, RecordWriteType DEF SaveRawFailure, PersistByJob, WriteInDoubt, TypeOK
<1> QED
  BY <1>1, <1>3 DEF SaveRawFailure, PersistByJob, Fault, TypeOK, RequestType

(* The status write that opens a stage, the publication switch included. *)
LEMMA SaveStageType ==
    ASSUME TypeOK, NEW s \in Slots, SaveStage(s)
    PROVE  TypeOK'
<1> DEFINE v == jobs[s].version
           published == [status |-> "indexed", version |-> v, active |-> v]
           new == IF jobs[s].stage = "indexed" THEN published
                  ELSE JobRecord(s, jobs[s].stage)
<1>1. JobType'
  BY JobGoesType DEF SaveStage, PersistByJob, TypeOK, JobPcs
<1>2. jobs[s].stage \in Status /\ v \in Versions
  BY DEF SaveStage, TypeOK, JobType, Job, Status, InProgress, Terminal, Stages
<1>3. new \in Record
  BY <1>2, JobRecordType DEF TypeOK, Record, MaybeVersion, Status, Terminal
<1>4. StoreType' /\ CacheType'
  BY <1>3, RecordWriteType DEF SaveStage, PersistByJob, WriteInDoubt, TypeOK
<1> QED
  BY <1>1, <1>4 DEF SaveStage, PersistByJob, Fault, TypeOK, RequestType

(* A job's first batch. *)
LEMMA UpsertJobBatchType ==
    ASSUME TypeOK, NEW s \in Slots, UpsertJobBatch(s)
    PROVE  TypeOK'
<1>1. jobs[s].version \in Versions
  BY DEF UpsertJobBatch, TypeOK, JobType
<1>2. StoreType'
  BY <1>1, UpsertBatchType DEF UpsertJobBatch, TypeOK
<1> QED
  BY <1>2 DEF UpsertJobBatch, TypeOK, CacheType, JobType, RequestType

(* The work of a stage: here the stages advance, and never past indexed. *)
LEMMA RunStageType ==
    ASSUME TypeOK, NEW s \in Slots, RunStage(s)
    PROVE  TypeOK'
<1> DEFINE v == jobs[s].version
           stage == jobs[s].stage
<1>1. v \in Versions /\ stage \in {"parsing", "chunking", "embedding"}
  BY DEF RunStage, TypeOK, JobType, Job, Stages
<1>2. NextStage[stage] \in Stages
  BY <1>1 DEF NextStage, Stages
<1>3. JobType'
  <2>1. CASE JobGoes(s, "failed")
    BY <2>1, JobGoesType DEF RunStage, TypeOK, JobPcs
  <2>2. CASE jobs' = [jobs EXCEPT ![s].pc = "save", ![s].stage = NextStage[stage]]
    BY <1>1, <1>2, <2>2 DEF RunStage, TypeOK, JobType, Job, JobPcs
  <2> QED
    BY <2>1, <2>2 DEF RunStage
<1>4. StoreType'
  BY <1>1 DEF RunStage, Upserted, TypeOK, StoreType
<1> QED
  BY <1>3, <1>4 DEF RunStage, Fault, TypeOK, CacheType, RequestType

(* The manifest of _record_ingestion_success. *)
LEMMA RecordVersionType ==
    ASSUME TypeOK, NEW s \in Slots, RecordVersion(s)
    PROVE  TypeOK'
<1>1. JobType'
  BY JobGoesType DEF RecordVersion, TypeOK, JobPcs
<1>2. StoreType'
  BY DEF RecordVersion, TypeOK, JobType, StoreType
<1> QED
  BY <1>1, <1>2 DEF RecordVersion, Fault, TypeOK, CacheType, RequestType

(* _activate_version_in_index. *)
LEMMA ActivateVersionType ==
    ASSUME TypeOK, NEW s \in Slots, ActivateVersion(s)
    PROVE  TypeOK'
<1>1. JobType'
  BY JobGoesType DEF ActivateVersion, TypeOK, JobPcs
<1>2. jobs[s].version \in Versions
  BY DEF ActivateVersion, TypeOK, JobType
<1>3. versionIndex' \in {versionIndex, Activated(versionIndex, jobs[s].version)}
  BY DEF ActivateVersion
<1>4. StoreType'
  BY <1>2, <1>3, ActivatedType DEF ActivateVersion, TypeOK, StoreType
<1> QED
  BY <1>1, <1>4 DEF ActivateVersion, Fault, TypeOK, CacheType, RequestType

(* The steps of a job that touch at most the vectors.                       *)
LEMMA CleanupType ==
    ASSUME TypeOK, NEW s \in Slots, CleanupSuperseded(s) \/ CleanupFailed(s)
    PROVE  TypeOK'
<1>1. JobType'
  BY JobGoesType, JobEndsType DEF CleanupSuperseded, CleanupFailed, TypeOK, JobPcs
<1>2. StoreType'
  BY DEF CleanupSuperseded, CleanupFailed, TypeOK, StoreType, artifacts
<1> QED
  BY <1>1, <1>2 DEF CleanupSuperseded, CleanupFailed, Fault, TypeOK, CacheType, RequestType

(* The failed write of the generic handler. *)
LEMMA SaveFailureType ==
    ASSUME TypeOK, NEW s \in Slots, SaveFailure(s)
    PROVE  TypeOK'
<1>1. JobType'
  BY JobGoesType, JobEndsType DEF SaveFailure, PersistByJob, TypeOK, JobPcs
<1>2. JobRecord(s, "failed") \in Record
  BY JobRecordType DEF TypeOK, Status, Terminal
<1>3. StoreType' /\ CacheType'
  BY <1>2, RecordWriteType DEF SaveFailure, PersistByJob, WriteInDoubt, TypeOK
<1> QED
  BY <1>1, <1>3 DEF SaveFailure, PersistByJob, Fault, TypeOK, RequestType

(* The two aborts reload the record, or end the job when they cannot. *)
LEMMA AbortType ==
    ASSUME TypeOK, NEW s \in Slots, AbortForDeleted(s) \/ AbortForSuperseded(s)
    PROVE  TypeOK'
<1>1. JobType'
  BY JobGoesType, JobEndsType
  DEF AbortForDeleted, AbortForSuperseded, AbortReturns, AbortRaises, TypeOK, JobPcs
<1>2. GetDocument(workerCache[Host[s]]) \in Record
  BY GetDocumentType DEF TypeOK, StoreType, CacheType
<1>3. CacheType'
  BY <1>2 DEF AbortForDeleted, AbortForSuperseded, AbortReturns, AbortRaises, TypeOK, CacheType
<1>4. StoreType'
  BY DEF AbortForDeleted, AbortForSuperseded, TypeOK, StoreType, artifacts
<1> QED
  BY <1>1, <1>3, <1>4
  DEF AbortForDeleted, AbortForSuperseded, AbortRaises, ReadRaises, Fault, TypeOK, RequestType

(* An acknowledgement only removes messages. *)
LEMMA AckJobType ==
    ASSUME TypeOK, NEW s \in Slots, AckJob(s)
    PROVE  TypeOK'
<1>1. JobType'
  BY JobEndsType DEF AckJob, TypeOK
<1> QED
  BY <1>1 DEF AckJob, Fault, TypeOK, StoreType, CacheType, RequestType, artifacts

(* A restart loses caches and work, nothing else. *)
LEMMA RestartType ==
    ASSUME TypeOK, ApiRestart \/ \E w \in Workers : WorkerRestart(w)
    PROVE  TypeOK'
<1>1. Absent \in Record
  BY DEF Absent, Record, Status, MaybeVersion
<1>2. CASE ApiRestart
  <2>1. RequestType'
    BY <1>1, <1>2 DEF ApiRestart, RequestType, Request, IdleRequest, RequestPcs, MaybeVersion
  <2> QED
    BY <1>1, <1>2, <2>1 DEF ApiRestart, Fault, TypeOK, StoreType, CacheType, JobType, artifacts
<1>3. ASSUME NEW w \in Workers, WorkerRestart(w)
      PROVE  TypeOK'
  <2>1. IdleJob \in Job /\ IdleJob.pc = "idle"
    BY DEF IdleJob, Job, JobPcs, Stages, MaybeVersion
  <2>2. JobType'
    BY <1>3, <2>1 DEF WorkerRestart, TypeOK, JobType
  <2> QED
    BY <1>1, <1>3, <2>2
    DEF WorkerRestart, Fault, TypeOK, StoreType, CacheType, RequestType, artifacts
<1> QED
  BY <1>2, <1>3

(* Every step keeps the types: one case per action. *)
LEMMA StepType ==
    ASSUME TypeOK, [Next]_vars
    PROVE  TypeOK'
<1>1. ASSUME NEW r \in Requests, UserOperation(r) PROVE TypeOK'
  BY <1>1, UploadDocumentType, ReplaceDocumentType, RestoreVersionType, DeleteDocumentType
  DEF UserOperation
<1>2. ASSUME NEW r \in Requests, ApiStep(r) PROVE TypeOK'
  BY <1>2, SaveQueuedType, EnqueueJobType, SaveEnqueueFailureType, DeleteVectorsType,
     SaveDeletedType, LoadVersionIndexType, ReindexBatchType, ReindexVersionType,
     ActivateRestoredType, SaveRestoredType
  DEF ApiStep
<1>3. ASSUME NEW s \in Slots, JobStep(s) PROVE TypeOK'
  BY <1>3, LoadJobType, SaveRawFailureType, SaveStageType, UpsertJobBatchType, RunStageType,
     RecordVersionType, ActivateVersionType, CleanupType, SaveFailureType, AbortType, AckJobType
  DEF JobStep
<1>4. ASSUME UNCHANGED vars PROVE TypeOK'
  BY <1>4 DEF vars, TypeOK, StoreType, CacheType, RequestType, JobType
<1> QED
  BY <1>1, <1>2, <1>3, <1>4, ReadDocumentType, ReceiveJobType, RestartType DEF Next

(* Every reachable state is typed: in particular the requests and the jobs  *)
(* that write, enqueue, upsert or activate always name a version.           *)
THEOREM TypeCorrect == Spec => []TypeOK
BY InitType, StepType, PTL DEF Spec

------------------------------------------------------------------------------
(* What guards the record.                                                 *)

(* Whatever a step writes to the record has passed _reject_illegal_write.   *)
LEMMA RecordWritesAccepted ==
    ASSUME [Next]_vars
    PROVE  record' = record \/ \E new : record' = new /\ Accepts(new)
<1>1. ASSUME NEW r \in Requests, UserOperation(r) PROVE record' = record
  BY <1>1 DEF UserOperation, UploadDocument, ReplaceDocument, RestoreVersion, DeleteDocument
<1>2. ASSUME NEW r \in Requests, ApiStep(r)
      PROVE  record' = record \/ \E new : record' = new /\ Accepts(new)
  BY <1>2 DEF ApiStep, SaveQueued, EnqueueJob, SaveEnqueueFailure, DeleteVectors, SaveDeleted,
         LoadVersionIndex, ReindexBatch, ReindexVersion, ActivateRestored, SaveRestored,
         PersistByRequest, WriteInDoubt
<1>3. ASSUME NEW s \in Slots, ReceiveJob(s) \/ JobStep(s)
      PROVE  record' = record \/ \E new : record' = new /\ Accepts(new)
  BY <1>3 DEF ReceiveJob, JobStep, LoadJob, SaveRawFailure, SaveStage, UpsertJobBatch, RunStage,
         RecordVersion, ActivateVersion, CleanupSuperseded, SaveFailure, CleanupFailed,
         AbortForDeleted, AbortForSuperseded, AckJob, PersistByJob, WriteInDoubt
<1>4. ASSUME ReadDocument \/ ApiRestart \/ (\E w \in Workers : WorkerRestart(w)) \/ UNCHANGED vars
      PROVE  record' = record
  BY <1>4 DEF ReadDocument, ApiRestart, WorkerRestart, vars
<1> QED
  BY <1>1, <1>2, <1>3, <1>4 DEF Next

(* No step of any process, in any order, revives a deleted document.        *)
THEOREM DeletedForever == Spec => DeletedIsFinal
<1>1. ASSUME [Next]_vars
      PROVE  [record.status = "deleted" => record'.status = "deleted"]_record
  BY <1>1, RecordWritesAccepted DEF Accepts, RejectsDeleted
<1> QED
  BY <1>1, PTL DEF Spec, DeletedIsFinal

(* A job runs, or a message waits, only for a document that has a record:   *)
(* the record is saved before its job is enqueued, and none is ever removed. *)
Introduced ==
    /\ \A r \in Requests : requests[r].pc = "queue" => requests[r].rec.status # "absent"
    /\ \/ record.status # "absent"
       \/ /\ queue = {}
          /\ \A r \in Requests : requests[r].pc # "enqueue"
          /\ \A s \in Slots : jobs[s].pc = "idle"

(* A record that was once stored never goes away. *)
LEMMA IntroducedRecordStays ==
    ASSUME TypeOK, Introduced, [Next]_vars, record.status # "absent"
    PROVE  record'.status # "absent"
<1>1. ASSUME NEW r \in Requests, ApiStep(r) PROVE record'.status # "absent"
  <2>1. requests[r].rec \in Record
    BY DEF TypeOK, RequestType, Request
  <2> QED
    BY <1>1, <2>1 DEF ApiStep, SaveQueued, EnqueueJob, SaveEnqueueFailure, DeleteVectors, SaveDeleted,
         LoadVersionIndex, ReindexBatch, ReindexVersion, ActivateRestored, SaveRestored,
         PersistByRequest, WriteInDoubt, Introduced, Record
<1>2. ASSUME NEW s \in Slots, ReceiveJob(s) \/ JobStep(s) PROVE record'.status # "absent"
  <2>1. jobs[s].stage # "absent"
    BY DEF TypeOK, JobType, Job, Stages
  <2> QED
    BY <1>2, <2>1 DEF ReceiveJob, JobStep, LoadJob, SaveRawFailure, SaveStage, UpsertJobBatch,
       RunStage, RecordVersion, ActivateVersion, CleanupSuperseded, SaveFailure, CleanupFailed,
       AbortForDeleted, AbortForSuperseded, AckJob, PersistByJob, WriteInDoubt, JobRecord
<1>3. ASSUME NEW r \in Requests, UserOperation(r) PROVE record' = record
  BY <1>3 DEF UserOperation, UploadDocument, ReplaceDocument, RestoreVersion, DeleteDocument
<1>4. ASSUME ReadDocument \/ ApiRestart \/ (\E w \in Workers : WorkerRestart(w)) \/ UNCHANGED vars
      PROVE  record' = record
  BY <1>4 DEF ReadDocument, ApiRestart, WorkerRestart, vars
<1> QED
  BY <1>1, <1>2, <1>3, <1>4 DEF Next

(* A request under way stays where it is, ends, or goes on; only the saving *)
(* of a queued record leads to the enqueueing.                              *)
LEMMA ApiStepGoes ==
    ASSUME NEW r \in Requests, ApiStep(r)
    PROVE  \/ requests' = requests \/ RequestEnds(r)
           \/ \E pc \in RequestPcs \ {"idle", "queue"} :
                 RequestGoes(r, pc) /\ (pc = "enqueue" => SaveQueued(r) /\ record' = requests[r].rec)
<1>1. CASE SaveQueued(r)
  BY <1>1 DEF SaveQueued, PersistByRequest, RequestPcs
<1>2. CASE EnqueueJob(r) \/ SaveEnqueueFailure(r) \/ DeleteVectors(r) \/ SaveDeleted(r)
  BY <1>2 DEF EnqueueJob, SaveEnqueueFailure, DeleteVectors, SaveDeleted, PersistByRequest,
     RequestPcs
<1>3. CASE LoadVersionIndex(r)
  BY <1>3 DEF LoadVersionIndex, RequestPcs
<1>4. CASE ReindexBatch(r) \/ ReindexVersion(r) \/ ActivateRestored(r) \/ SaveRestored(r)
  BY <1>4 DEF ReindexBatch, ReindexVersion, ActivateRestored, SaveRestored, PersistByRequest,
     RequestPcs
<1> QED
  BY <1>1, <1>2, <1>3, <1>4 DEF ApiStep

(* Every step keeps Introduced. *)
LEMMA IntroducedStep ==
    ASSUME TypeOK, Introduced, [Next]_vars
    PROVE  Introduced'
<1> DEFINE Saved == \A r \in Requests :
                       requests[r].pc = "queue" => requests[r].rec.status # "absent"
           Untouched == /\ queue = {}
                        /\ \A r \in Requests : requests[r].pc # "enqueue"
                        /\ \A s \in Slots : jobs[s].pc = "idle"
<1>1. Saved'
  <2>1. ASSUME NEW r \in Requests, UserOperation(r) PROVE Saved'
    BY <2>1 DEF UserOperation, UploadDocument, ReplaceDocument, RestoreVersion, DeleteDocument,
       Begin, TypeOK, RequestType, Introduced
  <2>2. ASSUME NEW r \in Requests, ApiStep(r) PROVE Saved'
    BY <2>2, ApiStepGoes
    DEF RequestGoes, RequestEnds, IdleRequest, TypeOK, RequestType, Request, Introduced
  <2>3. ASSUME NEW s \in Slots, ReceiveJob(s) \/ JobStep(s) PROVE UNCHANGED requests
    BY <2>3 DEF ReceiveJob, JobStep, LoadJob, SaveRawFailure, SaveStage, UpsertJobBatch, RunStage,
       RecordVersion, ActivateVersion, CleanupSuperseded, SaveFailure, CleanupFailed,
       AbortForDeleted, AbortForSuperseded, AckJob
  <2>4. ASSUME ReadDocument \/ (\E w \in Workers : WorkerRestart(w)) \/ UNCHANGED vars
        PROVE  UNCHANGED requests
    BY <2>4 DEF ReadDocument, WorkerRestart, vars
  <2>5. ASSUME ApiRestart PROVE Saved'
    BY <2>5 DEF ApiRestart, IdleRequest
  <2> QED
    BY <2>1, <2>2, <2>3, <2>4, <2>5 DEF Next, Introduced
<1>2. CASE record.status # "absent"
  BY <1>1, <1>2, IntroducedRecordStays DEF Introduced
<1>3. CASE Untouched
  <2>1. ASSUME NEW r \in Requests, UserOperation(r) PROVE Untouched'
    BY <1>3, <2>1 DEF UserOperation, UploadDocument, ReplaceDocument, RestoreVersion,
       DeleteDocument, Begin, TypeOK, RequestType
  <2>2. ASSUME NEW r \in Requests, ApiStep(r) PROVE Untouched' \/ record'.status # "absent"
    <3>1. CASE \E pc \in RequestPcs : RequestGoes(r, pc) /\ pc = "enqueue"
                                     /\ SaveQueued(r) /\ record' = requests[r].rec
      BY <3>1 DEF SaveQueued, Introduced
    <3>2. CASE \/ requests' = requests \/ RequestEnds(r)
               \/ \E pc \in RequestPcs \ {"enqueue"} : RequestGoes(r, pc)
      <4>1. \A q \in Requests : requests'[q].pc # "enqueue"
        BY <1>3, <3>2 DEF RequestGoes, RequestEnds, IdleRequest, TypeOK, RequestType, Request
      <4>2. queue' = queue /\ jobs' = jobs
        BY <1>3, <2>2 DEF ApiStep, SaveQueued, EnqueueJob, SaveEnqueueFailure, DeleteVectors,
           SaveDeleted, LoadVersionIndex, ReindexBatch, ReindexVersion, ActivateRestored,
           SaveRestored
      <4> QED
        BY <1>3, <4>1, <4>2
    <3> QED
      BY <2>2, <3>1, <3>2, ApiStepGoes
  <2>3. ASSUME NEW s \in Slots PROVE ~(ReceiveJob(s) \/ JobStep(s))
    BY <1>3, <2>3 DEF ReceiveJob, JobStep, LoadJob, SaveRawFailure, SaveStage, UpsertJobBatch,
       RunStage, RecordVersion, ActivateVersion, CleanupSuperseded, SaveFailure, CleanupFailed,
       AbortForDeleted, AbortForSuperseded, AckJob
  <2>4. ASSUME ReadDocument \/ UNCHANGED vars PROVE Untouched'
    BY <1>3, <2>4 DEF ReadDocument, vars
  <2>5. ASSUME ApiRestart \/ \E w \in Workers : WorkerRestart(w) PROVE Untouched'
    BY <1>3, <2>5 DEF ApiRestart, WorkerRestart, IdleRequest, IdleJob
  <2> QED
    BY <1>1, <2>1, <2>2, <2>3, <2>4, <2>5 DEF Next, Introduced
<1> QED
  BY <1>2, <1>3 DEF Introduced

(* A job never changes the record of a version that is not its own, however *)
(* late in its run, and through whichever of its writes, it tries to.       *)
THEOREM SupersededSilent == Spec => SupersededJobsAreSilent
<1>1. Init => Introduced
  BY DEF Init, Introduced, IdleRequest, IdleJob
<1>2. ASSUME TypeOK, Introduced, [Next]_vars
      PROVE  [\A s \in Slots :
                 jobs[s].pc # "idle" /\ jobs'[s] # jobs[s] /\ jobs[s].version # record.version
                    => record' = record]_vars
  <2> SUFFICES ASSUME Next, NEW s \in Slots, jobs[s].pc # "idle", jobs'[s] # jobs[s],
                      jobs[s].version # record.version
               PROVE  record' = record
    BY <1>2
  <2>1. record.status # "absent"
    BY <1>2 DEF Introduced
  <2>2. ASSUME NEW r \in Requests, UserOperation(r) \/ ApiStep(r) PROVE jobs' = jobs
    BY <2>2 DEF UserOperation, UploadDocument, ReplaceDocument, RestoreVersion, DeleteDocument,
       ApiStep, SaveQueued, EnqueueJob, SaveEnqueueFailure, DeleteVectors, SaveDeleted,
       LoadVersionIndex, ReindexBatch, ReindexVersion, ActivateRestored, SaveRestored
  <2>3. ASSUME ReadDocument \/ ApiRestart \/ \E w \in Workers : WorkerRestart(w)
        PROVE  record' = record
    BY <2>3 DEF ReadDocument, ApiRestart, WorkerRestart
  <2>4. ASSUME NEW t \in Slots, t # s, ReceiveJob(t) \/ JobStep(t) PROVE jobs'[s] = jobs[s]
    BY <1>2, <2>4 DEF ReceiveJob, JobStep, LoadJob, SaveRawFailure, SaveStage, UpsertJobBatch,
       RunStage, RecordVersion, ActivateVersion, CleanupSuperseded, SaveFailure, CleanupFailed,
       AbortForDeleted, AbortForSuperseded, AbortReturns, AbortRaises, AckJob, PersistByJob,
       JobGoes, JobEnds, TypeOK, JobType
  <2>5. ASSUME ReceiveJob(s) \/ JobStep(s) PROVE record' = record
    <3>1. jobs[s].stage \notin {"queued", "deleted"}
      BY <1>2 DEF TypeOK, JobType, Job, Stages
    <3> QED
      BY <2>1, <2>5, <3>1 DEF ReceiveJob, JobStep, LoadJob, SaveRawFailure, SaveStage,
         UpsertJobBatch, RunStage, RecordVersion, ActivateVersion, CleanupSuperseded, SaveFailure,
         CleanupFailed, AbortForDeleted, AbortForSuperseded, AckJob, PersistByJob, WriteInDoubt,
         JobRecord, Accepts, RejectsStale
  <2> QED
    BY <2>2, <2>3, <2>4, <2>5 DEF Next
<1> QED
  BY <1>1, <1>2, IntroducedStep, TypeCorrect, PTL DEF Spec, SupersededJobsAreSilent

-------------------------------------------------------------------------------
(* What is published. The three invariants of the publication path are      *)
(* inductive together, a query answered through the search gate sees only   *)
(* versions that were ingested whole, and the lifecycle implements          *)
(* PublicationGate.                                                         *)

(* A copy of the record whose active version belongs to E, and which names  *)
(* one if it is indexed.                                                    *)
SoundCopy(rec, E) ==
    /\ rec.active \in E \cup {NoVersion}
    /\ rec.status = "indexed" => rec.active # NoVersion

(* Every copy of the record, wherever it is held. *)
CopiesSound ==
    /\ SoundCopy(record, embedded) /\ SoundCopy(apiCache, embedded)
    /\ \A w \in Workers : SoundCopy(workerCache[w], embedded)
    /\ \A r \in Requests : SoundCopy(requests[r].rec, embedded)
    /\ \A s \in Slots : jobs[s].active \in embedded \cup {NoVersion}

JobsStaged ==
    \A s \in Slots :
       /\ StagedVersion(jobs[s].version, jobs[s].stage)
       /\ jobs[s].pc \in {"history", "publish", "cleanup"} => jobs[s].stage = "indexed"
       /\ jobs[s].pc = "publish" => jobs[s].version \in history

RestoresListed ==
    \A r \in Requests :
       requests[r].pc \in {"reindex", "activate", "saveRestored"}
          => requests[r].target \in versionIndex.versions

IndexSound == IndexedVersionsRestorable /\ embedded \subseteq chunks \cup Blank

Sound == CopiesSound /\ JobsStaged /\ RestoresListed /\ IndexSound

(* The inductive parts imply the properties the runs check. *)
LEMMA SoundIsPublication ==
    Sound <=> ActivePointersIngested /\ IndexedVersionsRestorable /\ PublishingIsBacked
BY DEF Sound, CopiesSound, SoundCopy, JobsStaged, RestoresListed, IndexSound,
       ActivePointersIngested, PublishingIsBacked

(* Nothing is published at first. *)
LEMMA InitSound == Init => Sound
BY DEF Init, Sound, CopiesSound, SoundCopy, JobsStaged, RestoresListed, IndexSound,
       IndexedVersionsRestorable, StagedVersion, Absent, IdleJob, IdleRequest

(* What get_document returns is as sound as the two copies it chooses from. *)
LEMMA GetDocumentSound ==
    ASSUME NEW cache, SoundCopy(cache, embedded), SoundCopy(record, embedded)
    PROVE  /\ SoundCopy(GetDocument(cache), embedded)
           /\ PublishedVersionOf(GetDocument(cache)) \in embedded \cup {NoVersion}
BY DEF GetDocument, PublishedVersionOf, SoundCopy

(* An empty copy points nowhere. *)
LEMMA AbsentSound == SoundCopy(Absent, embedded)
BY DEF SoundCopy, Absent

------------------------------------------------------------------------------
(* The copies of the record.                                               *)

(* The frame: only a stage's run ingests a version, and it is never undone. *)
LEMMA EmbeddedGrows ==
    ASSUME [Next]_vars
    PROVE  \/ embedded' = embedded
           \/ \E s \in Slots : RunStage(s) /\ embedded' = embedded \cup {jobs[s].version}
<1>1. ASSUME NEW r \in Requests, UserOperation(r) \/ ApiStep(r) PROVE embedded' = embedded
  BY <1>1 DEF UserOperation, UploadDocument, ReplaceDocument, RestoreVersion, DeleteDocument,
     ApiStep, SaveQueued, EnqueueJob, SaveEnqueueFailure, DeleteVectors, SaveDeleted,
     LoadVersionIndex, ReindexBatch, ReindexVersion, ActivateRestored, SaveRestored, artifacts
<1>2. ASSUME ReadDocument \/ ApiRestart \/ (\E w \in Workers : WorkerRestart(w)) \/ UNCHANGED vars
      PROVE  embedded' = embedded
  BY <1>2 DEF ReadDocument, ApiRestart, WorkerRestart, vars, artifacts
<1>3. ASSUME NEW s \in Slots, ReceiveJob(s) \/ JobStep(s), ~RunStage(s)
      PROVE  embedded' = embedded
  BY <1>3 DEF ReceiveJob, JobStep, LoadJob, SaveRawFailure, SaveStage, UpsertJobBatch,
     RecordVersion, ActivateVersion, CleanupSuperseded, SaveFailure, CleanupFailed,
     AbortForDeleted, AbortForSuperseded, AckJob, artifacts
<1>4. ASSUME NEW s \in Slots, RunStage(s)
      PROVE  embedded' = embedded \/ embedded' = embedded \cup {jobs[s].version}
  BY <1>4 DEF RunStage
<1> QED
  BY <1>1, <1>2, <1>3, <1>4 DEF Next, JobStep

(* A step that puts a sound copy wherever it changes one keeps them sound.  *)
LEMMA CopiesWritten ==
    ASSUME CopiesSound, CacheType, embedded \subseteq embedded',
           NEW new, SoundCopy(new, embedded'),
           record' \in {record, new}, apiCache' \in {apiCache, new},
           \/ UNCHANGED workerCache
           \/ \E w \in Workers : workerCache' = [workerCache EXCEPT ![w] = new],
           \A r \in Requests : requests'[r].rec \in {requests[r].rec, new, Absent},
           \A s \in Slots : jobs'[s].active \in {jobs[s].active, new.active, NoVersion}
    PROVE  CopiesSound'
BY DEF CopiesSound, SoundCopy, CacheType, Absent

(* A request's step changes its copy at most to the idle one. *)
LEMMA RequestCopiesKept ==
    ASSUME TypeOK, NEW r \in Requests, ApiStep(r)
    PROVE  \A q \in Requests : requests'[q].rec \in {requests[q].rec, Absent}
BY ApiStepGoes DEF RequestGoes, RequestEnds, IdleRequest, TypeOK, RequestType, Request

(* A job's step keeps the active version it read, ends it, or is LoadJob.   *)
LEMMA JobActiveKept ==
    ASSUME TypeOK, NEW s \in Slots, ReceiveJob(s) \/ JobStep(s), ~LoadJob(s)
    PROVE  \A t \in Slots : jobs'[t].active \in {jobs[t].active, NoVersion}
<1>1. CASE ReceiveJob(s)
  BY <1>1 DEF ReceiveJob, JobOf, TypeOK, JobType
<1>2. CASE JobStep(s)
  BY <1>2 DEF JobStep, SaveRawFailure, SaveStage, UpsertJobBatch, RunStage, RecordVersion,
     ActivateVersion, CleanupSuperseded, SaveFailure, CleanupFailed, AbortForDeleted,
     AbortForSuperseded, AbortReturns, AbortRaises, AckJob, PersistByJob, JobGoes, JobEnds,
     IdleJob, TypeOK, JobType, Job
<1> QED
  BY <1>1, <1>2

(* The API process's steps keep every copy sound. *)
LEMMA ApiStepCopies ==
    ASSUME TypeOK, Sound, NEW r \in Requests, ApiStep(r)
    PROVE  CopiesSound'
<1> DEFINE rec == requests[r].rec
           Wrote(new) == record' \in {record, new} /\ apiCache' \in {apiCache, new}
<1>1. SoundCopy(rec, embedded) /\ rec \in Record
  BY DEF Sound, CopiesSound, TypeOK, RequestType, Request
<1>2. UNCHANGED <<workerCache, jobs, embedded>>
  BY DEF ApiStep, SaveQueued, EnqueueJob, SaveEnqueueFailure, DeleteVectors, SaveDeleted,
     LoadVersionIndex, ReindexBatch, ReindexVersion, ActivateRestored, SaveRestored, artifacts
<1>3. \E new : SoundCopy(new, embedded) /\ Wrote(new)
  <2>1. CASE SaveQueued(r)
    BY <1>1, <2>1 DEF SaveQueued, PersistByRequest, WriteInDoubt
  <2>2. CASE SaveEnqueueFailure(r) \/ SaveDeleted(r)
    <3>1. ASSUME NEW status \in {"failed", "deleted"}
          PROVE  SoundCopy([rec EXCEPT !.status = status], embedded)
      BY <1>1 DEF SoundCopy, Record
    <3> QED
      BY <2>2, <3>1 DEF SaveEnqueueFailure, SaveDeleted, PersistByRequest, WriteInDoubt
  <2>3. CASE SaveRestored(r)
    <3>1. requests[r].target \in versionIndex.versions /\ requests[r].target \in Versions
      BY <2>3 DEF SaveRestored, Sound, RestoresListed, TypeOK, RequestType
    <3>2. requests[r].target \in embedded
      BY <3>1 DEF Sound, IndexSound, IndexedVersionsRestorable
    <3>3. SoundCopy([rec EXCEPT !.status = "indexed", !.active = requests[r].target], embedded)
      BY <1>1, <3>1, <3>2 DEF SoundCopy, Record
    <3> QED
      BY <2>3, <3>3 DEF SaveRestored, PersistByRequest, WriteInDoubt
  <2>4. CASE EnqueueJob(r) \/ DeleteVectors(r) \/ LoadVersionIndex(r) \/ ReindexBatch(r)
             \/ ReindexVersion(r) \/ ActivateRestored(r)
    BY <1>1, <2>4 DEF EnqueueJob, DeleteVectors, LoadVersionIndex, ReindexBatch, ReindexVersion,
       ActivateRestored
  <2> QED
    BY <2>1, <2>2, <2>3, <2>4 DEF ApiStep
<1> QED
  BY <1>2, <1>3, RequestCopiesKept, CopiesWritten DEF Sound, TypeOK, CopiesSound

(* A new request starts from a sound copy. *)
LEMMA UserOperationCopies ==
    ASSUME TypeOK, Sound, NEW r \in Requests, UserOperation(r)
    PROVE  CopiesSound'
<1> DEFINE existing == GetDocument(apiCache)
<1>1. SoundCopy(existing, embedded) /\ PublishedVersionOf(existing) \in embedded \cup {NoVersion}
  BY GetDocumentSound DEF Sound, CopiesSound
<1>2. UNCHANGED <<record, workerCache, jobs, embedded>>
  BY DEF UserOperation, UploadDocument, ReplaceDocument, RestoreVersion, DeleteDocument, artifacts
<1>3. \E rec : /\ SoundCopy(rec, embedded)
              /\ \A q \in Requests : requests'[q].rec \in {requests[q].rec, rec}
  BY <1>1 DEF UserOperation, UploadDocument, ReplaceDocument, RestoreVersion, DeleteDocument,
     Begin, SoundCopy, TypeOK, RequestType
<1>4. apiCache' \in {apiCache, existing}
  BY DEF UserOperation, UploadDocument, ReplaceDocument, RestoreVersion, DeleteDocument
<1> HIDE DEF existing
<1>5. \A q \in Requests : SoundCopy(requests'[q].rec, embedded)
  BY <1>3 DEF Sound, CopiesSound
<1> QED
  BY <1>1, <1>2, <1>4, <1>5 DEF Sound, CopiesSound

(* What a job writes: a failure or a stage's status with the active version *)
(* it read, or its own version once that was ingested.                      *)
LEMMA JobWritesSound ==
    ASSUME TypeOK, Sound, NEW s \in Slots, jobs[s].pc # "idle"
    PROVE  /\ \A status \in Status \ {"indexed"} : SoundCopy(JobRecord(s, status), embedded)
           /\ jobs[s].stage = "indexed" =>
                SoundCopy([status |-> "indexed", version |-> jobs[s].version,
                           active |-> jobs[s].version], embedded)
<1>1. jobs[s].active \in embedded \cup {NoVersion}
  BY DEF Sound, CopiesSound
<1>2. jobs[s].version \in Versions
  BY DEF TypeOK, JobType
<1>3. jobs[s].stage = "indexed" => jobs[s].version \in embedded
  BY DEF Sound, JobsStaged, StagedVersion
<1> QED
  BY <1>1, <1>2, <1>3 DEF SoundCopy, JobRecord

(* A job's steps keep every copy sound, the publication switch included. *)
LEMMA JobStepCopies ==
    ASSUME TypeOK, Sound, NEW s \in Slots, ReceiveJob(s) \/ JobStep(s)
    PROVE  CopiesSound'
<1> DEFINE current == GetDocument(workerCache[Host[s]])
           Wrote(new) == /\ record' \in {record, new}
                         /\ \/ UNCHANGED workerCache
                            \/ workerCache' = [workerCache EXCEPT ![Host[s]] = new]
<1>1. Host[s] \in Workers /\ SoundCopy(current, embedded)
  BY GetDocumentSound DEF Sound, CopiesSound
<1>2. UNCHANGED <<requests, apiCache>>
  BY DEF ReceiveJob, JobStep, LoadJob, SaveRawFailure, SaveStage, UpsertJobBatch, RunStage,
     RecordVersion, ActivateVersion, CleanupSuperseded, SaveFailure, CleanupFailed,
     AbortForDeleted, AbortForSuperseded, AckJob
<1>3. embedded \subseteq embedded'
  BY EmbeddedGrows DEF Next
<1>4. \E new : /\ SoundCopy(new, embedded) /\ Wrote(new)
              /\ \A t \in Slots : jobs'[t].active \in {jobs[t].active, new.active, NoVersion}
  <2>1. CASE LoadJob(s)
    <3>1. Wrote(current)
      BY <2>1 DEF LoadJob
    <3>2. \A t \in Slots : jobs'[t].active \in {jobs[t].active, current.active, NoVersion}
      BY <2>1 DEF LoadJob, JobGoes, JobEnds, IdleJob, TypeOK, JobType, Job
    <3> HIDE DEF current
    <3> QED
      BY <1>1, <3>1, <3>2
  <2>2. CASE AbortForDeleted(s) \/ AbortForSuperseded(s)
    <3>1. Wrote(current)
      BY <2>2 DEF AbortForDeleted, AbortForSuperseded, AbortReturns, AbortRaises, TypeOK, CacheType
    <3>2. \A t \in Slots : jobs'[t].active \in {jobs[t].active, NoVersion}
      BY <2>2 DEF AbortForDeleted, AbortForSuperseded, AbortReturns, AbortRaises, JobGoes, JobEnds,
         IdleJob, TypeOK, JobType, Job
    <3> HIDE DEF current
    <3> QED
      BY <1>1, <3>1, <3>2
  <2>3. CASE SaveRawFailure(s) \/ SaveFailure(s)
    <3>1. SoundCopy(JobRecord(s, "failed"), embedded)
      BY <2>3, JobWritesSound DEF SaveRawFailure, SaveFailure, Status, Terminal
    <3>2. Wrote(JobRecord(s, "failed"))
      BY <2>3 DEF SaveRawFailure, SaveFailure, PersistByJob, WriteInDoubt
    <3>3. \A t \in Slots : jobs'[t].active \in {jobs[t].active, NoVersion}
      BY <2>3, JobActiveKept DEF JobStep, SaveRawFailure, SaveFailure, LoadJob
    <3> QED
      BY <3>1, <3>2, <3>3
  <2>4. CASE SaveStage(s)
    <3> DEFINE v == jobs[s].version
               published == [status |-> "indexed", version |-> v, active |-> v]
               new == IF jobs[s].stage = "indexed" THEN published
                      ELSE JobRecord(s, jobs[s].stage)
    <3>1. SoundCopy(new, embedded)
      <4>1. jobs[s].stage \in Status
        BY DEF TypeOK, JobType, Job, Stages, Status, InProgress, Terminal
      <4> QED
        BY <2>4, <4>1, JobWritesSound DEF SaveStage
    <3>2. Wrote(new)
      BY <2>4 DEF SaveStage, PersistByJob, WriteInDoubt
    <3>3. \A t \in Slots : jobs'[t].active \in {jobs[t].active, NoVersion}
      BY <2>4, JobActiveKept DEF JobStep, SaveStage, LoadJob
    <3> HIDE DEF new
    <3> QED
      BY <3>1, <3>2, <3>3
  <2>5. CASE ReceiveJob(s) \/ UpsertJobBatch(s) \/ RunStage(s) \/ RecordVersion(s)
             \/ ActivateVersion(s) \/ CleanupSuperseded(s) \/ CleanupFailed(s) \/ AckJob(s)
    <3>1. UNCHANGED <<record, workerCache>>
      BY <2>5 DEF ReceiveJob, UpsertJobBatch, RunStage, RecordVersion, ActivateVersion,
         CleanupSuperseded, CleanupFailed, AckJob
    <3>2. ~LoadJob(s)
      BY <2>5 DEF ReceiveJob, UpsertJobBatch, RunStage, RecordVersion, ActivateVersion,
         CleanupSuperseded, CleanupFailed, AckJob, LoadJob
    <3>3. \A t \in Slots : jobs'[t].active \in {jobs[t].active, NoVersion}
      BY <3>2, JobActiveKept
    <3> HIDE DEF current
    <3> QED
      BY <1>1, <3>1, <3>3
  <2> QED
    BY <2>1, <2>2, <2>3, <2>4, <2>5 DEF JobStep
<1>5. PICK new : /\ SoundCopy(new, embedded) /\ Wrote(new)
                 /\ \A t \in Slots : jobs'[t].active \in {jobs[t].active, new.active, NoVersion}
  BY <1>4
<1>6. SoundCopy(new, embedded')
  BY <1>3, <1>5 DEF SoundCopy
<1> QED
  BY <1>1, <1>2, <1>3, <1>5, <1>6, CopiesWritten DEF Sound, TypeOK

(* Every step keeps every copy of the record sound. *)
LEMMA CopiesStep ==
    ASSUME TypeOK, Sound, [Next]_vars
    PROVE  CopiesSound'
<1>1. ASSUME ReadDocument PROVE CopiesSound'
  BY <1>1, GetDocumentSound DEF ReadDocument, Sound, CopiesSound, artifacts
<1>2. ASSUME ApiRestart \/ \E w \in Workers : WorkerRestart(w) PROVE CopiesSound'
  BY <1>2, AbsentSound
  DEF ApiRestart, WorkerRestart, IdleRequest, IdleJob, Sound, CopiesSound, TypeOK, CacheType, artifacts
<1>3. ASSUME UNCHANGED vars PROVE CopiesSound'
  BY <1>3 DEF vars, Sound, CopiesSound
<1> QED
  BY <1>1, <1>2, <1>3, UserOperationCopies, ApiStepCopies, JobStepCopies DEF Next

------------------------------------------------------------------------------
(* The jobs and the index.                                                 *)

(* Artifacts are never removed, so a stage once passed stays passed.        *)
LEMMA ArtifactsGrow ==
    ASSUME [Next]_vars
    PROVE  /\ chunks \subseteq chunks' /\ embedded \subseteq embedded'
           /\ history \subseteq history'
           /\ versionIndex.versions \subseteq versionIndex'.versions
<1>1. ASSUME NEW r \in Requests, UserOperation(r) PROVE UNCHANGED <<versionIndex, history, chunks>>
  BY <1>1 DEF UserOperation, UploadDocument, ReplaceDocument, RestoreVersion, DeleteDocument,
     artifacts
<1>2. ASSUME NEW r \in Requests, ApiStep(r), ~ActivateRestored(r)
      PROVE  UNCHANGED <<versionIndex, history, chunks>>
  BY <1>2 DEF ApiStep, SaveQueued, EnqueueJob, SaveEnqueueFailure, DeleteVectors, SaveDeleted,
     LoadVersionIndex, ReindexBatch, ReindexVersion, SaveRestored, artifacts
<1>3. ASSUME ReadDocument \/ ApiRestart \/ (\E w \in Workers : WorkerRestart(w)) \/ UNCHANGED vars
      PROVE  UNCHANGED <<versionIndex, history, chunks>>
  BY <1>3 DEF ReadDocument, ApiRestart, WorkerRestart, vars, artifacts
<1>4. ASSUME NEW s \in Slots, ReceiveJob(s) \/ JobStep(s),
             ~RunStage(s), ~RecordVersion(s), ~ActivateVersion(s)
      PROVE  UNCHANGED <<versionIndex, history, chunks>>
  BY <1>4 DEF ReceiveJob, JobStep, LoadJob, SaveRawFailure, SaveStage, UpsertJobBatch,
     CleanupSuperseded, SaveFailure, CleanupFailed, AbortForDeleted, AbortForSuperseded, AckJob,
     artifacts
<1>5. ASSUME NEW s \in Slots, RunStage(s) \/ RecordVersion(s) \/ ActivateVersion(s)
      PROVE  /\ chunks \subseteq chunks' /\ history \subseteq history'
             /\ versionIndex.versions \subseteq versionIndex'.versions
  BY <1>5 DEF RunStage, RecordVersion, ActivateVersion, Activated
<1>6. ASSUME NEW r \in Requests, ActivateRestored(r)
      PROVE  /\ UNCHANGED <<chunks, history>>
             /\ versionIndex.versions \subseteq versionIndex'.versions
  BY <1>6 DEF ActivateRestored, Activated
<1>7. embedded \subseteq embedded'
  BY EmbeddedGrows
<1> QED
  BY <1>1, <1>2, <1>3, <1>4, <1>5, <1>6, <1>7 DEF Next, JobStep

(* Every step keeps a job's artifacts behind its stage. *)
LEMMA JobsStagedStep ==
    ASSUME TypeOK, Sound, [Next]_vars
    PROVE  JobsStaged'
<1>1. /\ chunks \subseteq chunks' /\ embedded \subseteq embedded' /\ history \subseteq history'
  BY ArtifactsGrow
<1>2. ASSUME NEW t \in Slots, jobs'[t] = jobs[t] \/ jobs'[t] = IdleJob
      PROVE  /\ StagedVersion(jobs[t].version, jobs[t].stage)'
             /\ jobs'[t].pc \in {"history", "publish", "cleanup"} => jobs'[t].stage = "indexed"
             /\ jobs'[t].pc = "publish" => jobs'[t].version \in history'
  BY <1>1, <1>2 DEF Sound, JobsStaged, StagedVersion, IdleJob
<1>3. ASSUME NEW r \in Requests, UserOperation(r) \/ ApiStep(r) PROVE jobs' = jobs
  BY <1>3 DEF UserOperation, UploadDocument, ReplaceDocument, RestoreVersion, DeleteDocument,
     ApiStep, SaveQueued, EnqueueJob, SaveEnqueueFailure, DeleteVectors, SaveDeleted,
     LoadVersionIndex, ReindexBatch, ReindexVersion, ActivateRestored, SaveRestored
<1>4. ASSUME ReadDocument \/ ApiRestart \/ (\E w \in Workers : WorkerRestart(w)) \/ UNCHANGED vars
      PROVE  \A t \in Slots : jobs'[t] = jobs[t] \/ jobs'[t] = IdleJob
  BY <1>4 DEF ReadDocument, ApiRestart, WorkerRestart, vars
<1>5. ASSUME NEW s \in Slots, ReceiveJob(s) \/ JobStep(s) PROVE JobsStaged'
  <2>1. ASSUME NEW t \in Slots, t # s PROVE jobs'[t] = jobs[t]
    BY <1>5, <2>1 DEF ReceiveJob, JobStep, LoadJob, SaveRawFailure, SaveStage, UpsertJobBatch,
       RunStage, RecordVersion, ActivateVersion, CleanupSuperseded, SaveFailure, CleanupFailed,
       AbortForDeleted, AbortForSuperseded, AbortReturns, AbortRaises, AckJob, PersistByJob,
       JobGoes, JobEnds, TypeOK, JobType
  <2> DEFINE Staged == /\ StagedVersion(jobs[s].version, jobs[s].stage)
                       /\ jobs[s].pc \in {"history", "publish", "cleanup"}
                             => jobs[s].stage = "indexed"
                       /\ jobs[s].pc = "publish" => jobs[s].version \in history
  <2>2. Staged
    BY DEF Sound, JobsStaged
  <2>3. Staged'
    <3>1. CASE RunStage(s)
      BY <1>1, <2>2, <3>1 DEF RunStage, NextStage, JobGoes, StagedVersion, TypeOK, JobType, Job,
         Stages, Sound, IndexSound
    <3>2. CASE SaveStage(s)
      BY <1>1, <2>2, <3>2 DEF SaveStage, PersistByJob, JobGoes, StagedVersion, TypeOK, JobType, Job
    <3>3. CASE RecordVersion(s) \/ ActivateVersion(s) \/ CleanupSuperseded(s)
      BY <1>1, <2>2, <3>3 DEF RecordVersion, ActivateVersion, CleanupSuperseded, JobGoes,
         StagedVersion, TypeOK, JobType, Job
    <3>4. CASE SaveRawFailure(s) \/ SaveFailure(s)
      BY <1>1, <2>2, <3>4 DEF SaveRawFailure, SaveFailure, PersistByJob, JobGoes, JobEnds, IdleJob,
         StagedVersion, TypeOK, JobType, Job
    <3>5. CASE ReceiveJob(s)
      BY <3>5 DEF ReceiveJob, JobOf, StagedVersion, TypeOK, JobType
    <3>6. CASE LoadJob(s)
      BY <1>1, <2>2, <3>6 DEF LoadJob, JobGoes, JobEnds, IdleJob, StagedVersion, TypeOK, JobType, Job
    <3>7. CASE UpsertJobBatch(s) \/ CleanupFailed(s) \/ AbortForDeleted(s) \/ AbortForSuperseded(s)
               \/ AckJob(s)
      BY <1>1, <2>2, <3>7 DEF UpsertJobBatch, CleanupFailed, AbortForDeleted, AbortForSuperseded,
         AbortReturns, AbortRaises, AckJob, JobGoes, JobEnds, IdleJob, StagedVersion, TypeOK,
         JobType, Job
    <3> QED
      BY <1>5, <3>1, <3>2, <3>3, <3>4, <3>5, <3>6, <3>7 DEF JobStep
  <2> QED
    BY <1>2, <2>1, <2>3 DEF JobsStaged
<1> QED
  BY <1>2, <1>3, <1>4, <1>5 DEF Next, JobsStaged

(* Every step keeps a restore's target in the version index. *)
LEMMA RestoresListedStep ==
    ASSUME TypeOK, Sound, [Next]_vars
    PROVE  RestoresListed'
<1> DEFINE Past == {"reindex", "activate", "saveRestored"}
           Listed(q) == requests[q].pc \in Past => requests[q].target \in versionIndex.versions
<1>1. versionIndex.versions \subseteq versionIndex'.versions
  BY ArtifactsGrow
<1>2. ASSUME NEW r \in Requests, UserOperation(r) PROVE RestoresListed'
  BY <1>1, <1>2 DEF UserOperation, UploadDocument, ReplaceDocument, RestoreVersion, DeleteDocument,
     Begin, Sound, RestoresListed, TypeOK, RequestType
<1>3. ASSUME NEW r \in Requests, ApiStep(r) PROVE RestoresListed'
  <2>1. requests' = requests \/ RequestEnds(r) \/ \E pc \in RequestPcs : RequestGoes(r, pc)
    BY <1>3, ApiStepGoes
  <2>2. ASSUME NEW q \in Requests, q # r PROVE Listed(q)'
    BY <1>1, <2>1, <2>2 DEF RequestEnds, RequestGoes, Sound, RestoresListed, TypeOK, RequestType
  <2>3. Listed(r)'
    <3>1. CASE LoadVersionIndex(r)
      BY <3>1 DEF LoadVersionIndex, RequestGoes, RequestEnds, IdleRequest, TypeOK, RequestType,
         Request, artifacts
    <3>2. CASE ReindexBatch(r) \/ ReindexVersion(r) \/ ActivateRestored(r) \/ SaveRestored(r)
      <4>1. requests[r].target \in versionIndex.versions
        BY <3>2 DEF ReindexBatch, ReindexVersion, ActivateRestored, SaveRestored, Sound,
           RestoresListed
      <4>2. requests'[r].target = requests[r].target \/ requests'[r].pc = "idle"
        BY <2>1 DEF RequestEnds, RequestGoes, IdleRequest, TypeOK, RequestType, Request
      <4> QED
        BY <1>1, <4>1, <4>2
    <3>3. CASE SaveQueued(r) \/ EnqueueJob(r) \/ SaveEnqueueFailure(r) \/ DeleteVectors(r)
               \/ SaveDeleted(r)
      BY <3>3 DEF SaveQueued, EnqueueJob, SaveEnqueueFailure, DeleteVectors, SaveDeleted,
         PersistByRequest, RequestGoes, RequestEnds, IdleRequest, TypeOK, RequestType, Request
    <3> QED
      BY <1>3, <3>1, <3>2, <3>3 DEF ApiStep
  <2> QED
    BY <2>2, <2>3 DEF RestoresListed
<1>4. ASSUME NEW s \in Slots, ReceiveJob(s) \/ JobStep(s) PROVE UNCHANGED requests
  BY <1>4 DEF ReceiveJob, JobStep, LoadJob, SaveRawFailure, SaveStage, UpsertJobBatch, RunStage,
     RecordVersion, ActivateVersion, CleanupSuperseded, SaveFailure, CleanupFailed,
     AbortForDeleted, AbortForSuperseded, AckJob
<1>5. ASSUME ReadDocument \/ (\E w \in Workers : WorkerRestart(w)) \/ UNCHANGED vars
      PROVE  UNCHANGED requests
  BY <1>5 DEF ReadDocument, WorkerRestart, vars
<1>6. ASSUME UNCHANGED requests PROVE RestoresListed'
  BY <1>1, <1>6 DEF Sound, RestoresListed
<1>7. ASSUME ApiRestart PROVE RestoresListed'
  BY <1>7 DEF ApiRestart, IdleRequest, RestoresListed
<1> QED
  BY <1>2, <1>3, <1>4, <1>5, <1>6, <1>7 DEF Next

(* Every step keeps the version index restorable. *)
LEMMA IndexSoundStep ==
    ASSUME TypeOK, Sound, [Next]_vars
    PROVE  IndexSound'
<1>1. /\ chunks \subseteq chunks' /\ history \subseteq history'
      /\ versionIndex.versions \subseteq versionIndex'.versions
  BY ArtifactsGrow
<1>2. embedded \subseteq embedded' /\ embedded' \subseteq chunks' \cup Blank
  <2>1. CASE embedded' = embedded
    BY <1>1, <2>1 DEF Sound, IndexSound
  <2>2. ASSUME NEW s \in Slots, RunStage(s), embedded' = embedded \cup {jobs[s].version},
               embedded' # embedded
        PROVE  jobs[s].version \in chunks \cup Blank
    BY <2>2 DEF RunStage, Sound, JobsStaged, StagedVersion
  <2> QED
    BY <1>1, <2>1, <2>2, EmbeddedGrows DEF Sound, IndexSound
<1>3. CASE versionIndex' = versionIndex
  BY <1>1, <1>2, <1>3 DEF Sound, IndexSound, IndexedVersionsRestorable
<1>4. ASSUME NEW v \in Versions, versionIndex' = Activated(versionIndex, v),
             v \in history \cap embedded
      PROVE  IndexSound'
  BY <1>1, <1>2, <1>4 DEF Sound, IndexSound, IndexedVersionsRestorable, Activated
<1>5. ASSUME NEW r \in Requests, ActivateRestored(r), versionIndex' # versionIndex
      PROVE  /\ requests[r].target \in Versions \cap history \cap embedded
             /\ versionIndex' = Activated(versionIndex, requests[r].target)
  BY <1>5 DEF ActivateRestored, Sound, RestoresListed, IndexSound, IndexedVersionsRestorable,
     TypeOK, RequestType
<1>6. ASSUME NEW s \in Slots, ActivateVersion(s), versionIndex' # versionIndex
      PROVE  /\ jobs[s].version \in Versions \cap history \cap embedded
             /\ versionIndex' = Activated(versionIndex, jobs[s].version)
  BY <1>6 DEF ActivateVersion, Sound, JobsStaged, StagedVersion, TypeOK, JobType
<1>7. \/ UNCHANGED versionIndex
      \/ \E r \in Requests : ActivateRestored(r)
      \/ \E s \in Slots : ActivateVersion(s)
  <2>1. ASSUME NEW r \in Requests, UserOperation(r) PROVE UNCHANGED versionIndex
    BY <2>1 DEF UserOperation, UploadDocument, ReplaceDocument, RestoreVersion, DeleteDocument,
       artifacts
  <2>2. ASSUME NEW r \in Requests, ApiStep(r), ~ActivateRestored(r) PROVE UNCHANGED versionIndex
    BY <2>2 DEF ApiStep, SaveQueued, EnqueueJob, SaveEnqueueFailure, DeleteVectors, SaveDeleted,
       LoadVersionIndex, ReindexBatch, ReindexVersion, SaveRestored, artifacts
  <2>3. ASSUME NEW s \in Slots, ReceiveJob(s) \/ JobStep(s), ~ActivateVersion(s)
        PROVE  UNCHANGED versionIndex
    BY <2>3 DEF ReceiveJob, JobStep, LoadJob, SaveRawFailure, SaveStage, UpsertJobBatch, RunStage,
       RecordVersion, CleanupSuperseded, SaveFailure, CleanupFailed, AbortForDeleted,
       AbortForSuperseded, AckJob, artifacts
  <2>4. ASSUME ReadDocument \/ ApiRestart \/ (\E w \in Workers : WorkerRestart(w)) \/ UNCHANGED vars
        PROVE  UNCHANGED versionIndex
    BY <2>4 DEF ReadDocument, ApiRestart, WorkerRestart, vars, artifacts
  <2> QED
    BY <2>1, <2>2, <2>3, <2>4 DEF Next
<1> QED
  BY <1>3, <1>4, <1>5, <1>6, <1>7

------------------------------------------------------------------------------
(* What follows for every instance.                                        *)

(* The inductive invariant holds throughout. *)
LEMMA SoundAlways == Spec => [](TypeOK /\ Sound)
<1>1. TypeOK /\ Sound /\ [Next]_vars => (TypeOK /\ Sound)'
  BY StepType, CopiesStep, JobsStagedStep, RestoresListedStep, IndexSoundStep DEF Sound
<1> QED
  BY <1>1, InitType, InitSound, PTL DEF Spec

(* A version the index lists is restorable, and never two are live.         *)
THEOREM VersionsRestorable == Spec => []IndexedVersionsRestorable
<1>1. Sound => IndexedVersionsRestorable
  BY DEF Sound, IndexSound
<1> QED
  BY <1>1, SoundAlways, PTL

(* However stale, every copy of the record points to an ingested version.   *)
THEOREM PointersIngested == Spec => []ActivePointersIngested
BY SoundIsPublication, SoundAlways, PTL

(* Jobs and restores that are about to publish have what they publish.      *)
THEOREM PublishingBacked == Spec => []PublishingIsBacked
BY SoundIsPublication, SoundAlways, PTL

(* No query, whatever the API process has cached, sees a version that was   *)
(* not ingested whole.                                                      *)
THEOREM SearchIsSafe == Spec => []SearchSeesOnlyIngested
<1>1. Sound => SearchSeesOnlyIngested
  BY GetDocumentSound DEF Sound, CopiesSound, SearchSeesOnlyIngested, SearchHits
<1> QED
  BY <1>1, SoundAlways, PTL

(* Every step of the lifecycle, mapped to what its readers may see, is one  *)
(* of PublicationGate's or none.                                            *)
THEOREM LifecycleImplementsGate == Spec => ImplementsGate
<1> DEFINE published == IF record.status = "deleted" THEN "gone" ELSE record.active
<1>1. Init => Gate!Init
  BY DEF Init, Gate!Init, Absent
<1>2. ASSUME TypeOK, Sound, [Next]_vars, Sound'
      PROVE  [Gate!Next]_(Gate!gateVars)
  <2>1. CASE embedded' # embedded
    <3>1. PICK s \in Slots : RunStage(s) /\ embedded' = embedded \cup {jobs[s].version}
      BY <1>2, <2>1, EmbeddedGrows
    <3>2. record' = record /\ jobs[s].version \in Versions
      BY <1>2, <3>1 DEF RunStage, TypeOK, JobType
    <3> QED
      BY <3>1, <3>2 DEF Gate!Next, Gate!Ingest
  <2>2. CASE embedded' = embedded
    <3>1. CASE record' = record
      BY <2>2, <3>1 DEF Gate!gateVars
    <3>2. CASE record' # record
      <4>1. Accepts(record')
        BY <1>2, <3>2, RecordWritesAccepted
      <4>2. CASE record'.status = "deleted"
        BY <2>2, <4>2 DEF Gate!Next, Gate!Remove
      <4>3. CASE record'.status # "deleted"
        <5>1. record.status # "deleted"
          BY <4>1, <4>3 DEF Accepts, RejectsDeleted
        <5>2. record.active \in MaybeVersion /\ embedded \subseteq Versions
          BY <1>2 DEF TypeOK, StoreType, Record
        <5>3. record'.active \in embedded \cup {NoVersion}
          BY <1>2, <2>2 DEF Sound, CopiesSound, SoundCopy
        <5>4. Gate!Publish(record'.active)
          BY <2>2, <4>3, <5>1, <5>2, <5>3 DEF Gate!Publish, MaybeVersion
        <5> QED
          BY <5>2, <5>3, <5>4 DEF Gate!Next
      <4> QED
        BY <4>2, <4>3
    <3> QED
      BY <3>1, <3>2
  <2> QED
    BY <2>1, <2>2
<1> QED
  BY <1>1, <1>2, SoundAlways, PTL DEF Spec, ImplementsGate, Gate!Spec

-------------------------------------------------------------------------------
(* Users who work in turn. The published version stays searchable and the   *)
(* two active pointers agree when a replacement or a restore begins only at *)
(* rest and seen by the API process as stored; overlapping ones break both. *)
(* The inductive invariant TurnInv says that one request or one job is      *)
(* under way at a time, a job for the one message, and relates what it has  *)
(* read to the record, the caches, the vectors and the index.               *)

(* Replacements and restores, failing stages, restarts of idle workers and  *)
(* of the API process. Not among them, because they break the promise: a    *)
(* worker that crashes, an acknowledgement or a write that is lost or in    *)
(* doubt, a deletion, a source uploaded again, a message delivered while    *)
(* its job runs.                                                            *)
TurnEnvironment ==
    /\ Operations \subseteq {"replace", "restore"}
    /\ Faults \subseteq {"stage", "idleRestart", "apiRestart"}

(* A restore writes the index and then the record, and is never cut between *)
(* the two.                                                                 *)
RestoresUncut == "restore" \in Operations => "apiRestart" \notin Faults

(* A slot with a job, a request under way, a job that has published, and a  *)
(* record whose version has yet to be published.                            *)
Running(s) == jobs[s].pc # "idle"
Open(r) == requests[r].pc # "idle"
Switched == {"history", "publish", "cleanup"}
RestorePoints == {"loadIndex", "reindex", "activate", "saveRestored"}
Pending == record.status \notin {"absent", "indexed"}

(* No copy of the record is deleted: nothing here deletes.                  *)
NothingDeleted ==
    /\ record.status # "deleted" /\ apiCache.status # "deleted"
    /\ \A w \in Workers : workerCache[w].status # "deleted"

(* Requests and jobs are at the points that replacing and restoring without *)
(* deletions and store faults can reach.                                    *)
TurnPoints ==
    /\ \A r \in Requests :
          \/ requests[r].pc \in {"idle", "queue", "enqueue"}
          \/ "restore" \in Operations /\ requests[r].pc \in RestorePoints
    /\ \A s \in Slots : jobs[s].pc \notin {"rawFailed", "rollback", "superseded"}

(* One request or one job, for the one message, of the latest upload and of *)
(* the record's version.                                                    *)
OneAtATime ==
    /\ \A s, t \in Slots : Running(s) /\ Running(t) => s = t
    /\ \A q, r \in Requests : Open(q) /\ Open(r) => q = r
    /\ \A m \in queue : m.id = uploads /\ m.version = record.version
    /\ \A s \in Slots : Running(s) => [id |-> jobs[s].id, version |-> jobs[s].version] \in queue
    /\ \A r \in Requests : Open(r) => queue = {}
    /\ \A r \in Requests : requests[r].pc \in {"queue", "enqueue"} => requests[r].id = uploads

(* A version that no copy read by a job or the search gate mentions.        *)
FreshVersion(v) ==
    /\ v \notin {record.version, record.active} \cup versionIndex.versions
    /\ \A w \in Workers : workerCache[w].version # v

(* An upload under way carries over what is published, for a version stored *)
(* but new to the record, and when it is about to enqueue its record is the *)
(* stored one.                                                              *)
UploadsInTurn ==
    \A r \in Requests : requests[r].pc \in {"queue", "enqueue"} =>
       /\ requests[r].target \in raw
       /\ requests[r].rec = [status |-> "queued", version |-> requests[r].target,
                             active |-> PublishedVersionOf(record)]
       /\ requests[r].pc = "queue" => FreshVersion(requests[r].target)
       /\ requests[r].pc = "enqueue" => record = requests[r].rec

(* A restore under way holds the stored record; the version it activates    *)
(* has all its vectors.                                                     *)
RestoresInTurn ==
    \A r \in Requests :
       /\ requests[r].pc \in RestorePoints => requests[r].rec = record
       /\ requests[r].pc \in {"activate", "saveRestored"} => vectors[requests[r].target] = "all"
       /\ requests[r].pc = "saveRestored" => versionIndex.active = requests[r].target

RequestsInTurn == UploadsInTurn /\ RestoresInTurn

(* Every version mentioned has its source stored, so that a new one is      *)
(* fresh.                                                                   *)
VersionsStored ==
    /\ uploads = 0 => raw = {}
    /\ {record.version, record.active} \cup versionIndex.versions \subseteq raw \cup {NoVersion}
    /\ versionIndex.active \in versionIndex.versions \cup {NoVersion}
    /\ \A w \in Workers : workerCache[w].version \in raw \cup {NoVersion}
    /\ record.version = NoVersion => record.active = NoVersion /\ versionIndex.versions = {}

(* A version yet to be published was never published before.                *)
PendingIsNew == Pending => record.version \notin {record.active} \cup versionIndex.versions

(* What must not fail: the active version, as the record and as the index   *)
(* have it, has all its vectors.                                            *)
ActiveSearchable ==
    \A v \in {record.active, versionIndex.active} \ {NoVersion} : vectors[v] = "all"

(* A worker that has cached the current version, not yet published, has the *)
(* record's active version too.                                             *)
CachesAgree ==
    Pending =>
       \A w \in Workers :
          workerCache[w].version = record.version => workerCache[w].active = record.active

(* What a job at each point of its run has read or done.                    *)
JobsInTurn ==
    \A s \in Slots :
       /\ jobs[s].pc \in Switched => record.status = "indexed" /\ record.active = record.version
       /\ jobs[s].pc = "cleanup" => versionIndex.active = record.version
       /\ jobs[s].pc \in {"load", "save", "run", "failed", "cleanupFailed"} => Pending
       /\ jobs[s].pc \in {"save", "run", "failed", "cleanupFailed"} => jobs[s].active = record.active
       /\ jobs[s].pc = "load" => jobs[s].stage = "parsing"
       /\ jobs[s].pc = "save" /\ jobs[s].stage = "indexed" => vectors[jobs[s].version] = "all"

(* A waiting message is of a version not yet published, or of a job that    *)
(* published it and has to acknowledge.                                     *)
Awaited ==
    queue # {} => Pending \/ \E s \in Slots : jobs[s].pc \in Switched \cup {"ack"}

(* The index names what the record names, or the job that published has yet *)
(* to tell it, or the restore that told it has yet to tell the record.      *)
IndexFollows ==
    RestoresUncut /\ record.status = "indexed" =>
       \/ record.active = versionIndex.active
       \/ \E s \in Slots : jobs[s].pc \in {"history", "publish"}
       \/ \E r \in Requests : requests[r].pc = "saveRestored"

(* The invariant, inductive for users who work in turn together with Sound. *)
TurnInv ==
    /\ NothingDeleted /\ TurnPoints /\ OneAtATime /\ RequestsInTurn
    /\ VersionsStored /\ PendingIsNew /\ ActiveSearchable /\ CachesAgree /\ JobsInTurn /\ Awaited
    /\ IndexFollows

(* Nothing is under way or published at first.                              *)
LEMMA InitTurn == Init => TurnInv
BY DEF Init, Absent, IdleRequest, IdleJob, TurnInv, NothingDeleted, TurnPoints, OneAtATime,
   RequestsInTurn, UploadsInTurn, RestoresInTurn, VersionsStored, PendingIsNew, ActiveSearchable,
   CachesAgree, JobsInTurn, Awaited, IndexFollows, Running, Open, Switched, Pending, RestorePoints

(* With no copy deleted, what is published is the active version or nothing. *)
LEMMA TurnPublished ==
    ASSUME Sound, NothingDeleted
    PROVE  PublishedVersionOf(record) \in {NoVersion, record.active}
BY DEF Sound, CopiesSound, SoundCopy, PublishedVersionOf, NothingDeleted

(* The invariant gives both promises: the published version has its         *)
(* vectors, and at rest the pointers agree.                                 *)
LEMMA TurnImplies ==
    ASSUME TypeOK, Sound, TurnInv
    PROVE  PublishedVersionSearchable /\ (RestoresUncut => RecordAgreesWithIndex)
<1>1. PublishedVersionSearchable
  BY TurnPublished DEF TurnInv, ActiveSearchable, PublishedVersionSearchable
<1>2. \A v \in versionIndex.live : v = versionIndex.active /\ v # NoVersion
  BY ConstantsAssumption
  DEF Sound, IndexSound, IndexedVersionsRestorable, TypeOK, StoreType
<1>3. RestoresUncut => RecordAgreesWithIndex
  BY <1>2 DEF RecordAgreesWithIndex, Quiet, TurnInv, IndexFollows, ActiveSearchable
<1> QED BY <1>1, <1>3

(* A step that changes nothing keeps everything. *)
LEMMA TurnUnchanged ==
    ASSUME TurnInv, UNCHANGED vars
    PROVE  TurnInv'
BY DEF vars, artifacts, TurnInv, NothingDeleted, TurnPoints, OneAtATime, RequestsInTurn,
   UploadsInTurn, RestoresInTurn, FreshVersion, VersionsStored, PendingIsNew, ActiveSearchable,
   CachesAgree, JobsInTurn, Awaited, IndexFollows, Running, Open, Pending, PublishedVersionOf

(* Any read by the API process. *)
LEMMA ReadDocumentTurn ==
    ASSUME TurnInv, ReadDocument
    PROVE  TurnInv'
BY DEF ReadDocument, GetDocument, artifacts, TurnInv, NothingDeleted, TurnPoints, OneAtATime,
   RequestsInTurn, UploadsInTurn, RestoresInTurn, FreshVersion, VersionsStored, PendingIsNew,
   ActiveSearchable, CachesAgree, JobsInTurn, Awaited, IndexFollows, Running, Open, Pending,
   PublishedVersionOf

(* A restart of the API process ends its requests: the record an upload     *)
(* saved stays queued, the index a restore activated stays ahead.           *)
LEMMA ApiRestartTurn ==
    ASSUME TurnInv, ApiRestart
    PROVE  TurnInv'
<1>1. /\ apiCache' = Absent /\ \A r \in Requests : requests'[r] = IdleRequest
      /\ "apiRestart" \in Faults
      /\ UNCHANGED <<record, artifacts, vectors, queue, workerCache, jobs, uploads>>
  BY DEF ApiRestart, Fault
<1>2. NothingDeleted' /\ TurnPoints' /\ OneAtATime' /\ RequestsInTurn'
  BY <1>1 DEF Absent, IdleRequest, TurnInv, NothingDeleted, TurnPoints, OneAtATime, RequestsInTurn,
     UploadsInTurn, RestoresInTurn, Running, Open, RestorePoints
<1>3. VersionsStored' /\ PendingIsNew' /\ ActiveSearchable' /\ CachesAgree' /\ JobsInTurn' /\ Awaited'
  BY <1>1 DEF artifacts, TurnInv, VersionsStored, PendingIsNew, ActiveSearchable, CachesAgree,
     JobsInTurn, Awaited, Pending
<1>4. IndexFollows'
  BY <1>1 DEF artifacts, TurnInv, TurnPoints, IndexFollows, RestoresUncut
<1> QED BY <1>2, <1>3, <1>4 DEF TurnInv

(* A restart of an idle worker only clears a cache. *)
LEMMA WorkerRestartTurn ==
    ASSUME TypeOK, TurnEnvironment, TurnInv, NEW w \in Workers, WorkerRestart(w)
    PROVE  TurnInv'
<1>1. /\ \A s \in Slots : jobs'[s].pc = "idle" \/ jobs'[s] = jobs[s]
      /\ \A s \in Slots : jobs'[s].pc = jobs[s].pc
      /\ \A x \in Workers : workerCache'[x] = workerCache[x] \/ workerCache'[x] = Absent
      /\ UNCHANGED <<record, versionIndex, raw, vectors, queue, apiCache, requests, uploads>>
  BY DEF WorkerRestart, Fault, TurnEnvironment, IdleJob, TypeOK, CacheType, artifacts
<1>2. NothingDeleted' /\ VersionsStored' /\ PendingIsNew'
  BY <1>1 DEF TurnInv, NothingDeleted, VersionsStored, PendingIsNew, Pending, Absent
<1>3. CachesAgree'
  BY <1>1 DEF TurnInv, VersionsStored, CachesAgree, Pending, Absent
<1>4. RequestsInTurn'
  <2>1. \A r \in Requests : requests[r].pc = "queue" => requests[r].target # NoVersion
    BY ConstantsAssumption DEF TypeOK, RequestType
  <2> QED
    BY <1>1, <2>1 DEF TurnInv, RequestsInTurn, UploadsInTurn, RestoresInTurn, FreshVersion, Absent,
       PublishedVersionOf
<1>5. OneAtATime' /\ TurnPoints' /\ JobsInTurn'
  BY <1>1 DEF TurnInv, OneAtATime, TurnPoints, JobsInTurn, Running, Open, Switched, Pending
<1>6. ActiveSearchable' /\ Awaited' /\ IndexFollows'
  BY <1>1 DEF TurnInv, ActiveSearchable, Awaited, IndexFollows, Pending
<1> QED BY <1>2, <1>3, <1>4, <1>5, <1>6 DEF TurnInv

(* A new upload begins: the request will queue a version nobody has seen.   *)
LEMMA BeginTurn ==
    ASSUME TypeOK, Sound, TurnInv, NEW r \in Requests, NEW v \in Versions \ raw, Quiet,
           uploads' = uploads + 1, raw' = raw \cup {v}, apiCache' \in {apiCache, record},
           Begin(r, "queue", uploads', v, [status |-> "queued", version |-> v,
                                           active |-> PublishedVersionOf(record)]),
           UNCHANGED <<record, versionIndex, vectors, queue, workerCache, jobs>>
    PROVE  TurnInv'
<1>1. /\ requests'[r] = [pc |-> "queue", id |-> uploads', target |-> v,
                         rec |-> [status |-> "queued", version |-> v,
                                  active |-> PublishedVersionOf(record)]]
      /\ \A q \in Requests \ {r} : requests'[q].pc = "idle"
      /\ queue = {} /\ \A s \in Slots : jobs[s].pc = "idle"
      /\ \A q \in Requests : requests[q].pc = "idle"
  BY DEF Begin, Quiet, TypeOK, RequestType
<1>2. FreshVersion(v) /\ FreshVersion(v)'
  BY ConstantsAssumption DEF TurnInv, VersionsStored, FreshVersion
<1>3. RequestsInTurn'
  BY <1>1, <1>2 DEF RequestsInTurn, UploadsInTurn, RestoresInTurn, RestorePoints, PublishedVersionOf
<1>4. VersionsStored' /\ PendingIsNew'
  BY DEF TurnInv, VersionsStored, PendingIsNew, Pending, TypeOK
<1>5. NothingDeleted' /\ TurnPoints' /\ OneAtATime'
  BY <1>1 DEF TurnInv, NothingDeleted, TurnPoints, OneAtATime, Running, Open
<1>6. ActiveSearchable' /\ CachesAgree' /\ JobsInTurn' /\ Awaited' /\ IndexFollows'
  BY <1>1 DEF TurnInv, ActiveSearchable, CachesAgree, JobsInTurn, Awaited, IndexFollows, Switched,
     Pending
<1> QED BY <1>3, <1>4, <1>5, <1>6 DEF TurnInv

(* The first upload publishes nothing and is fresh, for no source is stored *)
(* yet.                                                                     *)
LEMMA UploadDocumentTurn ==
    ASSUME TypeOK, Sound, TurnInv, InTurn, NEW r \in Requests, NEW v \in Versions,
           UploadDocument(r, v)
    PROVE  TurnInv'
<1>1. raw = {} /\ Quiet
  BY DEF TurnInv, VersionsStored, UploadDocument, InTurn
<1>2. PublishedVersionOf(record) = NoVersion
  BY <1>1, TurnPublished DEF TurnInv, VersionsStored, UploadDocument
<1>3. uploads' = uploads + 1 /\ uploads' = 1 /\ apiCache' = apiCache
  BY DEF UploadDocument
<1> QED BY <1>1, <1>2, <1>3, BeginTurn DEF UploadDocument

(* update_document carries over the version the stored record publishes,    *)
(* for a source not stored before.                                          *)
LEMMA ReplaceDocumentTurn ==
    ASSUME TypeOK, Sound, TurnEnvironment, TurnInv, InTurn, NEW r \in Requests, NEW v \in Versions,
           ReplaceDocument(r, v)
    PROVE  TurnInv'
<1>1. v \notin raw /\ Quiet /\ GetDocument(apiCache) = record
  BY DEF ReplaceDocument, TurnEnvironment, InTurn
<1>2. uploads' = uploads + 1 /\ apiCache' = record
  BY <1>1 DEF ReplaceDocument
<1> QED BY <1>1, <1>2, BeginTurn DEF ReplaceDocument

(* restore_version begins with the stored record. *)
LEMMA RestoreVersionTurn ==
    ASSUME TypeOK, TurnInv, InTurn, NEW r \in Requests, NEW v \in Versions, RestoreVersion(r, v)
    PROVE  TurnInv'
<1>1. /\ requests'[r] = [pc |-> "loadIndex", id |-> 0, target |-> v, rec |-> record]
      /\ \A q \in Requests \ {r} : requests'[q].pc = "idle"
      /\ queue = {} /\ \A s \in Slots : jobs[s].pc = "idle"
      /\ \A q \in Requests : requests[q].pc = "idle"
      /\ apiCache' = record /\ "restore" \in Operations
      /\ UNCHANGED <<record, artifacts, vectors, queue, workerCache, jobs, uploads>>
  BY DEF RestoreVersion, Begin, InTurn, Quiet, TypeOK, RequestType
<1>2. RequestsInTurn' /\ TurnPoints'
  BY <1>1 DEF TurnInv, TurnPoints, RequestsInTurn, UploadsInTurn, RestoresInTurn, RestorePoints
<1>3. NothingDeleted' /\ OneAtATime'
  BY <1>1 DEF TurnInv, NothingDeleted, OneAtATime, Running, Open
<1>4. VersionsStored' /\ PendingIsNew' /\ ActiveSearchable' /\ CachesAgree' /\ JobsInTurn' /\ Awaited'
  BY <1>1 DEF artifacts, TurnInv, VersionsStored, PendingIsNew, ActiveSearchable, CachesAgree,
     JobsInTurn, Awaited, Pending
<1>5. IndexFollows'
  BY <1>1 DEF artifacts, TurnInv, IndexFollows
<1> QED BY <1>2, <1>3, <1>4, <1>5 DEF TurnInv

(* The control point of a request alone moves, or the request alone ends. *)
LEMMA RequestMovesAlone ==
    ASSUME TypeOK, NEW r \in Requests, NEW pc, RequestGoes(r, pc) \/ RequestEnds(r)
    PROVE  /\ \A q \in Requests \ {r} : requests'[q] = requests[q]
           /\ \/ /\ requests'[r].pc = pc /\ requests'[r].target = requests[r].target
                 /\ requests'[r].rec = requests[r].rec
              \/ requests'[r].pc = "idle"
BY DEF RequestGoes, RequestEnds, IdleRequest, TypeOK, RequestType, Request

(* A restore is the only work under way.                                    *)
LEMMA RestoreIsAlone ==
    ASSUME TypeOK, TurnInv, NEW r \in Requests, requests[r].pc \in RestorePoints
    PROVE  /\ "restore" \in Operations /\ queue = {} /\ requests[r].rec = record
           /\ \A s \in Slots : jobs[s].pc = "idle"
           /\ \A q \in Requests \ {r} : requests[q].pc = "idle"
           /\ requests[r].target \in Versions
BY DEF TurnInv, TurnPoints, OneAtATime, RequestsInTurn, RestoresInTurn, Running, Open, RestorePoints,
   TypeOK, RequestType

(* A step of a restore that leaves the record alone: what is left is what   *)
(* becomes of the vectors, and the index.                                   *)
LEMMA RestoreWorksTurn ==
    ASSUME TypeOK, TurnInv, NEW r \in Requests, requests[r].pc \in RestorePoints \ {"saveRestored"},
           \A q \in Requests \ {r} : requests'[q] = requests[q],
           requests'[r].pc \in RestorePoints \cup {"idle"},
           versionIndex'.versions = versionIndex.versions,
           \/ versionIndex'.active = versionIndex.active
           \/ requests'[r].pc = "saveRestored" /\ versionIndex'.active \in versionIndex.versions,
           (* the parts that the step may disturb *)
           ActiveSearchable', RestoresInTurn',
           UNCHANGED <<record, raw, queue, apiCache, workerCache, jobs, uploads>>
    PROVE  TurnInv'
<1>1. /\ "restore" \in Operations /\ queue = {} /\ \A s \in Slots : jobs[s].pc = "idle"
      /\ \A q \in Requests \ {r} : requests[q].pc = "idle"
  BY RestoreIsAlone
<1>2. NothingDeleted' /\ TurnPoints' /\ OneAtATime'
  BY <1>1 DEF TurnInv, NothingDeleted, TurnPoints, OneAtATime, Running, Open, RestorePoints
<1>3. RequestsInTurn'
  BY <1>1 DEF RequestsInTurn, UploadsInTurn, RestorePoints
<1>4. VersionsStored' /\ PendingIsNew' /\ CachesAgree'
  BY DEF TurnInv, VersionsStored, PendingIsNew, CachesAgree, Pending
<1>5. JobsInTurn' /\ Awaited'
  BY <1>1 DEF JobsInTurn, Awaited, Switched
<1>6. IndexFollows'
  BY <1>1 DEF TurnInv, IndexFollows
<1> QED BY <1>2, <1>3, <1>4, <1>5, <1>6 DEF TurnInv

(* A listed version with an entry that says its vectors are present has     *)
(* them: it is the active one of the index.                                 *)
LEMMA LoadVersionIndexTurn ==
    ASSUME TypeOK, Sound, TurnInv, NEW r \in Requests, LoadVersionIndex(r)
    PROVE  TurnInv'
<1> DEFINE v == requests[r].target
<1>1. /\ requests[r].pc = "loadIndex" /\ v \in Versions
      /\ \A q \in Requests \ {r} : requests[q].pc = "idle"
      /\ requests[r].rec = record
  BY RestoreIsAlone DEF LoadVersionIndex, RestorePoints
<1>2. PICK pc \in {"activate", "reindex"} :
         /\ RequestGoes(r, pc) \/ RequestEnds(r)
         /\ pc = "activate" => v \in versionIndex.live \/ RequestEnds(r)
         /\ UNCHANGED <<record, artifacts, vectors, queue, apiCache, workerCache, jobs, uploads>>
  BY DEF LoadVersionIndex
<1>3. v \in versionIndex.live => vectors[v] = "all"
  BY <1>1, ConstantsAssumption
  DEF Sound, IndexSound, IndexedVersionsRestorable, TurnInv, ActiveSearchable
<1>4. /\ \A q \in Requests \ {r} : requests'[q] = requests[q]
      /\ \/ requests'[r].pc = pc /\ requests'[r].target = v /\ requests'[r].rec = record
         \/ requests'[r].pc = "idle"
  BY <1>1, <1>2, RequestMovesAlone
<1>5. requests'[r].pc = "activate" => vectors[v] = "all"
  BY <1>2, <1>3, <1>4 DEF RequestEnds, IdleRequest, TypeOK, RequestType
<1>6. ActiveSearchable' /\ RestoresInTurn'
  BY <1>1, <1>2, <1>4, <1>5
  DEF artifacts, TurnInv, ActiveSearchable, RestoresInTurn, RestorePoints
<1> QED
  BY <1>1, <1>2, <1>4, <1>6, RestoreWorksTurn DEF artifacts, RestorePoints

(* The first batch of a re-indexing spares the active versions. *)
LEMMA ReindexBatchTurn ==
    ASSUME TypeOK, Sound, TurnInv, NEW r \in Requests, ReindexBatch(r)
    PROVE  TurnInv'
<1> DEFINE v == requests[r].target
<1>1. /\ requests[r].pc = "reindex" /\ v \in Versions
      /\ \A q \in Requests \ {r} : requests[q].pc = "idle"
      /\ requests[r].rec = record
  BY RestoreIsAlone DEF ReindexBatch, RestorePoints
<1>2. /\ vectors[v] = "none" /\ \A u \in Versions \ {v} : vectors'[u] = vectors[u]
      /\ UNCHANGED <<record, artifacts, queue, apiCache, workerCache, requests, jobs, uploads>>
  BY <1>1 DEF ReindexBatch, UpsertBatch, TypeOK, StoreType
<1>3. {record.active, versionIndex.active} \subseteq MaybeVersion
  BY DEF TypeOK, StoreType, Record
<1>4. ActiveSearchable' /\ RestoresInTurn'
  BY <1>1, <1>2, <1>3
  DEF artifacts, TurnInv, ActiveSearchable, RestoresInTurn, RestorePoints, MaybeVersion
<1> QED
  BY <1>1, <1>2, <1>4, RestoreWorksTurn DEF artifacts, RestorePoints

(* The re-indexed version is whole, or the restore ends.                    *)
LEMMA ReindexVersionTurn ==
    ASSUME TypeOK, Sound, TurnInv, NEW r \in Requests, ReindexVersion(r)
    PROVE  TurnInv'
<1> DEFINE v == requests[r].target
<1>1. /\ requests[r].pc = "reindex" /\ v \in Versions
      /\ \A q \in Requests \ {r} : requests[q].pc = "idle"
      /\ requests[r].rec = record
  BY RestoreIsAlone DEF ReindexVersion, RestorePoints
<1>2. /\ \/ vectors' = Upserted(v) /\ RequestGoes(r, "activate")
         \/ RequestEnds(r)
      /\ vectors' \in {vectors, Upserted(v)}
      /\ UNCHANGED <<record, artifacts, queue, apiCache, workerCache, jobs, uploads>>
  BY DEF ReindexVersion
<1>3. /\ \A q \in Requests \ {r} : requests'[q] = requests[q]
      /\ \/ /\ requests'[r].pc = "activate" /\ requests'[r].target = v /\ requests'[r].rec = record
            /\ vectors' = Upserted(v)
         \/ requests'[r].pc = "idle"
  <2>1. CASE vectors' = Upserted(v) /\ RequestGoes(r, "activate")
    BY <1>1, <2>1, RequestMovesAlone
  <2>2. CASE RequestEnds(r)
    BY <2>2 DEF RequestEnds, IdleRequest, TypeOK, RequestType
  <2> QED BY <1>2, <2>1, <2>2
<1>4. /\ Upserted(v)[v] = "all"
      /\ \A u \in Versions : vectors[u] = "all" => vectors'[u] = "all"
  BY <1>1, <1>2 DEF Upserted, TypeOK, StoreType
<1>5. {record.active, versionIndex.active} \subseteq MaybeVersion
  BY DEF TypeOK, StoreType, Record
<1>6. ActiveSearchable'
  BY <1>2, <1>4, <1>5 DEF artifacts, TurnInv, ActiveSearchable, MaybeVersion
<1>7. RestoresInTurn'
  BY <1>1, <1>2, <1>3, <1>4 DEF artifacts, RestoresInTurn, RestorePoints
<1> QED
  BY <1>1, <1>2, <1>3, <1>6, <1>7, RestoreWorksTurn DEF artifacts, RestorePoints

(* The index names the restored version. *)
LEMMA ActivateRestoredTurn ==
    ASSUME TypeOK, Sound, TurnEnvironment, TurnInv, NEW r \in Requests, ActivateRestored(r)
    PROVE  TurnInv'
<1> DEFINE v == requests[r].target
<1>1. /\ requests[r].pc = "activate" /\ v \in Versions
      /\ \A q \in Requests \ {r} : requests[q].pc = "idle"
      /\ requests[r].rec = record
  BY RestoreIsAlone DEF ActivateRestored, RestorePoints
<1>2. v \in versionIndex.versions /\ vectors[v] = "all"
  BY <1>1 DEF Sound, RestoresListed, TurnInv, RequestsInTurn, RestoresInTurn
<1>3. /\ versionIndex'.versions = versionIndex.versions /\ versionIndex'.active = v
      /\ RequestGoes(r, "saveRestored")
      /\ UNCHANGED <<record, raw, vectors, queue, apiCache, workerCache, jobs, uploads>>
  BY <1>2 DEF ActivateRestored, Activated, Fault, TurnEnvironment
<1>4. /\ \A q \in Requests \ {r} : requests'[q] = requests[q]
      /\ requests'[r].pc = "saveRestored" /\ requests'[r].target = v /\ requests'[r].rec = record
  BY <1>1, <1>3 DEF RequestGoes, TypeOK, RequestType, Request
<1>5. ActiveSearchable' /\ RestoresInTurn'
  BY <1>1, <1>2, <1>3, <1>4 DEF TurnInv, ActiveSearchable, RestoresInTurn, RestorePoints
<1> QED
  BY <1>1, <1>2, <1>3, <1>4, <1>5, RestoreWorksTurn DEF RestorePoints

(* The record follows the index; no worker is told, and none needs to be,   *)
(* for nothing is pending any more.                                         *)
LEMMA SaveRestoredTurn ==
    ASSUME TypeOK, Sound, TurnEnvironment, TurnInv, NEW r \in Requests, SaveRestored(r)
    PROVE  TurnInv'
<1> DEFINE v == requests[r].target
           new == [record EXCEPT !.status = "indexed", !.active = v]
<1>1. /\ requests[r].pc = "saveRestored" /\ v \in Versions /\ requests[r].rec = record
      /\ \A q \in Requests \ {r} : requests[q].pc = "idle"
      /\ \A s \in Slots : jobs[s].pc = "idle"
      /\ queue = {} /\ record.status # "deleted"
  BY RestoreIsAlone DEF SaveRestored, RestorePoints, TurnInv, NothingDeleted
<1>2. v \in versionIndex.versions /\ vectors[v] = "all" /\ versionIndex.active = v
  BY <1>1 DEF Sound, RestoresListed, TurnInv, RequestsInTurn, RestoresInTurn
<1>3. new.status = "indexed" /\ new.version = record.version /\ new.active = v
  BY DEF TypeOK, StoreType, Record
<1>4. Accepts(new)
  BY <1>1, <1>3 DEF Accepts, RejectsDeleted, RejectsStale
<1>5. /\ record' = new /\ apiCache' = new /\ RequestEnds(r)
      /\ UNCHANGED <<artifacts, vectors, queue, workerCache, jobs, uploads>>
  BY <1>1, <1>4 DEF SaveRestored, PersistByRequest, Fault, TurnEnvironment
<1> HIDE DEF new
<1>6. \A q \in Requests : requests'[q].pc = "idle"
  BY <1>1, <1>5 DEF RequestEnds, IdleRequest, TypeOK, RequestType
<1>7. NothingDeleted' /\ TurnPoints' /\ OneAtATime' /\ RequestsInTurn'
  BY <1>1, <1>3, <1>5, <1>6 DEF TurnInv, NothingDeleted, TurnPoints, OneAtATime, RequestsInTurn,
     UploadsInTurn, RestoresInTurn, RestorePoints, Running, Open
<1>8. VersionsStored'
  <2>1. record.version # NoVersion
    BY <1>2 DEF TurnInv, VersionsStored
  <2> QED
    BY <1>2, <1>3, <1>5, <2>1 DEF artifacts, TurnInv, VersionsStored
<1>9. PendingIsNew' /\ ActiveSearchable' /\ CachesAgree' /\ JobsInTurn' /\ Awaited' /\ IndexFollows'
  BY <1>1, <1>2, <1>3, <1>5 DEF artifacts, PendingIsNew, ActiveSearchable, CachesAgree, JobsInTurn,
     Awaited, IndexFollows, Pending, Switched
<1> QED BY <1>7, <1>8, <1>9 DEF TurnInv

(* The queued record carries over what was published. *)
LEMMA SaveQueuedTurn ==
    ASSUME TypeOK, Sound, TurnEnvironment, TurnInv, NEW r \in Requests, SaveQueued(r)
    PROVE  TurnInv'
<1>1. /\ queue = {} /\ \A s \in Slots : jobs[s].pc = "idle"
      /\ \A q \in Requests \ {r} : requests[q].pc = "idle"
      /\ requests[r].pc = "queue" /\ requests[r].id = uploads /\ requests[r].target \in raw
      /\ requests[r].target \in Versions
      /\ FreshVersion(requests[r].target)
      /\ requests[r].rec = [status |-> "queued", version |-> requests[r].target,
                            active |-> PublishedVersionOf(record)]
      /\ UNCHANGED <<artifacts, vectors, queue, workerCache, jobs, uploads>>
  BY DEF SaveQueued, TurnInv, OneAtATime, RequestsInTurn, UploadsInTurn, TypeOK, RequestType,
     Running, Open
<1>2. CASE RequestEnds(r) /\ UNCHANGED <<record, apiCache>>
  <2>1. \A q \in Requests : requests'[q].pc = "idle"
    BY <1>1, <1>2 DEF RequestEnds, IdleRequest, TypeOK, RequestType
  <2> QED
    BY <1>1, <1>2, <2>1 DEF artifacts, TurnInv, NothingDeleted, TurnPoints, OneAtATime,
       RequestsInTurn, UploadsInTurn, RestoresInTurn, VersionsStored, PendingIsNew,
       ActiveSearchable, CachesAgree, JobsInTurn, Awaited, IndexFollows, Running, Open, Pending,
       RestorePoints
<1>3. CASE record' = requests[r].rec /\ apiCache' = record' /\ RequestGoes(r, "enqueue")
  <2>1. /\ requests'[r] = [requests[r] EXCEPT !.pc = "enqueue"]
        /\ \A q \in Requests \ {r} : requests'[q] = requests[q]
    BY <1>3 DEF RequestGoes, TypeOK, RequestType
  <2>2. /\ requests'[r].pc = "enqueue" /\ requests'[r].id = uploads
        /\ requests'[r].target = requests[r].target /\ requests'[r].rec = requests[r].rec
    BY <1>1, <2>1 DEF TypeOK, RequestType, Request
  <2>3. /\ record'.status = "queued" /\ record'.version = requests[r].target
        /\ record'.active = PublishedVersionOf(record)
        /\ record'.active \in {NoVersion, record.active}
        /\ record'.version \notin {record'.active} \cup versionIndex.versions
    BY <1>1, <1>3, TurnPublished, ConstantsAssumption DEF TurnInv, FreshVersion
  <2>4. PublishedVersionOf(record)' = PublishedVersionOf(record)
    BY <2>3 DEF PublishedVersionOf
  <2>5. RequestsInTurn'
    <3>1. \A q \in Requests \ {r} : requests'[q].pc = "idle"
      BY <1>1, <2>1
    <3>2. raw' = raw /\ record' = requests'[r].rec
      BY <1>1, <1>3, <2>2 DEF artifacts
    <3> QED
      BY <1>1, <2>2, <2>3, <2>4, <3>1, <3>2 DEF RequestsInTurn, UploadsInTurn, RestoresInTurn,
         RestorePoints
  <2>6. VersionsStored' /\ PendingIsNew' /\ ActiveSearchable'
    BY <1>1, <2>3 DEF TurnInv, VersionsStored, PendingIsNew, ActiveSearchable, artifacts
  <2>7. CachesAgree'
    BY <1>1, <2>3 DEF FreshVersion, CachesAgree
  <2>8. NothingDeleted' /\ TurnPoints' /\ OneAtATime'
    <3>1. \A q \in Requests \ {r} : requests'[q].pc = "idle"
      BY <1>1, <2>1
    <3>2. queue' = {} /\ \A s \in Slots : jobs'[s].pc = "idle"
      BY <1>1
    <3>3. uploads' = uploads /\ workerCache' = workerCache
      BY <1>1
    <3> QED
      BY <1>3, <2>2, <2>3, <3>1, <3>2, <3>3 DEF TurnInv, NothingDeleted, TurnPoints, OneAtATime,
         Running, Open
  <2>9. JobsInTurn' /\ Awaited' /\ IndexFollows'
    BY <1>1, <2>3 DEF JobsInTurn, Awaited, IndexFollows, Switched
  <2> QED BY <2>5, <2>6, <2>7, <2>8, <2>9 DEF TurnInv
<1> QED
  BY <1>2, <1>3 DEF SaveQueued, PersistByRequest, Fault, TurnEnvironment

(* The job of the queued record is the only message. *)
LEMMA EnqueueJobTurn ==
    ASSUME TypeOK, TurnEnvironment, TurnInv, NEW r \in Requests, EnqueueJob(r)
    PROVE  TurnInv'
<1>1. /\ queue' = {JobMessage(r)} /\ RequestEnds(r)
      /\ queue = {} /\ \A s \in Slots : jobs[s].pc = "idle"
      /\ \A q \in Requests \ {r} : requests[q].pc = "idle"
      /\ JobMessage(r).id = uploads /\ JobMessage(r).version = record.version
      /\ Pending
      /\ UNCHANGED <<record, artifacts, vectors, apiCache, workerCache, jobs, uploads>>
  <2>1. /\ queue = {} /\ requests[r].id = uploads /\ \A s \in Slots : jobs[s].pc = "idle"
        /\ \A q \in Requests \ {r} : requests[q].pc = "idle"
    BY DEF EnqueueJob, TurnInv, OneAtATime, Running, Open
  <2>2. record.version = requests[r].target /\ Pending
    <3>1. /\ requests[r].rec = [status |-> "queued", version |-> requests[r].target,
                                active |-> PublishedVersionOf(record)]
          /\ record = requests[r].rec
      BY DEF EnqueueJob, TurnInv, RequestsInTurn, UploadsInTurn
    <3> HIDE DEF PublishedVersionOf
    <3> QED BY <3>1 DEF Pending
  <2>3. queue' = queue \cup {JobMessage(r)} /\ RequestEnds(r)
    BY DEF EnqueueJob, Fault, TurnEnvironment
  <2> QED BY <2>1, <2>2, <2>3 DEF EnqueueJob, JobMessage
<1>2. \A q \in Requests : requests'[q].pc = "idle"
  BY <1>1 DEF RequestEnds, IdleRequest, TypeOK, RequestType
<1> QED
  BY <1>1, <1>2 DEF artifacts, TurnInv, NothingDeleted, TurnPoints, OneAtATime, RequestsInTurn,
     UploadsInTurn, RestoresInTurn, VersionsStored, PendingIsNew, ActiveSearchable, CachesAgree,
     JobsInTurn, Awaited, IndexFollows, Running, Open, Pending, RestorePoints

------------------------------------------------------------------------------
(* What a job's step may rely on: it is the only work under way.            *)
OnlyJob(s) ==
    /\ \A t \in Slots \ {s} : jobs[t].pc = "idle"
    /\ \A r \in Requests : requests[r].pc = "idle"
    /\ \A m \in queue : m.id = jobs[s].id
    /\ jobs[s].id = uploads /\ jobs[s].version = record.version
    /\ jobs[s].version \in Versions /\ record.active \in MaybeVersion
    /\ queue # {}

(* A running job's message is in the queue, hence no other job runs and no  *)
(* request is under way.                                                    *)
LEMMA JobIsAlone ==
    ASSUME TypeOK, TurnInv, NEW s \in Slots, jobs[s].pc # "idle"
    PROVE  OnlyJob(s)
<1>1. [id |-> jobs[s].id, version |-> jobs[s].version] \in queue
  BY DEF TurnInv, OneAtATime, Running
<1>2. jobs[s].id = uploads /\ jobs[s].version = record.version /\ queue # {}
  BY <1>1 DEF TurnInv, OneAtATime
<1> QED
  BY <1>2 DEF TurnInv, OneAtATime, Running, Open, OnlyJob, TypeOK, JobType, StoreType, Record

(* A step of the only job that leaves the messages and the requests alone,  *)
(* and the record's version, keeps the order of things.                     *)
LEMMA JobStaysAlone ==
    ASSUME TurnInv, NEW s \in Slots, OnlyJob(s), jobs[s].pc # "idle",
           \A t \in Slots \ {s} : jobs'[t] = jobs[t],
           \/ /\ jobs'[s].id = jobs[s].id /\ jobs'[s].version = jobs[s].version
              /\ jobs'[s].pc \notin {"rawFailed", "rollback", "superseded"}
           \/ jobs'[s].pc = "idle",
           record'.version = record.version,
           queue' \subseteq queue, queue' = queue \/ jobs'[s].pc = "idle",
           UNCHANGED <<requests, uploads>>
    PROVE  TurnPoints' /\ OneAtATime' /\ RequestsInTurn'
<1>1. TurnPoints'
  BY DEF TurnInv, TurnPoints, OnlyJob
<1>2. RequestsInTurn'
  BY DEF OnlyJob, RequestsInTurn, UploadsInTurn, RestoresInTurn, RestorePoints
<1>3. OneAtATime'
  BY DEF TurnInv, OneAtATime, OnlyJob, Running, Open
<1> QED BY <1>1, <1>2, <1>3

(* A job is received only when no other runs, for a record not published.   *)
LEMMA ReceiveJobTurn ==
    ASSUME TypeOK, TurnEnvironment, TurnInv, NEW s \in Slots, ReceiveJob(s)
    PROVE  TurnInv'
<1>1. PICK m \in queue :
         /\ ~\E t \in Slots : jobs[t].pc # "idle" /\ jobs[t].id = m.id
         /\ jobs' = [jobs EXCEPT ![s] = JobOf(m)]
  BY DEF ReceiveJob, Fault, TurnEnvironment
<1>2. \A t \in Slots : jobs[t].pc = "idle"
  <2>1. SUFFICES ASSUME NEW t \in Slots, jobs[t].pc # "idle" PROVE FALSE
    OBVIOUS
  <2>2. OnlyJob(t)
    BY <2>1, JobIsAlone
  <2> QED BY <1>1, <2>1, <2>2 DEF OnlyJob
<1>3. /\ jobs'[s].pc = "load" /\ jobs'[s].stage = "parsing" /\ jobs'[s].id = m.id /\ jobs'[s].version = m.version
      /\ \A t \in Slots \ {s} : jobs'[t].pc = "idle"
  BY <1>1, <1>2 DEF JobOf, TypeOK, JobType
<1>4. /\ m.id = uploads /\ m.version = record.version /\ m = [id |-> m.id, version |-> m.version]
      /\ Pending
      /\ \A r \in Requests : requests[r].pc = "idle"
  <2>1. m = [id |-> m.id, version |-> m.version]
    BY DEF TypeOK, StoreType, Message
  <2>2. Pending
    BY <1>2 DEF TurnInv, Awaited, Switched
  <2> QED BY <2>1, <2>2 DEF TurnInv, OneAtATime, Open
<1>5. UNCHANGED <<record, artifacts, vectors, queue, apiCache, workerCache, requests, uploads>>
  BY DEF ReceiveJob
<1>6. OneAtATime' /\ TurnPoints' /\ RequestsInTurn'
  BY <1>3, <1>4, <1>5 DEF TurnInv, OneAtATime, TurnPoints, RequestsInTurn, UploadsInTurn,
     RestoresInTurn, RestorePoints, Running, Open
<1>7. JobsInTurn' /\ Awaited'
  BY <1>3, <1>4, <1>5 DEF JobsInTurn, Awaited, Switched, Pending
<1>8. IndexFollows'
  BY <1>2, <1>5 DEF TurnInv, IndexFollows, artifacts
<1>9. NothingDeleted' /\ VersionsStored' /\ PendingIsNew' /\ ActiveSearchable' /\ CachesAgree'
  BY <1>5 DEF artifacts, TurnInv, NothingDeleted, VersionsStored, PendingIsNew, ActiveSearchable,
     CachesAgree, Pending
<1> QED BY <1>6, <1>7, <1>8, <1>9 DEF TurnInv

(* What the current record and the caches say is kept by a step that leaves *)
(* the record and moves at most a worker's cache up to it.                  *)
LEMMA RecordKept ==
    ASSUME TurnInv, UNCHANGED <<record, raw, apiCache, uploads>>,
           \/ versionIndex' = versionIndex
           \/ /\ record.status = "indexed" /\ record.version # NoVersion
              /\ versionIndex' = Activated(versionIndex, record.version),
           \A w \in Workers : workerCache'[w] = workerCache[w] \/ workerCache'[w] = record
    PROVE  NothingDeleted' /\ VersionsStored' /\ PendingIsNew' /\ CachesAgree'
BY DEF TurnInv, NothingDeleted, VersionsStored, PendingIsNew, CachesAgree, Pending, Activated

(* process_document_job takes the active version of the record. *)
LEMMA LoadJobTurn ==
    ASSUME TypeOK, TurnEnvironment, TurnInv, NEW s \in Slots, LoadJob(s)
    PROVE  TurnInv'
<1> DEFINE current == GetDocument(workerCache[Host[s]])
<1>1. Host[s] \in Workers /\ current \in {workerCache[Host[s]], record}
  BY DEF GetDocument
<1> HIDE DEF current
<1>2. /\ jobs[s].pc = "load" /\ workerCache' = [workerCache EXCEPT ![Host[s]] = current]
      /\ \/ JobGoes(s, "ack")
         \/ /\ current.version = jobs[s].version
            /\ jobs' = [jobs EXCEPT ![s].pc = "save", ![s].active = current.active]
      /\ UNCHANGED <<record, artifacts, vectors, queue, apiCache, requests, uploads>>
  BY DEF LoadJob, ReadRaises, Fault, TurnEnvironment, current
<1>3. OnlyJob(s) /\ Pending /\ jobs[s].stage = "parsing"
  BY <1>2, JobIsAlone DEF TurnInv, JobsInTurn
<1>4. /\ \A t \in Slots \ {s} : jobs'[t] = jobs[t]
      /\ jobs'[s].id = jobs[s].id /\ jobs'[s].version = jobs[s].version
      /\ jobs'[s].stage = "parsing"
      /\ \/ jobs'[s].pc = "ack"
         \/ jobs'[s].pc = "save" /\ jobs'[s].active = record.active
  <2>1. current.version = jobs[s].version => current.active = record.active
    BY <1>1, <1>3 DEF OnlyJob, TurnInv, CachesAgree
  <2>2. CASE JobGoes(s, "ack")
    BY <1>3, <2>2 DEF JobGoes, TypeOK, JobType, Job
  <2>3. CASE /\ current.version = jobs[s].version
             /\ jobs' = [jobs EXCEPT ![s].pc = "save", ![s].active = current.active]
    BY <1>3, <2>1, <2>3 DEF TypeOK, JobType, Job
  <2> QED BY <1>2, <2>2, <2>3
<1>5. TurnPoints' /\ OneAtATime' /\ RequestsInTurn'
  BY <1>2, <1>3, <1>4, JobStaysAlone
<1>6. NothingDeleted' /\ VersionsStored' /\ PendingIsNew' /\ CachesAgree'
  <2>1. \A w \in Workers : workerCache'[w] = workerCache[w] \/ workerCache'[w] = record
    BY <1>1, <1>2 DEF TypeOK, CacheType
  <2> QED BY <1>2, <2>1, RecordKept DEF artifacts
<1>7. ActiveSearchable'
  BY <1>2 DEF TurnInv, ActiveSearchable, artifacts
<1>8. JobsInTurn'
  BY <1>2, <1>3, <1>4 DEF JobsInTurn, OnlyJob, Switched, Pending
<1>9. Awaited'
  BY <1>2, <1>3 DEF Awaited, Pending
<1>10. IndexFollows'
  BY <1>2, <1>3 DEF TurnInv, IndexFollows, OnlyJob, artifacts
<1> QED BY <1>5, <1>6, <1>7, <1>8, <1>9, <1>10 DEF TurnInv

(* What a job's write does: it opens a stage or records a failure with the  *)
(* active version unchanged, or it publishes a version ingested whole.      *)
LEMMA JobSavesTurn ==
    ASSUME TypeOK, TurnInv, NEW s \in Slots, OnlyJob(s), jobs[s].pc \in {"save", "failed"},
           NEW status, NEW active, NEW pc,
           record' = [status |-> status, version |-> jobs[s].version, active |-> active],
           workerCache' = [workerCache EXCEPT ![Host[s]] = record'],
           JobGoes(s, pc),
           \/ /\ pc \in {"run", "cleanupFailed"} /\ status \notin {"absent", "deleted", "indexed"}
              /\ active = jobs[s].active
           \/ /\ pc = "history" /\ status = "indexed" /\ active = jobs[s].version
              /\ vectors[active] = "all",
           UNCHANGED <<artifacts, vectors, queue, apiCache, requests, uploads>>
    PROVE  TurnInv'
<1>1. /\ \A t \in Slots \ {s} : jobs'[t] = jobs[t]
      /\ jobs'[s].id = jobs[s].id /\ jobs'[s].version = jobs[s].version
      /\ jobs'[s].active = jobs[s].active /\ jobs'[s].pc = pc
  BY DEF JobGoes, TypeOK, JobType, Job
<1>2. /\ record'.version = record.version /\ record'.status = status /\ record'.active = active
      /\ jobs[s].active = record.active /\ Pending
      /\ record.version \notin {record.active} \cup versionIndex.versions
      /\ record.version \in Versions
  BY DEF OnlyJob, TurnInv, JobsInTurn, PendingIsNew
<1>3. TurnPoints' /\ OneAtATime' /\ RequestsInTurn'
  BY <1>1, <1>2, JobStaysAlone
<1>4. \A w \in Workers : workerCache'[w] = workerCache[w] \/ workerCache'[w] = record'
  BY DEF TypeOK, CacheType
<1>5. NothingDeleted' /\ VersionsStored' /\ PendingIsNew' /\ CachesAgree'
  <2>1. status # "deleted" /\ record'.active \in {record.active, record.version}
    BY <1>2 DEF OnlyJob
  <2> QED
    BY <1>2, <1>4, <2>1, ConstantsAssumption
    DEF TurnInv, NothingDeleted, VersionsStored, PendingIsNew, CachesAgree, Pending, artifacts
<1>6. ActiveSearchable'
  BY <1>2 DEF TurnInv, ActiveSearchable, artifacts
<1>7. JobsInTurn'
  BY <1>1, <1>2 DEF JobsInTurn, OnlyJob, Switched, Pending
<1>8. Awaited'
  BY <1>1, <1>2 DEF Awaited, OnlyJob, Switched, Pending
<1>9. IndexFollows'
  BY <1>1, <1>2 DEF IndexFollows
<1> QED BY <1>3, <1>5, <1>6, <1>7, <1>8, <1>9 DEF TurnInv

(* The only job's record is never refused. *)
LEMMA JobWriteAccepted ==
    ASSUME TurnInv, NEW s \in Slots, OnlyJob(s), NEW new, new.version = jobs[s].version
    PROVE  ~RejectsDeleted(new) /\ ~RejectsStale(new)
BY DEF RejectsDeleted, RejectsStale, TurnInv, NothingDeleted, OnlyJob

(* The status write that opens a stage, or publishes. *)
LEMMA SaveStageTurn ==
    ASSUME TypeOK, TurnEnvironment, TurnInv, NEW s \in Slots, SaveStage(s)
    PROVE  TurnInv'
<1>1. OnlyJob(s) /\ jobs[s].pc = "save" /\ jobs[s].stage \in Stages
  BY JobIsAlone DEF SaveStage, TypeOK, JobType, Job
<1>2. UNCHANGED <<artifacts, vectors, queue, apiCache, requests, uploads>>
  BY DEF SaveStage
<1>3. CASE jobs[s].stage = "indexed"
  <2> DEFINE new == [status |-> "indexed", version |-> jobs[s].version, active |-> jobs[s].version]
  <2>1. ~RejectsDeleted(new) /\ ~RejectsStale(new)
    BY <1>1, JobWriteAccepted
  <2>2. /\ record' = new /\ JobGoes(s, "history")
        /\ workerCache' = [workerCache EXCEPT ![Host[s]] = new]
    BY <1>3, <2>1 DEF SaveStage, PersistByJob, Fault, TurnEnvironment
  <2>3. vectors[jobs[s].version] = "all"
    BY <1>1, <1>3 DEF TurnInv, JobsInTurn
  <2> QED BY <1>1, <1>2, <2>2, <2>3, JobSavesTurn
<1>4. CASE jobs[s].stage # "indexed"
  <2> DEFINE new == [status |-> jobs[s].stage, version |-> jobs[s].version, active |-> jobs[s].active]
  <2>1. ~RejectsDeleted(new) /\ ~RejectsStale(new)
    BY <1>1, JobWriteAccepted
  <2>2. /\ record' = new /\ JobGoes(s, "run")
        /\ workerCache' = [workerCache EXCEPT ![Host[s]] = new]
    BY <1>4, <2>1 DEF SaveStage, JobRecord, PersistByJob, Fault, TurnEnvironment
  <2>3. jobs[s].stage \notin {"absent", "deleted", "indexed"}
    BY <1>1, <1>4 DEF Stages
  <2> QED BY <1>1, <1>2, <2>2, <2>3, JobSavesTurn
<1> QED BY <1>3, <1>4

(* The failure is saved with the active version the job read. *)
LEMMA SaveFailureTurn ==
    ASSUME TypeOK, TurnEnvironment, TurnInv, NEW s \in Slots, SaveFailure(s)
    PROVE  TurnInv'
<1> DEFINE new == [status |-> "failed", version |-> jobs[s].version, active |-> jobs[s].active]
<1>1. OnlyJob(s) /\ jobs[s].pc = "failed"
  BY JobIsAlone DEF SaveFailure
<1>2. ~RejectsDeleted(new) /\ ~RejectsStale(new)
  BY <1>1, JobWriteAccepted
<1>3. /\ record' = new /\ JobGoes(s, "cleanupFailed")
      /\ workerCache' = [workerCache EXCEPT ![Host[s]] = new]
      /\ UNCHANGED <<artifacts, vectors, queue, apiCache, requests, uploads>>
  BY <1>2 DEF SaveFailure, JobRecord, PersistByJob, Fault, TurnEnvironment
<1> QED BY <1>1, <1>3, JobSavesTurn

(* A step that leaves the record alone: what is left is where the job goes, *)
(* what becomes of the vectors, and the index.                              *)
LEMMA JobWorksTurn ==
    ASSUME TypeOK, TurnInv, NEW s \in Slots, OnlyJob(s), jobs[s].pc # "idle",
           \A t \in Slots \ {s} : jobs'[t] = jobs[t],
           \/ jobs'[s].pc = "idle"
           \/ /\ jobs'[s].id = jobs[s].id /\ jobs'[s].version = jobs[s].version
              /\ jobs'[s].active = jobs[s].active
              /\ jobs'[s].pc \notin {"load", "rawFailed", "rollback", "superseded"},
           (* the parts that the step may disturb *)
           JobsInTurn', ActiveSearchable', Awaited', IndexFollows',
           queue' \subseteq queue, queue' = queue \/ jobs'[s].pc = "idle",
           \/ versionIndex' = versionIndex
           \/ record.status = "indexed" /\ versionIndex' = Activated(versionIndex, record.version),
           UNCHANGED <<record, raw, apiCache, workerCache, requests, uploads>>
    PROVE  TurnInv'
<1>1. TurnPoints' /\ OneAtATime' /\ RequestsInTurn'
  BY JobStaysAlone
<1>2. NothingDeleted' /\ VersionsStored' /\ PendingIsNew' /\ CachesAgree'
  BY RecordKept, ConstantsAssumption DEF OnlyJob
<1> QED BY <1>1, <1>2 DEF TurnInv

(* The first batch of an upsert spares the active version. *)
LEMMA UpsertJobBatchTurn ==
    ASSUME TypeOK, TurnInv, NEW s \in Slots, UpsertJobBatch(s)
    PROVE  TurnInv'
<1>1. OnlyJob(s) /\ jobs[s].pc = "run"
  BY JobIsAlone DEF UpsertJobBatch
<1>2. /\ vectors[jobs[s].version] = "none"
      /\ \A v \in Versions \ {jobs[s].version} : vectors'[v] = vectors[v]
      /\ UNCHANGED <<record, artifacts, queue, apiCache, workerCache, requests, jobs, uploads>>
  BY DEF UpsertJobBatch, UpsertBatch, TypeOK, StoreType
<1>3. ActiveSearchable'
  <2>1. versionIndex.active \in MaybeVersion
    BY DEF TypeOK, StoreType
  <2> QED
    BY <1>1, <1>2, <2>1 DEF TurnInv, ActiveSearchable, OnlyJob, MaybeVersion, artifacts
<1>4. JobsInTurn'
  BY <1>1, <1>2 DEF TurnInv, JobsInTurn, OnlyJob, Switched, Pending
<1>5. Awaited' /\ IndexFollows'
  BY <1>2 DEF TurnInv, Awaited, IndexFollows, Pending, artifacts
<1> QED BY <1>1, <1>2, <1>3, <1>4, <1>5, JobWorksTurn DEF artifacts

(* A stage's work: only the embedding changes vectors, to whole. *)
LEMMA RunStageTurn ==
    ASSUME TypeOK, TurnInv, NEW s \in Slots, RunStage(s)
    PROVE  TurnInv'
<1>1. OnlyJob(s) /\ jobs[s].pc = "run" /\ Pending
  BY JobIsAlone DEF RunStage, TurnInv, JobsInTurn
<1>2. /\ \A t \in Slots \ {s} : jobs'[t] = jobs[t]
      /\ jobs'[s].id = jobs[s].id /\ jobs'[s].version = jobs[s].version
      /\ jobs'[s].active = jobs[s].active
      /\ \/ jobs'[s].pc = "failed"
         \/ /\ jobs'[s].pc = "save"
            /\ jobs'[s].stage = "indexed" => vectors' = Upserted(jobs[s].version)
      /\ vectors' \in {vectors, Upserted(jobs[s].version)}
      /\ UNCHANGED <<record, versionIndex, raw, queue, apiCache, workerCache, requests, uploads>>
  <2>1. jobs[s].stage \in {"parsing", "chunking", "embedding"}
    BY <1>1 DEF TypeOK, JobType, Job, Stages
  <2> QED BY <1>1, <2>1 DEF RunStage, NextStage, JobGoes, TypeOK, JobType, Job
<1>3. ActiveSearchable'
  BY <1>2 DEF TurnInv, ActiveSearchable, Upserted, TypeOK, StoreType, Record, MaybeVersion
<1>4. JobsInTurn'
  <2>1. jobs[s].version \in Versions /\ jobs[s].active = record.active
    BY <1>1 DEF OnlyJob, TurnInv, JobsInTurn
  <2>2. jobs'[s].pc = "save" /\ jobs'[s].stage = "indexed" => vectors'[jobs[s].version] = "all"
    BY <1>2, <2>1 DEF Upserted, TypeOK, StoreType
  <2> QED BY <1>1, <1>2, <2>1, <2>2 DEF JobsInTurn, OnlyJob, Switched, Pending
<1>5. Awaited' /\ IndexFollows'
  BY <1>1, <1>2 DEF TurnInv, Awaited, IndexFollows, OnlyJob, Pending
<1> QED BY <1>1, <1>2, <1>3, <1>4, <1>5, JobWorksTurn

(* The control point alone moves. *)
LEMMA JobGoesAlone ==
    ASSUME TypeOK, NEW s \in Slots, NEW pc, JobGoes(s, pc)
    PROVE  /\ \A t \in Slots \ {s} : jobs'[t] = jobs[t]
           /\ jobs'[s].pc = pc /\ jobs'[s].stage = jobs[s].stage
           /\ jobs'[s].id = jobs[s].id /\ jobs'[s].version = jobs[s].version
           /\ jobs'[s].active = jobs[s].active
BY DEF JobGoes, TypeOK, JobType, Job

(* The slot alone is freed. *)
LEMMA JobEndsAlone ==
    ASSUME TypeOK, NEW s \in Slots, JobEnds(s)
    PROVE  (\A t \in Slots \ {s} : jobs'[t] = jobs[t]) /\ jobs'[s].pc = "idle"
BY DEF JobEnds, IdleJob, TypeOK, JobType

(* The manifest of the published version. *)
LEMMA RecordVersionTurn ==
    ASSUME TypeOK, TurnEnvironment, TurnInv, NEW s \in Slots, RecordVersion(s)
    PROVE  TurnInv'
<1>1. OnlyJob(s) /\ jobs[s].pc = "history"
  BY JobIsAlone DEF RecordVersion
<1>2. /\ JobGoes(s, "publish")
      /\ UNCHANGED <<record, versionIndex, raw, vectors, queue, apiCache, workerCache, requests,
                     uploads>>
  BY DEF RecordVersion, Fault, TurnEnvironment
<1>3. /\ \A t \in Slots \ {s} : jobs'[t] = jobs[t]
      /\ jobs'[s].pc = "publish" /\ jobs'[s].id = jobs[s].id
      /\ jobs'[s].version = jobs[s].version /\ jobs'[s].active = jobs[s].active
  BY <1>2, JobGoesAlone
<1>4. JobsInTurn' /\ Awaited' /\ IndexFollows' /\ ActiveSearchable'
  BY <1>1, <1>2, <1>3 DEF TurnInv, JobsInTurn, Awaited, IndexFollows, ActiveSearchable, OnlyJob,
     Switched, Pending
<1> QED BY <1>1, <1>2, <1>3, <1>4, JobWorksTurn

(* The version index follows the record. *)
LEMMA ActivateVersionTurn ==
    ASSUME TypeOK, TurnEnvironment, TurnInv, NEW s \in Slots, ActivateVersion(s)
    PROVE  TurnInv'
<1>1. /\ OnlyJob(s) /\ jobs[s].pc = "publish"
      /\ record.active = jobs[s].version /\ record.version = jobs[s].version
      /\ record.status = "indexed"
  BY JobIsAlone DEF ActivateVersion, OnlyJob, TurnInv, JobsInTurn, Switched
<1>2. /\ JobGoes(s, "cleanup") /\ versionIndex' = Activated(versionIndex, jobs[s].version)
      /\ versionIndex'.active = jobs[s].version
      /\ UNCHANGED <<record, raw, vectors, queue, apiCache, workerCache, requests, uploads>>
  BY DEF ActivateVersion, Activated, Fault, TurnEnvironment
<1>3. /\ \A t \in Slots \ {s} : jobs'[t] = jobs[t]
      /\ jobs'[s].pc = "cleanup" /\ jobs'[s].id = jobs[s].id
      /\ jobs'[s].version = jobs[s].version /\ jobs'[s].active = jobs[s].active
  BY <1>2, JobGoesAlone
<1>4. JobsInTurn' /\ Awaited' /\ IndexFollows' /\ ActiveSearchable'
  BY <1>1, <1>2, <1>3 DEF TurnInv, JobsInTurn, Awaited, IndexFollows, ActiveSearchable, OnlyJob,
     Switched, Pending
<1> QED BY <1>1, <1>2, <1>3, <1>4, JobWorksTurn

(* The cleanup of the other versions spares the one just published. *)
LEMMA CleanupSupersededTurn ==
    ASSUME TypeOK, TurnInv, NEW s \in Slots, CleanupSuperseded(s)
    PROVE  TurnInv'
<1>1. /\ OnlyJob(s) /\ jobs[s].pc = "cleanup"
      /\ record.active = jobs[s].version /\ record.version = jobs[s].version
      /\ versionIndex.active = jobs[s].version
  BY JobIsAlone DEF CleanupSuperseded, OnlyJob, TurnInv, JobsInTurn, Switched
<1>2. /\ JobGoes(s, "ack") /\ vectors'[jobs[s].version] = vectors[jobs[s].version]
      /\ UNCHANGED <<record, artifacts, queue, apiCache, workerCache, requests, uploads>>
  BY <1>1 DEF CleanupSuperseded, OnlyJob
<1>3. /\ \A t \in Slots \ {s} : jobs'[t] = jobs[t]
      /\ jobs'[s].pc = "ack" /\ jobs'[s].id = jobs[s].id
      /\ jobs'[s].version = jobs[s].version /\ jobs'[s].active = jobs[s].active
  BY <1>2, JobGoesAlone
<1>4. JobsInTurn' /\ Awaited'
  BY <1>1, <1>2, <1>3 DEF TurnInv, JobsInTurn, Awaited, OnlyJob, Switched, Pending
<1>5. IndexFollows' /\ ActiveSearchable'
  BY <1>1, <1>2, <1>3 DEF TurnInv, IndexFollows, ActiveSearchable, OnlyJob, artifacts
<1> QED BY <1>1, <1>2, <1>3, <1>4, <1>5, JobWorksTurn DEF artifacts

(* The cleanup of a failed version spares the active one, which is another. *)
LEMMA CleanupFailedTurn ==
    ASSUME TypeOK, TurnInv, NEW s \in Slots, CleanupFailed(s)
    PROVE  TurnInv'
<1>1. /\ OnlyJob(s) /\ jobs[s].pc = "cleanupFailed" /\ Pending
      /\ jobs[s].version \notin {record.active, versionIndex.active}
  BY JobIsAlone, ConstantsAssumption
  DEF CleanupFailed, OnlyJob, TurnInv, JobsInTurn, PendingIsNew, VersionsStored
<1>2. /\ JobEnds(s)
      /\ UNCHANGED <<record, artifacts, queue, apiCache, workerCache, requests, uploads>>
      /\ \A v \in Versions \ {jobs[s].version} : vectors'[v] = vectors[v]
  BY DEF CleanupFailed, TypeOK, StoreType
<1>3. (\A t \in Slots \ {s} : jobs'[t] = jobs[t]) /\ jobs'[s].pc = "idle"
  BY <1>2, JobEndsAlone
<1>4. JobsInTurn' /\ Awaited'
  BY <1>1, <1>2, <1>3 DEF JobsInTurn, Awaited, OnlyJob, Switched, Pending
<1>5. IndexFollows' /\ ActiveSearchable'
  <2>1. versionIndex.active \in MaybeVersion
    BY DEF TypeOK, StoreType
  <2> QED
    BY <1>1, <1>2, <1>3, <2>1
    DEF TurnInv, IndexFollows, ActiveSearchable, OnlyJob, MaybeVersion, artifacts
<1> QED BY <1>1, <1>2, <1>3, <1>4, <1>5, JobWorksTurn DEF artifacts

(* The acknowledgement empties the queue. *)
LEMMA AckJobTurn ==
    ASSUME TypeOK, TurnEnvironment, TurnInv, NEW s \in Slots, AckJob(s)
    PROVE  TurnInv'
<1>1. OnlyJob(s) /\ jobs[s].pc = "ack"
  BY JobIsAlone DEF AckJob
<1>2. /\ JobEnds(s) /\ queue' = {}
      /\ UNCHANGED <<record, artifacts, vectors, apiCache, workerCache, requests, uploads>>
  BY <1>1 DEF AckJob, Fault, TurnEnvironment, OnlyJob
<1>3. (\A t \in Slots \ {s} : jobs'[t] = jobs[t]) /\ jobs'[s].pc = "idle"
  BY <1>2, JobEndsAlone
<1>4. JobsInTurn' /\ Awaited' /\ ActiveSearchable'
  BY <1>1, <1>2, <1>3 DEF TurnInv, JobsInTurn, Awaited, ActiveSearchable, OnlyJob, Switched,
     artifacts
<1>5. IndexFollows'
  BY <1>1, <1>2, <1>3 DEF TurnInv, IndexFollows, OnlyJob, artifacts
<1> QED BY <1>1, <1>2, <1>3, <1>4, <1>5, JobWorksTurn DEF artifacts

(* A user operation begins a request. *)
LEMMA OperationBegins ==
    ASSUME TypeOK, NEW r \in Requests, UserOperation(r)
    PROVE  Begins
BY DEF UserOperation, UploadDocument, ReplaceDocument, RestoreVersion, DeleteDocument, Begin, Begins,
   TypeOK, RequestType

(* Every step of users who work in turn keeps TurnInv. *)
LEMMA TurnStep ==
    ASSUME TypeOK, Sound, TurnEnvironment, TurnInv, [Next /\ (Begins => InTurn)]_vars
    PROVE  TurnInv'
<1>1. CASE UNCHANGED vars
  BY <1>1, TurnUnchanged
<1>2. ASSUME Begins => InTurn, NEW r \in Requests, UserOperation(r)
      PROVE  TurnInv'
  <2>1. InTurn
    BY <1>2, OperationBegins
  <2>2. ~DeleteDocument(r)
    BY DEF DeleteDocument, TurnEnvironment
  <2> QED
    BY <1>2, <2>1, <2>2, UploadDocumentTurn, ReplaceDocumentTurn, RestoreVersionTurn
    DEF UserOperation
<1>3. ASSUME NEW r \in Requests, ApiStep(r) PROVE TurnInv'
  <2>1. requests[r].pc \notin {"enqueueFailed", "deleteVectors", "saveDeleted"}
    BY DEF TurnInv, TurnPoints, RestorePoints
  <2>2. ~SaveEnqueueFailure(r) /\ ~DeleteVectors(r) /\ ~SaveDeleted(r)
    BY <2>1 DEF SaveEnqueueFailure, DeleteVectors, SaveDeleted
  <2> QED
    BY <1>3, <2>2, SaveQueuedTurn, EnqueueJobTurn, LoadVersionIndexTurn, ReindexBatchTurn,
       ReindexVersionTurn, ActivateRestoredTurn, SaveRestoredTurn DEF ApiStep
<1>4. ASSUME NEW s \in Slots, ReceiveJob(s) \/ JobStep(s) PROVE TurnInv'
  <2>1. ~SaveRawFailure(s) /\ ~AbortForDeleted(s) /\ ~AbortForSuperseded(s)
    BY DEF TurnInv, TurnPoints, SaveRawFailure, AbortForDeleted, AbortForSuperseded
  <2> QED
    BY <1>4, <2>1, ReceiveJobTurn, LoadJobTurn, SaveStageTurn, UpsertJobBatchTurn, RunStageTurn,
       RecordVersionTurn, ActivateVersionTurn, CleanupSupersededTurn, SaveFailureTurn,
       CleanupFailedTurn, AckJobTurn DEF JobStep
<1> QED
  BY <1>1, <1>2, <1>3, <1>4, ReadDocumentTurn, ApiRestartTurn, WorkerRestartTurn DEF Next

(* The invariant holds of every reachable state when users work in turn.    *)
LEMMA TurnInvAlways ==
    ASSUME TurnEnvironment
    PROVE  TurnsSpec => [](TypeOK /\ Sound /\ TurnInv)
<1>1. TurnsSpec => Spec
  BY PTL DEF TurnsSpec, Spec
<1>2. TypeOK /\ Sound /\ TurnInv /\ [Next /\ (Begins => InTurn)]_vars => TurnInv'
  BY TurnStep
<1> QED
  BY <1>1, <1>2, InitTurn, SoundAlways, PTL DEF TurnsSpec

(* "The previously published version must stay searchable until the         *)
(* replacement is fully ingested and atomically published"                  *)
(* (service.py:272): the version the search gate lets through has all its   *)
(* vectors, for replacements and restores made in turn, whatever stages     *)
(* fail and however often idle workers and the API process restart. That    *)
(* is all of TurnEnvironment: with a crashed worker, a lost acknowledgement *)
(* or a failed store write next to a failing stage the code does not keep   *)
(* the promise, nor with overlapping requests (carried_over).               *)
THEOREM PublishedStaysSearchable ==
    ASSUME TurnEnvironment
    PROVE  TurnsSpec => []PublishedVersionSearchable
<1>1. TypeOK /\ Sound /\ TurnInv => PublishedVersionSearchable
  BY TurnImplies
<1> QED
  BY <1>1, TurnInvAlways, PTL

(* Publishing writes the record and then the version index (service.py:513, *)
(* _record_ingestion_success), restoring the index and then the record      *)
(* (service.py:891): whenever nothing is in progress, the two name one     *)
(* active version of an indexed document, and a version whose entry says    *)
(* that its vectors are present has them, for replacements and restores     *)
(* made in turn in the same environment, as long as no restart of the API   *)
(* process cuts a restore between its two writes.                           *)
THEOREM RecordAgrees ==
    ASSUME TurnEnvironment, RestoresUncut
    PROVE  TurnsSpec => []RecordAgreesWithIndex
<1>1. TypeOK /\ Sound /\ TurnInv => RecordAgreesWithIndex
  BY TurnImplies
<1> QED
  BY <1>1, TurnInvAlways, PTL
===============================================================================
