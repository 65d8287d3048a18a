-------------------------- MODULE DocumentLifecycle --------------------------
(***************************************************************************)
(* The life of one document: uploads, replacements, deletions and restores *)
(* handled by the API process, ingestion jobs handled by worker processes, *)
(* the artifact store (record, version index, chunks), the vector index    *)
(* and the at-least-once job queue between them.  Documents share nothing  *)
(* but the processes, so one document is modelled.                         *)
(*                                                                         *)
(* A step is one access to shared state.  A record write is one step: the  *)
(* compare-and-set loop of _persist_record takes effect at its successful  *)
(* conditional write, and exhausting its attempts is a "store" fault.      *)
(***************************************************************************)
EXTENDS Naturals

CONSTANTS
    Versions,     \* content hashes a user may upload
    NoVersion,    \* None
    Blank,        \* versions whose text yields no chunk at all
    Workers,      \* ingestion worker processes
    Slots,        \* concurrent jobs, over all workers
    Host,         \* the worker each slot belongs to
    Requests,     \* concurrent API requests (one API process)
    Operations,   \* the user operations a run admits
    Faults,       \* the kinds of fault a run admits
    MaxUploads,   \* bound: uploads and replacements
    MaxFaults     \* bound: faults

FaultKinds == {"stage", "store", "enqueue", "ack", "redeliver",
               "workerCrash", "idleRestart", "apiRestart"}

ASSUME ConstantsAssumption ==
    /\ NoVersion \notin Versions
    /\ "gone" \notin Versions \cup {NoVersion}
    /\ Blank \subseteq Versions
    /\ Host \in [Slots -> Workers]
    /\ Operations \subseteq {"replace", "reupload", "delete", "restore"}
    /\ Faults \subseteq FaultKinds
    /\ MaxUploads \in Nat
    /\ MaxFaults \in Nat

VARIABLES
    record,        \* documents/<id>/record.json
    versionIndex,  \* the Document_Version index
    history,       \* versions with an immutable Document_Version manifest
    raw,           \* versions whose source bytes are stored
    chunks,        \* versions with a non-empty stored chunk list
    embedded,      \* versions with an embedding manifest: upserted whole once
    vectors,       \* what the vector index holds of each version
    queue,         \* unacknowledged ingestion messages
    apiCache,      \* RagService._documents in the API process
    workerCache,   \* RagService._documents in each worker process
    requests,      \* the API requests in progress
    jobs,          \* the ingestion jobs in progress
    uploads,       \* uploads so far (also numbers the messages)
    faults         \* faults so far

artifacts == <<versionIndex, history, raw, chunks, embedded>>
vars == <<record, versionIndex, history, raw, chunks, embedded, vectors, queue,
          apiCache, workerCache, requests, jobs, uploads, faults>>

------------------------------------------------------------------------------
(* Records, and what the service reads in them.                            *)

InProgress == {"queued", "parsing", "chunking", "embedding"}
Terminal   == {"indexed", "failed", "deleted"}
Stages     == {"parsing", "chunking", "embedding", "indexed"}
Status     == {"absent"} \cup InProgress \cup Terminal

MaybeVersion == Versions \cup {NoVersion}
Record == [status : Status, version : MaybeVersion, active : MaybeVersion]

Absent == [status |-> "absent", version |-> NoVersion, active |-> NoVersion]

(* Definitions whose comment begins with "Fault:" are not part of the       *)
(* specification: each is the definition after it with a plausible mistake, *)
(* used to show that a property would notice.                               *)

(* Fault: an unpublished record counts as published whatever its status. *)
PublishedByVersion(rec) ==
    IF rec.status \in {"absent", "deleted"} THEN NoVersion
    ELSE IF rec.active # NoVersion THEN rec.active
    ELSE rec.version

(* The version the search gate lets through for a record. *)
PublishedVersionOf(rec) ==
    IF rec.status \in {"absent", "deleted"} THEN NoVersion
    ELSE IF rec.active # NoVersion \/ rec.status # "indexed" THEN rec.active
    ELSE rec.version

(* Fault: every cached record is trusted. *)
GetDocumentCacheFirst(cache) ==
    IF cache.status # "absent" \/ record.status = "absent" THEN cache ELSE record

(* get_document: a cached record in a terminal status is served as it is;   *)
(* otherwise the stored record is read, and cached.  What is returned is    *)
(* also what the cache holds afterwards.                                    *)
GetDocument(cache) ==
    IF cache.status \in Terminal \/ record.status = "absent" THEN cache ELSE record

(* Fault: queued writes are exempt, as they are from the version check. *)
RejectsDeletedUnlessQueued(new) ==
    new.status \notin {"deleted", "queued"} /\ record.status = "deleted"

(* Fault: the publication switch is not checked. *)
RejectsDeletedUnlessIndexed(new) ==
    new.status \notin {"deleted", "indexed"} /\ record.status = "deleted"

RejectsDeleted(new) == new.status # "deleted" /\ record.status = "deleted"

(* Fault: the publication switch of an older version is let through. *)
RejectsStaleProgress(new) ==
    /\ ~RejectsDeleted(new)
    /\ record.status # "absent"
    /\ new.version # record.version
    /\ new.status \notin {"queued", "deleted", "indexed"}

RejectsStale(new) ==
    /\ ~RejectsDeleted(new)
    /\ record.status # "absent"
    /\ new.version # record.version
    /\ new.status \notin {"queued", "deleted"}

Accepts(new) == ~RejectsDeleted(new) /\ ~RejectsStale(new)

(* A write that raised may still have reached the store. *)
WriteInDoubt(new) == record' = record \/ (Accepts(new) /\ record' = new)

(* Fault: the flags of the other entries are not cleared. *)
ActivatedKeepingLive(index, v) ==
    [versions |-> index.versions \cup {v}, live |-> index.live \cup {v}, active |-> v]

(* Both writers of the version index: v becomes the only live and the       *)
(* active entry, every other entry stays listed.                            *)
Activated(index, v) ==
    [versions |-> index.versions \cup {v}, live |-> {v}, active |-> v]

Upserted(v) == [vectors EXCEPT ![v] = "all"]

(* The first batch of an upsert, visible before the last one.  A version    *)
(* already there stays as it is, for chunk identifiers are deterministic.   *)
UpsertBatch(v) ==
    /\ vectors[v] = "none"
    /\ vectors' = [vectors EXCEPT ![v] = "some"]

Fault(kind) ==
    /\ kind \in Faults
    /\ faults < MaxFaults
    /\ faults' = faults + 1

(* get_document raises: the stored record was asked for and cannot be had. *)
ReadRaises(cache) == cache.status \notin Terminal /\ Fault("store")

Message == [id : 1 .. MaxUploads, version : Versions]

IdleJob == [pc |-> "idle", stage |-> "parsing", id |-> 0,
            version |-> NoVersion, active |-> NoVersion]
IdleRequest == [pc |-> "idle", id |-> 0, target |-> NoVersion, rec |-> Absent]

Init ==
    /\ record = Absent
    /\ versionIndex = [versions |-> {}, live |-> {}, active |-> NoVersion]
    /\ history = {} /\ raw = {} /\ chunks = {} /\ embedded = {}
    /\ vectors = [v \in Versions |-> "none"]
    /\ queue = {}
    /\ apiCache = Absent
    /\ workerCache = [w \in Workers |-> Absent]
    /\ requests = [r \in Requests |-> IdleRequest]
    /\ jobs = [s \in Slots |-> IdleJob]
    /\ uploads = 0
    /\ faults = 0

------------------------------------------------------------------------------
(* API process: uploading and replacing.                                   *)

RequestGoes(r, next) == requests' = [requests EXCEPT ![r].pc = next]
RequestEnds(r) == requests' = [requests EXCEPT ![r] = IdleRequest]

Begin(r, pc, id, target, rec) ==
    /\ requests[r].pc = "idle"
    /\ requests' = [requests EXCEPT ![r] =
           [pc |-> pc, id |-> id, target |-> target, rec |-> rec]]

(* A record write by request r: persisted, then cached by the API process. *)
PersistByRequest(r, new, next) ==
    \/ /\ Accepts(new)
       /\ record' = new
       /\ apiCache' = new
       /\ next
       /\ UNCHANGED faults
    \/ /\ \/ ~Accepts(new) /\ UNCHANGED <<record, faults>>
          \/ Fault("store") /\ WriteInDoubt(new)
       /\ RequestEnds(r)
       /\ UNCHANGED apiCache

(* queue_document: the identifier is fresh, so nothing is published yet. *)
UploadDocument(r, v) ==
    /\ uploads = 0 /\ MaxUploads > 0
    /\ uploads' = 1
    /\ raw' = raw \cup {v}
    /\ Begin(r, "queue", 1, v,
             [status |-> "queued", version |-> v, active |-> NoVersion])
    /\ UNCHANGED <<record, versionIndex, history, chunks, embedded, vectors,
                   queue, apiCache, workerCache, jobs, faults>>

(* update_document: refused for a missing or deleted document, otherwise    *)
(* the published version of the record it reads is carried over.  Its       *)
(* reads, before and after it stores the source, are one step here.         *)
ReplaceDocument(r, v) ==
    LET existing == GetDocument(apiCache) IN
    /\ "replace" \in Operations
    /\ "reupload" \in Operations \/ v \notin raw
    /\ existing.status \notin {"absent", "deleted"}
    /\ uploads < MaxUploads
    /\ uploads' = uploads + 1
    /\ apiCache' = existing
    /\ raw' = raw \cup {v}
    /\ Begin(r, "queue", uploads + 1, v, [status |-> "queued", version |-> v,
                                          active |-> PublishedVersionOf(existing)])
    /\ UNCHANGED <<record, versionIndex, history, chunks, embedded, vectors,
                   queue, workerCache, jobs, faults>>

SaveQueued(r) ==
    /\ requests[r].pc = "queue"
    /\ PersistByRequest(r, requests[r].rec, RequestGoes(r, "enqueue"))
    /\ UNCHANGED <<artifacts, vectors, queue, workerCache, jobs, uploads>>

JobMessage(r) == [id |-> requests[r].id, version |-> requests[r].target]

(* A publish that raised may still have reached the topic. *)
EnqueueJob(r) ==
    /\ requests[r].pc = "enqueue"
    /\ \/ /\ queue' = queue \cup {JobMessage(r)}
          /\ RequestEnds(r)
          /\ UNCHANGED faults
       \/ /\ Fault("enqueue")
          /\ queue' \in {queue, queue \cup {JobMessage(r)}}
          /\ RequestGoes(r, "enqueueFailed")
    /\ UNCHANGED <<record, artifacts, vectors, apiCache, workerCache, jobs, uploads>>

SaveEnqueueFailure(r) ==
    /\ requests[r].pc = "enqueueFailed"
    /\ PersistByRequest(r, [requests[r].rec EXCEPT !.status = "failed"], RequestEnds(r))
    /\ UNCHANGED <<artifacts, vectors, queue, workerCache, jobs, uploads>>

------------------------------------------------------------------------------
(* API process: deleting, restoring and reading.                           *)

(* delete_document of a document not known to be deleted. *)
DeleteDocument(r) ==
    LET existing == GetDocument(apiCache) IN
    /\ "delete" \in Operations
    /\ existing.status \notin {"absent", "deleted"}
    /\ apiCache' = existing
    /\ Begin(r, "deleteVectors", 0, NoVersion, existing)
    /\ UNCHANGED <<record, artifacts, vectors, queue, workerCache, jobs, uploads, faults>>

(* A deletion that raised may still have reached the index. *)
DeleteVectors(r) ==
    /\ requests[r].pc = "deleteVectors"
    /\ \/ /\ vectors' = [v \in Versions |-> "none"]
          /\ RequestGoes(r, "saveDeleted")
          /\ UNCHANGED faults
       \/ /\ Fault("stage")
          /\ vectors' \in {vectors, [v \in Versions |-> "none"]}
          /\ RequestEnds(r)
    /\ UNCHANGED <<record, artifacts, queue, apiCache, workerCache, jobs, uploads>>

SaveDeleted(r) ==
    /\ requests[r].pc = "saveDeleted"
    /\ PersistByRequest(r, [requests[r].rec EXCEPT !.status = "deleted"], RequestEnds(r))
    /\ UNCHANGED <<artifacts, vectors, queue, workerCache, jobs, uploads>>

RestoreVersion(r, v) ==
    LET existing == GetDocument(apiCache) IN
    /\ "restore" \in Operations
    /\ existing.status \notin {"absent", "deleted"}
    /\ apiCache' = existing
    /\ Begin(r, "loadIndex", 0, v, existing)
    /\ UNCHANGED <<record, artifacts, vectors, queue, workerCache, jobs, uploads, faults>>

(* An unknown version ends the request; one without live vectors is         *)
(* re-indexed before it is activated.                                       *)
LoadVersionIndex(r) ==
    LET v == requests[r].target IN
    /\ requests[r].pc = "loadIndex"
    /\ \/ v \notin versionIndex.versions /\ RequestEnds(r)
       \/ /\ v \in versionIndex.versions
          /\ RequestGoes(r, IF v \in versionIndex.live THEN "activate" ELSE "reindex")
    /\ UNCHANGED <<record, artifacts, vectors, queue, apiCache, workerCache,
                   jobs, uploads, faults>>

ReindexBatch(r) ==
    /\ requests[r].pc = "reindex"
    /\ requests[r].target \in chunks
    /\ UpsertBatch(requests[r].target)
    /\ UNCHANGED <<record, artifacts, queue, apiCache, workerCache, requests, jobs,
                   uploads, faults>>

(* Fault: a re-indexed version is saved without being activated. *)
ReindexVersionAlone(r) ==
    LET v == requests[r].target IN
    /\ requests[r].pc = "reindex"
    /\ \/ /\ v \in chunks
          /\ vectors' = Upserted(v)
          /\ RequestGoes(r, "saveRestored")
          /\ UNCHANGED faults
       \/ v \notin chunks /\ RequestEnds(r) /\ UNCHANGED <<vectors, faults>>
       \/ /\ v \in chunks
          /\ Fault("stage")
          /\ vectors' \in {vectors, Upserted(v)}
          /\ RequestEnds(r)
    /\ UNCHANGED <<record, artifacts, queue, apiCache, workerCache, jobs, uploads>>

(* The re-indexing is through, finds no chunk to index, or raises. *)
ReindexVersion(r) ==
    LET v == requests[r].target IN
    /\ requests[r].pc = "reindex"
    /\ \/ /\ v \in chunks
          /\ vectors' = Upserted(v)
          /\ RequestGoes(r, "activate")
          /\ UNCHANGED faults
       \/ v \notin chunks /\ RequestEnds(r) /\ UNCHANGED <<vectors, faults>>
       \/ /\ v \in chunks
          /\ Fault("stage")
          /\ vectors' \in {vectors, Upserted(v)}
          /\ RequestEnds(r)
    /\ UNCHANGED <<record, artifacts, queue, apiCache, workerCache, jobs, uploads>>

ActivateRestored(r) ==
    /\ requests[r].pc = "activate"
    /\ \/ /\ versionIndex' = Activated(versionIndex, requests[r].target)
          /\ RequestGoes(r, "saveRestored")
          /\ UNCHANGED faults
       \/ /\ Fault("store")
          /\ versionIndex' \in {versionIndex, Activated(versionIndex, requests[r].target)}
          /\ RequestEnds(r)
    /\ UNCHANGED <<record, history, raw, chunks, embedded, vectors, queue,
                   apiCache, workerCache, jobs, uploads>>

SaveRestored(r) ==
    /\ requests[r].pc = "saveRestored"
    /\ PersistByRequest(r, [requests[r].rec EXCEPT !.status = "indexed",
                                                   !.active = requests[r].target],
                        RequestEnds(r))
    /\ UNCHANGED <<artifacts, vectors, queue, workerCache, jobs, uploads>>

(* Any read of the document by the API process: a listing, a status poll,   *)
(* the search gate.                                                         *)
ReadDocument ==
    /\ apiCache' = GetDocument(apiCache)
    /\ UNCHANGED <<record, artifacts, vectors, queue, workerCache, requests,
                   jobs, uploads, faults>>

(* Fault: hits are compared with the latest upload. *)
SearchHitsOfLatest ==
    {v \in Versions : vectors[v] # "none" /\ v = GetDocument(apiCache).version}

(* The versions whose vectors a query gets back through the search gate. *)
SearchHits ==
    {v \in Versions : /\ vectors[v] # "none"
                      /\ v = PublishedVersionOf(GetDocument(apiCache))}

ApiStep(r) ==
    \/ SaveQueued(r) \/ EnqueueJob(r) \/ SaveEnqueueFailure(r)
    \/ DeleteVectors(r) \/ SaveDeleted(r)
    \/ LoadVersionIndex(r) \/ ReindexBatch(r) \/ ReindexVersion(r)
    \/ ActivateRestored(r) \/ SaveRestored(r)

------------------------------------------------------------------------------
(* Worker processes: a message is delivered, processed and acknowledged.   *)

JobGoes(s, next) == jobs' = [jobs EXCEPT ![s].pc = next]
JobEnds(s) == jobs' = [jobs EXCEPT ![s] = IdleJob]

(* A record write by the job in slot s, cached by its worker.  A refusal    *)
(* sends the job to onDeleted or onStale; an exception sends it to onError. *)
PersistByJob(s, new, next, onDeleted, onStale, onError) ==
    \/ /\ Accepts(new)
       /\ record' = new
       /\ workerCache' = [workerCache EXCEPT ![Host[s]] = new]
       /\ next
       /\ UNCHANGED faults
    \/ /\ \/ RejectsDeleted(new) /\ JobGoes(s, onDeleted) /\ UNCHANGED <<record, faults>>
          \/ RejectsStale(new) /\ JobGoes(s, onStale) /\ UNCHANGED <<record, faults>>
          \/ Fault("store") /\ WriteInDoubt(new) /\ onError
       /\ UNCHANGED workerCache

JobOf(m) == [pc |-> "load", stage |-> "parsing", id |-> m.id, version |-> m.version,
             active |-> NoVersion]

(* Fault: the message is acknowledged when it is received. *)
ReceiveJobOnce(s) ==
    /\ jobs[s].pc = "idle"
    /\ \E m \in queue :
          /\ queue' = queue \ {m}
          /\ jobs' = [jobs EXCEPT ![s] = JobOf(m)]
    /\ UNCHANGED <<record, artifacts, vectors, apiCache, workerCache,
                   requests, uploads, faults>>

(* Pub/Sub hands out any unacknowledged message; one whose job still runs   *)
(* only once its acknowledgement deadline has passed.                       *)
ReceiveJob(s) ==
    /\ jobs[s].pc = "idle"
    /\ \E m \in queue :
          /\ IF \E t \in Slots : jobs[t].pc # "idle" /\ jobs[t].id = m.id
             THEN Fault("redeliver")
             ELSE UNCHANGED faults
          /\ jobs' = [jobs EXCEPT ![s] = JobOf(m)]
    /\ UNCHANGED <<record, artifacts, vectors, queue, apiCache, workerCache,
                   requests, uploads>>

(* process_document_job: a job for a deleted document or for another        *)
(* version than the record's is dropped; otherwise the source is read. The  *)
(* record is there, for it was written before the message. When it cannot   *)
(* be read the message is left on the queue.                                *)
LoadJob(s) ==
    LET current == GetDocument(workerCache[Host[s]])
        v == jobs[s].version
        dropped == current.status = "deleted" \/ current.version # v
    IN
    /\ jobs[s].pc = "load"
    /\ \/ /\ workerCache' = [workerCache EXCEPT ![Host[s]] = current]
          /\ \/ /\ dropped
                /\ JobGoes(s, "ack")
                /\ UNCHANGED faults
             \/ /\ ~dropped
                /\ v \in raw
                /\ jobs' = [jobs EXCEPT ![s].pc = "save", ![s].active = current.active]
                /\ UNCHANGED faults
             \/ /\ ~dropped
                /\ Fault("store")
                /\ jobs' = [jobs EXCEPT ![s].pc = "rawFailed", ![s].active = current.active]
       \/ /\ ReadRaises(workerCache[Host[s]])
          /\ JobEnds(s)
          /\ UNCHANGED workerCache
    /\ UNCHANGED <<record, artifacts, vectors, queue, apiCache, requests, uploads>>

JobRecord(s, status) ==
    [status |-> status, version |-> jobs[s].version, active |-> jobs[s].active]

(* The source could not be read: the failure is saved and re-raised. *)
SaveRawFailure(s) ==
    /\ jobs[s].pc = "rawFailed"
    /\ PersistByJob(s, JobRecord(s, "failed"), JobEnds(s), "ack", "ack", JobEnds(s))
    /\ UNCHANGED <<artifacts, vectors, queue, apiCache, requests, uploads>>

(* The status write that opens a stage; the last one, indexed, is the       *)
(* publication switch.                                                      *)
SaveStage(s) ==
    LET stage == jobs[s].stage
        v == jobs[s].version
    IN
    /\ jobs[s].pc = "save"
    /\ IF stage = "indexed"
       THEN PersistByJob(s, [status |-> "indexed", version |-> v, active |-> v],
                JobGoes(s, "history"), "rollback", "superseded", JobGoes(s, "failed"))
       ELSE PersistByJob(s, JobRecord(s, stage),
                JobGoes(s, "run"), "rollback", "superseded", JobGoes(s, "failed"))
    /\ UNCHANGED <<artifacts, vectors, queue, apiCache, requests, uploads>>

NextStage == [parsing |-> "chunking", chunking |-> "embedding", embedding |-> "indexed"]

UpsertJobBatch(s) ==
    /\ jobs[s].pc = "run" /\ jobs[s].stage = "embedding"
    /\ UpsertBatch(jobs[s].version)
    /\ UNCHANGED <<record, artifacts, queue, apiCache, workerCache, requests, jobs,
                   uploads, faults>>

(* The work of a stage is through, or raises: parsing (its artifact is      *)
(* never read back), chunking into the retained chunk list, embedding and   *)
(* upserting every chunk and writing the embedding manifest.                *)
RunStage(s) ==
    LET stage == jobs[s].stage
        v == jobs[s].version
    IN
    /\ jobs[s].pc = "run"
    /\ \/ /\ jobs' = [jobs EXCEPT ![s].pc = "save", ![s].stage = NextStage[stage]]
          /\ chunks' = IF stage = "chunking" /\ v \notin Blank THEN chunks \cup {v} ELSE chunks
          /\ vectors' = IF stage = "embedding" THEN Upserted(v) ELSE vectors
          /\ embedded' = IF stage = "embedding" THEN embedded \cup {v} ELSE embedded
          /\ UNCHANGED faults
       \/ /\ Fault("stage")
          /\ JobGoes(s, "failed")
          /\ vectors' \in IF stage = "embedding" THEN {vectors, Upserted(v)} ELSE {vectors}
          /\ UNCHANGED <<chunks, embedded>>
    /\ UNCHANGED <<record, versionIndex, history, raw, queue, apiCache,
                   workerCache, requests, uploads>>

(* _record_ingestion_success: the manifest and the succeeded event, then    *)
(* the index activation.  A write that raised may have landed.              *)
RecordVersion(s) ==
    LET v == jobs[s].version IN
    /\ jobs[s].pc = "history"
    /\ \/ history' = history \cup {v} /\ JobGoes(s, "publish") /\ UNCHANGED faults
       \/ /\ Fault("store")
          /\ history' \in {history, history \cup {v}}
          /\ JobGoes(s, "failed")
    /\ UNCHANGED <<record, versionIndex, raw, chunks, embedded, vectors, queue,
                   apiCache, workerCache, requests, uploads>>

ActivateVersion(s) ==
    LET v == jobs[s].version IN
    /\ jobs[s].pc = "publish"
    /\ \/ /\ versionIndex' = Activated(versionIndex, v)
          /\ JobGoes(s, "cleanup")
          /\ UNCHANGED faults
       \/ /\ Fault("store")
          /\ versionIndex' \in {versionIndex, Activated(versionIndex, v)}
          /\ JobGoes(s, "failed")
    /\ UNCHANGED <<record, history, raw, chunks, embedded, vectors, queue,
                   apiCache, workerCache, requests, uploads>>

(* _cleanup_superseded_vectors: best effort. *)
CleanupSuperseded(s) ==
    /\ jobs[s].pc = "cleanup"
    /\ JobGoes(s, "ack")
    /\ \/ /\ vectors' = [u \in Versions |->
                            IF u = jobs[s].version THEN vectors[u] ELSE "none"]
          /\ UNCHANGED faults
       \/ Fault("stage") /\ UNCHANGED vectors
    /\ UNCHANGED <<record, artifacts, queue, apiCache, workerCache, requests, uploads>>

(* The generic handler: the failure is written with the active version the  *)
(* job read at its start.                                                   *)
SaveFailure(s) ==
    /\ jobs[s].pc = "failed"
    /\ PersistByJob(s, JobRecord(s, "failed"), JobGoes(s, "cleanupFailed"),
                    "rollback", "superseded", JobEnds(s))
    /\ UNCHANGED <<artifacts, vectors, queue, apiCache, requests, uploads>>

(* Fault: the failed version's cleanup covers the whole document. *)
CleanupFailedDocument(s) ==
    /\ jobs[s].pc = "cleanupFailed"
    /\ JobEnds(s)
    /\ vectors' = [v \in Versions |-> "none"]
    /\ UNCHANGED <<record, artifacts, queue, apiCache, workerCache, requests, uploads, faults>>

(* The failed event, then the failed version's vectors are dropped (best    *)
(* effort) and the exception leaves the message on the queue.               *)
CleanupFailed(s) ==
    /\ jobs[s].pc = "cleanupFailed"
    /\ JobEnds(s)
    /\ \/ vectors' = [vectors EXCEPT ![jobs[s].version] = "none"] /\ UNCHANGED faults
       \/ (Fault("store") \/ Fault("stage")) /\ UNCHANGED vectors
    /\ UNCHANGED <<record, artifacts, queue, apiCache, workerCache, requests, uploads>>

(* The record is read for the caller; when it cannot be, the exception      *)
(* leaves the message on the queue.                                         *)
AbortReturns(s) ==
    /\ workerCache' = [workerCache EXCEPT ![Host[s]] = GetDocument(@)]
    /\ JobGoes(s, "ack")

AbortRaises(s) ==
    /\ ReadRaises(workerCache[Host[s]])
    /\ JobEnds(s)
    /\ UNCHANGED workerCache

(* _abort_ingestion_for_deleted: every vector of the document, best effort. *)
AbortForDeleted(s) ==
    /\ jobs[s].pc = "rollback"
    /\ \/ /\ AbortReturns(s)
          /\ \/ vectors' = [v \in Versions |-> "none"] /\ UNCHANGED faults
             \/ Fault("stage") /\ UNCHANGED vectors
       \/ /\ AbortRaises(s)
          /\ vectors' \in {vectors, [v \in Versions |-> "none"]}
    /\ UNCHANGED <<record, artifacts, queue, apiCache, requests, uploads>>

AbortForSuperseded(s) ==
    /\ jobs[s].pc = "superseded"
    /\ \/ AbortReturns(s) /\ UNCHANGED faults
       \/ AbortRaises(s)
    /\ UNCHANGED <<record, artifacts, vectors, queue, apiCache, requests, uploads>>

(* Fault: a job dropped because the document is deleted is not acknowledged. *)
AckJobUnlessDeleted(s) ==
    /\ jobs[s].pc = "ack"
    /\ JobEnds(s)
    /\ queue' = IF record.status = "deleted" THEN queue
                ELSE {m \in queue : m.id # jobs[s].id}
    /\ UNCHANGED <<record, artifacts, vectors, apiCache, workerCache, requests, uploads, faults>>

(* An acknowledgement that fails leaves the message to be delivered again. *)
AckJob(s) ==
    /\ jobs[s].pc = "ack"
    /\ JobEnds(s)
    /\ \/ queue' = {m \in queue : m.id # jobs[s].id} /\ UNCHANGED faults
       \/ Fault("ack") /\ UNCHANGED queue
    /\ UNCHANGED <<record, artifacts, vectors, apiCache, workerCache, requests, uploads>>

JobStep(s) ==
    \/ LoadJob(s) \/ SaveRawFailure(s) \/ SaveStage(s) \/ UpsertJobBatch(s) \/ RunStage(s)
    \/ RecordVersion(s) \/ ActivateVersion(s) \/ CleanupSuperseded(s)
    \/ SaveFailure(s) \/ CleanupFailed(s)
    \/ AbortForDeleted(s) \/ AbortForSuperseded(s) \/ AckJob(s)

------------------------------------------------------------------------------
(* Processes stop and start again: their cache and their work are lost.    *)

ApiRestart ==
    /\ Fault("apiRestart")
    /\ apiCache' = Absent
    /\ requests' = [r \in Requests |-> IdleRequest]
    /\ UNCHANGED <<record, artifacts, vectors, queue, workerCache, jobs, uploads>>

(* A worker has no graceful stop: one that finds jobs running is a crash to *)
(* them. A restart that finds none is a kind of fault of its own, so that a *)
(* run may admit restarts that abandon nothing.                             *)
WorkerRestart(w) ==
    /\ \/ Fault("workerCrash")
       \/ /\ \A s \in Slots : Host[s] = w => jobs[s].pc = "idle"
          /\ Fault("idleRestart")
    /\ workerCache' = [workerCache EXCEPT ![w] = Absent]
    /\ jobs' = [s \in Slots |-> IF Host[s] = w THEN IdleJob ELSE jobs[s]]
    /\ UNCHANGED <<record, artifacts, vectors, queue, apiCache, requests, uploads>>

UserOperation(r) ==
    \/ \E v \in Versions : UploadDocument(r, v) \/ ReplaceDocument(r, v) \/ RestoreVersion(r, v)
    \/ DeleteDocument(r)

Next ==
    \/ \E r \in Requests : UserOperation(r) \/ ApiStep(r)
    \/ ReadDocument
    \/ \E s \in Slots : ReceiveJob(s) \/ JobStep(s)
    \/ ApiRestart
    \/ \E w \in Workers : WorkerRestart(w)

Spec == Init /\ [][Next]_vars

(* A started request and a running worker keep going, and the API is polled *)
(* for as long as its answer would change.  Users and faults owe nothing.   *)
FairSpec ==
    /\ Spec
    /\ \A r \in Requests : WF_vars(ApiStep(r))
    /\ \A s \in Slots : WF_vars(ReceiveJob(s)) /\ WF_vars(JobStep(s))
    /\ WF_vars(ReadDocument)

------------------------------------------------------------------------------
(* What holds.                                                             *)

RequestPcs == {"idle", "queue", "enqueue", "enqueueFailed", "deleteVectors", "saveDeleted",
               "loadIndex", "reindex", "activate", "saveRestored"}
Request == [pc : RequestPcs, id : 0 .. MaxUploads, target : MaybeVersion, rec : Record]

JobPcs == {"idle", "load", "rawFailed", "save", "run", "history", "publish", "cleanup", "failed",
           "cleanupFailed", "rollback", "superseded", "ack"}
Job == [pc : JobPcs, stage : Stages, id : 0 .. MaxUploads, version : MaybeVersion,
        active : MaybeVersion]

StoreType ==
    /\ record \in Record
    /\ versionIndex \in [versions : SUBSET Versions, live : SUBSET Versions,
                         active : MaybeVersion]
    /\ history \subseteq Versions /\ raw \subseteq Versions
    /\ chunks \subseteq Versions /\ embedded \subseteq Versions
    /\ vectors \in [Versions -> {"none", "some", "all"}]
    /\ queue \subseteq Message

CacheType == apiCache \in Record /\ workerCache \in [Workers -> Record]

RequestType ==
    /\ requests \in [Requests -> Request]
    /\ \A r \in Requests :
          /\ requests[r].pc \in {"queue", "enqueue"} => requests[r].id > 0
          /\ requests[r].pc \notin {"idle", "deleteVectors", "saveDeleted"}
                => requests[r].target \in Versions

JobType ==
    /\ jobs \in [Slots -> Job]
    /\ \A s \in Slots :
          /\ jobs[s].pc # "idle" => jobs[s].version \in Versions
          /\ jobs[s].pc = "run" => jobs[s].stage # "indexed"

(* Every variable has its type; a request that may enqueue or restore, and  *)
(* a running job, name a version; the indexed stage is never run.           *)
TypeOK ==
    /\ StoreType /\ CacheType /\ RequestType /\ JobType
    /\ uploads \in 0 .. MaxUploads
    /\ faults \in 0 .. MaxFaults

(* Whatever races, the index never has two live versions, and a version it  *)
(* lists can be restored: its manifest, its embedding manifest and, unless  *)
(* the text was blank, its chunks are there (restore_version re-indexes     *)
(* from them).                                                              *)
IndexedVersionsRestorable ==
    /\ versionIndex.live = versionIndex.versions \cap {versionIndex.active}
    /\ versionIndex.versions \subseteq history \cap embedded
    /\ versionIndex.versions \ Blank \subseteq chunks

(* Whoever holds a copy of the record, in the store, a cache, a request or  *)
(* a job, its active version was once upserted whole: a stale copy written  *)
(* back can republish an old version but never a half-ingested one.         *)
ActivePointersIngested ==
    /\ record.active \in embedded \cup {NoVersion}
    /\ apiCache.active \in embedded \cup {NoVersion}
    /\ \A w \in Workers : workerCache[w].active \in embedded \cup {NoVersion}
    /\ \A r \in Requests : requests[r].rec.active \in embedded \cup {NoVersion}
    /\ \A s \in Slots : jobs[s].active \in embedded \cup {NoVersion}

(* What publishing relies on, at every step on the way there: a job past a  *)
(* stage has that stage's artifacts in the store, a restore past its lookup *)
(* targets a listed version, and no copy of the record is indexed without   *)
(* naming what it published.                                                *)
StagedVersion(v, stage) ==
    /\ stage \in {"embedding", "indexed"} => v \in chunks \cup Blank
    /\ stage = "indexed" => v \in embedded

PublishingIsBacked ==
    /\ \A s \in Slots :
          /\ StagedVersion(jobs[s].version, jobs[s].stage)
          /\ jobs[s].pc \in {"history", "publish", "cleanup"} => jobs[s].stage = "indexed"
          /\ jobs[s].pc = "publish" => jobs[s].version \in history
    /\ \A r \in Requests :
          requests[r].pc \in {"reindex", "activate", "saveRestored"}
             => requests[r].target \in versionIndex.versions
    /\ \A rec \in {record, apiCache} \cup {workerCache[w] : w \in Workers}
                 \cup {requests[r].rec : r \in Requests} :
          rec.status = "indexed" => rec.active # NoVersion
    /\ embedded \subseteq chunks \cup Blank

(* "Readers only ever see published vectors": a query answered from the     *)
(* API's view, however stale, returns only versions ingested whole.         *)
SearchSeesOnlyIngested == SearchHits \subseteq embedded

(* deleted is terminal in the store (_reject_illegal_write), against every  *)
(* late write of a job, a replacement or a restore.                         *)
DeletedIsFinal ==
    [][record.status = "deleted" => record'.status = "deleted"]_record

(* A job whose version is no longer the record's never changes the record,  *)
(* at whatever point of its run the newer upload came.                      *)
SupersededJobsAreSilent ==
    [][\A s \in Slots :
          jobs[s].pc # "idle" /\ jobs'[s] # jobs[s] /\ jobs[s].version # record.version
             => record' = record]_vars

Gate == INSTANCE PublicationGate WITH
            Gone <- "gone",
            published <- IF record.status = "deleted" THEN "gone" ELSE record.active,
            ingested <- embedded

(* The lifecycle implements the gate readers rely on. *)
ImplementsGate == Gate!Spec

------------------------------------------------------------------------------
(* What holds, or is promised, of some environments only: see the runs.    *)

(* "A failed/superseded re-ingest never destroys the last good version":    *)
(* the published version's vectors are all there.                           *)
PublishedVersionSearchable ==
    PublishedVersionOf(record) # NoVersion => vectors[PublishedVersionOf(record)] = "all"

(* A job dropped as superseded really is: the stored record has moved on.   *)
DroppedJobsAreSuperseded ==
    [][\A s \in Slots :
          jobs[s].pc = "load" /\ jobs'[s].pc = "ack" /\ record.status # "deleted"
             => record.version # jobs[s].version]_vars

Quiet ==
    /\ queue = {}
    /\ \A r \in Requests : requests[r].pc = "idle"
    /\ \A s \in Slots : jobs[s].pc = "idle"

(* Users who work in turn: a request begins when nothing is in progress and *)
(* the API process sees the record that is stored.                          *)
InTurn == Quiet /\ GetDocument(apiCache) = record

Begins == \E r \in Requests : requests[r].pc = "idle" /\ requests'[r].pc # "idle"

TurnsSpec == Init /\ [][Next /\ (Begins => InTurn)]_vars

(* When nothing is in progress the record and the version index name the    *)
(* same active version, and a version whose entry says that its vectors are *)
(* present has them all, so that restore_version may skip re-indexing it.   *)
RecordAgreesWithIndex ==
    Quiet /\ record.status = "indexed" =>
       /\ record.active = versionIndex.active
       /\ \A v \in versionIndex.live : vectors[v] = "all"

(* An upload in progress whose message has reached the queue comes to a     *)
(* terminal status, whatever fails and stops on the way. (Without the       *)
(* message it stays where it is: the queued write raised, or the failure of *)
(* the enqueue could not be saved.)                                         *)
UploadSettles ==
    record.status \in InProgress /\ (\E m \in queue : m.version = record.version)
        ~> record.status \in Terminal

(* Every message is acknowledged in the end. *)
QueueDrains == \A i \in 1 .. MaxUploads :
    (\E m \in queue : m.id = i) ~> ~(\E m \in queue : m.id = i)

(* The API does not report a stale status forever. *)
ApiReportsOutcome ==
    record.status = "indexed" ~> apiCache.status = "indexed" \/ record.status # "indexed"
==============================================================================
