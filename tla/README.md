# RAG Console: TLA+ models, checks and proofs

The program is a document question-answering service: a FastAPI process (`api`), an
ingestion `worker` process, Google Cloud Storage as artifact store (objects with
generations, hence compare-and-set), Pinecone as vector index, Pub/Sub as at-least-once job
queue, Postgres for accounts, traces, logs and the SQL audit, and a React frontend. The
deployment runs one `api` and one `worker` container, both restarted unless stopped. Paths
below are relative to `src/src/rag_system/` unless they name another directory.

## Files

| modules | what they model | instance |
| --- | --- | --- |
| `PublicationGate`, `DocumentLifecycle` | what a document promises its readers (abstract); the life of a document: requests, jobs, store, index, queue, caches, restarts | `MCDocumentLifecycle` |
| `RecordContract`, `RecordStore` | what the stored record promises (abstract); the compare-and-set loop, retried sends, the per-process cache | `MCRecordStore` |
| `RefreshTokens`, `RateLimiter`, `RunContract`, `ReplayRun`, `ConfigVersions`, `FeedbackReview`, `QualityReports` | what surrounds the answering of questions (`RunContract` is the abstract replay run) | `MCOperations` |
| `Conversations`, `Clarifications`, `AgenticRouter`, `RagAnswer`, `MarkerStream`, `DatabaseCopilot`, `SqlLab`, `CorpusListing` | what answers a question | `MCAnswering` |
| `Telemetry`, `Retention`, `AskStream`, `TraceWriters`, `EvaluationRun`, `RouterCache` | what runs beside the requests, in threads of its own | `MCBackground` |
| `DocumentLifecycleProofs`, `RecordStoreProofs`, `RefreshTokensProofs`, `AgenticRouterProofs` | theorems about the module each is named after | |
| `OperationsProofs`, `AnsweringProofs`, `BackgroundProofs` | theorems about the other modules of the three groups above, a section each | |
| `DataLemmas` | lemmas about naturals and sequences that several proofs use | |

`PROJECT.json` lists the components, the runs, the mutants, the map from definitions to source
lines, the findings, the hazards and the theorems. A check is
`tlc -config answering.cfg MCAnswering` (the run's name is its `.cfg`), a proof
`tlapm RefreshTokensProofs.tla`. Definitions whose comment begins with "Fault:" are plausible
mistakes and no part of the specification: substituted for the definition after them, each makes
a property fail, and `PROJECT.json` says which.

## Inventory

| component (code) | state | what is hard | correct means | module |
| --- | --- | --- | --- | --- |
| Document lifecycle (`service.py`, `worker.py`, `queue.py`) | per document a record (status, version, published version), a version index, manifests, artifacts per version; per process a dictionary of records | every record write can be overtaken; delivery at least once and overlapping; processes stop anywhere; no process is told of another's writes | no resurrection of a deleted document; overtaken jobs are silent; only whole ingestions are published and stay searchable; uploads settle | `DocumentLifecycle` |
| Artifact store (`storage.py`) | objects with generations | a precondition may fail against the caller's own write; the loop gives up | a landed write was legal for what it replaced | `RecordStore` |
| Vector index (`retrieval.py`) | vectors by version | batches, partial deletion | search sees whole published versions | `DocumentLifecycle`, `RagAnswer` |
| Authentication (`auth/`) | users, refresh tokens | a rotation is two statements; reuse, logout and the sweep in between | sessions do not branch; reuse is recognised and ends sessions | `RefreshTokens` |
| Rate limiting (`rate_limit.py`) | timestamps per key | the clock is read before the lock is taken | a limit per window | `RateLimiter` |
| Replay (`replay.py`) | a run and its cancel flag | cancellation races completion; two workers on one run; writes that raise after landing | final states are final, a cancelled run has no result and stops | `ReplayRun` |
| AI configuration (`ai_config.py`) | version objects, an index with an active pointer and an audit | create, then point; bootstraps; a write applied twice | the audit explains the pointer, stamps name what was active | `ConfigVersions` |
| Feedback and evaluation set (`feedback.py`, `service.py:1508`) | feedback with a review status, cases | pages over changing items; create the case, then point at it | paging is complete; promoted items have cases | `FeedbackReview` |
| Knowledge gaps, trace investigation (`knowledge_gap.py`, `trace_investigator.py`) | none of their own: they read traces and feedback | both keep arriving; the topic limit | every low quality outcome in one topic | `QualityReports` |
| Answer path (`router.py`, `api.py`, `conversation.py`, `clarification.py`) | conversation record, clarification records | whole-record puts of overlapping requests; replies late or twice; six gates by route | the record explains its answers; no answer passes a gate it should not | `AgenticRouter` and what it extends |
| Documents pipeline (`service.query`, `generation.py`, `claims.py`, `confidence.py`, `abstention.py`) | per query | verdicts of concurrent calls in any order; model output that does not parse | what is shown was verified | `RagAnswer` |
| Token stream (`generation.answer_stream`) | text so far | the marker cut anywhere | the deltas are the prose | `MarkerStream` |
| Copilot, hybrid (`copilot.py`, `router.py`) | per query | limits of a statement; two branches | rows the answer is written from are all rows, or are bounded | `DatabaseCopilot` |
| SQL Lab (`sql_lab/`) | audit rows | execution and audit are different connections, either may fail | rows shown are recorded | `SqlLab` |
| Corpus listing (`corpus.py`) | none of its own | pages while documents change | pages compose | `CorpusListing` |
| Capture (`observability_tracing/`) | bounded buffers, batches in hand, stores | refusing store, shutdown with a timeout, two processes on one trace | every entry stored or counted; a trace's row is its root's | `Telemetry` |
| Retention (`retention_scheduler.py`, stores) | rows with ages | rows that cannot be deleted | old rows go | `Retention` |
| Answer streaming (`api.py:1060-1160`) | a queue between a thread and the event loop | the client leaves, a stage raises | one end, and it comes | `AskStream` |
| Trace writers, evaluation run (`service.py:146`, `1340`, `1821`) | a pool made on demand | shutdown while writes are submitted; traces read back while written | no write is lost | `TraceWriters`, `EvaluationRun` |
| Shared router (`api.get_router`) | three fields, no lock | threads interleave their assignments | a degraded router is rebuilt | `RouterCache` |

How they interact: the API and the worker through the stored record, the queue and the vector
index only; the answer path reads conversations and published versions and hands its trace to
the trace writers; replay, feedback, knowledge gaps and evaluation runs read what the answer path
recorded; every request and job closes spans and log records that the flush threads store and
the retention cycle deletes. `PROJECT.json` lists the hazards, at their lines.

## DocumentLifecycle

One document, since documents share only processes. A step is one access to shared state, so
everything between two accesses (an `await`, a thread hop, a network call) can be interleaved
with any other actor.

| state | code |
| --- | --- |
| `record` | `documents/<id>/record.json` (`DocumentRecord`): status, version, active |
| `versionIndex` | `DocumentVersionIndex`: listed versions, those flagged `vectors_present`, the active pointer |
| `history` | `DocumentVersion` manifests |
| `raw`, `chunks`, `embedded` | sources, chunk lists and embedding manifests by version |
| `vectors` | what Pinecone holds of a version: none, some, or all of its vectors |
| `queue` | unacknowledged messages; an upload counter stands for the message identity |
| `apiCache`, `workerCache` | `RagService._documents` of each process |
| `requests`, `jobs` | program counter and locals of each API call and ingestion job |

The API actions follow `queue_document`/`update_document` (`UploadDocument`, `ReplaceDocument`,
`SaveQueued`, `EnqueueJob`, `SaveEnqueueFailure`), `delete_document` (`DeleteDocument`,
`DeleteVectors`, `SaveDeleted`), `restore_version` (`RestoreVersion`, `LoadVersionIndex`,
`ReindexBatch`, `ReindexVersion`, `ActivateRestored`, `SaveRestored`) and any read
(`ReadDocument`). The job actions follow `process_document_job` and `_run_ingestion`:
`ReceiveJob`, `LoadJob`, then per stage `SaveStage` (the status write) and `RunStage` (its work;
`UpsertJobBatch` makes the first batch of vectors visible early), `SaveStage` for `indexed` (the
publication switch), `RecordVersion`, `ActivateVersion`, `CleanupSuperseded`, `AckJob`; and the
handlers `SaveRawFailure`, `SaveFailure`, `CleanupFailed`, `AbortForDeleted`,
`AbortForSuperseded`. `ApiRestart` and `WorkerRestart` lose caches and work.

Faults are named and bounded: `stage` (a parser, embedder or index call raises), `store` (a read
or write of the store raises; a write may have landed), `enqueue` (a publish raises, and may have
landed), `ack`, `redeliver` (the acknowledgement deadline passes while the job runs),
`workerCrash`, `idleRestart` (a restart with no job in progress) and `apiRestart`.

Abstractions: a version is a model value; what a stage produces is whether it exists (`Blank` are
the versions whose text yields no chunk); ingestion events, owners and titles are left out;
`_persist_record` is one step, which RecordStore justifies; a read of the store for a caller may
raise (`ReadRaises`: a job then leaves its message on the queue); the two reads of `update_document`
(one for the refusal, one for the version carried over) are one step; slots take messages
one by one where the worker polls batches, so the model admits more overlap than the code; a get
that fills the cache is one step, and RecordStore shows what this hides.

### Runs

| run | instance | shows |
| --- | --- | --- |
| `lifecycle_faults` | 2 versions (one blank), 1 slot, 1 request, all operations, 2 faults of any kind | `IndexedVersionsRestorable`, `ActivePointersIngested`, `SearchSeesOnlyIngested` |
| `lifecycle_races` | 2 versions, 2 slots of one worker, 2 requests, no fault, symmetric | `DeletedIsFinal`, `SupersededJobsAreSilent`, `ImplementsGate` |
| `replacement` | 3 versions, 2 workers with a slot each, 2 requests, replacements and restores in turn (`TurnsSpec`), 4 faults, each a failing stage or a restart of an idle worker, symmetric | `PublishedVersionSearchable`, `RecordAgreesWithIndex` |
| `settling` | 1 upload, deletion, restore, 3 faults of every kind but overlapping delivery, fair | `UploadSettles`, `QueueDrains` |
| `reporting` | 1 upload, 2 workers, overlapping deliveries, crashes and API restarts, fair | `ApiReportsOutcome` |
| `stale_drop` | 2 versions, no fault | violates `DroppedJobsAreSuperseded` |
| `carried_over` | 3 versions, 1 worker, 1 request, replacements at any time, 1 restart of an idle worker | violates `PublishedVersionSearchable` |

`TurnsSpec` is `Next` with one restriction on the users: a request of any kind begins when nothing
is in progress (`Quiet`) and when what the API process would read is the stored record (`InTurn`).
The third version lets a replacement follow one that failed, and a restore bring back a version
that was replaced, from the index entry or by embedding it again. `carried_over` and the reference
configurations below show what happens without the restriction.

With overlapping operations two versions are enough to tell the current upload from an overtaken one
and the published from the latest; a third would only repeat these roles. Two uploads give an old
and a new job; two requests and two slots give every pair of concurrent actors, and each transition
reads the state of one actor and of the store. Two faults reach the patterns that need a fault while
handling a fault (a failed write in a failure handler, a crash after a lost acknowledgement).
Symmetry is used with safety properties only.

Fairness: a started request keeps being scheduled by the event loop and its thread pool
(`WF ApiStep`), the worker polls for ever and backs off at most a bounded time after an error
(`run_forever`: `WF ReceiveJob`, `WF JobStep`), and clients poll the API (`WF ReadDocument`).
Users, deletions and faults are never assumed to happen. Crashes and failures are bounded, which
is the assumption that they stop long enough for a job to finish.

### Limits of what holds

- With overlapping deliveries a slower job writes `parsing` over `indexed`; when its worker then
  crashes and the message was acknowledged by the faster one, the record stays in progress. The
  code relies on the acknowledgement deadline for this (`config.py:43-48`); `settling` therefore
  excludes `redeliver`, and only that.
- An upload whose message never reached the queue stays in progress for good, for no sweep exists:
  the API process stops between the queued write and the publish, the queued write lands and
  raises (`service.py:338`), or the publish fails and so does saving that it did
  (`service.py:356`). `UploadSettles` therefore speaks of records in progress whose message is in
  the queue.
- `reporting` has no failing stage: a `failed` record that the API process read in between stays in
  its cache after the retry succeeded (`failed_cached.cfg`).
- `PublishedVersionSearchable` and `RecordAgreesWithIndex` hold of replacements and restores made in
  turn, with failing stages and restarts of idle workers. Outside of that the code does not keep
  them:
  - with two jobs of different versions at once, the older one's cleanup (it published just before
    it was overtaken, `service.py:641`) deletes the vectors of the newer version; and a request
    that read the published version before that publication carries the old pointer over
    (`carried_over`);
  - a lost acknowledgement, an overlapping delivery, a crash after the publication or a publication
    that landed and raised has the job run again over the published version, and a stage that fails
    then, or the failure of the first run itself, removes its vectors (`republish_failure.cfg`);
    uploading the published version again does the same;
  - a deletion removes vectors before it is recorded, and may fail to record it;
  - a failed store write between the record and the index leaves them apart, and so does a restore
    that is interleaved with a publication (`restore_race.cfg`) or cut by a restart of the API
    process between its two writes. A restart elsewhere does no harm, and the theorem about the
    search allows it.
- `IndexedVersionsRestorable` says a restore finds what it re-indexes from, not that
  `vectors_present` is true of the index: a failed redelivery or a deletion removes vectors
  without clearing the flag. `RecordAgreesWithIndex` says that the flag is right where neither
  occurs.
- A first attempt that fails after its manifest was written leaves a manifest for a failed
  ingestion, against `.kiro/specs/rag-trust-and-observability/requirements.md:148`.

## RecordStore

Threads of both processes call `_save_document_record` and `get_document` on one record.
`Save` begins a call, `Load` is a turn of the loop in `_persist_record` (read with generation, check,
give up after `MaxAttempts`; `get_json_with_etag` asks for the generation and then for the content,
and a write between the two costs the turn, since the generation is the older one), `Put` the conditional write (lands, or loses the turn),
`SendFails` a transient error of `_put_bytes_conditional`, which retries it: the write may have
landed, and is then repeated against its own generation. `GetDocument`, `ReadStored` and
`FillCache` are the read side; the cache of a process is filled in a step of its own, without a
lock. `committed` remembers every record that was ever stored, `since` the generation a call
began with; both exist to state properties and no guard reads them. A call writes any record
whatever, except that the first one is queued, so nothing depends on what the callers are.

| run | instance | shows |
| --- | --- | --- |
| `record_store` | 2 threads in 2 processes, 2 versions, 3 statuses, 3 saves, 2 turns, 1 fault, fair | `CacheWasCommitted`, `ConflictsAreWrites`, `ImplementsContract`, `CallsReturn` |

Three saves let a thread lose both of its turns and give up; the statuses are one for each of
the three ways `_reject_illegal_write` treats a write. Fairness: a thread in a call keeps
running.

## MCOperations

Six parts that share no state. A behaviour exercises one of them, chosen by `exercised` in the
initial state, while the others stay as they began; so the run explores the union of the parts'
state spaces and not their product, and a property of a part is checked in all behaviours of that
part. Sets of model values are shared between the parts. Symmetry (configuration versions or
token rows; the concurrent threads) is used with safety properties only. There is no deadlock
check: sessions expire, a run ends, a map is drawn, and nothing need happen after that.

| module | state and code | actions and code |
| --- | --- | --- |
| `RefreshTokens` | `refreshRows`: rows of `refresh_tokens`; `accounts`: `users`; `authCalls`: the request each client is in. `issuedTokens`, `breached`, `spared` are history | `Register`, `InsertUser`: `AuthService.register` with the open and the closed branch; `Login`; `Refresh` reads and judges the row, `RevokeAllForUser` is the reuse branch, `RevokePresented` the conditional update, `IssueSuccessor` the insert: each statement a transaction; `Logout`, `RevokeLoggedOut`; `DeleteExpired`: the sweep; `AuthCallFails` between any two statements |
| `RateLimiter` | `hits`, `lastPrune`: the fields; `rateCalls`: key and time each thread read | `ReadClock` before the lock, `CheckLimit` the locked section with its sweep, `RateTick` |
| `ReplayRun` | `replayRun`: the stored run; `replayJobs`: `execute_run` of each worker; `replayCancels` | `CreateReplayRun`, `CancelReplayRun`, `SaveCancellation`; `ExecuteRun`, `CheckBeforeStart`, `StartRun`, `ExecuteStage`, `SettleRun`; `ReplayWorkerCrash`. A write is a compare-and-set and so one step, which may raise with the write landed or not, the one that creates the run included; the checks before it read nothing that changes |
| `ConfigVersions` | `configVersions`, `configApproved`: version objects; `configIndex`: history, pointer, events; `configStamps`: what traces were stamped with | `CreateByOperator`, `AppendConfigVersion`, `ApproveConfigVersion`, `RollbackConfig`, `ActivateConfigVersion` (also applied twice when its reply is lost); the resolver's `ResolveConfig`, `LoadResolved`, `BootstrapDefault`, `RollbackBootstrapped`, `StampTrace`; `ConfigCallRaises` |
| `FeedbackReview` | `feedback`: records; `evaluationCases`; `promotions`, `inbox`: calls under way | `RecordFeedback`, `ClassifyFeedback`, `ResolveFeedback`; `OpenInbox`, `NextPage`, `CloseInbox`; `PromoteFeedback`, `CreateCase`, `PointAtCase`, `PromotionRaises` |
| `QualityReports` | `queries`: stored traces with score and embedding; `negative`: feedback; `gapMap`, `diagnosis` | `StoreTrace`, `RateNegative`; `ReadTraces`, `ReadFeedback` (eligibility), `PlaceOutcome` (a turn of the clustering, `Placed`), `FinishMap` (coverage), `FailMap`; `DiagnoseTrace` |

Run `operations`:

| property | says | bounds |
| --- | --- | --- |
| `SessionsDoNotBranch`, `ReuseStaysDetectable`, `ReuseEndsSessions` | one live token per session and none while it is rotated; a revoked token is still found until it expires; a reuse ends every session but those between the two statements of a rotation | 3 tokens, 2 clients, lifetime 2, clock 3, 1 fault: two sessions or one rotated twice, with every pair of concurrent requests, and rows that expire |
| `LimitHolds` | no more than the limit in any window, shortened by twice the longest wait for the lock | 2 callers and keys, limit 2, window 4, delay 1, clock 6: a window and a sweep after it |
| `ReplayImplementsContract`, `CancelledRunStops` | the run refines `RunContract` (final states are final, a result comes with `completed` alone); no stage is entered after a cancellation is stored | 2 workers, 2 faults: both workers on one run, a write that raises and its repetition that raises |
| `AuditExplainsActive`, `StampsWereActive` | events form a chain that ends at the pointer; only activated versions whose object exists are stamped | 3 versions, 1 operator, 2 resolvers, 2 activations, 1 fault |
| `PagingIsComplete`, `PromotionsHaveCases` | no item twice and none missing that matched all along; a reported promotion has its case | 2 items, 2 operators, page size 1, 1 review, 1 fault |
| `ReportsHoldUp` | every outcome due is in exactly one topic; a diagnosis refers to something analysed | 3 outcomes, 3 directions, 2 topics: the limit is reached and an outcome folded |

Two are weaker than the documents say, because the code is. `LimitHolds` shortens the window:
`LimitHoldsExactly`, the docstring's bound, is violated when a thread that read an early time
takes the lock after a later one (`rate_limit.py` takes events to be appended in monotonic
order). `ReuseEndsSessions` excepts the rotation under way, whose successor survives.

## MCAnswering

Six parts again, joined by `exercised` as above; requests are interchangeable.

| module | state and code | actions and code |
| --- | --- | --- |
| `Conversations`, `Clarifications`, `AgenticRouter` | `conversation`: the stored record; `forgetting`; `clarifications` with expiry; `asks`: what each request has prepared, its route, evidence and outcome. `readBy` (what a request had read, and what its rewriting was shown), `lastTurn`, `forgotten` are history | `StartAsk`: `prepare` and the classifier (a store that fails gives a fresh conversation; the question is rewritten with the last `RewriteWindow` turns, or not at all where rewriting is disabled, raises or changes nothing); `StartReply`: `/ask/clarify`; `IssueClarification`; `RouteAndGate`: the route's pipeline, its signals and `evaluate_abstention`; `RecordTurn`: the whole record put back with the turn; `AskFails`; `Forget` in its two halves; `TimePasses` |
| `RagAnswer` | `passages`, `graded`, `claimCount`, `verifying`, `verified`; `said` is history | `Search` with the filter to published versions and the context window (`Context`), `Generate` with its retries and the score, `Decompose`, `StartVerification` and `FinishVerification` of the pool, `GateAnswer` with the gates in order |
| `MarkerStream` | `buffer`, `deltas` | `TakePiece`, `EndTokens`, `TokensRaise` |
| `DatabaseCopilot` | the statement with its limit, rows fetched, branch results | `StartBranches`, `GenerateSql`, `ApplyLimit`, `Execute`, `AnswerFromRows`, `DocumentsReturn`, `ReturnAnswer`; any call may raise (`CallRaises`) |
| `SqlLab` | `lab`: each request; `audit`: its records | `SubmitSql` (guard), `ConnectViewer`, `RunSelect`, `RecordOutcome`, `ListSchema`, `AnalyzeRows` |
| `CorpusListing` | stored documents, the browsing request with its cursor | `BrowseCorpus`, `ListCorpus`, `StopBrowsing`, `UploadToCorpus`, `ReplaceInCorpus` |

Models are abstracted to what their calls may return, which includes raising and output that
does not parse; a text guard reads its statement alone, so it is one choice of the first check
that fails; a row set is its size; a score is in thousandths, and only its comparison with a
threshold is kept.

Run `answering`:

| property | says | bounds |
| --- | --- | --- |
| `RecordExplainsItsTurns` | what stands before a turn in the record is what its request had read, the window of it is what a rewriting was shown, and the turn put last is there | 3 requests, 2 turns, a window of 1, 1 scope, expiry 1, clock 1, 1 fault: two requests overlap with a third before or after, the record overflows, a reply is late |
| `AnswersPassTheirGates` | an answer has passed the gates that read its route's signals, and nothing else is fed to follow-ups | same |
| `ClarifiedOnceInScope` | a reply is not prompted again and searches the scope of its question | same |
| `AnswersHoldUp` | an answer's claims were judged entailed, or were not judged at all, in whatever order the calls returned; none from flagged or unreadable output | 2 documents, 3 hits, 2 passages, 2 claims, 2 verifiers, 3 attempts |
| `DeltasAreTheProse` | what is forwarded is a prefix of the prose and at the end all of it, never the marker | marker of 3 symbols whose prefix repeats, pieces up to 3, stream up to 8: the marker in every cut, after a false start |
| `StatementsAreBounded` | whatever limit the model wrote, a statement the guard limits, or one of one row, produces no more rows than the cap, and the answer is written from all it produced; a part of the rows is shown only of ungrouped statements without a limit | cap 2, 3 rows or groups |
| `RowsAreRecorded` | rows are shown only with their one success record, of as many rows; no request is recorded twice or as what it was not | 2 requests, limit 2, 2 faults |
| `CorpusPagesCompose` | a listing shows only what its viewer may see, nothing twice unless it was retitled on the way, and everything that could be listed on every page | 3 documents, 2 titles (so ties), page size 1, 1 disturbance |

Observations that are not defects of these properties:

- Lost turns are accepted by the design: two requests that overlap both put the record they read.
  `RecordExplainsItsTurns` is what remains true. `ForgottenStaysForgotten` (the `forget` docstring
  in `api.py`) does not hold: a request that read the record before puts it back afterwards.
- `AnswersAreSupported` (`requirements.md:110`) does not hold of hybrid answers, whose claims are
  not passed to the gates, and `UnresolvedRepliesAbstain` (`requirements.md:99`) not of replies
  that are still ambiguous: they are answered with the best guess. Both are stated in
  `AgenticRouter` and not run.
- "single-row aggregate; no limit needed" (`copilot.py:409`) is not true of every statement that
  reaches that line: the guard asks for an aggregate anywhere in the statement (`copilot.py:309`),
  so an ungrouped one that projects a set, or whose aggregate is of a nested query, runs without a
  limit, and the answer is written from the first rows fetched. `UncappedIsOneRow` states the
  comment's claim in `DatabaseCopilot`; the model violates it and it is not run.
  `StatementsAreBounded` excepts exactly these statements.
- A single-row aggregate returns its row also when it counted nothing, so the gate on missing rows
  fires for it only under a `HAVING` or a limit of 0.
- An answer that cites nothing can reach the default minimum when log-probabilities are reported.
- A statement whose transaction commands or rollback raise ends as a server error without an audit
  record; `OneRecordPerOutcome` ("exactly one audit record is persisted per request outcome") is
  stated in `SqlLab` and not run.

## MCBackground

Five parts, joined by `exercised`; fairness is conditioned on the part.

| module | state and code | actions and code |
| --- | --- | --- |
| `Telemetry` | `buffers` of each pipeline `<<process, spans or logs>>`, `inHand`: batches of the flush thread and of `stop()`, `traceRows`, `storedEntries`, the drop and failure counters | `CloseEntry`: a span or record closes and is added or dropped; `LoopDrains` (the look at the stop event and the drain in one step: a thread that looked just before takes what the final drain would), `Persist` (a batch written, or discarded by a store that catches what the database raised, whose warning is one more record); `StopPipe`, `JoinReturns` (with or without its thread), `FinalDrain`, `StopReturns`; `ProcessExits`, `Crash` |
| `Retention` | rows with their start, rows that cannot be deleted, the sweep | `WriteRow`, `WakeUp`, `BeginSweep`, `BulkDelete`, `ListExpired`, `DeleteRow`, `RowsDone` |
| `AskStream` | `producer` thread, `posted` queue, `stop` flag, generator, client, `received` | `OpenStream`, `RunStageOfStream`, `EmitEvent`, `EmitError`, `PostSentinel`, `SendEvent`, `ClientLeaves` |
| `TraceWriters`, `EvaluationRun` | pools with queue and workers, stored trace ids; the run's cases, scores, stored run | `GetPool`, `Submit` (inline when the pool was closed meanwhile), `TakeWrite`, `FinishWrite`, `TakePoolAway`, `ClosePool`, `ShutdownReturns`; `StartRunOfCases`, `QueryCase`, `SubmitTrace`, `ScoreCase`, `StoreRun`, `RunRaises`, `OtherRequest` |
| `RouterCache` | the three fields of the shared router; each thread's step | `ReadRouter`, `LookAtState`, `BuildRouter`, `StoreRouter`, `StoreAvailable`, `StoreChecked`, `CopilotRecovers` |

Run `background`:

| property | says | bounds |
| --- | --- | --- |
| `EveryEntryAccounted` | every closed entry is buffered, in one thread's hands, stored, or in one of the counts | capacity 2, 2 processes on one trace of 3 and 2 spans, 2 refused writes, 1 crash: overflow, two flushes at once, a warning about a lost batch that is itself lost |
| `RootsDescribeTraces` | when all spans of a trace are stored its row is a root's, unless a shutdown went on without its thread | same |
| `OldRowsGo` | every row past its period goes in the end, whichever others cannot | 2 trace rows and 1 log row, ages 1, clock 2, 1 fault besides any set of undeletable rows; both periods are configured, without one the store is skipped |
| `StreamEndsOnce`, `StreamsFinish` | nothing follows an ending event, a client that stayed has got one, and a recorded turn was an answer; a stream that was opened is closed and its thread ends | 4 stages, a client that leaves at any point |
| `NoWriteIsLost` | a submitted write is done or held by exactly one pool, and a pool whose shutdown returned holds none | 3 writes, 2 threads, 2 pools |

`borrowed_trace` violates `MetricsAreOfTheCase`.

Fairness: the flush loop, the retention scheduler, the stream's producer thread and the response
generator are threads or tasks that loop until they are told to stop, so those that exist keep
being scheduled (`WF FlushLoop`, `WF SweepStep`, `WF Producer`, `WF SendEvent`). Database
refusals are bounded: the assumption that an outage ends. A client never has to leave, and no
request has to come.

## What the violations say

With a run:

- `stale_drop`: `process_document_job` compares a job with the record `get_document` returns,
  which in a worker that indexed the previous version is its own cached, terminal record. The
  *newer* job is dropped as superseded and acknowledged; the replacement stays `queued`.
- `carried_over`: `_queue_document` reads the published version and writes it back later in the
  queued record, which `_reject_illegal_write` exempts from the version check. A job may publish in
  between: the record then names the version before, whose vectors that job's cleanup removes, and
  the search gate does not let the newer version through, which is whole in the index.
- `borrowed_trace`: the cases of an evaluation run share the trace id of the request that started
  it, and traces are written in the background, so a case's retrieval metrics may be computed from
  the trace of the case before it.

With a `.cfg` that shows the same by itself, kept for reference (module in brackets):

- `failed_cached.cfg` [MCDocumentLifecycle] `ApiReportsOutcome`: `failed` is treated as terminal by
  the cache, but a retry is still owed by the queue; an API process that read `failed` reports it
  for ever.
- `republish_failure.cfg` [MCDocumentLifecycle] `PublishedVersionSearchable`: the cleanup after a
  failure deletes the vectors of the job's version, also when a previous delivery had published
  that version.
- `restore_race.cfg` [MCDocumentLifecycle] `RecordAgreesWithIndex`: a restore writes the version
  index and then the record, a publication the record and then the index; interleaved, the two
  active pointers disagree at rest.
- `cache_race.cfg` [MCRecordStore] `CacheAgreesAtRest`: two threads of the only writing process
  can fill its cache in the opposite order of their writes.
- `topic_bound.cfg` [MCOperations] `TopicsWithinBound`: an outcome exactly opposite to every
  centroid finds no nearest cluster and seeds a topic beyond the limit.
- `bootstrap_race.cfg` [MCOperations] `BootstrapIsInitial`: a bootstrap under way replaces what an
  operator activated meanwhile.
- `router_stuck.cfg` [MCBackground] `KeptRouterIsFull`: a degraded router is stored under the
  availability another thread stored, and kept for good.
- `outage.cfg` [MCBackground] `OutageLosesNothing`: the stores catch what the database raises and
  discard the batch, so the flush workers' putting back never happens.

Other things met while modelling, without a property:

- No code stores an abstention's reason code on a trace, so such outcomes become eligible for the
  knowledge gap map only by their confidence or by feedback; the traces of documents answers
  never store claims.
- Feedback on an answer whose trace is still in the background is rejected.
- Hybrid answers never reach `persist_unified_query_trace`, which its docstring says they do.
- A diagnosis with a cause but without a valid recommendation keeps the model's text for the cause.
- `query` returns a clarification prompt without a query summary, `query_stream` records one; and
  `/ask/clarify` does not strip SQL and rows when they were not asked for.
- A replay run whose worker crashed stays `running`: nothing resumes or expires it.

## Proofs

All theorems are proved for every value of the constants, from the named assumptions of the
modules and the two hypotheses given below. The assumptions: distinguished values are outside the
sets they are distinguished from, bounds are natural numbers, slots and threads have hosts,
operators and resolvers are different threads, some key is rate limited (`RateAssumption`), the
requests that may issue a clarification are the requests, with the scopes they may select
(`RouterAssumption`), a pipeline is one of spans or of logs and a warning source has an entry for
each write the store may refuse (`TelemetryAssumption`). Nothing is assumed finite: sets whose
size is counted are finite because steps put their members there one by one.

| theorem | states |
| --- | --- |
| `TypeCorrect`, and the theorems whose name ends in `TypeCorrect` | the type invariant of a module |
| `DeletedForever`, `SupersededSilent` | `DeletedIsFinal`, `SupersededJobsAreSilent` |
| `VersionsRestorable`, `PointersIngested`, `PublishingBacked`, `SearchIsSafe` | `[]` of `IndexedVersionsRestorable`, `ActivePointersIngested`, `PublishingIsBacked`, `SearchSeesOnlyIngested` |
| `LifecycleImplementsGate` | `ImplementsGate` |
| `PublishedStaysSearchable`, `RecordAgrees` | `[]` of `PublishedVersionSearchable`, `RecordAgreesWithIndex`, of `TurnsSpec` |
| `CacheCommitted`, `ConflictsCounted`, `StoreImplementsContract` | the three safety properties of `record_store` |
| `ReplayKeepsContract`, `CancelledStaysPut` | `ReplayImplementsContract`, `CancelledRunStops` |
| `AuditIsComplete`, `StampsAreSound` | `[]` of `AuditExplainsActive`, `StampsWereActive` |
| `TokensDoNotBranch`, `ReuseIsRecognised`, `ReuseEndsAll`, `OneAccountOnly` | `[]` of `SessionsDoNotBranch`, `ReuseStaysDetectable`, `ReuseEndsSessions`, `OneAccount` |
| `LimitIsKept` | `[]LimitHolds` |
| `PagingIsSound`, `PromotionsAreBacked` | `[]` of `PagingIsComplete`, `PromotionsHaveCases` |
| `ReportsAreSound` | `[]ReportsHoldUp` |
| `RecordExplained`, `AnswersAreGated`, `ClarifiedOnce` | `[]` of `RecordExplainsItsTurns`, `AnswersPassTheirGates`, `ClarifiedOnceInScope` |
| `AnswersAreVerified` | `[]AnswersHoldUp`, if `RouteMinimum > 350` |
| `ProseIsForwarded` | `[]DeltasAreTheProse` |
| `StatementsStayBounded`, `ShownRowsAreRecorded` | `[]` of `StatementsAreBounded`, `RowsAreRecorded` |
| `PagesCompose` | `[]CorpusPagesCompose` |
| `EntriesAreAccounted`, `RowsDescribeRoots` | `[]` of `EveryEntryAccounted`, `RootsDescribeTraces` |
| `StreamsEndOnce`, `WritesAreKept` | `[]` of `StreamEndsOnce`, `NoWriteIsLost` |

So every safety invariant and every safety action property of the passing runs is also a theorem.
Three theorems have a hypothesis:

- `TurnEnvironment`, of `PublishedStaysSearchable` and `RecordAgrees`: the operations are
  replacements and restores, and the faults a stage that raises, a restart of an idle worker and a
  restart of the API process; `RecordAgrees` also has `RestoresUncut`, no restart of the API process
  where there are restores. With it goes the restriction of `TurnsSpec` to requests made in turn.
  So they are theorems about failing ingestions and restores, and not about crashes, lost
  acknowledgements, store faults, overlapping deliveries or requests, deletions or a version
  uploaded again, under which the properties are false: `carried_over`, `republish_failure.cfg`,
  `restore_race.cfg` and the list under "Limits of what holds".
- `RouteMinimum > 350`, of `AnswersAreVerified`: an answer whose evidence was flagged as
  insufficient is not shown because its score is capped at 0.35 (`confidence.py:46`) and the
  route's minimum, 0.5 by default (`config.py:368`), is above it. A deployment that configures a
  minimum at or below the cap loses that part of the property; the validation allows any minimum
  from 0 to 1.

The arguments, by what is inductive:

*Types.* Type invariants are inductive because they also say which fields a program counter needs
(a request that will enqueue has a number and a version, a job in `run` is not at the last stage).
One lemma per action where there are many.

*Deletion.* Every record write goes through `PersistByRequest` or `PersistByJob`, so every changed
record was accepted; acceptance excludes leaving `deleted`.

*Overtaken jobs.* The argument needs that a job only runs when the record exists
(`Introduced`): otherwise the first write of a job is accepted by an absent record whatever its
version. It is inductive together with "until the first queued write there is no message, no job
and no request about to enqueue".

*Publication.* `Sound` = `CopiesSound` (every copy of the record, wherever held, points at an
ingested version and is not `indexed` without a pointer), `JobsStaged` (a job past a stage has
its artifacts), `RestoresListed` (a restore past its lookup targets a listed version) and
`IndexSound`. Each part needs the others: the publication switch copies a job's version into the
record, so the job must be staged; a restore copies its target, so the target must be listed, and
listed versions must be embedded; a replacement copies a pointer out of a cache, so caches must
be sound. `embedded`, `chunks`, `history` and the listed versions only grow, which makes stale
copies harmless. Refinement of `PublicationGate` follows: the record's pointer only moves to an
embedded version, and from `deleted` nowhere.

*Requests in turn.* `TurnInv` holds together with `Sound`. The queue has the message of the
latest upload at most, and one request or one job is under way (`OneAtATime`): a request only with
an empty queue, a job only for the message there is. A restore under way has in hand the record
that is stored, and its target has its vectors once it was embedded again (`RestoresInTurn`). A job that has not switched the record has the
record's version and active version in hand, so the vectors its failure or its cleanup deletes are
those of a version that is not active; a worker that cached the current version before it was
published has the record's pointer too; a version to be published is one that neither a copy nor the index
mentions (`PendingIsNew`), since every version mentioned has its source stored. The index follows
the record unless the job that published has yet to tell it, or a restore has told it and has yet
to tell the record.

*The loop.* `Reads` says that while the generation a thread read is still the object's, the record
it read is still stored and its check still holds; `Turns` that the conflicts a call has counted
lie between the generation it began with and the one it read last.

*Replay.* Every write goes through `Transitioned` or `Cancelled`, each a step of `RunContract` or
none whatever the run was when the worker looked; a job about to settle cannot be overtaken into
a second final state because the transition leaves final states alone. A stored cancellation is
never withdrawn and the run it ended never rewritten (`CancelledStaysPut` says both), and a stage is entered only where the flag was looked at in the same step.

*Configuration.* Pointer and event move in one write, so the chain of events is inductive by
itself; for stamps the invariant adds that a caller past its creation holds a version whose
object exists, one past the activation a version that an event selected.

*Sessions.* `AuthInvariant`: a session has one holder, either its one live token or the one
request that has revoked a token of it and not yet issued the successor. The conditional update
is what hands the session over: of the requests that read one live token only the first finds it
live. A reuse empties all sessions but those in a request's hands, which is what `spared` names;
an identifier that was never issued belongs to no session, so issuing cannot create a branch.

*Rate limit.* Of each key the bucket is the end of the history of what was admitted, what left it
is older than any request still waiting for the lock can reach, and two admissions are at most
`MaxRateDelay` out of order. Hence the requests in a window shortened by twice that delay are all
in the bucket when the last of them is admitted.

*Inbox.* The cursor is an item's key: what was shown does not come after it, and what matched all
along and was not shown does. A page is a beginning of what comes after the cursor, so advancing
it keeps both. Of promotions: a case exists once a promotion is about to point at it.

*Reports.* While the outcomes are placed each eligible one is in one cluster or still to be placed,
and clusters share none (`ClustersKnown`). Eligibility only grows as feedback arrives, so reading
traces and feedback in two steps does no harm.

*Documents answer.* `PoolKnown`: the pairs begun are the first ones in the order of submission and
each is under way or has its verdict. The order pairs claims and passages by quotient and
remainder, so it names every pair once (`PairsAreDistinct`); when all have a verdict they are the
pairs of every claim with every passage, whatever order they ended in.

*Token stream.* What was forwarded is a beginning of the buffer that stays as far from its end as a
marker could reach back; when a marker ends, its start is beyond that, and the first one in the
buffer stays the first in every continuation.

*Corpus.* What was shown lies behind the cursor unless it was retitled since, and what was
listed all along and not shown lies ahead. That a page has a last item is proved from the
well-foundedness of strict inclusion between finite sets instead of an induction over their size.

*Database branch.* What is about to be executed carries a `LIMIT` within the cap, or is ungrouped and
has none, and until then nothing was produced.

*Answer stream.* An ending is followed from the producer through the queue to the client: there is
one at most, only the sentinel is posted behind it, and a producer that is done has posted one
unless the response was closed before.

*Trace writers.* A submitted write is stored, in the hands of its thread, or in one pool that is
open or waited for; a pool that was taken away keeps the writes it has until it has run them.

*Capture.* `CaptureInv` keeps an account: the closed entries are those
stored and those held (buffered or in hand), which are never the same, and as many more as the
counters say; every action moves a set of
entries from one to another (`AccountMoves`). `RootsInv` adds the order: of one source what is
stored closed before what is in hand, and that before what is buffered. A root closes last of its
source, so a row that does not describe a root has its source's root still to come; hence the property
waits until all spans of the trace are stored. A join that
times out breaks the order, since two threads then hold batches, and the property excepts it.

*SQL Lab.* A request that has not been answered has no audit record and no response, so the record
written with the answer is the only one, and of the rows fetched.

*Router.* The turns a request holds, and those of the record, are of requests that were answered;
an answered request takes no further step, so what a turn stands for cannot change after it was
put. What a request read when it started is what it holds, of which its rewriting was shown the end; and a clarification's scope is
that of the request it is named after.

Model-checked only:

- liveness (`UploadSettles`, `QueueDrains`, `ApiReportsOutcome`, `CallsReturn`, `OldRowsGo`,
  `StreamsFinish`): fairness speaks of `ENABLED`, which the provers used here cannot reason about.
- what a fold computes. `ScoreSum` and `Coverage` are evaluated by TLC; the proofs use
  them only through what holds of any value (a sum of scores is not needed to know the cap on a
  flagged answer), since what a fold yields for every input needs an induction whose theorem takes
  an operator as parameter.
- the modules `Retention`, `EvaluationRun` and `RouterCache` beyond the type facts on which
  `TraceWriters` rests: the first is about liveness, of the others a property is violated.

## Not modelled

| component | why |
| --- | --- |
| Parsing, chunking, embedding, sparse encoding | text processing and model calls; whether a version has chunks is all `DocumentLifecycle` keeps |
| Model judging (`judge.py`) | one sequential model call and the reading of its text |
| Metrics, structured logging, retries | counters behind a lock and a decorator; a call that raised after its retries is a fault of the module that makes it |
| HTTP plumbing, settings, start-up | no state of their own beyond what the modules have |
| Prompts, JSON reading, SQL parsing, JWT and password hashing | abstracted to what they may return |
| Read queries of the trace and log stores, sampling, schema | no state change |
| Frontend, scripts, CI, design tooling | not part of the services; the frontend polls, which is `ReadDocument` |

`PROJECT.json` says of each partly modelled component what is left out.

## Plan

1. Composition of `DocumentLifecycle` with `RecordStore`: a record write of the one is the contract
   step of the other, so that the lifecycle's atomic writes are a theorem and not a reading.
2. The documents pipeline under `AgenticRouter`: `RagAnswer` as the detailed form of
   `RouteAndGate` on the documents route, as a refinement.
3. `PublishedStaysSearchable` with deletions and crashes where the code keeps it.
4. More of `api.py`: the endpoints that only combine modelled operations.
