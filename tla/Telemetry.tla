------------------------------- MODULE Telemetry -------------------------------
(***************************************************************************)
(* Trace and log capture: spans and log records close in a process, wait   *)
(* in its bounded buffers, and are written off the request path by one     *)
(* flush thread per buffer (observability_tracing/). A trace may span      *)
(* processes: an upload and the ingestion job it queued share a trace id.  *)
(***************************************************************************)
EXTENDS Naturals, Sequences, SequencesExt, FiniteSetsExt

CONSTANTS
    Sources,          \* requests, ingestion jobs and loggers
    SourcePipe,       \* the pipeline <<process, "spans" or "logs">> of each
    SourceTrace,      \* the trace id each belongs to
    SourceEntries,    \* how many spans or records each closes
    WarningSources,   \* the loggers of the stores' own warnings
    Configured,       \* sources whose root span is stamped with a configuration
    Graceful,         \* processes that shut down through the lifespan hook
    BufferCapacity,   \* span_buffer_capacity, log_buffer_capacity
    MaxStoreFaults,   \* bound: writes the store refuses
    MaxCrashes        \* bound: processes that die

ASSUME TelemetryAssumption ==
    /\ BufferCapacity \in Nat \ {0}
    /\ \A s \in Sources : SourcePipe[s][2] \in {"spans", "logs"}
    /\ SourceEntries \in [Sources -> Nat \ {0}]
    /\ WarningSources \subseteq Sources
    /\ \A s \in WarningSources : MaxStoreFaults <= SourceEntries[s]
    /\ MaxStoreFaults \in Nat
    /\ MaxCrashes \in Nat

Pipes == {SourcePipe[s] : s \in Sources}
Processes == {pipe[1] : pipe \in Pipes}
TraceIds == {SourceTrace[s] : s \in Sources}

(* The spans of a request close innermost first, so its last is the root.   *)
Entries == UNION {{<<s, n>> : n \in 1..SourceEntries[s]} : s \in Sources}
IsRoot(e) == e[2] = SourceEntries[e[1]]
NoEntry == <<>>

VARIABLES
    closed,        \* how many entries each source has closed
    buffers,       \* BoundedBuffer._items, per pipeline
    inHand,        \* the batches each thread that is flushing still has to write
    pipeState,     \* running; stopping: stop() waits for the thread; final: its own
                   \* flush is due; flushing; stopped; down: the process is gone
    traceRows,     \* traces: the span the row was taken from and its configuration
    storedEntries, \* rows of spans and log_records
    dropped,       \* rag_spans_dropped_total, rag_logs_dropped_total
    writeFailures, \* rag_trace_store_write_failures_total and its log twin
    discarded,     \* history: entries of the batches those writes held
    lostAtExit,    \* history: entries a process took down with it
    joinTimedOut,  \* history: a stop() that went on without its thread
    crashes

telemetryVars == <<closed, buffers, inHand, pipeState, traceRows, storedEntries, dropped,
                   writeFailures, discarded, lostAtExit, joinTimedOut, crashes>>

Flushers == {"loop", "stopper"}
NoRow == [anchor |-> NoEntry, config |-> FALSE]

TelemetryInit ==
    /\ closed = [s \in Sources |-> 0]
    /\ buffers = [pipe \in Pipes |-> <<>>]
    /\ inHand = [pipe \in Pipes |-> [f \in Flushers |-> {}]]
    /\ pipeState = [pipe \in Pipes |-> "running"]
    /\ traceRows = [t \in TraceIds |-> NoRow]
    /\ storedEntries = {}
    /\ dropped = 0 /\ writeFailures = 0
    /\ discarded = 0 /\ lostAtExit = 0
    /\ joinTimedOut = FALSE
    /\ crashes = 0

Alive(process) == \E pipe \in Pipes : pipe[1] = process /\ pipeState[pipe] # "down"

Room(pipe) == Len(buffers[pipe]) < BufferCapacity

------------------------------------------------------------------------------
(* Capture and flushing.                                                   *)

(* add(): a full buffer drops the new entry. *)
Add(s) ==
    LET pipe == SourcePipe[s]  e == <<s, closed[s] + 1>> IN
    /\ closed' = [closed EXCEPT ![s] = @ + 1]
    /\ IF Room(pipe)
       THEN buffers' = [buffers EXCEPT ![pipe] = Append(@, e)] /\ UNCHANGED dropped
       ELSE dropped' = dropped + 1 /\ UNCHANGED buffers

(* A span or a log record closes. *)
CloseEntry(s) ==
    /\ s \notin WarningSources
    /\ closed[s] < SourceEntries[s]
    /\ Alive(SourcePipe[s][1])
    /\ Add(s)
    /\ UNCHANGED <<inHand, pipeState, traceRows, storedEntries, writeFailures, discarded,
                   lostAtExit, joinTimedOut, crashes>>

(* group_spans_by_trace: one batch per trace, holding the trace's spans at  *)
(* the places they were drained from; a log record is a batch of its own.   *)
OneBatch(pipe, d, e) == d = e \/ (pipe[2] = "spans" /\ SourceTrace[d[1]] = SourceTrace[e[1]])
Planned(pipe, drained) ==
    {[j \in {k \in DOMAIN drained : OneBatch(pipe, drained[k], drained[i])} |-> drained[j]] :
        i \in DOMAIN drained}

(* Definitions whose comment begins with "Fault:" are not part of the       *)
(* specification: each is the definition after it with a plausible mistake. *)

(* Fault: the buffer is copied, and cleared without the lock in between. *)
DrainUnlocked(pipe, f) ==
    /\ inHand[pipe][f] = {}
    /\ \E seen \in 0..Len(buffers[pipe]) :
          inHand' = [inHand EXCEPT ![pipe][f] = Planned(pipe, SubSeq(buffers[pipe], 1, seen))]
    /\ buffers' = [buffers EXCEPT ![pipe] = <<>>]

(* drain(): the whole buffer, atomically. *)
Drain(pipe, f) ==
    /\ inHand[pipe][f] = {}
    /\ inHand' = [inHand EXCEPT ![pipe][f] = Planned(pipe, buffers[pipe])]
    /\ buffers' = [buffers EXCEPT ![pipe] = <<>>]

(* The loop thread looks at the stop event between two flushes. The look    *)
(* and the drain after it are one step: a thread that looks before the      *)
(* event is set and drains after it takes what the drain of the stopping    *)
(* thread would have taken, or finds nothing.                               *)
LoopDrains(pipe) ==
    /\ pipeState[pipe] = "running" /\ buffers[pipe] # <<>>
    /\ Drain(pipe, "loop")
    /\ UNCHANGED <<closed, pipeState, traceRows, storedEntries, dropped, writeFailures,
                   discarded, lostAtExit, joinTimedOut, crashes>>

(* Batches are written in the order of their first entries.                 *)
FirstOf(batches) == CHOOSE b \in batches : \A c \in batches : Min(DOMAIN b) <= Min(DOMAIN c)

(* Fault: the first span drained stands for its trace. *)
AnchorOfFirst(batch) == batch[Min(DOMAIN batch)]

(* The root span of a batch supplies the trace's fields; without one the    *)
(* span that started first does, which is the first of it: the children of  *)
(* a request follow one another.                                            *)
Anchor(batch) ==
    LET roots == {i \in DOMAIN batch : IsRoot(batch[i])}
    IN  batch[Min(IF roots = {} THEN DOMAIN batch ELSE roots)]

ConfigOf(e) == IsRoot(e) /\ e[1] \in Configured

(* ON CONFLICT DO UPDATE: every field is the batch's, but a configuration   *)
(* that is there stays unless the batch brings one.                         *)
Upserted(row, batch) ==
    [anchor |-> Anchor(batch), config |-> ConfigOf(Anchor(batch)) \/ row.config]

WriteBatch(pipe, batch) ==
    LET trace == SourceTrace[Anchor(batch)[1]] IN
    /\ storedEntries' = storedEntries \cup Range(batch)
    /\ traceRows' = IF pipe[2] = "logs" THEN traceRows
                    ELSE [traceRows EXCEPT ![trace] = Upserted(@, batch)]
    /\ UNCHANGED <<closed, buffers, dropped, writeFailures, discarded>>

(* persist() never raises: it discards the batch, counts the failure and    *)
(* logs it, which is one more log record of the process.                    *)
DiscardBatch(pipe, batch) ==
    LET loggers == {s \in WarningSources : SourcePipe[s][1] = pipe[1]} IN
    /\ writeFailures < MaxStoreFaults
    /\ writeFailures' = writeFailures + 1
    /\ discarded' = discarded + Cardinality(DOMAIN batch)
    /\ IF loggers = {} THEN UNCHANGED <<closed, buffers, dropped>>
       ELSE \E s \in loggers : Add(s)
    /\ UNCHANGED <<storedEntries, traceRows>>

(* One batch of flush_once, in one transaction. *)
Persist(pipe, f) ==
    /\ inHand[pipe][f] # {}
    /\ LET batch == FirstOf(inHand[pipe][f]) IN
          /\ WriteBatch(pipe, batch) \/ DiscardBatch(pipe, batch)
          /\ inHand' = [inHand EXCEPT ![pipe][f] = @ \ {batch}]
    /\ UNCHANGED <<pipeState, lostAtExit, joinTimedOut, crashes>>

------------------------------------------------------------------------------
(* Shutdown and crash.                                                     *)

StopMoves(pipe, from, to) ==
    pipeState[pipe] = from /\ pipeState' = [pipeState EXCEPT ![pipe] = to]

(* stop(): the event is set. Spans are stopped before logs. *)
StopPipe(pipe) ==
    /\ pipe[1] \in Graceful
    /\ pipe[2] = "logs" =>
          \A p \in Pipes : p = <<pipe[1], "spans">> => pipeState[p] = "stopped"
    /\ StopMoves(pipe, "running", "stopping")
    /\ UNCHANGED <<closed, buffers, inHand, traceRows, storedEntries, dropped, writeFailures,
                   discarded, lostAtExit, joinTimedOut, crashes>>

(* join(timeout) returns with the thread finished, or without. *)
JoinReturns(pipe) ==
    /\ StopMoves(pipe, "stopping", "final")
    /\ joinTimedOut' = (joinTimedOut \/ inHand[pipe]["loop"] # {})
    /\ UNCHANGED <<closed, buffers, inHand, traceRows, storedEntries, dropped, writeFailures,
                   discarded, lostAtExit, crashes>>

(* stop() flushes once itself. *)
FinalDrain(pipe) ==
    /\ StopMoves(pipe, "final", "flushing")
    /\ Drain(pipe, "stopper")
    /\ UNCHANGED <<closed, traceRows, storedEntries, dropped, writeFailures, discarded,
                   lostAtExit, joinTimedOut, crashes>>

StopReturns(pipe) ==
    /\ inHand[pipe]["stopper"] = {}
    /\ StopMoves(pipe, "flushing", "stopped")
    /\ UNCHANGED <<closed, buffers, inHand, traceRows, storedEntries, dropped, writeFailures,
                   discarded, lostAtExit, joinTimedOut, crashes>>

Buffered(pipe) == ToSet(buffers[pipe])
InHand(pipe) == UNION {UNION {Range(b) : b \in inHand[pipe][f]} : f \in Flushers}
Held(pipe) == Buffered(pipe) \cup InHand(pipe)

(* The process ends, and what it holds in memory with it. *)
Ends(process) ==
    LET of == {pipe \in Pipes : pipe[1] = process} IN
    /\ pipeState' = [pipe \in Pipes |-> IF pipe \in of THEN "down" ELSE pipeState[pipe]]
    /\ buffers' = [pipe \in Pipes |-> IF pipe \in of THEN <<>> ELSE buffers[pipe]]
    /\ inHand' = [pipe \in Pipes |-> IF pipe \in of THEN [f \in Flushers |-> {}] ELSE inHand[pipe]]
    /\ lostAtExit' = lostAtExit + Cardinality(UNION {Held(pipe) : pipe \in of})
    /\ UNCHANGED <<closed, traceRows, storedEntries, dropped, writeFailures, discarded,
                   joinTimedOut>>

ProcessExits(process) ==
    /\ Alive(process)
    /\ \A pipe \in Pipes : pipe[1] = process => pipeState[pipe] = "stopped"
    /\ Ends(process)
    /\ UNCHANGED crashes

Crash(process) ==
    /\ crashes < MaxCrashes /\ Alive(process)
    /\ crashes' = crashes + 1
    /\ Ends(process)

TelemetryNext ==
    \/ \E s \in Sources : CloseEntry(s)
    \/ \E pipe \in Pipes :
          \/ LoopDrains(pipe) \/ StopPipe(pipe) \/ JoinReturns(pipe) \/ FinalDrain(pipe)
          \/ StopReturns(pipe) \/ \E f \in Flushers : Persist(pipe, f)
    \/ \E process \in Processes : ProcessExits(process) \/ Crash(process)

(* The flush threads loop for as long as they run. *)
FlushLoop(pipe) == LoopDrains(pipe) \/ Persist(pipe, "loop")

TelemetryFairness == \A pipe \in Pipes : WF_telemetryVars(FlushLoop(pipe))

TelemetrySpec == TelemetryInit /\ [][TelemetryNext]_telemetryVars /\ TelemetryFairness

------------------------------------------------------------------------------
(* Properties.                                                             *)

TelemetryTypeOK ==
    /\ closed \in [Sources -> Nat]
    /\ \A s \in Sources : closed[s] <= SourceEntries[s]
    /\ \A pipe \in Pipes : buffers[pipe] \in Seq(Entries) /\ Len(buffers[pipe]) <= BufferCapacity
    /\ \A pipe \in Pipes, f \in Flushers : \A batch \in inHand[pipe][f] :
          DOMAIN batch \subseteq 1..BufferCapacity /\ Range(batch) \subseteq Entries
    /\ pipeState \in [Pipes -> {"running", "stopping", "final", "flushing", "stopped", "down"}]
    /\ traceRows \in [TraceIds -> [anchor : Entries \cup {NoEntry}, config : BOOLEAN]]
    /\ storedEntries \subseteq Entries
    /\ dropped \in Nat /\ writeFailures \in 0..MaxStoreFaults
    /\ discarded \in Nat /\ lostAtExit \in Nat
    /\ joinTimedOut \in BOOLEAN
    /\ crashes \in 0..MaxCrashes

ClosedEntries == {e \in Entries : e[2] <= closed[e[1]]}

(* No span or record is lost without a trace: whatever closed is buffered,  *)
(* in the hands of one thread, stored, or in one of the counts of what was  *)
(* dropped, discarded or lost with its process; and it is in one of them.   *)
EveryEntryAccounted ==
    Cardinality(ClosedEntries) =
        Cardinality(storedEntries) + Cardinality(UNION {Held(pipe) : pipe \in Pipes})
        + dropped + discarded + lostAtExit

(* When every span of a trace is stored its row describes a root span,      *)
(* unless a shutdown went on without a flush thread that still held spans.  *)
RootsDescribeTraces ==
    \A t \in TraceIds :
        (/\ ~joinTimedOut
         /\ {e \in Entries : SourceTrace[e[1]] = t /\ SourcePipe[e[1]][2] = "spans"}
                \subseteq storedEntries)
        => traceRows[t].anchor = NoEntry \/ IsRoot(traceRows[t].anchor)

(* "Entries that could not be written (because the store raised, i.e. is    *)
(* unavailable) are returned to the buffer for the next cycle": an outage   *)
(* of the store costs nothing but what overflows.                           *)
OutageLosesNothing ==
    ClosedEntries \subseteq storedEntries \cup UNION {Held(pipe) : pipe \in Pipes}
    \/ dropped + lostAtExit > 0
================================================================================
