----------------------------- MODULE TraceWriters -----------------------------
(***************************************************************************)
(* Query traces are written off the request path (service.py): a write is  *)
(* submitted to a small pool that is made on demand and taken away by a    *)
(* graceful shutdown, and is done inline when the pool it was given has    *)
(* been closed meanwhile. A trace is stored under its trace id alone.      *)
(***************************************************************************)
EXTENDS Naturals, Sequences, FiniteSets, SequencesExt

CONSTANTS
    Writes,          \* the writes requests submit
    TraceIdOf,       \* the trace id of each write
    WriterThreads,   \* max_workers of the pool
    MaxPools         \* bound: pools made, and so shutdowns

ASSUME TraceWritersAssumption ==
    /\ DOMAIN TraceIdOf = Writes
    /\ WriterThreads \in Nat \ {0}
    /\ MaxPools \in Nat \ {0}

VARIABLES
    pools,       \* the executors: their work queue, what runs, whether they are closed
    current,     \* the one new writes are given, 0 when there is none
    writes,      \* where each write has got to, and the pool it was given
    draining,    \* the pool a shutdown is closing, 0 when none is
    traces       \* the stored traces, by trace id: the write that put it, or NoWrite

writerVars == <<pools, current, writes, draining, traces>>

NoWrite == "nothing"
WrittenTraceIds == {TraceIdOf[w] : w \in Writes}
Pools == DOMAIN pools

WritersInit ==
    /\ pools = <<>> /\ current = 0 /\ draining = 0
    /\ writes = [w \in Writes |-> [at |-> "request", pool |-> 0]]
    /\ traces = [t \in WrittenTraceIds |-> NoWrite]

(* _get_trace_persist_executor, under the lock. *)
GetPool(w) ==
    /\ writes[w].at = "request"
    /\ \/ /\ current # 0
          /\ UNCHANGED <<pools, current>>
       \/ /\ current = 0 /\ Len(pools) < MaxPools
          /\ pools' = Append(pools, [queue |-> <<>>, running |-> {}, closed |-> FALSE])
          /\ current' = Len(pools')
    /\ writes' = [writes EXCEPT ![w] = [at |-> "submitting", pool |-> current']]
    /\ UNCHANGED <<draining, traces>>

(* The write itself: a put under the trace's key, best effort. *)
Written(w) ==
    \/ traces' = [traces EXCEPT ![TraceIdOf[w]] = w]
    \/ UNCHANGED traces

(* Definitions whose comment begins with "Fault:" are not part of the       *)
(* specification: each is the definition after it with a plausible mistake. *)

(* Fault: a write that is refused is given up. *)
SubmitOrDrop(w) ==
    /\ writes[w].at = "submitting"
    /\ LET p == writes[w].pool IN
       IF pools[p].closed
       THEN writes' = [writes EXCEPT ![w] = [at |-> "dropped", pool |-> 0]] /\ UNCHANGED <<pools, traces>>
       ELSE /\ writes' = [writes EXCEPT ![w].at = "queued"]
            /\ pools' = [pools EXCEPT ![p].queue = Append(@, w)]
            /\ UNCHANGED traces
    /\ UNCHANGED <<current, draining>>

(* submit: a pool that was closed in between refuses, and the write is done *)
(* by the request's own thread.                                             *)
Submit(w) ==
    /\ writes[w].at = "submitting"
    /\ LET p == writes[w].pool IN
       IF pools[p].closed
       THEN writes' = [writes EXCEPT ![w] = [at |-> "done", pool |-> 0]] /\ Written(w) /\ UNCHANGED pools
       ELSE /\ writes' = [writes EXCEPT ![w].at = "queued"]
            /\ pools' = [pools EXCEPT ![p].queue = Append(@, w)]
            /\ UNCHANGED traces
    /\ UNCHANGED <<current, draining>>

TakeWrite(p) ==
    /\ pools[p].queue # <<>> /\ Cardinality(pools[p].running) < WriterThreads
    /\ pools' = [pools EXCEPT ![p].queue = Tail(@), ![p].running = @ \cup {Head(pools[p].queue)}]
    /\ UNCHANGED <<current, writes, draining, traces>>

FinishWrite(p) ==
    \E w \in pools[p].running :
        /\ Written(w)
        /\ writes' = [writes EXCEPT ![w] = [at |-> "done", pool |-> 0]]
        /\ pools' = [pools EXCEPT ![p].running = @ \ {w}]
        /\ UNCHANGED <<current, draining>>

(* shutdown_trace_persist_executor: the pool is taken away under the lock,  *)
(* then closed, and what it was given is waited for.                        *)
TakePoolAway ==
    /\ current # 0 /\ draining = 0
    /\ draining' = current /\ current' = 0
    /\ UNCHANGED <<pools, writes, traces>>

ClosePool ==
    /\ draining # 0 /\ ~pools[draining].closed
    /\ pools' = [pools EXCEPT ![draining].closed = TRUE]
    /\ UNCHANGED <<current, writes, draining, traces>>

Drained(p) == pools[p].queue = <<>> /\ pools[p].running = {}

ShutdownReturns ==
    /\ draining # 0 /\ pools[draining].closed /\ Drained(draining)
    /\ draining' = 0
    /\ UNCHANGED <<pools, current, writes, traces>>

WriterThread == \E p \in Pools : TakeWrite(p) \/ FinishWrite(p)
PoolShutdown == TakePoolAway \/ ClosePool \/ ShutdownReturns

------------------------------------------------------------------------------
(* Properties.                                                             *)

WritersTypeOK ==
    /\ pools \in Seq([queue : Seq(Writes), running : SUBSET Writes, closed : BOOLEAN])
    /\ current \in {0} \cup Pools /\ draining \in {0} \cup Pools
    /\ writes \in [Writes -> [at : {"request", "submitting", "queued", "done"},
                              pool : {0} \cup Pools]]
    /\ traces \in [WrittenTraceIds -> Writes \cup {NoWrite}]

(* "fall back to an inline best-effort write so the trace is not lost":     *)
(* whenever a shutdown interrupts it, a write that was submitted is done    *)
(* or is held by exactly one pool that will do it, and once a shutdown has  *)
(* returned the pool it closed holds none.                                  *)
NoWriteIsLost ==
    /\ \A w \in Writes :
          Cardinality({p \in Pools : w \in ToSet(pools[p].queue) \cup pools[p].running})
              = IF writes[w].at \in {"request", "submitting", "done"} THEN 0 ELSE 1
    /\ \A p \in Pools : pools[p].closed /\ p # draining => Drained(p)
================================================================================
