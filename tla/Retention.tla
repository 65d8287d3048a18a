------------------------------- MODULE Retention -------------------------------
(***************************************************************************)
(* The retention scheduler and enforce_retention of the trace and the log  *)
(* store: one set-based delete, and when it fails the expired rows one by  *)
(* one, each in its own transaction, while rows keep being written.        *)
(***************************************************************************)
EXTENDS Integers, FiniteSetsExt

CONSTANTS
    TraceRowIds, LogRowIds,  \* rows, ordered by id
    TraceAge, LogAge,        \* retention periods; NoAge: not configured
    NoAge,
    NotListed,               \* the error of a cycle that could not list its rows
    MaxRetentionClock,       \* bound: the wall clock
    MaxRetentionFaults       \* bound: statements the database refuses

ASSUME RetentionAssumption ==
    /\ TraceRowIds \cup LogRowIds \subseteq Nat
    /\ TraceRowIds \cap LogRowIds = {}
    /\ TraceAge \in Nat \cup {NoAge} /\ LogAge \in Nat \cup {NoAge}
    /\ NoAge \notin Nat
    /\ MaxRetentionClock \in Nat /\ MaxRetentionFaults \in Nat

RetainedRows == TraceRowIds \cup LogRowIds

VARIABLES
    startedAt,       \* start_ts or ts of the rows that are stored
    poisoned,        \* rows no delete succeeds on
    sweep,           \* the cycle: its step, the store it is at, cutoff and rows left
    retentionErrors, \* retention_errors of the store swept last
    retentionClock,
    retentionFaults

retentionVars == <<startedAt, poisoned, sweep, retentionErrors, retentionClock, retentionFaults>>

StoredRows == DOMAIN startedAt
RowsOf(store) == IF store = "traces" THEN TraceRowIds ELSE LogRowIds
AgeOf(store) == IF store = "traces" THEN TraceAge ELSE LogAge
AtStep(step, store) == [step |-> step, store |-> store, cutoff |-> 0, left |-> {}]
(* The trace store is swept first, then the log store, then the thread waits. *)
NextStore(store) == IF store = "traces" THEN AtStep("begin", "logs") ELSE AtStep("wait", "traces")

RetentionInit ==
    /\ startedAt = [r \in {} |-> 0]
    /\ poisoned \in SUBSET RetainedRows
    /\ sweep = AtStep("wait", "traces")
    /\ retentionErrors = {}
    /\ retentionClock = 0
    /\ retentionFaults = 0

(* A flush writes a row, or writes a trace's row again with another start. *)
WriteRow ==
    /\ \E r \in RetainedRows :
          /\ r \in LogRowIds => r \notin StoredRows
          /\ startedAt' = [q \in StoredRows \cup {r} |->
                              IF q = r THEN retentionClock ELSE startedAt[q]]
    /\ UNCHANGED <<poisoned, sweep, retentionErrors, retentionClock, retentionFaults>>

RetentionTick ==
    /\ retentionClock < MaxRetentionClock
    /\ retentionClock' = retentionClock + 1
    /\ UNCHANGED <<startedAt, poisoned, sweep, retentionErrors, retentionFaults>>

DatabaseRefuses == retentionFaults < MaxRetentionFaults /\ retentionFaults' = retentionFaults + 1

Without(rows) == startedAt' = [r \in StoredRows \ rows |-> startedAt[r]]

WakeUp ==
    /\ sweep.step = "wait"
    /\ sweep' = AtStep("begin", "traces")
    /\ UNCHANGED <<startedAt, poisoned, retentionErrors, retentionClock, retentionFaults>>

(* enforce_retention: without a period nothing is done. *)
BeginSweep ==
    LET store == sweep.store IN
    /\ sweep.step = "begin"
    /\ IF AgeOf(store) = NoAge
       THEN sweep' = NextStore(store) /\ UNCHANGED retentionErrors
       ELSE /\ sweep' = [AtStep("bulk", store) EXCEPT !.cutoff = retentionClock - AgeOf(store)]
            /\ retentionErrors' = {}
    /\ UNCHANGED <<startedAt, poisoned, retentionClock, retentionFaults>>

(* Rows strictly older than the cutoff. *)
ExpiredRows(store, cutoff) == {r \in StoredRows \cap RowsOf(store) : startedAt[r] < cutoff}

(* One statement for all of them: one row that cannot go keeps them all. *)
BulkDelete ==
    LET expired == ExpiredRows(sweep.store, sweep.cutoff) IN
    /\ sweep.step = "bulk"
    /\ \/ /\ expired \cap poisoned = {}
          /\ Without(expired)
          /\ sweep' = NextStore(sweep.store)
          /\ UNCHANGED retentionFaults
       \/ /\ IF expired \cap poisoned # {} THEN UNCHANGED retentionFaults ELSE DatabaseRefuses
          /\ sweep' = [sweep EXCEPT !.step = "list"]
          /\ UNCHANGED startedAt
    /\ UNCHANGED <<poisoned, retentionErrors, retentionClock>>

ListExpired ==
    /\ sweep.step = "list"
    /\ \/ /\ sweep' = [sweep EXCEPT !.step = "rows",
                                    !.left = ExpiredRows(sweep.store, sweep.cutoff)]
          /\ UNCHANGED <<retentionErrors, retentionFaults>>
       \/ /\ DatabaseRefuses
          /\ retentionErrors' = retentionErrors \cup {NotListed}
          /\ sweep' = NextStore(sweep.store)
    /\ UNCHANGED <<startedAt, poisoned, retentionClock>>

(* Definitions whose comment begins with "Fault:" are not part of the       *)
(* specification: each is the definition after it with a plausible mistake. *)

(* Fault: a row that cannot be deleted ends the cycle. *)
AfterFailedRow(r) == NextStore(sweep.store)

(* The cycle goes on after a row, whether or not it could be deleted. *)
AfterRow(r) == [sweep EXCEPT !.left = @ \ {r}]

DeleteRow ==
    /\ sweep.step = "rows" /\ sweep.left # {}
    /\ LET r == Min(sweep.left) IN
       \/ /\ r \notin poisoned
          /\ Without({r})
          /\ sweep' = [sweep EXCEPT !.left = @ \ {r}]
          /\ UNCHANGED <<retentionErrors, retentionFaults>>
       \/ /\ IF r \in poisoned THEN UNCHANGED retentionFaults ELSE DatabaseRefuses
          /\ retentionErrors' = retentionErrors \cup {r}
          /\ sweep' = AfterRow(r)
          /\ UNCHANGED startedAt
    /\ UNCHANGED <<poisoned, retentionClock>>

RowsDone ==
    /\ sweep.step = "rows" /\ sweep.left = {}
    /\ sweep' = NextStore(sweep.store)
    /\ UNCHANGED <<startedAt, poisoned, retentionErrors, retentionClock, retentionFaults>>

SweepStep == WakeUp \/ BeginSweep \/ BulkDelete \/ ListExpired \/ DeleteRow \/ RowsDone

RetentionNext == WriteRow \/ RetentionTick \/ SweepStep

RetentionSpec == RetentionInit /\ [][RetentionNext]_retentionVars /\ WF_retentionVars(SweepStep)

------------------------------------------------------------------------------
(* Properties.                                                             *)

RetentionTypeOK ==
    /\ StoredRows \subseteq RetainedRows
    /\ \A r \in StoredRows : startedAt[r] \in 0..MaxRetentionClock
    /\ poisoned \subseteq RetainedRows
    /\ sweep \in [step : {"wait", "begin", "bulk", "list", "rows"}, store : {"traces", "logs"},
                  cutoff : Int, left : SUBSET RetainedRows]
    /\ retentionErrors \subseteq RetainedRows \cup {NotListed}
    /\ retentionClock \in 0..MaxRetentionClock
    /\ retentionFaults \in 0..MaxRetentionFaults

TooOld(r) ==
    \E store \in {"traces", "logs"} :
        /\ r \in RowsOf(store) /\ AgeOf(store) # NoAge
        /\ r \in ExpiredRows(store, retentionClock - AgeOf(store))

(* Every row past its period goes in the end, whichever other rows cannot   *)
(* be deleted and whichever statements fail; a row written again is young.  *)
OldRowsGo == \A r \in RetainedRows : (TooOld(r) /\ r \notin poisoned) ~> ~TooOld(r)
================================================================================
