------------------------------ MODULE RecordStore ------------------------------
(***************************************************************************)
(* How one record.json is really written and read: threads of several      *)
(* processes run the compare-and-set loop of _persist_record against the   *)
(* object's generation, a send may fail or lose its reply and is retried,  *)
(* and every process keeps the record in a dictionary its threads share.   *)
(* DocumentLifecycle takes all of this as one step.                        *)
(***************************************************************************)
EXTENDS Naturals

CONSTANTS
    Versions,      \* content hashes
    NoVersion,     \* None
    Statuses,      \* the statuses the callers write
    Threads,       \* threads of all processes
    Processes,
    Host,          \* the process of each thread
    MaxAttempts,   \* _MAX_RECORD_CAS_ATTEMPTS
    MaxSaves,      \* bound: calls of _save_document_record
    MaxFaults      \* bound: failed sends and restarts

ASSUME RecordStoreAssumption ==
    /\ NoVersion \notin Versions
    /\ Statuses \subseteq {"queued", "parsing", "chunking", "embedding",
                           "indexed", "failed", "deleted"}
    /\ Host \in [Threads -> Processes]
    /\ MaxAttempts \in Nat \ {0}
    /\ MaxSaves \in Nat
    /\ MaxFaults \in Nat

VARIABLES
    stored,      \* documents/<id>/record.json
    generation,  \* the object's generation, 0 while it does not exist
    cache,       \* RagService._documents in each process
    threads,     \* the call each thread is in
    committed,   \* every record that was ever stored
    saves,       \* calls of _save_document_record so far
    faults       \* faults so far

vars == <<stored, generation, cache, threads, committed, saves, faults>>

Records == [status : Statuses, version : Versions]
Absent == [status |-> "absent", version |-> NoVersion]
Terminal == {"indexed", "failed", "deleted"}

Idle == [pc |-> "idle", new |-> Absent, seen |-> Absent, seenGeneration |-> 0,
         attempts |-> 0, since |-> 0]

Goes(t, next) == threads' = [threads EXCEPT ![t].pc = next]
Ends(t) == threads' = [threads EXCEPT ![t] = Idle]

Fault == faults < MaxFaults /\ faults' = faults + 1

Init ==
    /\ stored = Absent
    /\ generation = 0
    /\ cache = [p \in Processes |-> Absent]
    /\ threads = [t \in Threads |-> Idle]
    /\ committed = {}
    /\ saves = 0
    /\ faults = 0

------------------------------------------------------------------------------
(* _save_document_record.                                                  *)

(* An upload queues a fresh record, every other caller writes a changed     *)
(* copy of a record that exists.                                            *)
Save(t, new) ==
    /\ threads[t].pc = "idle"
    /\ stored # Absent \/ new.status = "queued"
    /\ saves < MaxSaves
    /\ saves' = saves + 1
    /\ threads' = [threads EXCEPT ![t] =
           [pc |-> "load", new |-> new, seen |-> Absent, seenGeneration |-> 0,
            attempts |-> 0, since |-> generation]]
    /\ UNCHANGED <<stored, generation, cache, committed, faults>>

Rejects(new, current) ==
    /\ current # Absent
    /\ \/ new.status # "deleted" /\ current.status = "deleted"
       \/ new.status \notin {"queued", "deleted"} /\ new.version # current.version

Loaded(t) ==
    [threads[t] EXCEPT !.pc = "put", !.seen = stored, !.seenGeneration = generation]

(* Definitions whose comment begins with "Fault:" are not part of the       *)
(* specification: each is the definition after it with a plausible mistake. *)

(* Fault: a refused record is cached all the same. *)
LoadCachingRefused(t) ==
    /\ threads[t].pc = "load"
    /\ IF threads[t].attempts = MaxAttempts
       THEN Ends(t)
       ELSE IF Rejects(threads[t].new, stored)
       THEN Goes(t, "fill")
       ELSE threads' = [threads EXCEPT ![t] = Loaded(t)]
    /\ UNCHANGED <<stored, generation, cache, committed, saves, faults>>

(* One turn of the loop reads the record with its generation and checks the *)
(* write against it; the last failed turn raises. The code reads the        *)
(* generation first and the content after it, here one step: a write that   *)
(* comes between the two requests leaves the turn with an old generation,   *)
(* so that its write conflicts as if both had been read before; or the      *)
(* newer content refuses the write, as if both had been read after it; or   *)
(* the second request raises, as a send does that uses up its retries.      *)
Load(t) ==
    /\ threads[t].pc = "load"
    /\ IF threads[t].attempts = MaxAttempts \/ Rejects(threads[t].new, stored)
       THEN Ends(t)
       ELSE threads' = [threads EXCEPT ![t] = Loaded(t)]
    /\ UNCHANGED <<stored, generation, cache, committed, saves, faults>>

Commits(new) ==
    /\ stored' = new
    /\ generation' = generation + 1
    /\ committed' = committed \cup {new}

Overtaken(t) == [threads[t] EXCEPT !.pc = "load", !.attempts = @ + 1]
Conflicts(t) == threads' = [threads EXCEPT ![t] = Overtaken(t)]

(* Fault: the write is not conditional. *)
PutUnconditional(t) ==
    /\ threads[t].pc = "put"
    /\ Commits(threads[t].new)
    /\ Goes(t, "fill")
    /\ UNCHANGED <<cache, saves, faults>>

(* Fault: a failed precondition is taken for a transient error. *)
PutRetryingConflicts(t) ==
    /\ threads[t].pc = "put"
    /\ \/ /\ generation = threads[t].seenGeneration
          /\ Commits(threads[t].new)
          /\ Goes(t, "fill")
       \/ /\ generation # threads[t].seenGeneration
          /\ UNCHANGED <<stored, generation, committed, threads>>
    /\ UNCHANGED <<cache, saves, faults>>

(* The conditional write: a generation that moved fails the precondition,   *)
(* which is never retried as it is but costs one turn of the loop.          *)
Put(t) ==
    /\ threads[t].pc = "put"
    /\ \/ /\ generation = threads[t].seenGeneration
          /\ Commits(threads[t].new)
          /\ Goes(t, "fill")
       \/ /\ generation # threads[t].seenGeneration
          /\ Conflicts(t)
          /\ UNCHANGED <<stored, generation, committed>>
    /\ UNCHANGED <<cache, saves, faults>>

(* Fault: a send that failed costs a turn of the loop, as a conflict does. *)
SendFailsAsConflict(t) ==
    /\ threads[t].pc = "put"
    /\ Fault
    /\ Conflicts(t)
    /\ UNCHANGED <<stored, generation, cache, committed, saves>>

(* A send fails, or its reply is lost: the write is sent again, the same    *)
(* generation demanded, or the retries are used up and the error raised.    *)
SendFails(t) ==
    /\ threads[t].pc = "put"
    /\ Fault
    /\ \/ UNCHANGED <<stored, generation, committed>>
       \/ generation = threads[t].seenGeneration /\ Commits(threads[t].new)
    /\ Goes(t, "put") \/ Ends(t)
    /\ UNCHANGED <<cache, saves>>

------------------------------------------------------------------------------
(* get_document, and the cache both share.                                 *)

(* A terminal record is served from the cache, any other read anew. *)
GetDocument(t) ==
    /\ threads[t].pc = "idle"
    /\ threads' = IF cache[Host[t]].status \in Terminal THEN threads
                  ELSE [threads EXCEPT ![t] = [Idle EXCEPT !.pc = "read"]]
    /\ UNCHANGED <<stored, generation, cache, committed, saves, faults>>

ReadStored(t) ==
    /\ threads[t].pc = "read"
    /\ IF stored = Absent
       THEN Ends(t)
       ELSE threads' = [threads EXCEPT ![t] = [@ EXCEPT !.pc = "fill", !.new = stored]]
    /\ UNCHANGED <<stored, generation, cache, committed, saves, faults>>

(* The record saved, or read, goes into the process's dictionary. *)
FillCache(t) ==
    /\ threads[t].pc = "fill"
    /\ cache' = [cache EXCEPT ![Host[t]] = threads[t].new]
    /\ Ends(t)
    /\ UNCHANGED <<stored, generation, committed, saves, faults>>

Restart(p) ==
    /\ Fault
    /\ cache' = [cache EXCEPT ![p] = Absent]
    /\ threads' = [t \in Threads |-> IF Host[t] = p THEN Idle ELSE threads[t]]
    /\ UNCHANGED <<stored, generation, committed, saves>>

Step(t) == Load(t) \/ Put(t) \/ ReadStored(t) \/ FillCache(t)

Next ==
    \/ \E t \in Threads :
          \/ \E new \in Records : Save(t, new)
          \/ GetDocument(t)
          \/ Step(t)
          \/ SendFails(t)
    \/ \E p \in Processes : Restart(p)

Spec == Init /\ [][Next]_vars

(* A thread in a call keeps running; nobody has to call. *)
FairSpec == Spec /\ \A t \in Threads : WF_vars(Step(t))

------------------------------------------------------------------------------

Pcs == {"idle", "load", "put", "fill", "read"}
Stored == Records \cup {Absent}
Call == [pc : Pcs, new : Stored, seen : Stored, seenGeneration : Nat,
         attempts : 0 .. MaxAttempts, since : Nat]

(* Every variable has its type; no call takes more turns than it may, and   *)
(* what a call is about to write or to cache is a record.                   *)
RecordTypeOK ==
    /\ stored \in Stored
    /\ generation \in Nat
    /\ cache \in [Processes -> Stored]
    /\ threads \in [Threads -> Call]
    /\ \A t \in Threads :
          /\ threads[t].pc \in {"load", "put", "fill"} => threads[t].new \in Records
          /\ threads[t].pc = "put" => threads[t].attempts < MaxAttempts
    /\ committed \subseteq Records
    /\ saves \in 0 .. MaxSaves
    /\ faults \in 0 .. MaxFaults

(* "Only cache after a successful persist so a rejected resurrection never  *)
(* poisons the in-memory view with a status the store refused": whatever    *)
(* the sends and the interleaving, every cached record once was the stored  *)
(* one (_save_document_record, get_document).                               *)
CacheWasCommitted == \A p \in Processes : cache[p] \in committed \cup {Absent}

(* The loop of _persist_record gives up only on a record that is contended: *)
(* each failed turn stands for a write that landed after the call began, so *)
(* transient errors never use the turns up.                                 *)
ConflictsAreWrites ==
    \A t \in Threads : threads[t].since + threads[t].attempts <= generation

Contract == INSTANCE RecordContract

(* Every write that lands is legal for the record it replaces, not only for *)
(* the one its thread had read (_persist_record, put_json_conditional).     *)
ImplementsContract == Contract!Spec

(* Every call returns: conflicts and lost replies cannot keep a thread in   *)
(* the loop (_persist_record's bound, "a 412 must not be retried").         *)
CallsReturn == \A t \in Threads : threads[t].pc # "idle" ~> threads[t].pc = "idle"

(* "Only trust the in-memory cache for records in a TERMINAL state": in the *)
(* only process that writes, once all calls have returned, a terminal       *)
(* record in the cache is the stored one.                                   *)
CacheAgreesAtRest ==
    (\A t \in Threads : threads[t].pc = "idle")
       => \A p \in Processes : cache[p].status \in Terminal => cache[p] = stored
==============================================================================
