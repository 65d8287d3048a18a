--------------------------- MODULE RecordStoreProofs ---------------------------
(***************************************************************************)
(* The compare-and-set loop implements the contract of the stored record.  *)
(* What makes it work is Reads: as long as the generation a thread read is *)
(* still the object's, the record it read is still the stored one, so the  *)
(* check it made then still holds when its conditional write lands.        *)
(***************************************************************************)
EXTENDS RecordStore, TLAPS

USE RecordStoreAssumption

Reads ==
    \A t \in Threads : threads[t].pc = "put" =>
        /\ threads[t].seenGeneration <= generation
        /\ threads[t].seenGeneration = generation
              => threads[t].seen = stored /\ ~Rejects(threads[t].new, stored)

(* What is about to be cached, or is, was stored. *)
Committed ==
    /\ stored \in committed \cup {Absent}
    /\ \A t \in Threads : threads[t].pc = "fill" => threads[t].new \in committed
    /\ CacheWasCommitted

(* The turns a call has lost are paid for before the generation it read. *)
Turns ==
    /\ ConflictsAreWrites
    /\ \A t \in Threads : threads[t].pc = "put" =>
          threads[t].since + threads[t].attempts <= threads[t].seenGeneration

StoreInv == RecordTypeOK /\ Reads /\ Committed /\ Turns

(* No stored record is mistaken for a missing one. *)
LEMMA AbsentIsNoRecord == Absent \notin Records /\ Absent.status = "absent"
  BY DEF Absent, Records

(* The store begins empty and every thread idle. *)
LEMMA InitStore == Init => StoreInv
  BY AbsentIsNoRecord DEF Init, StoreInv, RecordTypeOK, Reads, Committed, Turns, Idle, Stored,
     Pcs, Call, CacheWasCommitted, ConflictsAreWrites

(* A call with its program counter moved, and with another field replaced:  *)
(* the provers need updates of records one field at a time.                 *)
LEMMA WithPc ==
  ASSUME NEW c \in Call, NEW next \in Pcs
  PROVE  [c EXCEPT !.pc = next] =
            [pc |-> next, new |-> c.new, seen |-> c.seen, seenGeneration |-> c.seenGeneration,
             attempts |-> c.attempts, since |-> c.since]
  BY DEF Call

(* A call with what it has read replaced. *)
LEMMA WithSeen ==
  ASSUME NEW c \in Call, NEW seen \in Stored, NEW g \in Nat
  PROVE  [c EXCEPT !.seen = seen, !.seenGeneration = g] =
            [pc |-> c.pc, new |-> c.new, seen |-> seen, seenGeneration |-> g,
             attempts |-> c.attempts, since |-> c.since]
<1> DEFINE d == [c EXCEPT !.seen = seen]
<1>1. d = [pc |-> c.pc, new |-> c.new, seen |-> seen, seenGeneration |-> c.seenGeneration,
           attempts |-> c.attempts, since |-> c.since]
  BY DEF Call
<1>2. [d EXCEPT !.seenGeneration = g] =
         [pc |-> c.pc, new |-> c.new, seen |-> seen, seenGeneration |-> g,
          attempts |-> c.attempts, since |-> c.since]
  <2> HIDE DEF d
  <2> QED BY <1>1 DEF Call
<1> QED BY <1>2

(* The calls a step may leave thread t in, with their fields spelled out. *)
LEMMA Moved ==
  ASSUME RecordTypeOK, NEW t \in Threads, NEW next \in Pcs, Goes(t, next)
  PROVE  /\ threads' \in [Threads -> Call]
         /\ \A u \in Threads : u # t => threads'[u] = threads[u]
         /\ threads'[t].pc = next
         /\ threads'[t].new = threads[t].new
         /\ threads'[t].seen = threads[t].seen
         /\ threads'[t].seenGeneration = threads[t].seenGeneration
         /\ threads'[t].attempts = threads[t].attempts
         /\ threads'[t].since = threads[t].since
<1> DEFINE moved == [threads[t] EXCEPT !.pc = next]
<1>1. /\ moved \in Call /\ moved.pc = next
      /\ moved.new = threads[t].new /\ moved.seen = threads[t].seen
      /\ moved.seenGeneration = threads[t].seenGeneration
      /\ moved.attempts = threads[t].attempts /\ moved.since = threads[t].since
  BY DEF RecordTypeOK, Call
<1>2. threads' = [threads EXCEPT ![t] = moved]
  BY DEF Goes
<1> HIDE DEF moved
<1> QED BY <1>1, <1>2 DEF RecordTypeOK

(* A call that ends leaves an idle thread. *)
LEMMA Ended ==
  ASSUME RecordTypeOK, NEW t \in Threads, Ends(t)
  PROVE  /\ threads' \in [Threads -> Call]
         /\ \A u \in Threads : u # t => threads'[u] = threads[u]
         /\ threads'[t].pc = "idle"
         /\ threads'[t].since = 0
         /\ threads'[t].attempts = 0
<1>1. Idle \in Call /\ Idle.pc = "idle" /\ Idle.since = 0 /\ Idle.attempts = 0
  BY DEF Idle, Call, Pcs, Stored
<1> QED BY <1>1 DEF RecordTypeOK, Ends

(* A call of _save_document_record begins with no turn lost. *)
LEMMA SaveKeeps ==
  ASSUME StoreInv, NEW t \in Threads, NEW new \in Records, Save(t, new)
  PROVE  StoreInv'
<1>1. RecordTypeOK'
  <2> DEFINE started == [pc |-> "load", new |-> new, seen |-> Absent, seenGeneration |-> 0,
                         attempts |-> 0, since |-> generation]
  <2>1. started \in Call /\ started.pc = "load" /\ started.new = new
    BY DEF StoreInv, RecordTypeOK, Stored, Pcs, Call
  <2>2. threads' = [threads EXCEPT ![t] = started]
    BY DEF Save
  <2> HIDE DEF started
  <2> QED BY <2>1, <2>2 DEF StoreInv, RecordTypeOK, Save
<1>2. Reads'
  BY DEF StoreInv, RecordTypeOK, Reads, Save, Idle, Rejects
<1>3. Committed'
  BY DEF StoreInv, RecordTypeOK, Committed, CacheWasCommitted, Save, Idle
<1>4. Turns'
  BY DEF StoreInv, RecordTypeOK, Turns, ConflictsAreWrites, Save, Idle
<1> QED BY <1>1, <1>2, <1>3, <1>4 DEF StoreInv

(* A thread that goes idle, and one that starts to read, owe nothing. *)
LEMMA EndsKeeps ==
  ASSUME StoreInv, NEW t \in Threads, Ends(t),
         UNCHANGED <<stored, generation, cache, committed, saves, faults>>
  PROVE  StoreInv'
<1>1. RecordTypeOK'
  BY DEF StoreInv, RecordTypeOK, Ends, Idle, Stored, Pcs, Call
<1>2. Reads'
  BY DEF StoreInv, RecordTypeOK, Reads, Ends, Idle, Rejects
<1>3. Committed'
  BY DEF StoreInv, RecordTypeOK, Committed, CacheWasCommitted, Ends, Idle
<1>4. Turns'
  BY DEF StoreInv, RecordTypeOK, Turns, ConflictsAreWrites, Ends, Idle
<1> QED BY <1>1, <1>2, <1>3, <1>4 DEF StoreInv

(* A turn of the loop reads, and is refused or goes on to its write. *)
LEMMA LoadKeeps ==
  ASSUME StoreInv, NEW t \in Threads, Load(t)
  PROVE  StoreInv'
<1>1. CASE Ends(t)
  BY <1>1, EndsKeeps DEF Load
<1>2. CASE threads[t].attempts # MaxAttempts /\ ~Rejects(threads[t].new, stored) /\
           threads' = [threads EXCEPT ![t] = Loaded(t)]
  <2>1. /\ Loaded(t) \in Call /\ Loaded(t).pc = "put"
        /\ Loaded(t).new = threads[t].new /\ Loaded(t).new \in Records
        /\ Loaded(t).seen = stored /\ Loaded(t).seenGeneration = generation
        /\ Loaded(t).attempts = threads[t].attempts /\ Loaded(t).attempts < MaxAttempts
        /\ Loaded(t).since = threads[t].since
    <3>1. /\ threads[t] \in Call /\ threads[t].new \in Records
          /\ threads[t].attempts \in 0 .. MaxAttempts
          /\ stored \in Stored /\ generation \in Nat
      BY DEF StoreInv, RecordTypeOK, Load, Call
    <3>2. threads[t].attempts < MaxAttempts
      BY <1>2, <3>1
    <3>3. Loaded(t) = [pc |-> "put", new |-> threads[t].new, seen |-> stored,
                       seenGeneration |-> generation, attempts |-> threads[t].attempts,
                       since |-> threads[t].since]
      <4> DEFINE put == [threads[t] EXCEPT !.pc = "put"]
      <4>1. put = [pc |-> "put", new |-> threads[t].new, seen |-> threads[t].seen,
                   seenGeneration |-> threads[t].seenGeneration,
                   attempts |-> threads[t].attempts, since |-> threads[t].since]
        BY <3>1, WithPc DEF Pcs
      <4>2. Loaded(t) = [put EXCEPT !.seen = stored, !.seenGeneration = generation]
        BY DEF Loaded
      <4> HIDE DEF put
      <4>3. put \in Call
        BY <3>1, <4>1 DEF Call, Pcs
      <4>4. Loaded(t) = [pc |-> put.pc, new |-> put.new, seen |-> stored,
                         seenGeneration |-> generation, attempts |-> put.attempts,
                         since |-> put.since]
        BY <3>1, <4>2, <4>3, WithSeen
      <4> QED BY <4>1, <4>4
    <3> QED BY <3>1, <3>2, <3>3 DEF Call, Pcs
  <2>5. RecordTypeOK'
    BY <1>2, <2>1 DEF StoreInv, RecordTypeOK, Load
  <2>2. Reads'
    BY <1>2, <2>1 DEF StoreInv, RecordTypeOK, Reads, Load, Rejects
  <2>3. Committed'
    BY <1>2, <2>1 DEF StoreInv, RecordTypeOK, Committed, CacheWasCommitted, Load
  <2>4. Turns'
    BY <1>2, <2>1 DEF StoreInv, RecordTypeOK, Turns, ConflictsAreWrites, Load, Call
  <2> QED BY <2>2, <2>3, <2>4, <2>5 DEF StoreInv
<1> QED BY <1>1, <1>2 DEF Load

(* A write that lands is legal for the record it replaces, and outdates     *)
(* what every other thread has read.                                        *)
LEMMA CommitKeeps ==
  ASSUME StoreInv, NEW t \in Threads, threads[t].pc = "put",
         generation = threads[t].seenGeneration, Commits(threads[t].new),
         Goes(t, "fill") \/ Goes(t, "put") \/ Ends(t),
         faults' \in 0 .. MaxFaults, UNCHANGED <<cache, saves>>
  PROVE  /\ StoreInv'
         /\ ~Rejects(threads[t].new, stored)
         /\ threads[t].new \in Records
<1>1. /\ threads[t].new \in Records
      /\ ~Rejects(threads[t].new, stored)
      /\ threads[t].since + threads[t].attempts <= generation
  BY DEF StoreInv, RecordTypeOK, Reads, Turns, ConflictsAreWrites
<1>2. /\ threads' \in [Threads -> Call]
      /\ \A u \in Threads : u # t => threads'[u] = threads[u]
      /\ threads'[t].pc \in {"fill", "put"} =>
            /\ threads'[t].new = threads[t].new
            /\ threads'[t].seenGeneration = threads[t].seenGeneration
            /\ threads'[t].attempts = threads[t].attempts
            /\ threads'[t].since = threads[t].since
      /\ threads'[t].pc \in {"fill", "put", "idle"}
      /\ threads'[t].since + threads'[t].attempts <= generation
  <2>1. CASE Ends(t)
    BY <2>1, Ended DEF StoreInv, RecordTypeOK
  <2>2. CASE Goes(t, "fill") \/ Goes(t, "put")
    BY <2>2, <1>1, Moved DEF StoreInv, Pcs
  <2> QED BY <2>1, <2>2
<1>3. stored' \in Records /\ generation' = generation + 1
      /\ committed' = committed \cup {threads[t].new} /\ stored' = threads[t].new
  BY <1>1 DEF Commits
<1>4. RecordTypeOK'
  BY <1>1, <1>2, <1>3 DEF StoreInv, RecordTypeOK, Stored
<1>5. Reads'
  BY <1>2, <1>3 DEF StoreInv, RecordTypeOK, Reads, Call
<1>6. Committed'
  BY <1>2, <1>3 DEF StoreInv, RecordTypeOK, Committed, CacheWasCommitted
<1>7. Turns'
  BY <1>1, <1>2, <1>3 DEF StoreInv, RecordTypeOK, Turns, ConflictsAreWrites, Call
<1> QED BY <1>1, <1>4, <1>5, <1>6, <1>7 DEF StoreInv

(* The conditional write lands, or costs the turn. *)
LEMMA PutKeeps ==
  ASSUME StoreInv, NEW t \in Threads, Put(t)
  PROVE  StoreInv'
<1>1. CASE generation = threads[t].seenGeneration /\ Commits(threads[t].new) /\ Goes(t, "fill")
  <2>1. faults' \in 0 .. MaxFaults
    BY DEF Put, StoreInv, RecordTypeOK
  <2> QED BY <1>1, <2>1, CommitKeeps DEF Put
<1>2. CASE generation # threads[t].seenGeneration /\ Conflicts(t) /\
           UNCHANGED <<stored, generation, committed>>
  <2>1. /\ threads[t].seenGeneration < generation
        /\ threads[t].since + threads[t].attempts <= threads[t].seenGeneration
    BY <1>2 DEF StoreInv, RecordTypeOK, Reads, Turns, Put, Call
  <2> DEFINE again == Overtaken(t)
  <2>2. /\ again \in Call /\ again.pc = "load"
        /\ again.new = threads[t].new /\ again.new \in Records
        /\ again.since = threads[t].since /\ again.attempts = threads[t].attempts + 1
    <3>1. /\ threads[t] \in Call /\ threads[t].new \in Records
          /\ threads[t].attempts \in Nat /\ threads[t].attempts < MaxAttempts
      BY DEF StoreInv, RecordTypeOK, Put, Call
    <3>2. again = [pc |-> "load", new |-> threads[t].new, seen |-> threads[t].seen,
                   seenGeneration |-> threads[t].seenGeneration,
                   attempts |-> threads[t].attempts + 1, since |-> threads[t].since]
      <4> DEFINE load == [threads[t] EXCEPT !.pc = "load"]
      <4>1. load = [pc |-> "load", new |-> threads[t].new, seen |-> threads[t].seen,
                    seenGeneration |-> threads[t].seenGeneration,
                    attempts |-> threads[t].attempts, since |-> threads[t].since]
        BY <3>1, WithPc DEF Pcs
      <4>2. again = [load EXCEPT !.attempts = @ + 1]
        BY DEF Overtaken
      <4> HIDE DEF load, again
      <4> QED BY <4>1, <4>2
    <3> HIDE DEF again
    <3> QED BY <3>1, <3>2 DEF Call, Pcs
  <2>3. threads' = [threads EXCEPT ![t] = again]
    BY <1>2 DEF Conflicts
  <2> HIDE DEF again
  <2>4. RecordTypeOK'
    BY <1>2, <2>2, <2>3 DEF StoreInv, RecordTypeOK, Put
  <2>5. Reads'
    BY <1>2, <2>2, <2>3 DEF StoreInv, RecordTypeOK, Reads, Put, Rejects
  <2>6. Committed'
    BY <1>2, <2>2, <2>3 DEF StoreInv, RecordTypeOK, Committed, CacheWasCommitted, Put
  <2>7. Turns'
    BY <1>2, <2>1, <2>2, <2>3 DEF StoreInv, RecordTypeOK, Turns, ConflictsAreWrites, Put, Call
  <2> QED BY <2>4, <2>5, <2>6, <2>7 DEF StoreInv
<1> QED BY <1>1, <1>2 DEF Put

(* A failed send changes nothing, or lands as a write does. *)
LEMMA SendKeeps ==
  ASSUME StoreInv, NEW t \in Threads, SendFails(t)
  PROVE  StoreInv'
<1>1. faults' \in 0 .. MaxFaults
  BY DEF SendFails, Fault, StoreInv, RecordTypeOK
<1>2. CASE UNCHANGED <<stored, generation, committed>>
  <2>1. /\ threads' \in [Threads -> Call]
        /\ \A u \in Threads : u # t => threads'[u] = threads[u]
        /\ threads'[t].pc = "put" => threads'[t] = threads[t]
        /\ threads'[t].pc \in {"put", "idle"}
        /\ threads'[t].since + threads'[t].attempts <= generation
    <3>1. CASE Ends(t)
      BY <3>1, Ended DEF StoreInv, RecordTypeOK
    <3>2. CASE Goes(t, "put")
      <4>1. threads' \in [Threads -> Call] /\ threads[t] \in Call
        BY <3>2, Moved DEF StoreInv, RecordTypeOK, Pcs
      <4>2. threads'[t] = threads[t]
        BY <3>2, <4>1, Moved DEF StoreInv, SendFails, Pcs, Call
      <4> QED BY <3>2, <4>1, <4>2, Moved DEF StoreInv, SendFails, Turns, ConflictsAreWrites, Pcs
    <3> QED BY <3>1, <3>2 DEF SendFails
  <2>2. RecordTypeOK'
    BY <1>1, <1>2, <2>1 DEF StoreInv, RecordTypeOK, SendFails
  <2>3. Reads'
    BY <1>2, <2>1 DEF StoreInv, Reads, SendFails, Rejects
  <2>4. Committed'
    BY <1>2, <2>1 DEF StoreInv, Committed, CacheWasCommitted, SendFails
  <2>5. Turns'
    BY <1>2, <2>1 DEF StoreInv, Turns, ConflictsAreWrites, SendFails
  <2> QED BY <2>2, <2>3, <2>4, <2>5 DEF StoreInv
<1>3. CASE generation = threads[t].seenGeneration /\ Commits(threads[t].new)
  BY <1>1, <1>3, CommitKeeps DEF SendFails
<1> QED BY <1>2, <1>3 DEF SendFails

(* get_document serves the cache or goes to the store. *)
LEMMA GetKeeps ==
  ASSUME StoreInv, NEW t \in Threads, GetDocument(t)
  PROVE  StoreInv'
<1>1. CASE threads' = threads
  BY <1>1 DEF GetDocument, StoreInv, RecordTypeOK, Reads, Committed, Turns, CacheWasCommitted,
     ConflictsAreWrites, Rejects
<1>2. CASE threads' = [threads EXCEPT ![t] = [Idle EXCEPT !.pc = "read"]]
  <2> DEFINE reading == [Idle EXCEPT !.pc = "read"]
  <2>1. reading \in Call /\ reading.pc = "read" /\ reading.since = 0 /\ reading.attempts = 0
    BY DEF Idle, Call, Pcs, Stored
  <2>6. threads' = [threads EXCEPT ![t] = reading]
    BY <1>2
  <2> HIDE DEF reading
  <2>2. RecordTypeOK'
    BY <2>1, <2>6 DEF StoreInv, RecordTypeOK, GetDocument
  <2>3. Reads'
    BY <2>1, <2>6 DEF StoreInv, RecordTypeOK, Reads, GetDocument, Rejects
  <2>4. Committed'
    BY <2>1, <2>6 DEF StoreInv, RecordTypeOK, Committed, CacheWasCommitted, GetDocument
  <2>7. /\ threads'[t] = reading
        /\ \A u \in Threads : u # t => threads'[u] = threads[u]
        /\ generation' = generation /\ generation \in Nat
    BY <2>6 DEF StoreInv, RecordTypeOK, GetDocument
  <2>5. Turns'
    BY <2>1, <2>7 DEF StoreInv, Turns, ConflictsAreWrites
  <2> QED BY <2>2, <2>3, <2>4, <2>5 DEF StoreInv
<1> QED BY <1>1, <1>2 DEF GetDocument

(* What get_document is about to cache was just stored. *)
LEMMA ReadKeeps ==
  ASSUME StoreInv, NEW t \in Threads, ReadStored(t)
  PROVE  StoreInv'
<1>1. CASE Ends(t)
  BY <1>1, EndsKeeps DEF ReadStored
<1>2. CASE stored # Absent /\
           threads' = [threads EXCEPT ![t] = [threads[t] EXCEPT !.pc = "fill", !.new = stored]]
  <2> DEFINE filling == [threads[t] EXCEPT !.pc = "fill", !.new = stored]
  <2>1. stored \in Records /\ stored \in committed
    BY <1>2 DEF StoreInv, RecordTypeOK, Committed, Stored
  <2>2. threads[t] \in Call
    BY DEF StoreInv, RecordTypeOK
  <2>3. /\ filling \in Call /\ filling.pc = "fill" /\ filling.new = stored
        /\ filling.since = threads[t].since /\ filling.attempts = threads[t].attempts
    BY <2>1, <2>2 DEF Call, Pcs, Stored
  <2>8. threads' = [threads EXCEPT ![t] = filling]
    BY <1>2
  <2> HIDE DEF filling
  <2>4. RecordTypeOK'
    BY <2>1, <2>3, <2>8 DEF StoreInv, RecordTypeOK, ReadStored
  <2>5. Reads'
    BY <2>3, <2>8 DEF StoreInv, RecordTypeOK, Reads, ReadStored, Rejects
  <2>6. Committed'
    BY <2>1, <2>3, <2>8 DEF StoreInv, RecordTypeOK, Committed, CacheWasCommitted, ReadStored
  <2>7. Turns'
    BY <2>3, <2>8 DEF StoreInv, RecordTypeOK, Turns, ConflictsAreWrites, ReadStored
  <2> QED BY <2>4, <2>5, <2>6, <2>7 DEF StoreInv
<1> QED BY <1>1, <1>2 DEF ReadStored

(* Filling the cache ends the call. *)
LEMMA FillKeeps ==
  ASSUME StoreInv, NEW t \in Threads, FillCache(t)
  PROVE  StoreInv'
<1>1. /\ threads' \in [Threads -> Call]
      /\ \A u \in Threads : u # t => threads'[u] = threads[u]
      /\ threads'[t].pc = "idle" /\ threads'[t].since = 0 /\ threads'[t].attempts = 0
  BY Ended DEF FillCache, StoreInv
<1>2. /\ cache' \in [Processes -> Stored]
      /\ \A p \in Processes : cache'[p] = cache[p] \/ cache'[p] = threads[t].new
  BY DEF FillCache, StoreInv, RecordTypeOK, Stored
<1>3. RecordTypeOK'
  BY <1>1, <1>2 DEF StoreInv, RecordTypeOK, FillCache
<1>4. Reads'
  BY <1>1 DEF StoreInv, Reads, FillCache, Rejects
<1>5. Committed'
  BY <1>1, <1>2 DEF StoreInv, Committed, CacheWasCommitted, FillCache
<1>6. Turns'
  BY <1>1 DEF StoreInv, RecordTypeOK, Turns, ConflictsAreWrites, FillCache
<1> QED BY <1>3, <1>4, <1>5, <1>6 DEF StoreInv

(* A restart idles the process's threads and empties its cache. *)
LEMMA RestartKeeps ==
  ASSUME StoreInv, NEW p \in Processes, Restart(p)
  PROVE  StoreInv'
<1>1. /\ Idle \in Call /\ Idle.pc = "idle" /\ Idle.since = 0 /\ Idle.attempts = 0
      /\ Absent \in Stored
  BY DEF Idle, Call, Pcs, Stored
<1>2. RecordTypeOK'
  BY <1>1 DEF StoreInv, RecordTypeOK, Restart, Fault
<1>3. Reads'
  BY <1>1 DEF StoreInv, Reads, Restart, Rejects
<1>4. Committed'
  BY <1>1 DEF StoreInv, RecordTypeOK, Committed, CacheWasCommitted, Restart
<1>5. Turns'
  BY <1>1 DEF StoreInv, RecordTypeOK, Turns, ConflictsAreWrites, Restart
<1> QED BY <1>2, <1>3, <1>4, <1>5 DEF StoreInv

(* Every step keeps the invariant. *)
LEMMA StoreStep == StoreInv /\ [Next]_vars => StoreInv'
<1> SUFFICES ASSUME StoreInv, [Next]_vars PROVE StoreInv'
  OBVIOUS
<1>1. ASSUME NEW t \in Threads, Step(t) PROVE StoreInv'
  BY <1>1, LoadKeeps, PutKeeps, ReadKeeps, FillKeeps DEF Step
<1>2. CASE UNCHANGED vars
  BY <1>2 DEF vars, StoreInv, RecordTypeOK, Reads, Committed, Turns, CacheWasCommitted,
     ConflictsAreWrites, Rejects
<1> QED BY <1>1, <1>2, SaveKeeps, GetKeeps, SendKeeps, RestartKeeps DEF Next

(* The invariant holds throughout, whatever the threads of either process do. *)
THEOREM StoreInvariant == Spec => []StoreInv
<1> QED BY InitStore, StoreStep, PTL DEF Spec

(* Every reachable state of the record store is well typed: in particular   *)
(* no call of _persist_record takes more turns than its bound.              *)
THEOREM RecordTypeCorrect == Spec => []RecordTypeOK
<1>1. StoreInv => RecordTypeOK
  BY DEF StoreInv
<1> QED BY <1>1, StoreInvariant, PTL

(* A process never caches a record the store refused                        *)
(* (_save_document_record caches after the write, get_document after the    *)
(* read).                                                                   *)
THEOREM CacheCommitted == Spec => []CacheWasCommitted
<1>1. StoreInv => CacheWasCommitted
  BY DEF StoreInv, Committed
<1> QED BY <1>1, StoreInvariant, PTL

(* Every turn _persist_record's loop loses stands for a write that landed   *)
(* after the call began.                                                    *)
THEOREM ConflictsCounted == Spec => []ConflictsAreWrites
<1>1. StoreInv => ConflictsAreWrites
  BY DEF StoreInv, Turns
<1> QED BY <1>1, StoreInvariant, PTL

(* The compare-and-set loop implements atomic, legal writes: what           *)
(* DocumentLifecycle takes a record write to be.                            *)
THEOREM StoreImplementsContract == Spec => ImplementsContract
<1>1. Init => Contract!Init
  BY DEF Init, Contract!Init
<1>2. ASSUME NEW new \in Records, ~Rejects(new, stored), stored' = new
      PROVE  Contract!Next
  BY <1>2, AbsentIsNoRecord DEF Contract!Next, Rejects
<1>3. StoreInv /\ [Next]_vars => [Contract!Next]_stored
  <2> SUFFICES ASSUME StoreInv, [Next]_vars, stored' # stored PROVE Contract!Next
    OBVIOUS
  <2>1. PICK t \in Threads : Put(t) \/ SendFails(t)
    BY DEF Next, vars, Step, Save, GetDocument, Load, ReadStored, FillCache, Restart
  <2>2. /\ threads[t].pc = "put" /\ generation = threads[t].seenGeneration
        /\ stored' = threads[t].new
    BY <2>1 DEF Put, SendFails, Commits
  <2>3. threads[t].new \in Records /\ ~Rejects(threads[t].new, stored)
    BY <2>2 DEF StoreInv, RecordTypeOK, Reads
  <2> QED BY <1>2, <2>2, <2>3
<1> QED BY <1>1, <1>3, StoreInvariant, PTL DEF Spec, ImplementsContract, Contract!Spec
===============================================================================
