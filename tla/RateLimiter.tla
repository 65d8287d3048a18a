------------------------------ MODULE RateLimiter ------------------------------
(***************************************************************************)
(* SlidingWindowRateLimiter (rate_limit.py). check() reads the clock       *)
(* before it takes the lock, so a request may enter the locked section     *)
(* after one that read a later time; MaxRateDelay bounds how late it can   *)
(* be. A key without a bucket is modelled by the empty bucket.             *)
(***************************************************************************)
EXTENDS Integers, Sequences, FiniteSets

CONSTANTS
    RateCallers,    \* request threads
    RateKeys,       \* "scope:client" keys
    RateLimit,      \* limit
    RateWindow,     \* window_seconds
    MaxRateDelay,   \* bound: the wait between reading the clock and the lock
    MaxRateClock    \* bound: the monotonic clock

ASSUME RateAssumption ==
    /\ RateKeys # {}
    /\ RateLimit \in Nat \ {0}
    /\ RateWindow \in Nat \ {0}
    /\ MaxRateDelay \in Nat
    /\ MaxRateClock \in Nat

VARIABLES
    hits,        \* _hits
    lastPrune,   \* _last_prune
    rateClock,   \* time.monotonic()
    rateCalls,   \* the check each thread is in: the key and the time it read
    admitted     \* history: the times at which each key was allowed

rateVars == <<hits, lastPrune, rateClock, rateCalls, admitted>>

NoRateCall == [waiting |-> FALSE, key |-> CHOOSE k \in RateKeys : TRUE, now |-> 0]

RateInit ==
    /\ hits = [k \in RateKeys |-> <<>>]
    /\ lastPrune = 0
    /\ rateClock = 0
    /\ rateCalls = [c \in RateCallers |-> NoRateCall]
    /\ admitted = [k \in RateKeys |-> <<>>]

(* now = time.monotonic(), outside the lock. *)
ReadClock(c) ==
    /\ ~rateCalls[c].waiting
    /\ \E k \in RateKeys :
          rateCalls' = [rateCalls EXCEPT ![c] =
                            [waiting |-> TRUE, key |-> k, now |-> rateClock]]
    /\ UNCHANGED <<hits, lastPrune, rateClock, admitted>>

(* Definitions whose comment begins with "Fault:" are not part of the       *)
(* specification: each is the definition after it with a plausible mistake. *)

(* Fault: a bucket is judged by its oldest event. *)
PrunedByOldest(cutoff) ==
    [k \in RateKeys |->
        IF hits[k] # <<>> /\ hits[k][1] <= cutoff THEN <<>> ELSE hits[k]]

(* _prune: a bucket is judged by the event appended last. *)
Pruned(cutoff) ==
    [k \in RateKeys |->
        IF hits[k] # <<>> /\ hits[k][Len(hits[k])] <= cutoff THEN <<>> ELSE hits[k]]

(* The events before the first that is still in the window are dropped. *)
WithoutAged(bucket, cutoff) ==
    LET inWindow == {i \in 1..Len(bucket) : bucket[i] > cutoff} IN
    IF inWindow = {} THEN <<>>
    ELSE SubSeq(bucket, CHOOSE i \in inWindow : \A j \in inWindow : i <= j, Len(bucket))

(* The locked section. *)
CheckLimit(c) ==
    LET key    == rateCalls[c].key
        now    == rateCalls[c].now
        cutoff == now - RateWindow
        sweep  == now - lastPrune >= RateWindow
        swept  == IF sweep THEN Pruned(cutoff) ELSE hits
        bucket == WithoutAged(swept[key], cutoff)
        allow  == Len(bucket) < RateLimit
    IN  /\ rateCalls[c].waiting
        /\ lastPrune' = IF sweep THEN now ELSE lastPrune
        /\ hits' = [swept EXCEPT ![key] = IF allow THEN Append(bucket, now) ELSE bucket]
        /\ admitted' = [admitted EXCEPT ![key] = IF allow THEN Append(@, now) ELSE @]
        /\ rateCalls' = [rateCalls EXCEPT ![c] = NoRateCall]
        /\ UNCHANGED rateClock

(* Time passes, while no thread has waited for the lock for MaxRateDelay. *)
RateTick ==
    /\ rateClock < MaxRateClock
    /\ \A c \in RateCallers :
          rateCalls[c].waiting => rateClock - rateCalls[c].now < MaxRateDelay
    /\ rateClock' = rateClock + 1
    /\ UNCHANGED <<hits, lastPrune, rateCalls, admitted>>

RateNext == RateTick \/ \E c \in RateCallers : ReadClock(c) \/ CheckLimit(c)

RateSpec == RateInit /\ [][RateNext]_rateVars

------------------------------------------------------------------------------
(* Properties.                                                             *)

RateTypeOK ==
    /\ hits \in [RateKeys -> Seq(Nat)]
    /\ lastPrune \in 0..MaxRateClock
    /\ rateClock \in 0..MaxRateClock
    /\ rateCalls \in [RateCallers -> [waiting : BOOLEAN, key : RateKeys,
                                      now : 0..MaxRateClock]]
    /\ admitted \in [RateKeys -> Seq(Nat)]

AllowedWithin(key, from, width) ==
    {i \in 1..Len(admitted[key]) :
        from <= admitted[key][i] /\ admitted[key][i] < from + width}

(* No window holds more than `limit` allowed requests of a key, whatever    *)
(* order the threads took the lock in, the window being shortened by what a *)
(* sweep or a late thread can hide: twice the longest wait for the lock.    *)
LimitHolds ==
    \A k \in RateKeys, from \in 0..MaxRateClock :
        Cardinality(AllowedWithin(k, from, RateWindow - 2 * MaxRateDelay)) <= RateLimit

(* "Allow at most limit events per window_seconds for a given key": the     *)
(* docstring's bound, over the whole window.                                *)
LimitHoldsExactly ==
    \A k \in RateKeys, from \in 0..MaxRateClock :
        Cardinality(AllowedWithin(k, from, RateWindow)) <= RateLimit
================================================================================
