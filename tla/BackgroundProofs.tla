--------------------------- MODULE BackgroundProofs ---------------------------
(***************************************************************************)
(* Proofs about what runs beside the requests, for any sources, pipelines,  *)
(* writes, cases and faults: the streams' producer threads, the trace       *)
(* writers under an evaluation run, and capture with its flush workers.     *)
(***************************************************************************)
EXTENDS AskStream, EvaluationRun, Telemetry, DataLemmas, FunctionTheorems

-------------------------------------------------------------------------------
(* The answer stream. The consumer gets one ending, last. The inductive     *)
(* invariant follows an ending from the producer through the queue to what  *)
(* was received: there is at most one, what was posted behind it is the     *)
(* sentinel, and a producer that is done has posted one unless the response *)
(* was closed before.                                                       *)

Spent == producer.at \in {"over", "dead"} \/ (producer.at = "run" /\ producer.after = 5)

HasEnding(events) == \E i \in DOMAIN events : events[i] \in Endings

ProducerInv ==
    /\ producer.at = "new" => producer.after = 0
    /\ producer.at = "raised" => producer.after < 5
    /\ producer.at = "holds" =>
          /\ producer.event \in Events
          /\ producer.after = 5 <=> producer.event \in Endings
    /\ turn => producer.after = 5 /\ producer.event = "answer"

PostedInv ==
    \A i \in DOMAIN posted :
        /\ posted[i] \in Endings => \A j \in DOMAIN posted : j > i => posted[j] = Sentinel
        /\ posted[i] = Sentinel => i = Len(posted) /\ producer.at = "dead"

EndingInv ==
    /\ HasEnding(received) => \A j \in DOMAIN posted : posted[j] = Sentinel
    /\ HasEnding(received) \/ HasEnding(posted) => Spent
    /\ Spent /\ ~stop => HasEnding(received) \/ HasEnding(posted)
    /\ producer.after = 5 =>
          /\ \A i \in DOMAIN received : received[i] \in Endings => received[i] = producer.event
          /\ \A i \in DOMAIN posted : posted[i] \in Endings => posted[i] = producer.event

CloseInv ==
    /\ stop <=> sender = "closed"
    /\ sender = "closed" /\ client = "here" => HasEnding(received)

(* The producers of StreamTypeOK. *)
Producers == [at : {"new", "run", "holds", "raised", "over", "dead"}, after : 0..5,
              event : Events \cup {Sentinel}]

StreamInv ==
    /\ producer \in Producers
    /\ posted \in Seq(Events \cup {Sentinel}) /\ received \in Seq(Events)
    /\ stop \in BOOLEAN /\ turn \in BOOLEAN
    /\ sender \in {"open", "closed"} /\ client \in {"here", "gone"}
    /\ ProducerInv /\ PostedInv /\ EndingInv /\ CloseInv /\ EndsOnce(received)

(* The inductive invariant of the stream contains the types of its          *)
(* variables.                                                               *)
LEMMA StreamInvTypes == StreamInv => StreamTypeOK
  BY DEF StreamInv, StreamTypeOK, Producers

(* The announced stages end nothing, and the sentinel is no event. *)
LEMMA StagesAreEvents ==
    Len(Stages) = 4 /\ \A i \in 1..4 : Stages[i] \in Events /\ Stages[i] \notin Endings
  BY DEF Endings, Events, Terminals, Stages, ToSet

(* Whatever ends an answer stream is an event the producer may post.        *)
LEMMA EndingsAreEvents ==
    /\ Endings \subseteq Events
    /\ "clarification" \in Endings /\ "abstention" \in Endings
    /\ "answer" \in Endings /\ "error" \in Endings
  BY DEF Endings, Events, Terminals

(* The sentinel that closes the queue is no event of the stream.            *)
LEMMA SentinelIsNone == Sentinel \notin Events /\ Sentinel \notin Endings
  BY DEF Endings, Events, Terminals, Stages, ToSet, Sentinel

(* Before the first event nothing was posted, received or ended.            *)
LEMMA StreamInitHolds == StreamInit => StreamInv
<1> SUFFICES ASSUME StreamInit PROVE StreamInv
  OBVIOUS
<1>1. producer \in Producers
  BY DEF StreamInit, Producers
<1>2. posted \in Seq(Events \cup {Sentinel}) /\ received \in Seq(Events)
  BY DEF StreamInit
<1>3. ProducerInv /\ PostedInv /\ EndingInv /\ CloseInv /\ EndsOnce(received)
  BY DEF StreamInit, ProducerInv, PostedInv, EndingInv, CloseInv, EndsOnce, HasEnding, Spent
<1> QED BY <1>1, <1>2, <1>3 DEF StreamInit, StreamInv

(* A response that closed in front of a client (chat_ask_stream's consumer) *)
(* has handed over exactly one ending: the inductive invariant implies the  *)
(* property.                                                                *)
LEMMA StreamInvImplies == StreamInv => StreamEndsOnce
<1> SUFFICES ASSUME StreamInv, sender = "closed", client = "here"
             PROVE  received # <<>> /\ Last(received) \in Endings
                       /\ (turn => Last(received) = "answer")
  BY DEF StreamInv, StreamEndsOnce
<1>1. PICK i \in DOMAIN received : received[i] \in Endings
  BY DEF StreamInv, CloseInv, HasEnding
<1>2. i = Len(received) /\ received \in Seq(Events)
  BY <1>1 DEF StreamInv, EndsOnce
<1>3. received # <<>> /\ Last(received) = received[i]
  BY <1>1, <1>2 DEF Last
<1> QED BY <1>1, <1>3 DEF StreamInv, ProducerInv, EndingInv

(* Opening the stream starts the producer thread and posts nothing.         *)
LEMMA OpenStreamKeeps == StreamInv /\ OpenStream => StreamInv'
  BY DEF StreamInv, OpenStream, Producers, ProducerInv, PostedInv, EndingInv,
     CloseInv, EndsOnce, HasEnding, Spent

(* The producer runs its next stage (chat_ask_stream's producer): it        *)
(* announces a stage, produces an ending as its last event, returns, or     *)
(* raises before its ending.                                                *)
LEMMA RunStageKeeps == StreamInv /\ RunStageOfStream => StreamInv'
<1> SUFFICES ASSUME StreamInv, RunStageOfStream PROVE StreamInv'
  OBVIOUS
<1>0. /\ producer.at = "run" /\ UNCHANGED <<posted, stop, sender, client, received>>
      /\ \/ producer.after < 5 /\ NextEvent
         \/ producer.after = 5 /\ producer' = [producer EXCEPT !.at = "over"] /\ UNCHANGED turn
         \/ producer.after < 5 /\ producer' = [producer EXCEPT !.at = "raised"] /\ UNCHANGED turn
  BY DEF RunStageOfStream
<1>1. CASE producer.after < 5 /\ NextEvent
  <2>1. PICK e \in Events, n \in 1..5 :
           /\ Holds(e, n)
           /\ n = 5 <=> e \in Endings
           /\ turn' \in BOOLEAN
           /\ turn' => turn \/ (n = 5 /\ e = "answer")
    <3>1. CASE producer.after < Len(Stages) /\ Holds(Stages[producer.after + 1], producer.after + 1)
               /\ UNCHANGED turn
      <4>1. producer.after \in 0..3
        BY <3>1, StagesAreEvents DEF StreamInv, Producers
      <4>2. /\ Stages[producer.after + 1] \in Events /\ Stages[producer.after + 1] \notin Endings
            /\ producer.after + 1 \in 1..4
        BY <4>1, StagesAreEvents
      <4> QED BY <3>1, <4>2 DEF StreamInv
    <3>2. ASSUME NEW e \in Endings, Holds(e, 5), turn' \in BOOLEAN, turn' => turn \/ e = "answer"
          PROVE  \E n \in 1..5 : /\ Holds(e, n)
                                 /\ n = 5 <=> e \in Endings
                                 /\ turn' => turn \/ (n = 5 /\ e = "answer")
      BY <3>2
    <3> QED BY <1>1, <3>1, <3>2, EndingsAreEvents DEF StreamInv, NextEvent
  <2>2. producer' = [at |-> "holds", after |-> n, event |-> e] /\ ~turn
    BY <1>0, <1>1, <2>1 DEF StreamInv, Holds, ProducerInv
  <2>3. producer' \in Producers /\ ProducerInv' /\ ~Spent'
    BY <2>1, <2>2 DEF Producers, ProducerInv, Spent
  <2>4. PostedInv' /\ CloseInv' /\ EndsOnce(received)'
    BY <1>0, <2>2 DEF StreamInv, PostedInv, CloseInv, EndsOnce, HasEnding
  <2>5. ~Spent
    BY <1>0, <1>1 DEF Spent
  <2>6. EndingInv'
    BY <1>0, <2>3, <2>5 DEF StreamInv, EndingInv, HasEnding
  <2> QED BY <1>0, <2>1, <2>3, <2>4, <2>6 DEF StreamInv
<1>2. CASE producer.after = 5 /\ producer' = [producer EXCEPT !.at = "over"] /\ UNCHANGED turn
  <2>1. producer' \in Producers /\ producer'.at = "over" /\ producer'.after = 5
        /\ producer'.event = producer.event
    BY <1>2 DEF StreamInv, Producers
  <2> QED BY <1>0, <1>2, <2>1 DEF StreamInv, ProducerInv, PostedInv,
          EndingInv, CloseInv, EndsOnce, HasEnding, Spent
<1>3. CASE producer.after < 5 /\ producer' = [producer EXCEPT !.at = "raised"] /\ UNCHANGED turn
  <2>1. producer' \in Producers /\ producer'.at = "raised" /\ producer'.after = producer.after
        /\ producer'.event = producer.event
    BY <1>3 DEF StreamInv, Producers
  <2> QED BY <1>0, <1>3, <2>1 DEF StreamInv, ProducerInv, PostedInv,
          EndingInv, CloseInv, EndsOnce, HasEnding, Spent
<1> QED BY <1>0, <1>1, <1>2, <1>3

(* What is posted is put last. *)
LEMMA Posting ==
    ASSUME NEW e \in Events \cup {Sentinel}, posted \in Seq(Events \cup {Sentinel}),
           posted' = Append(posted, e)
    PROVE  /\ posted' \in Seq(Events \cup {Sentinel})
           /\ DOMAIN posted' = 1..(Len(posted) + 1) /\ Len(posted') = Len(posted) + 1
           /\ DOMAIN posted = 1..Len(posted) /\ Len(posted) \in Nat
           /\ \A i \in 1..Len(posted) : posted'[i] = posted[i]
           /\ posted'[Len(posted) + 1] = e
  OBVIOUS

(* While the producer has something to post, nothing that was posted is an  *)
(* ending or the sentinel.                                                  *)
LEMMA NothingEndedYet ==
    ASSUME StreamInv, ~Spent
    PROVE  ~HasEnding(received) /\ \A i \in DOMAIN posted : posted[i] \in Events /\ posted[i] \notin Endings
<1>1. ~HasEnding(received) /\ ~HasEnding(posted)
  BY DEF StreamInv, EndingInv
<1>2. \A i \in DOMAIN posted : posted[i] # Sentinel
  BY DEF StreamInv, PostedInv, Spent
<1>3. \A i \in DOMAIN posted : posted[i] \in Events \cup {Sentinel}
  BY DEF StreamInv
<1> QED BY <1>1, <1>2, <1>3 DEF HasEnding

(* The producer posts the event it holds, unless the response is closed.    *)
LEMMA EmitEventKeeps == StreamInv /\ EmitEvent => StreamInv'
<1> SUFFICES ASSUME StreamInv, EmitEvent PROVE StreamInv'
  OBVIOUS
<1>1. CASE stop
  <2>1. producer' \in Producers /\ producer'.at = "over" /\ producer'.after = producer.after
        /\ producer'.event = producer.event /\ producer.at = "holds"
        /\ UNCHANGED <<posted, stop, sender, client, received, turn>>
    BY <1>1 DEF StreamInv, EmitEvent, Producers
  <2> QED BY <1>1, <2>1 DEF StreamInv, ProducerInv, PostedInv,
          EndingInv, CloseInv, EndsOnce, HasEnding, Spent
<1>2. CASE ~stop
  <2> DEFINE e == producer.event
             n == Len(posted)
  <2>1. /\ e \in Events /\ posted' = Append(posted, e) /\ producer.at = "holds"
        /\ producer' \in Producers /\ producer'.at = "run" /\ producer'.after = producer.after
        /\ producer'.event = producer.event
        /\ producer.after = 5 <=> e \in Endings
        /\ UNCHANGED <<stop, sender, client, received, turn>>
    BY <1>2 DEF StreamInv, EmitEvent, ProducerInv, Producers
  <2>2. /\ posted' \in Seq(Events \cup {Sentinel})
        /\ DOMAIN posted' = 1..(n + 1) /\ Len(posted') = n + 1
        /\ DOMAIN posted = 1..n /\ n \in Nat
        /\ \A i \in 1..n : posted'[i] = posted[i]
        /\ posted'[n + 1] = e
    BY <2>1, Posting DEF StreamInv
  <2>3. ~HasEnding(received) /\ \A i \in 1..n : posted[i] \in Events /\ posted[i] \notin Endings
    BY <2>1, <2>2, NothingEndedYet DEF Spent
  <2>4. ProducerInv'
    BY <2>1 DEF StreamInv, ProducerInv
  <2>5. PostedInv'
    BY <2>1, <2>2, <2>3, SentinelIsNone DEF PostedInv
  <2>6. CloseInv' /\ EndsOnce(received)'
    BY <2>1 DEF StreamInv, CloseInv, EndsOnce, HasEnding
  <2>7. EndingInv'
    <3>1. HasEnding(posted)' <=> e \in Endings
      BY <2>2, <2>3 DEF HasEnding
    <3>2. Spent' <=> producer.after = 5
      BY <2>1 DEF Spent
    <3>3. ~HasEnding(received)'
      BY <2>1, <2>3 DEF HasEnding
    <3>4. \A i \in DOMAIN posted' : posted'[i] \in Endings => posted'[i] = producer'.event
      BY <2>1, <2>2, <2>3
    <3> QED BY <2>1, <3>1, <3>2, <3>3, <3>4 DEF EndingInv, HasEnding
  <2> QED BY <2>1, <2>2, <2>4, <2>5, <2>6, <2>7 DEF StreamInv
<1> QED BY <1>1, <1>2

(* A producer that raised posts its one error event, having ended nothing   *)
(* before.                                                                  *)
LEMMA EmitErrorKeeps == StreamInv /\ EmitError => StreamInv'
<1> SUFFICES ASSUME StreamInv, EmitError PROVE StreamInv'
  OBVIOUS
<1> DEFINE n == Len(posted)
<1>0. /\ producer.at = "raised" /\ producer.after < 5 /\ ~Spent /\ ~turn
      /\ producer' \in Producers /\ producer'.at = "over" /\ producer'.after = producer.after
      /\ posted' = Append(posted, "error")
      /\ UNCHANGED <<stop, sender, client, received, turn>>
  BY DEF StreamInv, EmitError, ProducerInv, Producers, Spent
<1>1. /\ posted' \in Seq(Events \cup {Sentinel})
      /\ DOMAIN posted' = 1..(n + 1) /\ Len(posted') = n + 1
      /\ DOMAIN posted = 1..n /\ n \in Nat
      /\ \A i \in 1..n : posted'[i] = posted[i]
      /\ posted'[n + 1] = "error"
  BY <1>0, Posting, EndingsAreEvents DEF StreamInv
<1>2. ~HasEnding(received) /\ \A i \in 1..n : posted[i] \in Events /\ posted[i] \notin Endings
  BY <1>0, <1>1, NothingEndedYet
<1>3. ProducerInv'
  BY <1>0 DEF StreamInv, ProducerInv
<1>4. PostedInv'
  BY <1>1, <1>2, EndingsAreEvents, SentinelIsNone DEF PostedInv
<1>5. CloseInv' /\ EndsOnce(received)'
  BY <1>0 DEF StreamInv, CloseInv, EndsOnce, HasEnding
<1>6. EndingInv'
  <2>1. HasEnding(posted)'
    BY <1>1, EndingsAreEvents DEF HasEnding
  <2>2. Spent' /\ producer'.after # 5 /\ ~HasEnding(received)'
    BY <1>0, <1>2 DEF StreamInv, Spent, HasEnding, Producers
  <2> QED BY <2>1, <2>2 DEF EndingInv
<1> QED BY <1>0, <1>1, <1>3, <1>4, <1>5, <1>6 DEF StreamInv

(* The producer's finally clause posts the sentinel behind whatever ended   *)
(* the stream.                                                              *)
LEMMA PostSentinelKeeps == StreamInv /\ PostSentinel => StreamInv'
<1> SUFFICES ASSUME StreamInv, PostSentinel PROVE StreamInv'
  OBVIOUS
<1> DEFINE n == Len(posted)
<1>0. /\ producer.at = "over" /\ producer' \in Producers /\ producer'.at = "dead"
      /\ producer'.after = producer.after /\ producer'.event = producer.event
      /\ posted' = Append(posted, Sentinel)
      /\ UNCHANGED <<stop, sender, client, received, turn>>
  BY DEF StreamInv, PostSentinel, Producers
<1>1. /\ posted' \in Seq(Events \cup {Sentinel})
      /\ DOMAIN posted' = 1..(n + 1) /\ Len(posted') = n + 1
      /\ DOMAIN posted = 1..n /\ n \in Nat
      /\ \A i \in 1..n : posted'[i] = posted[i]
      /\ posted'[n + 1] = Sentinel
  BY <1>0, Posting DEF StreamInv
<1>2. \A i \in 1..n : posted[i] # Sentinel
  BY <1>0, <1>1 DEF StreamInv, PostedInv
<1>3. ProducerInv'
  BY <1>0 DEF StreamInv, ProducerInv
<1>4. PostedInv'
  <2> SUFFICES ASSUME NEW i \in DOMAIN posted'
               PROVE  /\ posted'[i] \in Endings => \A j \in DOMAIN posted' : j > i => posted'[j] = Sentinel
                      /\ posted'[i] = Sentinel => i = Len(posted') /\ producer'.at = "dead"
    BY DEF PostedInv
  <2>1. CASE i \in 1..n
    BY <1>1, <1>2, <2>1 DEF StreamInv, PostedInv
  <2>2. CASE i = n + 1
    BY <1>0, <1>1, <2>2
  <2> QED BY <1>1, <2>1, <2>2
<1>5. CloseInv' /\ EndsOnce(received)'
  BY <1>0 DEF StreamInv, CloseInv, EndsOnce, HasEnding
<1>6. EndingInv'
  <2>1. HasEnding(posted)' <=> HasEnding(posted)
    BY <1>1, SentinelIsNone DEF HasEnding
  <2>2. HasEnding(received)' <=> HasEnding(received)
    BY <1>0 DEF HasEnding
  <2>3. Spent /\ Spent'
    BY <1>0 DEF Spent
  <2> QED BY <1>0, <1>1, <2>1, <2>2, <2>3, SentinelIsNone DEF StreamInv, EndingInv
<1> QED BY <1>0, <1>1, <1>3, <1>4, <1>5, <1>6 DEF StreamInv

(* The response has sent its head and goes on, or is closed by the sentinel. *)
LEMMA SendEventKeeps == StreamInv /\ SendEvent => StreamInv'
<1> SUFFICES ASSUME StreamInv, SendEvent PROVE StreamInv'
  OBVIOUS
<1> DEFINE n == Len(posted)
<1>1. CASE client = "gone"
  <2>1. sender' = "closed" /\ stop' = TRUE /\ UNCHANGED <<received, posted, producer, client, turn>>
    BY <1>1 DEF SendEvent
  <2> QED BY <1>1, <2>1 DEF StreamInv, ProducerInv, PostedInv,
          EndingInv, CloseInv, EndsOnce, HasEnding, Spent
<1>2. CASE client = "here"
  <2> DEFINE e == posted[1]
  <2>1. /\ posted # <<>> /\ posted' = Tail(posted) /\ Head(posted) = e /\ ~stop
        /\ IF e = Sentinel
           THEN sender' = "closed" /\ stop' = TRUE /\ UNCHANGED received
           ELSE received' = Append(received, e) /\ UNCHANGED <<sender, stop>>
        /\ UNCHANGED <<producer, client, turn>>
    BY <1>2 DEF StreamInv, SendEvent, CloseInv
  <2>2. /\ n \in Nat \ {0} /\ DOMAIN posted = 1..n /\ e \in Events \cup {Sentinel}
        /\ posted' \in Seq(Events \cup {Sentinel}) /\ Len(posted') = n - 1
        /\ DOMAIN posted' = 1..(n - 1)
        /\ \A i \in 1..(n - 1) : posted'[i] = posted[i + 1]
    BY <2>1 DEF StreamInv
  <2>3. ProducerInv'
    BY <2>1 DEF StreamInv, ProducerInv
  <2>4. PostedInv'
    <3> SUFFICES ASSUME NEW i \in 1..(n - 1)
                 PROVE  /\ posted'[i] \in Endings =>
                              \A j \in 1..(n - 1) : j > i => posted'[j] = Sentinel
                        /\ posted'[i] = Sentinel => i = n - 1 /\ producer'.at = "dead"
      BY <2>2 DEF PostedInv
    <3>1. i + 1 \in DOMAIN posted /\ \A j \in 1..(n - 1) : j + 1 \in DOMAIN posted
      BY <2>2
    <3>2. posted[i + 1] \in Endings => \A j \in DOMAIN posted : j > i + 1 => posted[j] = Sentinel
      BY <3>1 DEF StreamInv, PostedInv
    <3>3. posted[i + 1] = Sentinel => i + 1 = n /\ producer.at = "dead"
      BY <3>1 DEF StreamInv, PostedInv
    <3>4. ASSUME posted'[i] \in Endings, NEW j \in 1..(n - 1), j > i
          PROVE  posted'[j] = Sentinel
      <4>1. j + 1 \in DOMAIN posted /\ j + 1 > i + 1
        BY <2>2, <3>4
      <4> QED BY <2>2, <3>2, <3>4, <4>1
    <3>5. posted'[i] = Sentinel => i = n - 1 /\ producer'.at = "dead"
      <4>1. posted'[i] = posted[i + 1] /\ producer' = producer
        BY <2>1, <2>2
      <4>2. i + 1 = n => i = n - 1
        <5>1. i \in Int /\ n \in Int
          BY <2>2
        <5> HIDE DEF n
        <5> QED BY <5>1
      <4> QED BY <3>3, <4>1, <4>2
    <3> QED BY <3>4, <3>5
  <2>5. CASE e = Sentinel
    <3>1. n = 1 /\ producer.at = "dead"
      BY <2>2, <2>5 DEF StreamInv, PostedInv
    <3>2. sender' = "closed" /\ stop' = TRUE /\ UNCHANGED received
      BY <2>1, <2>5
    <3>3. HasEnding(received)
      BY <2>1, <2>2, <2>5, <3>1, SentinelIsNone DEF StreamInv, EndingInv, Spent, HasEnding
    <3>4. CloseInv' /\ EndsOnce(received)' /\ Spent'
      BY <2>1, <3>1, <3>2, <3>3 DEF StreamInv, CloseInv, EndsOnce, HasEnding, Spent
    <3>5. EndingInv'
      BY <2>1, <2>2, <3>1, <3>2, <3>3, <3>4 DEF StreamInv, EndingInv, HasEnding
    <3> QED BY <2>1, <2>2, <2>3, <2>4, <3>2, <3>4, <3>5 DEF StreamInv
  <2>6. CASE e # Sentinel
    <3> DEFINE m == Len(received)
    <3>1. received' = Append(received, e) /\ UNCHANGED <<sender, stop>> /\ e \in Events
      BY <2>1, <2>2, <2>6
    <3>2. /\ received' \in Seq(Events) /\ Len(received') = m + 1 /\ m \in Nat
          /\ DOMAIN received' = 1..(m + 1) /\ DOMAIN received = 1..m
          /\ \A i \in 1..m : received'[i] = received[i]
          /\ received'[m + 1] = e
      BY <3>1 DEF StreamInv
    <3>3. ~HasEnding(received)
      BY <2>2, <2>6 DEF StreamInv, EndingInv
    <3>4. EndsOnce(received)'
      BY <3>2, <3>3 DEF EndsOnce, HasEnding
    <3>5. HasEnding(received)' <=> e \in Endings
      BY <3>2, <3>3 DEF HasEnding
    <3>6. e \in Endings \/ HasEnding(posted)' <=> HasEnding(posted)
      <4>1. \A j \in 1..n : j = 1 \/ (j - 1 \in 1..(n - 1) /\ posted'[j - 1] = posted[j])
        <5> SUFFICES ASSUME NEW j \in 1..n, j # 1
                     PROVE  j - 1 \in 1..(n - 1) /\ posted'[j - 1] = posted[j]
          OBVIOUS
        <5>1. j - 1 \in 1..(n - 1) /\ (j - 1) + 1 = j
          BY <2>2
        <5> QED BY <2>2, <5>1
      <4>2. \A i \in 1..(n - 1) : i + 1 \in 1..n
        BY <2>2
      <4>3. 1 \in 1..n
        BY <2>2
      <4> QED BY <4>1, <4>2, <4>3, <2>2 DEF HasEnding
    <3>7. e \in Endings => \A j \in DOMAIN posted' : posted'[j] = Sentinel
      <4>1. \A i \in 1..(n - 1) : i + 1 \in 1..n /\ i + 1 > 1
        BY <2>2
      <4>2. 1 \in 1..n
        BY <2>2
      <4> QED BY <2>2, <4>1, <4>2 DEF StreamInv, PostedInv
    <3>8. EndingInv'
      <4>1. Spent' <=> Spent
        BY <2>1 DEF Spent
      <4>2. ASSUME producer'.after = 5
            PROVE  /\ \A i \in DOMAIN received' : received'[i] \in Endings
                           => received'[i] = producer'.event
                   /\ \A i \in DOMAIN posted' : posted'[i] \in Endings
                           => posted'[i] = producer'.event
        <5>1. \A i \in DOMAIN posted : posted[i] \in Endings => posted[i] = producer.event
          BY <4>2, <2>1 DEF StreamInv, EndingInv
        <5>2. 1 \in DOMAIN posted /\ \A i \in 1..(n - 1) : i + 1 \in DOMAIN posted
          BY <2>2
        <5>3. \A i \in 1..m : received[i] \notin Endings
          BY <3>2, <3>3 DEF HasEnding
        <5>4. posted[1] = e /\ producer' = producer
          BY <2>1, <2>2
        <5>5. \A i \in DOMAIN received' : received'[i] \in Endings => received'[i] = producer'.event
          <6>1. e \in Endings => e = producer.event
            BY <5>1, <5>2, <5>4
          <6>2. ASSUME NEW i \in 1..(m + 1) PROVE i = m + 1 \/ i \in 1..m
            BY <3>2
          <6> QED BY <3>2, <5>3, <5>4, <6>1, <6>2
        <5>6. \A i \in DOMAIN posted' : posted'[i] \in Endings => posted'[i] = producer'.event
          BY <2>2, <5>1, <5>2, <5>4
        <5> QED BY <5>5, <5>6
      <4> QED BY <2>1, <3>1, <3>3, <3>5, <3>6, <3>7, <4>1, <4>2 DEF StreamInv, EndingInv
    <3>9. CloseInv'
      BY <3>1, <2>1 DEF StreamInv, CloseInv
    <3> QED BY <2>1, <2>2, <2>3, <2>4, <3>1, <3>2, <3>4, <3>8, <3>9 DEF StreamInv
  <2> QED BY <2>5, <2>6
<1> QED BY <1>1, <1>2 DEF StreamInv

(* A client that leaves changes nothing the producer sees.                  *)
LEMMA ClientLeavesKeeps == StreamInv /\ ClientLeaves => StreamInv'
  BY DEF StreamInv, ClientLeaves, ProducerInv, PostedInv, EndingInv,
     CloseInv, EndsOnce, HasEnding, Spent

(* The inductive invariant of the stream holds in every state.              *)
LEMMA StreamInvHolds == StreamSpec => []StreamInv
<1>1. StreamInv /\ [StreamNext]_streamVars => StreamInv'
  <2>1. StreamInv /\ UNCHANGED streamVars => StreamInv'
    BY DEF streamVars, StreamInv, ProducerInv, PostedInv, EndingInv,
       CloseInv, EndsOnce, HasEnding, Spent
  <2> QED BY <2>1, OpenStreamKeeps, RunStageKeeps, EmitEventKeeps, EmitErrorKeeps, PostSentinelKeeps,
          SendEventKeeps, ClientLeavesKeeps DEF StreamNext, Producer
<1> QED BY <1>1, StreamInitHolds, PTL DEF StreamSpec

(* The stream's queue, producer and response keep their types               *)
(* (chat_ask_stream).                                                       *)
THEOREM StreamTypeCorrect == StreamSpec => []StreamTypeOK
  BY StreamInvTypes, StreamInvHolds, PTL

(* Whatever the producer thread and the response do, a stream that closed   *)
(* in front of its client ended with one answer, clarification, abstention  *)
(* or error as the last event received, and never with a lost or a second   *)
(* one (api.py, chat_ask_stream).                                           *)
THEOREM StreamsEndOnce == StreamSpec => []StreamEndsOnce
  BY StreamInvHolds, StreamInvImplies, PTL

-------------------------------------------------------------------------------
(* Trace writers and evaluation runs. A submitted write stays in its pool   *)
(* until it is done. The inductive invariant says that a pool holds exactly *)
(* the writes queued in it, each once, and that a closed pool nobody waits  *)
(* for is empty.                                                            *)

PoolStates == [queue : Seq(Writes), running : SUBSET Writes, closed : BOOLEAN]
WriteStates == [at : {"request", "submitting", "queued", "done"}, pool : Nat]

WritersTyped ==
    /\ pools \in Seq(PoolStates)
    /\ current \in {0} \cup Pools /\ draining \in {0} \cup Pools
    /\ writes \in [Writes -> WriteStates]
    /\ traces \in [WrittenTraceIds -> Writes \cup {NoWrite}]

(* A write that is on its way names a pool that was made. *)
Assigned(w) ==
    /\ writes[w].pool \in {0} \cup Pools
    /\ writes[w].at \in {"submitting", "queued"} => writes[w].pool \in Pools

(* A pool holds the writes that are queued in it, each once, and a closed   *)
(* one that no shutdown waits for holds none.                               *)
InPool(p) == ToSet(pools[p].queue) \cup pools[p].running

PoolSound(p) ==
    /\ \A w \in Writes : w \in InPool(p) <=> writes[w].at = "queued" /\ writes[w].pool = p
    /\ Distinct(pools[p].queue)
    /\ ToSet(pools[p].queue) \cap pools[p].running = {}
    /\ pools[p].closed /\ p # draining => Drained(p)

WritersInv ==
    /\ WritersTyped
    /\ \A w \in Writes : Assigned(w)
    /\ \A p \in Pools : PoolSound(p)

(* No trace write is under way before the first call.                       *)
LEMMA WritersInitHolds == WritersInit => WritersInv
<1> SUFFICES ASSUME WritersInit PROVE WritersInv
  OBVIOUS
<1>1. Pools = {} /\ pools \in Seq(PoolStates)
  BY DEF WritersInit, Pools
<1>2. writes \in [Writes -> WriteStates]
  BY DEF WritersInit, WriteStates
<1>3. traces \in [WrittenTraceIds -> Writes \cup {NoWrite}]
  BY DEF WritersInit
<1> QED BY <1>1, <1>2, <1>3 DEF WritersInit, WritersInv, WritersTyped, Assigned

(* A write is in a pool exactly while it is queued there, so none that was  *)
(* submitted is lost: the invariant implies the types and the property.     *)
LEMMA WritersInvImplies == WritersInv => WritersTypeOK /\ NoWriteIsLost
<1> SUFFICES ASSUME WritersInv PROVE WritersTypeOK /\ NoWriteIsLost
  OBVIOUS
<1>1. writes \in [Writes -> [at : {"request", "submitting", "queued", "done"}, pool : {0} \cup Pools]]
  <2> SUFFICES ASSUME NEW w \in Writes
               PROVE  writes[w] \in [at : {"request", "submitting", "queued", "done"},
                                     pool : {0} \cup Pools]
    BY DEF WritersInv, WritersTyped
  <2>1. writes[w] \in WriteStates /\ writes[w].pool \in {0} \cup Pools
    BY DEF WritersInv, WritersTyped, Assigned
  <2> QED BY <2>1 DEF WriteStates
<1>2. WritersTypeOK
  BY <1>1 DEF WritersInv, WritersTyped, WritersTypeOK, PoolStates
<1>3. ASSUME NEW w \in Writes
      PROVE  Cardinality({p \in Pools : w \in ToSet(pools[p].queue) \cup pools[p].running})
                 = IF writes[w].at \in {"request", "submitting", "done"} THEN 0 ELSE 1
  <2> DEFINE H == {p \in Pools : w \in ToSet(pools[p].queue) \cup pools[p].running}
  <2>1. H = {p \in Pools : writes[w].at = "queued" /\ writes[w].pool = p}
    BY DEF WritersInv, PoolSound, InPool
  <2>2. CASE writes[w].at = "queued"
    <3>1. H = {writes[w].pool}
      BY <2>1, <2>2 DEF WritersInv, Assigned
    <3> QED BY <2>2, <3>1, FS_Singleton
  <2>3. CASE writes[w].at # "queued"
    <3>1. H = {}
      BY <2>1, <2>3
    <3>2. writes[w].at \in {"request", "submitting", "done"}
      BY <2>3 DEF WritersInv, WritersTyped, WriteStates
    <3> QED BY <3>1, <3>2, FS_EmptySet
  <2> QED BY <2>2, <2>3
<1>4. \A p \in Pools : pools[p].closed /\ p # draining => Drained(p)
  BY DEF WritersInv, PoolSound
<1> QED BY <1>2, <1>3, <1>4 DEF NoWriteIsLost

(* Writing a trace records its own write as the stored one.                 *)
LEMMA WrittenTyped ==
    ASSUME NEW w \in Writes, WritersTyped, Written(w)
    PROVE  traces' \in [WrittenTraceIds -> Writes \cup {NoWrite}]
  BY DEF WritersTyped, Written, WrittenTraceIds

(* Taking the shared executor, or making one where there is none            *)
(* (_get_executor).                                                         *)
LEMMA GetPoolKeeps ==
    ASSUME WritersInv, NEW w \in Writes, GetPool(w)
    PROVE  WritersInv'
<1>1. /\ writes[w].at = "request" /\ writes' = [writes EXCEPT ![w] = [at |-> "submitting", pool |-> current']]
      /\ UNCHANGED <<draining, traces>>
  BY DEF GetPool
<1>2. CASE current # 0 /\ UNCHANGED <<pools, current>>
  <2>1. current' \in Pools /\ current' \in Nat /\ Pools' = Pools
    BY <1>2 DEF WritersInv, WritersTyped, Pools
  <2>2. [at |-> "submitting", pool |-> current'] \in WriteStates
    BY <2>1 DEF WriteStates
  <2>3. WritersTyped'
    BY <1>1, <1>2, <2>1, <2>2 DEF WritersInv, WritersTyped, WrittenTraceIds
  <2>4. \A v \in Writes : Assigned(v)'
    BY <1>1, <2>1 DEF WritersInv, WritersTyped, Assigned
  <2>5. \A p \in Pools : PoolSound(p)'
    BY <1>1, <1>2 DEF WritersInv, WritersTyped, PoolSound, InPool, Drained
  <2> QED BY <2>1, <2>3, <2>4, <2>5 DEF WritersInv
<1>3. CASE /\ current = 0 /\ Len(pools) < MaxPools
           /\ pools' = Append(pools, [queue |-> <<>>, running |-> {}, closed |-> FALSE])
           /\ current' = Len(pools')
  <2> PICK n : n = Len(pools)
    OBVIOUS
  <2>0. [queue |-> <<>>, running |-> {}, closed |-> FALSE] \in PoolStates
    BY DEF PoolStates
  <2>1. /\ n \in Nat /\ Pools = 1..n /\ Pools' = 1..(n + 1) /\ current' = n + 1
        /\ pools' \in Seq(PoolStates) /\ \A p \in 1..n : pools'[p] = pools[p]
        /\ pools'[n + 1] = [queue |-> <<>>, running |-> {}, closed |-> FALSE]
    BY <1>3, <2>0 DEF WritersInv, WritersTyped, Pools
  <2>2. [at |-> "submitting", pool |-> current'] \in WriteStates
    BY <2>1 DEF WriteStates
  <2>3. WritersTyped'
    BY <1>1, <2>1, <2>2 DEF WritersInv, WritersTyped, WrittenTraceIds
  <2>4. \A v \in Writes : Assigned(v)'
    BY <1>1, <2>1 DEF WritersInv, WritersTyped, Assigned
  <2>5. ASSUME NEW p \in 1..n PROVE PoolSound(p)'
    <3>1. p \in Pools /\ PoolSound(p) /\ pools'[p] = pools[p] /\ draining' = draining
      BY <1>1, <2>1 DEF WritersInv
    <3>2. \A v \in Writes : \/ writes'[v] = writes[v]
                            \/ v = w /\ writes[v].at # "queued" /\ writes'[v].at # "queued"
      BY <1>1 DEF WritersInv, WritersTyped
    <3> QED BY <3>1, <3>2 DEF PoolSound, InPool, Drained
  <2>6. PoolSound(n + 1)'
    <3>1. \A v \in Writes : ~(writes'[v].at = "queued" /\ writes'[v].pool = n + 1)
      <4>1. \A v \in Writes : writes[v].at = "queued" => writes[v].pool # n + 1
        BY <2>1 DEF WritersInv, Assigned
      <4>2. \A v \in Writes : IF v = w THEN writes'[v].at = "submitting" ELSE writes'[v] = writes[v]
        BY <1>1 DEF WritersInv, WritersTyped
      <4> QED BY <4>1, <4>2
    <3>2. /\ pools'[n + 1].queue = <<>> /\ pools'[n + 1].running = {}
          /\ pools'[n + 1].closed = FALSE
      BY <2>1
    <3>3. ToSet(pools'[n + 1].queue) = {} /\ Distinct(pools'[n + 1].queue)
      BY <3>2 DEF ToSet, Distinct
    <3> QED BY <3>1, <3>2, <3>3 DEF PoolSound, InPool
  <2> QED BY <2>1, <2>3, <2>4, <2>5, <2>6 DEF WritersInv
<1> QED BY <1>2, <1>3 DEF GetPool

(* Submitting a write to the executor taken: it is queued, or the executor  *)
(* was shut down and the caller writes it itself.                           *)
LEMMA SubmitKeeps ==
    ASSUME WritersInv, NEW w \in Writes, Submit(w)
    PROVE  WritersInv'
<1> PICK p : p = writes[w].pool
  OBVIOUS
<1> PICK q : q = pools[p].queue
  OBVIOUS
<1>1. /\ writes[w].at = "submitting" /\ p \in Pools /\ UNCHANGED <<current, draining>>
      /\ writes[w] \in WriteStates /\ pools[p] \in PoolStates
  BY DEF Submit, WritersInv, WritersTyped, Assigned, Pools
<1>2. CASE pools[p].closed
  <2>1. writes' = [writes EXCEPT ![w] = [at |-> "done", pool |-> 0]] /\ Written(w) /\ UNCHANGED pools
    BY <1>2 DEF Submit
  <2>2. WritersTyped'
    BY <1>1, <2>1, WrittenTyped DEF WritersInv, WritersTyped, Pools, WriteStates, WrittenTraceIds
  <2>3. \A v \in Writes : Assigned(v)'
    BY <2>1 DEF WritersInv, WritersTyped, Assigned, Pools
  <2>4. \A x \in Pools : PoolSound(x)'
    BY <1>1, <2>1 DEF WritersInv, WritersTyped, PoolSound, InPool, Drained
  <2> QED BY <2>1, <2>2, <2>3, <2>4 DEF WritersInv, Pools
<1>3. CASE ~pools[p].closed
  <2>1. /\ writes' = [writes EXCEPT ![w].at = "queued"]
        /\ pools' = [pools EXCEPT ![p].queue = Append(@, w)]
        /\ UNCHANGED traces
    BY <1>3 DEF Submit
  <2>2. /\ Pools' = Pools /\ pools'[p] = [pools[p] EXCEPT !.queue = Append(q, w)]
        /\ \A x \in Pools \ {p} : pools'[x] = pools[x]
    BY <1>1, <2>1 DEF WritersInv, WritersTyped, Pools
  <2>3. /\ pools'[p] \in PoolStates /\ pools'[p].queue = Append(q, w)
        /\ pools'[p].running = pools[p].running /\ ~pools'[p].closed
    <3>1. Append(q, w) \in Seq(Writes)
      BY <1>1 DEF PoolStates
    <3> QED BY <1>1, <1>3, <2>2, <3>1 DEF PoolStates
  <2>4. pools' \in Seq(PoolStates)
    BY <1>1, <2>1, <2>2, <2>3 DEF WritersInv, WritersTyped, Pools
  <2>5. /\ writes' \in [Writes -> WriteStates] /\ writes'[w].at = "queued" /\ writes'[w].pool = p
        /\ \A v \in Writes \ {w} : writes'[v] = writes[v]
    BY <1>1, <2>1 DEF WritersInv, WritersTyped, WriteStates
  <2>6. WritersTyped'
    BY <1>1, <2>1, <2>2, <2>4, <2>5 DEF WritersInv, WritersTyped, WrittenTraceIds
  <2>7. \A v \in Writes : Assigned(v)'
    BY <1>1, <2>2, <2>5 DEF WritersInv, Assigned
  <2>8. ASSUME NEW x \in Pools \ {p} PROVE PoolSound(x)'
    BY <1>1, <2>2, <2>5 DEF WritersInv, PoolSound, InPool, Drained
  <2>9. PoolSound(p)'
    <3>1. PoolSound(p) /\ w \notin InPool(p)
      BY <1>1 DEF WritersInv, PoolSound
    <3>2. q \in Seq(Writes)
      BY <1>1 DEF PoolStates
    <3>3. ToSet(Append(q, w)) = ToSet(q) \cup {w} /\ Distinct(Append(q, w))
      BY <1>1, <3>1, <3>2, AppendedElements DEF PoolSound, InPool
    <3> QED BY <1>1, <2>3, <2>5, <3>1, <3>3 DEF PoolSound, InPool
  <2> QED BY <1>1, <2>2, <2>6, <2>7, <2>8, <2>9 DEF WritersInv
<1> QED BY <1>2, <1>3

(* A pool whose queue and running writes change is a pool.                  *)
LEMMA PoolChanged ==
    ASSUME NEW x \in PoolStates, NEW s \in Seq(Writes), NEW R \in SUBSET Writes
    PROVE  [x EXCEPT !.queue = s, !.running = R] \in PoolStates
  BY Zenon DEF PoolStates

(* A pool thread takes the oldest write of its queue.                       *)
LEMMA TakeWriteKeeps ==
    ASSUME WritersInv, NEW p \in Pools, TakeWrite(p)
    PROVE  WritersInv'
<1> PICK q : q = pools[p].queue
  OBVIOUS
<1>1. /\ pools[p] \in PoolStates /\ PoolSound(p) /\ p \in DOMAIN pools
      /\ pools \in Seq(PoolStates)
  BY DEF WritersInv, WritersTyped, Pools
<1>2. /\ q # <<>> /\ q \in Seq(Writes)
      /\ pools' = [pools EXCEPT ![p].queue = Tail(@), ![p].running = @ \cup {Head(q)}]
      /\ UNCHANGED <<current, writes, draining, traces>>
  BY <1>1 DEF TakeWrite, PoolStates
<1>3. /\ Tail(q) \in Seq(Writes) /\ Head(q) \in Writes /\ ToSet(q) = ToSet(Tail(q)) \cup {Head(q)}
      /\ Distinct(Tail(q)) /\ Head(q) \notin ToSet(Tail(q))
  BY <1>1, <1>2, TailElements DEF PoolSound
<1>4. /\ Pools' = Pools /\ \A x \in Pools \ {p} : pools'[x] = pools[x]
      /\ pools'[p] = [pools[p] EXCEPT !.queue = Tail(q), !.running = pools[p].running \cup {Head(q)}]
  BY <1>1, <1>2 DEF Pools
<1>5. /\ pools'[p].queue = Tail(q) /\ pools'[p].running = pools[p].running \cup {Head(q)}
      /\ pools'[p].closed = pools[p].closed /\ DOMAIN pools'[p] = DOMAIN pools[p]
  BY <1>1, <1>4 DEF PoolStates
<1>6. pools'[p] \in PoolStates
  <2>1. pools[p].running \cup {Head(q)} \in SUBSET Writes
    BY <1>1, <1>3 DEF PoolStates
  <2>2. [pools[p] EXCEPT !.queue = Tail(q), !.running = pools[p].running \cup {Head(q)}] \in PoolStates
    BY <1>1, <1>3, <2>1, PoolChanged, Zenon
  <2> QED BY <1>4, <2>2, Zenon
<1>7. WritersTyped'
  <2>1. pools' \in Seq(PoolStates)
    <3>1. pools' = [pools EXCEPT ![p] = pools'[p]]
      BY <1>1, <1>2, <1>4, Zenon DEF Pools
    <3> QED BY <1>1, <1>6, <3>1
  <2> QED BY <1>2, <1>4, <2>1 DEF WritersInv, WritersTyped, WrittenTraceIds
<1>8. \A v \in Writes : Assigned(v)'
  BY <1>2, <1>4 DEF WritersInv, Assigned
<1>9. ASSUME NEW x \in Pools \ {p} PROVE PoolSound(x)'
  <2>1. PoolSound(x) /\ pools'[x] = pools[x] /\ UNCHANGED <<writes, draining>>
    BY <1>2, <1>4 DEF WritersInv
  <2> QED BY <2>1 DEF PoolSound, InPool, Drained
<1>10. PoolSound(p)'
  <2>1. ~(pools[p].closed /\ p # draining)
    BY <1>1, <1>2 DEF PoolSound, Drained
  <2>2. InPool(p)' = InPool(p)
    BY <1>3, <1>5 DEF InPool
  <2> QED BY <1>1, <1>2, <1>3, <1>5, <2>1, <2>2 DEF PoolSound
<1> QED BY <1>4, <1>7, <1>8, <1>9, <1>10 DEF WritersInv

(* A pool thread has written the trace.                                     *)
LEMMA FinishWriteKeeps ==
    ASSUME WritersInv, NEW p \in Pools, FinishWrite(p)
    PROVE  WritersInv'
<1>0. PICK w \in pools[p].running :
         /\ Written(w)
         /\ writes' = [writes EXCEPT ![w] = [at |-> "done", pool |-> 0]]
         /\ pools' = [pools EXCEPT ![p].running = @ \ {w}]
         /\ UNCHANGED <<current, draining>>
  BY DEF FinishWrite
<1>1. pools[p] \in PoolStates /\ PoolSound(p)
  BY DEF WritersInv, WritersTyped, Pools
<1>2. w \in Writes /\ writes[w].at = "queued" /\ writes[w].pool = p
  BY <1>1 DEF PoolSound, PoolStates, InPool
<1>3. /\ Pools' = Pools /\ \A x \in Pools \ {p} : pools'[x] = pools[x]
      /\ pools'[p] = [pools[p] EXCEPT !.running = pools[p].running \ {w}]
  BY <1>0 DEF WritersInv, WritersTyped, Pools
<1>4. /\ pools'[p] \in PoolStates /\ pools'[p].queue = pools[p].queue
      /\ pools'[p].running = pools[p].running \ {w} /\ pools'[p].closed = pools[p].closed
  BY <1>1, <1>3 DEF PoolStates
<1>5. /\ writes' \in [Writes -> WriteStates] /\ writes'[w] = [at |-> "done", pool |-> 0]
      /\ \A v \in Writes \ {w} : writes'[v] = writes[v]
  BY <1>0, <1>2 DEF WritersInv, WritersTyped, WriteStates
<1>6. WritersTyped'
  <2>1. pools' \in Seq(PoolStates)
    BY <1>0, <1>3, <1>4 DEF WritersInv, WritersTyped, Pools
  <2>2. traces' \in [WrittenTraceIds -> Writes \cup {NoWrite}]
    BY <1>0, <1>2, WrittenTyped DEF WritersInv
  <2> QED BY <1>0, <1>3, <1>5, <2>1, <2>2 DEF WritersInv, WritersTyped, WrittenTraceIds
<1>7. \A v \in Writes : Assigned(v)'
  BY <1>3, <1>5 DEF WritersInv, Assigned
<1>8. ASSUME NEW x \in Pools \ {p} PROVE PoolSound(x)'
  BY <1>0, <1>2, <1>3, <1>5 DEF WritersInv, PoolSound, InPool, Drained
<1>9. PoolSound(p)'
  <2>1. pools[p].closed => p = draining
    BY <1>1 DEF PoolSound, Drained
  <2>2. InPool(p)' = InPool(p) \ {w}
    BY <1>1, <1>4 DEF PoolSound, InPool
  <2>3. \A v \in Writes : v \in InPool(p)' <=> writes'[v].at = "queued" /\ writes'[v].pool = p
    BY <1>1, <1>2, <1>5, <2>2 DEF PoolSound
  <2> QED BY <1>0, <1>1, <1>4, <2>1, <2>3 DEF PoolSound
<1> QED BY <1>3, <1>6, <1>7, <1>8, <1>9 DEF WritersInv

(* The shutdown hook clears the shared executor under the lock, and then    *)
(* waits for it to drain.                                                   *)
LEMMA PoolShutdownKeeps == WritersInv /\ PoolShutdown => WritersInv'
<1> SUFFICES ASSUME WritersInv PROVE PoolShutdown => WritersInv'
  OBVIOUS
<1>1. CASE TakePoolAway
  BY <1>1 DEF TakePoolAway, WritersInv, WritersTyped, Assigned, PoolSound, InPool, Drained,
     Pools, WrittenTraceIds
<1>2. CASE ClosePool
  <2>1. /\ draining \in Pools /\ pools' = [pools EXCEPT ![draining].closed = TRUE]
        /\ UNCHANGED <<current, writes, draining, traces>>
    BY <1>2 DEF ClosePool, WritersInv, WritersTyped
  <2>2. /\ Pools' = Pools /\ \A x \in Pools \ {draining} : pools'[x] = pools[x]
        /\ pools'[draining] = [pools[draining] EXCEPT !.closed = TRUE]
        /\ pools[draining] \in PoolStates
    BY <2>1 DEF WritersInv, WritersTyped, Pools
  <2>3. /\ pools'[draining] \in PoolStates /\ pools'[draining].queue = pools[draining].queue
        /\ pools'[draining].running = pools[draining].running
    BY <2>2 DEF PoolStates
  <2>4. pools' \in Seq(PoolStates)
    BY <2>1, <2>2, <2>3 DEF WritersInv, WritersTyped, Pools
  <2>5. WritersTyped' /\ \A v \in Writes : Assigned(v)'
    BY <2>1, <2>2, <2>4 DEF WritersInv, WritersTyped, Assigned, WrittenTraceIds
  <2>6. \A x \in Pools : PoolSound(x)'
    BY <2>1, <2>2, <2>3 DEF WritersInv, PoolSound, InPool, Drained
  <2> QED BY <2>2, <2>5, <2>6 DEF WritersInv
<1>3. CASE ShutdownReturns
  BY <1>3 DEF ShutdownReturns, WritersInv, WritersTyped, Assigned, PoolSound, InPool, Drained,
     Pools, WrittenTraceIds
<1> QED BY <1>1, <1>2, <1>3 DEF PoolShutdown

(* A step that leaves the writers alone keeps the invariant.                *)
LEMMA WritersStutter == WritersInv /\ UNCHANGED writerVars => WritersInv'
  BY DEF writerVars, WritersInv, WritersTyped, Assigned, PoolSound, InPool, Drained, Pools, WrittenTraceIds

------------------------------------------------------------------------------
(* The run: while a case is submitted or scored there is one.               *)
EvaluationTyped ==
    /\ evaluation \in [at : {"requested", "invalid", "query", "submit", "score", "stored", "failed"},
                       results : Seq([passed : BOOLEAN, metrics : Writes \cup {NoWrite}]),
                       passed : BOOLEAN, ci : BOOLEAN]
    /\ evaluation.at \in {"submit", "score"} => MoreCases

EvaluationInv == WritersInv /\ EvaluationTyped

(* The case an evaluation run takes next is one of its dataset's.           *)
LEMMA NextCaseTyped ==
    ASSUME EvaluationTyped, MoreCases
    PROVE  NextCase.write \in Writes
<1>1. Len(evaluation.results) + 1 \in DOMAIN Cases
  <2>1. Len(evaluation.results) \in Nat
    BY DEF EvaluationTyped
  <2>2. Len(Cases) \in Nat /\ DOMAIN Cases = 1..Len(Cases)
    BY EvaluationAssumption
  <2> QED BY <2>1, <2>2 DEF MoreCases
<1>2. NextCase \in [write : Writes, labelled : BOOLEAN, human_reviewed : BOOLEAN]
  <2>1. PICK C : C = [write : Writes, labelled : BOOLEAN, human_reviewed : BOOLEAN]
    OBVIOUS
  <2>2. Cases \in Seq(C)
    BY <2>1, EvaluationAssumption
  <2>3. NextCase \in C
    BY <1>1, <2>2 DEF NextCase
  <2> QED BY <2>1, <2>3, Zenon
<1> QED BY <1>2

(* No evaluation run is under way before it is asked for.                   *)
LEMMA EvaluationInitHolds == EvaluationInit => EvaluationInv
<1> SUFFICES ASSUME EvaluationInit PROVE EvaluationInv
  OBVIOUS
<1>1. evaluation = [at |-> "requested", results |-> <<>>, passed |-> TRUE, ci |-> FALSE]
  BY DEF EvaluationInit
<1>2. <<>> \in Seq([passed : BOOLEAN, metrics : Writes \cup {NoWrite}])
  OBVIOUS
<1> QED BY <1>1, <1>2, WritersInitHolds DEF EvaluationInit, EvaluationInv, EvaluationTyped

(* The run under way moves on without a result. *)
LEMMA RunMoves ==
    ASSUME EvaluationTyped, NEW to \in {"invalid", "query", "submit", "score", "stored", "failed"},
           to \in {"submit", "score"} => MoreCases, NEW passed \in BOOLEAN, NEW ci \in BOOLEAN,
           evaluation' = [evaluation EXCEPT !.at = to, !.passed = passed]
             \/ evaluation' = [evaluation EXCEPT !.at = to, !.ci = ci]
             \/ evaluation' = [evaluation EXCEPT !.at = to]
    PROVE  EvaluationTyped'
  BY DEF EvaluationTyped, MoreCases

(* Every step of an evaluation run, and of the trace writers below it,      *)
(* keeps the invariant.                                                     *)
LEMMA EvaluationStep == EvaluationInv /\ EvaluationNext => EvaluationInv'
<1> SUFFICES ASSUME EvaluationInv, EvaluationNext PROVE EvaluationInv'
  OBVIOUS
<1> USE DEF EvaluationInv
<1>1. UNCHANGED evaluation => EvaluationTyped'
  BY DEF EvaluationTyped, MoreCases
<1>2. CASE OtherRequest
  BY <1>1, <1>2, GetPoolKeeps, SubmitKeeps DEF OtherRequest
<1>3. CASE StartRunOfCases
  BY <1>3, RunMoves, WritersStutter DEF StartRunOfCases
<1>4. CASE QueryCase
  BY <1>4, RunMoves, NextCaseTyped, GetPoolKeeps DEF QueryCase
<1>5. CASE SubmitTrace
  <2>1. MoreCases
    BY <1>5 DEF SubmitTrace, EvaluationTyped
  <2> QED BY <1>5, <2>1, RunMoves, NextCaseTyped, SubmitKeeps DEF SubmitTrace
<1>6. CASE ScoreCase
  <2>1. MoreCases
    BY <1>6 DEF ScoreCase, EvaluationTyped
  <2>2. NextCase.write \in Writes
    BY <2>1, NextCaseTyped
  <2>3. PICK result \in [passed : BOOLEAN, metrics : Writes \cup {NoWrite}] :
           evaluation' = [evaluation EXCEPT !.at = "query", !.results = Append(@, result)]
    <3> DEFINE metrics == IF NextCase.labelled THEN traces[TraceIdOf[NextCase.write]] ELSE NoWrite
    <3>1. traces[TraceIdOf[NextCase.write]] \in Writes \cup {NoWrite}
      BY <2>2 DEF WritersInv, WritersTyped, WrittenTraceIds
    <3>2. metrics \in Writes \cup {NoWrite}
      BY <3>1
    <3>3. evaluation.passed \in BOOLEAN
      BY DEF EvaluationTyped
    <3>4. evaluation' = [evaluation EXCEPT !.at = "query",
             !.results = Append(@, [passed |-> evaluation.passed, metrics |-> metrics])]
      BY <1>6 DEF ScoreCase
    <3> QED BY <3>2, <3>3, <3>4
  <2>4. EvaluationTyped'
    <3>1. PICK R : R = [passed : BOOLEAN, metrics : Writes \cup {NoWrite}]
      OBVIOUS
    <3>2. evaluation.results \in Seq(R) /\ result \in R
      BY <2>3, <3>1 DEF EvaluationTyped
    <3>3. Append(evaluation.results, result) \in Seq(R)
      BY <3>2
    <3>4. evaluation' \in [at : {"requested", "invalid", "query", "submit", "score", "stored", "failed"},
                          results : Seq(R), passed : BOOLEAN, ci : BOOLEAN]
      BY <2>3, <3>1, <3>3, Zenon DEF EvaluationTyped
    <3>5. evaluation'.at = "query"
      BY <2>3 DEF EvaluationTyped
    <3> QED BY <3>1, <3>4, <3>5 DEF EvaluationTyped
  <2> QED BY <1>6, <2>4, WritersStutter DEF ScoreCase
<1>7. CASE StoreRun
  BY <1>7, RunMoves, WritersStutter DEF StoreRun
<1>8. CASE RunRaises
  BY <1>8, RunMoves, WritersStutter DEF RunRaises
<1>9. CASE (WriterThread \/ PoolShutdown) /\ UNCHANGED <<evaluation, evaluationFaults>>
  BY <1>1, <1>9, TakeWriteKeeps, FinishWriteKeeps, PoolShutdownKeeps DEF WriterThread
<1> QED BY <1>2, <1>3, <1>4, <1>5, <1>6, <1>7, <1>8, <1>9 DEF EvaluationNext

(* The inductive invariant of the writers and the run holds in every state. *)
LEMMA EvaluationInvHolds == EvaluationSpec => []EvaluationInv
<1>1. EvaluationInv /\ UNCHANGED evaluationVars => EvaluationInv'
  BY WritersStutter DEF EvaluationInv, evaluationVars, EvaluationTyped, MoreCases
<1> QED BY <1>1, EvaluationInitHolds, EvaluationStep, PTL DEF EvaluationSpec

(* The pools, the writes and the stored traces keep their types             *)
(* (tracing.py).                                                            *)
THEOREM WritersTypeCorrect == EvaluationSpec => []WritersTypeOK
  BY EvaluationInvHolds, WritersInvImplies, PTL DEF EvaluationInv

(* A trace write that was submitted is queued or running in a pool that     *)
(* still works or is waited for, until it is done: neither a shutdown       *)
(* between the lookup of the pool and the submission nor a second pool made *)
(* after it loses one (the executor of tracing.py under the cases of an     *)
(* evaluation run).                                                         *)
THEOREM WritesAreKept == EvaluationSpec => []NoWriteIsLost
  BY EvaluationInvHolds, WritersInvImplies, PTL DEF EvaluationInv

-------------------------------------------------------------------------------
(* Capture. Every entry that closed is accounted for once. The account is   *)
(* stated of values, for one pipeline (PipeSound) and for all of them       *)
(* (CaptureSound), so that each action has one lemma about what it does to  *)
(* the account.                                                             *)

(* Every batch is a function from places in the buffer to its entries. *)
IsBatch(b) ==
    /\ b \in [DOMAIN b -> Entries]
    /\ DOMAIN b \subseteq 1..BufferCapacity /\ DOMAIN b # {}
    /\ \A i, j \in DOMAIN b : b[i] = b[j] => i = j

HandEntries(hand) == UNION {UNION {Range(b) : b \in hand[f]} : f \in Flushers}
HeldIn(buf, hand) == ToSet(buf) \cup HandEntries(hand)

(* The batches two flushers have in hand hold no entry in common. *)
BatchesApart(hand) ==
    \A f, g \in Flushers : \A b \in hand[f], c \in hand[g] :
        (f # g \/ b # c) => Range(b) \cap Range(c) = {}

BufferSound(buf) == buf \in Seq(Entries) /\ Len(buf) <= BufferCapacity /\ Distinct(buf)

HandSound(hand) ==
    /\ DOMAIN hand = Flushers
    /\ \A f \in Flushers : \A b \in hand[f] : IsBatch(b)
    /\ BatchesApart(hand)

OfPipe(pipe, S) == {e \in S : SourcePipe[e[1]] = pipe}

PipeSound(pipe, buf, hand, stored, closedOnes) ==
    /\ BufferSound(buf) /\ HandSound(hand)
    /\ ToSet(buf) \cap HandEntries(hand) = {}
    /\ HeldIn(buf, hand) \subseteq OfPipe(pipe, closedOnes)
    /\ HeldIn(buf, hand) \cap stored = {}

(* An entry is a source and a place among what the source closes.           *)
LEMMA EntryParts ==
    ASSUME NEW e
    PROVE  e \in Entries <=> /\ e = <<e[1], e[2]>> /\ e[1] \in Sources
                             /\ e[2] \in 1..SourceEntries[e[1]]
  BY DEF Entries

(* A flusher that has a batch in hand has its entries in hand.              *)
LEMMA BatchesHeld ==
    ASSUME NEW hand, NEW f \in Flushers, NEW b \in hand[f]
    PROVE  Range(b) \subseteq HandEntries(hand)
  BY DEF HandEntries

(* What is in hand is in some batch of some flusher.                        *)
LEMMA HandMembers ==
    ASSUME NEW hand, NEW e
    PROVE  e \in HandEntries(hand) <=> \E f \in Flushers : \E b \in hand[f] : e \in Range(b)
  BY DEF HandEntries

(* A batch leaves the hand. *)
LEMMA BatchTaken ==
    ASSUME NEW hand, HandSound(hand), NEW f \in Flushers, NEW b \in hand[f], NEW rest,
           rest = [hand EXCEPT ![f] = hand[f] \ {b}]
    PROVE  HandSound(rest) /\ HandEntries(rest) = HandEntries(hand) \ Range(b)
<1>1. /\ DOMAIN rest = Flushers /\ rest[f] = hand[f] \ {b}
      /\ \A g \in Flushers : rest[g] \subseteq hand[g]
      /\ \A g \in Flushers : g # f => rest[g] = hand[g]
  BY DEF HandSound
<1>2. \A g \in Flushers : \A c \in rest[g] : c \in hand[g] /\ Range(c) \cap Range(b) = {}
  BY <1>1 DEF HandSound, BatchesApart
<1>3. HandSound(rest)
  BY <1>1 DEF HandSound, BatchesApart
<1>4. ASSUME NEW e PROVE e \in HandEntries(rest) <=> e \in HandEntries(hand) \ Range(b)
  <2>1. ASSUME e \in HandEntries(rest) PROVE e \in HandEntries(hand) \ Range(b)
    BY <1>2, <2>1, HandMembers
  <2>2. ASSUME e \in HandEntries(hand), e \notin Range(b) PROVE e \in HandEntries(rest)
    <3>1. PICK g \in Flushers : \E c \in hand[g] : e \in Range(c)
      BY <2>2, HandMembers
    <3>2. PICK c \in hand[g] : e \in Range(c)
      BY <3>1
    <3>3. c \in rest[g]
      BY <1>1, <2>2, <3>2
    <3> QED BY <3>2, <3>3, HandMembers
  <2> QED BY <2>1, <2>2
<1> QED BY <1>3, <1>4

(* Min returns the least of a nonempty set of places.                       *)
LEMMA SmallestPlace ==
    ASSUME NEW P \in SUBSET Nat, P # {}
    PROVE  Min(P) \in P
<1>1. \E n \in P : \A m \in P : n <= m
  BY LeastNatural
<1> QED BY <1>1 DEF Min

(* A flusher with batches in hand writes one of them next.                  *)
LEMMA FirstIsThere ==
    ASSUME NEW batches, batches # {}, \A b \in batches : IsBatch(b)
    PROVE  FirstOf(batches) \in batches
<1> DEFINE P == {Min(DOMAIN b) : b \in batches}
<1>1. \A b \in batches : Min(DOMAIN b) \in Nat
  BY SmallestPlace DEF IsBatch
<1>2. P \in SUBSET Nat /\ P # {}
  BY <1>1
<1>3. PICK n \in P : \A m \in P : n <= m
  BY <1>2, LeastNatural
<1>4. PICK b \in batches : n = Min(DOMAIN b)
  OBVIOUS
<1>5. \A c \in batches : Min(DOMAIN b) <= Min(DOMAIN c)
  BY <1>3, <1>4
<1> QED BY <1>5 DEF FirstOf

(* The anchor of a batch is one of its spans, and a root if the batch has   *)
(* one (the span upsert_trace reads).                                       *)
LEMMA AnchorIsThere ==
    ASSUME NEW b, IsBatch(b)
    PROVE  /\ Anchor(b) \in Range(b)
           /\ (\E e \in Range(b) : IsRoot(e)) => IsRoot(Anchor(b))
<1> PICK roots : roots = {i \in DOMAIN b : IsRoot(b[i])}
  OBVIOUS
<1> PICK P : P = IF roots = {} THEN DOMAIN b ELSE roots
  OBVIOUS
<1>1. P \in SUBSET Nat /\ P # {} /\ P \subseteq DOMAIN b
  BY DEF IsBatch
<1>2. Min(P) \in P
  BY <1>1, SmallestPlace
<1>3. Anchor(b) = b[Min(P)]
  BY DEF Anchor
<1>4. (\E e \in Range(b) : IsRoot(e)) => roots # {}
  BY DEF Range
<1> QED BY <1>1, <1>2, <1>3, <1>4 DEF Range

(* A batch counts each of its entries once.                                 *)
LEMMA BatchSize ==
    ASSUME NEW b, IsBatch(b)
    PROVE  IsFiniteSet(Range(b)) /\ Cardinality(Range(b)) = Cardinality(DOMAIN b)
<1>1. IsFiniteSet(DOMAIN b)
  <2>1. 1 \in Int /\ BufferCapacity \in Int
    BY TelemetryAssumption
  <2>2. IsFiniteSet(1..BufferCapacity)
    BY <2>1, FS_Interval
  <2> QED BY <2>2, FS_Subset DEF IsBatch
<1>2. b \in Bijection(DOMAIN b, Range(b))
  BY DEF IsBatch, Bijection, Injection, Surjection, IsInjective, Range
<1>3. ExistsBijection(DOMAIN b, Range(b))
  BY <1>2 DEF ExistsBijection
<1> QED BY <1>1, <1>3, FS_Bijection

(* What a drained buffer becomes. *)
LEMMA Planning ==
    ASSUME NEW pipe, NEW buf, BufferSound(buf)
    PROVE  /\ \A b \in Planned(pipe, buf) : IsBatch(b)
           /\ \A b, c \in Planned(pipe, buf) : b # c => Range(b) \cap Range(c) = {}
           /\ UNION {Range(b) : b \in Planned(pipe, buf)} = ToSet(buf)
<1> PICK n : n = Len(buf)
  OBVIOUS
<1>1. /\ n \in Nat /\ DOMAIN buf = 1..n /\ n <= BufferCapacity
      /\ \A i \in 1..n : buf[i] \in Entries
  BY DEF BufferSound
<1>2. 1..n \subseteq 1..BufferCapacity
  BY <1>1, TelemetryAssumption
<1> DEFINE places(i) == {k \in 1..n : OneBatch(pipe, buf[k], buf[i])}
           batch(i) == [j \in places(i) |-> buf[j]]
<1>3. Planned(pipe, buf) = {batch(i) : i \in 1..n}
  BY <1>1 DEF Planned
<1>4. ASSUME NEW i \in 1..n
      PROVE  /\ DOMAIN batch(i) = places(i) /\ i \in places(i) /\ places(i) \subseteq 1..n
             /\ \A j \in places(i) : batch(i)[j] = buf[j]
             /\ Range(batch(i)) = {buf[j] : j \in places(i)}
  BY DEF OneBatch, Range
<1>5. ASSUME NEW i \in 1..n PROVE IsBatch(batch(i))
  <2>1. batch(i) \in [DOMAIN batch(i) -> Entries]
    BY <1>1, <1>4
  <2>2. \A j, k \in DOMAIN batch(i) : batch(i)[j] = batch(i)[k] => j = k
    BY <1>1, <1>4 DEF BufferSound, Distinct
  <2> QED BY <1>2, <1>4, <2>1, <2>2 DEF IsBatch
<1>6. ASSUME NEW i \in 1..n, NEW j \in 1..n, Range(batch(i)) \cap Range(batch(j)) # {}
      PROVE  batch(i) = batch(j)
  <2>1. PICK k \in places(i), l \in places(j) : buf[k] = buf[l]
    <3>1. PICK e : e \in Range(batch(i)) /\ e \in Range(batch(j))
      BY <1>6
    <3>2. PICK k \in places(i) : e = buf[k]
      BY <1>4, <3>1
    <3>3. PICK l \in places(j) : e = buf[l]
      BY <1>4, <3>1
    <3> QED BY <3>2, <3>3
  <2>2. k = l
    BY <1>1, <2>1 DEF BufferSound, Distinct
  <2>3. OneBatch(pipe, buf[k], buf[i]) /\ OneBatch(pipe, buf[k], buf[j])
    BY <2>1, <2>2
  <2>4. \A e : OneBatch(pipe, e, buf[i]) <=> OneBatch(pipe, e, buf[j])
    BY <2>3 DEF OneBatch
  <2>5. places(i) = places(j)
    BY <2>4
  <2> QED BY <2>5
<1>7. UNION {Range(b) : b \in Planned(pipe, buf)} = ToSet(buf)
  <2> SUFFICES ASSUME NEW e
               PROVE  e \in UNION {Range(b) : b \in Planned(pipe, buf)} <=> e \in ToSet(buf)
    OBVIOUS
  <2>1. e \in ToSet(buf) <=> \E i \in 1..n : e = buf[i]
    BY <1>1 DEF ToSet
  <2>2. e \in UNION {Range(b) : b \in Planned(pipe, buf)} <=> \E i \in 1..n : e \in Range(batch(i))
    <3> HIDE DEF batch
    <3> QED BY <1>3
  <2>3. ASSUME NEW i \in 1..n, e \in Range(batch(i)) PROVE \E j \in 1..n : e = buf[j]
    BY <1>4, <2>3
  <2>4. ASSUME NEW i \in 1..n, e = buf[i] PROVE e \in Range(batch(i))
    BY <1>4, <2>4
  <2> QED BY <2>1, <2>2, <2>3, <2>4
<1> HIDE DEF batch
<1>8. \A b, c \in Planned(pipe, buf) : b # c => Range(b) \cap Range(c) = {}
  BY <1>3, <1>6
<1>9. \A b \in Planned(pipe, buf) : IsBatch(b)
  BY <1>3, <1>5
<1> QED BY <1>7, <1>8, <1>9

(* The whole buffer goes into an empty hand. *)
LEMMA BufferDrained ==
    ASSUME NEW pipe, NEW buf, NEW hand, NEW stored, NEW closedOnes,
           PipeSound(pipe, buf, hand, stored, closedOnes), NEW f \in Flushers, hand[f] = {},
           NEW full, full = [hand EXCEPT ![f] = Planned(pipe, buf)]
    PROVE  /\ PipeSound(pipe, <<>>, full, stored, closedOnes)
           /\ HeldIn(<<>>, full) = HeldIn(buf, hand)
           /\ HandEntries(full) = HeldIn(buf, hand)
<1> PICK planned : planned = Planned(pipe, buf)
  OBVIOUS
<1>1. /\ BufferSound(buf) /\ HandSound(hand) /\ DOMAIN hand = Flushers
      /\ ToSet(buf) \cap HandEntries(hand) = {}
  BY DEF PipeSound, HandSound
<1>2. /\ \A b \in planned : IsBatch(b)
      /\ \A b, c \in planned : b # c => Range(b) \cap Range(c) = {}
      /\ UNION {Range(b) : b \in planned} = ToSet(buf)
  BY <1>1, Planning
<1>3. /\ DOMAIN full = Flushers /\ full[f] = planned
      /\ \A g \in Flushers : g # f => full[g] = hand[g]
  BY <1>1
<1>4. \A b \in planned : Range(b) \subseteq ToSet(buf)
  BY <1>2
<1>5. \A g \in Flushers : \A c \in hand[g] : Range(c) \cap ToSet(buf) = {}
  BY <1>1, BatchesHeld
<1>6. BatchesApart(full)
  <2> SUFFICES ASSUME NEW g \in Flushers, NEW h \in Flushers, NEW b \in full[g], NEW c \in full[h],
                      g # h \/ b # c
               PROVE  Range(b) \cap Range(c) = {}
    BY DEF BatchesApart
  <2>1. CASE g = f /\ h = f
    BY <1>2, <1>3, <2>1
  <2>2. CASE g = f /\ h # f
    BY <1>3, <1>4, <1>5, <2>2
  <2>3. CASE g # f /\ h = f
    BY <1>3, <1>4, <1>5, <2>3
  <2>4. CASE g # f /\ h # f
    BY <1>1, <1>3, <2>4 DEF HandSound, BatchesApart
  <2> QED BY <2>1, <2>2, <2>3, <2>4
<1>7. HandSound(full)
  BY <1>1, <1>2, <1>3, <1>6 DEF HandSound
<1>8. HandEntries(full) = HandEntries(hand) \cup ToSet(buf)
  <2> SUFFICES ASSUME NEW e
               PROVE  e \in HandEntries(full) <=> e \in HandEntries(hand) \cup ToSet(buf)
    OBVIOUS
  <2>1. e \in ToSet(buf) <=> \E b \in planned : e \in Range(b)
    BY <1>2
  <2>2. e \in HandEntries(full) <=> \E g \in Flushers : \E b \in full[g] : e \in Range(b)
    BY HandMembers
  <2>3. e \in HandEntries(hand) <=> \E g \in Flushers : \E b \in hand[g] : e \in Range(b)
    BY HandMembers
  <2> QED BY <1>3, <2>1, <2>2, <2>3
<1>9. ToSet(<<>>) = {}
  BY DEF ToSet
<1>10. BufferSound(<<>>)
  BY TelemetryAssumption DEF BufferSound, Distinct
<1> QED BY <1>7, <1>8, <1>9, <1>10 DEF PipeSound, HeldIn

(* A span or record joins a buffer that has room.                           *)
LEMMA EntryArrives ==
    ASSUME NEW pipe, NEW buf, NEW hand, NEW stored, NEW closedOnes,
           PipeSound(pipe, buf, hand, stored, closedOnes), stored \subseteq closedOnes,
           NEW e \in Entries, e \notin closedOnes, SourcePipe[e[1]] = pipe, Len(buf) < BufferCapacity
    PROVE  /\ PipeSound(pipe, Append(buf, e), hand, stored, closedOnes \cup {e})
           /\ HeldIn(Append(buf, e), hand) = HeldIn(buf, hand) \cup {e}
<1>1. /\ BufferSound(buf) /\ HandSound(hand) /\ ToSet(buf) \cap HandEntries(hand) = {}
      /\ HeldIn(buf, hand) \subseteq OfPipe(pipe, closedOnes) /\ HeldIn(buf, hand) \cap stored = {}
  BY DEF PipeSound
<1>2. e \notin HeldIn(buf, hand)
  BY <1>1 DEF OfPipe
<1>3. /\ Append(buf, e) \in Seq(Entries) /\ ToSet(Append(buf, e)) = ToSet(buf) \cup {e}
      /\ Distinct(Append(buf, e))
  BY <1>1, <1>2, AppendedElements DEF BufferSound, HeldIn
<1>4. Len(Append(buf, e)) <= BufferCapacity
  <2>1. Len(buf) \in Nat /\ Len(Append(buf, e)) = Len(buf) + 1
    BY <1>1 DEF BufferSound
  <2> QED BY <2>1, TelemetryAssumption
<1>5. OfPipe(pipe, closedOnes) \cup {e} \subseteq OfPipe(pipe, closedOnes \cup {e})
  BY DEF OfPipe
<1>6. BufferSound(Append(buf, e))
  BY <1>3, <1>4 DEF BufferSound
<1> QED BY <1>1, <1>2, <1>3, <1>5, <1>6 DEF PipeSound, HeldIn

(* A pipeline is not disturbed by what another stores.                      *)
LEMMA PipeUnmoved ==
    ASSUME NEW pipe, NEW buf, NEW hand, NEW stored, NEW closedOnes, NEW moreStored, NEW moreClosed,
           PipeSound(pipe, buf, hand, stored, closedOnes),
           closedOnes \subseteq moreClosed, HeldIn(buf, hand) \cap moreStored = {}
    PROVE  PipeSound(pipe, buf, hand, moreStored, moreClosed)
  BY DEF PipeSound, OfPipe

(* A pipeline without its process's memory holds nothing.                   *)
LEMMA EmptyPipe ==
    ASSUME NEW pipe, NEW hand, hand = [f \in Flushers |-> {}], NEW stored, NEW closedOnes
    PROVE  /\ PipeSound(pipe, <<>>, hand, stored, closedOnes)
           /\ HeldIn(<<>>, hand) = {} /\ HandEntries(hand) = {}
<1>1. ToSet(<<>>) = {} /\ HandEntries(hand) = {}
  BY DEF ToSet, HandEntries
<1>2. BufferSound(<<>>)
  BY TelemetryAssumption DEF BufferSound, Distinct
<1>3. HandSound(hand)
  BY DEF HandSound, BatchesApart
<1> QED BY <1>1, <1>2, <1>3 DEF PipeSound, HeldIn

(* The entries of C are stored, held, or counted among those that are gone. *)
Accounted(C, S, H, gone) ==
    /\ IsFiniteSet(C) /\ S \subseteq C /\ H \subseteq C /\ S \cap H = {} /\ gone \in Nat
    /\ Cardinality(C) = Cardinality(S) + Cardinality(H) + gone

(* Entries that leave the hand are stored or counted as gone.               *)
LEMMA AccountMoves ==
    ASSUME NEW C, NEW S, NEW H, NEW gone, Accounted(C, S, H, gone), NEW R, R \subseteq H
    PROVE  Accounted(C, S \cup R, H \ R, gone) /\ Accounted(C, S, H \ R, gone + Cardinality(R))
<1>1. /\ IsFiniteSet(C) /\ IsFiniteSet(S) /\ IsFiniteSet(H) /\ IsFiniteSet(R)
      /\ Cardinality(C) \in Nat /\ Cardinality(S) \in Nat /\ Cardinality(H) \in Nat
      /\ Cardinality(R) \in Nat
  BY FS_Subset, FS_CardinalityType DEF Accounted
<1>2. S \cap R = {} /\ H \cap R = R
  BY DEF Accounted
<1>3. Cardinality(S \cup R) = Cardinality(S) + Cardinality(R) - 0
  BY <1>1, <1>2, FS_Union, FS_EmptySet
<1>4. Cardinality(H \ R) = Cardinality(H) - Cardinality(R)
  BY <1>1, <1>2, FS_Difference
<1>5. Cardinality(C) = Cardinality(S) + Cardinality(H) + gone /\ gone \in Nat
  BY DEF Accounted
<1>6. /\ Cardinality(C) = Cardinality(S \cup R) + Cardinality(H \ R) + gone
      /\ Cardinality(C) = Cardinality(S) + Cardinality(H \ R) + (gone + Cardinality(R))
      /\ gone + Cardinality(R) \in Nat
  BY <1>1, <1>3, <1>4, <1>5
<1> QED BY <1>6 DEF Accounted

(* An entry that closes is buffered or counted as dropped.                  *)
LEMMA AccountGrows ==
    ASSUME NEW C, NEW S, NEW H, NEW gone, Accounted(C, S, H, gone), NEW e, e \notin C
    PROVE  Accounted(C \cup {e}, S, H \cup {e}, gone) /\ Accounted(C \cup {e}, S, H, gone + 1)
<1>1. /\ IsFiniteSet(C) /\ IsFiniteSet(S) /\ IsFiniteSet(H)
      /\ Cardinality(C) \in Nat /\ Cardinality(S) \in Nat /\ Cardinality(H) \in Nat
  BY FS_Subset, FS_CardinalityType DEF Accounted
<1>2. e \notin H /\ e \notin S
  BY DEF Accounted
<1>3. IsFiniteSet(C \cup {e}) /\ Cardinality(C \cup {e}) = Cardinality(C) + 1
  BY <1>1, FS_AddElement
<1>4. Cardinality(H \cup {e}) = Cardinality(H) + 1
  BY <1>1, <1>2, FS_AddElement
<1>5. Cardinality(C) = Cardinality(S) + Cardinality(H) + gone /\ gone \in Nat
  BY DEF Accounted
<1>6. /\ Cardinality(C \cup {e}) = Cardinality(S) + Cardinality(H \cup {e}) + gone
      /\ Cardinality(C \cup {e}) = Cardinality(S) + Cardinality(H) + (gone + 1)
      /\ gone + 1 \in Nat
  BY <1>1, <1>3, <1>4, <1>5
<1> QED BY <1>2, <1>3, <1>6 DEF Accounted

Total(bufs, hands) == UNION {HeldIn(bufs[q], hands[q]) : q \in Pipes}

CaptureSound(bufs, hands, stored, closedOnes, gone) ==
    /\ DOMAIN bufs = Pipes /\ DOMAIN hands = Pipes
    /\ \A q \in Pipes : PipeSound(q, bufs[q], hands[q], stored, closedOnes)
    /\ Accounted(closedOnes, stored, Total(bufs, hands), gone)

(* What is held at all is held by some pipeline.                            *)
LEMMA TotalMembers ==
    ASSUME NEW bufs, NEW hands, NEW e
    PROVE  e \in Total(bufs, hands) <=> \E q \in Pipes : e \in HeldIn(bufs[q], hands[q])
  BY DEF Total

(* Two pipelines hold no entry in common. *)
LEMMA PipesApart ==
    ASSUME NEW bufs, NEW hands, NEW stored, NEW closedOnes, NEW gone,
           CaptureSound(bufs, hands, stored, closedOnes, gone),
           NEW p \in Pipes, NEW q \in Pipes, p # q
    PROVE  HeldIn(bufs[p], hands[p]) \cap HeldIn(bufs[q], hands[q]) = {}
  BY DEF CaptureSound, PipeSound, OfPipe

(* Draining a buffer into a hand changes no account.                        *)
LEMMA CaptureDrains ==
    ASSUME NEW bufs, NEW hands, NEW stored, NEW closedOnes, NEW gone,
           CaptureSound(bufs, hands, stored, closedOnes, gone),
           NEW p \in Pipes, NEW f \in Flushers, hands[p][f] = {},
           NEW bufs2, bufs2 = [bufs EXCEPT ![p] = <<>>],
           NEW hands2, hands2 = [hands EXCEPT ![p][f] = Planned(p, bufs[p])]
    PROVE  CaptureSound(bufs2, hands2, stored, closedOnes, gone)
<1>1. /\ DOMAIN bufs2 = Pipes /\ DOMAIN hands2 = Pipes
      /\ \A q \in Pipes : q # p => bufs2[q] = bufs[q] /\ hands2[q] = hands[q]
      /\ bufs2[p] = <<>> /\ hands2[p] = [hands[p] EXCEPT ![f] = Planned(p, bufs[p])]
  BY DEF CaptureSound
<1>2. /\ PipeSound(p, bufs2[p], hands2[p], stored, closedOnes)
      /\ HeldIn(bufs2[p], hands2[p]) = HeldIn(bufs[p], hands[p])
  <2>1. PipeSound(p, bufs[p], hands[p], stored, closedOnes)
    BY DEF CaptureSound
  <2>2. /\ PipeSound(p, <<>>, hands2[p], stored, closedOnes)
        /\ HeldIn(<<>>, hands2[p]) = HeldIn(bufs[p], hands[p])
    <3> PICK buf, hand, full : buf = bufs[p] /\ hand = hands[p] /\ full = hands2[p]
      OBVIOUS
    <3>1. PipeSound(p, buf, hand, stored, closedOnes) /\ hand[f] = {}
      BY <2>1
    <3>2. full = [hand EXCEPT ![f] = Planned(p, buf)]
      BY <1>1
    <3>3. PipeSound(p, <<>>, full, stored, closedOnes) /\ HeldIn(<<>>, full) = HeldIn(buf, hand)
      BY <3>1, <3>2, BufferDrained, SMTT(60)
    <3> QED BY <3>3
  <2> QED BY <1>1, <2>2
<1>3. Total(bufs2, hands2) = Total(bufs, hands)
  <2>1. \A q \in Pipes : HeldIn(bufs2[q], hands2[q]) = HeldIn(bufs[q], hands[q])
    BY <1>1, <1>2
  <2>2. ASSUME NEW e PROVE e \in Total(bufs2, hands2) <=> e \in Total(bufs, hands)
    <3>1. e \in Total(bufs2, hands2) <=> \E q \in Pipes : e \in HeldIn(bufs2[q], hands2[q])
      BY TotalMembers
    <3>2. e \in Total(bufs, hands) <=> \E q \in Pipes : e \in HeldIn(bufs[q], hands[q])
      BY TotalMembers
    <3> QED BY <2>1, <3>1, <3>2
  <2> QED BY <2>2
<1> QED BY <1>1, <1>2, <1>3 DEF CaptureSound

TakesBatch(hands, hands2, p, f, b) == hands2 = [hands EXCEPT ![p][f] = @ \ {b}]

(* A batch leaves the hand for the store, or is discarded and counted       *)
(* (flush_once).                                                            *)
LEMMA CaptureWrites ==
    ASSUME NEW bufs, NEW hands, NEW stored, NEW closedOnes, NEW gone,
           CaptureSound(bufs, hands, stored, closedOnes, gone),
           NEW p \in Pipes, NEW f \in Flushers, NEW b \in hands[p][f],
           NEW hands2, TakesBatch(hands, hands2, p, f, b)
    PROVE  /\ CaptureSound(bufs, hands2, stored \cup Range(b), closedOnes, gone)
           /\ CaptureSound(bufs, hands2, stored, closedOnes, gone + Cardinality(DOMAIN b))
<1>1. /\ DOMAIN hands2 = Pipes
      /\ \A q \in Pipes : q # p => hands2[q] = hands[q]
      /\ hands2[p] = [hands[p] EXCEPT ![f] = @ \ {b}]
  BY DEF CaptureSound, TakesBatch
<1>2. /\ PipeSound(p, bufs[p], hands2[p], stored \cup Range(b), closedOnes)
      /\ PipeSound(p, bufs[p], hands2[p], stored, closedOnes)
      /\ HeldIn(bufs[p], hands2[p]) = HeldIn(bufs[p], hands[p]) \ Range(b)
      /\ Range(b) \subseteq HeldIn(bufs[p], hands[p])
  <2>1. PipeSound(p, bufs[p], hands[p], stored, closedOnes)
    BY DEF CaptureSound
  <2> PICK buf, hand, rest : buf = bufs[p] /\ hand = hands[p] /\ rest = hands2[p]
    OBVIOUS
  <2>2. PipeSound(p, buf, hand, stored, closedOnes) /\ b \in hand[f]
    BY <2>1
  <2>3. rest = [hand EXCEPT ![f] = hand[f] \ {b}]
    BY <1>1
  <2>4. /\ BufferSound(buf) /\ HandSound(hand) /\ ToSet(buf) \cap HandEntries(hand) = {}
        /\ HeldIn(buf, hand) \subseteq OfPipe(p, closedOnes) /\ HeldIn(buf, hand) \cap stored = {}
    BY <2>2 DEF PipeSound
  <2>5. HandSound(rest) /\ HandEntries(rest) = HandEntries(hand) \ Range(b)
    BY <2>2, <2>3, <2>4, BatchTaken
  <2>6. Range(b) \subseteq HandEntries(hand)
    BY <2>2, BatchesHeld
  <2>7. /\ PipeSound(p, buf, rest, stored \cup Range(b), closedOnes)
        /\ PipeSound(p, buf, rest, stored, closedOnes)
        /\ HeldIn(buf, rest) = HeldIn(buf, hand) \ Range(b)
        /\ Range(b) \subseteq HeldIn(buf, hand)
    BY <2>4, <2>5, <2>6 DEF PipeSound, HeldIn
  <2> QED BY <2>7
<1>4. \A q \in Pipes : q # p => Range(b) \cap HeldIn(bufs[q], hands[q]) = {}
  BY <1>2, PipesApart
<1>3. Total(bufs, hands2) = Total(bufs, hands) \ Range(b) /\ Range(b) \subseteq Total(bufs, hands)
  <2>1. \A q \in Pipes : q # p => HeldIn(bufs[q], hands2[q]) = HeldIn(bufs[q], hands[q])
    BY <1>1
  <2>2. ASSUME NEW e
        PROVE  /\ e \in Total(bufs, hands2) <=> \E q \in Pipes : e \in HeldIn(bufs[q], hands2[q])
               /\ e \in Total(bufs, hands) <=> \E q \in Pipes : e \in HeldIn(bufs[q], hands[q])
    BY TotalMembers
  <2> QED BY <1>2, <1>4, <2>1, <2>2
<1>5. \A q \in Pipes : q # p => HeldIn(bufs[q], hands[q]) \cap (stored \cup Range(b)) = {}
  BY <1>4 DEF CaptureSound, PipeSound
<1>6. ASSUME NEW q \in Pipes
      PROVE  /\ PipeSound(q, bufs[q], hands2[q], stored \cup Range(b), closedOnes)
             /\ PipeSound(q, bufs[q], hands2[q], stored, closedOnes)
  <2>1. CASE q = p
    BY <1>2, <2>1
  <2>2. CASE q # p
    BY <1>1, <1>5, <2>2, PipeUnmoved DEF CaptureSound
  <2> QED BY <2>1, <2>2
<1>7. Cardinality(DOMAIN b) = Cardinality(Range(b))
  BY BatchSize DEF CaptureSound, PipeSound, HandSound
<1>8. /\ Accounted(closedOnes, stored \cup Range(b), Total(bufs, hands2), gone)
      /\ Accounted(closedOnes, stored, Total(bufs, hands2), gone + Cardinality(DOMAIN b))
  <2>1. Accounted(closedOnes, stored, Total(bufs, hands), gone)
    BY DEF CaptureSound
  <2>2. /\ Accounted(closedOnes, stored \cup Range(b), Total(bufs, hands) \ Range(b), gone)
        /\ Accounted(closedOnes, stored, Total(bufs, hands) \ Range(b), gone + Cardinality(Range(b)))
    BY <1>3, <2>1, AccountMoves
  <2> QED BY <1>3, <1>7, <2>2
<1> QED BY <1>1, <1>6, <1>8 DEF CaptureSound

(* A closing entry is buffered, or dropped and counted at capacity.         *)
LEMMA CaptureAdds ==
    ASSUME NEW bufs, NEW hands, NEW stored, NEW closedOnes, NEW gone,
           CaptureSound(bufs, hands, stored, closedOnes, gone),
           NEW e \in Entries, e \notin closedOnes, SourcePipe[e[1]] \in Pipes
    PROVE  /\ CaptureSound(bufs, hands, stored, closedOnes \cup {e}, gone + 1)
           /\ Len(bufs[SourcePipe[e[1]]]) < BufferCapacity =>
                 CaptureSound([bufs EXCEPT ![SourcePipe[e[1]]] = Append(@, e)], hands, stored,
                              closedOnes \cup {e}, gone)
<1> PICK p \in Pipes : p = SourcePipe[e[1]]
  OBVIOUS
<1>1. \A q \in Pipes : PipeSound(q, bufs[q], hands[q], stored, closedOnes \cup {e})
  <2> SUFFICES ASSUME NEW q \in Pipes PROVE PipeSound(q, bufs[q], hands[q], stored, closedOnes \cup {e})
    OBVIOUS
  <2>1. PipeSound(q, bufs[q], hands[q], stored, closedOnes)
    BY DEF CaptureSound
  <2>2. HeldIn(bufs[q], hands[q]) \cap stored = {} /\ closedOnes \subseteq closedOnes \cup {e}
    BY <2>1 DEF PipeSound
  <2> QED BY <2>1, <2>2, PipeUnmoved
<1>2. CaptureSound(bufs, hands, stored, closedOnes \cup {e}, gone + 1)
  BY <1>1, AccountGrows DEF CaptureSound
<1>3. ASSUME Len(bufs[p]) < BufferCapacity, NEW bufs2, bufs2 = [bufs EXCEPT ![p] = Append(@, e)]
      PROVE  CaptureSound(bufs2, hands, stored, closedOnes \cup {e}, gone)
  <2>1. /\ DOMAIN bufs2 = Pipes /\ bufs2[p] = Append(bufs[p], e)
        /\ \A q \in Pipes : q # p => bufs2[q] = bufs[q]
    BY <1>3 DEF CaptureSound
  <2>2. /\ PipeSound(p, bufs2[p], hands[p], stored, closedOnes \cup {e})
        /\ HeldIn(bufs2[p], hands[p]) = HeldIn(bufs[p], hands[p]) \cup {e}
    <3>1. PipeSound(p, bufs[p], hands[p], stored, closedOnes) /\ stored \subseteq closedOnes
      BY DEF CaptureSound, Accounted
    <3>2. /\ PipeSound(p, Append(bufs[p], e), hands[p], stored, closedOnes \cup {e})
          /\ HeldIn(Append(bufs[p], e), hands[p]) = HeldIn(bufs[p], hands[p]) \cup {e}
      <4> PICK buf, hand : buf = bufs[p] /\ hand = hands[p]
        OBVIOUS
      <4>1. PipeSound(p, buf, hand, stored, closedOnes) /\ Len(buf) < BufferCapacity
        BY <1>3, <3>1
      <4>2. SourcePipe[e[1]] = p
        OBVIOUS
      <4>3. /\ PipeSound(p, Append(buf, e), hand, stored, closedOnes \cup {e})
            /\ HeldIn(Append(buf, e), hand) = HeldIn(buf, hand) \cup {e}
        BY <3>1, <4>1, <4>2, EntryArrives, SMTT(60)
      <4> QED BY <4>3
    <3> QED BY <2>1, <3>2
  <2>3. Total(bufs2, hands) = Total(bufs, hands) \cup {e}
    <3>1. \A q \in Pipes : q # p => HeldIn(bufs2[q], hands[q]) = HeldIn(bufs[q], hands[q])
      BY <2>1
    <3>2. ASSUME NEW d
          PROVE  /\ d \in Total(bufs2, hands) <=> \E q \in Pipes : d \in HeldIn(bufs2[q], hands[q])
                 /\ d \in Total(bufs, hands) <=> \E q \in Pipes : d \in HeldIn(bufs[q], hands[q])
      BY TotalMembers
    <3> QED BY <2>2, <3>1, <3>2
  <2>4. \A q \in Pipes : PipeSound(q, bufs2[q], hands[q], stored, closedOnes \cup {e})
    BY <1>1, <2>1, <2>2
  <2>5. Accounted(closedOnes, stored, Total(bufs, hands), gone)
    BY DEF CaptureSound
  <2>6. Accounted(closedOnes \cup {e}, stored, Total(bufs, hands) \cup {e}, gone)
    BY <2>5, AccountGrows
  <2>7. DOMAIN hands = Pipes
    BY DEF CaptureSound
  <2> QED BY <2>1, <2>3, <2>4, <2>6, <2>7 DEF CaptureSound
<1> QED BY <1>2, <1>3

(* A process that ends takes what its pipelines held, counted as lost.      *)
LEMMA CaptureEnds ==
    ASSUME NEW bufs, NEW hands, NEW stored, NEW closedOnes, NEW gone,
           CaptureSound(bufs, hands, stored, closedOnes, gone), NEW of \in SUBSET Pipes,
           NEW bufs2, bufs2 = [q \in Pipes |-> IF q \in of THEN <<>> ELSE bufs[q]],
           NEW hands2, hands2 = [q \in Pipes |-> IF q \in of THEN [f \in Flushers |-> {}] ELSE hands[q]]
    PROVE  CaptureSound(bufs2, hands2, stored, closedOnes,
                        gone + Cardinality(UNION {HeldIn(bufs[q], hands[q]) : q \in of}))
<1> PICK none : none = [f \in Flushers |-> {}]
  OBVIOUS
<1> PICK R : R = UNION {HeldIn(bufs[q], hands[q]) : q \in of}
  OBVIOUS
<1>1. /\ DOMAIN bufs2 = Pipes /\ DOMAIN hands2 = Pipes
      /\ \A q \in of : bufs2[q] = <<>> /\ hands2[q] = none
      /\ \A q \in Pipes \ of : bufs2[q] = bufs[q] /\ hands2[q] = hands[q]
  OBVIOUS
<1>2. ASSUME NEW q \in Pipes PROVE PipeSound(q, bufs2[q], hands2[q], stored, closedOnes)
  <2>1. CASE q \in of
    BY <1>1, <2>1, EmptyPipe
  <2>2. CASE q \notin of
    BY <1>1, <2>2 DEF CaptureSound
  <2> QED BY <2>1, <2>2
<1>3. \A q \in of : HeldIn(bufs2[q], hands2[q]) = {}
  BY <1>1, EmptyPipe
<1>4. ASSUME NEW e PROVE e \in R <=> \E q \in of : e \in HeldIn(bufs[q], hands[q])
  OBVIOUS
<1>5. \A q \in Pipes \ of : HeldIn(bufs[q], hands[q]) \cap R = {}
  BY <1>4, PipesApart
<1>6. Total(bufs2, hands2) = Total(bufs, hands) \ R
  <2>1. ASSUME NEW e
        PROVE  /\ e \in Total(bufs2, hands2) <=> \E q \in Pipes \ of : e \in HeldIn(bufs[q], hands[q])
               /\ e \in Total(bufs, hands) <=>
                     \/ e \in R
                     \/ \E q \in Pipes \ of : e \in HeldIn(bufs[q], hands[q])
    <3>1. \A q \in Pipes \ of : HeldIn(bufs2[q], hands2[q]) = HeldIn(bufs[q], hands[q])
      BY <1>1
    <3>2. e \in Total(bufs2, hands2) <=> \E q \in Pipes : e \in HeldIn(bufs2[q], hands2[q])
      BY TotalMembers
    <3>3. e \in Total(bufs, hands) <=> \E q \in Pipes : e \in HeldIn(bufs[q], hands[q])
      BY TotalMembers
    <3> QED BY <1>3, <1>4, <3>1, <3>2, <3>3
  <2> QED BY <1>5, <2>1
<1>7. R \subseteq Total(bufs, hands)
  BY <1>4, TotalMembers
<1>8. Accounted(closedOnes, stored, Total(bufs2, hands2), gone + Cardinality(R))
  <2>1. Accounted(closedOnes, stored, Total(bufs, hands), gone)
    BY DEF CaptureSound
  <2>2. Accounted(closedOnes, stored, Total(bufs, hands) \ R, gone + Cardinality(R))
    BY <1>7, <2>1, AccountMoves
  <2> QED BY <1>6, <2>2
<1> QED BY <1>1, <1>2, <1>8 DEF CaptureSound

TelemetryValues ==
    /\ closed \in [Sources -> Nat]
    /\ \A s \in Sources : closed[s] <= SourceEntries[s]
    /\ \A s \in WarningSources : closed[s] <= writeFailures
    /\ pipeState \in [Pipes -> {"running", "stopping", "final", "flushing", "stopped", "down"}]
    /\ traceRows \in [TraceIds -> [anchor : Entries \cup {NoEntry}, config : BOOLEAN]]
    /\ dropped \in Nat /\ writeFailures \in 0..MaxStoreFaults
    /\ discarded \in Nat /\ lostAtExit \in Nat
    /\ joinTimedOut \in BOOLEAN
    /\ crashes \in 0..MaxCrashes

CaptureInv ==
    /\ TelemetryValues
    /\ CaptureSound(buffers, inHand, storedEntries, ClosedEntries, dropped + discarded + lostAtExit)

(* Each source has its pipeline and its trace.                              *)
LEMMA SourcesHavePipes ==
    ASSUME NEW s \in Sources
    PROVE  SourcePipe[s] \in Pipes /\ SourceTrace[s] \in TraceIds
  BY DEF Pipes, TraceIds

(* A source closes its entries one after the other.                         *)
LEMMA NextEntry ==
    ASSUME closed \in [Sources -> Nat], NEW s \in Sources, closed[s] < SourceEntries[s],
           closed' = [closed EXCEPT ![s] = @ + 1], NEW e, e = <<s, closed[s] + 1>>
    PROVE  /\ e \in Entries /\ e[1] = s /\ e \notin ClosedEntries
           /\ ClosedEntries' = ClosedEntries \cup {e}
<1>1. e[1] = s /\ e[2] = closed[s] + 1 /\ closed[s] \in Nat /\ SourceEntries[s] \in Nat
  BY TelemetryAssumption
<1>2. e \in Entries
  BY <1>1, EntryParts
<1>3. e \notin ClosedEntries
  BY <1>1 DEF ClosedEntries
<1>4. ASSUME NEW d \in Entries
      PROVE  d[2] <= closed'[d[1]] <=> d[2] <= closed[d[1]] \/ d = e
  <2>1. d = <<d[1], d[2]>> /\ d[1] \in Sources /\ d[2] \in 1..SourceEntries[d[1]]
    BY EntryParts
  <2>2. d[2] \in Nat /\ closed[d[1]] \in Nat
    BY <2>1, TelemetryAssumption
  <2>3. CASE d[1] = s
    <3>1. closed'[d[1]] = closed[s] + 1
      BY <2>3
    <3>2. d = e <=> d[2] = closed[s] + 1
      BY <1>1, <2>1, <2>3
    <3> QED BY <1>1, <2>2, <2>3, <3>1, <3>2
  <2>4. CASE d[1] # s
    BY <1>1, <2>1, <2>4
  <2> QED BY <2>3, <2>4
<1>5. ClosedEntries' = ClosedEntries \cup {e}
  BY <1>2, <1>4 DEF ClosedEntries
<1> QED BY <1>1, <1>2, <1>3, <1>5

(* Adding an entry to its buffer (SpanBuffer.add, LogBuffer.add) keeps the  *)
(* account.                                                                 *)
LEMMA AddKeeps ==
    ASSUME closed \in [Sources -> Nat], \A s \in Sources : closed[s] <= SourceEntries[s],
           dropped \in Nat, NEW s \in Sources, closed[s] < SourceEntries[s], Add(s),
           NEW hands, NEW stored, NEW gone \in Nat,
           CaptureSound(buffers, hands, stored, ClosedEntries, gone + dropped)
    PROVE  /\ closed' \in [Sources -> Nat] /\ \A r \in Sources : closed'[r] <= SourceEntries[r]
           /\ closed'[s] = closed[s] + 1 /\ \A r \in Sources : r # s => closed'[r] = closed[r]
           /\ dropped' \in Nat
           /\ CaptureSound(buffers', hands, stored, ClosedEntries', gone + dropped')
<1> PICK e : e = <<s, closed[s] + 1>>
  OBVIOUS
<1>1. /\ closed' = [closed EXCEPT ![s] = @ + 1]
      /\ \/ /\ Len(buffers[SourcePipe[s]]) < BufferCapacity
            /\ buffers' = [buffers EXCEPT ![SourcePipe[s]] = Append(@, e)] /\ dropped' = dropped
         \/ dropped' = dropped + 1 /\ buffers' = buffers
  BY DEF Add, Room
<1>2. /\ e \in Entries /\ e[1] = s /\ e \notin ClosedEntries
      /\ ClosedEntries' = ClosedEntries \cup {e} /\ SourcePipe[e[1]] \in Pipes
  BY <1>1, NextEntry, SourcesHavePipes
<1>3. /\ CaptureSound(buffers, hands, stored, ClosedEntries \cup {e}, (gone + dropped) + 1)
      /\ Len(buffers[SourcePipe[e[1]]]) < BufferCapacity =>
            CaptureSound([buffers EXCEPT ![SourcePipe[e[1]]] = Append(@, e)], hands, stored,
                         ClosedEntries \cup {e}, gone + dropped)
  BY <1>2, CaptureAdds
<1>4. (gone + dropped) + 1 = gone + (dropped + 1)
  OBVIOUS
<1>5. CaptureSound(buffers', hands, stored, ClosedEntries', gone + dropped')
  BY <1>1, <1>2, <1>3, <1>4
<1>6. /\ closed' \in [Sources -> Nat] /\ closed'[s] = closed[s] + 1
      /\ \A r \in Sources : r # s => closed'[r] = closed[r]
  BY <1>1
<1>7. closed[s] + 1 <= SourceEntries[s]
  BY TelemetryAssumption
<1> QED BY <1>1, <1>5, <1>6, <1>7

(* Nothing has closed at the start.                                         *)
LEMMA CaptureStarts == TelemetryInit => CaptureInv
<1> SUFFICES ASSUME TelemetryInit PROVE CaptureInv
  OBVIOUS
<1> PICK none : none = [f \in Flushers |-> {}]
  OBVIOUS
<1>1. /\ DOMAIN buffers = Pipes /\ DOMAIN inHand = Pipes
      /\ \A q \in Pipes : buffers[q] = <<>> /\ inHand[q] = none
  BY DEF TelemetryInit
<1>2. ASSUME NEW q \in Pipes
      PROVE  /\ PipeSound(q, buffers[q], inHand[q], storedEntries, ClosedEntries)
             /\ HeldIn(buffers[q], inHand[q]) = {}
  BY <1>1, EmptyPipe
<1>3. Total(buffers, inHand) = {}
  BY <1>2, TotalMembers
<1>4. ClosedEntries = {}
  <2>1. ASSUME NEW e \in Entries PROVE ~(e[2] <= closed[e[1]])
    <3>1. e[1] \in Sources /\ e[2] \in 1..SourceEntries[e[1]]
      BY EntryParts
    <3>2. closed[e[1]] = 0 /\ SourceEntries[e[1]] \in Nat
      BY <3>1, TelemetryAssumption DEF TelemetryInit
    <3> QED BY <3>1, <3>2
  <2> QED BY <2>1 DEF ClosedEntries
<1>5. storedEntries = {} /\ dropped + discarded + lostAtExit = 0
  BY DEF TelemetryInit
<1>6. Accounted(ClosedEntries, storedEntries, Total(buffers, inHand), 0)
  BY <1>3, <1>4, <1>5, FS_EmptySet DEF Accounted
<1>7. CaptureSound(buffers, inHand, storedEntries, ClosedEntries, dropped + discarded + lostAtExit)
  BY <1>1, <1>2, <1>5, <1>6 DEF CaptureSound
<1>8. NoRow \in [anchor : Entries \cup {NoEntry}, config : BOOLEAN]
  BY DEF NoRow
<1>9. TelemetryValues
  <2>1. /\ closed \in [Sources -> Nat]
        /\ \A s \in Sources : closed[s] <= SourceEntries[s]
        /\ \A s \in WarningSources : closed[s] <= writeFailures
    BY TelemetryAssumption DEF TelemetryInit
  <2>2. 0 \in 0..MaxStoreFaults /\ 0 \in 0..MaxCrashes
    BY TelemetryAssumption
  <2>3. /\ pipeState \in [Pipes -> {"running", "stopping", "final", "flushing", "stopped", "down"}]
        /\ traceRows \in [TraceIds -> [anchor : Entries \cup {NoEntry}, config : BOOLEAN]]
    BY <1>8 DEF TelemetryInit
  <2> QED BY <2>1, <2>2, <2>3 DEF TelemetryInit, TelemetryValues
<1> QED BY <1>7, <1>9 DEF CaptureInv

(* A flusher drains its buffer under the lock and plans its batches.        *)
LEMMA DrainKeeps ==
    ASSUME CaptureInv, NEW p \in Pipes, NEW f \in Flushers, Drain(p, f),
           UNCHANGED <<closed, storedEntries, dropped, discarded, lostAtExit>>
    PROVE  CaptureSound(buffers, inHand, storedEntries, ClosedEntries, dropped + discarded + lostAtExit)'
<1>1. ClosedEntries' = ClosedEntries
  BY DEF ClosedEntries
<1>2. CaptureSound(buffers, inHand, storedEntries, ClosedEntries, dropped + discarded + lostAtExit)
  BY DEF CaptureInv
<1>3. CaptureSound(buffers', inHand', storedEntries, ClosedEntries, dropped + discarded + lostAtExit)
  BY <1>2, CaptureDrains DEF Drain
<1> QED BY <1>1, <1>3

(* An upsert leaves a row anchored at a span of the batch or as it was.     *)
LEMMA RowTyped ==
    ASSUME NEW row \in [anchor : Entries \cup {NoEntry}, config : BOOLEAN], NEW b, IsBatch(b),
           Range(b) \subseteq Entries
    PROVE  Upserted(row, b) \in [anchor : Entries \cup {NoEntry}, config : BOOLEAN]
  BY AnchorIsThere DEF Upserted

(* A flusher writes a batch, or the store refuses it, and its own warning   *)
(* may be captured in turn.                                                 *)
LEMMA PersistKeeps ==
    ASSUME CaptureInv, NEW p \in Pipes, NEW f \in Flushers, Persist(p, f)
    PROVE  CaptureInv'
<1> PICK b : b = FirstOf(inHand[p][f])
  OBVIOUS
<1> PICK gone : gone = discarded + lostAtExit
  OBVIOUS
<1>1. /\ WriteBatch(p, b) \/ DiscardBatch(p, b)
      /\ TakesBatch(inHand, inHand', p, f, b)
      /\ UNCHANGED <<pipeState, lostAtExit, joinTimedOut, crashes>>
  BY DEF Persist, TakesBatch
<1>2. CaptureSound(buffers, inHand, storedEntries, ClosedEntries, dropped + discarded + lostAtExit)
  BY DEF CaptureInv
<1>3. \A c \in inHand[p][f] : IsBatch(c)
  BY <1>2 DEF CaptureSound, PipeSound, HandSound
<1>4. b \in inHand[p][f] /\ IsBatch(b)
  BY <1>3, FirstIsThere DEF Persist
<1>5. /\ CaptureSound(buffers, inHand', storedEntries \cup Range(b), ClosedEntries,
                      dropped + discarded + lostAtExit)
      /\ CaptureSound(buffers, inHand', storedEntries, ClosedEntries,
                      dropped + discarded + lostAtExit + Cardinality(DOMAIN b))
  BY <1>1, <1>2, <1>4, CaptureWrites
<1>6. /\ dropped \in Nat /\ discarded \in Nat /\ lostAtExit \in Nat /\ gone \in Nat
      /\ writeFailures \in 0..MaxStoreFaults
  BY DEF CaptureInv, TelemetryValues
<1>7. Cardinality(DOMAIN b) \in Nat
  BY <1>4, BatchSize, FS_CardinalityType
<1>8. Range(b) \subseteq Entries
  BY <1>4 DEF IsBatch, Range
<1>9. CASE WriteBatch(p, b)
  <2>1. /\ storedEntries' = storedEntries \cup Range(b)
        /\ UNCHANGED <<closed, buffers, dropped, writeFailures, discarded>>
    BY <1>9 DEF WriteBatch
  <2>2. ClosedEntries' = ClosedEntries
    BY <2>1 DEF ClosedEntries
  <2>3. CaptureSound(buffers, inHand, storedEntries, ClosedEntries, dropped + discarded + lostAtExit)'
    BY <1>1, <1>5, <2>1, <2>2
  <2>4. traceRows' \in [TraceIds -> [anchor : Entries \cup {NoEntry}, config : BOOLEAN]]
    <3> PICK t : t = SourceTrace[Anchor(b)[1]]
      OBVIOUS
    <3>1. traceRows' = traceRows \/ traceRows' = [traceRows EXCEPT ![t] = Upserted(traceRows[t], b)]
      BY <1>9 DEF WriteBatch
    <3>2. t \in TraceIds
      BY <1>4, <1>8, AnchorIsThere, EntryParts, SourcesHavePipes
    <3>3. Upserted(traceRows[t], b) \in [anchor : Entries \cup {NoEntry}, config : BOOLEAN]
      BY <1>4, <1>8, <3>2, RowTyped DEF CaptureInv, TelemetryValues
    <3> QED BY <3>1, <3>2, <3>3 DEF CaptureInv, TelemetryValues
  <2>5. TelemetryValues'
    BY <1>1, <2>1, <2>4 DEF CaptureInv, TelemetryValues
  <2> QED BY <2>3, <2>5 DEF CaptureInv
<1>10. CASE DiscardBatch(p, b)
  <2>1. /\ writeFailures < MaxStoreFaults /\ writeFailures' = writeFailures + 1
        /\ discarded' = discarded + Cardinality(DOMAIN b)
        /\ UNCHANGED <<storedEntries, traceRows>>
        /\ \/ UNCHANGED <<closed, buffers, dropped>>
           \/ \E s \in WarningSources : Add(s)
    BY <1>10 DEF DiscardBatch
  <2>2. /\ discarded' \in Nat /\ writeFailures' \in 0..MaxStoreFaults
        /\ writeFailures <= writeFailures'
    BY <1>6, <1>7, <2>1, TelemetryAssumption
  <2>3. dropped + discarded + lostAtExit + Cardinality(DOMAIN b) = (discarded' + lostAtExit) + dropped
        /\ discarded' + lostAtExit \in Nat
    BY <1>6, <1>7, <2>1
  <2>4. CaptureSound(buffers, inHand', storedEntries, ClosedEntries, (discarded' + lostAtExit) + dropped)
    BY <1>5, <2>3
  <2>5. CASE UNCHANGED <<closed, buffers, dropped>>
    <3>1. ClosedEntries' = ClosedEntries /\ dropped' + discarded' + lostAtExit' = (discarded' + lostAtExit) + dropped
      BY <1>1, <1>6, <2>2, <2>5 DEF ClosedEntries
    <3>2. CaptureSound(buffers, inHand, storedEntries, ClosedEntries, dropped + discarded + lostAtExit)'
      BY <2>1, <2>4, <2>5, <3>1
    <3>3. \A s \in WarningSources : closed'[s] <= writeFailures'
      BY <1>6, <2>2, <2>5, TelemetryAssumption DEF CaptureInv, TelemetryValues
    <3>4. TelemetryValues'
      BY <1>1, <2>1, <2>2, <2>5, <3>3 DEF CaptureInv, TelemetryValues
    <3> QED BY <3>2, <3>4 DEF CaptureInv
  <2>6. ASSUME NEW s \in WarningSources, Add(s) PROVE CaptureInv'
    <3>1. s \in Sources /\ closed[s] < SourceEntries[s]
      BY <1>6, <2>1, TelemetryAssumption DEF CaptureInv, TelemetryValues
    <3>2. closed \in [Sources -> Nat] /\ \A r \in Sources : closed[r] <= SourceEntries[r]
      BY DEF CaptureInv, TelemetryValues
    <3>3. /\ closed' \in [Sources -> Nat] /\ \A r \in Sources : closed'[r] <= SourceEntries[r]
          /\ closed'[s] = closed[s] + 1 /\ \A r \in Sources : r # s => closed'[r] = closed[r]
          /\ dropped' \in Nat
          /\ CaptureSound(buffers', inHand', storedEntries, ClosedEntries', (discarded' + lostAtExit) + dropped')
      BY <1>6, <2>3, <2>4, <2>6, <3>1, <3>2, AddKeeps
    <3>4. dropped' + discarded' + lostAtExit' = (discarded' + lostAtExit) + dropped'
      BY <1>1, <1>6, <2>2, <3>3
    <3>5. CaptureSound(buffers, inHand, storedEntries, ClosedEntries, dropped + discarded + lostAtExit)'
      BY <2>1, <3>3, <3>4
    <3>6. ASSUME NEW r \in WarningSources PROVE closed'[r] <= writeFailures'
      <4>1. r \in Sources /\ closed[r] <= writeFailures /\ closed[r] \in Nat
        BY TelemetryAssumption DEF CaptureInv, TelemetryValues
      <4> QED BY <1>6, <2>1, <3>3, <4>1
    <3>7. TelemetryValues'
      BY <1>1, <2>1, <2>2, <3>3, <3>6 DEF CaptureInv, TelemetryValues
    <3> QED BY <3>5, <3>7 DEF CaptureInv
  <2> QED BY <2>1, <2>5, <2>6
<1> QED BY <1>1, <1>9, <1>10

(* A process exits or dies.                                                 *)
LEMMA EndsKeeps ==
    ASSUME CaptureInv, NEW process, Ends(process), crashes' \in 0..MaxCrashes
    PROVE  CaptureInv'
<1> PICK of \in SUBSET Pipes : of = {pipe \in Pipes : pipe[1] = process}
  OBVIOUS
<1> PICK R : R = UNION {HeldIn(buffers[q], inHand[q]) : q \in of}
  OBVIOUS
<1>1. R = UNION {Held(pipe) : pipe \in of}
  BY DEF Held, Buffered, InHand, HeldIn, HandEntries
<1>2. /\ pipeState' = [pipe \in Pipes |-> IF pipe \in of THEN "down" ELSE pipeState[pipe]]
      /\ buffers' = [pipe \in Pipes |-> IF pipe \in of THEN <<>> ELSE buffers[pipe]]
      /\ inHand' = [pipe \in Pipes |-> IF pipe \in of THEN [f \in Flushers |-> {}] ELSE inHand[pipe]]
      /\ lostAtExit' = lostAtExit + Cardinality(R)
      /\ UNCHANGED <<closed, traceRows, storedEntries, dropped, writeFailures, discarded, joinTimedOut>>
  BY <1>1 DEF Ends
<1>3. CaptureSound(buffers, inHand, storedEntries, ClosedEntries, dropped + discarded + lostAtExit)
  BY DEF CaptureInv
<1>4. CaptureSound(buffers', inHand', storedEntries, ClosedEntries,
                   dropped + discarded + lostAtExit + Cardinality(R))
  BY <1>2, <1>3, CaptureEnds
<1>5. Cardinality(R) \in Nat
  <2>1. R \subseteq ClosedEntries /\ IsFiniteSet(ClosedEntries)
    BY <1>3 DEF CaptureSound, PipeSound, OfPipe, Accounted
  <2> QED BY <2>1, FS_Subset, FS_CardinalityType
<1>6. dropped \in Nat /\ discarded \in Nat /\ lostAtExit \in Nat
  BY DEF CaptureInv, TelemetryValues
<1>7. /\ ClosedEntries' = ClosedEntries /\ lostAtExit' \in Nat
      /\ dropped' + discarded' + lostAtExit' = dropped + discarded + lostAtExit + Cardinality(R)
  BY <1>2, <1>5, <1>6 DEF ClosedEntries
<1>8. CaptureSound(buffers, inHand, storedEntries, ClosedEntries, dropped + discarded + lostAtExit)'
  BY <1>2, <1>4, <1>7
<1>9. pipeState' \in [Pipes -> {"running", "stopping", "final", "flushing", "stopped", "down"}]
  BY <1>2 DEF CaptureInv, TelemetryValues
<1>10. TelemetryValues'
  BY <1>2, <1>7, <1>9 DEF CaptureInv, TelemetryValues
<1> QED BY <1>8, <1>10 DEF CaptureInv

(* A stop moves its pipeline one step on.                                   *)
LEMMA StateMoved ==
    ASSUME CaptureInv, NEW p \in Pipes, NEW from, NEW to, StopMoves(p, from, to),
           to \in {"stopping", "final", "flushing", "stopped"}
    PROVE  /\ pipeState' \in [Pipes -> {"running", "stopping", "final", "flushing", "stopped", "down"}]
           /\ pipeState[p] = from /\ pipeState'[p] = to
           /\ \A q \in Pipes : q # p => pipeState'[q] = pipeState[q]
  BY DEF StopMoves, CaptureInv, TelemetryValues

(* Every step of capture, flushing, shutdown and crashes keeps the account. *)
LEMMA CaptureSteps == CaptureInv /\ [TelemetryNext]_telemetryVars => CaptureInv'
<1> SUFFICES ASSUME CaptureInv, [TelemetryNext]_telemetryVars PROVE CaptureInv'
  OBVIOUS
<1>1. ASSUME NEW s \in Sources, CloseEntry(s) PROVE CaptureInv'
  <2>1. /\ s \notin WarningSources /\ closed[s] < SourceEntries[s] /\ Add(s)
        /\ UNCHANGED <<inHand, pipeState, traceRows, storedEntries, writeFailures, discarded,
                       lostAtExit, joinTimedOut, crashes>>
    BY <1>1 DEF CloseEntry
  <2>2. /\ closed \in [Sources -> Nat] /\ \A r \in Sources : closed[r] <= SourceEntries[r]
        /\ dropped \in Nat /\ discarded \in Nat /\ lostAtExit \in Nat
    BY DEF CaptureInv, TelemetryValues
  <2>3. /\ dropped + discarded + lostAtExit = (discarded + lostAtExit) + dropped
        /\ discarded + lostAtExit \in Nat
    BY <2>2
  <2>4. CaptureSound(buffers, inHand, storedEntries, ClosedEntries, (discarded + lostAtExit) + dropped)
    BY <2>3 DEF CaptureInv
  <2>5. /\ closed' \in [Sources -> Nat] /\ \A r \in Sources : closed'[r] <= SourceEntries[r]
        /\ \A r \in Sources : r # s => closed'[r] = closed[r]
        /\ dropped' \in Nat
        /\ CaptureSound(buffers', inHand, storedEntries, ClosedEntries', (discarded + lostAtExit) + dropped')
    BY <2>1, <2>2, <2>3, <2>4, AddKeeps
  <2>6. dropped' + discarded' + lostAtExit' = (discarded + lostAtExit) + dropped'
    BY <2>1, <2>2, <2>5
  <2>7. CaptureSound(buffers, inHand, storedEntries, ClosedEntries, dropped + discarded + lostAtExit)'
    BY <2>1, <2>5, <2>6
  <2>8. \A r \in WarningSources : closed'[r] <= writeFailures'
    BY <2>1, <2>5, TelemetryAssumption DEF CaptureInv, TelemetryValues
  <2>9. TelemetryValues'
    BY <2>1, <2>5, <2>8 DEF CaptureInv, TelemetryValues
  <2> QED BY <2>7, <2>9 DEF CaptureInv
<1>2. ASSUME NEW p \in Pipes, LoopDrains(p) PROVE CaptureInv'
  <2>1. /\ Drain(p, "loop") /\ "loop" \in Flushers
        /\ UNCHANGED <<closed, pipeState, traceRows, storedEntries, dropped, writeFailures,
                       discarded, lostAtExit, joinTimedOut, crashes>>
    BY <1>2 DEF LoopDrains, Flushers
  <2>2. CaptureSound(buffers, inHand, storedEntries, ClosedEntries, dropped + discarded + lostAtExit)'
    BY <2>1, DrainKeeps
  <2>3. TelemetryValues'
    BY <2>1 DEF CaptureInv, TelemetryValues
  <2> QED BY <2>2, <2>3 DEF CaptureInv
<1>3. ASSUME NEW p \in Pipes, StopPipe(p) PROVE CaptureInv'
  <2>1. /\ pipeState' \in [Pipes -> {"running", "stopping", "final", "flushing", "stopped", "down"}]
        /\ UNCHANGED <<closed, buffers, inHand, traceRows, storedEntries, dropped, writeFailures,
                       discarded, lostAtExit, joinTimedOut, crashes>>
    BY <1>3, StateMoved DEF StopPipe
  <2> QED BY <2>1 DEF CaptureInv, TelemetryValues, ClosedEntries
<1>4. ASSUME NEW p \in Pipes, JoinReturns(p) PROVE CaptureInv'
  <2>1. /\ pipeState' \in [Pipes -> {"running", "stopping", "final", "flushing", "stopped", "down"}]
        /\ joinTimedOut' \in BOOLEAN
        /\ UNCHANGED <<closed, buffers, inHand, traceRows, storedEntries, dropped, writeFailures,
                       discarded, lostAtExit, crashes>>
    BY <1>4, StateMoved DEF JoinReturns
  <2> QED BY <2>1 DEF CaptureInv, TelemetryValues, ClosedEntries
<1>5. ASSUME NEW p \in Pipes, FinalDrain(p) PROVE CaptureInv'
  <2>1. /\ pipeState' \in [Pipes -> {"running", "stopping", "final", "flushing", "stopped", "down"}]
        /\ Drain(p, "stopper") /\ "stopper" \in Flushers
        /\ UNCHANGED <<closed, traceRows, storedEntries, dropped, writeFailures, discarded,
                       lostAtExit, joinTimedOut, crashes>>
    BY <1>5, StateMoved DEF FinalDrain, Flushers
  <2>2. CaptureSound(buffers, inHand, storedEntries, ClosedEntries, dropped + discarded + lostAtExit)'
    BY <2>1, DrainKeeps
  <2>3. TelemetryValues'
    BY <2>1 DEF CaptureInv, TelemetryValues
  <2> QED BY <2>2, <2>3 DEF CaptureInv
<1>6. ASSUME NEW p \in Pipes, StopReturns(p) PROVE CaptureInv'
  <2>1. /\ pipeState' \in [Pipes -> {"running", "stopping", "final", "flushing", "stopped", "down"}]
        /\ UNCHANGED <<closed, buffers, inHand, traceRows, storedEntries, dropped, writeFailures,
                       discarded, lostAtExit, joinTimedOut, crashes>>
    BY <1>6, StateMoved DEF StopReturns
  <2> QED BY <2>1 DEF CaptureInv, TelemetryValues, ClosedEntries
<1>7. ASSUME NEW p \in Pipes, NEW f \in Flushers, Persist(p, f) PROVE CaptureInv'
  BY <1>7, PersistKeeps
<1>8. ASSUME NEW process, ProcessExits(process) \/ Crash(process) PROVE CaptureInv'
  <2>1. Ends(process) /\ crashes' \in 0..MaxCrashes
    BY <1>8, TelemetryAssumption DEF ProcessExits, Crash, CaptureInv, TelemetryValues
  <2> QED BY <2>1, EndsKeeps
<1>9. CASE UNCHANGED telemetryVars
  BY <1>9 DEF telemetryVars, CaptureInv, TelemetryValues, ClosedEntries
<1> QED BY <1>1, <1>2, <1>3, <1>4, <1>5, <1>6, <1>7, <1>8, <1>9 DEF TelemetryNext

(* The account of capture holds in every state.                             *)
LEMMA CaptureInvariant == TelemetrySpec => []CaptureInv
  BY CaptureStarts, CaptureSteps, PTL DEF TelemetrySpec

(* Buffers, batches, rows and counters keep their types                     *)
(* (observability_tracing/).                                                *)
THEOREM TelemetryTypeCorrect == TelemetrySpec => []TelemetryTypeOK
<1>1. ASSUME CaptureInv PROVE TelemetryTypeOK
  <2>1. TelemetryValues /\ storedEntries \subseteq Entries
    BY <1>1 DEF CaptureInv, CaptureSound, Accounted, ClosedEntries
  <2>2. ASSUME NEW p \in Pipes
        PROVE  /\ buffers[p] \in Seq(Entries) /\ Len(buffers[p]) <= BufferCapacity
               /\ \A f \in Flushers : \A b \in inHand[p][f] : IsBatch(b)
    BY <1>1 DEF CaptureInv, CaptureSound, PipeSound, BufferSound, HandSound
  <2>3. \A b : IsBatch(b) => DOMAIN b \subseteq 1..BufferCapacity /\ Range(b) \subseteq Entries
    BY DEF IsBatch, Range
  <2> QED BY <2>1, <2>2, <2>3 DEF TelemetryTypeOK, TelemetryValues
<1> QED BY <1>1, CaptureInvariant, PTL

(* Every span or log record that closed is stored, buffered, in a flusher's *)
(* hand, or counted as dropped, discarded or lost at exit, and in one of    *)
(* these only (buffers and flush workers of observability_tracing/).        *)
THEOREM EntriesAreAccounted == TelemetrySpec => []EveryEntryAccounted
<1>1. ASSUME CaptureInv PROVE EveryEntryAccounted
  <2>1. Total(buffers, inHand) = UNION {Held(pipe) : pipe \in Pipes}
    BY DEF Total, Held, Buffered, InHand, HeldIn, HandEntries
  <2>2. Accounted(ClosedEntries, storedEntries, Total(buffers, inHand), dropped + discarded + lostAtExit)
        /\ dropped \in Nat /\ discarded \in Nat /\ lostAtExit \in Nat
    BY <1>1 DEF CaptureInv, CaptureSound, TelemetryValues
  <2>3. Cardinality(storedEntries) \in Nat /\ Cardinality(Total(buffers, inHand)) \in Nat
    BY <2>2, FS_Subset, FS_CardinalityType DEF Accounted
  <2>4. Cardinality(ClosedEntries) = Cardinality(storedEntries) + Cardinality(Total(buffers, inHand))
            + (dropped + discarded + lostAtExit)
    BY <2>2 DEF Accounted
  <2> QED BY <2>1, <2>2, <2>3, <2>4 DEF EveryEntryAccounted
<1> QED BY <1>1, CaptureInvariant, PTL


-------------------------------------------------------------------------------
(* Capture. The row of a trace describes a root. For that the order in      *)
(* which the entries of a source reach the store matters: RootsInv says     *)
(* that they are stored in the order they closed, as long as no join of a   *)
(* flush thread timed out.                                                  *)

(* Of one source: what is stored closed before what is held, and what is in *)
(* hand before what is buffered; a batch holds what is in hand of a trace.  *)
Ordered(buf, hand, stored) ==
    /\ \A e \in HeldIn(buf, hand), d \in stored : d[1] = e[1] => d[2] < e[2]
    /\ \A e \in ToSet(buf), d \in HandEntries(hand) : d[1] = e[1] => d[2] < e[2]
    /\ \A f \in Flushers : \A b, c \in hand[f] : \A e \in Range(b), d \in Range(c) :
          SourceTrace[e[1]] = SourceTrace[d[1]] <=> b = c

OneHand(hand) == \A f, g \in Flushers : hand[f] # {} /\ hand[g] # {} => f = g

(* stop() has its own batches only after it drained; the loop has none once *)
(* its thread was joined.                                                   *)
HandsOf(pipe) ==
    /\ pipeState[pipe] \in {"running", "stopping", "final"} => inHand[pipe]["stopper"] = {}
    /\ ~joinTimedOut /\ pipeState[pipe] \notin {"running", "stopping"} => inHand[pipe]["loop"] = {}

InOrder(pipe) ==
    pipe[2] = "spans" /\ ~joinTimedOut => Ordered(buffers[pipe], inHand[pipe], storedEntries)

RootOf(e) == <<e[1], SourceEntries[e[1]]>>

(* A row that does not describe a root has its source's root still to come. *)
RowSound(t, anchor, stored) ==
    anchor # NoEntry =>
        /\ anchor \in Entries /\ SourceTrace[anchor[1]] = t /\ SourcePipe[anchor[1]][2] = "spans"
        /\ IsRoot(anchor) \/ RootOf(anchor) \notin stored

RowsSound == ~joinTimedOut => \A t \in TraceIds : RowSound(t, traceRows[t].anchor, storedEntries)

RootsInv ==
    /\ CaptureInv
    /\ \A pipe \in Pipes : HandsOf(pipe) /\ InOrder(pipe)
    /\ RowsSound

(* An entry that closes after everything stored or in hand joins the end of *)
(* the buffer.                                                              *)
LEMMA OrderedAdd ==
    ASSUME NEW buf \in Seq(Entries), NEW hand, NEW stored, Ordered(buf, hand, stored),
           NEW e \in Entries,
           \A d \in stored \cup HandEntries(hand) : d[1] = e[1] => d[2] < e[2]
    PROVE  Ordered(Append(buf, e), hand, stored)
<1>1. ToSet(Append(buf, e)) = ToSet(buf) \cup {e}
  BY AppendedElements
<1> QED BY <1>1 DEF Ordered, HeldIn

(* Writing the one batch of a trace, or discarding it, keeps the order.     *)
LEMMA OrderedWrite ==
    ASSUME NEW buf, NEW hand, NEW stored, Ordered(buf, hand, stored), OneHand(hand), HandSound(hand),
           NEW f \in Flushers, NEW b \in hand[f], NEW rest,
           rest = [hand EXCEPT ![f] = hand[f] \ {b}]
    PROVE  Ordered(buf, rest, stored \cup Range(b)) /\ Ordered(buf, rest, stored)
<1>1. /\ HandEntries(rest) = HandEntries(hand) \ Range(b) /\ Range(b) \subseteq HandEntries(hand)
  BY BatchTaken, BatchesHeld
<1>2. \A g \in Flushers : rest[g] \subseteq hand[g]
  BY DEF HandSound
<1>3. ASSUME NEW e \in HandEntries(rest), NEW d \in Range(b) PROVE d[1] # e[1]
  <2>1. PICK g \in Flushers : \E c \in rest[g] : e \in Range(c)
    BY HandMembers
  <2>2. PICK c \in rest[g] : e \in Range(c)
    BY <2>1
  <2>3. c \in hand[g] /\ g = f
    BY <1>2, <2>2 DEF OneHand
  <2>4. c # b
    BY <1>1, <2>2
  <2>5. SourceTrace[e[1]] # SourceTrace[d[1]]
    BY <2>2, <2>3, <2>4 DEF Ordered
  <2> QED BY <2>5
<1>4. \A e \in ToSet(buf), d \in Range(b) : d[1] = e[1] => d[2] < e[2]
  BY <1>1 DEF Ordered
<1>5. \A e \in HeldIn(buf, rest), d \in stored \cup Range(b) : d[1] = e[1] => d[2] < e[2]
  BY <1>1, <1>3, <1>4 DEF Ordered, HeldIn
<1>6. \A g \in Flushers : \A c1, c2 \in rest[g] : \A e \in Range(c1), d \in Range(c2) :
          SourceTrace[e[1]] = SourceTrace[d[1]] <=> c1 = c2
  BY <1>2 DEF Ordered
<1> QED BY <1>1, <1>5, <1>6 DEF Ordered

(* Draining an ordered buffer into empty hands keeps the order.             *)
LEMMA OrderedDrain ==
    ASSUME NEW pipe, pipe[2] = "spans", NEW buf, BufferSound(buf), NEW hand, NEW stored,
           Ordered(buf, hand, stored), DOMAIN hand = Flushers, \A g \in Flushers : hand[g] = {},
           NEW f \in Flushers, NEW full, full = [hand EXCEPT ![f] = Planned(pipe, buf)],
           HeldIn(<<>>, full) = HeldIn(buf, hand)
    PROVE  Ordered(<<>>, full, stored)
<1> PICK n : n = Len(buf)
  OBVIOUS
<1>1. n \in Nat /\ DOMAIN buf = 1..n
  BY DEF BufferSound
<1>2. full[f] = Planned(pipe, buf) /\ \A g \in Flushers : g # f => full[g] = {}
  OBVIOUS
<1>3. ToSet(<<>>) = {}
  BY DEF ToSet
<1>4. ASSUME NEW b \in Planned(pipe, buf)
      PROVE  \E i \in 1..n : \A e : e \in Range(b) <=>
                 \E j \in 1..n : e = buf[j] /\ SourceTrace[buf[j][1]] = SourceTrace[buf[i][1]]
  <2>1. PICK i \in 1..n : b = [j \in {k \in 1..n : OneBatch(pipe, buf[k], buf[i])} |-> buf[j]]
    BY <1>1 DEF Planned
  <2>2. \A k \in 1..n : OneBatch(pipe, buf[k], buf[i]) <=> SourceTrace[buf[k][1]] = SourceTrace[buf[i][1]]
    BY DEF OneBatch
  <2>3. ASSUME NEW e
        PROVE  e \in Range(b) <=>
                 \E j \in 1..n : e = buf[j] /\ SourceTrace[buf[j][1]] = SourceTrace[buf[i][1]]
    BY <2>1, <2>2 DEF Range
  <2> QED BY <2>3
<1>5. /\ \A b, c \in Planned(pipe, buf) : b # c => Range(b) \cap Range(c) = {}
  BY Planning
<1>6. ASSUME NEW b \in Planned(pipe, buf), NEW c \in Planned(pipe, buf), NEW e \in Range(b), NEW d \in Range(c)
      PROVE  SourceTrace[e[1]] = SourceTrace[d[1]] <=> b = c
  <2>1. PICK i \in 1..n : \A x : x \in Range(b) <=>
                 \E j \in 1..n : x = buf[j] /\ SourceTrace[buf[j][1]] = SourceTrace[buf[i][1]]
    BY <1>4
  <2>2. PICK k \in 1..n : \A x : x \in Range(c) <=>
                 \E j \in 1..n : x = buf[j] /\ SourceTrace[buf[j][1]] = SourceTrace[buf[k][1]]
    BY <1>4
  <2>3. SourceTrace[e[1]] = SourceTrace[buf[i][1]] /\ SourceTrace[d[1]] = SourceTrace[buf[k][1]]
    BY <2>1, <2>2
  <2>4. ASSUME b = c PROVE SourceTrace[e[1]] = SourceTrace[d[1]]
    <3>1. d \in Range(b)
      BY <2>4
    <3>2. SourceTrace[d[1]] = SourceTrace[buf[i][1]]
      BY <2>1, <3>1
    <3> QED BY <2>3, <3>2
  <2>5. ASSUME SourceTrace[e[1]] = SourceTrace[d[1]] PROVE b = c
    <3>1. PICK j \in 1..n : d = buf[j]
      BY <2>2
    <3>2. d \in Range(b)
      BY <2>1, <2>3, <2>5, <3>1
    <3> QED BY <1>5, <3>2
  <2> QED BY <2>4, <2>5
<1>7. \A g \in Flushers : \A b, c \in full[g] : \A e \in Range(b), d \in Range(c) :
          SourceTrace[e[1]] = SourceTrace[d[1]] <=> b = c
  BY <1>2, <1>6
<1>8. \A e \in HeldIn(<<>>, full), d \in stored : d[1] = e[1] => d[2] < e[2]
  BY DEF Ordered
<1> QED BY <1>3, <1>7, <1>8 DEF Ordered

(* Stored entries of other pipelines are of other sources. *)
LEMMA OrderedElsewhere ==
    ASSUME NEW buf, NEW hand, NEW stored, Ordered(buf, hand, stored), NEW R,
           \A e \in HeldIn(buf, hand), d \in R : d[1] # e[1]
    PROVE  Ordered(buf, hand, stored \cup R)
  BY DEF Ordered

(* An entry closes after the entries its source closed before.              *)
LEMMA AddOrdered ==
    ASSUME closed \in [Sources -> Nat], NEW s \in Sources, closed[s] < SourceEntries[s], Add(s),
           NEW hands, NEW stored, NEW gone,
           CaptureSound(buffers, hands, stored, ClosedEntries, gone),
           NEW q \in Pipes, Ordered(buffers[q], hands[q], stored)
    PROVE  Ordered(buffers'[q], hands[q], stored)
<1> PICK e : e = <<s, closed[s] + 1>>
  OBVIOUS
<1>1. /\ closed' = [closed EXCEPT ![s] = @ + 1]
      /\ \/ buffers' = [buffers EXCEPT ![SourcePipe[s]] = Append(@, e)]
         \/ buffers' = buffers
  BY DEF Add
<1>2. buffers'[q] = buffers[q] \/ buffers'[q] = Append(buffers[q], e)
  BY <1>1 DEF CaptureSound
<1>3. e \in Entries
  BY <1>1, NextEntry
<1>4. \A d \in stored \cup HandEntries(hands[q]) : d \in ClosedEntries
  BY DEF CaptureSound, Accounted, PipeSound, HeldIn, OfPipe
<1>5. ASSUME NEW d \in stored \cup HandEntries(hands[q]), d[1] = e[1] PROVE d[2] < e[2]
  <2>1. d \in Entries /\ d[2] <= closed[d[1]]
    BY <1>4 DEF ClosedEntries
  <2>2. d[2] \in 1..SourceEntries[d[1]] /\ d[1] \in Sources
    BY <2>1, EntryParts
  <2>3. d[2] \in Nat /\ closed[s] \in Nat /\ d[2] <= closed[s] /\ e[2] = closed[s] + 1
    BY <1>5, <2>1, <2>2, TelemetryAssumption
  <2> QED BY <2>3
<1>6. buffers[q] \in Seq(Entries)
  BY DEF CaptureSound, PipeSound, BufferSound
<1>7. Ordered(Append(buffers[q], e), hands[q], stored)
  BY <1>3, <1>5, <1>6, OrderedAdd
<1> QED BY <1>2, <1>7

(* No row describes a span before the first write.                          *)
LEMMA RootsStart == TelemetryInit => RootsInv
<1> SUFFICES ASSUME TelemetryInit PROVE RootsInv
  OBVIOUS
<1>1. CaptureInv
  BY CaptureStarts
<1> PICK none : none = [f \in Flushers |-> {}]
  OBVIOUS
<1>2. ASSUME NEW pipe \in Pipes PROVE HandsOf(pipe) /\ InOrder(pipe)
  <2>1. buffers[pipe] = <<>> /\ inHand[pipe] = none /\ pipeState[pipe] = "running" /\ storedEntries = {}
    BY DEF TelemetryInit
  <2>2. ToSet(<<>>) = {} /\ none["stopper"] = {} /\ \A f \in Flushers : none[f] = {}
    BY DEF ToSet, Flushers
  <2>3. Ordered(<<>>, none, {})
    BY <2>2 DEF Ordered
  <2> QED BY <2>1, <2>2, <2>3 DEF HandsOf, InOrder
<1>3. RowsSound
  BY DEF TelemetryInit, RowsSound, RowSound, NoRow
<1> QED BY <1>1, <1>2, <1>3 DEF RootsInv

(* An entry that closes keeps the order and moves no row.                   *)
LEMMA RootsAdd ==
    ASSUME RootsInv, NEW s \in Sources, CloseEntry(s)
    PROVE  RootsInv'
<1>1. CaptureInv'
  <2>1. TelemetryNext
    BY DEF TelemetryNext
  <2> QED BY <2>1, CaptureSteps DEF RootsInv
<1>2. /\ closed[s] < SourceEntries[s] /\ Add(s)
      /\ UNCHANGED <<inHand, pipeState, traceRows, storedEntries, joinTimedOut>>
  BY DEF CloseEntry
<1>3. /\ closed \in [Sources -> Nat]
      /\ CaptureSound(buffers, inHand, storedEntries, ClosedEntries, dropped + discarded + lostAtExit)
  BY DEF RootsInv, CaptureInv, TelemetryValues
<1>4. ASSUME NEW q \in Pipes PROVE HandsOf(q)' /\ InOrder(q)'
  <2>1. HandsOf(q)'
    BY <1>2 DEF RootsInv, HandsOf
  <2>2. ASSUME Ordered(buffers[q], inHand[q], storedEntries)
        PROVE  Ordered(buffers'[q], inHand[q], storedEntries)
    BY <1>2, <1>3, <2>2, AddOrdered
  <2>3. InOrder(q)'
    BY <1>2, <2>2 DEF RootsInv, InOrder
  <2> QED BY <2>1, <2>3
<1>5. RowsSound'
  BY <1>2 DEF RootsInv, RowsSound
<1> QED BY <1>1, <1>4, <1>5 DEF RootsInv

(* A drain keeps the order while hands are empty.                           *)
LEMMA RootsDrain ==
    ASSUME RootsInv, NEW p \in Pipes, NEW f \in Flushers, Drain(p, f),
           UNCHANGED <<storedEntries, traceRows, joinTimedOut>>, CaptureInv',
           \A g \in Flushers : ~joinTimedOut => inHand[p][g] = {},
           \A q \in Pipes : HandsOf(q)'
    PROVE  RootsInv'
<1>1. CaptureSound(buffers, inHand, storedEntries, ClosedEntries, dropped + discarded + lostAtExit)
  BY DEF RootsInv, CaptureInv
<1>2. /\ \A q \in Pipes : q # p => buffers'[q] = buffers[q] /\ inHand'[q] = inHand[q]
      /\ buffers'[p] = <<>> /\ inHand'[p] = [inHand[p] EXCEPT ![f] = Planned(p, buffers[p])]
      /\ inHand[p][f] = {}
  BY <1>1 DEF Drain, CaptureSound
<1>3. PipeSound(p, buffers[p], inHand[p], storedEntries, ClosedEntries)
  BY <1>1 DEF CaptureSound
<1> PICK buf, hand, full : buf = buffers[p] /\ hand = inHand[p] /\ full = inHand'[p]
  OBVIOUS
<1>4. ASSUME p[2] = "spans", ~joinTimedOut PROVE Ordered(<<>>, full, storedEntries)
  <2>1. /\ BufferSound(buf) /\ DOMAIN hand = Flushers /\ Ordered(buf, hand, storedEntries)
        /\ \A g \in Flushers : hand[g] = {}
    BY <1>3, <1>4 DEF PipeSound, HandSound, RootsInv, InOrder
  <2>2. PipeSound(p, buf, hand, storedEntries, ClosedEntries) /\ hand[f] = {}
        /\ full = [hand EXCEPT ![f] = Planned(p, buf)]
    BY <1>2, <1>3
  <2>3. HeldIn(<<>>, full) = HeldIn(buf, hand)
    BY <2>2, BufferDrained
  <2> QED BY <1>4, <2>1, <2>2, <2>3, OrderedDrain
<1>5. ASSUME NEW q \in Pipes PROVE InOrder(q)'
  <2>1. CASE q = p
    BY <1>2, <1>4, <2>1 DEF InOrder
  <2>2. CASE q # p
    BY <1>2, <2>2 DEF InOrder, RootsInv
  <2> QED BY <2>1, <2>2
<1>6. RowsSound'
  BY DEF RootsInv, RowsSound
<1> QED BY <1>5, <1>6 DEF RootsInv

(* A written batch moves the row of its trace to its anchor; a row that     *)
(* described a root of a request describes one still, or the root of        *)
(* another.                                                                 *)
LEMMA RootsPersist ==
    ASSUME RootsInv, NEW p \in Pipes, NEW f \in Flushers, Persist(p, f)
    PROVE  RootsInv'
<1> PICK b : b = FirstOf(inHand[p][f])
  OBVIOUS
<1>1. /\ WriteBatch(p, b) \/ DiscardBatch(p, b)
      /\ TakesBatch(inHand, inHand', p, f, b)
      /\ UNCHANGED <<pipeState, joinTimedOut>>
  BY DEF Persist, TakesBatch
<1>2. CaptureInv'
  BY PersistKeeps DEF RootsInv
<1>3. CaptureSound(buffers, inHand, storedEntries, ClosedEntries, dropped + discarded + lostAtExit)
  BY DEF RootsInv, CaptureInv
<1>4. PipeSound(p, buffers[p], inHand[p], storedEntries, ClosedEntries) /\ HandSound(inHand[p])
  BY <1>3 DEF CaptureSound, PipeSound
<1>5. b \in inHand[p][f] /\ IsBatch(b)
  BY <1>4, FirstIsThere DEF Persist, HandSound
<1>6. CaptureSound(buffers, inHand', storedEntries, ClosedEntries,
                   dropped + discarded + lostAtExit + Cardinality(DOMAIN b))
  BY <1>1, <1>3, <1>5, CaptureWrites
<1>7. /\ \A q \in Pipes : q # p => inHand'[q] = inHand[q]
      /\ inHand'[p] = [inHand[p] EXCEPT ![f] = inHand[p][f] \ {b}]
  BY <1>1, <1>3 DEF CaptureSound, TakesBatch
<1>8. Range(b) \subseteq HeldIn(buffers[p], inHand[p])
  BY <1>5, BatchesHeld DEF HeldIn
<1> PICK buf, hand, rest : buf = buffers[p] /\ hand = inHand[p] /\ rest = inHand'[p]
  OBVIOUS
<1>9. ASSUME p[2] = "spans", ~joinTimedOut
      PROVE  Ordered(buf, rest, storedEntries \cup Range(b)) /\ Ordered(buf, rest, storedEntries)
  <2>1. Ordered(buf, hand, storedEntries) /\ HandSound(hand) /\ b \in hand[f]
        /\ rest = [hand EXCEPT ![f] = hand[f] \ {b}]
    BY <1>4, <1>5, <1>7, <1>9 DEF RootsInv, InOrder
  <2>2. hand["loop"] = {} \/ hand["stopper"] = {}
    BY <1>9 DEF RootsInv, HandsOf
  <2>3. OneHand(hand)
    BY <2>2 DEF OneHand, Flushers
  <2> QED BY <2>1, <2>3, OrderedWrite
<1>10. ASSUME NEW q \in Pipes PROVE HandsOf(q)'
  <2>1. \A g \in Flushers : inHand[q][g] = {} => inHand'[q][g] = {}
    BY <1>4, <1>7 DEF HandSound
  <2>2. "loop" \in Flushers /\ "stopper" \in Flushers
    BY DEF Flushers
  <2> QED BY <1>1, <2>1, <2>2 DEF RootsInv, HandsOf
<1>11. CASE WriteBatch(p, b)
  <2>1. /\ storedEntries' = storedEntries \cup Range(b) /\ buffers' = buffers
        /\ traceRows' = IF p[2] = "logs" THEN traceRows
                        ELSE [traceRows EXCEPT ![SourceTrace[Anchor(b)[1]]] = Upserted(@, b)]
    BY <1>11 DEF WriteBatch
  <2>2. ASSUME NEW q \in Pipes PROVE InOrder(q)'
    <3>1. CASE q = p
      BY <1>1, <1>9, <2>1, <3>1 DEF InOrder
    <3>2. CASE q # p
      <4>1. \A e \in HeldIn(buffers[q], inHand[q]), d \in Range(b) : d[1] # e[1]
        BY <1>3, <1>8, <3>2 DEF CaptureSound, PipeSound, OfPipe
      <4>2. ASSUME Ordered(buffers[q], inHand[q], storedEntries)
            PROVE  Ordered(buffers[q], inHand[q], storedEntries \cup Range(b))
        BY <4>1, <4>2, OrderedElsewhere
      <4> QED BY <1>1, <1>7, <2>1, <3>2, <4>2 DEF RootsInv, InOrder
    <3> QED BY <3>1, <3>2
  <2>3. ASSUME ~joinTimedOut, NEW t \in TraceIds
        PROVE  RowSound(t, traceRows'[t].anchor, storedEntries \cup Range(b))
    <3>1. RowSound(t, traceRows[t].anchor, storedEntries)
      BY <2>3 DEF RootsInv, RowsSound
    <3>2. \A e \in Range(b) : e \in Entries /\ SourcePipe[e[1]] = p
      BY <1>4, <1>8 DEF PipeSound, OfPipe, ClosedEntries
    <3>3. CASE p[2] # "spans" 
      <4>1. \A a \in Entries : SourcePipe[a[1]][2] = "spans" => RootOf(a) \notin Range(b)
        BY <3>2, <3>3 DEF RootOf
      <4>2. traceRows'[t].anchor = traceRows[t].anchor
        <5>1. p[2] = "logs"
          BY <3>3, TelemetryAssumption DEF Pipes
        <5> QED BY <2>1, <5>1
      <4> QED BY <3>1, <4>1, <4>2 DEF RowSound
    <3>4. CASE p[2] = "spans"
      <4>1. /\ Anchor(b) \in Range(b)
            /\ (\E e \in Range(b) : IsRoot(e)) => IsRoot(Anchor(b))
        BY <1>5, AnchorIsThere
      <4>2. ASSUME NEW e \in Range(b) PROVE SourceTrace[e[1]] = SourceTrace[Anchor(b)[1]]
        <5>1. Ordered(buffers[p], inHand[p], storedEntries)
          BY <2>3, <3>4 DEF RootsInv, InOrder
        <5> QED BY <1>5, <4>1, <5>1 DEF Ordered
      <4>3. CASE t = SourceTrace[Anchor(b)[1]]
        <5>1. traceRows'[t].anchor = Anchor(b)
          BY <2>1, <3>4, <4>3 DEF RootsInv, CaptureInv, TelemetryValues, Upserted
        <5>2. Anchor(b) \in Entries /\ SourcePipe[Anchor(b)[1]][2] = "spans"
          BY <3>2, <3>4, <4>1
        <5>3. ASSUME ~IsRoot(Anchor(b)) PROVE RootOf(Anchor(b)) \notin storedEntries \cup Range(b)
          <6> PICK r, a : r = RootOf(Anchor(b)) /\ a = Anchor(b)
            OBVIOUS
          <6>1. /\ r[1] = a[1] /\ r[2] = SourceEntries[a[1]] /\ a[2] \in 1..SourceEntries[a[1]]
                /\ a[1] \in Sources
            BY <5>2, EntryParts DEF RootOf
          <6>2. IsRoot(r)
            BY <6>1 DEF IsRoot
          <6>3. r \notin Range(b)
            BY <4>1, <5>3, <6>2
          <6>4. r \in storedEntries => r[2] < a[2]
            <7>1. Ordered(buffers[p], inHand[p], storedEntries) /\ a \in HeldIn(buffers[p], inHand[p])
              BY <1>8, <2>3, <3>4, <4>1 DEF RootsInv, InOrder
            <7> QED BY <6>1, <7>1 DEF Ordered
          <6>5. SourceEntries[a[1]] \in Nat /\ a[2] \in Nat /\ a[2] <= SourceEntries[a[1]]
            BY <6>1, TelemetryAssumption
          <6> QED BY <6>1, <6>3, <6>4, <6>5
        <5> QED BY <4>3, <5>1, <5>2, <5>3 DEF RowSound
      <4>4. CASE t # SourceTrace[Anchor(b)[1]]
        <5>1. traceRows'[t].anchor = traceRows[t].anchor
          BY <2>1, <3>4, <4>4 DEF RootsInv, CaptureInv, TelemetryValues
        <5>2. \A a \in Entries : SourceTrace[a[1]] = t => RootOf(a) \notin Range(b)
          BY <4>2, <4>4 DEF RootOf
        <5> QED BY <3>1, <5>1, <5>2 DEF RowSound
      <4> QED BY <4>3, <4>4
    <3> QED BY <3>3, <3>4
  <2>4. RowsSound'
    BY <1>1, <2>1, <2>3 DEF RowsSound
  <2> QED BY <1>2, <1>10, <2>2, <2>4 DEF RootsInv
<1>12. CASE DiscardBatch(p, b)
  <2>1. /\ UNCHANGED <<storedEntries, traceRows>> /\ writeFailures < MaxStoreFaults
        /\ UNCHANGED buffers \/ \E s \in WarningSources : Add(s)
    BY <1>12 DEF DiscardBatch
  <2>2. ASSUME NEW q \in Pipes, q[2] = "spans", ~joinTimedOut
        PROVE  Ordered(buffers[q], inHand'[q], storedEntries)
    <3>1. CASE q = p
      BY <1>9, <2>2, <3>1
    <3>2. CASE q # p
      BY <1>7, <2>2, <3>2 DEF RootsInv, InOrder
    <3> QED BY <3>1, <3>2
  <2>3. ASSUME NEW q \in Pipes PROVE InOrder(q)'
    <3>1. CASE UNCHANGED buffers
      BY <1>1, <2>1, <2>2, <3>1 DEF InOrder
    <3>2. ASSUME NEW s \in WarningSources, Add(s) PROVE InOrder(q)'
      <4>1. s \in Sources /\ closed[s] < SourceEntries[s] /\ closed \in [Sources -> Nat]
        BY <2>1, TelemetryAssumption DEF RootsInv, CaptureInv, TelemetryValues
      <4>2. ASSUME q[2] = "spans", ~joinTimedOut PROVE Ordered(buffers'[q], inHand'[q], storedEntries)
        BY <1>6, <2>2, <3>2, <4>1, <4>2, AddOrdered
      <4> QED BY <1>1, <2>1, <4>2 DEF InOrder
    <3> QED BY <2>1, <3>1, <3>2
  <2>4. RowsSound'
    BY <1>1, <2>1 DEF RootsInv, RowsSound
  <2> QED BY <1>2, <1>10, <2>3, <2>4 DEF RootsInv
<1> QED BY <1>1, <1>11, <1>12

(* A process that ends takes its entries with it and moves no row.          *)
LEMMA RootsEnds ==
    ASSUME RootsInv, NEW process, Ends(process), CaptureInv'
    PROVE  RootsInv'
<1> PICK none : none = [f \in Flushers |-> {}]
  OBVIOUS
<1>1. /\ UNCHANGED <<traceRows, storedEntries, joinTimedOut>>
      /\ \A q \in Pipes : q[1] = process => pipeState'[q] = "down" /\ buffers'[q] = <<>> /\ inHand'[q] = none
      /\ \A q \in Pipes : q[1] # process => pipeState'[q] = pipeState[q] /\ buffers'[q] = buffers[q]
                                            /\ inHand'[q] = inHand[q]
  BY DEF Ends
<1>2. ToSet(<<>>) = {} /\ HandEntries(none) = {} /\ \A f \in Flushers : none[f] = {}
  BY DEF ToSet, HandEntries
<1>3. Ordered(<<>>, none, storedEntries)
  BY <1>2 DEF Ordered, HeldIn
<1>4. ASSUME NEW q \in Pipes PROVE HandsOf(q)' /\ InOrder(q)'
  <2>1. CASE q[1] = process
    BY <1>1, <1>2, <1>3, <2>1 DEF HandsOf, InOrder, Flushers
  <2>2. CASE q[1] # process
    BY <1>1, <2>2 DEF RootsInv, HandsOf, InOrder
  <2> QED BY <2>1, <2>2
<1>5. RowsSound'
  BY <1>1 DEF RootsInv, RowsSound
<1> QED BY <1>4, <1>5 DEF RootsInv

(* Every step keeps the order of each source's entries and the rows sound.  *)
LEMMA RootsSteps == RootsInv /\ [TelemetryNext]_telemetryVars => RootsInv'
<1> SUFFICES ASSUME RootsInv, [TelemetryNext]_telemetryVars PROVE RootsInv'
  OBVIOUS
<1>0. CaptureInv /\ CaptureInv'
  BY CaptureSteps DEF RootsInv
<1>1. ASSUME NEW s \in Sources, CloseEntry(s) PROVE RootsInv'
  BY <1>1, RootsAdd
<1>2. ASSUME NEW p \in Pipes, LoopDrains(p) PROVE RootsInv'
  <2>1. /\ Drain(p, "loop") /\ "loop" \in Flushers /\ pipeState[p] = "running"
        /\ UNCHANGED <<pipeState, storedEntries, traceRows, joinTimedOut>>
    BY <1>2 DEF LoopDrains, Flushers
  <2>2. inHand[p]["loop"] = {} /\ inHand[p]["stopper"] = {}
    BY <2>1 DEF Drain, RootsInv, HandsOf
  <2>3. ASSUME NEW q \in Pipes PROVE HandsOf(q)'
    <3>1. inHand'[q]["stopper"] = inHand[q]["stopper"] /\ (q # p => inHand'[q] = inHand[q])
      BY <2>1 DEF Drain, CaptureInv, CaptureSound, RootsInv
    <3> QED BY <2>1, <3>1 DEF RootsInv, HandsOf
  <2>4. \A g \in Flushers : inHand[p][g] = {}
    BY <2>2 DEF Flushers
  <2> QED BY <1>0, <2>1, <2>3, <2>4, RootsDrain
<1>3. ASSUME NEW p \in Pipes, StopPipe(p) PROVE RootsInv'
  <2>1. /\ pipeState[p] = "running" /\ pipeState'[p] = "stopping"
        /\ \A q \in Pipes : q # p => pipeState'[q] = pipeState[q]
        /\ UNCHANGED <<buffers, inHand, storedEntries, traceRows, joinTimedOut>>
    BY <1>0, <1>3, StateMoved DEF StopPipe
  <2>2. \A q \in Pipes : HandsOf(q)' /\ InOrder(q)'
    BY <2>1 DEF RootsInv, HandsOf, InOrder
  <2> QED BY <1>0, <2>1, <2>2 DEF RootsInv, RowsSound
<1>4. ASSUME NEW p \in Pipes, JoinReturns(p) PROVE RootsInv'
  <2>1. /\ pipeState[p] = "stopping" /\ pipeState'[p] = "final"
        /\ \A q \in Pipes : q # p => pipeState'[q] = pipeState[q]
        /\ joinTimedOut' = (joinTimedOut \/ inHand[p]["loop"] # {})
        /\ UNCHANGED <<buffers, inHand, storedEntries, traceRows>>
    BY <1>0, <1>4, StateMoved DEF JoinReturns
  <2>2. \A q \in Pipes : HandsOf(q)' /\ InOrder(q)'
    BY <2>1 DEF RootsInv, HandsOf, InOrder
  <2> QED BY <1>0, <2>1, <2>2 DEF RootsInv, RowsSound
<1>5. ASSUME NEW p \in Pipes, FinalDrain(p) PROVE RootsInv'
  <2>1. /\ pipeState[p] = "final" /\ pipeState'[p] = "flushing"
        /\ \A q \in Pipes : q # p => pipeState'[q] = pipeState[q]
        /\ Drain(p, "stopper") /\ "stopper" \in Flushers
        /\ UNCHANGED <<storedEntries, traceRows, joinTimedOut>>
    BY <1>0, <1>5, StateMoved DEF FinalDrain, Flushers
  <2>2. inHand[p]["stopper"] = {} /\ (~joinTimedOut => inHand[p]["loop"] = {})
    BY <2>1 DEF Drain, RootsInv, HandsOf
  <2>3. ASSUME NEW q \in Pipes PROVE HandsOf(q)'
    <3>1. inHand'[q]["loop"] = inHand[q]["loop"] /\ (q # p => inHand'[q] = inHand[q])
      BY <2>1 DEF Drain, CaptureInv, CaptureSound, RootsInv
    <3> QED BY <2>1, <2>2, <3>1 DEF RootsInv, HandsOf
  <2>4. \A g \in Flushers : ~joinTimedOut => inHand[p][g] = {}
    BY <2>2 DEF Flushers
  <2> QED BY <1>0, <2>1, <2>3, <2>4, RootsDrain
<1>6. ASSUME NEW p \in Pipes, StopReturns(p) PROVE RootsInv'
  <2>1. /\ pipeState[p] = "flushing" /\ pipeState'[p] = "stopped"
        /\ \A q \in Pipes : q # p => pipeState'[q] = pipeState[q]
        /\ UNCHANGED <<buffers, inHand, storedEntries, traceRows, joinTimedOut>>
    BY <1>0, <1>6, StateMoved DEF StopReturns
  <2>2. \A q \in Pipes : HandsOf(q)' /\ InOrder(q)'
    BY <2>1 DEF RootsInv, HandsOf, InOrder
  <2> QED BY <1>0, <2>1, <2>2 DEF RootsInv, RowsSound
<1>7. ASSUME NEW p \in Pipes, NEW f \in Flushers, Persist(p, f) PROVE RootsInv'
  BY <1>7, RootsPersist
<1>8. ASSUME NEW process, ProcessExits(process) \/ Crash(process) PROVE RootsInv'
  <2>1. Ends(process)
    BY <1>8 DEF ProcessExits, Crash
  <2> QED BY <1>0, <2>1, RootsEnds
<1>9. CASE UNCHANGED telemetryVars
  BY <1>0, <1>9 DEF telemetryVars, RootsInv, HandsOf, InOrder, RowsSound
<1> QED BY <1>1, <1>2, <1>3, <1>4, <1>5, <1>6, <1>7, <1>8, <1>9 DEF TelemetryNext

(* As long as no join of a flush thread timed out, the row of a trace       *)
(* describes the root span of a request once every span of the trace is     *)
(* stored (upsert_trace, the flush workers' order). Until then it may not:  *)
(* where two requests share the trace, a batch of the second one's children *)
(* turns the row from the first one's root to a child, and only the second  *)
(* root, which its children do not overtake, turns it to a root again.      *)
THEOREM RowsDescribeRoots == TelemetrySpec => []RootsDescribeTraces
<1>1. ASSUME RootsInv PROVE RootsDescribeTraces
  <2> SUFFICES ASSUME NEW t \in TraceIds, ~joinTimedOut,
                      {e \in Entries : SourceTrace[e[1]] = t /\ SourcePipe[e[1]][2] = "spans"}
                          \subseteq storedEntries,
                      traceRows[t].anchor # NoEntry
               PROVE  IsRoot(traceRows[t].anchor)
    BY DEF RootsDescribeTraces
  <2> PICK a : a = traceRows[t].anchor
    OBVIOUS
  <2>1. /\ a \in Entries /\ SourceTrace[a[1]] = t /\ SourcePipe[a[1]][2] = "spans"
        /\ IsRoot(a) \/ RootOf(a) \notin storedEntries
    BY <1>1 DEF RootsInv, RowsSound, RowSound
  <2>2. RootOf(a) \in Entries /\ RootOf(a)[1] = a[1]
    <3>1. a[1] \in Sources /\ SourceEntries[a[1]] \in 1..SourceEntries[a[1]]
      BY <2>1, EntryParts, TelemetryAssumption
    <3> QED BY <3>1, EntryParts DEF RootOf
  <2> QED BY <2>1, <2>2
<1>2. TelemetrySpec => []RootsInv
  BY RootsStart, RootsSteps, PTL DEF TelemetrySpec
<1> QED BY <1>1, <1>2, PTL
===============================================================================
