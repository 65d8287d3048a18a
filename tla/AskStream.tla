------------------------------- MODULE AskStream -------------------------------
(***************************************************************************)
(* POST /ask/stream (api.py): a thread of its own pulls the router's       *)
(* events, one stage at a time, and posts each to the event loop's queue;  *)
(* the response generator sends what it takes from the queue, and polls    *)
(* for the client. Client, generator and thread stop in any order; a turn  *)
(* is recorded before the answer is posted.                                *)
(***************************************************************************)
EXTENDS Naturals, Sequences, SequencesExt

VARIABLES
    producer,   \* the thread: what it does, and the event it holds
    posted,     \* the queue of the event loop
    stop,       \* stop_event
    sender,     \* the response generator: "open" or "closed"
    client,     \* "here" or "gone"
    received,   \* what the client was sent
    turn        \* whether the answer's turn was recorded

streamVars == <<producer, posted, stop, sender, client, received, turn>>

Stages == <<"classify", "retrieve", "generate", "verify">>
Terminals == {"clarification", "abstention", "answer"}
Endings == Terminals \cup {"error"}
Events == ToSet(Stages) \cup Endings
Sentinel == "sentinel"

StreamInit ==
    /\ producer = [at |-> "new", after |-> 0, event |-> Sentinel]
    /\ posted = <<>> /\ received = <<>>
    /\ stop = FALSE /\ sender = "open" /\ client = "here"
    /\ turn = FALSE

(* The request: the thread is started. *)
OpenStream ==
    /\ producer.at = "new"
    /\ producer' = [producer EXCEPT !.at = "run"]
    /\ UNCHANGED <<posted, stop, sender, client, received, turn>>

Holds(event, stage) == producer' = [at |-> "holds", after |-> stage, event |-> event]

(* Definitions whose comment begins with "Fault:" are not part of the       *)
(* specification: each is the definition after it with a plausible mistake. *)

(* Fault: the prompt does not end the stream. *)
EventAfterPrompt ==
    LET i == producer.after IN
    \/ i < Len(Stages) /\ Holds(Stages[i + 1], i + 1) /\ UNCHANGED turn
    \/ i = 1 /\ Holds("clarification", 1) /\ UNCHANGED turn
    \/ i = Len(Stages) /\ Holds("abstention", 5) /\ UNCHANGED turn
    \/ i = Len(Stages) /\ Holds("answer", 5) /\ turn' \in BOOLEAN

(* query_stream to its next event: the stage's announcement, or the event   *)
(* that ends the stream. After stage i come its work and the next event;    *)
(* the prompt of an ambiguous question ends the stream after "classify".    *)
NextEvent ==
    LET i == producer.after IN
    \/ /\ i < Len(Stages)
       /\ Holds(Stages[i + 1], i + 1)
       /\ UNCHANGED turn
    \/ /\ i = 1
       /\ Holds("clarification", 5)
       /\ UNCHANGED turn
    \/ /\ i = Len(Stages)
       /\ \/ Holds("abstention", 5) /\ UNCHANGED turn
          \/ Holds("answer", 5) /\ turn' \in BOOLEAN

(* The generator is exhausted, or the stage raises. *)
RunStageOfStream ==
    /\ producer.at = "run"
    /\ \/ producer.after < 5 /\ NextEvent
       \/ producer.after = 5 /\ producer' = [producer EXCEPT !.at = "over"] /\ UNCHANGED turn
       \/ producer.after < 5 /\ producer' = [producer EXCEPT !.at = "raised"] /\ UNCHANGED turn
    /\ UNCHANGED <<posted, stop, sender, client, received>>

(* Between two events: stop, or post the one held. *)
EmitEvent ==
    /\ producer.at = "holds"
    /\ IF stop
       THEN producer' = [producer EXCEPT !.at = "over"] /\ UNCHANGED posted
       ELSE /\ posted' = Append(posted, producer.event)
            /\ producer' = [producer EXCEPT !.at = "run"]
    /\ UNCHANGED <<stop, sender, client, received, turn>>

EmitError ==
    /\ producer.at = "raised"
    /\ posted' = Append(posted, "error")
    /\ producer' = [producer EXCEPT !.at = "over"]
    /\ UNCHANGED <<stop, sender, client, received, turn>>

(* Fault: the sentinel follows a stream that ran to its end. *)
PostSentinelAfterTerminal ==
    /\ producer.at = "over"
    /\ posted' = IF producer.after = 5 THEN Append(posted, Sentinel) ELSE posted
    /\ producer' = [producer EXCEPT !.at = "dead"]
    /\ UNCHANGED <<stop, sender, client, received, turn>>

(* finally: the sentinel, however the thread got here. *)
PostSentinel ==
    /\ producer.at = "over"
    /\ posted' = Append(posted, Sentinel)
    /\ producer' = [producer EXCEPT !.at = "dead"]
    /\ UNCHANGED <<stop, sender, client, received, turn>>

Producer == RunStageOfStream \/ EmitEvent \/ EmitError \/ PostSentinel

(* event_stream: a client that is gone (found by the poll, or by a send     *)
(* that fails), the sentinel, or an event to send.                          *)
SendEvent ==
    /\ producer.at # "new" /\ sender = "open" /\ (client = "gone" \/ posted # <<>>)
    /\ IF client = "gone" \/ Head(posted) = Sentinel
       THEN sender' = "closed" /\ stop' = TRUE /\ UNCHANGED received
       ELSE received' = Append(received, Head(posted)) /\ UNCHANGED <<sender, stop>>
    /\ posted' = IF client = "gone" THEN posted ELSE Tail(posted)
    /\ UNCHANGED <<producer, client, turn>>

ClientLeaves ==
    /\ producer.at # "new" /\ client = "here"
    /\ client' = "gone"
    /\ UNCHANGED <<producer, posted, stop, sender, received, turn>>

StreamNext == OpenStream \/ Producer \/ SendEvent \/ ClientLeaves

StreamSpec ==
    StreamInit /\ [][StreamNext]_streamVars /\ WF_streamVars(Producer) /\ WF_streamVars(SendEvent)

------------------------------------------------------------------------------
(* Properties.                                                             *)

StreamTypeOK ==
    /\ producer \in [at : {"new", "run", "holds", "raised", "over", "dead"}, after : 0..5,
                     event : Events \cup {Sentinel}]
    /\ posted \in Seq(Events \cup {Sentinel}) /\ received \in Seq(Events)
    /\ stop \in BOOLEAN /\ turn \in BOOLEAN
    /\ sender \in {"open", "closed"} /\ client \in {"here", "gone"}

EndsOnce(events) == \A i \in DOMAIN events : events[i] \in Endings => i = Len(events)

(* "The stream ends with exactly one terminal event": nothing follows the   *)
(* event that ends a stream, a client that stayed has got it when the       *)
(* response is closed, and no turn is recorded that ends otherwise.         *)
StreamEndsOnce ==
    /\ EndsOnce(received)
    /\ sender = "closed" /\ client = "here" =>
          received # <<>> /\ Last(received) \in Endings /\ (turn => Last(received) = "answer")

(* Every stream is closed and its thread ends, whoever leaves first. *)
StreamsFinish == producer.at = "run" ~> sender = "closed" /\ producer.at = "dead"
================================================================================
