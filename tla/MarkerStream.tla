------------------------------ MODULE MarkerStream ------------------------------
(***************************************************************************)
(* The token stream of an answer (generation.answer_stream): the model's   *)
(* pieces hold the prose, a marker and metadata, cut anywhere; the prose   *)
(* is forwarded as deltas while the pieces come, and the marker never is.  *)
(***************************************************************************)
EXTENDS Integers, Sequences, SequencesExt

CONSTANTS
    Symbols,         \* what the stream is made of
    Marker,          \* META_MARKER
    MaxPiece,        \* bound: the length of a piece
    MaxStream        \* bound: the length of a stream

ASSUME MarkerAssumption ==
    /\ Marker \in Seq(Symbols) /\ Marker # <<>>
    /\ MaxPiece \in Nat \ {0} /\ MaxStream \in Nat

VARIABLES
    buffer,          \* what the model has produced
    deltas,          \* what was forwarded, put together
    tokenStream      \* "open", "ended" or "raised"

markerVars == <<buffer, deltas, tokenStream>>

MarkerInit == buffer = <<>> /\ deltas = <<>> /\ tokenStream = "open"

(* buffer.find(META_MARKER): what stands before it, and whether it is there. *)
MarkerEndsAt(text) ==
    {k \in Len(Marker)..Len(text) : SubSeq(text, k - Len(Marker) + 1, k) = Marker}
HasMarker(text) == MarkerEndsAt(text) # {}
BeforeMarker(text) ==
    LET first == CHOOSE k \in MarkerEndsAt(text) : \A m \in MarkerEndsAt(text) : k <= m
    IN  SubSeq(text, 1, first - Len(Marker))

(* The deltas are what has been forwarded of the buffer, from its start.    *)
Forwards(text, end) == deltas' = IF end > Len(deltas) THEN SubSeq(text, 1, end) ELSE deltas

(* Definitions whose comment begins with "Fault:" are not part of the       *)
(* specification: each is the definition after it with a plausible mistake. *)

(* Fault: one character fewer is held back. *)
SafeButOne(text) == Len(text) - (Len(Marker) - 2)

(* As much as a marker that has begun cannot reach. *)
Safe(text) == Len(text) - (Len(Marker) - 1)

TakePiece ==
    /\ tokenStream = "open"
    /\ \E piece \in SeqOf(Symbols, MaxPiece) :
          /\ piece # <<>> /\ Len(buffer) + Len(piece) <= MaxStream
          /\ buffer' = buffer \o piece
    /\ IF HasMarker(buffer') THEN Forwards(buffer', Len(BeforeMarker(buffer')))
       ELSE Forwards(buffer', Safe(buffer'))
    /\ UNCHANGED tokenStream

(* The model has finished: without a marker what was held back is prose.    *)
EndTokens ==
    /\ tokenStream = "open"
    /\ tokenStream' = "ended"
    /\ IF HasMarker(buffer) THEN UNCHANGED deltas ELSE Forwards(buffer, Len(buffer))
    /\ UNCHANGED buffer

(* The call raises, at any point; it is not tried again. *)
TokensRaise ==
    /\ tokenStream = "open"
    /\ tokenStream' = "raised"
    /\ UNCHANGED <<buffer, deltas>>

MarkerNext == TakePiece \/ EndTokens \/ TokensRaise

MarkerSpec == MarkerInit /\ [][MarkerNext]_markerVars

------------------------------------------------------------------------------
(* Properties.                                                             *)

MarkerTypeOK ==
    /\ buffer \in Seq(Symbols) /\ deltas \in Seq(Symbols)
    /\ tokenStream \in {"open", "ended", "raised"}

Prose == IF HasMarker(buffer) THEN BeforeMarker(buffer) ELSE buffer

(* "a marker split across chunk boundaries is never emitted": however the   *)
(* stream is cut the deltas are the beginning of its prose, and all of it   *)
(* when it has ended.                                                       *)
DeltasAreTheProse ==
    /\ IsPrefix(deltas, Prose)
    /\ tokenStream = "ended" => deltas = Prose
================================================================================
