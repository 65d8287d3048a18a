----------------------------- MODULE Conversations -----------------------------
(***************************************************************************)
(* One conversation (conversation.py): a request reads the whole record,   *)
(* and when it is answered puts it back with its turn appended; forgetting *)
(* reads it and puts it back empty. Neither put is conditional. A turn is  *)
(* modelled by the request that was answered.                              *)
(***************************************************************************)
EXTENDS Naturals, Sequences, SequencesExt, FiniteSets

CONSTANTS
    Requests,        \* requests to the ask endpoints
    MaxTurns,        \* conversation_max_turns
    RewriteWindow,   \* conversation_rewrite_window
    Scopes,          \* document_ids a request may select
    NoScope          \* none selected

ASSUME ConversationAssumption ==
    /\ MaxTurns \in Nat \ {0} /\ RewriteWindow \in Nat \ {0}
    /\ NoScope \notin Scopes

VARIABLES
    conversation,    \* the stored ConversationRecord
    lastTurn,        \* history: what was put last: a request, or NoTurn
    forgetting,      \* the call of forget under way: the scope it read, or idle
    forgotten        \* history: the turns the last forget had read

conversationVars == <<conversation, lastTurn, forgetting, forgotten>>

NoTurn == "none"
NoConversation == [stored |-> FALSE, turns |-> <<>>, scope |-> NoScope]
NotForgetting == [busy |-> FALSE, scope |-> NoScope]

ConversationInit ==
    /\ conversation = NoConversation
    /\ lastTurn = NoTurn
    /\ forgetting = NotForgetting
    /\ forgotten = {}

(* prepare: a record that is missing or cannot be read is a new one. The    *)
(* scope of the request wins over the conversation's.                       *)
Prepared(record, scope, forget) ==
    [turns  |-> record.turns,
     forget |-> forget,
     scope  |-> IF scope # NoScope THEN scope ELSE record.scope]

(* The last n of a history, turns[-n:]. *)
LastOf(n, turns) ==
    SubSeq(turns, IF Len(turns) > n THEN Len(turns) - n + 1 ELSE 1, Len(turns))

PriorTurns(prepared) == IF prepared.forget THEN <<>> ELSE prepared.turns

(* The turns a request goes on from, and those its question is rewritten    *)
(* with: the window's, or none where rewriting is disabled, raises or gives *)
(* the question back as it was asked.                                       *)
TurnsRead(prepared, rewritten) ==
    [prior |-> PriorTurns(prepared),
     shown |-> IF rewritten THEN LastOf(RewriteWindow, PriorTurns(prepared)) ELSE <<>>]

(* Definitions whose comment begins with "Fault:" are not part of the       *)
(* specification: each is the definition after it with a plausible mistake. *)

(* Fault: the turn is appended to the record as it is now. *)
AppendedToCurrent(prepared, r) ==
    LET history == IF prepared.forget THEN <<>> ELSE conversation.turns
    IN  [stored |-> TRUE, scope |-> prepared.scope,
         turns |-> LastOf(MaxTurns, Append(history, r))]

(* record_turn: the history it had read, its turn, and the last of them.    *)
WithTurn(prepared, r) ==
    [stored |-> TRUE, scope |-> prepared.scope,
     turns |-> LastOf(MaxTurns, Append(PriorTurns(prepared), r))]

PutTurn(prepared, r) ==
    /\ conversation' = WithTurn(prepared, r)
    /\ lastTurn' = r
    /\ UNCHANGED <<forgetting, forgotten>>

(* POST /conversations/{id}/forget: 404 without a record. *)
ForgetLoads ==
    /\ ~forgetting.busy
    /\ conversation.stored
    /\ forgetting' = [busy |-> TRUE, scope |-> conversation.scope]
    /\ forgotten' = ToSet(conversation.turns)
    /\ UNCHANGED <<conversation, lastTurn>>

ForgetPuts ==
    /\ forgetting.busy
    /\ conversation' = [stored |-> TRUE, turns |-> <<>>, scope |-> forgetting.scope]
    /\ lastTurn' = NoTurn
    /\ forgetting' = NotForgetting
    /\ UNCHANGED forgotten

(* The put raises: a 500. *)
ForgetFails ==
    /\ forgetting.busy
    /\ forgetting' = NotForgetting
    /\ forgotten' = {}
    /\ UNCHANGED <<conversation, lastTurn>>

ForgetNext == ForgetLoads \/ ForgetPuts \/ ForgetFails

------------------------------------------------------------------------------
ConversationTypeOK ==
    /\ conversation \in [stored : BOOLEAN, turns : Seq(Requests), scope : Scopes \cup {NoScope}]
    /\ Len(conversation.turns) <= MaxTurns
    /\ lastTurn \in Requests \cup {NoTurn}
    /\ forgetting \in [busy : BOOLEAN, scope : Scopes \cup {NoScope}]
    /\ forgotten \subseteq Requests

(* The record holds the turn that was put last, and nothing after a forget. *)
LastTurnKept ==
    IF conversation.turns = <<>> THEN lastTurn = NoTurn
    ELSE conversation.turns[Len(conversation.turns)] = lastTurn

(* "subsequent follow-ups stop referencing earlier turns": once a forget    *)
(* has returned, the turns it found are gone from the record.               *)
ForgottenStaysForgotten ==
    ~forgetting.busy => ToSet(conversation.turns) \cap forgotten = {}
================================================================================
