----------------------------- MODULE AgenticRouter -----------------------------
(***************************************************************************)
(* The unified answer path (router.py, /ask, /ask/stream, /ask/clarify):   *)
(* prepare the conversation, classify, clarify or route, gate the answer,  *)
(* record the turn. Requests run concurrently; each of them may be of the  *)
(* one conversation, or a reply to a clarification.                        *)
(***************************************************************************)
EXTENDS Conversations, Clarifications

CONSTANTS MaxAskFaults   \* bound: calls of a store or a model that fail

(* Any request may issue a clarification, in the scope it was asked in. *)
ASSUME RouterAssumption ==
    /\ MaxAskFaults \in Nat
    /\ Askers = Requests /\ NoTurn \notin Requests
    /\ ClarificationScopes = Scopes \cup {NoScope}

VARIABLES
    asks,        \* what each request knows and how far it has got
    readBy,      \* history: the turns each request had read, and those it was rewritten with
    askFaults

routerVars == <<conversationVars, clarificationVars, asks, readBy, askFaults>>

Routes == {"rag", "database", "hybrid"}

(* What a route's pipelines find: the passages and how they score, whether  *)
(* the confidence reaches the route's minimum, what verification says of    *)
(* the claims ("supported" also where they are partially so, or could not   *)
(* be verified), and whether the SQL returned rows.                         *)
Evidence == [hits      : {"none", "weak", "good"},
             confident : BOOLEAN,
             claims    : {"supported", "unsupported", "conflicting"},
             rows      : BOOLEAN]
NotGathered == [hits |-> "good", confident |-> TRUE, claims |-> "supported", rows |-> TRUE]
EvidenceOf(route) ==
    {e \in Evidence : /\ route # "rag" => e.hits = "good"
                      /\ route = "database" => e.claims = "supported"
                      /\ route # "database" => e.rows}

NewAsk == [pc |-> "new", replyTo |-> NoTurn, turns |-> <<>>, forget |-> FALSE,
           scope |-> NoScope, route |-> "rag", ambiguous |-> FALSE,
           evidence |-> NotGathered, outcome |-> "none"]

NothingRead == [prior |-> <<>>, shown |-> <<>>]

RouterInit ==
    /\ ConversationInit /\ ClarificationsInit
    /\ asks = [r \in Requests |-> NewAsk]
    /\ readBy = [r \in Requests |-> NothingRead]
    /\ askFaults = 0

AskAt(r, pc) == asks[r].pc = pc
IsReply(r) == asks[r].replyTo # NoTurn
AskFault == askFaults < MaxAskFaults /\ askFaults' = askFaults + 1

(* What a request no longer needs is dropped. *)
Ends(r, outcome) ==
    LET kept == [asks[r] EXCEPT !.pc = "done", !.outcome = outcome, !.turns = <<>>,
                                !.forget = FALSE, !.ambiguous = @ /\ IsReply(r)]
    IN  asks' = [asks EXCEPT ![r] =
            IF outcome = "answer" THEN kept
            ELSE [kept EXCEPT !.route = "rag", !.evidence = NotGathered]]

(* Definitions whose comment begins with "Fault:" are not part of the       *)
(* specification: each is the definition after it with a plausible mistake. *)

(* Fault: every request may be asked for clarification. *)
MayClarifyAlways(replyTo) == TRUE

(* allow_clarification is off for a reply. *)
MayClarify(replyTo) == replyTo = NoTurn

(* The classifier says whether the question is ambiguous. *)
Classified(r, prepared, replyTo) ==
    \E ambiguous \in BOOLEAN :
        asks' = [asks EXCEPT ![r] = [@ EXCEPT
            !.turns = prepared.turns, !.forget = prepared.forget, !.scope = prepared.scope,
            !.replyTo = replyTo, !.ambiguous = ambiguous,
            !.pc = IF ambiguous /\ MayClarify(replyTo) THEN "clarify" ELSE "route"]]

(* /ask or /ask/stream with the conversation's id: the record is loaded (as *)
(* a new one where the store fails), the question rewritten or left as it   *)
(* is, and classified.                                                      *)
StartAsk(r) ==
    /\ AskAt(r, "new")
    /\ \E scope \in Scopes \cup {NoScope}, forget \in BOOLEAN, rewritten \in BOOLEAN :
          \/ LET prepared == Prepared(conversation, scope, forget) IN
             /\ Classified(r, prepared, NoTurn)
             /\ readBy' = [readBy EXCEPT ![r] = TurnsRead(prepared, rewritten)]
             /\ UNCHANGED askFaults
          \/ /\ AskFault
             /\ Classified(r, Prepared(NoConversation, scope, forget), NoTurn)
             /\ UNCHANGED readBy
    /\ UNCHANGED <<conversationVars, clarificationVars>>

(* Fault: the path is run without the record's document_scope. *)
ReplyUnscoped(k) == NoScope

ReplyScope(k) == clarifications[k].scope

(* /ask/clarify: the question again, with the reply, in the record's scope, *)
(* as the first turn of a conversation of its own.                          *)
StartReply(r) ==
    /\ AskAt(r, "new")
    /\ \E k \in Requests \ {r} :
          /\ IsIssued(k)
          /\ IF MayReply(k)
             THEN Classified(r, Prepared(NoConversation, ReplyScope(k), FALSE), k)
             ELSE Ends(r, "rejected")
    /\ UNCHANGED <<conversationVars, clarificationVars, readBy, askFaults>>

(* The prompt ends the request. When its record cannot be stored the best   *)
(* guess is routed.                                                         *)
IssueClarification(r) ==
    /\ AskAt(r, "clarify")
    /\ \/ /\ IssueRecord(r, asks[r].scope)
          /\ Ends(r, "clarification")
          /\ UNCHANGED askFaults
       \/ /\ AskFault
          /\ asks' = [asks EXCEPT ![r].pc = "route", ![r].ambiguous = FALSE]
          /\ UNCHANGED clarificationVars
    /\ UNCHANGED <<conversationVars, readBy>>

(* The signals a route's response carries: retrieval scores for documents   *)
(* alone, claims for documents alone, a row count for the database alone.   *)
Signals(route, evidence) ==
    [retrieval |-> IF route = "rag" THEN evidence.hits ELSE "skipped",
     confident |-> evidence.confident,
     claims    |-> IF route = "rag" THEN evidence.claims ELSE "supported",
     noRows    |-> route = "database" /\ ~evidence.rows]

(* Fault: claims that conflict count as supported. *)
AbstainsUnlessConflicting(s) ==
    \/ s.retrieval \in {"none", "weak"} \/ ~s.confident
    \/ s.claims = "unsupported" \/ s.noRows

(* evaluate_abstention: any of the six triggers. *)
Abstains(s) ==
    \/ s.retrieval \in {"none", "weak"} \/ ~s.confident
    \/ s.claims \in {"unsupported", "conflicting"} \/ s.noRows

(* The pipeline of a route runs and its response is gated. The route is the *)
(* classifier's, or the documents when the copilot is unavailable.          *)
RouteAndGate(r) ==
    /\ AskAt(r, "route")
    /\ \E route \in Routes : \E e \in EvidenceOf(route) :
          IF Abstains(Signals(route, e)) THEN Ends(r, "abstention")
          ELSE asks' = [asks EXCEPT ![r].pc = "record", ![r].route = route, ![r].evidence = e]
    /\ UNCHANGED <<conversationVars, clarificationVars, readBy, askFaults>>

(* record_turn, best effort; a reply's turn goes to its own conversation.   *)
RecordTurn(r) ==
    /\ AskAt(r, "record")
    /\ Ends(r, "answer")
    /\ \/ /\ ~IsReply(r)
          /\ PutTurn([turns |-> asks[r].turns, forget |-> asks[r].forget,
                      scope |-> asks[r].scope], r)
          /\ UNCHANGED askFaults
       \/ /\ IF IsReply(r) THEN UNCHANGED askFaults ELSE AskFault
          /\ UNCHANGED conversationVars
    /\ UNCHANGED <<clarificationVars, readBy>>

(* The classifier, a pipeline or the copilot raises: a 503, or an event.   *)
AskFails(r) ==
    /\ AskAt(r, "route")
    /\ AskFault
    /\ Ends(r, "error")
    /\ UNCHANGED <<conversationVars, clarificationVars, readBy>>

Forget == ForgetNext /\ UNCHANGED <<clarificationVars, asks, readBy, askFaults>>
TimePasses == AskTick /\ UNCHANGED <<conversationVars, asks, readBy, askFaults>>

RouterNext ==
    \/ Forget
    \/ TimePasses
    \/ \E r \in Requests :
          \/ StartAsk(r) \/ StartReply(r) \/ IssueClarification(r)
          \/ RouteAndGate(r) \/ RecordTurn(r) \/ AskFails(r)

RouterSpec == RouterInit /\ [][RouterNext]_routerVars

------------------------------------------------------------------------------
(* Properties.                                                             *)

RouterTypeOK ==
    /\ ConversationTypeOK /\ ClarificationsTypeOK
    /\ asks \in [Requests -> [pc : {"new", "clarify", "route", "record", "done"},
                              replyTo : Requests \cup {NoTurn}, turns : Seq(Requests),
                              forget : BOOLEAN, scope : Scopes \cup {NoScope}, route : Routes,
                              ambiguous : BOOLEAN, evidence : Evidence,
                              outcome : {"none", "clarification", "answer", "abstention",
                                         "rejected", "error"}]]
    /\ readBy \in [Requests -> [prior : Seq(Requests), shown : Seq(Requests)]]
    /\ askFaults \in 0..MaxAskFaults

Answered(r) == asks[r].outcome = "answer"

IsNthLast(n, turns, r) == n <= Len(turns) /\ turns[Len(turns) + 1 - n] = r

(* However requests to one conversation overlap, its record explains every  *)
(* answer in it. What stands before a turn is what its request had read, in *)
(* that order and with nothing put between; where the question was          *)
(* rewritten, the turns of the window that stand right before it are those  *)
(* the rewriting was shown. The turn that was put last is there.            *)
RecordExplainsItsTurns ==
    /\ \A i, j \in DOMAIN conversation.turns : i < j =>
          LET earlier == conversation.turns[i]
              read    == readBy[conversation.turns[j]]
          IN  /\ IsNthLast(j - i, read.prior, earlier)
              /\ read.shown # <<>> /\ j - i <= RewriteWindow =>
                    IsNthLast(j - i, read.shown, earlier)
    /\ LastTurnKept

(* An answer has passed every gate that reads the signals of its route, and *)
(* only answers are turns: what was withheld is not fed to follow-ups.      *)
AnswersPassTheirGates ==
    /\ \A r \in Requests : Answered(r) =>
          /\ asks[r].evidence.confident
          /\ asks[r].route = "rag" =>
                asks[r].evidence.hits = "good" /\ asks[r].evidence.claims = "supported"
          /\ asks[r].route = "database" => asks[r].evidence.rows
    /\ \A r \in ToSet(conversation.turns) : Answered(r)

(* A question is clarified once: a reply is never answered with a further   *)
(* prompt, and searches the scope the question was asked in, inherited or   *)
(* not, whatever the conversation has become since.                         *)
ClarifiedOnceInScope ==
    \A r \in Requests : IsReply(r) =>
        ~IsIssued(r) /\ asks[r].scope = asks[asks[r].replyTo].scope

(* "IF an Answer would contain one or more material Claims with an          *)
(* Evidence_Status of unsupported" or conflicting ones, it is withheld.     *)
AnswersAreSupported == \A r \in Requests : Answered(r) => asks[r].evidence.claims = "supported"

(* "IF, after the one permitted clarification for an original question, the *)
(* RAG_System still cannot resolve the ambiguity", it abstains.             *)
UnresolvedRepliesAbstain == \A r \in Requests : IsReply(r) /\ asks[r].ambiguous => ~Answered(r)
================================================================================
