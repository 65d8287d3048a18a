-------------------------- MODULE AgenticRouterProofs --------------------------
(***************************************************************************)
(* For any number of overlapping requests to one conversation: its record  *)
(* explains its turns, answers have passed the gates of their route, and a *)
(* question is clarified once, in the scope it was asked in. The invariant *)
(* follows the turns a request holds from prepare to record_turn: they are *)
(* of answered requests, so that nothing that happens meanwhile changes    *)
(* what they stand for.                                                    *)
(***************************************************************************)
EXTENDS AgenticRouter, SequenceTheorems, TLAPS

InFlight == {"clarify", "route", "record"}

(* Turns of answered requests, each of which had read the turns before it.  *)
TurnsHold(turns, states, read) ==
    /\ \A i \in DOMAIN turns : states[turns[i]].outcome = "answer"
    /\ \A i, j \in DOMAIN turns :
          i < j => IsNthLast(j - i, read[turns[j]].prior, turns[i])

(* What requests may have read: the window's turns, or none, were shown.    *)
Reads == {read \in [prior : Seq(Requests), shown : Seq(Requests)] :
             read.shown \in {<<>>, LastOf(RewriteWindow, read.prior)}}

(* What AnswersPassTheirGates says of one request. *)
Passed(q) ==
    /\ q.evidence.confident
    /\ q.route = "rag" => q.evidence.hits = "good" /\ q.evidence.claims = "supported"
    /\ q.route = "database" => q.evidence.rows

(* What a request's state says of it, and of the turns it has read. *)
AskOk(q, read) ==
    /\ q.pc = "done" => q.outcome # "none"
    /\ q.pc # "done" => q.outcome = "none"
    /\ q.pc \in InFlight => read.prior = PriorTurns(q)
    /\ q.pc = "record" \/ q.outcome = "answer" => Passed(q)
    /\ q.pc = "new" => read = NothingRead
    /\ q.pc \in {"new", "clarify"} => q.replyTo = NoTurn

AsksHold ==
    \A r \in Requests : AskOk(asks[r], readBy[r]) /\ TurnsHold(asks[r].turns, asks, readBy)

ConversationHolds == TurnsHold(conversation.turns, asks, readBy) /\ LastTurnKept

ClarificationsHold ==
    \A r \in Requests :
        /\ IsIssued(r) => /\ asks[r].pc = "done" /\ asks[r].replyTo = NoTurn
                          /\ clarifications[r].scope = asks[r].scope
        /\ IsReply(r) => /\ asks[r].replyTo \in Requests /\ IsIssued(asks[r].replyTo)
                         /\ asks[r].scope = clarifications[asks[r].replyTo].scope

RouterInv == RouterTypeOK /\ readBy \in [Requests -> Reads] /\ AsksHold /\ ConversationHolds /\ ClarificationsHold

(* The states of a request, of RouterTypeOK. *)
AskStates == [pc : {"new", "clarify", "route", "record", "done"},
              replyTo : Requests \cup {NoTurn}, turns : Seq(Requests),
              forget : BOOLEAN, scope : Scopes \cup {NoScope}, route : Routes,
              ambiguous : BOOLEAN, evidence : Evidence,
              outcome : {"none", "clarification", "answer", "abstention",
                         "rejected", "error"}]

(* The type invariant of the router, with its requests' states named.       *)
LEMMA AskTypes ==
    RouterTypeOK <=> /\ ConversationTypeOK /\ ClarificationsTypeOK
                     /\ asks \in [Requests -> AskStates]
                     /\ readBy \in [Requests -> [prior : Seq(Requests), shown : Seq(Requests)]]
                     /\ askFaults \in 0..MaxAskFaults
  BY DEF RouterTypeOK, AskStates

(* An empty history asks nothing of the requests.                           *)
LEMMA NoTurnsHold == \A states, read : TurnsHold(<<>>, states, read)
  BY DEF TurnsHold

(* The end of a history, as long as the window.                             *)
LEMMA LastOfs ==
    ASSUME NEW n \in Nat \ {0}, NEW turns \in Seq(Requests)
    PROVE  /\ LastOf(n, turns) \in Seq(Requests)
           /\ \A d \in 1..n : \A x :
                 IsNthLast(d, turns, x) => IsNthLast(d, LastOf(n, turns), x)
<1>1. PICK first : first = IF Len(turns) > n THEN Len(turns) - n + 1 ELSE 1
  OBVIOUS
<1>2. Len(turns) \in Nat /\ first \in 1..(Len(turns) + 1)
  BY <1>1
<1>3. PICK last : last = SubSeq(turns, first, Len(turns))
  OBVIOUS
<1>4. /\ last \in Seq(Requests) /\ Len(last) = Len(turns) - first + 1
      /\ \A i \in 1..Len(last) : last[i] = turns[first + i - 1]
  BY <1>2, <1>3, SubSeqProperties
<1>5. LastOf(n, turns) = last
  BY <1>1, <1>3, Zenon DEF LastOf
<1>6. ASSUME NEW d \in 1..n, NEW x, IsNthLast(d, turns, x)
      PROVE  IsNthLast(d, last, x)
  <2>1. d <= Len(turns) /\ turns[Len(turns) + 1 - d] = x
    BY <1>6 DEF IsNthLast
  <2>2. d <= Len(last) /\ Len(last) + 1 - d \in 1..Len(last)
    <3>1. CASE Len(turns) > n
      <4>1. Len(last) = n
        BY <3>1, <1>1, <1>2, <1>4
      <4> QED BY <4>1
    <3>2. CASE Len(turns) <= n
      <4>1. first = 1
        BY <3>2, <1>1, <1>2
      <4>2. Len(last) = Len(turns)
        BY <4>1, <1>2, <1>4
      <4> QED BY <4>2, <2>1, <1>2
    <3> QED BY <3>1, <3>2, <1>2
  <2>3. first + (Len(last) + 1 - d) - 1 = Len(turns) + 1 - d
    BY <1>2, <1>4
  <2>4. last[Len(last) + 1 - d] = turns[Len(turns) + 1 - d]
    BY <2>2, <2>3, <1>4
  <2> QED BY <2>1, <2>2, <2>4 DEF IsNthLast
<1> QED BY <1>4, <1>5, <1>6

(* What a request has read is of the kind Reads says.                       *)
LEMMA TurnsReadType ==
    ASSUME NEW prepared, PriorTurns(prepared) \in Seq(Requests), NEW rewritten \in BOOLEAN
    PROVE  /\ TurnsRead(prepared, rewritten) \in Reads
           /\ TurnsRead(prepared, rewritten).prior = PriorTurns(prepared)
<1>1. <<>> \in Seq(Requests) /\ LastOf(RewriteWindow, PriorTurns(prepared)) \in Seq(Requests)
  BY LastOfs, ConversationAssumption DEF ConversationAssumption
<1>2. PICK prior \in Seq(Requests) : prior = PriorTurns(prepared)
  OBVIOUS
<1>3. PICK shown \in Seq(Requests) :
         shown = IF rewritten THEN LastOf(RewriteWindow, prior) ELSE <<>>
  BY <1>1, <1>2
<1>4. TurnsRead(prepared, rewritten) = [prior |-> prior, shown |-> shown]
  BY <1>2, <1>3, Zenon DEF TurnsRead
<1>5. shown \in {<<>>, LastOf(RewriteWindow, prior)}
  BY <1>3
<1> QED BY <1>2, <1>4, <1>5 DEF Reads

(* No request was made at the start.                                        *)
LEMMA RouterInitHolds == RouterInit => RouterInv
<1> SUFFICES ASSUME RouterInit PROVE RouterInv
  OBVIOUS
<1>1. NewAsk \in AskStates /\ NewAsk.turns = <<>>
  BY DEF NewAsk, AskStates, NotGathered, Evidence, Routes
<1>2. RouterTypeOK
  <2>1. ConversationTypeOK
    BY ConversationAssumption DEF RouterInit, ConversationInit, ConversationTypeOK,
       NoConversation, NotForgetting
  <2>2. ClarificationsTypeOK
    BY ClarificationAssumption DEF RouterInit, ClarificationsInit, ClarificationsTypeOK
  <2>3. NothingRead \in [prior : Seq(Requests), shown : Seq(Requests)]
    <3>1. <<>> \in Seq(Requests)
      OBVIOUS
    <3> QED BY <3>1 DEF NothingRead
  <2> QED BY <1>1, <2>1, <2>2, <2>3, RouterAssumption, AskTypes DEF RouterInit
<1>3. \A r \in Requests : asks[r] = NewAsk /\ readBy[r] = NothingRead
  BY DEF RouterInit
<1>4. AskOk(NewAsk, NothingRead)
  BY DEF AskOk, NewAsk, InFlight
<1>5. AsksHold
  BY <1>1, <1>3, <1>4, NoTurnsHold DEF AsksHold
<1>6. conversation.turns = <<>> /\ lastTurn = NoTurn
  BY DEF RouterInit, ConversationInit, NoConversation
<1>7. ConversationHolds
  BY <1>6, NoTurnsHold DEF ConversationHolds, LastTurnKept
<1>8. ClarificationsHold
  BY <1>3, RouterAssumption DEF ClarificationsHold, RouterInit, ClarificationsInit, IsIssued, NotIssuedYet,
     IsReply, NewAsk
<1>9. readBy \in [Requests -> Reads]
  <2>1. <<>> \in Seq(Requests)
    OBVIOUS
  <2>2. NothingRead \in Reads
    BY <2>1 DEF NothingRead, Reads
  <2> QED BY <2>2 DEF RouterInit
<1> QED BY <1>2, <1>5, <1>7, <1>8, <1>9 DEF RouterInv

------------------------------------------------------------------------------
(* The record with a turn appended.                                        *)

(* The last turns of a history with r after it (record_turn's trimming).    *)
LEMMA LastTurns ==
    ASSUME NEW h \in Seq(Requests), NEW r \in Requests, NEW first \in 1..(Len(h) + 1)
    PROVE  LET s == SubSeq(Append(h, r), first, Len(h) + 1) IN
           /\ s \in Seq(Requests)
           /\ Len(s) = Len(h) + 2 - first
           /\ \A i \in 1..Len(s) :
                 s[i] = IF i = Len(s) THEN r ELSE h[i + first - 1]
<1>1. PICK n \in Nat : n = Len(h)
  OBVIOUS
<1>2. PICK t : t = Append(h, r)
  OBVIOUS
<1>3. t \in Seq(Requests) /\ Len(t) = n + 1 /\ t[n + 1] = r /\ \A i \in 1..n : t[i] = h[i]
  BY <1>1, <1>2
<1>4. PICK s : s = SubSeq(t, first, n + 1)
  OBVIOUS
<1>5. /\ s \in Seq(Requests)
      /\ Len(s) = n + 2 - first
      /\ \A i \in 1..Len(s) : s[i] = t[first + i - 1]
  BY <1>1, <1>3, <1>4, SubSeqProperties
<1>6. ASSUME NEW i \in 1..Len(s)
      PROVE  s[i] = IF i = Len(s) THEN r ELSE h[i + first - 1]
  <2>1. first \in 1..(n + 1)
    BY <1>1
  <2>2. CASE i = Len(s)
    <3>1. first + i - 1 = n + 1
      BY <2>1, <2>2, <1>5
    <3> QED BY <3>1, <2>2, <1>3, <1>5
  <2>3. CASE i # Len(s)
    <3>1. first + i - 1 \in 1..n /\ first + i - 1 = i + first - 1
      BY <2>1, <2>3, <1>5
    <3> QED BY <3>1, <2>3, <1>3, <1>5
  <2> QED BY <2>2, <2>3
<1> QED BY <1>1, <1>2, <1>4, <1>5, <1>6

(* What is put: turns that hold, the last of them the new one.              *)
LEMMA PutHolds ==
    ASSUME ConversationAssumption,
           NEW prepared, prepared.turns \in Seq(Requests), prepared.forget \in BOOLEAN,
           NEW r \in Requests, NEW states, NEW read,
           TurnsHold(prepared.turns, states, read),
           states[r].outcome = "answer",
           read[r].prior = PriorTurns(prepared)
    PROVE  LET turns == WithTurn(prepared, r).turns IN
           /\ turns \in Seq(Requests) /\ Len(turns) <= MaxTurns
           /\ TurnsHold(turns, states, read)
           /\ turns # <<>> /\ turns[Len(turns)] = r
<1>1. PICK h : h = PriorTurns(prepared)
  OBVIOUS
<1>2. h \in Seq(Requests) /\ TurnsHold(h, states, read)
  BY <1>1, NoTurnsHold DEF PriorTurns
<1>13. read[r].prior = h
  BY <1>1
<1>3. PICK n \in Nat : n = Len(h)
  BY <1>2
<1>4. PICK first : first = IF n + 1 > MaxTurns THEN n + 1 - MaxTurns + 1 ELSE 1
  OBVIOUS
<1>5. first \in 1..(n + 1) /\ n + 2 - first \in 1..MaxTurns
  BY <1>4, <1>3
<1>6. PICK s : s = SubSeq(Append(h, r), first, n + 1)
  OBVIOUS
<1>7. /\ s \in Seq(Requests) /\ Len(s) = n + 2 - first
      /\ \A i \in 1..Len(s) : s[i] = IF i = Len(s) THEN r ELSE h[i + first - 1]
  <2>1. h \in Seq(Requests) /\ Len(h) = n /\ first \in 1..(Len(h) + 1)
    BY <1>2, <1>3, <1>5
  <2> QED BY <2>1, <1>6, LastTurns
<1>8. WithTurn(prepared, r).turns = s
  <2>1. Len(Append(h, r)) = n + 1
    BY <1>2, <1>3
  <2>2. PICK t : t = Append(h, r)
    OBVIOUS
  <2>3. WithTurn(prepared, r) = [stored |-> TRUE, scope |-> prepared.scope, turns |->
           SubSeq(t, IF Len(t) > MaxTurns THEN Len(t) - MaxTurns + 1 ELSE 1, Len(t))]
    BY <1>1, <2>2, Zenon DEF WithTurn, LastOf
  <2>4. Len(t) = n + 1
    BY <2>1, <2>2
  <2>5. first = IF Len(t) > MaxTurns THEN Len(t) - MaxTurns + 1 ELSE 1
    BY <2>4, <1>4
  <2>6. s = SubSeq(t, IF Len(t) > MaxTurns THEN Len(t) - MaxTurns + 1 ELSE 1, Len(t))
    BY <2>2, <2>4, <2>5, <1>6, Zenon
  <2>7. WithTurn(prepared, r) = [stored |-> TRUE, scope |-> prepared.scope, turns |-> s]
    BY <2>3, <2>6, Zenon
  <2> QED BY <2>7
<1>9. DOMAIN h = 1..n /\ DOMAIN s = 1..Len(s) /\ Len(s) \in 1..(n + 1)
  BY <1>2, <1>3, <1>5, <1>7
<1>10. \A i \in 1..Len(s) : i # Len(s) => i + first - 1 \in 1..n
  BY <1>5, <1>7, <1>9
<1>11. TurnsHold(s, states, read)
  <2>1. ASSUME NEW i \in 1..Len(s) PROVE states[s[i]].outcome = "answer"
    BY <1>2, <1>7, <1>9, <1>10 DEF TurnsHold
  <2>2. ASSUME NEW i \in 1..Len(s), NEW j \in 1..Len(s), i < j
        PROVE  IsNthLast(j - i, read[s[j]].prior, s[i])
    <3>1. i # Len(s) /\ i + first - 1 \in 1..n /\ s[i] = h[i + first - 1]
      BY <2>2, <1>7, <1>9, <1>10
    <3>2. CASE j = Len(s)
      <4>1. s[j] = r /\ Len(h) = n
        BY <3>2, <1>7, <1>3
      <4>2. j - i <= n /\ n + 1 - (j - i) = i + first - 1
        BY <2>2, <3>1, <3>2, <1>5, <1>7
      <4> QED BY <4>1, <4>2, <3>1, <1>13 DEF IsNthLast
    <3>3. CASE j # Len(s)
      <4>1. j + first - 1 \in 1..n
        BY <3>3, <1>10
      <4>2. s[j] = h[j + first - 1]
        BY <3>3, <1>7
      <4>3. i \in Int /\ j \in Int /\ first \in Int
        BY <1>5, <1>9
      <4>4. i + first - 1 < j + first - 1 /\ (j + first - 1) - (i + first - 1) = j - i
        BY <2>2, <4>3
      <4>5. PICK a, b : a = i + first - 1 /\ b = j + first - 1
        OBVIOUS
      <4>6. IsNthLast(b - a, read[h[b]].prior, h[a])
        BY <4>1, <4>4, <4>5, <3>1, <1>2, <1>9 DEF TurnsHold
      <4>7. b - a = j - i /\ h[a] = s[i] /\ h[b] = s[j]
        BY <4>2, <4>4, <4>5, <3>1
      <4> QED BY <4>6, <4>7
    <3> QED BY <3>2, <3>3
  <2> QED BY <2>1, <2>2, <1>9 DEF TurnsHold
<1>12. s # <<>> /\ s[Len(s)] = r /\ Len(s) <= MaxTurns
  <2>1. Len(s) # 0 /\ s[Len(s)] = r /\ Len(s) <= MaxTurns
    BY <1>5, <1>7, <1>9
  <2>2. s # <<>>
    BY <2>1, <1>7, EmptySeq
  <2> QED BY <2>1, <2>2
<1> QED BY <1>7, <1>8, <1>11, <1>12

------------------------------------------------------------------------------
(* Steps by what they do to one request.                                   *)

(* A request without an outcome is in nobody's turns: whatever becomes of   *)
(* it, turns that hold go on to.                                            *)
LEMMA TurnsStay ==
    ASSUME NEW r \in Requests, asks[r].outcome = "none",
           \A x \in Requests \ {r} : asks'[x] = asks[x] /\ readBy'[x] = readBy[x],
           NEW s \in Seq(Requests), TurnsHold(s, asks, readBy)
    PROVE  TurnsHold(s, asks', readBy')
<1>1. \A i \in DOMAIN s : s[i] \in Requests \ {r}
  BY DEF TurnsHold
<1> QED BY <1>1 DEF TurnsHold

(* A request that moves within its own state leaves what holds of the       *)
(* others.                                                                  *)
LEMMA AskMoves ==
    ASSUME RouterInv, NEW r \in Requests, asks[r].outcome = "none",
           NEW q \in AskStates, asks' = [asks EXCEPT ![r] = q],
           readBy' \in [Requests -> Reads],
           \A x \in Requests \ {r} : readBy'[x] = readBy[x],
           AskOk(q, readBy'[r]), TurnsHold(q.turns, asks, readBy)
    PROVE  /\ asks' \in [Requests -> AskStates]
           /\ AsksHold'
           /\ \A s \in Seq(Requests) : TurnsHold(s, asks, readBy) => TurnsHold(s, asks', readBy')
           /\ conversation' = conversation /\ lastTurn' = lastTurn => ConversationHolds'
<1>1. asks \in [Requests -> AskStates]
  BY AskTypes DEF RouterInv
<1>2. asks' \in [Requests -> AskStates] /\ asks'[r] = q
      /\ \A x \in Requests \ {r} : asks'[x] = asks[x]
  BY <1>1
<1>3. \A s \in Seq(Requests) : TurnsHold(s, asks, readBy) => TurnsHold(s, asks', readBy')
  BY <1>2, TurnsStay
<1>4. AsksHold'
  <2>1. ASSUME NEW x \in Requests \ {r}
        PROVE  AskOk(asks'[x], readBy'[x]) /\ TurnsHold(asks'[x].turns, asks', readBy')
    <3>1. AskOk(asks[x], readBy[x]) /\ TurnsHold(asks[x].turns, asks, readBy)
      BY DEF RouterInv, AsksHold
    <3>2. asks[x].turns \in Seq(Requests)
      BY <1>1 DEF AskStates
    <3>3. TurnsHold(asks[x].turns, asks', readBy')
      BY <3>1, <3>2, <1>3
    <3> QED BY <3>1, <3>3, <1>2
  <2>2. AskOk(asks'[r], readBy'[r]) /\ TurnsHold(asks'[r].turns, asks', readBy')
    <3>1. q.turns \in Seq(Requests)
      BY DEF AskStates
    <3>2. TurnsHold(q.turns, asks', readBy')
      BY <3>1, <1>3
    <3> QED BY <3>2, <1>2
  <2> QED BY <2>1, <2>2 DEF AsksHold
<1>5. conversation' = conversation /\ lastTurn' = lastTurn => ConversationHolds'
  <2>1. conversation.turns \in Seq(Requests)
    BY DEF RouterInv, RouterTypeOK, ConversationTypeOK
  <2>2. TurnsHold(conversation.turns, asks', readBy')
    BY <2>1, <1>3 DEF RouterInv, ConversationHolds
  <2> QED BY <2>2 DEF RouterInv, ConversationHolds, LastTurnKept
<1> QED BY <1>2, <1>3, <1>4, <1>5

(* A request that issues nothing and whose clarification is untouched.      *)
LEMMA ClarificationsStay ==
    ASSUME RouterInv, NEW r \in Requests, asks[r].outcome = "none",
           NEW q \in AskStates, asks' = [asks EXCEPT ![r] = q],
           UNCHANGED clarifications,
           \/ q.replyTo = asks[r].replyTo /\ q.scope = asks[r].scope
           \/ q.replyTo = NoTurn
           \/ /\ q.replyTo \in Requests /\ IsIssued(q.replyTo)
              /\ q.scope = clarifications[q.replyTo].scope
    PROVE  ClarificationsHold'
<1>1. asks \in [Requests -> AskStates]
  BY AskTypes DEF RouterInv
<1>2. asks'[r] = q /\ \A x \in Requests \ {r} : asks'[x] = asks[x]
  BY <1>1
<1>3. asks[r].pc # "done" /\ ~IsIssued(r)
  BY DEF RouterInv, AsksHold, AskOk, ClarificationsHold
<1>4. \A x \in Requests : IsIssued(x)' <=> IsIssued(x)
  BY DEF IsIssued
<1> QED BY <1>2, <1>3, <1>4 DEF RouterInv, ClarificationsHold, IsReply

(* A request that has ended.                                                *)
LEMMA Ended ==
    ASSUME RouterInv, NEW r \in Requests,
           NEW outcome \in {"clarification", "answer", "abstention", "rejected", "error"},
           Ends(r, outcome)
    PROVE  \E q \in AskStates :
              /\ asks' = [asks EXCEPT ![r] = q]
              /\ q.pc = "done" /\ q.outcome = outcome /\ q.turns = <<>>
              /\ q.replyTo = asks[r].replyTo /\ q.scope = asks[r].scope
              /\ outcome = "answer" => q.route = asks[r].route /\ q.evidence = asks[r].evidence
<1>1. asks \in [Requests -> AskStates] /\ asks[r] \in AskStates
  BY AskTypes DEF RouterInv
<1>2. PICK unclear \in BOOLEAN : unclear = (asks[r].ambiguous /\ IsReply(r))
  OBVIOUS
<1> DEFINE kept == [asks[r] EXCEPT !.pc = "done", !.outcome = outcome, !.turns = <<>>,
                                   !.forget = FALSE, !.ambiguous = unclear]
           q == IF outcome = "answer" THEN kept
                ELSE [kept EXCEPT !.route = "rag", !.evidence = NotGathered]
<1>3. asks' = [asks EXCEPT ![r] = q]
  BY <1>2, Zenon DEF Ends
<1>4. kept \in AskStates
  <2>1. <<>> \in Seq(Requests)
    OBVIOUS
  <2> QED BY <1>1, <2>1 DEF AskStates
<1>5. /\ kept.pc = "done" /\ kept.outcome = outcome /\ kept.turns = <<>>
      /\ kept.replyTo = asks[r].replyTo /\ kept.scope = asks[r].scope
      /\ kept.route = asks[r].route /\ kept.evidence = asks[r].evidence
  BY <1>1 DEF AskStates
<1> HIDE DEF kept
<1>6. q \in AskStates
  <2>1. NotGathered \in Evidence /\ "rag" \in Routes
    BY DEF NotGathered, Evidence, Routes
  <2> QED BY <2>1, <1>4 DEF AskStates
<1>7. /\ q.pc = "done" /\ q.outcome = outcome /\ q.turns = <<>>
      /\ q.replyTo = asks[r].replyTo /\ q.scope = asks[r].scope
      /\ outcome = "answer" => q.route = asks[r].route /\ q.evidence = asks[r].evidence
  BY <1>4, <1>5 DEF AskStates
<1> HIDE DEF q
<1> QED BY <1>3, <1>6, <1>7

(* A request that has been prepared and classified.                         *)
LEMMA ClassifiedIs ==
    ASSUME RouterInv, NEW r \in Requests, NEW prepared,
           prepared.turns \in Seq(Requests), prepared.forget \in BOOLEAN,
           prepared.scope \in Scopes \cup {NoScope},
           NEW replyTo \in Requests \cup {NoTurn}, Classified(r, prepared, replyTo)
    PROVE  \E q \in AskStates :
              /\ asks' = [asks EXCEPT ![r] = q]
              /\ q.turns = prepared.turns /\ q.forget = prepared.forget
              /\ q.scope = prepared.scope /\ q.replyTo = replyTo
              /\ q.pc \in {"clarify", "route"} /\ (q.pc = "clarify" => replyTo = NoTurn)
              /\ q.outcome = asks[r].outcome
<1>1. asks \in [Requests -> AskStates] /\ asks[r] \in AskStates
  BY AskTypes DEF RouterInv
<1>2. PICK ambiguous \in BOOLEAN :
        asks' = [asks EXCEPT ![r] = [asks[r] EXCEPT
            !.turns = prepared.turns, !.forget = prepared.forget, !.scope = prepared.scope,
            !.replyTo = replyTo, !.ambiguous = ambiguous,
            !.pc = IF ambiguous /\ MayClarify(replyTo) THEN "clarify" ELSE "route"]]
  BY Zenon DEF Classified
<1>3. PICK pc \in {"clarify", "route"} :
         /\ pc = IF ambiguous /\ MayClarify(replyTo) THEN "clarify" ELSE "route"
         /\ pc = "clarify" => replyTo = NoTurn
  BY DEF MayClarify
<1> DEFINE q == [asks[r] EXCEPT
            !.turns = prepared.turns, !.forget = prepared.forget, !.scope = prepared.scope,
            !.replyTo = replyTo, !.ambiguous = ambiguous, !.pc = pc]
<1>4. asks' = [asks EXCEPT ![r] = q]
  BY <1>2, <1>3, Zenon
<1>5. q \in AskStates
  BY <1>1 DEF AskStates
<1>6. /\ q.turns = prepared.turns /\ q.forget = prepared.forget
      /\ q.scope = prepared.scope /\ q.replyTo = replyTo
      /\ q.pc = pc /\ q.outcome = asks[r].outcome
  BY <1>1 DEF AskStates
<1> HIDE DEF q
<1> QED BY <1>3, <1>4, <1>5, <1>6

------------------------------------------------------------------------------
(* The actions.                                                            *)

(* A fault is counted within its bound.                                     *)
LEMMA AskFaultCounted ==
    ASSUME RouterInv, AskFault \/ UNCHANGED askFaults
    PROVE  askFaults' \in 0..MaxAskFaults
  BY RouterAssumption DEF RouterInv, RouterTypeOK, AskFault

(* A step that leaves the history or the clarifications alone keeps their   *)
(* types.                                                                   *)
LEMMA TypesStay ==
    ASSUME RouterInv
    PROVE  /\ UNCHANGED conversationVars => ConversationTypeOK'
           /\ UNCHANGED clarificationVars => ClarificationsTypeOK'
  BY DEF RouterInv, RouterTypeOK, conversationVars, clarificationVars, ConversationTypeOK,
     ClarificationsTypeOK

(* A question arrives, with or without a conversation.                      *)
LEMMA StartAskKeeps ==
    ASSUME RouterInv, NEW r \in Requests, StartAsk(r)
    PROVE  RouterInv'
<1>1. /\ UNCHANGED <<conversationVars, clarificationVars>>
      /\ askFaults' \in 0..MaxAskFaults /\ asks[r].pc = "new"
  BY AskFaultCounted DEF StartAsk, AskAt
<1>2. /\ asks[r].outcome = "none" /\ readBy[r] = NothingRead
      /\ readBy \in [Requests -> Reads]
  BY <1>1, AskTypes DEF RouterInv, AsksHold, AskOk
<1>3. /\ conversation.turns \in Seq(Requests) /\ conversation.scope \in Scopes \cup {NoScope}
      /\ TurnsHold(conversation.turns, asks, readBy)
  BY DEF RouterInv, RouterTypeOK, ConversationTypeOK, ConversationHolds
<1>4. PICK prepared :
         /\ prepared.turns \in Seq(Requests) /\ prepared.forget \in BOOLEAN
         /\ prepared.scope \in Scopes \cup {NoScope}
         /\ TurnsHold(prepared.turns, asks, readBy)
         /\ Classified(r, prepared, NoTurn)
         /\ readBy' \in [Requests -> Reads]
         /\ readBy'[r].prior = PriorTurns(prepared)
         /\ \A x \in Requests \ {r} : readBy'[x] = readBy[x]
  <2>1. PICK scope \in Scopes \cup {NoScope}, forget \in BOOLEAN, rewritten \in BOOLEAN :
            \/ /\ Classified(r, Prepared(conversation, scope, forget), NoTurn)
               /\ readBy' = [readBy EXCEPT ![r] =
                               TurnsRead(Prepared(conversation, scope, forget), rewritten)]
            \/ /\ Classified(r, Prepared(NoConversation, scope, forget), NoTurn)
               /\ UNCHANGED readBy
    BY Zenon DEF StartAsk
  <2>2. CASE /\ Classified(r, Prepared(conversation, scope, forget), NoTurn)
             /\ readBy' = [readBy EXCEPT ![r] =
                             TurnsRead(Prepared(conversation, scope, forget), rewritten)]
    <3>1. PICK p : p = Prepared(conversation, scope, forget)
      OBVIOUS
    <3>2. /\ p.turns = conversation.turns /\ p.forget = forget
          /\ p.scope \in Scopes \cup {NoScope}
      BY <3>1, <1>3 DEF Prepared
    <3>3. TurnsRead(p, rewritten) \in Reads /\ TurnsRead(p, rewritten).prior = PriorTurns(p)
      <4>1. PriorTurns(p) \in Seq(Requests)
        BY <3>2, <1>3 DEF PriorTurns
      <4> QED BY <4>1, TurnsReadType
    <3>4. /\ Classified(r, p, NoTurn)
          /\ readBy' = [readBy EXCEPT ![r] = TurnsRead(p, rewritten)]
      BY <2>2, <3>1, Zenon
    <3>5. /\ readBy' \in [Requests -> Reads]
          /\ readBy'[r].prior = PriorTurns(p)
          /\ \A x \in Requests \ {r} : readBy'[x] = readBy[x]
      BY <3>3, <3>4, <1>2
    <3> QED BY <3>2, <3>4, <3>5, <1>3
  <2>3. CASE /\ Classified(r, Prepared(NoConversation, scope, forget), NoTurn)
             /\ UNCHANGED readBy
    <3>1. PICK p : p = Prepared(NoConversation, scope, forget)
      OBVIOUS
    <3>2. /\ p.turns = <<>> /\ p.forget = forget
          /\ p.scope \in Scopes \cup {NoScope}
      BY <3>1 DEF Prepared, NoConversation
    <3>3. PriorTurns(p) = NothingRead.prior /\ <<>> \in Seq(Requests)
      BY <3>2 DEF PriorTurns, NothingRead
    <3>4. Classified(r, p, NoTurn) /\ readBy' = readBy
      BY <2>3, <3>1, Zenon
    <3>5. TurnsHold(p.turns, asks, readBy)
      BY <3>2, NoTurnsHold, Zenon
    <3>6. p.turns \in Seq(Requests) /\ p.forget \in BOOLEAN
      BY <3>2, <3>3, Zenon
    <3>7. readBy'[r].prior = PriorTurns(p) /\ readBy' \in [Requests -> Reads]
      BY <3>3, <3>4, <1>2, Zenon
    <3>8. \A x \in Requests \ {r} : readBy'[x] = readBy[x]
      BY <3>4
    <3> QED BY <3>2, <3>4, <3>5, <3>6, <3>7, <3>8, Zenon
  <2> QED BY <2>1, <2>2, <2>3
<1>5. PICK q \in AskStates :
         /\ asks' = [asks EXCEPT ![r] = q]
         /\ q.turns = prepared.turns /\ q.forget = prepared.forget
         /\ q.scope = prepared.scope /\ q.replyTo = NoTurn
         /\ q.pc \in {"clarify", "route"}
         /\ q.outcome = asks[r].outcome
  BY <1>4, ClassifiedIs
<1>6. AskOk(q, readBy'[r]) /\ TurnsHold(q.turns, asks, readBy)
  BY <1>2, <1>4, <1>5 DEF AskOk, PriorTurns
<1>7. /\ asks' \in [Requests -> AskStates] /\ AsksHold' /\ ConversationHolds'
  BY <1>1, <1>2, <1>4, <1>5, <1>6, AskMoves DEF conversationVars
<1>8. ClarificationsHold'
  BY <1>1, <1>2, <1>5, ClarificationsStay DEF clarificationVars
<1>9. RouterTypeOK'
  <2>1. readBy' \in [Requests -> [prior : Seq(Requests), shown : Seq(Requests)]]
    BY <1>4 DEF Reads
  <2> QED BY <2>1, <1>1, <1>7, TypesStay DEF RouterInv, RouterTypeOK, AskStates
<1> QED BY <1>4, <1>7, <1>8, <1>9 DEF RouterInv

(* A reply to a clarification arrives.                                      *)
LEMMA StartReplyKeeps ==
    ASSUME RouterInv, NEW r \in Requests, StartReply(r)
    PROVE  RouterInv'
<1>1. /\ UNCHANGED <<conversationVars, clarificationVars, readBy, askFaults>>
      /\ asks[r].pc = "new"
  BY DEF StartReply, AskAt
<1>2. /\ asks[r].outcome = "none" /\ readBy[r] = NothingRead /\ asks[r].replyTo = NoTurn
      /\ readBy \in [Requests -> Reads]
  BY <1>1, AskTypes DEF RouterInv, AsksHold, AskOk
<1>3. PICK k \in Requests \ {r} :
         /\ IsIssued(k)
         /\ IF MayReply(k)
            THEN Classified(r, Prepared(NoConversation, ReplyScope(k), FALSE), k)
            ELSE Ends(r, "rejected")
  BY DEF StartReply
<1>4. PICK q \in AskStates :
         /\ asks' = [asks EXCEPT ![r] = q]
         /\ AskOk(q, NothingRead) /\ q.turns = <<>>
         /\ \/ q.replyTo = NoTurn
            \/ q.replyTo = k /\ q.scope = clarifications[k].scope
  <2>1. CASE MayReply(k)
    <3>1. PICK p : p = Prepared(NoConversation, ReplyScope(k), FALSE)
      OBVIOUS
    <3>2. clarifications[k].scope \in Scopes \cup {NoScope}
      BY <1>3, RouterAssumption DEF RouterInv, RouterTypeOK, ClarificationsTypeOK, IsIssued,
         NotIssuedYet
    <3>3. /\ p.turns = <<>> /\ p.forget = FALSE /\ p.scope = clarifications[k].scope
          /\ <<>> \in Seq(Requests)
      BY <3>1 DEF Prepared, NoConversation, ReplyScope
    <3>4. Classified(r, p, k)
      BY <2>1, <3>1, <1>3, Zenon
    <3>5. PICK q \in AskStates :
             /\ asks' = [asks EXCEPT ![r] = q]
             /\ q.turns = <<>>
             /\ q.scope = clarifications[k].scope /\ q.replyTo = k
             /\ q.pc \in {"clarify", "route"} /\ (q.pc = "clarify" => k = NoTurn)
             /\ q.outcome = asks[r].outcome
      <4>1. /\ p.turns \in Seq(Requests) /\ p.forget \in BOOLEAN
            /\ p.scope \in Scopes \cup {NoScope} /\ k \in Requests \cup {NoTurn}
        BY <3>2, <3>3
      <4>2. PICK q \in AskStates :
               /\ asks' = [asks EXCEPT ![r] = q]
               /\ q.turns = p.turns /\ q.forget = p.forget
               /\ q.scope = p.scope /\ q.replyTo = k
               /\ q.pc \in {"clarify", "route"} /\ (q.pc = "clarify" => k = NoTurn)
               /\ q.outcome = asks[r].outcome
        BY <4>1, <3>4, ClassifiedIs
      <4>3. p.turns = <<>> /\ p.scope = clarifications[k].scope
        BY <3>3
      <4>4. q.turns = <<>> /\ q.scope = clarifications[k].scope
        BY <4>2, <4>3, Zenon
      <4> QED BY <4>2, <4>4
    <3>6. AskOk(q, NothingRead)
      <4>1. q.pc = "route" /\ q.outcome = "none"
        BY <3>5, <1>2, RouterAssumption
      <4>2. PriorTurns(q) = NothingRead.prior
        BY <3>5 DEF PriorTurns, NothingRead
      <4> QED BY <3>3, <4>1, <4>2 DEF AskOk
    <3> QED BY <3>5, <3>6
  <2>2. CASE ~MayReply(k)
    <3>1. PICK q \in AskStates :
             /\ asks' = [asks EXCEPT ![r] = q]
             /\ q.pc = "done" /\ q.outcome = "rejected" /\ q.turns = <<>>
             /\ q.replyTo = NoTurn
      BY <2>2, <1>2, <1>3, Ended
    <3>2. AskOk(q, NothingRead)
      BY <3>1 DEF AskOk, InFlight
    <3> QED BY <3>1, <3>2
  <2> QED BY <2>1, <2>2
<1>5. TurnsHold(q.turns, asks, readBy)
  BY <1>4, NoTurnsHold, Zenon
<1>6. asks' \in [Requests -> AskStates] /\ AsksHold' /\ ConversationHolds'
  BY <1>1, <1>2, <1>4, <1>5, AskMoves DEF conversationVars
<1>7. ClarificationsHold'
  BY <1>1, <1>2, <1>3, <1>4, ClarificationsStay DEF clarificationVars
<1>8. RouterTypeOK'
  BY <1>1, <1>2, <1>6, TypesStay DEF RouterInv, RouterTypeOK, AskStates
<1> QED BY <1>1, <1>6, <1>7, <1>8 DEF RouterInv

(* The question waits under the request that issued its clarification.      *)
LEMMA IssueClarificationKeeps ==
    ASSUME RouterInv, NEW r \in Requests, IssueClarification(r)
    PROVE  RouterInv'
<1>1. /\ UNCHANGED <<conversationVars, readBy>> /\ asks[r].pc = "clarify"
      /\ askFaults' \in 0..MaxAskFaults
  BY AskFaultCounted DEF IssueClarification, AskAt
<1>2. /\ asks[r].outcome = "none" /\ asks[r].replyTo = NoTurn /\ ~IsIssued(r)
      /\ readBy \in [Requests -> Reads] /\ asks[r] \in AskStates
      /\ AskOk(asks[r], readBy[r]) /\ TurnsHold(asks[r].turns, asks, readBy)
  BY <1>1, AskTypes DEF RouterInv, AsksHold, AskOk, ClarificationsHold
<1>3. CASE IssueRecord(r, asks[r].scope) /\ Ends(r, "clarification")
  <2>1. PICK q \in AskStates :
           /\ asks' = [asks EXCEPT ![r] = q]
           /\ q.pc = "done" /\ q.outcome = "clarification" /\ q.turns = <<>>
           /\ q.replyTo = NoTurn /\ q.scope = asks[r].scope
    BY <1>2, <1>3, Ended
  <2>2. AskOk(q, readBy'[r]) /\ TurnsHold(q.turns, asks, readBy)
    BY <2>1, NoTurnsHold DEF AskOk, InFlight
  <2>3. asks' \in [Requests -> AskStates] /\ AsksHold' /\ ConversationHolds'
    BY <1>1, <1>2, <2>1, <2>2, AskMoves DEF conversationVars
  <2>4. /\ asks[r].scope \in ClarificationScopes /\ askClock \in 0..MaxAskClock
        /\ askClock + ClarificationExpiry \in 1..(MaxAskClock + ClarificationExpiry)
    BY <1>2, RouterAssumption, ClarificationAssumption
       DEF AskStates, RouterInv, RouterTypeOK, ClarificationsTypeOK
  <2> DEFINE record == [expires |-> askClock + ClarificationExpiry, scope |-> asks[r].scope]
  <2>5. /\ clarifications' = [clarifications EXCEPT ![r] = record] /\ askClock' = askClock
        /\ record.expires \in 1..(MaxAskClock + ClarificationExpiry)
        /\ record.scope = asks[r].scope
        /\ record \in [expires : 1..(MaxAskClock + ClarificationExpiry),
                       scope : ClarificationScopes]
    BY <1>3, <2>4 DEF IssueRecord
  <2> HIDE DEF record
  <2>6. ClarificationsTypeOK'
    BY <2>4, <2>5 DEF RouterInv, RouterTypeOK, ClarificationsTypeOK
  <2>7. /\ clarifications'[r] = record
        /\ \A x \in Requests \ {r} : clarifications'[x] = clarifications[x]
    BY <2>5, RouterAssumption DEF RouterInv, RouterTypeOK, ClarificationsTypeOK
  <2>8. /\ IsIssued(r)'
        /\ \A x \in Requests \ {r} : IsIssued(x)' <=> IsIssued(x)
    BY <2>5, <2>7, ClarificationAssumption DEF IsIssued
  <2>9. asks'[r] = q /\ \A x \in Requests \ {r} : asks'[x] = asks[x]
    BY <2>1, AskTypes DEF RouterInv
  <2>10. ClarificationsHold'
    <3>1. ASSUME NEW x \in Requests \ {r}, IsIssued(x)'
          PROVE  /\ asks'[x].pc = "done" /\ asks'[x].replyTo = NoTurn
                 /\ clarifications'[x].scope = asks'[x].scope
      BY <3>1, <2>7, <2>8, <2>9 DEF RouterInv, ClarificationsHold
    <3>2. /\ asks'[r].pc = "done" /\ asks'[r].replyTo = NoTurn
          /\ clarifications'[r].scope = asks'[r].scope
      BY <2>1, <2>5, <2>7, <2>9
    <3>3. ASSUME NEW x \in Requests, IsReply(x)'
          PROVE  /\ asks'[x].replyTo \in Requests
                 /\ clarifications'[asks'[x].replyTo].expires > 0
                 /\ asks'[x].scope = clarifications'[asks'[x].replyTo].scope
      <4>1. x # r /\ asks'[x] = asks[x] /\ IsReply(x)
        BY <3>2, <3>3, <2>9 DEF IsReply
      <4>2. /\ asks[x].replyTo \in Requests /\ IsIssued(asks[x].replyTo)
            /\ asks[x].scope = clarifications[asks[x].replyTo].scope
        BY <4>1 DEF RouterInv, ClarificationsHold
      <4>3. asks[x].replyTo # r
        BY <4>2, <1>2
      <4>4. clarifications'[asks[x].replyTo] = clarifications[asks[x].replyTo]
        BY <4>2, <4>3, <2>7
      <4> QED BY <4>1, <4>2, <4>4 DEF IsIssued
    <3>4. \A x \in Requests : IsIssued(x)' =>
             /\ asks'[x].pc = "done" /\ asks'[x].replyTo = NoTurn
             /\ clarifications'[x].scope = asks'[x].scope
      BY <3>1, <3>2
    <3> QED BY <3>3, <3>4 DEF ClarificationsHold, IsIssued
  <2>11. RouterTypeOK'
    BY <1>1, <1>2, <2>3, <2>6, TypesStay DEF RouterInv, RouterTypeOK, AskStates
  <2> QED BY <1>1, <2>3, <2>10, <2>11 DEF RouterInv
<1>4. CASE /\ asks' = [asks EXCEPT ![r].pc = "route", ![r].ambiguous = FALSE]
           /\ UNCHANGED clarificationVars
  <2> DEFINE q == [asks[r] EXCEPT !.pc = "route", !.ambiguous = FALSE]
  <2>1. asks' = [asks EXCEPT ![r] = q]
    BY <1>4
  <2>2. /\ q \in AskStates /\ q.pc = "route" /\ q.turns = asks[r].turns
        /\ q.forget = asks[r].forget /\ q.replyTo = NoTurn /\ q.outcome = "none"
    BY <1>2 DEF AskStates
  <2> HIDE DEF q
  <2>3. AskOk(q, readBy'[r])
    <3>1. readBy'[r].prior = PriorTurns(asks[r]) /\ PriorTurns(q) = PriorTurns(asks[r])
      BY <1>1, <1>2, <2>2 DEF AskOk, InFlight, PriorTurns
    <3> QED BY <3>1, <2>2 DEF AskOk
  <2>4. asks' \in [Requests -> AskStates] /\ AsksHold' /\ ConversationHolds'
    BY <1>1, <1>2, <2>1, <2>2, <2>3, AskMoves DEF conversationVars
  <2>5. ClarificationsHold'
    BY <1>2, <1>4, <2>1, <2>2, ClarificationsStay DEF clarificationVars
  <2>6. RouterTypeOK'
    BY <1>1, <1>2, <1>4, <2>4, TypesStay DEF RouterInv, RouterTypeOK, AskStates
  <2> QED BY <1>1, <2>4, <2>5, <2>6 DEF RouterInv
<1> QED BY <1>3, <1>4 DEF IssueClarification

(* What the six triggers leave is what the gates ask for. *)
LEMMA GatesOfRoute ==
    ASSUME NEW route \in Routes, NEW e \in EvidenceOf(route), ~Abstains(Signals(route, e))
    PROVE  /\ e.confident
           /\ route = "rag" => e.hits = "good" /\ e.claims = "supported"
           /\ route = "database" => e.rows
<1>1. e \in Evidence
  BY DEF EvidenceOf
<1>2. ASSUME route = "rag" PROVE e.hits = "good" /\ e.claims = "supported"
  <2>1. e.hits \in {"none", "weak", "good"} /\ e.claims \in {"supported", "unsupported", "conflicting"}
    BY <1>1 DEF Evidence
  <2>2. Signals(route, e).retrieval = e.hits /\ Signals(route, e).claims = e.claims
    BY <1>2 DEF Signals
  <2> QED BY <2>1, <2>2 DEF Abstains
<1>3. e.confident
  <2>1. Signals(route, e).confident = e.confident
    BY DEF Signals
  <2> QED BY <2>1, Zenon DEF Abstains
<1>4. ASSUME route = "database" PROVE e.rows
  <2>1. Signals(route, e).noRows = (route = "database" /\ ~e.rows)
    BY DEF Signals
  <2> QED BY <2>1, <1>4, Zenon DEF Abstains
<1> QED BY <1>2, <1>3, <1>4

(* The question is routed, and gated where its route asks for a             *)
(* clarification.                                                           *)
LEMMA RouteAndGateKeeps ==
    ASSUME RouterInv, NEW r \in Requests, RouteAndGate(r)
    PROVE  RouterInv'
<1>1. /\ UNCHANGED <<conversationVars, clarificationVars, readBy, askFaults>>
      /\ asks[r].pc = "route"
  BY DEF RouteAndGate, AskAt
<1>2. /\ asks[r].outcome = "none" /\ readBy \in [Requests -> Reads]
      /\ asks[r] \in AskStates /\ readBy[r].prior = PriorTurns(asks[r])
      /\ TurnsHold(asks[r].turns, asks, readBy)
  BY <1>1, AskTypes DEF RouterInv, AsksHold, AskOk, InFlight
<1>3. PICK q \in AskStates :
         /\ asks' = [asks EXCEPT ![r] = q]
         /\ AskOk(q, readBy[r]) /\ TurnsHold(q.turns, asks, readBy)
         /\ q.replyTo = asks[r].replyTo /\ q.scope = asks[r].scope
  <2>0. PICK route \in Routes : \E e \in EvidenceOf(route) :
          IF Abstains(Signals(route, e)) THEN Ends(r, "abstention")
          ELSE asks' = [asks EXCEPT ![r].pc = "record", ![r].route = route, ![r].evidence = e]
    BY Zenon DEF RouteAndGate
  <2>1. PICK e \in EvidenceOf(route) :
          IF Abstains(Signals(route, e)) THEN Ends(r, "abstention")
          ELSE asks' = [asks EXCEPT ![r].pc = "record", ![r].route = route, ![r].evidence = e]
    BY <2>0
  <2>2. CASE Abstains(Signals(route, e))
    <3>1. PICK q \in AskStates :
             /\ asks' = [asks EXCEPT ![r] = q]
             /\ q.pc = "done" /\ q.outcome = "abstention" /\ q.turns = <<>>
             /\ q.replyTo = asks[r].replyTo /\ q.scope = asks[r].scope
      BY <2>1, <2>2, Ended
    <3>2. AskOk(q, readBy[r]) /\ TurnsHold(q.turns, asks, readBy)
      BY <3>1, NoTurnsHold DEF AskOk, InFlight
    <3> QED BY <3>1, <3>2
  <2>3. CASE ~Abstains(Signals(route, e))
    <3> DEFINE q == [asks[r] EXCEPT !.pc = "record", !.route = route, !.evidence = e]
    <3>1. asks' = [asks EXCEPT ![r] = q]
      BY <2>1, <2>3
    <3>2. /\ q \in AskStates /\ q.pc = "record" /\ q.route = route /\ q.evidence = e
          /\ q.turns = asks[r].turns /\ q.forget = asks[r].forget /\ q.outcome = "none"
          /\ q.replyTo = asks[r].replyTo /\ q.scope = asks[r].scope
      <4>1. e \in Evidence
        BY DEF EvidenceOf
      <4> QED BY <4>1, <1>2 DEF AskStates
    <3> HIDE DEF q
    <3>3. Passed(q)
      BY <2>3, <3>2, GatesOfRoute, Zenon DEF Passed
    <3>4. PriorTurns(q) = PriorTurns(asks[r])
      BY <3>2, Zenon DEF PriorTurns
    <3>5. AskOk(q, readBy[r])
      BY <1>2, <3>2, <3>3, <3>4 DEF AskOk
    <3> QED BY <1>2, <3>1, <3>2, <3>5
  <2> QED BY <2>2, <2>3
<1>4. asks' \in [Requests -> AskStates] /\ AsksHold' /\ ConversationHolds'
  BY <1>1, <1>2, <1>3, AskMoves DEF conversationVars
<1>5. ClarificationsHold'
  BY <1>1, <1>2, <1>3, ClarificationsStay DEF clarificationVars
<1>6. RouterTypeOK'
  BY <1>1, <1>2, <1>4, TypesStay DEF RouterInv, RouterTypeOK, AskStates
<1> QED BY <1>1, <1>4, <1>5, <1>6 DEF RouterInv

(* A request that raises answers nothing.                                   *)
LEMMA AskFailsKeeps ==
    ASSUME RouterInv, NEW r \in Requests, AskFails(r)
    PROVE  RouterInv'
<1>1. /\ UNCHANGED <<conversationVars, clarificationVars, readBy>>
      /\ asks[r].pc = "route" /\ askFaults' \in 0..MaxAskFaults
  BY AskFaultCounted DEF AskFails, AskAt
<1>2. asks[r].outcome = "none" /\ readBy \in [Requests -> Reads]
  BY <1>1, AskTypes DEF RouterInv, AsksHold, AskOk
<1>3. PICK q \in AskStates :
         /\ asks' = [asks EXCEPT ![r] = q]
         /\ q.pc = "done" /\ q.outcome = "error" /\ q.turns = <<>>
         /\ q.replyTo = asks[r].replyTo /\ q.scope = asks[r].scope
  BY Ended DEF AskFails
<1>4. AskOk(q, readBy'[r]) /\ TurnsHold(q.turns, asks, readBy)
  BY <1>3, NoTurnsHold DEF AskOk, InFlight
<1>5. asks' \in [Requests -> AskStates] /\ AsksHold' /\ ConversationHolds'
  BY <1>1, <1>2, <1>3, <1>4, AskMoves DEF conversationVars
<1>6. ClarificationsHold'
  BY <1>1, <1>2, <1>3, ClarificationsStay DEF clarificationVars
<1>7. RouterTypeOK'
  BY <1>1, <1>2, <1>5, TypesStay DEF RouterInv, RouterTypeOK, AskStates
<1> QED BY <1>1, <1>5, <1>6, <1>7 DEF RouterInv

(* The turns that are put are those the request was prepared with, and it.  *)
LEMMA RecordTurnKeeps ==
    ASSUME RouterInv, NEW r \in Requests, RecordTurn(r)
    PROVE  RouterInv'
<1>1. /\ UNCHANGED <<clarificationVars, readBy>>
      /\ asks[r].pc = "record" /\ askFaults' \in 0..MaxAskFaults /\ Ends(r, "answer")
  BY AskFaultCounted DEF RecordTurn, AskAt
<1>2. /\ asks[r].outcome = "none" /\ readBy \in [Requests -> Reads]
      /\ asks[r] \in AskStates /\ readBy[r].prior = PriorTurns(asks[r])
      /\ TurnsHold(asks[r].turns, asks, readBy) /\ Passed(asks[r])
  BY <1>1, AskTypes DEF RouterInv, AsksHold, AskOk, InFlight
<1>3. PICK q \in AskStates :
         /\ asks' = [asks EXCEPT ![r] = q]
         /\ q.pc = "done" /\ q.outcome = "answer" /\ q.turns = <<>>
         /\ q.replyTo = asks[r].replyTo /\ q.scope = asks[r].scope
         /\ q.route = asks[r].route /\ q.evidence = asks[r].evidence
  BY <1>1, Ended
<1>4. AskOk(q, readBy'[r]) /\ TurnsHold(q.turns, asks, readBy)
  BY <1>2, <1>3, NoTurnsHold DEF AskOk, InFlight, Passed
<1>5. /\ asks' \in [Requests -> AskStates] /\ AsksHold'
      /\ \A s \in Seq(Requests) : TurnsHold(s, asks, readBy) => TurnsHold(s, asks', readBy')
      /\ conversation' = conversation /\ lastTurn' = lastTurn => ConversationHolds'
  BY <1>1, <1>2, <1>3, <1>4, AskMoves
<1>6. ClarificationsHold'
  BY <1>1, <1>2, <1>3, ClarificationsStay DEF clarificationVars
<1>7. ConversationHolds' /\ ConversationTypeOK'
  <2>1. CASE UNCHANGED conversationVars
    BY <2>1, <1>5, TypesStay DEF conversationVars
  <2>2. CASE PutTurn([turns |-> asks[r].turns, forget |-> asks[r].forget,
                      scope |-> asks[r].scope], r)
    <3>1. PICK p : p = [turns |-> asks[r].turns, forget |-> asks[r].forget,
                        scope |-> asks[r].scope]
      OBVIOUS
    <3>2. /\ p.turns = asks[r].turns /\ p.forget = asks[r].forget /\ p.scope = asks[r].scope
          /\ asks[r].turns \in Seq(Requests) /\ asks[r].forget \in BOOLEAN
          /\ asks[r].scope \in Scopes \cup {NoScope}
      BY <3>1, <1>2 DEF AskStates
    <3>3. /\ conversation' = WithTurn(p, r) /\ lastTurn' = r
          /\ UNCHANGED <<forgetting, forgotten>>
      BY <2>2, <3>1, Zenon DEF PutTurn
    <3>4. TurnsHold(p.turns, asks', readBy')
      BY <3>2, <1>2, <1>5
    <3>5. asks'[r].outcome = "answer"
      BY <1>2, <1>3, AskTypes DEF RouterInv
    <3>6. readBy'[r].prior = PriorTurns(p)
      <4>1. PriorTurns(p) = PriorTurns(asks[r])
        BY <3>2, Zenon DEF PriorTurns
      <4> QED BY <4>1, <1>1, <1>2
    <3>7. /\ WithTurn(p, r).turns \in Seq(Requests) /\ Len(WithTurn(p, r).turns) <= MaxTurns
          /\ TurnsHold(WithTurn(p, r).turns, asks', readBy')
          /\ WithTurn(p, r).turns # <<>>
          /\ WithTurn(p, r).turns[Len(WithTurn(p, r).turns)] = r
      <4>1. p.turns \in Seq(Requests) /\ p.forget \in BOOLEAN
        BY <3>2
      <4> QED BY <4>1, <3>4, <3>5, <3>6, ConversationAssumption, PutHolds
    <3>8. ConversationHolds'
      BY <3>3, <3>7 DEF ConversationHolds, LastTurnKept
    <3>9. WithTurn(p, r) \in [stored : BOOLEAN, turns : Seq(Requests),
                              scope : Scopes \cup {NoScope}]
      <4>1. PICK turns : WithTurn(p, r) = [stored |-> TRUE, scope |-> p.scope, turns |-> turns]
        BY DEF WithTurn
      <4>2. turns \in Seq(Requests)
        BY <4>1, <3>7
      <4> QED BY <4>1, <4>2, <3>2
    <3>10. ConversationTypeOK'
      BY <3>3, <3>7, <3>9 DEF RouterInv, RouterTypeOK, ConversationTypeOK
    <3> QED BY <3>8, <3>10
  <2> QED BY <2>1, <2>2 DEF RecordTurn
<1>8. RouterTypeOK'
  BY <1>1, <1>2, <1>5, <1>7, TypesStay DEF RouterInv, RouterTypeOK, AskStates
<1> QED BY <1>1, <1>5, <1>6, <1>7, <1>8 DEF RouterInv

(* A conversation's memory is dropped.                                      *)
LEMMA ForgetKeeps ==
    ASSUME RouterInv, Forget
    PROVE  RouterInv'
<1>1. UNCHANGED <<clarificationVars, asks, readBy, askFaults>> /\ ForgetNext
  BY DEF Forget
<1>2. AsksHold' /\ ClarificationsHold'
  BY <1>1 DEF RouterInv, AsksHold, ClarificationsHold, clarificationVars, IsIssued, IsReply
<1>3. ConversationTypeOK'
  <2>1. CASE ForgetLoads
    BY <2>1 DEF ForgetLoads, RouterInv, RouterTypeOK, ConversationTypeOK, ToSet
  <2>2. CASE ForgetPuts
    <3>1. <<>> \in Seq(Requests) /\ Len(<<>>) = 0 /\ 0 <= MaxTurns
      BY ConversationAssumption
    <3> QED BY <2>2, <3>1 DEF ForgetPuts, NotForgetting, RouterInv, RouterTypeOK, ConversationTypeOK
  <2>3. CASE ForgetFails
    BY <2>3 DEF ForgetFails, NotForgetting, RouterInv, RouterTypeOK, ConversationTypeOK
  <2> QED BY <1>1, <2>1, <2>2, <2>3 DEF ForgetNext
<1>4. ConversationHolds'
  <2>1. CASE UNCHANGED <<conversation, lastTurn>>
    BY <2>1, <1>1 DEF RouterInv, ConversationHolds, LastTurnKept
  <2>2. CASE ForgetPuts
    <3>1. conversation'.turns = <<>> /\ lastTurn' = NoTurn
      BY <2>2 DEF ForgetPuts
    <3> QED BY <3>1, NoTurnsHold DEF ConversationHolds, LastTurnKept
  <2> QED BY <1>1, <2>1, <2>2 DEF ForgetNext, ForgetLoads, ForgetFails
<1>5. RouterTypeOK'
  BY <1>1, <1>3, TypesStay DEF RouterInv, RouterTypeOK
<1> QED BY <1>1, <1>2, <1>4, <1>5 DEF RouterInv

(* Time passes, and what has expired is deleted.                            *)
LEMMA TimeKeeps ==
    ASSUME RouterInv, TimePasses
    PROVE  RouterInv'
<1>1. UNCHANGED <<conversationVars, asks, readBy, askFaults>> /\ AskTick
  BY DEF TimePasses
<1>2. ClarificationsTypeOK' /\ clarifications' = clarifications
  BY <1>1, ClarificationAssumption DEF AskTick, RouterInv, RouterTypeOK, ClarificationsTypeOK
<1>3. AsksHold' /\ ClarificationsHold' /\ ConversationHolds'
  BY <1>1, <1>2 DEF RouterInv, AsksHold, ClarificationsHold, conversationVars, IsIssued, IsReply,
     ConversationHolds, LastTurnKept
<1>4. RouterTypeOK'
  BY <1>1, <1>2, TypesStay DEF RouterInv, RouterTypeOK
<1> QED BY <1>1, <1>3, <1>4 DEF RouterInv

(* Every step of every request, of forget and of the clock keeps the        *)
(* invariant.                                                               *)
LEMMA RouterInvariant == RouterSpec => []RouterInv
<1>1. ASSUME RouterInv, [RouterNext]_routerVars PROVE RouterInv'
  <2>1. CASE UNCHANGED routerVars
    <3>1. UNCHANGED <<conversationVars, clarificationVars, asks, readBy, askFaults>>
      BY <2>1 DEF routerVars
    <3>2. AsksHold' /\ ClarificationsHold' /\ ConversationHolds'
      BY <1>1, <3>1 DEF RouterInv, AsksHold, ClarificationsHold, conversationVars,
         clarificationVars, IsIssued, IsReply, ConversationHolds, LastTurnKept
    <3> QED BY <1>1, <3>1, <3>2, TypesStay DEF RouterInv, RouterTypeOK
  <2>2. CASE Forget \/ TimePasses
    BY <1>1, <2>2, ForgetKeeps, TimeKeeps
  <2>3. ASSUME NEW r \in Requests,
               \/ StartAsk(r) \/ StartReply(r) \/ IssueClarification(r)
               \/ RouteAndGate(r) \/ RecordTurn(r) \/ AskFails(r)
        PROVE  RouterInv'
    BY <1>1, <2>3, StartAskKeeps, StartReplyKeeps, IssueClarificationKeeps, RouteAndGateKeeps,
       RecordTurnKeeps, AskFailsKeeps
  <2> QED BY <1>1, <2>1, <2>2, <2>3 DEF RouterNext
<1> QED BY <1>1, RouterInitHolds, PTL DEF RouterSpec

------------------------------------------------------------------------------
(* The theorems.                                                           *)

(* The conversation, the clarifications and the requests keep their types;  *)
(* the conversation has conversation_max_turns turns at most.               *)
THEOREM RouterTypeCorrect == RouterSpec => []RouterTypeOK
<1>1. RouterInv => RouterTypeOK
  BY DEF RouterInv
<1> QED BY <1>1, RouterInvariant, PTL

(* record_turn puts the whole record it had read with its turn: however     *)
(* many requests overlap, before each turn stands what its request had      *)
(* read; the rewriter was shown the window's end of that; and the turn put  *)
(* last is there.                                                           *)
THEOREM RecordExplained == RouterSpec => []RecordExplainsItsTurns
<1>1. RouterInv => RecordExplainsItsTurns
  <2> SUFFICES ASSUME RouterInv PROVE RecordExplainsItsTurns
    OBVIOUS
  <2>1. conversation.turns \in Seq(Requests)
    BY DEF RouterInv, RouterTypeOK, ConversationTypeOK
  <2>2. PICK turns \in Seq(Requests) : turns = conversation.turns
    BY <2>1
  <2>3. ASSUME NEW i \in DOMAIN turns, NEW j \in DOMAIN turns, i < j
        PROVE  /\ IsNthLast(j - i, readBy[turns[j]].prior, turns[i])
               /\ readBy[turns[j]].shown # <<>> /\ j - i <= RewriteWindow =>
                     IsNthLast(j - i, readBy[turns[j]].shown, turns[i])
    <3>1. IsNthLast(j - i, readBy[turns[j]].prior, turns[i])
      BY <2>2, <2>3 DEF RouterInv, ConversationHolds, TurnsHold
    <3>2. readBy[turns[j]] \in Reads
      BY DEF RouterInv
    <3>3. ASSUME readBy[turns[j]].shown # <<>>, j - i <= RewriteWindow
          PROVE  IsNthLast(j - i, readBy[turns[j]].shown, turns[i])
      <4>1. /\ readBy[turns[j]].prior \in Seq(Requests)
            /\ readBy[turns[j]].shown = LastOf(RewriteWindow, readBy[turns[j]].prior)
        BY <3>2, <3>3 DEF Reads
      <4>2. i \in Int /\ j \in Int /\ RewriteWindow \in Nat \ {0}
        BY ConversationAssumption DEF ConversationAssumption
      <4>3. j - i \in 1..RewriteWindow
        BY <4>2, <2>3, <3>3
      <4> QED BY <3>1, <4>1, <4>2, <4>3, LastOfs
    <3> QED BY <3>1, <3>3
  <2> QED BY <2>2, <2>3 DEF RouterInv, ConversationHolds, RecordExplainsItsTurns
<1> QED BY <1>1, RouterInvariant, PTL

(* evaluate_abstention lets an answer through only when the signals of its  *)
(* route pass, and only answers become turns.                               *)
THEOREM AnswersAreGated == RouterSpec => []AnswersPassTheirGates
<1>1. RouterInv => AnswersPassTheirGates
  <2> SUFFICES ASSUME RouterInv PROVE AnswersPassTheirGates
    OBVIOUS
  <2>1. ASSUME NEW r \in Requests, Answered(r) PROVE Passed(asks[r])
    BY <2>1, Zenon DEF RouterInv, AsksHold, AskOk, Answered
  <2>2. ASSUME NEW r \in ToSet(conversation.turns) PROVE Answered(r)
    <3>1. PICK i \in DOMAIN conversation.turns : r = conversation.turns[i]
      BY DEF ToSet
    <3> QED BY <3>1 DEF RouterInv, ConversationHolds, TurnsHold, Answered
  <2> QED BY <2>1, <2>2 DEF AnswersPassTheirGates, Passed
<1> QED BY <1>1, RouterInvariant, PTL

(* /ask/clarify runs with allow_clarification off and the record's scope,   *)
(* which is that of the question it was issued for.                         *)
THEOREM ClarifiedOnce == RouterSpec => []ClarifiedOnceInScope
<1>1. RouterInv => ClarifiedOnceInScope
  <2> SUFFICES ASSUME RouterInv, NEW r \in Requests, IsReply(r)
               PROVE  ~IsIssued(r) /\ asks[r].scope = asks[asks[r].replyTo].scope
    BY DEF ClarifiedOnceInScope
  <2> QED BY DEF RouterInv, ClarificationsHold, IsReply
<1> QED BY <1>1, RouterInvariant, PTL
===============================================================================
