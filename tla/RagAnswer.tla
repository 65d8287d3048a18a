------------------------------- MODULE RagAnswer -------------------------------
(***************************************************************************)
(* One documents answer (service.query, generation.py, claims.py,          *)
(* confidence.py, abstention.py): search, one generation call, the         *)
(* confidence score, the verification of every claim against every passage *)
(* by a pool of threads, and the gates. Scores are in thousandths.         *)
(***************************************************************************)
EXTENDS Integers, Sequences, SequencesExt, FiniteSets

CONSTANTS
    Documents,
    SearchDepth,     \* retrieval_dense_top_k
    ContextSize,     \* context_top_k
    MaxClaims,       \* MAX_CLAIMS
    Verifiers,       \* claim_verification_max_workers
    RetrievalScores, \* the scores a passage may have
    LogProbs,        \* the mean token probabilities the model may report
    RetrievalThreshold,   \* retrieval_score_threshold
    RouteMinimum,         \* route_min_confidence
    MaxAttempts      \* attempts of retry_on_transient

ASSUME RagAnswerAssumption ==
    /\ {SearchDepth, ContextSize, MaxClaims, Verifiers, MaxAttempts} \subseteq Nat \ {0}
    /\ RetrievalScores \subseteq 0..1000 /\ LogProbs \subseteq 0..1000
    /\ RetrievalThreshold \in 0..1000 /\ RouteMinimum \in 0..1000

VARIABLES
    ragStep,     \* where the query is
    passages,    \* the context: document and score of each passage, best first
    attempts,    \* generation calls made
    graded,      \* what generation came to: flagged, and the score reaches the minimum
    claimCount,  \* the claims of the answer, 0 when it was not decomposed
    verifying,   \* the pairs the pool is verifying
    verified,    \* the verdicts collected, by claim and passage
    said,        \* history: the model's verdict on each pair
    ragOutcome   \* the response: a reason code, "answer" or "error"

ragVars == <<ragStep, passages, attempts, graded, claimCount, verifying, verified, said, ragOutcome>>

RagInit ==
    /\ ragStep = "search" /\ passages = <<>> /\ attempts = 0
    /\ graded = [flagged |-> FALSE, confident |-> FALSE]
    /\ claimCount = 0 /\ verifying = {} /\ verified = <<>> /\ said = <<>>
    /\ ragOutcome = "none"

(* What the index returns, best first: vectors of published versions and    *)
(* of others.                                                               *)
Hits == [document : Documents, published : BOOLEAN, score : RetrievalScores]
Searches == {s \in SeqOf(Hits, SearchDepth) :
                \A i, j \in DOMAIN s : i < j => s[i].score >= s[j].score}

(* Which hits, by rank, are a context: those of published versions, as many *)
(* of the first as the window holds.                                        *)
Context(hits) ==
    {kept \in SeqOf(DOMAIN hits, ContextSize) :
        /\ \A i, j \in DOMAIN kept : i < j => kept[i] < kept[j]
        /\ \A i \in DOMAIN kept : hits[kept[i]].published
        /\ \A k \in DOMAIN hits \ ToSet(kept) :
              hits[k].published => Len(kept) = ContextSize /\ kept[ContextSize] < k}

(* _retrieve. *)
Search ==
    /\ ragStep = "search"
    /\ \E hits \in Searches : \E kept \in Context(hits) :
          passages' = [i \in DOMAIN kept |-> [document |-> hits[kept[i]].document,
                                              score |-> hits[kept[i]].score]]
    /\ ragStep' = "generate"
    /\ UNCHANGED <<attempts, graded, claimCount, verifying, verified, said, ragOutcome>>

(* rag_confidence_score: the weighted average of the components present,    *)
(* capped when the evidence was flagged, and clamped.                       *)
EvidenceBase(cited, flagged) ==
    CASE passages = <<>> \/ cited = 0 -> 150
      [] cited > 0 /\ ~flagged -> 850
      [] OTHER -> 600
LabelScore == [high |-> 900, medium |-> 600, low |-> 300]
ScoreSum == FoldLeft(LAMBDA sum, p : sum + p.score, 0, passages)
Grounding(cited) == (ScoreSum + 1000 * cited) \div (2 * Len(passages))
Weighted(cited, flagged, label, prob) ==
    LET hits == IF passages = <<>> THEN 0 ELSE 25
        told == IF prob.told THEN 15 ELSE 0
    IN  (40 * EvidenceBase(cited, flagged) + 20 * LabelScore[label] + told * prob.mean
            + (IF hits = 0 THEN 0 ELSE hits * Grounding(cited))) \div (60 + hits + told)
Least(a, b) == IF a < b THEN a ELSE b
Most(a, b) == IF a > b THEN a ELSE b

(* Definitions whose comment begins with "Fault:" are not part of the       *)
(* specification: each is the definition after it with a plausible mistake. *)

(* Fault: a flagged answer only loses its citations. *)
UncappedScore(cited, flagged, label, prob) ==
    Most(50, Least(990, Weighted(IF flagged THEN 0 ELSE cited, flagged, label, prob)))

RagScore(cited, flagged, label, prob) ==
    LET average == Weighted(cited, flagged, label, prob)
    IN  Most(50, Least(990, IF flagged /\ average \notin 0..350 THEN 350 ELSE average))

Probabilities == [told : BOOLEAN, mean : LogProbs]

(* Of the score only its comparison with the route's minimum is read later. *)
Graded(cited, flagged, label, prob) ==
    [flagged |-> flagged, confident |-> RagScore(cited, flagged, label, prob) >= RouteMinimum]

(* answer: the call, tried again when it raises. An output that does not    *)
(* parse is an answer that cites nothing, flagged and of low confidence;    *)
(* of the ids an output names those of the context are its citations.       *)
Generate ==
    /\ ragStep = "generate"
    /\ attempts' = attempts + 1
    /\ \/ /\ \E cited \in 0..Len(passages), flagged \in BOOLEAN,
                label \in DOMAIN LabelScore, prob \in Probabilities, parsed \in BOOLEAN :
                graded' = IF parsed THEN Graded(cited, flagged, label, prob)
                          ELSE Graded(0, TRUE, "low", prob)
          /\ ragStep' = "decompose"
          /\ UNCHANGED ragOutcome
       \/ /\ UNCHANGED graded
          /\ IF attempts' < MaxAttempts THEN UNCHANGED <<ragStep, ragOutcome>>
             ELSE ragStep' = "done" /\ ragOutcome' = "error"
    /\ UNCHANGED <<passages, claimCount, verifying, verified, said>>

(* _decompose: the answer's claims; none when the model fails. *)
Decompose ==
    /\ ragStep = "decompose"
    /\ claimCount' \in 0..MaxClaims
    /\ ragStep' = "verify"
    /\ UNCHANGED <<passages, attempts, graded, verifying, verified, said, ragOutcome>>

(* The pairs in the order they are submitted: claim by claim. *)
PairAt(k) == <<((k - 1) \div Len(passages)) + 1, ((k - 1) % Len(passages)) + 1>>
PairCount == claimCount * Len(passages)
Begun == Cardinality(verifying) + Cardinality(DOMAIN said)

StartVerification ==
    /\ ragStep = "verify"
    /\ Begun < PairCount /\ Cardinality(verifying) < Verifiers
    /\ verifying' = verifying \cup {PairAt(Begun + 1)}
    /\ UNCHANGED <<ragStep, passages, attempts, graded, claimCount, verified, said, ragOutcome>>

(* _verify_pair: entails in full, in part or not at all, does not entail;   *)
(* or undetermined, which an error or an unreadable output comes to.        *)
Verdicts == {"full", "partial", "nominal", "refutes", "undetermined"}

(* Fault: results are filed in the order they come. *)
FiledAsTheyCome(pair, verdict) ==
    [p \in DOMAIN verified \cup {PairAt(Cardinality(DOMAIN verified) + 1)} |->
        IF p \in DOMAIN verified THEN verified[p] ELSE verdict]

(* verified[future_to_key[future]] = future.result(), as they complete. *)
Filed(pair, verdict) ==
    [p \in DOMAIN verified \cup {pair} |-> IF p = pair THEN verdict ELSE verified[p]]

FinishVerification ==
    /\ ragStep = "verify"
    /\ \E pair \in verifying, verdict \in Verdicts :
          /\ verifying' = verifying \ {pair}
          /\ said' = [p \in DOMAIN said \cup {pair} |-> IF p = pair THEN verdict ELSE said[p]]
          /\ verified' = Filed(pair, verdict)
    /\ UNCHANGED <<ragStep, passages, attempts, graded, claimCount, ragOutcome>>

Claims == 1..claimCount
VerdictsOn(c) == {verified[<<c, i>>] : i \in DOMAIN passages}

(* Fault: what neither entails nor refutes was not verified. *)
StatusUnlessUndetermined(verdicts) ==
    CASE "full" \in verdicts -> "supported"
      [] "full" \notin verdicts /\ "partial" \in verdicts -> "partially_supported"
      [] "undetermined" \in verdicts /\ verdicts \cap {"full", "partial"} = {} ->
            "verification_unavailable"
      [] OTHER -> "unsupported"

(* classify_evidence_status. *)
EvidenceStatus(verdicts) ==
    CASE "full" \in verdicts -> "supported"
      [] "full" \notin verdicts /\ "partial" \in verdicts -> "partially_supported"
      [] verdicts = {"undetermined"} -> "verification_unavailable"
      [] OTHER -> "unsupported"

(* has_conflicting_evidence: entailed and refuted by different documents.   *)
Conflicting(c) ==
    \E i, j \in DOMAIN passages :
        /\ verified[<<c, i>>] \in {"full", "partial", "nominal"}
        /\ verified[<<c, j>>] = "refutes"
        /\ passages[i].document # passages[j].document

(* _select_reason_code: the gates in their order, of which the first that   *)
(* fires gives the reason.                                                  *)
GateOrder == <<"no_evidence", "retrieval_below_threshold", "low_confidence", "unsupported_claims",
               "conflicting_evidence">>
Fires(reason) ==
    CASE reason = "no_evidence" -> passages = <<>>
      [] reason = "retrieval_below_threshold" ->
            \A i \in DOMAIN passages : passages[i].score < RetrievalThreshold
      [] reason = "low_confidence" -> ~graded.confident
      [] reason = "unsupported_claims" ->
            \E c \in Claims : EvidenceStatus(VerdictsOn(c)) = "unsupported"
      [] reason = "conflicting_evidence" -> \E c \in Claims : Conflicting(c)
Gate ==
    LET fired == {k \in DOMAIN GateOrder : Fires(GateOrder[k])}
    IN  IF fired = {} THEN "answer"
        ELSE GateOrder[CHOOSE k \in fired : \A m \in fired : k <= m]

(* The claims are put together once every pair is verified. *)
GateAnswer ==
    /\ ragStep = "verify" /\ Cardinality(DOMAIN said) = PairCount
    /\ ragStep' = "done"
    /\ ragOutcome' = Gate
    /\ UNCHANGED <<passages, attempts, graded, claimCount, verifying, verified, said>>

RagNext == Search \/ Generate \/ Decompose \/ StartVerification \/ FinishVerification \/ GateAnswer

RagSpec == RagInit /\ [][RagNext]_ragVars

------------------------------------------------------------------------------
(* Properties.                                                             *)

RagTypeOK ==
    /\ ragStep \in {"search", "generate", "decompose", "verify", "done"}
    /\ passages \in Seq([document : Documents, score : RetrievalScores])
    /\ attempts \in 0..MaxAttempts
    /\ graded \in [flagged : BOOLEAN, confident : BOOLEAN]
    /\ claimCount \in 0..MaxClaims
    /\ DOMAIN verified \subseteq Claims \X DOMAIN passages
    /\ ragOutcome \in ToSet(GateOrder) \cup {"none", "answer", "error"}

(* Whatever order verification ends in, an answer is shown only when the    *)
(* model judged each of its claims entailed by a passage, in full or in     *)
(* part, or judged nothing about it, and entailed and refuted by different  *)
(* documents none; and never when its evidence was flagged as insufficient  *)
(* or its output could not be read.                                         *)
AnswersHoldUp ==
    ragOutcome = "answer" =>
        /\ ~graded.flagged
        /\ \A c \in Claims :
              /\ \/ \E i \in DOMAIN passages : said[<<c, i>>] \in {"full", "partial"}
                 \/ \A i \in DOMAIN passages : said[<<c, i>>] = "undetermined"
              /\ \A i, j \in DOMAIN passages :
                    said[<<c, i>>] \in {"full", "partial", "nominal"} /\ said[<<c, j>>] = "refutes"
                        => passages[i].document = passages[j].document
================================================================================
