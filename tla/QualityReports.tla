---------------------------- MODULE QualityReports ----------------------------
(***************************************************************************)
(* What operators learn from recorded queries: the knowledge gap map       *)
(* (knowledge_gap.py) clusters the low-quality outcomes into topics, and   *)
(* the trace investigator (trace_investigator.py) diagnoses one of them.   *)
(* Both read traces that the query pipeline writes in the background and   *)
(* feedback that users leave meanwhile. Scores are percentages.            *)
(***************************************************************************)
EXTENDS Integers, FiniteSets, SequencesExt

CONSTANTS
    Outcomes,         \* the queries, in the order their trace keys are listed
    Embeddings,       \* the vectors questions may have, integer pairs
    GapScores,        \* confidence scores, -1 when none is reported
    GapMinConfidence, \* route_min_confidence
    MaxTopics,        \* knowledge_gap_max_topics
    MinOutcomes       \* knowledge_gap_min_eligible_outcomes

ASSUME GapAssumption ==
    /\ Outcomes \subseteq Nat
    /\ Embeddings \subseteq Int \X Int
    /\ GapScores \subseteq -1..100
    /\ MaxTopics \in Nat \ {0} /\ MinOutcomes \in Nat

VARIABLES
    queries,     \* the stored traces
    negative,    \* outcomes with negative feedback
    gapMap,      \* the generation in progress, and its result
    diagnosis    \* the reply of the last step, when it diagnosed

gapVars == <<queries, negative, gapMap, diagnosis>>

Untraced == [stored |-> FALSE, score |-> -1, embedding |-> <<0, 0>>]
NoMap == [pc |-> "idle", traces |-> {}, due |-> {}, rated |-> {}, todo |-> {},
          clusters |-> <<>>, topics |-> <<>>]
NoDiagnosis == [elements |-> {}, recommendations |-> 0]

GapInit ==
    /\ queries = [o \in Outcomes |-> Untraced]
    /\ negative = {}
    /\ gapMap = NoMap
    /\ diagnosis = NoDiagnosis

StoredTraces == {o \in Outcomes : queries[o].stored}

(* A reply is looked at once; a generation in progress goes on. *)
Generating == gapMap.pc \in {"feedback", "cluster"}
KeepGeneration == gapMap' = IF Generating THEN gapMap ELSE NoMap
OtherRequest == KeepGeneration /\ diagnosis' = NoDiagnosis

------------------------------------------------------------------------------
(* Queries and feedback.                                                   *)

(* In the background the pipeline stores its trace, with the confidence and *)
(* without what the gate decides afterwards, _save_query_trace; until then  *)
(* the query does not exist for anyone here.                                *)
StoreTrace(o) ==
    /\ o \notin StoredTraces
    /\ \E score \in GapScores, embedding \in Embeddings :
          queries' = [queries EXCEPT ![o] =
              [stored |-> TRUE, score |-> score, embedding |-> embedding]]
    /\ OtherRequest
    /\ UNCHANGED negative

(* Feedback is taken only for a trace that is stored. *)
RateNegative(o) ==
    /\ o \in StoredTraces \ negative
    /\ negative' = negative \cup {o}
    /\ OtherRequest
    /\ UNCHANGED queries

------------------------------------------------------------------------------
(* The knowledge gap map.                                                  *)

(* select_eligible_outcomes: no trace carries an abstention's reason code.  *)
Eligible(o, rated) == queries[o].score \in 0..GapMinConfidence - 1 \/ o \in rated

(* The cosine similarity of an embedding and a cluster's centroid, squared  *)
(* with its sign, as a fraction; 0 for a zero vector.                       *)
Dot(u, v) == u[1] * v[1] + u[2] * v[2]
AbsoluteOf(n) == IF n < 0 THEN -n ELSE n
Similarity(embedding, sum) ==
    LET d == Dot(embedding, sum)
        norms == Dot(embedding, embedding) * Dot(sum, sum)
    IN  IF norms = 0 THEN <<0, 1>> ELSE <<d * AbsoluteOf(d), norms>>
Exceeds(x, y) == x[1] * y[2] > y[1] * x[2]
JoinThreshold == <<9, 16>>

(* The first cluster of the greatest similarity, if any is more than -1.    *)
Nearest(clusters, embedding) ==
    LET like(i) == Similarity(embedding, clusters[i].sum)
        candidates == {i \in DOMAIN clusters : Exceeds(like(i), <<-1, 1>>)}
    IN  {i \in candidates : \A j \in candidates :
            ~Exceeds(like(j), like(i)) /\ (j < i => Exceeds(like(i), like(j)))}

Cluster(o) == [sum |-> queries[o].embedding, members |-> {o}]
Join(cluster, o) ==
    [sum |-> <<cluster.sum[1] + queries[o].embedding[1], cluster.sum[2] + queries[o].embedding[2]>>,
     members |-> cluster.members \cup {o}]

(* Definitions whose comment begins with "Fault:" are not part of the       *)
(* specification: each is the definition after it with a plausible mistake. *)

(* Fault: once there are as many topics as allowed, the others are dropped. *)
PlacedWhileRoom(clusters, o) ==
    LET near == {i \in Nearest(clusters, queries[o].embedding) :
                    ~Exceeds(JoinThreshold, Similarity(queries[o].embedding, clusters[i].sum))}
    IN  IF near # {} THEN LET i == CHOOSE i \in near : TRUE
                          IN  [clusters EXCEPT ![i] = Join(@, o)]
        ELSE IF Len(clusters) < MaxTopics THEN Append(clusters, Cluster(o)) ELSE clusters

(* One turn of _cluster_outcomes. *)
Placed(clusters, o) ==
    LET near == {i \in Nearest(clusters, queries[o].embedding) :
                    \/ ~Exceeds(JoinThreshold, Similarity(queries[o].embedding, clusters[i].sum))
                    \/ Len(clusters) >= MaxTopics}
    IN  IF near = {} THEN Append(clusters, Cluster(o))
        ELSE LET i == CHOOSE i \in near : TRUE IN [clusters EXCEPT ![i] = Join(@, o)]

(* Coverage: poor below 40 on average or half rated negatively, good from   *)
(* 70 with a fifth at most; a missing score counts as 0.                    *)
Coverage(members, rated) ==
    LET score(o) == IF queries[o].score < 0 THEN 0 ELSE queries[o].score
        total == FoldSet(LAMBDA o, sum : sum + score(o), 0, members)
        size == Cardinality(members)
        bad == Cardinality(members \cap rated)
    IN  IF total < 40 * size \/ 2 * bad >= size THEN "poor"
        ELSE IF total >= 70 * size /\ 5 * bad <= size THEN "good" ELSE "fair"

(* POST /knowledge-gap-map lists and reads the traces. `due`, a history,    *)
(* are the outcomes that were of low quality by then.                       *)
ReadTraces ==
    /\ ~Generating
    /\ gapMap' = [NoMap EXCEPT !.pc = "feedback", !.traces = StoredTraces,
                               !.due = {o \in StoredTraces : Eligible(o, negative)}]
    /\ diagnosis' = NoDiagnosis
    /\ UNCHANGED <<queries, negative>>

(* Then the feedback, of which `rated` are negative; too few eligible       *)
(* outcomes give a map without topics.                                      *)
ReadFeedback ==
    LET eligible == {o \in gapMap.traces : Eligible(o, negative)}
    IN
    /\ gapMap.pc = "feedback"
    /\ gapMap' = IF Cardinality(eligible) < MinOutcomes THEN [gapMap EXCEPT !.pc = "map"]
                 ELSE [gapMap EXCEPT !.pc = "cluster", !.rated = negative, !.todo = eligible]
    /\ diagnosis' = NoDiagnosis
    /\ UNCHANGED <<queries, negative>>

PlaceOutcome ==
    /\ gapMap.pc = "cluster"
    /\ \E o \in gapMap.todo :
          /\ \A other \in gapMap.todo : o <= other
          /\ gapMap' = [gapMap EXCEPT !.todo = @ \ {o}, !.clusters = Placed(@, o)]
    /\ diagnosis' = NoDiagnosis
    /\ UNCHANGED <<queries, negative>>

(* The topics, each with its members and coverage. *)
FinishMap ==
    /\ gapMap.pc = "cluster" /\ gapMap.todo = {}
    /\ gapMap' = [gapMap EXCEPT
           !.pc = "map", !.clusters = <<>>,
           !.topics = [i \in DOMAIN gapMap.clusters |->
               LET members == gapMap.clusters[i].members
               IN  [members |-> members, coverage |-> Coverage(members, gapMap.rated)]]]
    /\ diagnosis' = NoDiagnosis
    /\ UNCHANGED <<queries, negative>>

(* Embedding the questions before, or labelling the topics after, raises.   *)
FailMap ==
    /\ gapMap.pc = "cluster" /\ (gapMap.clusters = <<>> \/ gapMap.todo = {})
    /\ gapMap' = NoMap
    /\ diagnosis' = NoDiagnosis
    /\ UNCHANGED <<queries, negative>>

------------------------------------------------------------------------------
(* The trace investigator.                                                 *)

Elements == {"route", "retrieval_scores", "retrieval_order", "generation_outcome"}
MaxRecommendations == 10

(* Fault: the elements the model names are taken as they are. *)
DiagnosisAsNamed(named, recommended) ==
    IF recommended = 0 THEN NoDiagnosis
    ELSE [elements |-> named,
          recommendations |-> IF recommended < MaxRecommendations THEN recommended
                              ELSE MaxRecommendations]

(* _parse_diagnosis: no valid recommendation, no elements; no elements      *)
(* named, those the trace has.                                              *)
DiagnosisOf(named, recommended) ==
    IF recommended = 0 THEN NoDiagnosis
    ELSE [elements |-> IF named # {} THEN named ELSE {"route", "generation_outcome"},
          recommendations |-> IF recommended < MaxRecommendations THEN recommended
                              ELSE MaxRecommendations]

(* A trace that is not stored (yet) is not found; a call that raises, like  *)
(* output that does not parse, recommends nothing.                          *)
DiagnoseTrace(o) ==
    /\ o \in StoredTraces
    /\ \E named \in {{}, {"retrieval_scores"}}, recommended \in {0, MaxRecommendations + 1} :
          diagnosis' = DiagnosisOf(named, recommended)
    /\ KeepGeneration
    /\ UNCHANGED <<queries, negative>>

GapNext ==
    \/ ReadTraces \/ ReadFeedback \/ PlaceOutcome \/ FinishMap \/ FailMap
    \/ \E o \in Outcomes :
          StoreTrace(o) \/ RateNegative(o) \/ DiagnoseTrace(o)

GapSpec == GapInit /\ [][GapNext]_gapVars

------------------------------------------------------------------------------
(* Properties.                                                             *)

GapTypeOK ==
    /\ \A o \in Outcomes : queries[o].score \in GapScores \cup {-1}
    /\ negative \subseteq Outcomes
    /\ gapMap.pc \in {"idle", "feedback", "cluster", "map"}
    /\ diagnosis.elements \subseteq Elements

Topics == {gapMap.topics[i].members : i \in DOMAIN gapMap.topics}

(* A map with topics reports every outcome that was of low quality when the *)
(* request came, each in exactly one topic, and nothing but outcomes of low *)
(* quality, while queries and feedback keep arriving; a diagnosis that      *)
(* recommends anything refers to something that it analyzed.                *)
ReportsHoldUp ==
    /\ gapMap.pc = "map" /\ gapMap.topics # <<>> =>
          /\ gapMap.due \subseteq UNION Topics
          /\ \A o \in UNION Topics : Eligible(o, negative)
          /\ \A i, j \in DOMAIN gapMap.topics :
                i # j => gapMap.topics[i].members \cap gapMap.topics[j].members = {}
    /\ diagnosis.recommendations \in 0..MaxRecommendations
    /\ diagnosis.recommendations > 0 <=> diagnosis.elements # {}

(* "Once max_topics clusters exist, every remaining outcome is folded into  *)
(* its nearest cluster so the bound holds".                                 *)
TopicsWithinBound == Len(gapMap.topics) <= MaxTopics
===============================================================================
