---------------------------- MODULE FeedbackReview ----------------------------
(***************************************************************************)
(* Feedback and its review inbox (feedback.py, service.py): users submit   *)
(* feedback, operators classify, resolve and promote it into the           *)
(* evaluation set, and one operator pages through the inbox meanwhile.     *)
(* Records are written under compare-and-set, benchmark cases are created  *)
(* once; a call may raise half way.                                        *)
(***************************************************************************)
EXTENDS Naturals, FiniteSets

CONSTANTS
    FeedbackIds,        \* numbers: they break ties of the ordering
    FeedbackKinds,      \* pairs: the rating, and whether an answer is expected
    FeedbackTimes,      \* created_at, several items may share one
    Promoters,          \* operators in promote_feedback
    InboxFilters,       \* "all" and review statuses
    MaxInboxPage,       \* the page size after clamping
    MaxReviews,         \* bound: classifications and resolutions
    MaxFeedbackFaults   \* bound: calls that raise or lose their reply

ASSUME FeedbackAssumption ==
    /\ FeedbackIds \subseteq Nat
    /\ FeedbackKinds \subseteq {"negative", "positive"} \X BOOLEAN
    /\ FeedbackTimes \subseteq Nat
    /\ InboxFilters \subseteq {"all", "unreviewed", "reviewed", "resolved"}
    /\ MaxInboxPage \in Nat \ {0}
    /\ MaxReviews \in Nat
    /\ MaxFeedbackFaults \in Nat

VARIABLES
    feedback,         \* the stored records, by identifier
    evaluationCases,  \* feedback identifiers with a benchmark case
    promotions,       \* promote_feedback in each promoter
    inbox,            \* the listing in progress: filter, cursor, what it showed
    reviews,          \* reviews so far
    feedbackFaults

feedbackVars == <<feedback, evaluationCases, promotions, inbox, reviews, feedbackFaults>>

ReviewStatuses == {"unreviewed", "reviewed", "resolved"}
NoFeedback == [rating |-> "none"]
FeedbackRecords ==
    [rating : {"negative", "positive"}, time : FeedbackTimes, expected : BOOLEAN,
     status : ReviewStatuses, promoted : BOOLEAN]
Submitted == {f \in FeedbackIds : feedback[f] # NoFeedback}

NoPromotion == [pc |-> "idle", item |-> 0, outcome |-> "none"]
NoListing == [pc |-> "idle", filter |-> "all", after |-> <<>>, shown |-> {},
              twice |-> FALSE, stable |-> {}]

FeedbackInit ==
    /\ feedback = [f \in FeedbackIds |-> NoFeedback]
    /\ evaluationCases = {}
    /\ promotions = [p \in Promoters |-> NoPromotion]
    /\ inbox = NoListing
    /\ reviews = 0
    /\ feedbackFaults = 0

FeedbackFault == feedbackFaults < MaxFeedbackFaults /\ feedbackFaults' = feedbackFaults + 1

------------------------------------------------------------------------------
(* The inbox: list_feedback_inbox.                                         *)

(* _select_negative over the records the listing loaded. *)
Selected(records, filter) ==
    {f \in FeedbackIds : /\ records[f].rating = "negative"
                         /\ filter = "all" \/ records[f].status = filter}

(* Definitions whose comment begins with "Fault:" are not part of the       *)
(* specification: each is the definition after it with a plausible mistake. *)

(* Keys are (created_at, feedback_id), compared in that order. *)
Precedes(a, b) == a[1] < b[1] \/ (a[1] = b[1] /\ a[2] < b[2])
OrderingKey(f) == <<feedback[f].time, f>>

(* Fault: the next page resumes before the cursor's time, whatever the item. *)
RemainingByTime ==
    {f \in Selected(feedback, inbox.filter) :
        inbox.after = <<>> \/ feedback[f].time < inbox.after[1]}

(* The items a page resumes with: those strictly before the boundary. *)
Remaining ==
    {f \in Selected(feedback, inbox.filter) :
        inbox.after = <<>> \/ Precedes(OrderingKey(f), inbox.after)}

(* Newest first. *)
NewerThan(f, items) == {g \in items : Precedes(OrderingKey(f), OrderingKey(g))}
Page(items) == {f \in items : Cardinality(NewerThan(f, items)) < MaxInboxPage}

OpenInbox ==
    /\ inbox.pc = "idle"
    /\ \E filter \in InboxFilters :
          inbox' = [NoListing EXCEPT !.pc = "page", !.filter = filter,
                                     !.stable = Selected(feedback, filter)]
    /\ UNCHANGED <<feedback, evaluationCases, promotions, reviews, feedbackFaults>>

(* One page; the cursor names its last item, and none is minted when the    *)
(* page holds all that remains.                                             *)
NextPage ==
    LET page == Page(Remaining)
        last == CHOOSE f \in page : NewerThan(f, page) = page \ {f}
    IN
    /\ inbox.pc = "page"
    /\ inbox' = [inbox EXCEPT
           !.shown = @ \cup page,
           !.twice = @ \/ page \cap inbox.shown # {},
           !.after = IF page = {} THEN @ ELSE OrderingKey(last),
           !.pc = IF page = Remaining THEN "done" ELSE "page"]
    /\ UNCHANGED <<feedback, evaluationCases, promotions, reviews, feedbackFaults>>

CloseInbox ==
    /\ inbox.pc = "done"
    /\ inbox' = NoListing
    /\ UNCHANGED <<feedback, evaluationCases, promotions, reviews, feedbackFaults>>

(* History of the listing: the items that matched its filter all along. *)
StillStable(records) ==
    inbox' = [inbox EXCEPT !.stable = @ \cap Selected(records, inbox.filter)]

------------------------------------------------------------------------------
(* Submitting and reviewing.                                               *)

RecordFeedback ==
    /\ \E f \in FeedbackIds \ Submitted, t \in FeedbackTimes, k \in FeedbackKinds :
          feedback' = [feedback EXCEPT ![f] =
              [rating |-> k[1], time |-> t, expected |-> k[2], status |-> "unreviewed",
               promoted |-> FALSE]]
    /\ UNCHANGED <<evaluationCases, promotions, inbox, reviews, feedbackFaults>>

(* classify_feedback and resolve_feedback change the record that is stored. *)
ReviewFeedback(status) ==
    /\ reviews < MaxReviews
    /\ reviews' = reviews + 1
    /\ \E f \in Submitted : feedback' = [feedback EXCEPT ![f].status = status]
    /\ StillStable(feedback')
    /\ UNCHANGED <<evaluationCases, promotions, feedbackFaults>>

ClassifyFeedback == ReviewFeedback("reviewed")
ResolveFeedback == ReviewFeedback("resolved")

(* promote_feedback. *)
PromotionGoes(p, pc) == promotions' = [promotions EXCEPT ![p].pc = pc]
PromotionEnds(p, outcome) ==
    promotions' = [promotions EXCEPT ![p].pc = "idle", ![p].outcome = outcome]
Promotable(record) == record.expected /\ ~record.promoted

(* The record is read and its guards applied. *)
PromoteFeedback(p) ==
    /\ promotions[p].pc = "idle"
    /\ \E f \in Submitted :
          promotions' = [promotions EXCEPT ![p] =
              CASE feedback[f].promoted -> [pc |-> "idle", item |-> f,
                                               outcome |-> "already"]
                [] Promotable(feedback[f]) -> [pc |-> "create", item |-> f,
                                               outcome |-> "none"]
                [] OTHER -> NoPromotion]
    /\ UNCHANGED <<feedback, evaluationCases, inbox, reviews, feedbackFaults>>

(* Fault: whatever the creation raises is taken for a key that exists. *)
CreateCaseTakingErrors(p) ==
    LET f == promotions[p].item IN
    /\ promotions[p].pc = "create"
    /\ \/ /\ f \notin evaluationCases
          /\ evaluationCases' = evaluationCases \cup {f}
          /\ PromotionGoes(p, "point")
          /\ UNCHANGED feedbackFaults
       \/ FeedbackFault /\ PromotionEnds(p, "already") /\ UNCHANGED evaluationCases
    /\ UNCHANGED <<feedback, inbox, reviews>>

(* The case is created under a key derived from the item. When the reply of *)
(* the write that created it is lost, the repeated one finds the key taken. *)
CreateCase(p) ==
    LET f == promotions[p].item IN
    /\ promotions[p].pc = "create"
    /\ evaluationCases' = evaluationCases \cup {f}
    /\ \/ f \notin evaluationCases /\ PromotionGoes(p, "point") /\ UNCHANGED feedbackFaults
       \/ f \in evaluationCases /\ PromotionEnds(p, "already") /\ UNCHANGED feedbackFaults
       \/ f \notin evaluationCases /\ FeedbackFault /\ PromotionEnds(p, "already")
    /\ UNCHANGED <<feedback, inbox, reviews>>

(* The pointer, under compare-and-set with the guards applied again; a      *)
(* write repeated after a lost reply finds its own pointer.                 *)
PointAtCase(p) ==
    LET f == promotions[p].item IN
    /\ promotions[p].pc = "point"
    /\ feedback' = [feedback EXCEPT ![f].promoted = TRUE]
    /\ \/ /\ PromotionEnds(p, IF feedback[f].promoted THEN "already" ELSE "promoted")
          /\ UNCHANGED feedbackFaults
       \/ FeedbackFault /\ PromotionEnds(p, "already")
    /\ UNCHANGED <<evaluationCases, inbox, reviews>>

(* A read or a write raises, or the process dies. *)
PromotionRaises(p) ==
    /\ promotions[p].pc # "idle"
    /\ FeedbackFault
    /\ PromotionEnds(p, "none")
    /\ UNCHANGED <<feedback, evaluationCases, inbox, reviews>>

FeedbackNext ==
    \/ RecordFeedback \/ ClassifyFeedback \/ ResolveFeedback
    \/ OpenInbox \/ NextPage \/ CloseInbox
    \/ \E p \in Promoters :
          PromoteFeedback(p) \/ CreateCase(p) \/ PointAtCase(p) \/ PromotionRaises(p)

FeedbackSpec == FeedbackInit /\ [][FeedbackNext]_feedbackVars

------------------------------------------------------------------------------
(* Properties.                                                             *)

FeedbackTypeOK ==
    /\ feedback \in [FeedbackIds -> FeedbackRecords \cup {NoFeedback}]
    /\ evaluationCases \subseteq FeedbackIds
    /\ \A p \in Promoters :
          /\ promotions[p].pc \in {"idle", "create", "point"}
          /\ promotions[p].outcome \in {"none", "promoted", "already"}
    /\ inbox.pc \in {"idle", "page", "done"}
    /\ inbox.shown \subseteq FeedbackIds
    /\ reviews \in 0..MaxReviews
    /\ feedbackFaults \in 0..MaxFeedbackFaults

(* Paging through the inbox shows no item twice, and a listing that is done *)
(* has shown every item that matched its filter from the first page on,     *)
(* while feedback arrives and is reviewed between the pages.                *)
PagingIsComplete ==
    /\ ~inbox.twice
    /\ inbox.pc = "done" => inbox.stable \subseteq inbox.shown

(* A promotion that is recorded on the item, or reported as done now or     *)
(* earlier, has its benchmark case in the evaluation set, with an expected  *)
(* answer, whatever raised half way.                                        *)
PromotionsHaveCases ==
    /\ \A f \in Submitted : feedback[f].promoted => f \in evaluationCases
    /\ \A p \in Promoters :
          promotions[p].outcome \in {"promoted", "already"}
              => promotions[p].item \in evaluationCases
    /\ \A f \in evaluationCases : feedback[f].expected
================================================================================
