---------------------------- MODULE Clarifications ----------------------------
(***************************************************************************)
(* Clarification records (clarification.py): created once, under an id of  *)
(* their own, with the scope of the question and an expiry, and never      *)
(* changed. A record is named by the request that issued it.               *)
(***************************************************************************)
EXTENDS Naturals

CONSTANTS
    Askers,              \* requests that may issue one
    ClarificationScopes, \* what a record's document_scope may be
    ClarificationExpiry, \* clarification_expiry_minutes
    MaxAskClock          \* bound: the clock

ASSUME ClarificationAssumption ==
    /\ ClarificationExpiry \in Nat \ {0}
    /\ MaxAskClock \in Nat

VARIABLES clarifications, askClock

clarificationVars == <<clarifications, askClock>>

NotIssuedYet == [expires |-> 0]

ClarificationsInit ==
    /\ clarifications = [a \in Askers |-> NotIssuedYet]
    /\ askClock = 0

IsIssued(a) == clarifications[a].expires > 0

(* issue: create-only, under a fresh id. *)
IssueRecord(a, scope) ==
    /\ clarifications' = [clarifications EXCEPT ![a] =
           [expires |-> askClock + ClarificationExpiry, scope |-> scope]]
    /\ UNCHANGED askClock

(* load: an id that is unknown or expired is refused. *)
MayReply(a) == IsIssued(a) /\ askClock < clarifications[a].expires

AskTick ==
    /\ askClock < MaxAskClock
    /\ askClock' = askClock + 1
    /\ UNCHANGED clarifications

------------------------------------------------------------------------------
ClarificationsTypeOK ==
    /\ clarifications \in [Askers -> {NotIssuedYet} \cup
           [expires : 1..(MaxAskClock + ClarificationExpiry), scope : ClarificationScopes]]
    /\ askClock \in 0..MaxAskClock
================================================================================
