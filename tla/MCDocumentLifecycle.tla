------------------------- MODULE MCDocumentLifecycle -------------------------
(* Small instances of DocumentLifecycle for TLC. *)
EXTENDS DocumentLifecycle, TLC

CONSTANTS v1, v2, v3, w1, w2, s1, s2, r1, r2

OneWorker == [s \in Slots |-> w1]
TwoWorkers == s1 :> w1 @@ s2 :> w2

AllFaults == FaultKinds

(* Versions are interchangeable, and so are requests. *)
AnyUsers == Permutations(Versions) \cup Permutations(Requests)

(* So are the slots of one worker. *)
Symmetric == AnyUsers \cup Permutations(Slots)
==============================================================================
