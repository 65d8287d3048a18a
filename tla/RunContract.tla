------------------------------ MODULE RunContract ------------------------------
(***************************************************************************)
(* What a replay run promises whoever reads it: it moves forward from      *)
(* queued to one final state, for good, and carries a result exactly when  *)
(* that state is completed.                                                *)
(***************************************************************************)
CONSTANTS Results,     \* the results an execution may store
          NoResult,
          NoRun        \* the run is not stored yet

VARIABLE run

Final == {"completed", "failed", "cancelled"}

Init == run = NoRun

Create == run = NoRun /\ run' = [state |-> "queued", result |-> NoResult]

Settle ==
    /\ run # NoRun
    /\ run.state \notin Final
    /\ \/ run' = [state |-> "running", result |-> NoResult]
       \/ \E s \in Final \ {"completed"} : run' = [state |-> s, result |-> NoResult]
       \/ \E r \in Results : run' = [state |-> "completed", result |-> r]

Next == Create \/ Settle

Spec == Init /\ [][Next]_run
================================================================================
