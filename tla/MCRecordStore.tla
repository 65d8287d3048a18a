---------------------------- MODULE MCRecordStore ----------------------------
(* Small instances of RecordStore for TLC. *)
EXTENDS RecordStore, TLC

CONSTANTS v1, v2, api, worker, t1, t2, t3

OneProcess == [t \in Threads |-> api]

(* One thread in the worker, the others in the API process. *)
TwoProcesses == [t \in Threads |-> IF t = t3 THEN worker ELSE api]
==============================================================================
