---------------------------- MODULE RecordContract ----------------------------
(***************************************************************************)
(* What the stored record of a document promises whoever reads it, with    *)
(* nothing said of how many threads and processes write it: it changes     *)
(* only in single legal steps.                                             *)
(***************************************************************************)
CONSTANTS Records,     \* the records that may be stored
          Absent       \* nothing is stored

VARIABLE stored

Init == stored = Absent

(* deleted is for good, and only an upload or a deletion moves the record   *)
(* from one version to another.                                             *)
Next ==
    /\ stored' \in Records
    /\ stored.status = "deleted" => stored'.status = "deleted"
    /\ stored # Absent /\ stored'.version # stored.version
          => stored'.status \in {"queued", "deleted"}

Spec == Init /\ [][Next]_stored
==============================================================================
