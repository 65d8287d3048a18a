--------------------------- MODULE PublicationGate ---------------------------
(***************************************************************************)
(* What a document promises its readers, with nothing said of queues,      *)
(* caches, stages or stores: at every moment at most one version is        *)
(* published; what is published was once ingested completely; a deleted    *)
(* document is never published again.  DocumentLifecycle implements this.  *)
(***************************************************************************)
CONSTANTS Versions,      \* content hashes
          NoVersion,     \* nothing is published
          Gone           \* the document was deleted

VARIABLES published,     \* the version the search gate lets through
          ingested       \* versions some ingestion embedded and upserted whole

gateVars == <<published, ingested>>

Init ==
    /\ published = NoVersion
    /\ ingested = {}

(* An ingestion of v reaches the end of its indexing stage. *)
Ingest(v) ==
    /\ ingested' = ingested \cup {v}
    /\ UNCHANGED published

(* The record's active pointer moves; it may also fall back to an earlier  *)
(* version (a restore) or to none.                                         *)
Publish(v) ==
    /\ published # Gone
    /\ v \in ingested \cup {NoVersion}
    /\ published' = v
    /\ UNCHANGED ingested

Remove ==
    /\ published' = Gone
    /\ UNCHANGED ingested

Next ==
    \/ \E v \in Versions : Ingest(v)
    \/ \E v \in Versions \cup {NoVersion} : Publish(v)
    \/ Remove

Spec == Init /\ [][Next]_gateVars
==============================================================================
