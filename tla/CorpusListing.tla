----------------------------- MODULE CorpusListing -----------------------------
(***************************************************************************)
(* GET /corpus (corpus.py, api.py): one viewer pages through the documents *)
(* it may see, in a chosen order, with a signed cursor, while documents    *)
(* are uploaded and replaced under another title. Every page reads all     *)
(* records anew; a record that cannot be read is left out of that page.    *)
(***************************************************************************)
EXTENDS Naturals, FiniteSets

CONSTANTS
    CorpusIds,          \* numbers: document ids break ties of the ordering
    CorpusTitles,       \* numbers: the casefolded titles
    CorpusOwners,       \* numbers: the identities that upload, casefolded
    MaxCorpusPage,      \* corpus_page_size
    CorpusViewers,      \* identities that list, and Operator
    CorpusSearches,     \* titles searched for, 0 for none
    MaxDisturbances     \* bound: replacements, and records that cannot be read

ASSUME CorpusAssumption ==
    /\ CorpusIds \subseteq Nat
    /\ CorpusOwners \subseteq Nat \ {0}
    /\ MaxCorpusPage \in Nat \ {0}
    /\ CorpusTitles \subseteq Nat \ {0} /\ MaxDisturbances \in Nat

VARIABLES
    corpus,        \* the stored records
    browsing,      \* the listing in progress
    disturbances

corpusVars == <<corpus, browsing, disturbances>>

NoDocument == [title |-> 0, owner |-> 0]
Operator == 0
Stored(f) == corpus[f] # NoDocument

(* An operator sees every owner's documents. The parameters of the request  *)
(* stay those of the first page.                                            *)
NotBrowsing == [pc |-> "idle", viewer |-> Operator, field |-> "name", descending |-> FALSE,
                search |-> 0, size |-> 1, after |-> <<>>, shown |-> {},
                twice |-> {}, moved |-> {}, stable |-> {}]

CorpusInit ==
    /\ corpus = [f \in CorpusIds |-> NoDocument]
    /\ browsing = NotBrowsing
    /\ disturbances = 0

Disturbed == disturbances < MaxDisturbances /\ disturbances' = disturbances + 1

(* _scope_by_role, then the filters and the search. *)
InScope(f, viewer) == Stored(f) /\ (viewer = Operator \/ corpus[f].owner = viewer)
Listed(f, request) ==
    InScope(f, request.viewer) /\ request.search \in {0, corpus[f].title}

(* (sort value, id), a total order. *)
CorpusKey(f, field) == <<IF field = "name" THEN corpus[f].title ELSE corpus[f].owner, f>>
KeyBelow(x, y) == x[1] < y[1] \/ (x[1] = y[1] /\ x[2] < y[2])
Follows(x, y, descending) == IF descending THEN KeyBelow(x, y) ELSE KeyBelow(y, x)

(* Definitions whose comment begins with "Fault:" are not part of the       *)
(* specification: each is the definition after it with a plausible mistake. *)

(* Fault: a descending page resumes as an ascending one. *)
PastAscending(f, request) ==
    request.after = <<>> \/ KeyBelow(request.after, CorpusKey(f, request.field))

(* Strictly after the boundary the cursor carries. *)
PastCursor(f, request) ==
    \/ request.after = <<>>
    \/ Follows(CorpusKey(f, request.field), request.after, request.descending)

(* _clamp_page_size. *)
PageSize(requested) ==
    IF requested = 0 THEN 1 ELSE IF requested < MaxCorpusPage THEN requested ELSE MaxCorpusPage

(* Slice: the items that fewer than a page precede. *)
PageFrom(remaining, request) ==
    LET key(f) == CorpusKey(f, request.field)
    IN  {f \in remaining :
            Cardinality({g \in remaining : Follows(key(f), key(g), request.descending)})
                < request.size}

BrowseCorpus ==
    /\ browsing.pc = "idle"
    /\ \E viewer \in CorpusViewers, field \in {"name", "owner"}, descending \in BOOLEAN,
          search \in CorpusSearches, size \in 0..MaxCorpusPage + 1 :
          LET request == [NotBrowsing EXCEPT
                  !.pc = "page", !.viewer = viewer, !.field = field, !.search = search,
                  !.descending = descending, !.size = PageSize(size)]
          IN  browsing' = [request EXCEPT !.stable = {f \in CorpusIds : Listed(f, request)}]
    /\ UNCHANGED <<corpus, disturbances>>

(* One page of the records that could be read; its last item becomes the    *)
(* cursor, unless the page holds all that remains.                          *)
ShowPage(unreadable) ==
    LET remaining == {f \in CorpusIds \ unreadable :
                          Listed(f, browsing) /\ PastCursor(f, browsing)}
        page == PageFrom(remaining, browsing)
        last == CHOOSE f \in page : \A g \in page \ {f} :
                    Follows(CorpusKey(f, browsing.field), CorpusKey(g, browsing.field),
                            browsing.descending)
    IN  browsing' = [browsing EXCEPT
            !.shown = @ \cup page,
            !.twice = @ \cup (page \cap browsing.shown),
            !.stable = @ \ unreadable,
            !.after = IF page = {} THEN @ ELSE CorpusKey(last, browsing.field),
            !.pc = IF page = remaining THEN "done" ELSE "page"]

ListCorpus ==
    /\ browsing.pc = "page"
    /\ \/ ShowPage({}) /\ UNCHANGED disturbances
       \/ Disturbed /\ \E f \in CorpusIds : ShowPage({f})
    /\ UNCHANGED corpus

StopBrowsing ==
    /\ browsing.pc = "done"
    /\ browsing' = NotBrowsing
    /\ UNCHANGED <<corpus, disturbances>>

(* A record is written; history: which documents the listing could show all *)
(* along, and which changed their place in it.                              *)
WriteDocument(f, document) ==
    /\ corpus' = [corpus EXCEPT ![f] = document]
    /\ browsing' = [browsing EXCEPT
           !.moved = IF /\ browsing.pc = "page" /\ browsing.field = "name"
                        /\ document.title # corpus[f].title
                     THEN @ \cup {f} ELSE @,
           !.stable = IF document.title # corpus[f].title THEN @ \ {f} ELSE @]

UploadToCorpus ==
    /\ \E f \in CorpusIds, title \in CorpusTitles, owner \in CorpusOwners :
          ~Stored(f) /\ WriteDocument(f, [title |-> title, owner |-> owner])
    /\ UNCHANGED disturbances

(* A replacement takes the new file's name and keeps the owner. *)
ReplaceInCorpus ==
    /\ Disturbed
    /\ \E f \in CorpusIds, title \in CorpusTitles :
          Stored(f) /\ WriteDocument(f, [corpus[f] EXCEPT !.title = title])

CorpusNext ==
    \/ BrowseCorpus \/ ListCorpus \/ StopBrowsing
    \/ UploadToCorpus \/ ReplaceInCorpus

CorpusSpec == CorpusInit /\ [][CorpusNext]_corpusVars

------------------------------------------------------------------------------
(* Properties.                                                             *)

CorpusTypeOK ==
    /\ browsing.pc \in {"idle", "page", "done"}
    /\ browsing.shown \subseteq CorpusIds
    /\ disturbances \in 0..MaxDisturbances

(* However the corpus changes between the pages, in either direction and    *)
(* with ties, a listing shows only what its viewer may see, no document     *)
(* twice unless it was retitled on the way, and every document that could   *)
(* be listed on every page by the time the cursor runs out.                 *)
CorpusPagesCompose ==
    /\ \A f \in browsing.shown : InScope(f, browsing.viewer)
    /\ browsing.twice \subseteq browsing.moved
    /\ browsing.pc = "done" => browsing.stable \subseteq browsing.shown
================================================================================
