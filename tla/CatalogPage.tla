----------------------------- MODULE CatalogPage -----------------------------
(***************************************************************************)
(* The page of a request's products (RequestCatalogPage.tsx).  A load of   *)
(* the page is two requests answered independently, for the search request *)
(* and for its products; the page takes both answers or neither.  It polls *)
(* while the request it shows is queued or running.                        *)
(***************************************************************************)
EXTENDS Naturals, FiniteSets, Domain

CONSTANTS
    SearchProcs,      \* who processes the search: the worker and the background job
    Found,            \* products the search stores
    CatalogLoads,     \* loads of the page that may be under way together
    MaxCatalogFailures  \* bound: loads that fail

VARIABLES
    search,        \* the request's status and the products stored for it
    searcher,      \* searcher[p]: where p is in the search, and its copy of the status
    catalogLoad,   \* catalogLoad[l]: the answers a load has got so far
    catalog,       \* what the page shows
    catalogFailures

searchVars == <<search, searcher>>
catalogVars == <<searchVars, catalogLoad, catalog, catalogFailures>>

Nothing == "nothing"

NoLoad ==
    [active |-> FALSE, silent |-> FALSE, late |-> FALSE, request |-> Nothing, items |-> <<>>]

\* Nobody is storing products for the request, nor can anybody take it up.
SearchOver ==
    /\ ~CanStart(search.status, SearchMoves)
    /\ \A p \in SearchProcs : searcher[p].place \notin {"begins", "works"}

\* late: the search was over when the load was sent (history).
Sent(silent) ==
    [NoLoad EXCEPT !.active = TRUE, !.silent = silent, !.late = SearchOver]

CatalogInit ==
    /\ search \in [status : {"queued"}, stored : {{}}]
    /\ searcher = [p \in SearchProcs |-> [place |-> "ready", copy |-> Nothing]]
    /\ \E l \in CatalogLoads :
         catalogLoad = [k \in CatalogLoads |-> IF k = l THEN Sent(FALSE) ELSE NoLoad]
    /\ catalog = [status |-> Nothing, items |-> {}, late |-> FALSE, error |-> FALSE, loading |-> TRUE]
    /\ catalogFailures = 0

-----------------------------------------------------------------------------
(***************************************************************************)
(* The search, as AgentTasks and ProductSearch have it: each processor     *)
(* loads the request once, stores products one by one, and writes the      *)
(* status from its own copy.  With two of them a request can be completed  *)
(* while products are still stored for it.                                 *)
(***************************************************************************)
SearcherMoves(p, place, copy) ==
    searcher' = [searcher EXCEPT ![p] = [place |-> place, copy |-> copy]]

\* The copy starts; or it does not, or the first write fails, and it is put as the handler has it.
TakesUp(p) ==
    /\ searcher[p].place = "ready"
    /\ \/ CanStart(search.status, SearchMoves) /\ SearcherMoves(p, "begins", "running")
       \/ SearcherMoves(p, "saves", AfterExcept(search.status))
    /\ UNCHANGED search

Saves(p) ==
    /\ \/ searcher[p].place = "begins" /\ SearcherMoves(p, "works", searcher[p].copy)
       \/ searcher[p].place = "saves" /\ SearcherMoves(p, "over", Nothing)
    /\ search' = [search EXCEPT !.status = searcher[p].copy]

Stores(p) ==
    /\ searcher[p].place = "works"
    /\ \E product \in Found \ search.stored :
            search' = [search EXCEPT !.stored = @ \cup {product}]
    /\ UNCHANGED searcher

StopsWorking(p) ==
    /\ searcher[p].place = "works"
    /\ \E status \in {"completed", "failed"} : SearcherMoves(p, "saves", status)
    /\ UNCHANGED search

Searches(p) ==
    /\ TakesUp(p) \/ Saves(p) \/ Stores(p) \/ StopsWorking(p)
    /\ UNCHANGED <<catalogLoad, catalog, catalogFailures>>

-----------------------------------------------------------------------------
\* The requests of a load, answered in either order.

AnswersRequest(l) ==
    /\ catalogLoad[l].active /\ catalogLoad[l].request = Nothing
    /\ catalogLoad' = [catalogLoad EXCEPT ![l].request = search.status]
    /\ UNCHANGED <<searchVars, catalog, catalogFailures>>

\* Mutant: a poll asks for the request only and keeps the products.
AnswersUnlessSilent(l) ==
    /\ catalogLoad[l].active /\ catalogLoad[l].items = <<>>
    /\ catalogLoad' = [catalogLoad EXCEPT
            ![l].items = IF catalogLoad[l].silent THEN <<catalog.items>> ELSE <<search.stored>>]
    /\ UNCHANGED <<searchVars, catalog, catalogFailures>>

AnswersProducts(l) ==
    /\ catalogLoad[l].active /\ catalogLoad[l].items = <<>>
    /\ catalogLoad' = [catalogLoad EXCEPT ![l].items = <<search.stored>>]
    /\ UNCHANGED <<searchVars, catalog, catalogFailures>>

ShowsCatalog(l) ==
    /\ catalogLoad[l].request # Nothing /\ catalogLoad[l].items # <<>>
    /\ catalog' = [catalog EXCEPT !.status = catalogLoad[l].request,
                                  !.items = catalogLoad[l].items[1],
                                  !.late = catalogLoad[l].late, !.loading = FALSE]
    /\ catalogLoad' = [catalogLoad EXCEPT ![l] = NoLoad]
    /\ UNCHANGED <<searchVars, catalogFailures>>

CatalogFails(l) ==
    /\ catalogLoad[l].active
    /\ catalogFailures < MaxCatalogFailures
    /\ catalogFailures' = catalogFailures + 1
    /\ catalog' = [catalog EXCEPT !.error = TRUE, !.loading = FALSE]
    /\ catalogLoad' = [catalogLoad EXCEPT ![l] = NoLoad]
    /\ UNCHANGED searchVars

\* The timer runs while the page shows a search under way.
PollsCatalog ==
    /\ catalog.status \in Active
    /\ \E l \in CatalogLoads :
        /\ ~catalogLoad[l].active
        /\ catalogLoad' = [catalogLoad EXCEPT ![l] = Sent(TRUE)]
    /\ catalog' = [catalog EXCEPT !.error = FALSE]
    /\ UNCHANGED <<searchVars, catalogFailures>>

-----------------------------------------------------------------------------
CatalogStep(l) == AnswersRequest(l) \/ AnswersProducts(l) \/ ShowsCatalog(l)

CatalogNext ==
    \/ \E p \in SearchProcs : Searches(p)
    \/ \E l \in CatalogLoads : CatalogStep(l) \/ CatalogFails(l)
    \/ PollsCatalog

-----------------------------------------------------------------------------
\* Properties.

(***************************************************************************)
(* A catalogue misses products that are stored only if the load that       *)
(* brought it was sent while some processor could still store more,        *)
(* whatever the request's status was (RequestCatalogPage.tsx:24-53).  Such *)
(* a page stays short: told that the request has ended, it stops polling.  *)
(***************************************************************************)
CatalogueShortOnlyIfEarly == catalog.items # search.stored => ~catalog.late

\* A page that shows a search under way comes to show how it ended.
CatalogPageSettles == catalog.status \in Active ~> catalog.status \notin Active

=============================================================================
