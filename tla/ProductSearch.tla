---------------------------- MODULE ProductSearch ----------------------------
(***************************************************************************)
(* A product search: process_product_search as the work of a queued task.  *)
(*                                                                         *)
(* Here the entity of a task is a SearchRequest and Done is "completed".   *)
(* The work asks its sources for products, reads what the request already  *)
(* has, adds the new products one by one under three tests (URL, limit,    *)
(* supplier), puts in a demo product if none was added, and counts the     *)
(* suppliers.  Every read and every insert is a transaction of its own.    *)
(* Each step below is a step of AgentTasks or leaves its variables alone.  *)
(***************************************************************************)
EXTENDS AgentTasks, Lists

CONSTANTS
    Findings,    \* the lists of products a source may answer with
    NoAnswer,    \* a source that raised, reported no success or is not configured
    MaxResults,  \* the request's maxResults, which both endpoints bound
    DemoAllowed  \* ~_demo_injection_disabled()

\* The URL of the demo product is made from the request's own id.
DemoUrl == "demo"

(***************************************************************************)
(* An offer is its URL, the supplier behind it, the platform it was found  *)
(* on and whether it passes validation.  A "site" is the supplier's own,   *)
(* and its domain stands for the supplier; "made-in-china" shows many      *)
(* companies under one domain.  No source is told the request's id, so     *)
(* none has the demo product among its offers.                             *)
(***************************************************************************)
ASSUME SearchAssumption ==
    /\ Done = "completed"
    /\ \A f \in Findings : f \in Seq(ToSet(f))
    /\ \A f \in Findings : \A offer \in ToSet(f) :
        /\ offer.valid \in BOOLEAN /\ offer.url # DemoUrl
        /\ offer.platform \in {"site", "made-in-china"}
    /\ NoAnswer \notin Findings
    /\ MaxResults \in 1..50
    /\ DemoAllowed \in BOOLEAN

VARIABLES
    products,       \* products[t]: the products of t's request, as [url, supplier, platform]
    suppliersCount, \* suppliersCount[t]: of the request's row
    countCopy,      \* countCopy[p]: of p's copy of the request
    stage,          \* stage[p]: where p is in the work
    found,          \* found[p]: products still to be tried
    seen,           \* seen[p]: existing_urls and existing_supplier_keys
    created         \* created[p]: created_count

localVars == <<stage, found, seen, created>>
searchVars == <<products, suppliersCount, countCopy, localVars>>
vars == <<tasksVars, searchVars>>

NothingSeen == [urls |-> {}, keys |-> {}]

Init ==
    /\ TasksInit
    /\ products = [t \in Tasks |-> {}]
    /\ suppliersCount = [t \in Tasks |-> 0]
    /\ countCopy = [p \in Procs |-> 0]
    /\ stage = [p \in Procs |-> "none"]
    /\ found = [p \in Procs |-> <<>>]
    /\ seen = [p \in Procs |-> NothingSeen]
    /\ created = [p \in Procs |-> 0]

\* The function is left: its local variables are gone.
Forget(p) ==
    /\ stage' = [stage EXCEPT ![p] = "none"]
    /\ found' = [found EXCEPT ![p] = <<>>]
    /\ seen' = [seen EXCEPT ![p] = NothingSeen]
    /\ created' = [created EXCEPT ![p] = 0]

-----------------------------------------------------------------------------
\* The request's row carries suppliers_count: it is read and written with it.

Load(p) ==
    /\ LoadEntity(p)
    /\ countCopy' = [countCopy EXCEPT ![p] = suppliersCount[job[p]]]
    /\ UNCHANGED <<products, suppliersCount, localVars>>

SaveCount(p) == suppliersCount' = [suppliersCount EXCEPT ![job[p]] = countCopy[p]]

Begin(p) ==
    /\ BeginWork(p)
    /\ SaveCount(p)
    /\ stage' = [stage EXCEPT ![p] = "research"]
    /\ UNCHANGED <<products, countCopy, found, seen, created>>

End(p) ==
    /\ EndTask(p)
    /\ SaveCount(p)
    /\ UNCHANGED <<products, countCopy, localVars>>

-----------------------------------------------------------------------------
\* The sources.

Answers == Findings \cup {NoAnswer}

Offers(answer) == IF answer = NoAnswer THEN <<>> ELSE answer

At(p, s) == pc[p] = "work" /\ stage[p] = s

Valid(offers) == Among(offers, {offer \in ToSet(offers) : offer.valid})

(***************************************************************************)
(* The router and Made-in-China are asked if they are there, the browser   *)
(* if they gave nothing.  Nothing at all and a browser that failed: the    *)
(* search fails (Raises), without having looked at the table.              *)
(***************************************************************************)
Research(p) ==
    /\ At(p, "research")
    /\ \E router, madeInChina, browser \in Answers :
        LET early == Offers(router) \o Offers(madeInChina)
            all == IF early = <<>> THEN Offers(browser) ELSE early
        IN  /\ ~(all = <<>> /\ browser = NoAnswer)
            /\ found' = [found EXCEPT ![p] = Valid(all)]
    /\ stage' = [stage EXCEPT ![p] = "snapshot"]
    /\ UNCHANGED <<tasksVars, products, suppliersCount, countCopy, seen, created>>

-----------------------------------------------------------------------------
\* The loop over output.products.

\* Mutant: a site is told by the page, as a Made-in-China product is.
KeyOfPage(r) == <<r.platform, r.url>>

\* _supplier_dedupe_key: the domain of a site, the page of anything else.
KeyOf(r) == <<r.platform, IF r.platform = "site" THEN r.supplier ELSE r.url>>

Urls(rows) == {r.url : r \in rows}
Keys(rows) == {KeyOf(r) : r \in rows}

Row(offer) == [url |-> offer.url, supplier |-> offer.supplier, platform |-> offer.platform]

Demo == [url |-> DemoUrl, supplier |-> "Demo Supplier", platform |-> "demo"]

DemoKey == KeyOf(Demo)

Snapshot(p) ==
    /\ At(p, "snapshot")
    /\ seen' = [seen EXCEPT ![p] = [urls |-> Urls(products[job[p]]),
                                    keys |-> Keys(products[job[p]])]]
    /\ stage' = [stage EXCEPT ![p] = "loop"]
    /\ UNCHANGED <<tasksVars, products, suppliersCount, countCopy, found, created>>

InLoop(p) == At(p, "loop") /\ found[p] # <<>>

AtLimit(p) == created[p] >= MaxResults

\* Mutant: one product too many.
IsNewWithinNext(p, offer) ==
    /\ offer.url \notin seen[p].urls
    /\ created[p] <= MaxResults
    /\ KeyOf(offer) \notin seen[p].keys

IsNew(p, offer) ==
    /\ offer.url \notin seen[p].urls
    /\ ~AtLimit(p)
    /\ KeyOf(offer) \notin seen[p].keys

\* A duplicate, or the limit is reached: it goes to the task's list of errors.
Skip(p) ==
    /\ InLoop(p)
    /\ ~IsNew(p, Head(found[p]))
    /\ found' = [found EXCEPT ![p] = Tail(@)]
    /\ UNCHANGED <<tasksVars, products, suppliersCount, countCopy, stage, seen, created>>

\* uq_products_request_product_url: the table takes a URL once for a request.
Inserts(p, row) ==
    /\ row.url \notin Urls(products[job[p]])
    /\ products' = [products EXCEPT ![job[p]] = @ \cup {row}]

Add(p) ==
    LET offer == Head(found[p])
    IN  /\ InLoop(p)
        /\ IsNew(p, offer)
        /\ Inserts(p, Row(offer))
        /\ seen' = [seen EXCEPT ![p] = [urls |-> @.urls \cup {offer.url},
                                        keys |-> @.keys \cup {KeyOf(offer)}]]
        /\ created' = [created EXCEPT ![p] = @ + 1]
        /\ found' = [found EXCEPT ![p] = Tail(@)]
        /\ UNCHANGED <<tasksVars, suppliersCount, countCopy, stage>>

\* Another processor has added the URL since the snapshot: IntegrityError.
AddClashes(p) ==
    /\ InLoop(p)
    /\ IsNew(p, Head(found[p]))
    /\ Head(found[p]).url \in Urls(products[job[p]])
    /\ WorkFails(p)
    /\ Forget(p)
    /\ UNCHANGED <<products, suppliersCount, countCopy>>

-----------------------------------------------------------------------------
\* After the loop: the demo product, the count, success.

LoopDone(p) == At(p, "loop") /\ found[p] = <<>>

\* Mutant: the demo product is put beside the real ones.
WantsDemoAlways(p) ==
    DemoAllowed /\ DemoUrl \notin seen[p].urls \cup Urls(products[job[p]])

\* _ensure_demo_product looks into the snapshot and into the table.
WantsDemo(p) ==
    /\ DemoAllowed /\ created[p] = 0
    /\ DemoUrl \notin seen[p].urls \cup Urls(products[job[p]])

EndLoop(p) ==
    /\ LoopDone(p)
    /\ stage' = [stage EXCEPT ![p] = IF WantsDemo(p) THEN "addDemo" ELSE "count"]
    /\ UNCHANGED <<tasksVars, products, suppliersCount, countCopy, found, seen, created>>

\* Mutant: the demo product is decided on and not inserted.
DemoNotInserted(p) ==
    /\ At(p, "addDemo")
    /\ stage' = [stage EXCEPT ![p] = "count"]
    /\ UNCHANGED <<tasksVars, products, suppliersCount, countCopy, found, seen, created>>

AddDemo(p) ==
    /\ At(p, "addDemo")
    /\ Inserts(p, Demo)
    /\ stage' = [stage EXCEPT ![p] = "count"]
    /\ UNCHANGED <<tasksVars, suppliersCount, countCopy, found, seen, created>>

AddDemoClashes(p) ==
    /\ At(p, "addDemo")
    /\ DemoUrl \in Urls(products[job[p]])
    /\ WorkFails(p)
    /\ Forget(p)
    /\ UNCHANGED <<products, suppliersCount, countCopy>>

\* Mutant: products are counted where suppliers should be.
CountOfProducts(t) == Cardinality(products[t])

\* _apply_search_context: the keys, without that of the demo product.
CountOf(t) == Cardinality(Keys(products[t]) \ {DemoKey})

Succeed(p) ==
    /\ At(p, "count")
    /\ WorkSucceeds(p)
    /\ countCopy' = [countCopy EXCEPT ![p] = CountOf(job[p])]
    /\ Forget(p)
    /\ UNCHANGED <<products, suppliersCount>>

\* An exception anywhere in the work; what was inserted so far stays.
Raises(p) ==
    /\ WorkFails(p)
    /\ Forget(p)
    /\ UNCHANGED <<products, suppliersCount, countCopy>>

Work(p) ==
    \/ Research(p) \/ Snapshot(p) \/ Skip(p) \/ Add(p) \/ EndLoop(p)
    \/ AddDemo(p) \/ Succeed(p) \/ Raises(p)

Clash(p) == AddClashes(p) \/ AddDemoClashes(p)

-----------------------------------------------------------------------------
Shared(p) ==
    /\ LoadTask(p) \/ LoadNoEntity(p) \/ SaveTask(p) \/ FailTaskOnly(p)
    /\ UNCHANGED searchVars

SaveFault(p) == TryFault(p) /\ UNCHANGED searchVars

CrashSearch(p) ==
    /\ Crash(p)
    /\ Forget(p)
    /\ UNCHANGED <<products, suppliersCount, countCopy>>

WorkerTurn(w) == (WorkerStep(w) \/ Restart(w)) /\ UNCHANGED searchVars

Endpoint(t) == ApiNext(t) /\ UNCHANGED searchVars

Next ==
    \/ \E t \in Tasks : Endpoint(t)
    \/ \E w \in Workers : WorkerTurn(w)
    \/ \E p \in Procs : Shared(p) \/ Load(p) \/ Begin(p) \/ End(p)
    \/ \E p \in Procs : Work(p) \/ Clash(p)
    \/ \E p \in Procs : SaveFault(p) \/ CrashSearch(p)

Spec == Init /\ [][Next]_vars

-----------------------------------------------------------------------------
\* Properties.

Stages == {"none", "research", "snapshot", "loop", "addDemo", "count"}

\* Types; a processor is in a stage exactly when it is at work.
SearchTypeOK ==
    /\ TasksTypeOK
    /\ \A t \in Tasks : suppliersCount[t] \in Nat
    /\ \A p \in Procs :
        /\ countCopy[p] \in Nat /\ created[p] \in Nat
        /\ stage[p] \in Stages
        /\ pc[p] = "work" <=> stage[p] # "none"

Real(t) == {r \in products[t] : r.url # DemoUrl}

(***************************************************************************)
(* A request that was worked on once, by the worker or by the background   *)
(* job, while the other found it taken: three promises that two runs, each *)
(* with a snapshot of its own, would break.                                *)
(***************************************************************************)
WorkedOnOnce(t) == runs[t] <= 1

(***************************************************************************)
(* A supplier that was found at its own site appears once in the results.  *)
(* The companies of Made-in-China are left out: there the key is the page  *)
(* (workers.py:405), and several products of one company stay, as          *)
(* test_product_search_worker_contract.py:328 has it and the openspec      *)
(* change fix-supplier-dedupe-and-contact-flow forbids.                    *)
(***************************************************************************)
OneProductPerSite ==
    \A t \in Tasks : WorkedOnOnce(t) =>
        \A q, r \in products[t] :
            /\ q.platform = "site" /\ r.platform = "site"
            /\ q.supplier = r.supplier
            => q = r

(***************************************************************************)
(* The demo product is a substitute: it never stands among real ones.  So  *)
(* the code and its tests have it (workers.py:187); the openspec change    *)
(* add-demo-supplier-product-card has it beside the real ones always.      *)
(***************************************************************************)
DemoStandsAlone ==
    \A t \in Tasks :
        WorkedOnOnce(t) /\ DemoUrl \in Urls(products[t]) => Real(t) = {}

\* The count saved with a completed request is that of the keys in the table:
\* of sites, and of pages at Made-in-China.  No run but this one may have added to it.
SuppliersAreCounted ==
    \A t \in Tasks :
        WorkedOnOnce(t) /\ entity[t] = "completed" =>
            suppliersCount[t] = Cardinality(Keys(Real(t)))

(***************************************************************************)
(* A completed request has something to show, be it the demo product,      *)
(* whatever the sources found, whatever failed before and however many     *)
(* processors were at it.                                                  *)
(***************************************************************************)
CompletedHasProducts ==
    DemoAllowed => \A t \in Tasks : entity[t] = "completed" => products[t] # {}

\* Each run of the work adds at most MaxResults, and counts nothing not yet there.
BoundedPerRun ==
    \A t \in Tasks :
        /\ Cardinality(Real(t)) <= MaxResults * runs[t]
        /\ suppliersCount[t] <= Cardinality(Keys(Real(t)))

=============================================================================
