-------------------------- MODULE InternetResearch --------------------------
(***************************************************************************)
(* The browser research of one product search: the last source a search    *)
(* asks, and the one that follows links.                                   *)
(*                                                                         *)
(* In mode "internet" (AiInternetProductSearchConnector) a model makes the *)
(* queries, search engines answer them, the model picks links, the picks   *)
(* are topped up and the links are visited.  In mode "site"                *)
(* (PlaywrightMcpBrowserConnector alone, also used for a query that names  *)
(* a site) the links are those of one start page, be it of a supplier or   *)
(* of a search.  Each step is one call to the outside and what the code    *)
(* does with the answer.                                                   *)
(***************************************************************************)
EXTENDS FiniteSets, Lists

CONSTANTS
    EngineCount,     \* engines of MultiEngineWebSearchConnector; 1: a lone one
    Answers,         \* lists of URLs an engine may answer with
    Fails,           \* a call that raises
    Malformed,       \* a URL urlparse raises on, as http://[x
    Allowed,         \* URLs ensure_allowed_url lets through
    Picks,           \* lists of URLs the model may select
    StartPages,      \* sets of URLs linked from a start page
    Pages,           \* lists of products a page may hold
    QueryCount,      \* ai_search_query_count
    CandidateLimit,  \* ai_search_candidate_limit
    MaxPages,        \* internet_search_result_limit
    Enriches,        \* search_contact_enrichment_pages > 0
    Asks             \* the max_results searches come with

(***************************************************************************)
(* A product is what _has_enough_valid_products sees of it: whether it has *)
(* an e-mail or Telegram contact, another one or none, and whether its own *)
(* productUrl can be parsed.                                               *)
(***************************************************************************)
Contacts == {"none", "other", "reachable"}

Products == [contact : Contacts, malformed : BOOLEAN, fallback : BOOLEAN]

ASSUME ResearchAssumption ==
    /\ EngineCount \in Nat \ {0}
    /\ QueryCount \in 1..10     \* _b2b_supplier_query_variants alone gives ten
    /\ CandidateLimit \in Nat /\ MaxPages \in Nat
    /\ Asks \subseteq 1..50
    /\ Enriches \in BOOLEAN
    /\ Malformed \notin Allowed
    /\ Fails \notin Answers \cup Pages
    /\ \A urls \in Answers \cup Picks : urls \in Seq(ToSet(urls))
    /\ \A page \in StartPages : IsFiniteSet(page)
    /\ \A page \in Pages : page \in Seq(Products)

VARIABLES
    mode,        \* "internet" or "site"
    client,      \* the MCP client of the browser: "http" or "stdio"
    asked,       \* max_results
    stage,       \* where research is, or how it ended
    queriesLeft, \* queries still to be asked
    collected,   \* the URLs found and allowed; they are ranked by score, title and URL
    links,       \* the links to visit
    harvest,     \* harvest[i]: the products of links[i], for the links visited
    errors       \* candidateErrors: the indices of links that raised

inputs == <<mode, client, asked>>
vars == <<inputs, stage, queriesLeft, collected, links, harvest, errors>>

Init ==
    /\ mode \in {"internet", "site"}
    /\ client \in {"http", "stdio"}
    /\ asked \in Asks
    /\ stage = "start"
    /\ queriesLeft = 0
    /\ collected = {} /\ errors = {}
    /\ links = <<>> /\ harvest = <<>>

Ended == {"done", "failed"}

\* success=False: whatever was collected or harvested is not returned.
Fail ==
    /\ stage' = "failed"
    /\ UNCHANGED <<inputs, queriesLeft, collected, links, harvest, errors>>

-----------------------------------------------------------------------------
\* Queries and their answers.

\* A model that raises is replaced by the variants of the query.
GenerateQueries ==
    /\ stage = "start" /\ mode = "internet"
    /\ queriesLeft' = QueryCount
    /\ stage' = "search"
    /\ UNCHANGED <<inputs, collected, links, harvest, errors>>

\* An answer {"queries": null} is iterated over outside the try.
QueriesRaise == stage = "start" /\ mode = "internet" /\ Fail

\* The URLs of the engines that answered.
Found(answers) ==
    UNION {ToSet(answers[e]) : e \in {e \in 1..EngineCount : answers[e] # Fails}}

(***************************************************************************)
(* MultiEngineWebSearchConnector.search: engines that raise are left out   *)
(* unless nothing is left; a URL that cannot be parsed raises outside the  *)
(* try of its engine.                                                      *)
(***************************************************************************)
SearchRaises(answers) ==
    \/ Malformed \in Found(answers)
    \/ Found(answers) = {} /\ \E e \in 1..EngineCount : answers[e] = Fails

Collects(answers) == collected \cup (Found(answers) \cap Allowed)

EngineAnswers == [1..EngineCount -> Answers \cup {Fails}]

Searching == stage = "search" /\ queriesLeft > 0

Search ==
    /\ Searching
    /\ \E answers \in EngineAnswers :
        /\ ~SearchRaises(answers)
        /\ collected' = Collects(answers)
    /\ queriesLeft' = queriesLeft - 1
    /\ UNCHANGED <<inputs, stage, links, harvest, errors>>

\* One query that raises ends the research, what the others found with it.
SearchFails ==
    /\ Searching
    /\ \E answers \in EngineAnswers : SearchRaises(answers)
    /\ Fail

-----------------------------------------------------------------------------
\* The links to visit.

\* _research_candidate_limit
Limit(default) ==
    LET wanted == IF asked > default THEN asked ELSE default
    IN  IF wanted > 50 THEN 50 ELSE IF wanted < 1 THEN 1 ELSE wanted

Cut(urls, n) == IF Len(urls) <= n THEN urls ELSE SubSeq(urls, 1, n)

\* Mutant: the model's choice is not topped up.
SelectedOnly(picks, ranked) ==
    LET kept == Among(picks, collected) IN IF kept = <<>> THEN ranked ELSE kept

\* The picks that were found, then the other URLs found by rank.
Selected(picks, ranked) ==
    LET kept == Among(picks, collected)
    IN  kept \o Among(ranked, collected \ ToSet(kept))

Selecting == stage = "search" /\ queriesLeft = 0

\* The ranking is by a score over texts: any order.  The list is cut twice.
Select ==
    /\ Selecting
    /\ \E picks \in Picks, ranked \in SetToSeqs(collected) :
        /\ Malformed \notin ToSet(picks)
        /\ links' = IF collected = {} THEN <<>>
                    ELSE Cut(Cut(Selected(picks, ranked), Limit(CandidateLimit)),
                             Limit(MaxPages))
    /\ stage' = "visit"
    /\ UNCHANGED <<inputs, queriesLeft, collected, harvest, errors>>

\* A pick that cannot be parsed, or {"selected": null}: neither is in a try.
SelectRaises == Selecting /\ collected # {} /\ Fail

\* Site mode: the allowed links of the start page whose titles match, by score.
ReadStartPage ==
    /\ stage = "start" /\ mode = "site"
    /\ \E page \in StartPages :
        /\ Malformed \notin page
        /\ \E ranked \in SetToSeqs(page \cap Allowed) :
            /\ collected' = page \cap Allowed
            /\ links' = Cut(ranked, Limit(MaxPages))
    /\ stage' = "visit"
    /\ UNCHANGED <<inputs, queriesLeft, harvest, errors>>

StartPageFails == stage = "start" /\ mode = "site" /\ Fail

-----------------------------------------------------------------------------
\* The visits.

harvested == FlattenSeq(harvest)

IsReachable(product) == product.contact = "reachable" /\ ~product.malformed

Reachable(products) == Cardinality({i \in DOMAIN products : IsReachable(products[i])})

\* Mutant: any product counts.
EnoughOfAny == Len(harvested) >= asked

\* Mutant: one more than asked.
EnoughIsMore == Reachable(harvested) > asked

\* _has_enough_valid_products
Enough == Reachable(harvested) >= asked

\* The test itself raises on a product whose URL cannot be parsed.
TestRaises == \E i \in DOMAIN harvested : harvested[i].malformed

At(i) == stage = "visit" /\ Len(links) >= i /\ Len(harvest) = i - 1

\* _fallback_product_from_link
Fallback == [contact |-> "none", malformed |-> FALSE, fallback |-> TRUE]

\* _enrich_product_contacts asks the supplier's pages only if there is nothing.
Enriched(product, more) ==
    IF Enriches /\ product.contact = "none" THEN [product EXCEPT !.contact = more]
    ELSE product

EnrichRaises(product) == Enriches /\ product.contact = "none" /\ product.malformed

\* The products of a page up to one whose enrichment raises.
BeforeRaise(page) ==
    LET first == SelectInSeq(page, EnrichRaises)
    IN  IF first = 0 THEN page ELSE SubSeq(page, 1, first - 1)

\* What a page that was read adds in internet mode.
Reaped(page, more) ==
    LET kept == BeforeRaise(page)
        enriched == [i \in DOMAIN kept |-> Enriched(kept[i], more)]
    IN  IF page = <<>> \/ kept # page THEN Append(enriched, Fallback) ELSE enriched

Visiting(i) == At(i) /\ ~TestRaises /\ ~Enough

\* The enrichment answers of a page's products are taken to be alike.
VisitForInternet(i) ==
    /\ Visiting(i) /\ mode = "internet"
    /\ \E page \in Pages, more \in Contacts :
        /\ harvest' = Append(harvest, Reaped(page, more))
        /\ errors' = IF BeforeRaise(page) # page THEN errors \cup {i} ELSE errors
    /\ UNCHANGED <<inputs, stage, queriesLeft, collected, links>>

VisitForSite(i) ==
    /\ Visiting(i) /\ mode = "site"
    /\ \E page \in Pages : harvest' = Append(harvest, page)
    /\ UNCHANGED <<inputs, stage, queriesLeft, collected, links, errors>>

\* Mutant: the error is noted and the page tried again.
VisitRetries(i) ==
    /\ Visiting(i)
    /\ errors' = errors \cup {i}
    /\ UNCHANGED <<inputs, stage, queriesLeft, collected, links, harvest>>

\* Mutant: the link that cannot be read is passed over.
VisitSkips(i) ==
    /\ Visiting(i)
    /\ harvest' = Append(harvest, <<>>)
    /\ errors' = errors \cup {i}
    /\ UNCHANGED <<inputs, stage, queriesLeft, collected, links>>

\* The page cannot be read: its link stands in for its product.
VisitFails(i) ==
    /\ Visiting(i)
    /\ harvest' = Append(harvest, <<Fallback>>)
    /\ errors' = errors \cup {i}
    /\ UNCHANGED <<inputs, stage, queriesLeft, collected, links>>

\* ValueError leaves the loop: caught one level up or by the search's source.
TestFails(i) == At(i) /\ TestRaises /\ Fail

\* Mutant: links that run out are no reason to stop.
FinishIfEnough ==
    /\ stage = "visit"
    /\ ~TestRaises /\ Enough
    /\ stage' = "done"
    /\ UNCHANGED <<inputs, queriesLeft, collected, links, harvest, errors>>

Finish ==
    /\ stage = "visit"
    /\ Len(harvest) < Len(links) => ~TestRaises /\ Enough
    /\ stage' = "done"
    /\ UNCHANGED <<inputs, queriesLeft, collected, links, harvest, errors>>

\* McpStdioClient._read waits for a line; timeout_seconds is not used.
Hang ==
    /\ client = "stdio"
    /\ \/ stage = "start" /\ mode = "site"
       \/ \E i \in 1..Len(links) : Visiting(i)
    /\ stage' = "hung"
    /\ UNCHANGED <<inputs, queriesLeft, collected, links, harvest, errors>>

-----------------------------------------------------------------------------
Visit(i) == VisitForInternet(i) \/ VisitForSite(i) \/ VisitFails(i) \/ TestFails(i)

Next ==
    \/ GenerateQueries \/ QueriesRaise
    \/ Search \/ SearchFails
    \/ Select \/ SelectRaises
    \/ ReadStartPage \/ StartPageFails
    \/ \E i \in 1..Len(links) : Visit(i)
    \/ Finish
    \/ Hang

Spec == Init /\ [][Next]_vars

\* HTTP calls of engines, models and the HTTP client have timeouts: they return.
FairSpec == Spec /\ WF_vars(Next)

-----------------------------------------------------------------------------
\* Properties.

Stages == {"start", "search", "visit", "hung"} \cup Ended

\* Types; candidatesVisited and candidateErrors never exceed the links.
ResearchTypeOK ==
    /\ stage \in Stages
    /\ queriesLeft \in 0..QueryCount
    /\ ToSet(harvested) \subseteq Products
    /\ Len(harvest) <= Len(links) /\ Len(links) <= 50
    /\ errors \subseteq 1..Len(harvest)

(***************************************************************************)
(* The model's choice neither adds to what may be visited nor narrows it:  *)
(* a link it invents is never opened, and unless both limits are used up,  *)
(* every URL found is among the links.                                     *)
(***************************************************************************)
SelectionIsFull ==
    /\ ToSet(links) \subseteq collected /\ collected \subseteq Allowed
    /\ stage \in {"visit", "done"} =>
        \/ Len(links) >= Limit(CandidateLimit) \/ Len(links) >= Limit(MaxPages)
        \/ collected \subseteq ToSet(links)

(***************************************************************************)
(* Every visit of the internet research leaves a product behind, and in    *)
(* either mode a link that raised is in the results itself                 *)
(* (extract_products_from_links).                                          *)
(***************************************************************************)
EveryVisitCounts ==
    /\ mode = "internet" => \A i \in DOMAIN harvest : harvest[i] # <<>>
    /\ \A i \in errors : harvest[i] # <<>> /\ Last(harvest[i]) = Fallback

\* No page is opened once the products a supplier can be reached for suffice.
NoVisitAfterEnough ==
    harvest # <<>> => Reachable(FlattenSeq(Front(harvest))) < asked

\* Results short of what was asked mean that every link was tried.
ShortMeansAllTried ==
    stage = "done" => Reachable(harvested) >= asked \/ Len(harvest) = Len(links)

\* With a client that has a timeout the research ends.
ResearchEnds == client = "http" ~> stage \in Ended

=============================================================================
