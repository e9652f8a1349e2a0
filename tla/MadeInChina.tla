---------------------------- MODULE MadeInChina ----------------------------
(***************************************************************************)
(* MadeInChinaSearchConnector.research (connectors.py:553-633) and the     *)
(* payloads it makes of parsed pages.  The site is a function from         *)
(* addresses to what a GET of them gives: "raises", "http error",          *)
(* "captcha", or a page that was parsed by MadeInChinaPages.               *)
(***************************************************************************)
EXTENDS Integers, Sequences, SequencesExt, FiniteSetsExt, Lists

\* A text that is missing.
NoText == ""

Failure == [success |-> FALSE, products |-> <<>>, mode |-> "none"]

Success(mode, products) == [success |-> TRUE, products |-> products, mode |-> mode]

\* int() of anything that is not a number raises; a missing request is None.
NotANumber == -999

IsNumber(n) == n # NotANumber

ResultLimit(configured, requested) ==
    LET c == IF IsNumber(configured) THEN configured ELSE 5
        r == IF IsNumber(requested) THEN requested ELSE c
    IN  Max({1, Min({c, r, 50})})

\* The first of the texts that is not empty; Python's _first_text.
FirstText(texts) ==
    LET found == SelectSeq(texts, LAMBDA t : t # NoText)
    IN  IF found = <<>> THEN NoText ELSE found[1]

\* What the query names: addresses in their order, each on the site or not, of a product or not.
DetailTarget(addresses) ==
    LET targets == SelectSeq(addresses, LAMBDA a : a.onSite /\ a.isProduct)
    IN  IF targets = <<>> THEN NoText ELSE targets[1].url

-----------------------------------------------------------------------------
\* A search result, as parsed, becomes a product unless it lacks a title or an address.
Usable(item) == item.title # NoText /\ item.productUrl # NoText

\* A range of prices, or a price with a dash, is not a price.
SinglePrice(text) == IF text = "range" THEN NoText ELSE text

SearchProduct(item) ==
    [title |-> item.title, productUrl |-> item.productUrl,
     price |-> SinglePrice(item.priceText), images |-> item.images,
     attributes |-> item.attributes]

UsableOf(items) == Among(items, {item \in ToSet(items) : Usable(item)})

\* The loop tests the limit after each item, so it takes one at least.
ParseProducts(items, limit) ==
    LET usable == UsableOf(items)
    IN  [i \in 1..Min({Len(usable), limit}) |-> SearchProduct(usable[i])]

-----------------------------------------------------------------------------
(***************************************************************************)
(* The structured data of a product's page: scripts that are JSON or not,  *)
(* each a list of nodes.  The search for the node of type Product is       *)
(* breadth first: a node's @graph goes to the end of the queue, behind all *)
(* nodes of its own level.                                                 *)
(***************************************************************************)
NoNode == [product |-> FALSE, graph |-> <<>>, title |-> NoText, url |-> NoText, price |-> NoText,
           description |-> NoText, images |-> <<>>]

FirstProduct(queue) ==
    LET level[n \in Nat] ==
            IF n = 0 THEN queue
            ELSE FlattenSeq([i \in DOMAIN level[n - 1] |-> level[n - 1][i].graph])
        first[n \in Nat] ==
            LET products == SelectSeq(level[n], LAMBDA node : node.product)
            IN  IF products # <<>> THEN products[1]
                ELSE IF level[n] = <<>> THEN NoNode ELSE first[n + 1]
    IN  first[0]

JsonLdProduct(scripts) ==
    LET read == SelectSeq(scripts, LAMBDA s : s.isJson)
    IN  FirstProduct(FlattenSeq([i \in DOMAIN read |-> read[i].nodes]))

\* Every address once, in the order of its first place.
DedupeStrings(texts) ==
    FoldLeft(LAMBDA kept, t : IF t = NoText \/ t \in ToSet(kept) THEN kept ELSE Append(kept, t),
             <<>>, texts)

\* The title and address of a page come from its data, its meta tags, then the page itself.
DetailProduct(page, url) ==
    LET ld == JsonLdProduct(page.scripts)
    IN  [title |-> FirstText(<<ld.title, page.metaTitle, page.title>>),
         productUrl |-> FirstText(<<page.metaUrl, ld.url, url>>),
         price |-> FirstText(<<ld.price, page.metaPrice>>),
         images |-> DedupeStrings(ld.images \o <<page.metaImage>> \o page.images),
         attributes |-> page.attributes]

Answered(answer) == answer.kind = "page"

\* A page without a title is no product: parse_product_detail raises.
HasProduct(answer) ==
    Answered(answer) /\ DetailProduct(answer.page, "page").title # NoText

-----------------------------------------------------------------------------
(***************************************************************************)
(* Products found without a price are looked up one by one.  A page that   *)
(* cannot be had leaves the product as it was; a page that can be had      *)
(* fills what is missing and changes nothing that is there.  The currency  *)
(* and the description follow the rule of the price.                       *)
(***************************************************************************)
OrElse(own, other) == IF own = NoText THEN other ELSE own

\* What is there and, under the keys that are not, what the other has: Python's setdefault.
Filled(own, other) ==
    [k \in DOMAIN own \cup DOMAIN other |-> IF k \in DOMAIN own THEN own[k] ELSE other[k]]

\* Mutant: what the page says goes before what the search said.
MergeOver(product, detail) ==
    [product EXCEPT !.price = OrElse(detail.price, @),
                    !.images = IF detail.images = <<>> THEN @ ELSE detail.images,
                    !.attributes = Filled(detail.attributes, @)]

Merge(product, detail) ==
    [product EXCEPT
        !.price = OrElse(@, detail.price),
        !.images = IF @ = <<>> THEN detail.images ELSE @,
        !.attributes =
            LET source == IF detail.price = NoText THEN <<>>
                          ELSE [priceSource |-> "product_detail"]
            IN  Filled(Filled(source, @), detail.attributes)]

Enrich(product, site) ==
    IF product.price # NoText \/ product.productUrl = NoText \/ ~HasProduct(site[product.productUrl])
    THEN product
    ELSE Merge(product, DetailProduct(site[product.productUrl].page, product.productUrl))

Research(addresses, searchPage, site, configured, requested) ==
    LET target == DetailTarget(addresses)
        found == ParseProducts(searchPage.items, ResultLimit(configured, requested))
    IN  CASE target # NoText /\ HasProduct(site[target]) ->
               Success("product_detail", <<DetailProduct(site[target].page, target)>>)
          [] target = NoText /\ searchPage.kind = "page" ->
               Success("search", [i \in DOMAIN found |-> Enrich(found[i], site)])
          [] OTHER -> Failure

=============================================================================
