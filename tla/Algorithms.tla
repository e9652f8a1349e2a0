----------------------------- MODULE Algorithms -----------------------------
(***************************************************************************)
(* The pure parts of the program, each called once: a behaviour picks a    *)
(* call and takes its answer.  The properties compare answers with what    *)
(* the code promises of them, by definitions that do not follow the code.  *)
(***************************************************************************)
EXTENDS Integers, Sequences, SequencesExt, FiniteSets, FiniteSetsExt, Domain, Lists

Pages == INSTANCE MadeInChinaPages
MIC == INSTANCE MadeInChina
Rating == INSTANCE Scoring
Agent == INSTANCE AgentPolicies
Providers == INSTANCE SearchProviders

CONSTANTS
    NoAnswer,
    NewContacts,    \* contacts a product may still get
    Cards,          \* pages of search results, as sequences of cards
    Blocks,         \* pages of a product, as sequences of blocks
    Discoveries,    \* searches at Made-in-China
    Catalogues,     \* products of a request with prices
    Conversations,  \* contacts, attempts' statuses and numbers of messages
    Writings,       \* messages and replies to write
    Drafts,         \* contracts to draft
    Questions,      \* questions to the operator's assistant
    Replies,        \* suppliers' replies to analyse
    Searches,       \* what the providers answer
    Fits            \* intents and products

\* Cards are a list, and so are blocks; what names a block is no mark of an image that is dropped.
ASSUME CardsAssumption ==
    \A c \in Cards :
        /\ c \in Seq(ToSet(c))
        /\ \A i \in DOMAIN c : /\ c[i].price \in {"none", "plain", "nested", "broken line"}
                                /\ c[i].link \in Pages!CompanyMarks

ASSUME BlocksAssumption ==
    \A b \in Blocks :
        /\ b \in Seq(ToSet(b))
        /\ \A i \in DOMAIN b :
                /\ b[i].kind \in {"images", "open images", "item", "half item", "outside"}
                /\ b[i].name \notin {"transparent", "foreign"}

\* Results are a list; their attributes have the names the parser gives them.
ASSUME DiscoveriesAssumption ==
    \A d \in Discoveries :
        LET items == d.searchPage.items
        IN  /\ d.configured \in Int /\ d.requested \in Int
            /\ items \in Seq(ToSet(items))
            /\ \A item \in ToSet(items) : "priceSource" \notin DOMAIN item.attributes

\* The products of a request are a list; a price is a number or missing.
ASSUME CataloguesAssumption ==
    \A c \in Catalogues : c \in Seq(ToSet(c)) /\ \A i \in DOMAIN c : c[i].price \in Int

\* What a rating is made of; the values of contacts are ordered as numbers are.  The
\* analysed score is that of the last reply, where there is one and it was saved.
ASSUME ConversationsAssumption ==
    /\ \A c \in Conversations :
            /\ DOMAIN c = {"contacts", "statuses", "inbound", "outbound", "analysed", "facts",
                           "scheme"}
            /\ c.contacts \in Seq(ToSet(c.contacts))
            /\ \A i \in DOMAIN c.contacts :
                    c.contacts[i].confidence \in Int /\ c.contacts[i].value \in Nat
            /\ c.inbound \in Nat /\ c.outbound \in Nat /\ c.facts \in Nat
            /\ c.analysed \in Int /\ (c.inbound = 0 => c.analysed = Rating!NoValue)
    /\ \A new \in NewContacts : new.confidence \in Nat

\* What names a product is no mark of a text; what its title says is among its marks.
ASSUME WritingsAssumption ==
    \A w \in Writings : {w.product.id, w.product.url} \cap (Agent!Topics \cup {"forbidden"}) = {}

ASSUME DraftsAssumption ==
    \A d \in Drafts : "unsafe" \notin {d.product.id, d.product.url}
                     /\ d.messages \in Seq(ToSet(d.messages))

\* A score is a number or it is not.
ASSUME RepliesAssumption ==
    \A r \in Replies : r.model.score.kind = "number" => r.model.score.value \in Int

\* The providers are a list.
ASSUME SearchesAssumption ==
    \A s \in Searches : s.providers \in Seq(ToSet(s.providers))

\* Requirements are lists; a product is told by three things.
ASSUME FitsAssumption ==
    \A f \in Fits :
        /\ f.intent.mustHave \in Seq(ToSet(f.intent.mustHave))
        /\ f.intent.certifications \in Seq(ToSet(f.intent.certifications))
        /\ DOMAIN f.product = {"text", "customised", "badges"}

VARIABLES call, answer

vars == <<call, answer>>

Asked(of) == call.of = of /\ answer # NoAnswer

-----------------------------------------------------------------------------
(***************************************************************************)
(* How a page is laid out.  A card is its title, the inside of its price   *)
(* and the link to its supplier; a block is a section of images, an item of basic      *)
(* information or an image outside of any section.                         *)
(***************************************************************************)
Element(tag, mark, inside) == <<Pages!Start(tag, mark, "none")>> \o inside \o <<Pages!End(tag)>>

Image(image) == Pages!Start("img", "none", image)

PriceOf(card) ==
    CASE card.price = "plain" -> <<Pages!Text(card.name)>>
      [] card.price = "nested" ->
           Element("span", "none", <<Pages!Text(card.name)>>) \o <<Pages!Text("piece")>>
      [] card.price = "broken line" ->
           <<Pages!Text(card.name), Pages!Start("br", "none", "none"), Pages!Text("piece")>>

CardEvents(card) ==
    Element("h2", "product-name", <<Pages!Start("a", "none", card.name), Pages!End("a")>>)
        \o <<Image(card.name)>>
        \o (IF card.price = "none" THEN <<>> ELSE Element("div", "priceText", PriceOf(card)))
        \o <<Pages!Start("a", card.link, card.name), Pages!Text(card.supplier), Pages!End("a")>>

BlockEvents(block) ==
    CASE block.kind = "images" ->
           Element("div", "product-img",
               Element("div", "none", <<Image(block.name), Pages!End("img")>>))
      [] block.kind = "open images" ->
           Element("div", "product-img", <<Image(block.name)>>)
      [] block.kind = "item" ->
           Element("div", "bsc-item",
               Element("div", "name", <<Pages!Text(block.name)>>)
                   \o Element("div", "value", Element("span", "none", <<Pages!Text("v")>>)))
      [] block.kind = "half item" ->
           Element("div", "bsc-item", Element("div", "name", <<Pages!Text(block.name)>>))
      [] block.kind = "outside" -> <<Image(block.name)>>

CardsEvents(cards) == FlattenSeq([i \in DOMAIN cards |-> CardEvents(cards[i])])

BlocksEvents(blocks) == FlattenSeq([i \in DOMAIN blocks |-> BlockEvents(blocks[i])])

-----------------------------------------------------------------------------
Calls ==
    [of : {"cards"}, cards : Cards] \cup [of : {"product"}, blocks : Blocks]
        \cup [of : {"discovery"}, discovery : Discoveries]
        \cup [of : {"prices"}, catalogue : Catalogues]
        \cup [of : {"rating"}, conversation : Conversations]
        \cup [of : {"writing"}, writing : Writings] \cup [of : {"draft"}, draft : Drafts]
        \cup [of : {"question"}, question : Questions] \cup [of : {"reply"}, reply : Replies]
        \cup [of : {"search"}, search : Searches] \cup [of : {"fit"}, fit : Fits]

Init == call \in Calls /\ answer = NoAnswer

Comparison(product, catalogue) ==
    [scores |-> Rating!PriceScores(product, catalogue),
     rank |-> Rating!PriceRank(product, catalogue),
     deltas |-> Rating!PriceDeltas(product, catalogue)]

\* The metrics of a supplier that do not depend on prices, and the rating they make.
RatingOf(c) ==
    LET contact == Rating!ContactabilityScore(c.contacts)
        quality == Rating!BestQuality(c.contacts, "maker.com")
        response == Rating!ResponseScore(c.statuses, c.inbound)
        communication == Rating!CommunicationScore(c.analysed, c.inbound, c.outbound)
        completeness == Max(Rating!CompletenessScores(c.facts + IF c.contacts = <<>> THEN 0 ELSE 1))
    IN  [contact |-> contact, quality |-> quality, response |-> response,
         communication |-> communication, completeness |-> completeness,
         overall |-> Max(Rating!Overall(45, contact, quality, response, communication, completeness,
                                        Rating!TraceabilityScore(c.scheme, TRUE)))]

Result(provider, maxResults) ==
    IF provider.kind = "public" THEN Providers!PublicSearch(provider.page, maxResults)
    ELSE Providers!WebSearch(provider.answer, maxResults)

Written(w) ==
    IF w.messages = <<>>
    THEN Agent!SupplierMessage(w.product, w.language, w.answers)
    ELSE Agent!SupplierReply(w.product, w.messages, w.language, w.answers)

Value ==
    CASE call.of = "cards" -> Pages!ParseSearch(CardsEvents(call.cards))
      [] call.of = "product" -> Pages!ParseDetail(BlocksEvents(call.blocks))
      [] call.of = "discovery" ->
           LET d == call.discovery
           IN  MIC!Research(d.addresses, d.searchPage, d.site, d.configured, d.requested)
      [] call.of = "prices" ->
           [i \in DOMAIN call.catalogue |-> Comparison(call.catalogue[i], call.catalogue)]
      [] call.of = "rating" -> RatingOf(call.conversation)
      [] call.of = "writing" -> Written(call.writing)
      [] call.of = "draft" ->
           Agent!ContractDraft(call.draft.product, call.draft.messages, call.draft.answer)
      [] call.of = "question" ->
           Agent!AssistantAnswer(call.question.text, call.question.answers)
      [] call.of = "reply" ->
           Agent!Analysis(call.reply.text, call.reply.model)
      [] call.of = "search" ->
           Providers!Route([i \in DOMAIN call.search.providers |->
                               Result(call.search.providers[i], call.search.maxResults)])
      [] call.of = "fit" ->
           [matched |-> Providers!Matched(call.fit.intent, call.fit.product),
            missing |-> Providers!Missing(call.fit.intent, call.fit.product),
            score |-> Providers!FitScore(call.fit.intent, call.fit.product),
            summary |-> Providers!Summary(call.fit.intent, call.fit.product)]

Evaluate == answer = NoAnswer /\ answer' = Value /\ UNCHANGED call

Spec == Init /\ [][Evaluate]_vars

-----------------------------------------------------------------------------
\* Properties.

CardIsRead(card, product) ==
    /\ product["priceText"] = CASE card.price = "none" -> <<>>
                                [] card.price = "plain" -> <<card.name>>
                                [] OTHER -> <<card.name, "piece">>
    /\ product["supplierName"] = <<card.supplier>>
    /\ product["imageUrl"] = <<card.name>>

OfKind(blocks, kinds) == {i \in DOMAIN blocks : blocks[i].kind \in kinds}

\* An image that is on the page again is taken once.
FirstOf(blocks, places) == {i \in places : \A j \in places : j < i => blocks[j].name # blocks[i].name}

NamesAt(blocks, places) ==
    LET chosen == Among([i \in DOMAIN blocks |-> i], places)
    IN  [i \in DOMAIN chosen |-> blocks[chosen[i]].name]

(***************************************************************************)
(* The parsers count elements instead of matching them.  What must come    *)
(* out right all the same: every card is found, a field holds its own      *)
(* card's text up to the first card with an unclosed element in a field;   *)
(* every image of a section is taken, and no other one unless a section    *)
(* has an unclosed image; an item of basic information is kept if it has   *)
(* both halves (_MadeInChinaSearchResultParser, ...ProductDetailParser).   *)
(***************************************************************************)
PagesKeepTheirFields ==
    /\ Asked("cards") =>
        /\ Len(answer) = Len(call.cards)
        /\ \A i \in DOMAIN answer :
            /\ answer[i]["title"] = <<call.cards[i].name>>
            /\ (\A j \in 1..i : call.cards[j].price # "broken line") =>
                    CardIsRead(call.cards[i], answer[i])
    /\ Asked("product") =>
        LET blocks == call.blocks
            inSections == OfKind(blocks, {"images", "open images"})
            items == OfKind(blocks, {"item"})
        IN  /\ {blocks[i].name : i \in inSections} \subseteq ToSet(answer.images)
            /\ OfKind(blocks, {"open images"}) = {} =>
                    answer.images = NamesAt(blocks, FirstOf(blocks, inSections))
            /\ DOMAIN answer.basic = {<<blocks[i].name>> : i \in items}
            /\ \A k \in DOMAIN answer.basic : answer.basic[k] = <<"v">>

(***************************************************************************)
(* A discovery gives the first usable results, one at least, no more than  *)
(* asked for, and fewer than there are only for a limit that was set, or   *)
(* for the 5 or 50 of the connector; looking a product up only adds to it, *)
(* and a page that cannot be had costs no product                          *)
(* (_made_in_china_result_limit, _enrich_missing_price_from_detail).       *)
(***************************************************************************)
DiscoveryOnlyFills ==
    Asked("discovery") /\ answer.success /\ answer.mode = "search" =>
        LET d == call.discovery
            usable == MIC!UsableOf(d.searchPage.items)
            given == Len(answer.products)
            limits == {n \in {d.configured, d.requested} : MIC!IsNumber(n)}
            Keeps(item, product) ==
                /\ product.title = item.title /\ product.productUrl = item.productUrl
                /\ item.priceText \notin {MIC!NoText, "range"} =>
                        product = MIC!SearchProduct(item)
                /\ \A k \in DOMAIN item.attributes : product.attributes[k] = item.attributes[k]
                /\ item.images # <<>> => product.images = item.images
                /\ d.site[item.productUrl].kind # "page" => product = MIC!SearchProduct(item)
        IN  /\ usable # <<>> => answer.products # <<>>
            /\ given <= 50 /\ given <= Len(usable)
            /\ d.requested \in Nat \ {0} => given <= d.requested
            /\ \A i \in DOMAIN answer.products : Keeps(usable[i], answer.products[i])
            /\ given < Len(usable) =>
                    \/ given \in limits \cup {50}
                    \/ given = 5 /\ ~MIC!IsNumber(d.configured)
                    \/ given = 1 /\ \E n \in limits : n <= 0

(***************************************************************************)
(* Among products that can be compared, in one currency and with a price,  *)
(* the cheaper has the better rank, no worse score and the smaller         *)
(* difference; the cheapest has rank 1, score 100 and no difference; a     *)
(* product in another currency has no part in it                           *)
(* (calculate_supplier_comparison).                                        *)
(***************************************************************************)
RatingAgreesWithPrices ==
    Asked("prices") =>
        LET P == call.catalogue
            Priced(i) == P[i].price # Rating!NoPrice /\ P[i].price > 0
                         /\ P[i].currency # Rating!NoCurrency
            Together(i, j) == Priced(i) /\ Priced(j) /\ P[i].currency = P[j].currency
        IN  \A i \in DOMAIN P : Priced(i) =>
                /\ (\A j \in DOMAIN P : Together(i, j) => P[i].price <= P[j].price) =>
                        answer[i] = [scores |-> {100}, rank |-> 1, deltas |-> {0}]
                /\ \A j \in DOMAIN P : Together(i, j) /\ P[i].price < P[j].price =>
                        /\ answer[i].rank < answer[j].rank
                        /\ \A a \in answer[i].scores, b \in answer[j].scores : a >= b
                        /\ \A a \in answer[i].deltas, b \in answer[j].deltas : a <= b

\* What the analysis of a reply may put on the product, and what the heuristic alone may.
AnalysedScores ==
    {a.score : a \in {b \in {Agent!Analysis(r.text, r.model) : r \in Replies} : ~b.raises}}

HeuristicScores == {Agent!HeuristicAnalysis(r.text).score : r \in Replies}

\* The next reply of the supplier, its analysis saved with the product.
Heard(c, score) == [c EXCEPT !.inbound = @ + 1, !.analysed = score]

(***************************************************************************)
(* News costs the supplier points by what a reply was judged to be worth,  *)
(* and by nothing else.  An attempt that moves along its lifecycle without *)
(* failing or is opened anew, a message either way that is not analysed,   *)
(* one more contact lower no metric and not the rating.  An analysed reply *)
(* may lower the communication score, below the 40 of a supplier who never *)
(* answered even; the rating falls only then, by 15 points at most, and    *)
(* the first reply does not lower it when the heuristic judged it, for     *)
(* having answered is worth what 35 points instead of 40 cost.  And the    *)
(* contact that messages go to is the one whose quality is shown           *)
(* (score_..., the weights of calculate_supplier_comparison,               *)
(* select_best_contact).                                                   *)
(***************************************************************************)
NewsCostsByAnalysisOnly ==
    Asked("rating") =>
        LET c == call.conversation
            moved == {[c EXCEPT !.statuses = (@ \ {move[1]}) \cup {move[2]}] :
                        move \in {m \in AttemptMoves : m[1] \in c.statuses
                                                       /\ m[2] \notin {"failed", "cancelled"}}}
            grown == {[c EXCEPT !.statuses = @ \cup {"queued"}], [c EXCEPT !.inbound = @ + 1],
                      [c EXCEPT !.outbound = @ + 1]}
                        \cup {[c EXCEPT !.contacts = Append(@, new)] : new \in NewContacts}
        IN  /\ \A later \in moved \cup grown : \A metric \in DOMAIN answer :
                    RatingOf(later)[metric] >= answer[metric]
            /\ \A score \in AnalysedScores :
                LET later == RatingOf(Heard(c, score))
                IN  /\ \A metric \in DOMAIN answer \ {"communication", "overall"} :
                            later[metric] >= answer[metric]
                    /\ later.overall + 15 >= answer.overall
                    /\ later.communication >= answer.communication =>
                            later.overall >= answer.overall
            /\ \A score \in HeuristicScores : c.inbound = 0 =>
                    RatingOf(Heard(c, score)).overall >= answer.overall
            /\ c.contacts # <<>> =>
                    Rating!ContactQuality(c.contacts[Rating!BestContact(c.contacts, "maker.com")],
                                          "maker.com") = answer.quality

(***************************************************************************)
(* What the agent writes is permitted and in the language asked for,       *)
(* whatever the model answered, fallbacks included; and the agent gives up *)
(* only over what it must quote: a forbidden phrase in the product's       *)
(* title or address, a title that reads like a whole outreach, a draft     *)
(* of the model's with commitments, or such words among the last           *)
(* messages of the conversation when there is no usable draft.  The        *)
(* operator's assistant answers a Russian question in Russian and nobody   *)
(* with the prompt; only a model that raises at the second question costs  *)
(* the operator a server error; a score is from 0 to 100 or there is none  *)
(* (generate_supplier_message, generate_supplier_reply,                    *)
(* generate_contract_draft, answer_internal_product_assistant,             *)
(* analyze_supplier_reply).                                                *)
(***************************************************************************)
AgentTextIsPermitted ==
    /\ Asked("writing") =>
        LET w == call.writing
            chosen == IF w.language \in {"ru", "en", "zh"} THEN w.language ELSE "ru"
            script == [ru |-> "cyrillic", en |-> "latin", zh |-> "cjk"][chosen]
            topics == Cardinality(w.product.marks \cap Agent!Topics)
        IN  IF answer = Agent!Raised
            THEN \/ "forbidden" \in w.product.marks
                 \/ w.messages # <<>> /\ topics >= 3
            ELSE /\ "forbidden" \notin answer
                 /\ chosen # "en" => script \in answer
                 /\ w.messages = <<>> => w.product.url \in answer /\ Agent!Topics \subseteq answer
                 /\ w.messages # <<>> => ~(Agent!OutreachTopics \subseteq answer)
    /\ Asked("draft") =>
        LET d == call.draft
            Recent(i) == i > Len(d.messages) - 8
            usable == d.answer \notin {{}, {"unusable"}}
        IN  IF answer = Agent!Raised
            THEN \/ usable /\ ("unsafe" \in d.answer \/ "draft" \notin d.answer)
                 \/ ~usable /\ "unsafe" \in d.product.marks \cup d.product.supplier
                 \/ ~usable /\ \E i \in DOMAIN d.messages :
                        Recent(i) /\ "unsafe" \in d.messages[i].body
            ELSE "draft" \in answer /\ "unsafe" \notin answer
    /\ Asked("question") =>
        LET q == call.question
        IN  /\ answer.status = 200 =>
                /\ answer.reply # {} /\ "echo" \notin answer.reply
                /\ "cyrillic" \in q.text => "cyrillic" \in answer.reply
                /\ q.text # {} => "clarify" \notin answer.reply
            /\ answer.status = 500 => q.answers[2] = Agent!Broken
    /\ Asked("reply") =>
        /\ answer.score \in 0..100
        /\ answer.raises => call.reply.model.score.kind = "infinite"

(***************************************************************************)
(* A provider that found nothing, be its page a success for its filters,   *)
(* never keeps a later one's products from the user; only one that raises  *)
(* does, and only if nothing was found before it (SearchProviderRouter).   *)
(***************************************************************************)
RouterTakesFirstProducts ==
    Asked("search") =>
        LET s == call.search
            R == [i \in DOMAIN s.providers |-> Result(s.providers[i], s.maxResults)]
            Finds(i) == R[i].candidates # <<>>
        IN  /\ \A i \in DOMAIN R :
                Finds(i) /\ (\A j \in 1..(i - 1) : ~Finds(j) /\ ~R[j].raises) =>
                    /\ answer.success /\ answer.candidates = R[i].candidates
                    /\ Len(answer.errors) = i - 1
            /\ answer.raises => \E i \in DOMAIN R : R[i].raises /\ \A j \in 1..i : ~Finds(j)

Times(r, list) == Cardinality({i \in DOMAIN list : list[i] = r})

Requirements(f) == f.intent.mustHave \o f.intent.certifications

\* What the evaluator adds of itself.
Added == {Providers!NoMaker, Providers!MakerFirst, Providers!Customization}

EachIsShownOnce(f) ==
    \A r \in ToSet(Requirements(f)) \ ({Providers!Blank} \cup Added) :
        Times(r, answer.matched) + Times(r, answer.missing) = Times(r, Requirements(f))

MoreTextScoresNoLess(f) ==
    \A word \in ToSet(Requirements(f)) :
        Providers!FitScore(f.intent, [f.product EXCEPT !.text = @ \cup {word}]) >= answer.score

MatchIsWhole(f) ==
    answer.summary = "matches" =>
        \A r \in ToSet(Requirements(f)) \ {Providers!Blank} : r \in f.product.text

(***************************************************************************)
(* Every requirement is shown to the user exactly once, as matched or as   *)
(* missing, unless it reads like what the evaluator adds of itself; and    *)
(* the score is the less the more of them is missing                       *)
(* (ProductFitEvaluator.evaluate): a product whose text says more than     *)
(* this one's never has a lower score.                                     *)
(***************************************************************************)
RequirementsAreAccounted ==
    Asked("fit") =>
        /\ EachIsShownOnce(call.fit)
        /\ MoreTextScoresNoLess(call.fit)
        /\ answer.score <= 10000
        /\ MatchIsWhole(call.fit)

=============================================================================
