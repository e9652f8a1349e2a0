---------------------------- MODULE MCAlgorithms ----------------------------
(***************************************************************************)
(* The calls of Algorithms that are tried: small inputs of every kind its  *)
(* definitions tell apart, in every order.                                 *)
(***************************************************************************)
EXTENDS Algorithms

Name == <<"first", "second", "third", "fourth">>

UpTo(S, n) == UNION {[1..k -> S] : k \in 0..n}

MCCards ==
    LET Maker == <<"maker 1", "maker 2", "maker 3">>
        card(i, of) == [name |-> Name[i], price |-> of.price, link |-> of.link, supplier |-> Maker[i]]
    IN  {[i \in DOMAIN s |-> card(i, s[i])] :
            s \in UpTo([price : {"none", "plain", "nested", "broken line"},
                        link : Pages!CompanyMarks], 3)}

MCBlocks ==
    LET kinds == {"images", "open images", "item", "half item", "outside"}
    IN  {[i \in DOMAIN s |-> [kind |-> s[i], name |-> Name[i]]] : s \in UpTo(kinds, 4)}
            \cup {[i \in DOMAIN s |-> [kind |-> s[i], name |-> "first"]] : s \in UpTo(kinds, 3)}

-----------------------------------------------------------------------------
Item(i, url, price) ==
    [title |-> "title", productUrl |-> url, priceText |-> price,
     images |-> IF i = 1 THEN <<"found">> ELSE <<>>, attributes |-> [moq |-> "found"]]

MCItems ==
    {Item(1, "u1", "10"), Item(1, "u1", "range"), Item(2, "u2", ""), Item(2, "", "5")}

Parsed(title, price, scripts) ==
    [scripts |-> scripts, metaTitle |-> "", title |-> title, metaUrl |-> "", metaPrice |-> price,
     metaImage |-> "page image", images |-> <<"shown", "page image">>,
     attributes |-> [moq |-> "page", location |-> "page"]]

Node(isProduct, graph) ==
    [MIC!NoNode EXCEPT !.product = isProduct, !.graph = graph,
                       !.title = "ld", !.price = "7"]

MCScripts ==
    {<<>>, <<[isJson |-> FALSE, nodes |-> <<>>],
             [isJson |-> TRUE, nodes |-> <<Node(FALSE, <<MIC!NoNode, Node(TRUE, <<>>)>>)>>]>>}

Answer(kind, page) == [kind |-> kind, page |-> page]

MCAnswers ==
    {Answer("raises", Parsed("", "", <<>>)), Answer("captcha", Parsed("page", "9", <<>>))}
        \cup {Answer("page", Parsed(title, price, scripts)) :
                title \in {"", "page"}, price \in {"", "9"}, scripts \in MCScripts}

MCDiscoveries ==
    [addresses : {<<>>, <<[url |-> "u9", onSite |-> FALSE, isProduct |-> TRUE],
                          [url |-> "u1", onSite |-> TRUE, isProduct |-> TRUE]>>},
     searchPage : [kind : {"page", "captcha"}, items : UpTo(MCItems, 3)],
     site : {("u1" :> a @@ "u2" :> b) : a \in MCAnswers, b \in {Answer("raises", Parsed("", "", <<>>)),
                                                              Answer("page", Parsed("page", "9", <<>>))}},
     configured : {MIC!NotANumber, 0, 2},
     requested : {MIC!NotANumber, 0, 1, 60}]

-----------------------------------------------------------------------------
MCCatalogues ==
    [1..3 -> [price : {Rating!NoPrice, 0, 7, 10, 30}, currency : {"", "USD", "EUR"}]]

Contact(type, local, domain, primary, confidence, value) ==
    [type |-> type, local |-> local, domain |-> domain, primary |-> primary,
     confidence |-> confidence, value |-> value]

MCNewContacts ==
    {Contact("email", "sales", "maker.com", FALSE, 9, 2), Contact("email", "me", "gmail.com", FALSE, 0, 1),
     Contact("telegram", "", "", FALSE, 0, 3)}

Unanalysed ==
    [contacts : {<<>>, <<Contact("email", "info", "yahoo.com", TRUE, 0, 4)>>,
                 <<Contact("telegram", "", "", TRUE, 0, 5), Contact("email", "x", "gmail.com", FALSE, -90, 6)>>},
     statuses : SUBSET RowStatuses, inbound : 0..2, outbound : 0..1,
     analysed : {Rating!NoValue}, facts : {0, 7}, scheme : {"https", "other"}]

\* The last reply was judged worthless, or better than any number of replies is by itself.
MCConversations ==
    Unanalysed \cup {[c EXCEPT !.analysed = score] :
                        c \in {d \in Unanalysed : d.inbound > 0}, score \in {0, 90}}

-----------------------------------------------------------------------------
MCProducts ==
    [id : {"title"}, url : {"address"}, supplier : {{}, {"unsafe"}},
     marks : {{}, {"forbidden"}, {"unsafe"}, {"price", "moq"},
              {"price", "availability", "moq", "lead time", "payment"}}]

Message(direction, body) == [direction |-> direction, body |-> body]

\* Good, repetitive, evasive, forbidden, untitled, and in every script or none of them.
MCTexts ==
    LET whole == Agent!Topics \cup {"title", "address", "long"}
    IN  {{}, whole, whole \cup {"cyrillic"}, whole \cup {"latin", "cjk"},
         whole \cup {"cyrillic", "forbidden"}, {"long", "cyrillic", "tells company"},
         {"long", "latin", "price"}, {"cyrillic", "tells company"}}

MCMessages ==
    {<<>>, <<Message("outbound", {"long"})>>,
     <<Message("inbound", {"asks company"}), Message("outbound", {"long"})>>,
     <<Message("inbound", {"asks company"}), Message("inbound", {"price"})>>}

MCWritings ==
    [product : {p \in MCProducts : p.supplier = {}}, language : {"ru", "en", "zh", "fr"},
     messages : MCMessages, answers : MCTexts \X MCTexts]

\* Conversations of up to ten messages with prohibited words in one of them or in none.
MCDrafts ==
    [product : MCProducts,
     messages : {[i \in 1..n |-> Message("inbound", IF i = bad THEN {"unsafe"} ELSE {"long"})] :
                    n \in {0, 1, 8, 9, 10}, bad \in 0..10},
     answer : {{}, {"unusable"}, {"draft"}, {"draft", "unsafe"}, {"long"}}]

MCQuestions ==
    LET answers == {{}, {"echo", "latin"}, {"latin"}, {"cyrillic"}, {"cyrillic", "clarify"},
                    Agent!Raised, Agent!Broken}
    IN  [text : {{}, {"latin"}, {"cyrillic"}}, answers : answers \X answers]

MCReplies ==
    [text : SUBSET (Agent!Terms \cup {"available", "courteous"}),
     model : [terms : {[t \in Agent!Terms |-> ""],
                       [t \in Agent!Terms |-> IF t = "price" THEN "said" ELSE ""]},
              score : {[kind |-> "number", value |-> 500], [kind |-> "number", value |-> -1],
                       [kind |-> "none"], [kind |-> "infinite"]}]]

-----------------------------------------------------------------------------
Link(url, labelled, public, malformed) ==
    [url |-> url, labelled |-> labelled, public |-> public, malformed |-> malformed]

MCLinks ==
    {Link("p1", TRUE, TRUE, FALSE), Link("p2", FALSE, TRUE, FALSE),
     Link("p3", TRUE, FALSE, TRUE), Link("p4", TRUE, FALSE, FALSE)}

MCPages ==
    [allowed : {TRUE}, fetched : BOOLEAN, links : UpTo(MCLinks, 2), filters : {{}, {"filter"}}]

MCProviders ==
    {[kind |-> "public", page |-> p] : p \in MCPages}
        \cup {[kind |-> "web", answer |-> [raises |-> r, found |-> f]] :
                r \in BOOLEAN, f \in {<<>>, <<"w1", "w2">>, <<"w1", "malformed">>}}

MCSearches == [providers : UpTo(MCProviders, 2), maxResults : {0, 1, 2}]

MCFits ==
    [intent : [preference : {"", "manufacturer_first"},
               mustHave : UpTo({"", "steel", "ce"}, 2), certifications : UpTo({"ce", "iso"}, 1)],
     product : [text : SUBSET {"steel", "ce", "factory"}, customised : BOOLEAN,
                badges : {{}, {"custom"}}]]

=============================================================================
