-------------------------- MODULE MadeInChinaPages --------------------------
(***************************************************************************)
(* The two streaming parsers of Made-in-China pages (connectors.py:635-    *)
(* 883).  A page is the sequence of events HTMLParser raises for it: the   *)
(* start of an element, a piece of text, the end of an element.  An        *)
(* element is told by its tag and by the one of its classes or attributes  *)
(* the parser looks for ("mark"); the text of a field is the sequence of   *)
(* its pieces.  Neither parser keeps a stack: each counts starts and ends  *)
(* from the element that opened what it captures, and an element without   *)
(* an end (<img>, <br>, <input>) is counted as one that stays open; only   *)
(* <img/> raises both events.  A title or a name always has its text.      *)
(***************************************************************************)
EXTENDS Naturals, Sequences, SequencesExt

Start(tag, mark, value) == [on |-> "start", tag |-> tag, mark |-> mark, value |-> value]
Text(value) == [on |-> "text", tag |-> "none", mark |-> "none", value |-> value]
End(tag) == [on |-> "end", tag |-> tag, mark |-> "none", value |-> "none"]

\* What both parsers keep of an element they are reading the text of.
Idle == [capture |-> "none", depth |-> 0, text |-> <<>>]

\* Every start after the one that opened the capture is one level further in.
Deeper(c) == IF c.capture = "none" THEN c ELSE [c EXCEPT !.depth = @ + 1]

\* A capture inside a capture is not begun: its text is part of the outer one.
StartCapture(c, field) ==
    IF c.capture = "none" THEN [capture |-> field, depth |-> 1, text |-> <<>>] ELSE c

\* Mutant: the first end closes the capture, whatever it ends.
ShallowerAtOnce(c) == IF c.capture = "none" THEN c ELSE [c EXCEPT !.depth = 0]

Shallower(c) == IF c.capture = "none" THEN c ELSE [c EXCEPT !.depth = @ - 1]

Hear(c, piece) == IF c.capture = "none" THEN c ELSE [c EXCEPT !.text = Append(@, piece)]

Closes(c) == c.capture # "none" /\ c.depth = 0

-----------------------------------------------------------------------------
\* The page of search results.

CardFields ==
    {"priceText", "moq", "supplierLocation", "businessType"}

ProductFields ==
    CardFields \cup {"title", "imageUrl", "supplierName", "supplierUrl", "position"}

Unfilled == [f \in ProductFields |-> <<>>]

SearchPage == [products |-> <<>>, inTitle |-> FALSE, link |-> <<>>, reading |-> Idle]

\* The product at hand is the last one begun, wherever on the page it is used.
Put(p, field, pieces) ==
    [p EXCEPT !.products[Len(p.products)] = [@ EXCEPT ![field] = pieces]]

Has(p, field) == Last(p.products)[field] # <<>>

\* The link to the supplier; its title, if it has one, names him until its text is read.
CompanyMarks == {"company-name", "titled company-name"}

PutCompany(p, e) ==
    LET linked == Put(p, "supplierUrl", <<e.value>>)
    IN  IF e.mark = "titled company-name" THEN Put(linked, "supplierName", <<e.value>>) ELSE linked

\* An image or a field of the product at hand.
Fill(p, e) ==
    LET q == IF e.tag = "img" /\ ~Has(p, "imageUrl") THEN Put(p, "imageUrl", <<e.value>>) ELSE p
    IN  CASE e.tag = "a" /\ e.mark \in CompanyMarks ->
               [PutCompany(q, e) EXCEPT !.reading = StartCapture(@, "supplierName")]
          [] e.mark \in CardFields ->
               [q EXCEPT !.reading = StartCapture(@, e.mark)]
          [] OTHER -> q

Enter(p, e) ==
    CASE e.tag = "h2" /\ e.mark = "product-name" -> [p EXCEPT !.inTitle = TRUE]
      [] e.tag = "a" /\ p.inTitle -> [p EXCEPT !.link = <<e.value>>]
      [] OTHER -> IF p.products = <<>> THEN p ELSE Fill(p, e)

ReadStart(p, e) == Enter([p EXCEPT !.reading = Deeper(@)], e)

\* The end of the title's link begins the next product.
Begin(p) ==
    [p EXCEPT !.link = <<>>,
              !.products = Append(@, [Unfilled EXCEPT !["title"] = p.link,
                                                      !["position"] = <<Len(p.products) + 1>>])]

ReadEnd(p, e) ==
    LET titled == IF e.tag = "a" /\ p.link # <<>> THEN Begin(p) ELSE p
        left == [titled EXCEPT !.inTitle = IF e.tag = "h2" THEN FALSE ELSE @,
                               !.reading = Shallower(@)]
        c == left.reading
    IN  IF ~Closes(c) THEN left
        ELSE [IF c.text = <<>> \/ left.products = <<>> THEN left
              ELSE Put(left, c.capture, c.text) EXCEPT !.reading = Idle]

ReadEvent(p, e) ==
    CASE e.on = "start" -> ReadStart(p, e)
      [] e.on = "text" -> [p EXCEPT !.reading = Hear(@, e.value)]
      [] e.on = "end" -> ReadEnd(p, e)

-----------------------------------------------------------------------------
\* The page of one product.

DetailPage ==
    [images |-> <<>>, basic |-> <<>>, supplierName |-> <<>>, supplierUrl |-> <<>>,
     inquiryUrl |-> <<>>, contactPerson |-> <<>>, meta |-> <<>>, jsonLd |-> <<>>,
     title |-> <<>>, reading |-> Idle, basicDepth |-> 0, imageDepth |-> 0,
     key |-> <<>>, value |-> <<>>]

OneDeeper(depth) == IF depth = 0 THEN 0 ELSE depth + 1

First(old, new) == IF old = <<>> THEN new ELSE old

\* Links and forms that lead to an inquiry, and links to the supplier's site.
Follow(p, e) ==
    LET asked == IF e.mark = "inquiry"
                 THEN [p EXCEPT !.inquiryUrl = First(@, <<e.value>>)] ELSE p
    IN  CASE e.tag = "input" /\ e.mark = "j-linkinfo" ->
               [asked EXCEPT !.supplierUrl = First(@, <<e.value>>)]
          [] e.tag = "a" /\ e.mark = "supplier" ->
               [asked EXCEPT !.supplierUrl = <<e.value>>,
                             !.reading = IF p.supplierName # <<>> THEN @
                                         ELSE StartCapture(@, "supplier_name")]
          [] e.tag = "a" /\ e.mark = "titled supplier" ->
               [asked EXCEPT !.supplierUrl = <<e.value>>,
                             !.supplierName = First(@, <<e.value>>)]
          [] OTHER -> asked

\* Images are taken while the parser believes itself inside a section of them.
AddImage(p, image) ==
    IF p.imageDepth = 0 \/ image \in ToSet(p.images) \cup {"transparent", "foreign"} THEN p
    ELSE [p EXCEPT !.images = Append(@, image)]

Capture(p, field) == [p EXCEPT !.reading = StartCapture(@, field)]

\* What the class of an element opens.
Open(p, e) ==
    CASE e.mark = "bsc-item" /\ e.tag = "div" ->
           [p EXCEPT !.basicDepth = 1, !.key = <<>>, !.value = <<>>]
      [] e.mark = "product-img" /\ e.tag \in {"div", "section"} -> [p EXCEPT !.imageDepth = 1]
      [] e.mark = "name" /\ p.basicDepth > 0 -> Capture(p, "basic_key")
      [] e.mark = "value" /\ p.basicDepth > 0 -> Capture(p, "basic_value")
      [] e.mark = "contact-person" /\ p.contactPerson = <<>> -> Capture(p, "contact_person")
      [] OTHER -> p

EnterDetail(p, e) ==
    CASE e.tag = "meta" -> [p EXCEPT !.meta = Append(@, e.value)]
      [] e.tag = "title" -> Capture(p, "document_title")
      [] e.tag = "script" /\ e.mark = "ld+json" -> Capture(p, "json_ld")
      [] e.tag \in {"input", "form", "a"} -> Open(Follow(p, e), e)
      [] e.tag = "img" -> Open(AddImage(p, e.value), e)
      [] OTHER -> Open(p, e)

DetailStart(p, e) ==
    EnterDetail([p EXCEPT !.reading = Deeper(@), !.basicDepth = OneDeeper(@),
                          !.imageDepth = OneDeeper(@)], e)

FinishCapture(p) ==
    LET c == p.reading
        q == [p EXCEPT !.reading = Idle]
    IN  IF c.text = <<>> THEN q
        ELSE
        CASE c.capture = "document_title" -> [q EXCEPT !.title = c.text]
          [] c.capture = "json_ld" -> [q EXCEPT !.jsonLd = Append(@, c.text)]
          [] c.capture = "supplier_name" -> [q EXCEPT !.supplierName = First(@, c.text)]
          [] c.capture = "contact_person" -> [q EXCEPT !.contactPerson = First(@, c.text)]
          [] c.capture = "basic_key" -> [q EXCEPT !.key = c.text]
          [] c.capture = "basic_value" -> [q EXCEPT !.value = c.text]
          [] OTHER -> q

\* The dictionary with the value under the key.
Entered(basic, key, value) ==
    [k \in DOMAIN basic \cup {key} |-> IF k = key THEN value ELSE basic[k]]

\* The end of an item of basic information keeps it if it has both halves.
CloseItem(p) ==
    LET q == [p EXCEPT !.basicDepth = IF @ = 0 THEN 0 ELSE @ - 1]
    IN  IF p.basicDepth # 1 THEN q
        ELSE [q EXCEPT !.key = <<>>, !.value = <<>>,
                       !.basic = IF p.key # <<>> /\ p.value # <<>>
                                 THEN Entered(@, p.key, p.value) ELSE @]

DetailEnd(p) ==
    LET left == [p EXCEPT !.reading = Shallower(@)]
        read == IF Closes(left.reading) THEN FinishCapture(left) ELSE left
    IN  [CloseItem(read) EXCEPT !.imageDepth = IF @ = 0 THEN 0 ELSE @ - 1]

DetailEvent(p, e) ==
    CASE e.on = "start" -> DetailStart(p, e)
      [] e.on = "text" -> [p EXCEPT !.reading = Hear(@, e.value)]
      [] e.on = "end" -> DetailEnd(p)

-----------------------------------------------------------------------------
\* HTMLParser.feed: the events of a page go to the parser one after the other.

Handle(parser, p, e) ==
    IF parser = "search" THEN ReadEvent(p, e) ELSE DetailEvent(p, e)

Feed(parser, p, page) ==
    LET state[n \in 0..Len(page)] ==
            IF n = 0 THEN p ELSE Handle(parser, state[n - 1], page[n])
    IN  state[Len(page)]

ParseSearch(page) == Feed("search", SearchPage, page).products

ParseDetail(page) == Feed("detail", DetailPage, page)

=============================================================================
