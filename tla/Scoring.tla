------------------------------ MODULE Scoring ------------------------------
(***************************************************************************)
(* What the API computes of a product when it shows it (main.py:541-1070): *)
(* the quality of contacts and the comparison with the other products of   *)
(* the request.  Prices are whole numbers, NoPrice is one that is missing. *)
(* A percentage is rounded to a nearest integer; which of two equally near *)
(* ones depends on Decimal and binary fractions, so a rounded value is any *)
(* member of Roundings.                                                    *)
(***************************************************************************)
EXTENDS Integers, Sequences, FiniteSets, FiniteSetsExt, SequencesExt, Domain

NoPrice == -1000000
NoValue == -1000001
NoCurrency == ""

Clamp(n) == Max({0, Min({100, n})})

Roundings(n, d) == {k \in (n \div d)..(n \div d) + 1 : 2 * (k * d - n) \in -d..d}

-----------------------------------------------------------------------------
\* Contacts.

SalesBoxes == {"sales", "b2b", "wholesale", "orders", "business", "export"}
DeskBoxes == {"info", "contact", "support", "hello"}
FreeMail == {"gmail.com", "outlook.com", "hotmail.com", "yahoo.com"}

MailboxScore(local) ==
    IF local \in SalesBoxes THEN 25 ELSE IF local \in DeskBoxes THEN 12 ELSE 0

\* A source domain ends in the domain of its contacts, or of a subdomain's parent.
DomainScore(contact, sourceDomain) ==
    (IF contact.domain = sourceDomain THEN 18 ELSE 0)
        - (IF contact.domain \in FreeMail THEN 12 ELSE 0)

TypeScore(contact, sourceDomain) ==
    CASE contact.type = "email" ->
           25 + MailboxScore(contact.local) + DomainScore(contact, sourceDomain)
      [] contact.type = "telegram" -> 15
      [] OTHER -> 0

ContactQuality(contact, sourceDomain) ==
    Clamp(40 + (IF contact.primary THEN 20 ELSE 0) + TypeScore(contact, sourceDomain)
            + contact.confidence)

\* Python's sorted: by falling quality, then by value, then by place.
RanksBefore(contacts, i, j, sourceDomain) ==
    LET q(k) == ContactQuality(contacts[k], sourceDomain)
    IN  \/ q(i) > q(j)
        \/ q(i) = q(j) /\ contacts[i].value < contacts[j].value
        \/ q(i) = q(j) /\ contacts[i].value = contacts[j].value /\ i <= j

BestContact(contacts, sourceDomain) ==
    CHOOSE i \in DOMAIN contacts :
        \A j \in DOMAIN contacts : RanksBefore(contacts, i, j, sourceDomain)

ContactabilityScore(contacts) ==
    LET types == {contacts[i].type : i \in DOMAIN contacts}
    IN  CASE {"email", "telegram"} \subseteq types -> 100
          [] types \cap {"email", "telegram"} = {"email"} -> 85
          [] types \cap {"email", "telegram"} = {"telegram"} -> 75
          [] OTHER -> 20

BestQuality(contacts, sourceDomain) ==
    IF contacts = <<>> THEN 20
    ELSE Max({ContactQuality(contacts[i], sourceDomain) : i \in DOMAIN contacts})

-----------------------------------------------------------------------------
\* Prices: only positive prices in the product's own currency are compared.

Comparable(product, catalogue) ==
    {c \in ToSet(catalogue) :
        /\ c.price # NoPrice /\ c.price > 0
        /\ product.currency # NoCurrency /\ c.currency = product.currency}

\* Mutant: the cheapest price is looked for in every currency.
ComparablePricesOfAll(product, catalogue) ==
    {c.price : c \in {d \in ToSet(catalogue) : d.price # NoPrice /\ d.price > 0}}

ComparablePrices(product, catalogue) ==
    {c.price : c \in Comparable(product, catalogue)}

MinPrice(product, catalogue) ==
    IF ComparablePrices(product, catalogue) = {} THEN NoPrice
    ELSE Min(ComparablePrices(product, catalogue))

PriceScores(product, catalogue) ==
    LET least == MinPrice(product, catalogue)
    IN  IF product.price = NoPrice \/ least = NoPrice \/ product.price <= 0 THEN {45}
        ELSE {Clamp(r) : r \in Roundings(100 * least, product.price)}

PriceRank(product, catalogue) ==
    LET prices == ComparablePrices(product, catalogue)
    IN  IF product.price = NoPrice \/ product.price \notin prices THEN NoValue
        ELSE Cardinality({p \in prices : p <= product.price})

PriceDeltas(product, catalogue) ==
    LET least == MinPrice(product, catalogue)
    IN  IF product.price = NoPrice \/ least = NoPrice THEN {NoValue}
        ELSE Roundings(100 * (product.price - least), least)

-----------------------------------------------------------------------------
\* The conversation: statuses of the attempts, numbers of messages.

\* Mutant: an attempt under way is looked for before one that got through.
ResponseScoreOfActive(statuses, inbound) ==
    IF inbound > 0 THEN 100
    ELSE IF statuses \cap Active # {} THEN 55
    ELSE IF "responded" \in statuses THEN 95
    ELSE IF "sent" \in statuses THEN 80
    ELSE IF "failed" \in statuses THEN 20 ELSE 40

ResponseScore(statuses, inbound) ==
    CASE inbound > 0 -> 100
      [] inbound = 0 /\ "responded" \in statuses -> 95
      [] inbound = 0 /\ "responded" \notin statuses /\ "sent" \in statuses -> 80
      [] OTHER ->
           IF statuses \cap Active # {} THEN 55
           ELSE IF "failed" \in statuses THEN 20 ELSE 40

CommunicationScore(analysed, inbound, outbound) ==
    CASE analysed # NoValue -> Clamp(analysed)
      [] analysed = NoValue /\ inbound >= 2 -> 85
      [] analysed = NoValue /\ inbound = 1 -> IF outbound >= 1 THEN 75 ELSE 65
      [] OTHER -> 40

\* Eight facts a product should have; facts is the number it has.
CompletenessScores(facts) == Roundings(100 * facts, 8)

TraceabilityScore(scheme, hasDomain) ==
    CASE scheme = "https" /\ hasDomain -> 100
      [] scheme = "http" /\ hasDomain -> 80
      [] scheme # "none" /\ (scheme = "other" \/ ~hasDomain) -> 55
      [] OTHER -> 20

Overall(price, contact, quality, response, communication, completeness, source) ==
    Roundings(25 * price + 15 * (contact + quality + response + communication)
                + 10 * completeness + 5 * source, 100)

=============================================================================
