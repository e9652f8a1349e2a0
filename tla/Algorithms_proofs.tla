-------------------------- MODULE Algorithms_proofs --------------------------
(***************************************************************************)
(* The pure parts of the program, for every input of the kinds that the    *)
(* constants describe and not only for the small ones.                     *)
(***************************************************************************)
EXTENDS Algorithms, Lists_proofs

-----------------------------------------------------------------------------
\* There is one call, and there is no other answer than the one to it.

Answered == call \in Calls /\ answer \in {NoAnswer, Value}

LEMMA ValueIsFixed == UNCHANGED call => Value' = Value
BY DEF Value

LEMMA AlwaysAnswered == Spec => []Answered
<1>1. Init => Answered
  BY DEF Init, Answered
<1>2. Answered /\ [Evaluate]_vars => Answered'
  <2>. SUFFICES ASSUME Answered, [Evaluate]_vars PROVE Answered'
    OBVIOUS
  <2>1. UNCHANGED call /\ answer' \in {answer, Value}
    BY DEF Evaluate, vars
  <2>. QED BY <2>1, ValueIsFixed DEF Answered
<1>. QED BY <1>1, <1>2, PTL DEF Spec

LEMMA SearchAnswered ==
    ASSUME Answered, Asked("search")
    PROVE  /\ call.search \in Searches
           /\ answer = Providers!Route([i \in DOMAIN call.search.providers |->
                                   Result(call.search.providers[i], call.search.maxResults)])
BY DEF Answered, Asked, Calls, Value

LEMMA FitAnswered ==
    ASSUME Answered, Asked("fit")
    PROVE  /\ call.fit \in Fits
           /\ answer.matched = Providers!Matched(call.fit.intent, call.fit.product)
           /\ answer.missing = Providers!Missing(call.fit.intent, call.fit.product)
           /\ answer.score = Providers!FitScore(call.fit.intent, call.fit.product)
           /\ answer.summary = Providers!Summary(call.fit.intent, call.fit.product)
BY DEF Answered, Asked, Calls, Value

-----------------------------------------------------------------------------
(***************************************************************************)
(* Prices.  Products that are compared have the same comparable prices,    *)
(* of which there is a least; a nearest whole number is told by two        *)
(* inequalities, from which it follows that rounding keeps the order.      *)
(***************************************************************************)
Priced(p) == p.price # Rating!NoPrice /\ p.price > 0 /\ p.currency # Rating!NoCurrency

LEMMA PricesAnswered ==
    ASSUME Answered, Asked("prices")
    PROVE  /\ call.catalogue \in Catalogues
           /\ answer = [i \in DOMAIN call.catalogue |->
                            Comparison(call.catalogue[i], call.catalogue)]
BY DEF Answered, Asked, Calls, Value

LEMMA TimesKeepsOrder ==
    ASSUME NEW a \in Int, NEW b \in Int, NEW p \in Int, NEW q \in Int,
           0 < a, a <= b, 0 < p, p < q
    PROVE  a * p \in Int /\ b * q \in Int /\ a * p < b * q
<1>1. a * p < a * q /\ a * q <= b * q
  OBVIOUS
<1>. QED BY <1>1

LEMMA RoundedIs ==
    ASSUME NEW n \in Int, NEW d \in Int, 0 < d, NEW k \in Rating!Roundings(n, d)
    PROVE  k \in Int /\ -d <= 2 * (k * d - n) /\ 2 * (k * d - n) <= d
BY DEF Rating!Roundings

\* Shares of a dearer product are not higher.
LEMMA SharesFall ==
    ASSUME NEW n \in Int, NEW p \in Int, NEW q \in Int, 0 < n, 0 < p, p < q,
           NEW a \in Rating!Roundings(n, p), NEW b \in Rating!Roundings(n, q)
    PROVE  a \in Int /\ b \in Int /\ a >= b
<1>1. a \in Int /\ -p <= 2 * (a * p - n)
  BY RoundedIs
<1>2. b \in Int /\ 2 * (b * q - n) <= q
  BY RoundedIs
<1>3. (2 * a + 1) * p \in Int /\ (2 * a + 1) * p >= 2 * n
  BY <1>1
<1>4. (2 * b - 1) * q \in Int /\ (2 * b - 1) * q <= 2 * n
  BY <1>2
<1>5. 2 * a + 1 > 0
  BY <1>1, <1>3
<1>6. ASSUME a < b PROVE FALSE
  <2>1. (2 * a + 1) * p < (2 * b - 1) * q
    BY <1>1, <1>2, <1>5, <1>6, TimesKeepsOrder
  <2>. QED BY <1>3, <1>4, <2>1
<1>. QED BY <1>1, <1>2, <1>6

\* Differences to the least price are not smaller for a dearer one.
LEMMA DifferencesRise ==
    ASSUME NEW n \in Int, NEW m \in Int, NEW d \in Int, 0 < d, n < m,
           NEW a \in Rating!Roundings(n, d), NEW b \in Rating!Roundings(m, d)
    PROVE  a \in Int /\ b \in Int /\ a <= b
<1>1. a \in Int /\ 2 * (a * d - n) <= d
  BY RoundedIs
<1>2. b \in Int /\ -d <= 2 * (b * d - m)
  BY RoundedIs
<1>3. (2 * a - 1) * d \in Int /\ (2 * a - 1) * d <= 2 * n
  BY <1>1
<1>4. (2 * b + 1) * d \in Int /\ (2 * b + 1) * d >= 2 * m
  BY <1>2
<1>5. ASSUME b < a PROVE FALSE
  <2>1. (2 * b + 1) * d <= (2 * a - 1) * d
    BY <1>1, <1>2, <1>5
  <2>. QED BY <1>3, <1>4, <2>1
<1>. QED BY <1>1, <1>2, <1>5

\* What divides is rounded to itself.
LEMMA WholeIsKept ==
    ASSUME NEW c \in Nat, NEW d \in Int, 0 < d
    PROVE  Rating!Roundings(c * d, d) = {c}
<1>1. (c * d) \div d = c
  OBVIOUS
<1>2. c \in Rating!Roundings(c * d, d)
  <2>1. 2 * (c * d - c * d) = 0 /\ 0 \in -d..d
    OBVIOUS
  <2>. QED BY <1>1, <2>1 DEF Rating!Roundings
<1>3. ASSUME NEW k \in Rating!Roundings(c * d, d) PROVE k = c
  <2>1. k \in {c, c + 1} /\ 2 * (k * d - c * d) <= d
    BY <1>1, RoundedIs DEF Rating!Roundings
  <2>2. k # c + 1
    <3>1. (c + 1) * d - c * d = d
      OBVIOUS
    <3>. QED BY <2>1, <3>1
  <2>. QED BY <2>1, <2>2
<1>. QED BY <1>2, <1>3

LEMMA ClampIs ==
    ASSUME NEW n \in Int
    PROVE  Rating!Clamp(n) = IF n < 0 THEN 0 ELSE IF n > 100 THEN 100 ELSE n
<1>1. Rating!Min({100, n}) = IF n <= 100 THEN n ELSE 100
  BY DEF Rating!Min
<1>. DEFINE m == Rating!Min({100, n})
<1>2. m \in Int
  BY <1>1
<1>. HIDE DEF m
<1>3. Rating!Max({0, m}) = IF m <= 0 THEN 0 ELSE m
  BY <1>2 DEF Rating!Max
<1>4. Rating!Clamp(n) = Rating!Max({0, m})
  BY DEF Rating!Clamp, m
<1>. QED BY <1>1, <1>3, <1>4 DEF m

\* The comparable prices of a product that has one: with its own, a least, and finite.
LEMMA ComparableIs ==
    ASSUME NEW P \in Catalogues, NEW i \in DOMAIN P, Priced(P[i])
    PROVE  LET S == Rating!ComparablePrices(P[i], P)
               L == Rating!MinPrice(P[i], P)
           IN  /\ S = {P[j].price : j \in {k \in DOMAIN P : Priced(P[k])
                                                 /\ P[k].currency = P[i].currency}}
               /\ S \subseteq Nat \ {0} /\ IsFiniteSet(S) /\ P[i].price \in S
               /\ L \in S /\ \A s \in S : L <= s
<1>. DEFINE S == Rating!ComparablePrices(P[i], P)
            L == Rating!MinPrice(P[i], P)
            c == P[i].currency
            Together == {k \in DOMAIN P : Priced(P[k]) /\ P[k].currency = c}
<1>1. P \in Seq(ToSet(P)) /\ \A j \in DOMAIN P : P[j].price \in Int
  BY CataloguesAssumption
<1>2. c # Rating!NoCurrency
  BY DEF Priced
<1>3. Rating!Comparable(P[i], P) = {P[j] : j \in Together}
  BY <1>2 DEF Rating!Comparable, Rating!ToSet, Priced
<1>4. S = {P[j].price : j \in Together}
  BY <1>3 DEF Rating!ComparablePrices
<1>5. S \subseteq Nat \ {0} /\ P[i].price \in S
  BY <1>1, <1>4 DEF Priced
<1>6. IsFiniteSet(S)
  <2>1. DOMAIN P = 1..Len(P) /\ Len(P) \in Int
    BY <1>1
  <2>2. IsFiniteSet(DOMAIN P)
    <3>1. IsFiniteSet(1..Len(P))
      BY <2>1, FS_Interval
    <3>. QED BY <2>1, <3>1, Zenon
  <2>3. Together \in SUBSET (DOMAIN P)
    OBVIOUS
  <2>4. IsFiniteSet(Together)
    BY <2>2, <2>3, FS_Subset, Zenon
  <2>. DEFINE priceAt == [j \in Together |-> P[j].price]
  <2>5. priceAt \in Surjection(Together, S)
    BY <1>4 DEF Surjection
  <2>. QED BY <2>4, <2>5, FS_Surjection, Zenon
<1>7. \E least \in S : \A s \in S : least <= s
  <2>. HIDE DEF S
  <2>. QED BY <1>5, LeastNatural
<1>8. L = Rating!Min(S)
  BY <1>5 DEF Rating!MinPrice
<1>9. L \in S /\ \A s \in S : L <= s
  <2>. HIDE DEF S, L
  <2>. QED BY <1>7, <1>8, Zenon DEF Rating!Min
<1>. QED BY <1>4, <1>5, <1>6, <1>9

LEMMA ComparisonIs ==
    ASSUME NEW product, NEW catalogue
    PROVE  /\ Comparison(product, catalogue).rank = Rating!PriceRank(product, catalogue)
           /\ Comparison(product, catalogue).scores = Rating!PriceScores(product, catalogue)
           /\ Comparison(product, catalogue).deltas = Rating!PriceDeltas(product, catalogue)
BY DEF Comparison

\* How two products that can be compared are rated.
LEMMA CheaperRanksBetter ==
    ASSUME NEW P \in Catalogues, NEW i \in DOMAIN P, NEW j \in DOMAIN P,
           Priced(P[i]), Priced(P[j]), P[i].currency = P[j].currency, P[i].price < P[j].price
    PROVE  /\ Rating!PriceRank(P[i], P) < Rating!PriceRank(P[j], P)
           /\ \A a \in Rating!PriceScores(P[i], P), b \in Rating!PriceScores(P[j], P) : a >= b
           /\ \A a \in Rating!PriceDeltas(P[i], P), b \in Rating!PriceDeltas(P[j], P) : a <= b
<1>. DEFINE S == Rating!ComparablePrices(P[i], P)
            L == Rating!MinPrice(P[i], P)
            p == P[i].price
            q == P[j].price
            Below(n) == {s \in S : s <= n}
<1>1. /\ S \subseteq Nat \ {0} /\ IsFiniteSet(S) /\ p \in S
      /\ L \in S /\ \A s \in S : L <= s
  BY ComparableIs, Zenon
<1>2. Rating!ComparablePrices(P[j], P) = S /\ q \in S
  <2>1. Rating!Comparable(P[j], P) = Rating!Comparable(P[i], P)
    BY DEF Rating!Comparable
  <2>2. Rating!ComparablePrices(P[j], P) = S
    BY <2>1, Zenon DEF Rating!ComparablePrices
  <2>3. q \in Rating!ComparablePrices(P[j], P)
    BY ComparableIs, Zenon
  <2>. QED BY <2>2, <2>3, Zenon
<1>3. Rating!MinPrice(P[j], P) = L
  BY <1>2, Zenon DEF Rating!MinPrice
<1>4. p # Rating!NoPrice /\ q # Rating!NoPrice /\ L # Rating!NoPrice
  <2>. HIDE DEF S, L, p, q
  <2>. QED BY <1>1, <1>2 DEF Rating!NoPrice
<1>5. /\ Rating!PriceRank(P[i], P) = Cardinality(Below(p))
      /\ Rating!PriceRank(P[j], P) = Cardinality(Below(q))
  <2>1. /\ Rating!PriceRank(P[i], P) = Rating!Cardinality(Below(p))
        /\ Rating!PriceRank(P[j], P) = Rating!Cardinality(Below(q))
    BY <1>1, <1>2, <1>4, Zenon DEF Rating!PriceRank
  <2>2. Rating!Cardinality(Below(p)) = Cardinality(Below(p))
        /\ Rating!Cardinality(Below(q)) = Cardinality(Below(q))
    BY DEF Rating!Cardinality, Cardinality
  <2>. QED BY <2>1, <2>2, Zenon
<1>6. /\ Rating!PriceScores(P[i], P) = {Rating!Clamp(r) : r \in Rating!Roundings(100 * L, p)}
      /\ Rating!PriceScores(P[j], P) = {Rating!Clamp(r) : r \in Rating!Roundings(100 * L, q)}
      /\ Rating!PriceDeltas(P[i], P) = Rating!Roundings(100 * (p - L), L)
      /\ Rating!PriceDeltas(P[j], P) = Rating!Roundings(100 * (q - L), L)
  <2>1. ~(p <= 0) /\ ~(q <= 0)
    <3>. HIDE DEF S, L, p, q
    <3>. QED BY <1>1, <1>2
  <2>. QED BY <1>3, <1>4, <2>1, Zenon DEF Rating!PriceScores, Rating!PriceDeltas
<1>7. p < q
  OBVIOUS
<1>. HIDE DEF S, L, p, q
<1>8. p \in Nat /\ q \in Nat /\ L \in Nat /\ 0 < p /\ 0 < L /\ L <= p
  BY <1>1, <1>2
<1>9. Cardinality(Below(p)) < Cardinality(Below(q))
  <2>1. Below(q) \in SUBSET S /\ Below(p) \in SUBSET Below(q)
    <3>1. ASSUME NEW s \in S, s <= p PROVE s <= q
      <4>1. s \in Nat
        BY <1>1
      <4>. QED BY <1>7, <1>8, <3>1, <4>1
    <3>. QED BY <3>1, Zenon
  <2>2. q \in Below(q) /\ q \notin Below(p)
    BY <1>2, <1>7, <1>8
  <2>. HIDE DEF Below
  <2>3. IsFiniteSet(Below(q))
    BY <1>1, <2>1, FS_Subset, Zenon
  <2>4. IsFiniteSet(Below(p)) /\ Cardinality(Below(p)) <= Cardinality(Below(q))
        /\ Cardinality(Below(q)) # Cardinality(Below(p))
    BY <2>1, <2>2, <2>3, FS_Subset, Zenon
  <2>5. Cardinality(Below(p)) \in Nat /\ Cardinality(Below(q)) \in Nat
    BY <2>3, <2>4, FS_CardinalityType, Zenon
  <2>. QED BY <2>4, <2>5
<1>10. ASSUME NEW a \in Rating!PriceScores(P[i], P), NEW b \in Rating!PriceScores(P[j], P)
       PROVE  a >= b
  <2>1. PICK r \in Rating!Roundings(100 * L, p) : a = Rating!Clamp(r)
    BY <1>6
  <2>2. PICK t \in Rating!Roundings(100 * L, q) : b = Rating!Clamp(t)
    BY <1>6
  <2>3. r \in Int /\ t \in Int /\ r >= t
    BY <1>7, <1>8, SharesFall
  <2>. QED BY <2>1, <2>2, <2>3, ClampIs
<1>11. ASSUME NEW a \in Rating!PriceDeltas(P[i], P), NEW b \in Rating!PriceDeltas(P[j], P)
       PROVE  a <= b
  BY <1>6, <1>7, <1>8, DifferencesRise
<1>. QED BY <1>5, <1>9, <1>10, <1>11

LEMMA CheapestIsFirst ==
    ASSUME NEW P \in Catalogues, NEW i \in DOMAIN P, Priced(P[i]),
           \A j \in DOMAIN P : Priced(P[j]) /\ P[i].currency = P[j].currency =>
                                    P[i].price <= P[j].price
    PROVE  Comparison(P[i], P) = [scores |-> {100}, rank |-> 1, deltas |-> {0}]
<1>. DEFINE S == Rating!ComparablePrices(P[i], P)
            L == Rating!MinPrice(P[i], P)
            p == P[i].price
            Below(n) == {s \in S : s <= n}
            Same == {k \in DOMAIN P : Priced(P[k]) /\ P[k].currency = P[i].currency}
<1>1. /\ S \subseteq Nat \ {0} /\ p \in S
      /\ L \in S /\ \A s \in S : L <= s
      /\ S = {P[j].price : j \in Same}
  BY ComparableIs, Zenon
<1>2. \A s \in S : p <= s
  <2>1. ASSUME NEW s \in S PROVE p <= s
    <3>1. PICK k \in Same : s = P[k].price
      BY <1>1
    <3>. QED BY <3>1
  <2>. QED BY <2>1
<1>3. p \in Int /\ 0 < p /\ L = p
  <2>. HIDE DEF S, L, p
  <2>. QED BY <1>1, <1>2
<1>4. p # Rating!NoPrice /\ ~(p <= 0)
  BY <1>3 DEF Rating!NoPrice
<1>5. Rating!PriceScores(P[i], P) = {100}
  <2>1. Rating!PriceScores(P[i], P) = {Rating!Clamp(r) : r \in Rating!Roundings(100 * p, p)}
    BY <1>3, <1>4, Zenon DEF Rating!PriceScores
  <2>2. Rating!Roundings(100 * p, p) = {100}
    BY <1>3, WholeIsKept
  <2>3. Rating!Clamp(100) = 100
    BY ClampIs
  <2>. QED BY <2>1, <2>2, <2>3
<1>6. Rating!PriceDeltas(P[i], P) = {0}
  <2>1. Rating!PriceDeltas(P[i], P) = Rating!Roundings(100 * (p - p), p)
    BY <1>3, <1>4, Zenon DEF Rating!PriceDeltas
  <2>2. 100 * (p - p) = 0 * p
    BY <1>3
  <2>3. Rating!Roundings(0 * p, p) = {0}
    BY <1>3, WholeIsKept
  <2>. QED BY <2>1, <2>2, <2>3, Zenon
<1>7. Rating!PriceRank(P[i], P) = 1
  <2>1. Rating!PriceRank(P[i], P) = Rating!Cardinality(Below(p))
    BY <1>1, <1>4, Zenon DEF Rating!PriceRank
  <2>2. Rating!Cardinality(Below(p)) = Cardinality(Below(p))
    BY DEF Rating!Cardinality, Cardinality
  <2>3. Below(p) = {p}
    <3>. HIDE DEF S, p
    <3>. QED BY <1>1, <1>2
  <2>4. Cardinality({p}) = 1
    BY FS_Singleton, Zenon
  <2>. QED BY <2>1, <2>2, <2>3, <2>4, Zenon
<1>. QED BY <1>5, <1>6, <1>7, Zenon DEF Comparison

(***************************************************************************)
(* The comparison with the other products of a request agrees with their   *)
(* prices, whatever they are: it is a matter of the rounding alone.        *)
(***************************************************************************)
THEOREM ComparisonAgreesWithPrices == Spec => []RatingAgreesWithPrices
<1>1. ASSUME Answered PROVE RatingAgreesWithPrices
  <2>. DEFINE P == call.catalogue
              Together(i, j) == Priced(P[i]) /\ Priced(P[j]) /\ P[i].currency = P[j].currency
  <2>. SUFFICES ASSUME Asked("prices"), NEW i \in DOMAIN P, Priced(P[i])
                PROVE  /\ (\A j \in DOMAIN P : Together(i, j) => P[i].price <= P[j].price) =>
                                answer[i] = [scores |-> {100}, rank |-> 1, deltas |-> {0}]
                       /\ \A j \in DOMAIN P : Together(i, j) /\ P[i].price < P[j].price =>
                            /\ answer[i].rank < answer[j].rank
                            /\ \A a \in answer[i].scores, b \in answer[j].scores : a >= b
                            /\ \A a \in answer[i].deltas, b \in answer[j].deltas : a <= b
    BY DEF RatingAgreesWithPrices, Priced
  <2>1. P \in Catalogues /\ \A k \in DOMAIN P : answer[k] = Comparison(P[k], P)
    BY <1>1, PricesAnswered
  <2>. HIDE DEF P
  <2>2. ASSUME \A j \in DOMAIN P : Together(i, j) => P[i].price <= P[j].price
        PROVE  answer[i] = [scores |-> {100}, rank |-> 1, deltas |-> {0}]
    BY <2>1, <2>2, CheapestIsFirst, Zenon
  <2>3. ASSUME NEW j \in DOMAIN P, Together(i, j), P[i].price < P[j].price
        PROVE  /\ answer[i].rank < answer[j].rank
               /\ \A a \in answer[i].scores, b \in answer[j].scores : a >= b
               /\ \A a \in answer[i].deltas, b \in answer[j].deltas : a <= b
    <3>1. /\ answer[i].rank = Rating!PriceRank(P[i], P)
          /\ answer[i].scores = Rating!PriceScores(P[i], P)
          /\ answer[i].deltas = Rating!PriceDeltas(P[i], P)
          /\ answer[j].rank = Rating!PriceRank(P[j], P)
          /\ answer[j].scores = Rating!PriceScores(P[j], P)
          /\ answer[j].deltas = Rating!PriceDeltas(P[j], P)
      BY <2>1, <2>3, ComparisonIs, ZenonT(30)
    <3>. QED BY <2>1, <2>3, <3>1, CheaperRanksBetter
  <2>. QED BY <2>2, <2>3
<1>. QED BY <1>1, AlwaysAnswered, PTL

-----------------------------------------------------------------------------
(***************************************************************************)
(* The analysis of a reply: its score is a percentage, and the heuristic's *)
(* is never below 35.                                                      *)
(***************************************************************************)
LEMMA BoundedIs ==
    ASSUME NEW n \in Int
    PROVE  /\ Agent!Bounded(n) \in 0..100
           /\ n >= 35 => Agent!Bounded(n) \in 35..100
<1>1. Agent!Min({100, n}) = IF n <= 100 THEN n ELSE 100
  BY DEF Agent!Min
<1>. DEFINE m == Agent!Min({100, n})
<1>2. m \in Int /\ m <= 100 /\ (n >= 35 => m >= 35)
  BY <1>1
<1>. HIDE DEF m
<1>3. Agent!Max({0, m}) = IF m <= 0 THEN 0 ELSE m
  BY <1>2 DEF Agent!Max
<1>4. Agent!Bounded(n) = Agent!Max({0, m})
  BY DEF Agent!Bounded, m
<1>. QED BY <1>2, <1>3, <1>4

LEMMA HeuristicBounded ==
    ASSUME NEW text
    PROVE  /\ DOMAIN Agent!HeuristicAnalysis(text) = {"raises", "terms", "next", "score"}
           /\ Agent!HeuristicAnalysis(text).score \in 35..100
<1>. DEFINE own == Agent!HeuristicAnalysis(text)
            found == [term \in Agent!Terms |->
                        CASE term = "availability" -> Agent!HeuristicAvailability(text)
                          [] term # "availability" /\ term \in text -> "found"
                          [] OTHER -> Agent!NoTerm]
            filled == Agent!Cardinality({t \in Agent!Terms : found[t] # Agent!NoTerm})
            points == 35 + 12 * filled + IF "courteous" \in text THEN 10 ELSE 0
<1>1. filled \in Nat
  <2>. DEFINE S == {t \in Agent!Terms : found[t] # Agent!NoTerm}
              A == (({} \cup {"price"}) \cup {"currency"}) \cup {"moq"}
              B == (A \cup {"lead time"}) \cup {"availability"}
  <2>1. \A T, x : IsFiniteSet(T) => IsFiniteSet(T \cup {x})
    BY FS_AddElement, Zenon
  <2>2. S \in SUBSET Agent!Terms
    OBVIOUS
  <2>. HIDE DEF S, found
  <2>3. S \subseteq B
    BY <2>2, Zenon DEF Agent!Terms
  <2>4. IsFiniteSet(A)
    BY <2>1, FS_EmptySet, Zenon
  <2>. HIDE DEF A
  <2>5. IsFiniteSet(B)
    BY <2>1, <2>4, Zenon
  <2>. HIDE DEF B
  <2>6. IsFiniteSet(S)
    BY <2>3, <2>5, FS_Subset, Zenon
  <2>7. Agent!Cardinality(S) = Cardinality(S)
    BY DEF Agent!Cardinality, Cardinality
  <2>8. Agent!Cardinality(S) \in Nat
    BY <2>6, <2>7, FS_CardinalityType, Zenon
  <2>. QED BY <2>8 DEF S
<1>2. own = [raises |-> FALSE, terms |-> found,
             next |-> IF filled > 0 THEN "review" ELSE "request",
             score |-> Agent!Bounded(points)]
  BY Zenon DEF Agent!HeuristicAnalysis
<1>. HIDE DEF filled, found, own
<1>3. Agent!Bounded(points) \in 35..100
  <2>1. points \in Int /\ points >= 35
    BY <1>1
  <2>. QED BY <2>1, BoundedIs
<1>. HIDE DEF points
<1>4. DOMAIN own = {"raises", "terms", "next", "score"} /\ own.score \in 35..100
  BY <1>2, <1>3
<1>. QED BY <1>4 DEF own

LEMMA AnalysisBounded ==
    ASSUME NEW r \in Replies, NEW a, a = Agent!Analysis(r.text, r.model)
    PROVE  a.score \in 0..100 /\ (a.raises => r.model.score.kind = "infinite")
<1>. DEFINE own == Agent!HeuristicAnalysis(r.text)
<1>1. DOMAIN own = {"raises", "terms", "next", "score"} /\ own.score \in 0..100
  BY HeuristicBounded
<1>. HIDE DEF own
<1>2. /\ a.raises = (r.model.score.kind = "infinite")
      /\ a.score = IF r.model.score.kind = "number"
                   THEN Agent!Bounded(r.model.score.value) ELSE own.score
  BY <1>1 DEF Agent!Analysis, own
<1>3. r.model.score.kind = "number" => Agent!Bounded(r.model.score.value) \in 0..100
  BY BoundedIs, RepliesAssumption
<1>. QED BY <1>1, <1>2, <1>3

-----------------------------------------------------------------------------
(***************************************************************************)
(* The rating.  Each metric rises with what it is made of, and so does the *)
(* weighted sum of them, rounded.                                          *)
(***************************************************************************)
LEMMA RatingAnswered ==
    ASSUME Answered, Asked("rating")
    PROVE  call.conversation \in Conversations /\ answer = RatingOf(call.conversation)
BY DEF Answered, Asked, Calls, Value

\* The upper of two nearest whole numbers.
Most(n, d) == (2 * n + d) \div (2 * d)

LEMMA MostIs ==
    ASSUME NEW n \in Int, NEW d \in {8, 100}
    PROVE  Max(Rating!Roundings(n, d)) = Most(n, d)
<1>. DEFINE k == (2 * n + d) \div (2 * d)
            R == Rating!Roundings(n, d)
<1>1. k \in Int /\ -d <= 2 * (k * d - n) /\ 2 * (k * d - n) <= d
      /\ n \div d <= k /\ k <= (n \div d) + 1
  <2>1. CASE d = 8
    BY <2>1
  <2>2. CASE d = 100
    BY <2>2
  <2>. QED BY <2>1, <2>2
<1>2. k \in R
  <2>. HIDE DEF k
  <2>1. n \div d \in Int
    BY SMT
  <2>. QED BY <1>1, <2>1 DEF Rating!Roundings
<1>3. ASSUME NEW j \in R PROVE j \in Int /\ j <= k
  <2>1. j \in Int /\ 2 * (j * d - n) <= d
    BY RoundedIs
  <2>2. CASE d = 8
    BY <2>1, <2>2
  <2>3. CASE d = 100
    BY <2>1, <2>3
  <2>. QED BY <2>1, <2>2, <2>3
<1>. HIDE DEF k, R
<1>4. Max(R) = k
  <2>1. \A m \in R : (\A j \in R : m >= j) => m = k
    BY <1>1, <1>2, <1>3
  <2>2. \A j \in R : k >= j
    BY <1>1, <1>3
  <2>. QED BY <1>2, <2>1, <2>2 DEF Max
<1>. QED BY <1>4 DEF k, R, Most

LEMMA MostRises ==
    ASSUME NEW n \in Int, NEW m \in Int, NEW d \in {8, 100}, n <= m
    PROVE  /\ Max(Rating!Roundings(n, d)) \in Int /\ Max(Rating!Roundings(m, d)) \in Int
           /\ Max(Rating!Roundings(n, d)) <= Max(Rating!Roundings(m, d))
<1>1. Max(Rating!Roundings(n, d)) = Most(n, d) /\ Max(Rating!Roundings(m, d)) = Most(m, d)
  <2>1. \A x \in Int : Max(Rating!Roundings(x, d)) = Most(x, d)
    BY MostIs
  <2>. QED BY <2>1, Zenon
<1>2. Most(n, d) \in Int /\ Most(m, d) \in Int /\ Most(n, d) <= Most(m, d)
  <2>1. CASE d = 8
    BY <2>1 DEF Most
  <2>2. CASE d = 100
    BY <2>2 DEF Most
  <2>. QED BY <2>1, <2>2
<1>. QED BY <1>1, <1>2

LEMMA ResponseRises ==
    ASSUME NEW s, NEW t, NEW n \in Nat, NEW m \in Nat, n <= m,
           "responded" \in s => "responded" \in t,
           "sent" \in s => t \cap {"sent", "responded"} # {},
           s \cap Active # {} => t \cap (Active \cup {"sent", "responded"}) # {},
           t = s \/ t \cap (Active \cup {"sent", "responded"}) # {}
    PROVE  /\ Rating!ResponseScore(s, n) \in Int /\ Rating!ResponseScore(t, m) \in Int
           /\ Rating!ResponseScore(s, n) <= Rating!ResponseScore(t, m)
<1>. DEFINE Score(u, k) ==
                IF k > 0 THEN 100
                ELSE IF "responded" \in u THEN 95
                ELSE IF "sent" \in u THEN 80
                ELSE IF u \cap Active # {} THEN 55
                ELSE IF "failed" \in u THEN 20 ELSE 40
<1>1. \A u : \A k \in Nat : Rating!ResponseScore(u, k) = Score(u, k)
  BY DEF Rating!ResponseScore, Rating!Active, Active
<1>2. t \cap (Active \cup {"sent", "responded"}) # {} =>
            t \cap Active # {} \/ "sent" \in t \/ "responded" \in t
  OBVIOUS
<1>3. Score(s, n) <= Score(t, m)
  BY <1>2
<1>. QED BY <1>1, <1>3

\* The same analysis, or none: more messages are no less communication.
LEMMA CommunicationRises ==
    ASSUME NEW v \in Int, NEW n \in Nat, NEW m \in Nat, NEW a \in Nat, NEW b \in Nat,
           n <= m, a <= b
    PROVE  /\ Rating!CommunicationScore(v, n, a) \in 0..100
           /\ Rating!CommunicationScore(v, m, b) \in 0..100
           /\ Rating!CommunicationScore(v, n, a) <= Rating!CommunicationScore(v, m, b)
<1>1. CASE v = Rating!NoValue
  BY <1>1 DEF Rating!CommunicationScore
<1>2. CASE v # Rating!NoValue
  <2>1. \A k, c : Rating!CommunicationScore(v, k, c) = Rating!Clamp(v)
    BY <1>2 DEF Rating!CommunicationScore
  <2>2. Rating!Clamp(v) \in 0..100
    BY ClampIs
  <2>. QED BY <2>1, <2>2
<1>. QED BY <1>1, <1>2

\* An analysis that gave a percentage decides, however many messages there are.
LEMMA CommunicationIsAnalysed ==
    ASSUME NEW score \in 0..100, NEW n, NEW a
    PROVE  Rating!CommunicationScore(score, n, a) = score
<1>1. score # Rating!NoValue
  BY DEF Rating!NoValue
<1>2. Rating!CommunicationScore(score, n, a) = Rating!Clamp(score)
  BY <1>1 DEF Rating!CommunicationScore
<1>. QED BY <1>2, ClampIs

LEMMA ContactabilityRises ==
    ASSUME NEW c, NEW d, \A i \in DOMAIN c : \E j \in DOMAIN d : d[j].type = c[i].type
    PROVE  /\ Rating!ContactabilityScore(c) \in Int /\ Rating!ContactabilityScore(d) \in Int
           /\ Rating!ContactabilityScore(c) <= Rating!ContactabilityScore(d)
<1>. DEFINE Types(e) == {e[i].type : i \in DOMAIN e}
            Score(types) == IF "email" \in types /\ "telegram" \in types THEN 100
                            ELSE IF "email" \in types THEN 85
                            ELSE IF "telegram" \in types THEN 75 ELSE 20
<1>1. \A e : Rating!ContactabilityScore(e) = Score(Types(e))
  BY DEF Rating!ContactabilityScore
<1>2. Types(c) \subseteq Types(d)
  OBVIOUS
<1>. HIDE DEF Types
<1>. QED BY <1>1, <1>2

LEMMA QualityIs ==
    ASSUME NEW c, c.confidence \in Int, NEW domain
    PROVE  /\ Rating!ContactQuality(c, domain) \in 0..100
           /\ Rating!ContactQuality(c, domain) \in Int
           /\ c.confidence >= 0 => Rating!ContactQuality(c, domain) >= 20
<1>1. Rating!DomainScore(c, domain) \in Int /\ Rating!DomainScore(c, domain) >= -12
  BY DEF Rating!DomainScore
<1>2. Rating!MailboxScore(c.local) \in Nat
  BY DEF Rating!MailboxScore
<1>3. Rating!TypeScore(c, domain) \in Int /\ Rating!TypeScore(c, domain) >= 0
  BY <1>1, <1>2 DEF Rating!TypeScore
<1>. DEFINE n == 40 + (IF c.primary THEN 20 ELSE 0) + Rating!TypeScore(c, domain) + c.confidence
<1>4. n \in Int /\ (c.confidence >= 0 => n >= 20)
  BY <1>3
<1>5. Rating!ContactQuality(c, domain) = Rating!Clamp(n)
  BY DEF Rating!ContactQuality
<1>. HIDE DEF n
<1>. QED BY <1>4, <1>5, ClampIs

\* A list that has places has one of the best quality; the best quality is that one's.
LEMMA BestIs ==
    ASSUME NEW T, NEW c \in Seq(T), c # <<>>, NEW domain, \A i \in DOMAIN c : c[i].confidence \in Int
    PROVE  \E i \in DOMAIN c :
                /\ \A j \in DOMAIN c :
                        Rating!ContactQuality(c[i], domain) >= Rating!ContactQuality(c[j], domain)
                /\ Rating!BestQuality(c, domain) = Rating!ContactQuality(c[i], domain)
<1>. DEFINE Q(i) == Rating!ContactQuality(c[i], domain)
            Qs == {Q(i) : i \in DOMAIN c}
            Short == {100 - q : q \in Qs}
<1>1. \A i \in DOMAIN c : Q(i) \in 0..100
  BY QualityIs
<1>2. Rating!BestQuality(c, domain) = Rating!Max(Qs)
  BY Zenon DEF Rating!BestQuality
<1>3. 1 \in DOMAIN c
  <2>1. Len(c) \in Nat /\ DOMAIN c = 1..Len(c) /\ Len(c) # 0
    OBVIOUS
  <2>. QED BY <2>1
<1>4. Qs \subseteq 0..100 /\ Q(1) \in Qs
  BY <1>1, <1>3
<1>5. (\A q \in Qs : \E i \in DOMAIN c : q = Q(i)) /\ \A i \in DOMAIN c : Q(i) \in Qs
  OBVIOUS
<1>. HIDE DEF Q, Qs
<1>6. Short \subseteq Nat /\ Short # {}
  <2>1. \A u \in Qs : 100 - u \in Nat
    BY <1>4
  <2>. QED BY <1>4, <2>1
<1>7. PICK m \in Short : \A s \in Short : m <= s
  <2>. HIDE DEF Short
  <2>. QED BY <1>6, LeastNatural
<1>8. PICK q \in Qs : m = 100 - q
  BY <1>7
<1>9. PICK i \in DOMAIN c : q = Q(i)
  BY <1>5
<1>10. ASSUME NEW u \in Qs PROVE q >= u
  <2>1. 100 - u \in Short
    OBVIOUS
  <2>2. m <= 100 - u
    BY <1>7, <2>1
  <2>. QED BY <1>4, <1>8, <2>2
<1>11. Rating!Max(Qs) = q
  <2>1. \A u \in Qs : (\A v \in Qs : u >= v) => u = q
    BY <1>4, <1>8, <1>10
  <2>. QED BY <1>8, <1>10, <2>1 DEF Rating!Max
<1>. QED BY <1>2, <1>5, <1>9, <1>10, <1>11 DEF Q

LEMMA AtMost ==
    ASSUME NEW x \in 0..100, NEW y \in 0..100, y >= x, NEW a, NEW b, a = x, b = y
    PROVE  a \in Int /\ b \in Int /\ a <= b
OBVIOUS

LEMMA BestQualityRises ==
    ASSUME NEW T, NEW c \in Seq(T), NEW d \in Seq(T), NEW domain, d # <<>>,
           \A i \in DOMAIN c : c[i].confidence \in Int,
           \A i \in DOMAIN d : d[i].confidence \in Int,
           \A i \in DOMAIN c : \E j \in DOMAIN d : d[j] = c[i],
           c = <<>> => \A j \in DOMAIN d : d[j].confidence >= 0
    PROVE  /\ Rating!BestQuality(c, domain) \in Int /\ Rating!BestQuality(d, domain) \in Int
           /\ Rating!BestQuality(c, domain) <= Rating!BestQuality(d, domain)
<1>1. PICK j \in DOMAIN d :
            /\ \A k \in DOMAIN d :
                    Rating!ContactQuality(d[j], domain) >= Rating!ContactQuality(d[k], domain)
            /\ Rating!BestQuality(d, domain) = Rating!ContactQuality(d[j], domain)
  BY BestIs
<1>2. Rating!ContactQuality(d[j], domain) \in 0..100
  BY QualityIs
<1>3. CASE c = <<>>
  <2>1. Rating!BestQuality(c, domain) = 20
    BY <1>3 DEF Rating!BestQuality
  <2>2. Rating!ContactQuality(d[j], domain) >= 20
    BY <1>3, QualityIs
  <2>. QED BY <1>1, <1>2, <2>1, <2>2
<1>4. CASE c # <<>>
  <2>1. PICK i \in DOMAIN c : Rating!BestQuality(c, domain) = Rating!ContactQuality(c[i], domain)
    BY <1>4, BestIs
  <2>2. PICK k \in DOMAIN d : d[k] = c[i]
    OBVIOUS
  <2>3. Rating!ContactQuality(d[k], domain) \in 0..100
    BY QualityIs
  <2>4. Rating!ContactQuality(d[k], domain) = Rating!ContactQuality(c[i], domain)
    BY <2>2, Zenon
  <2>5. Rating!ContactQuality(d[j], domain) >= Rating!ContactQuality(d[k], domain)
    BY <1>1, Zenon
  <2>6. /\ Rating!BestQuality(c, domain) = Rating!ContactQuality(d[k], domain)
        /\ Rating!BestQuality(d, domain) = Rating!ContactQuality(d[j], domain)
    BY <1>1, <2>1, <2>4, Zenon
  <2>. QED BY <1>2, <2>3, <2>5, <2>6, AtMost, Zenon
<1>. QED BY <1>3, <1>4

\* The contact that messages go to: the order is total, so that there is a first.
LEMMA BestContactIsBest ==
    ASSUME NEW T, NEW c \in Seq(T), c # <<>>, NEW domain,
           \A i \in DOMAIN c : c[i].confidence \in Int /\ c[i].value \in Nat
    PROVE  Rating!ContactQuality(c[Rating!BestContact(c, domain)], domain)
                = Rating!BestQuality(c, domain)
<1>. DEFINE Q(i) == Rating!ContactQuality(c[i], domain)
<1>1. PICK b \in DOMAIN c :
            /\ \A j \in DOMAIN c : Q(b) >= Q(j)
            /\ Rating!BestQuality(c, domain) = Q(b)
  BY BestIs
<1>2. DOMAIN c \subseteq Nat /\ \A i \in DOMAIN c : Q(i) \in Int /\ c[i].value \in Nat
  <2>1. DOMAIN c = 1..Len(c) /\ Len(c) \in Nat
    OBVIOUS
  <2>2. \A i \in DOMAIN c : Q(i) \in Int
    BY QualityIs, Zenon
  <2>. HIDE DEF Q
  <2>3. DOMAIN c \subseteq Nat
    BY <2>1
  <2>. QED BY <2>2, <2>3, Zenon
<1>. DEFINE Values == {c[i].value : i \in {k \in DOMAIN c : Q(k) = Q(b)}}
<1>3. PICK v \in Values : \A w \in Values : v <= w
  <2>1. Values \subseteq Nat /\ c[b].value \in Values
    BY <1>2
  <2>. HIDE DEF Values
  <2>. QED BY <2>1, LeastNatural
<1>. DEFINE Places == {k \in DOMAIN c : Q(k) = Q(b) /\ c[k].value = v}
<1>4. PICK i \in Places : \A k \in Places : i <= k
  <2>1. Places \subseteq Nat /\ Places # {}
    BY <1>2, <1>3
  <2>. HIDE DEF Places
  <2>. QED BY <2>1, LeastNatural
<1>. DEFINE First(k) == \A j \in DOMAIN c : Rating!RanksBefore(c, k, j, domain)
<1>. HIDE DEF Q
<1>5. \A j, k \in DOMAIN c : Rating!RanksBefore(c, k, j, domain) <=>
            \/ Q(k) > Q(j)
            \/ Q(k) = Q(j) /\ c[k].value < c[j].value
            \/ Q(k) = Q(j) /\ c[k].value = c[j].value /\ k <= j
  BY DEF Rating!RanksBefore, Q
<1>6. i \in DOMAIN c /\ Q(i) = Q(b) /\ c[i].value = v
  OBVIOUS
<1>7. ASSUME NEW j \in DOMAIN c PROVE Rating!RanksBefore(c, i, j, domain)
  <2>1. CASE Q(j) # Q(b)
    BY <1>1, <1>2, <1>5, <1>6, <2>1
  <2>2. CASE Q(j) = Q(b) /\ c[j].value # v
    <3>1. v <= c[j].value
      BY <1>3, <2>2
    <3>2. v \in Nat
      BY <1>2
    <3>. QED BY <1>2, <1>5, <1>6, <2>2, <3>1, <3>2
  <2>3. CASE Q(j) = Q(b) /\ c[j].value = v
    BY <1>4, <1>5, <1>6, <2>3
  <2>. QED BY <2>1, <2>2, <2>3
<1>. DEFINE k == Rating!BestContact(c, domain)
<1>8. k \in DOMAIN c /\ First(k)
  <2>1. \E n \in DOMAIN c : First(n)
    BY <1>6, <1>7
  <2>2. k = CHOOSE n \in DOMAIN c : First(n)
    BY Zenon DEF Rating!BestContact
  <2>. HIDE DEF First, k
  <2>. QED BY <2>1, <2>2
<1>. HIDE DEF k
<1>9. Q(k) >= Q(b)
  <2>1. Rating!RanksBefore(c, k, b, domain)
    BY <1>8
  <2>. QED BY <1>2, <1>5, <1>8, <2>1
<1>10. Q(k) = Q(b)
  BY <1>1, <1>2, <1>8, <1>9
<1>. QED BY <1>1, <1>10 DEF Q, k

\* The sum of a rating's parts.
Total(r, source) ==
    Max(Rating!Overall(45, r.contact, r.quality, r.response, r.communication, r.completeness,
                       source))

\* What of the sum the conversation decides, in hundredths of a point.
Weighted(a, b, c, d, e) == 15 * (a + b + c + d) + 10 * e

Parts(r) == Weighted(r.contact, r.quality, r.response, r.communication, r.completeness)

HasScores(r) ==
    /\ r.contact \in Int /\ r.quality \in Int /\ r.response \in Int
    /\ r.communication \in Int /\ r.completeness \in Int

LEMMA TotalIs ==
    ASSUME NEW r, HasScores(r), NEW source \in Int
    PROVE  /\ Parts(r) \in Int
           /\ Total(r, source) = Max(Rating!Roundings(25 * 45 + Parts(r) + 5 * source, 100))
<1>. DEFINE a == r.contact  b == r.quality  c == r.response
            d == r.communication  e == r.completeness
            n == 25 * 45 + 15 * (a + b + c + d) + 10 * e + 5 * source
<1>1. a \in Int /\ b \in Int /\ c \in Int /\ d \in Int /\ e \in Int
  BY Zenon DEF HasScores
<1>2. Parts(r) = Weighted(a, b, c, d, e) /\ Total(r, source) = Max(Rating!Roundings(n, 100))
  BY Zenon DEF Parts, Total, Rating!Overall
<1>. HIDE DEF a, b, c, d, e
<1>3. Weighted(a, b, c, d, e) \in Int /\ n = 25 * 45 + Weighted(a, b, c, d, e) + 5 * source
  BY <1>1 DEF Weighted
<1>. HIDE DEF n
<1>. QED BY <1>2, <1>3, Zenon

LEMMA TotalFollows ==
    ASSUME NEW r, NEW q, NEW source \in Int, NEW loss \in {0, 15},
           HasScores(r), HasScores(q), Parts(r) <= Parts(q) + 100 * loss
    PROVE  /\ Total(r, source) \in Int /\ Total(q, source) \in Int
           /\ Total(r, source) <= Total(q, source) + loss
<1>. DEFINE n == 25 * 45 + Parts(r) + 5 * source
            m == 25 * 45 + Parts(q) + 5 * source
<1>0. Parts(r) \in Int /\ Parts(q) \in Int
  BY TotalIs, Zenon
<1>1. n \in Int /\ m \in Int /\ n <= m + 100 * loss
  BY <1>0
<1>2. Total(r, source) = Max(Rating!Roundings(n, 100))
      /\ Total(q, source) = Max(Rating!Roundings(m, 100))
  BY TotalIs, Zenon
<1>. HIDE DEF n, m
<1>3. Total(r, source) = Most(n, 100) /\ Total(q, source) = Most(m, 100)
  <2>1. 100 \in {8, 100}
    OBVIOUS
  <2>. QED BY <1>1, <1>2, <2>1, MostIs, Zenon
<1>4. /\ Most(n, 100) \in Int /\ Most(m, 100) \in Int
      /\ Most(n, 100) <= Most(m, 100) + loss
  <2>1. CASE loss = 0
    BY <1>1, <2>1 DEF Most
  <2>2. CASE loss = 15
    BY <1>1, <2>2 DEF Most
  <2>. QED BY <2>1, <2>2
<1>. QED BY <1>3, <1>4

\* A list of contacts that has those of another, and is not the worse for what it has more.
HasContactsOf(list, contacts) ==
    /\ \A i \in DOMAIN list : list[i].confidence \in Int
    /\ \A i \in DOMAIN contacts : \E j \in DOMAIN list : list[j] = contacts[i]
    /\ contacts = <<>> => \A j \in DOMAIN list : list[j].confidence >= 0
    /\ list = <<>> => contacts = <<>>

LEMMA OneMoreContact ==
    ASSUME NEW T, NEW contacts \in Seq(T), NEW new \in T, new.confidence \in Nat,
           \A i \in DOMAIN contacts : contacts[i].confidence \in Int
    PROVE  /\ Append(contacts, new) \in Seq(T)
           /\ HasContactsOf(Append(contacts, new), contacts)
<1>. DEFINE list == Append(contacts, new)
            n == Len(contacts)
<1>1. /\ n \in Nat /\ DOMAIN contacts = 1..n /\ list \in Seq(T) /\ DOMAIN list = 1..(n + 1)
      /\ list[n + 1] = new /\ \A i \in 1..n : list[i] = contacts[i]
  OBVIOUS
<1>2. list # <<>>
  OBVIOUS
<1>3. contacts = <<>> => n = 0
  OBVIOUS
<1>. HIDE DEF list, n
<1>4. \A j \in 1..(n + 1) : j = n + 1 \/ j \in 1..n
  BY <1>1
<1>5. \A j \in DOMAIN list : list[j].confidence \in Int
  BY <1>1, <1>4
<1>6. contacts = <<>> => \A j \in DOMAIN list : list[j].confidence >= 0
  <2>1. n = 0 => 1..n = {}
    OBVIOUS
  <2>. QED BY <1>1, <1>3, <1>4, <2>1
<1>7. \A i \in DOMAIN contacts : i \in DOMAIN list /\ list[i] = contacts[i]
  BY <1>1
<1>. QED BY <1>1, <1>2, <1>5, <1>6, <1>7, Zenon DEF HasContactsOf, list

LEMMA ContactsRise ==
    ASSUME NEW T, NEW c \in Seq(T), NEW d \in Seq(T), HasContactsOf(d, c), NEW domain,
           \A i \in DOMAIN c : c[i].confidence \in Int
    PROVE  /\ Rating!ContactabilityScore(c) \in Int /\ Rating!ContactabilityScore(d) \in Int
           /\ Rating!ContactabilityScore(c) <= Rating!ContactabilityScore(d)
           /\ Rating!BestQuality(c, domain) \in Int /\ Rating!BestQuality(d, domain) \in Int
           /\ Rating!BestQuality(c, domain) <= Rating!BestQuality(d, domain)
<1>1. \A i \in DOMAIN c : \E j \in DOMAIN d : d[j].type = c[i].type
  BY DEF HasContactsOf
<1>2. CASE d = <<>>
  <2>1. c = <<>>
    BY <1>2 DEF HasContactsOf
  <2>2. Rating!BestQuality(<<>>, domain) = 20
    BY DEF Rating!BestQuality
  <2>. QED BY <1>1, <1>2, <2>1, <2>2, ContactabilityRises
<1>3. CASE d # <<>>
  <2>1. /\ Rating!BestQuality(c, domain) \in Int /\ Rating!BestQuality(d, domain) \in Int
        /\ Rating!BestQuality(c, domain) <= Rating!BestQuality(d, domain)
    BY <1>3, BestQualityRises, Zenon DEF HasContactsOf
  <2>2. /\ Rating!ContactabilityScore(c) \in Int /\ Rating!ContactabilityScore(d) \in Int
        /\ Rating!ContactabilityScore(c) <= Rating!ContactabilityScore(d)
    BY <1>1, ContactabilityRises
  <2>. QED BY <2>1, <2>2
<1>. QED BY <1>2, <1>3

\* One conversation after another: nothing is lost of it.
HasNewsOf(d, c) ==
    /\ \/ d.contacts = c.contacts
       \/ \E new \in NewContacts : d.contacts = Append(c.contacts, new)
    /\ d.inbound \in Nat /\ c.inbound <= d.inbound
    /\ d.outbound \in Nat /\ c.outbound <= d.outbound
    /\ d.facts = c.facts /\ d.scheme = c.scheme /\ d.analysed = c.analysed
    /\ "responded" \in c.statuses => "responded" \in d.statuses
    /\ "sent" \in c.statuses => d.statuses \cap {"sent", "responded"} # {}
    /\ c.statuses \cap Active # {} => d.statuses \cap (Active \cup {"sent", "responded"}) # {}
    /\ \/ d.statuses = c.statuses
       \/ d.statuses \cap (Active \cup {"sent", "responded"}) # {}

LEMMA NewsOfContacts ==
    ASSUME NEW c \in Conversations, NEW d, HasNewsOf(d, c)
    PROVE  \E T : /\ c.contacts \in Seq(T) /\ d.contacts \in Seq(T)
                  /\ HasContactsOf(d.contacts, c.contacts)
                  /\ \A i \in DOMAIN c.contacts : c.contacts[i].confidence \in Int
<1>. DEFINE kept == c.contacts
            T == ToSet(kept) \cup NewContacts
<1>1. kept \in Seq(ToSet(kept)) /\ \A i \in DOMAIN kept : kept[i].confidence \in Int
  BY ConversationsAssumption
<1>2. NewContacts \subseteq T /\ \A new \in NewContacts : new.confidence \in Nat
  BY ConversationsAssumption
<1>3. kept \in Seq(T)
  BY <1>1
<1>. HIDE DEF kept, T
<1>4. CASE d.contacts = kept
  <2>1. kept = <<>> => DOMAIN kept = {}
    OBVIOUS
  <2>2. HasContactsOf(kept, kept)
    BY <1>1, <2>1 DEF HasContactsOf
  <2>. QED BY <1>1, <1>3, <1>4, <2>2 DEF kept
<1>5. ASSUME NEW new \in NewContacts, d.contacts = Append(kept, new)
      PROVE  d.contacts \in Seq(T) /\ HasContactsOf(d.contacts, kept)
  <2>1. new \in T /\ new.confidence \in Nat
    BY <1>2
  <2>2. Append(kept, new) \in Seq(T) /\ HasContactsOf(Append(kept, new), kept)
    BY <1>1, <1>3, <2>1, OneMoreContact, Zenon
  <2>. QED BY <1>5, <2>2, Zenon
<1>6. d.contacts = kept \/ \E new \in NewContacts : d.contacts = Append(kept, new)
  BY DEF HasNewsOf, kept
<1>. QED BY <1>1, <1>3, <1>4, <1>5, <1>6 DEF kept

LEMMA FactsRise ==
    ASSUME NEW c \in Conversations, NEW d, HasNewsOf(d, c)
    PROVE  LET Facts(e) == e.facts + IF e.contacts = <<>> THEN 0 ELSE 1
           IN  /\ Max(Rating!CompletenessScores(Facts(c))) \in Int
               /\ Max(Rating!CompletenessScores(Facts(d))) \in Int
               /\ Max(Rating!CompletenessScores(Facts(c))) <= Max(Rating!CompletenessScores(Facts(d)))
<1>. DEFINE Facts(e) == e.facts + IF e.contacts = <<>> THEN 0 ELSE 1
<1>1. c.facts \in Nat /\ d.facts = c.facts
  BY ConversationsAssumption DEF HasNewsOf
<1>2. d.contacts = <<>> => c.contacts = <<>>
  BY NewsOfContacts DEF HasContactsOf
<1>3. Facts(c) \in Int /\ Facts(d) \in Int /\ 100 * Facts(c) \in Int /\ 100 * Facts(d) \in Int
      /\ 100 * Facts(c) <= 100 * Facts(d)
  BY <1>1, <1>2
<1>. HIDE DEF Facts
<1>4. /\ Rating!CompletenessScores(Facts(c)) = Rating!Roundings(100 * Facts(c), 8)
      /\ Rating!CompletenessScores(Facts(d)) = Rating!Roundings(100 * Facts(d), 8)
  BY Zenon DEF Rating!CompletenessScores
<1>5. 8 \in {8, 100}
  OBVIOUS
<1>6. /\ Max(Rating!Roundings(100 * Facts(c), 8)) \in Int
      /\ Max(Rating!Roundings(100 * Facts(d), 8)) \in Int
      /\ Max(Rating!Roundings(100 * Facts(c), 8)) <= Max(Rating!Roundings(100 * Facts(d), 8))
  BY <1>3, <1>5, MostRises, ZenonT(30)
<1>. QED BY <1>4, <1>6, Zenon DEF Facts

\* A rating is its parts and the sum of them.
LEMMA RatingIs ==
    ASSUME NEW c
    PROVE  LET r == RatingOf(c)
           IN  /\ DOMAIN r = {"contact", "quality", "response", "communication", "completeness",
                              "overall"}
               /\ r.contact = Rating!ContactabilityScore(c.contacts)
               /\ r.quality = Rating!BestQuality(c.contacts, "maker.com")
               /\ r.response = Rating!ResponseScore(c.statuses, c.inbound)
               /\ r.communication =
                        Rating!CommunicationScore(c.analysed, c.inbound, c.outbound)
               /\ r.completeness =
                        Max(Rating!CompletenessScores(c.facts + IF c.contacts = <<>> THEN 0 ELSE 1))
               /\ r.overall = Total(r, Rating!TraceabilityScore(c.scheme, TRUE))
BY DEF RatingOf, Total

\* All of a rating but the communication score, and so all that no analysis decides.
LEMMA OtherMetricsRise ==
    ASSUME NEW c \in Conversations, NEW d, HasNewsOf(d, c)
    PROVE  LET r == RatingOf(c)
               q == RatingOf(d)
           IN  /\ r.contact \in Int /\ q.contact \in Int /\ r.contact <= q.contact
               /\ r.quality \in Int /\ q.quality \in Int /\ r.quality <= q.quality
               /\ r.response \in Int /\ q.response \in Int /\ r.response <= q.response
               /\ r.completeness \in Int /\ q.completeness \in Int
               /\ r.completeness <= q.completeness
<1>. DEFINE r == RatingOf(c)
            q == RatingOf(d)
<1>1. /\ r.contact \in Int /\ q.contact \in Int /\ r.contact <= q.contact
      /\ r.quality \in Int /\ q.quality \in Int /\ r.quality <= q.quality
  <2>1. PICK T : /\ c.contacts \in Seq(T) /\ d.contacts \in Seq(T)
                 /\ HasContactsOf(d.contacts, c.contacts)
                 /\ \A i \in DOMAIN c.contacts : c.contacts[i].confidence \in Int
    BY NewsOfContacts, Zenon
  <2>2. /\ Rating!ContactabilityScore(c.contacts) \in Int
        /\ Rating!ContactabilityScore(d.contacts) \in Int
        /\ Rating!ContactabilityScore(c.contacts) <= Rating!ContactabilityScore(d.contacts)
        /\ Rating!BestQuality(c.contacts, "maker.com") \in Int
        /\ Rating!BestQuality(d.contacts, "maker.com") \in Int
        /\ Rating!BestQuality(c.contacts, "maker.com") <= Rating!BestQuality(d.contacts, "maker.com")
    BY <2>1, ContactsRise
  <2>. QED BY <2>2, RatingIs, Zenon
<1>2. c.inbound \in Nat
  BY ConversationsAssumption
<1>3. r.response \in Int /\ q.response \in Int /\ r.response <= q.response
  <2>1. /\ Rating!ResponseScore(c.statuses, c.inbound) \in Int
        /\ Rating!ResponseScore(d.statuses, d.inbound) \in Int
        /\ Rating!ResponseScore(c.statuses, c.inbound) <= Rating!ResponseScore(d.statuses, d.inbound)
    BY <1>2, ResponseRises, Zenon DEF HasNewsOf
  <2>. QED BY <2>1, RatingIs, Zenon
<1>4. r.completeness \in Int /\ q.completeness \in Int /\ r.completeness <= q.completeness
  BY FactsRise, RatingIs, Zenon
<1>. QED BY <1>1, <1>3, <1>4, Zenon

Metrics == {"contact", "quality", "response", "communication", "completeness", "overall"}

LEMMA RatingRises ==
    ASSUME NEW c \in Conversations, NEW d, HasNewsOf(d, c), NEW metric \in DOMAIN RatingOf(c)
    PROVE  RatingOf(d)[metric] >= RatingOf(c)[metric]
<1>. DEFINE r == RatingOf(c)
            q == RatingOf(d)
            t == Rating!TraceabilityScore(c.scheme, TRUE)
<1>1. /\ r.contact \in Int /\ q.contact \in Int /\ r.contact <= q.contact
      /\ r.quality \in Int /\ q.quality \in Int /\ r.quality <= q.quality
      /\ r.response \in Int /\ q.response \in Int /\ r.response <= q.response
      /\ r.completeness \in Int /\ q.completeness \in Int /\ r.completeness <= q.completeness
  BY OtherMetricsRise
<1>2. c.inbound \in Nat /\ c.outbound \in Nat /\ c.analysed \in Int
  BY ConversationsAssumption
<1>3. r.communication \in Int /\ q.communication \in Int /\ r.communication <= q.communication
  <2>1. d.analysed = c.analysed /\ d.inbound \in Nat /\ d.outbound \in Nat
        /\ c.inbound <= d.inbound /\ c.outbound <= d.outbound
    BY DEF HasNewsOf
  <2>2. /\ Rating!CommunicationScore(c.analysed, c.inbound, c.outbound) \in 0..100
        /\ Rating!CommunicationScore(d.analysed, d.inbound, d.outbound) \in 0..100
        /\ Rating!CommunicationScore(c.analysed, c.inbound, c.outbound)
                <= Rating!CommunicationScore(d.analysed, d.inbound, d.outbound)
    <3>. DEFINE before == Rating!CommunicationScore(c.analysed, c.inbound, c.outbound)
                after == Rating!CommunicationScore(c.analysed, d.inbound, d.outbound)
    <3>1. before \in 0..100
      BY <1>2, <2>1, CommunicationRises, Zenon
    <3>2. after \in 0..100
      BY <1>2, <2>1, CommunicationRises, Zenon
    <3>3. before <= after
      BY <1>2, <2>1, CommunicationRises, Zenon
    <3>. QED BY <2>1, <3>1, <3>2, <3>3, Zenon
  <2>3. /\ r.communication = Rating!CommunicationScore(c.analysed, c.inbound, c.outbound)
        /\ q.communication = Rating!CommunicationScore(d.analysed, d.inbound, d.outbound)
    BY RatingIs, Zenon
  <2>. HIDE DEF r, q
  <2>. QED BY <2>2, <2>3
<1>4. t \in Int /\ d.scheme = c.scheme
  BY DEF Rating!TraceabilityScore, HasNewsOf
<1>5. r.overall = Total(r, t) /\ q.overall = Total(q, t)
  BY <1>4, RatingIs, Zenon
<1>6. metric \in Metrics
  BY RatingIs, Zenon DEF Metrics
<1>. HIDE DEF r, q, t
<1>7. HasScores(r) /\ HasScores(q) /\ Parts(r) <= Parts(q) + 100 * 0
  <2>1. HasScores(r) /\ HasScores(q)
    BY <1>1, <1>3, Zenon DEF HasScores
  <2>2. Parts(r) <= Parts(q) + 100 * 0
    <3>. DEFINE a == r.contact  b == r.quality  e == r.response
                u == r.communication  v == r.completeness
                A == q.contact  B == q.quality  E == q.response
                U == q.communication  V == q.completeness
    <3>1. /\ a \in Int /\ b \in Int /\ e \in Int /\ u \in Int /\ v \in Int
          /\ A \in Int /\ B \in Int /\ E \in Int /\ U \in Int /\ V \in Int
          /\ a <= A /\ b <= B /\ e <= E /\ u <= U /\ v <= V
      BY <1>1, <1>3, Zenon
    <3>2. Parts(r) = Weighted(a, b, e, u, v) /\ Parts(q) = Weighted(A, B, E, U, V)
      BY Zenon DEF Parts
    <3>. HIDE DEF a, b, e, u, v, A, B, E, U, V
    <3>3. Weighted(a, b, e, u, v) <= Weighted(A, B, E, U, V) + 100 * 0
      BY <3>1 DEF Weighted
    <3>. QED BY <3>2, <3>3, Zenon
  <2>. QED BY <2>1, <2>2
<1>8. Total(r, t) \in Int /\ Total(q, t) \in Int /\ Total(r, t) <= Total(q, t) + 0
  <2>1. 0 \in {0, 15}
    OBVIOUS
  <2>. QED BY <1>4, <1>7, <2>1, TotalFollows, Zenon
<1>9. r.overall \in Int /\ q.overall \in Int /\ r.overall <= q.overall
  BY <1>5, <1>8
<1>10. q[metric] >= r[metric]
  BY <1>1, <1>3, <1>6, <1>9 DEF Metrics
<1>. QED BY <1>10 DEF q, r

(***************************************************************************)
(* An analysed reply.  It is news that changes the communication score to  *)
(* what was found, after which the sum follows that score and the response *)
(* score, which is full then.                                              *)
(***************************************************************************)
Listened(c) == [c EXCEPT !.inbound = @ + 1]

LEMMA ListenedIsNews ==
    ASSUME NEW c \in Conversations
    PROVE  HasNewsOf(Listened(c), c)
<1>1. /\ DOMAIN c = {"contacts", "statuses", "inbound", "outbound", "analysed", "facts", "scheme"}
      /\ c.inbound \in Nat /\ c.outbound \in Nat
  BY ConversationsAssumption
<1>. QED BY <1>1 DEF Listened, HasNewsOf, Active

\* Ratings that differ in communication and in the sum at most.
AlikeButCommunication(q, l) ==
    /\ q.contact = l.contact /\ q.quality = l.quality /\ q.response = l.response
    /\ q.completeness = l.completeness

FollowsScore(q, c, score) ==
    /\ q.communication = score /\ q.response = 100
    /\ q.overall = Total(q, Rating!TraceabilityScore(c.scheme, TRUE))

LEMMA HeardIs ==
    ASSUME NEW c \in Conversations, NEW score \in 0..100
    PROVE  /\ AlikeButCommunication(RatingOf(Heard(c, score)), RatingOf(Listened(c)))
           /\ FollowsScore(RatingOf(Heard(c, score)), c, score)
<1>. DEFINE h == Heard(c, score)
            d == Listened(c)
            q == RatingOf(h)
            l == RatingOf(d)
<1>1. /\ DOMAIN c = {"contacts", "statuses", "inbound", "outbound", "analysed", "facts", "scheme"}
      /\ c.inbound \in Nat
  BY ConversationsAssumption
<1>2. /\ h.contacts = d.contacts /\ h.statuses = d.statuses /\ h.inbound = d.inbound
      /\ h.facts = d.facts /\ h.scheme = c.scheme /\ h.analysed = score
      /\ h.inbound \in Nat /\ h.inbound > 0
  BY <1>1 DEF Heard, Listened
<1>. HIDE DEF h, d
<1>3. Rating!ResponseScore(h.statuses, h.inbound) = 100
  BY <1>2 DEF Rating!ResponseScore
<1>4. Rating!CommunicationScore(score, h.inbound, h.outbound) = score
  BY CommunicationIsAnalysed, Zenon
<1>5. AlikeButCommunication(q, l) /\ FollowsScore(q, c, score)
      => /\ AlikeButCommunication(RatingOf(Heard(c, score)), RatingOf(Listened(c)))
         /\ FollowsScore(RatingOf(Heard(c, score)), c, score)
  BY Zenon DEF h, d
<1>6. /\ q.contact = Rating!ContactabilityScore(h.contacts)
      /\ q.quality = Rating!BestQuality(h.contacts, "maker.com")
      /\ q.response = Rating!ResponseScore(h.statuses, h.inbound)
      /\ q.communication = Rating!CommunicationScore(h.analysed, h.inbound, h.outbound)
      /\ q.completeness = Max(Rating!CompletenessScores(h.facts + IF h.contacts = <<>> THEN 0 ELSE 1))
      /\ q.overall = Total(q, Rating!TraceabilityScore(h.scheme, TRUE))
  BY RatingIs, Zenon
<1>7. /\ l.contact = Rating!ContactabilityScore(d.contacts)
      /\ l.quality = Rating!BestQuality(d.contacts, "maker.com")
      /\ l.response = Rating!ResponseScore(d.statuses, d.inbound)
      /\ l.completeness = Max(Rating!CompletenessScores(d.facts + IF d.contacts = <<>> THEN 0 ELSE 1))
  BY RatingIs, Zenon
<1>. HIDE DEF q, l
<1>8. q.contact = l.contact /\ q.quality = l.quality
  BY <1>2, <1>6, <1>7, Zenon
<1>9. q.response = l.response /\ q.response = 100
  BY <1>2, <1>3, <1>6, <1>7, Zenon
<1>10. q.completeness = l.completeness
  BY <1>2, <1>6, <1>7, Zenon
<1>11. q.communication = score /\ q.overall = Total(q, Rating!TraceabilityScore(c.scheme, TRUE))
  BY <1>2, <1>4, <1>6, Zenon
<1>12. AlikeButCommunication(q, l) /\ FollowsScore(q, c, score)
  BY <1>8, <1>9, <1>10, <1>11, Zenon DEF AlikeButCommunication, FollowsScore
<1>. QED BY <1>5, <1>12, Zenon

LEMMA HeardCosts ==
    ASSUME NEW c \in Conversations, NEW score \in 0..100
    PROVE  LET r == RatingOf(c)
               q == RatingOf(Heard(c, score))
           IN  /\ \A metric \in DOMAIN r \ {"communication", "overall"} : q[metric] >= r[metric]
               /\ q.overall + 15 >= r.overall
               /\ q.communication >= r.communication => q.overall >= r.overall
               /\ c.inbound = 0 /\ score >= 35 => q.overall >= r.overall
<1>. DEFINE r == RatingOf(c)
            q == RatingOf(Heard(c, score))
            t == Rating!TraceabilityScore(c.scheme, TRUE)
<1>1. /\ r.contact \in Int /\ q.contact \in Int /\ r.contact <= q.contact
      /\ r.quality \in Int /\ q.quality \in Int /\ r.quality <= q.quality
      /\ r.response \in Int /\ r.response <= q.response
      /\ r.completeness \in Int /\ q.completeness \in Int /\ r.completeness <= q.completeness
  <2>1. HasNewsOf(Listened(c), c)
    BY ListenedIsNews
  <2>. DEFINE l == RatingOf(Listened(c))
  <2>2. /\ r.contact \in Int /\ l.contact \in Int /\ r.contact <= l.contact
        /\ r.quality \in Int /\ l.quality \in Int /\ r.quality <= l.quality
        /\ r.response \in Int /\ l.response \in Int /\ r.response <= l.response
        /\ r.completeness \in Int /\ l.completeness \in Int /\ r.completeness <= l.completeness
    BY <2>1, OtherMetricsRise, Zenon
  <2>3. /\ q.contact = l.contact /\ q.quality = l.quality /\ q.response = l.response
        /\ q.completeness = l.completeness
    <3>1. AlikeButCommunication(q, l)
      BY HeardIs, Zenon
    <3>. HIDE DEF q, l
    <3>. QED BY <3>1, Zenon DEF AlikeButCommunication
  <2>. HIDE DEF r, q, l
  <2>. QED BY <2>2, <2>3, Zenon
<1>2. q.response = 100 /\ q.communication = score /\ q.overall = Total(q, t)
  <2>1. FollowsScore(q, c, score)
    BY HeardIs, Zenon
  <2>. HIDE DEF q
  <2>. QED BY <2>1, Zenon DEF FollowsScore
<1>3. /\ c.inbound \in Nat /\ c.outbound \in Nat /\ c.analysed \in Int
      /\ c.inbound = 0 => c.analysed = Rating!NoValue
  BY ConversationsAssumption
<1>4. r.communication = Rating!CommunicationScore(c.analysed, c.inbound, c.outbound)
      /\ r.response = Rating!ResponseScore(c.statuses, c.inbound)
      /\ r.overall = Total(r, t)
  BY RatingIs, Zenon
<1>5. r.communication \in 0..100
  <2>1. c.inbound <= c.inbound /\ c.outbound <= c.outbound
    BY <1>3
  <2>2. Rating!CommunicationScore(c.analysed, c.inbound, c.outbound) \in 0..100
    BY <1>3, <2>1, CommunicationRises, Zenon
  <2>. QED BY <1>4, <2>2, Zenon
<1>6. c.inbound = 0 => r.communication = 40 /\ r.response <= 95
  <2>. SUFFICES ASSUME c.inbound = 0 PROVE r.communication = 40 /\ r.response <= 95
    OBVIOUS
  <2>1. Rating!CommunicationScore(Rating!NoValue, 0, c.outbound) = 40
    BY DEF Rating!CommunicationScore
  <2>2. Rating!ResponseScore(c.statuses, 0) <= 95
    BY DEF Rating!ResponseScore
  <2>. QED BY <1>3, <1>4, <2>1, <2>2, Zenon
<1>7. t \in Int
  BY DEF Rating!TraceabilityScore
<1>8. DOMAIN r = Metrics
  BY RatingIs, Zenon DEF Metrics
<1>. HIDE DEF r, q, t
<1>9. HasScores(r) /\ HasScores(q)
  BY <1>1, <1>2, <1>5 DEF HasScores
<1>10. /\ Parts(r) <= Parts(q) + 100 * 15
       /\ q.communication >= r.communication => Parts(r) <= Parts(q) + 100 * 0
       /\ c.inbound = 0 /\ score >= 35 => Parts(r) <= Parts(q) + 100 * 0
  <2>1. r.response \in Int /\ r.communication \in 0..100 /\ r.response <= q.response
        /\ q.response = 100 /\ q.communication \in 0..100
    BY <1>1, <1>2, <1>5
  <2>2. c.inbound = 0 /\ score >= 35 =>
            r.communication = 40 /\ r.response <= 95 /\ q.communication >= 35
    BY <1>2, <1>6
  <2>3. /\ Parts(r) <= Parts(q) + 100 * 15
        /\ q.communication >= r.communication => Parts(r) <= Parts(q) + 100 * 0
        /\ r.communication = 40 /\ r.response <= 95 /\ q.communication >= 35
            => Parts(r) <= Parts(q) + 100 * 0
    <3>. DEFINE a == r.contact  b == r.quality  e == r.response
                u == r.communication  v == r.completeness
                A == q.contact  B == q.quality  E == q.response
                U == q.communication  V == q.completeness
                lower == Weighted(a, b, e, u, v)
                upper == Weighted(A, B, E, U, V)
    <3>1. /\ a \in Int /\ b \in Int /\ e \in Int /\ u \in 0..100 /\ v \in Int
          /\ A \in Int /\ B \in Int /\ E = 100 /\ U \in 0..100 /\ V \in Int
          /\ a <= A /\ b <= B /\ e <= E /\ v <= V
      BY <1>1, <2>1, Zenon
    <3>2. Parts(r) = lower /\ Parts(q) = upper
      BY Zenon DEF Parts
    <3>3. /\ lower <= upper + 100 * 15
          /\ U >= u => lower <= upper + 100 * 0
          /\ u = 40 /\ e <= 95 /\ U >= 35 => lower <= upper + 100 * 0
      <4>. HIDE DEF a, b, e, u, v, A, B, E, U, V
      <4>. QED BY <3>1 DEF Weighted
    <3>. QED BY <3>2, <3>3, Zenon
  <2>. QED BY <2>2, <2>3, Zenon
<1>11. /\ Total(r, t) \in Int /\ Total(q, t) \in Int /\ Total(r, t) <= Total(q, t) + 15
       /\ Parts(r) <= Parts(q) + 100 * 0 => Total(r, t) <= Total(q, t) + 0
  <2>1. 0 \in {0, 15} /\ 15 \in {0, 15}
    OBVIOUS
  <2>. QED BY <1>7, <1>9, <1>10, <2>1, TotalFollows, Zenon
<1>12. /\ q.overall + 15 >= r.overall
       /\ q.communication >= r.communication => q.overall >= r.overall
       /\ c.inbound = 0 /\ score >= 35 => q.overall >= r.overall
  BY <1>2, <1>4, <1>10, <1>11
<1>13. \A metric \in DOMAIN r \ {"communication", "overall"} : q[metric] >= r[metric]
  BY <1>1, <1>2, <1>8 DEF Metrics
<1>. QED BY <1>12, <1>13 DEF r, q

\* What an analysis puts on the product is a percentage, and the heuristic puts no less than 35.
LEMMA ScoresAre ==
    /\ \A score \in AnalysedScores : score \in 0..100
    /\ \A score \in HeuristicScores : score \in 0..100 /\ score >= 35
<1>1. ASSUME NEW score \in AnalysedScores PROVE score \in 0..100
  <2>1. PICK r \in Replies : score = Agent!Analysis(r.text, r.model).score
    BY DEF AnalysedScores
  <2>. QED BY <2>1, AnalysisBounded, Zenon
<1>2. ASSUME NEW score \in HeuristicScores PROVE score \in 0..100 /\ score >= 35
  <2>1. PICK r \in Replies : score = Agent!HeuristicAnalysis(r.text).score
    BY DEF HeuristicScores
  <2>2. score \in 35..100
    BY <2>1, HeuristicBounded, Zenon
  <2>. QED BY <2>2
<1>. QED BY <1>1, <1>2

LEMMA StatusesMove ==
    ASSUME NEW s, NEW m \in AttemptMoves, m[1] \in s, m[2] \notin {"failed", "cancelled"},
           NEW t, t = (s \ {m[1]}) \cup {m[2]}
    PROVE  /\ "responded" \in s => "responded" \in t
           /\ "sent" \in s => t \cap {"sent", "responded"} # {}
           /\ t \cap (Active \cup {"sent", "responded"}) # {}
<1>1. m \in {<<"queued", "running">>, <<"running", "sent">>, <<"running", "responded">>,
             <<"sent", "responded">>}
  BY DEF AttemptMoves, CommonMoves
<1>2. CASE m = <<"queued", "running">>
  BY <1>2 DEF Active
<1>3. CASE m = <<"running", "sent">>
  BY <1>3
<1>4. CASE m = <<"running", "responded">>
  BY <1>4
<1>5. CASE m = <<"sent", "responded">>
  BY <1>5
<1>. QED BY <1>1, <1>2, <1>3, <1>4, <1>5

(***************************************************************************)
(* News costs points by the analysis of a reply alone, at most 15 of them, *)
(* and none with a first reply that the heuristic judged; and the contact  *)
(* that messages go to is the one whose quality is shown.                  *)
(***************************************************************************)
THEOREM NewsCostsLittle == Spec => []NewsCostsByAnalysisOnly
<1>1. ASSUME Answered PROVE NewsCostsByAnalysisOnly
  <2>. DEFINE c == call.conversation
              moved == {[c EXCEPT !.statuses = (@ \ {move[1]}) \cup {move[2]}] :
                            move \in {m \in AttemptMoves : m[1] \in c.statuses
                                                           /\ m[2] \notin {"failed", "cancelled"}}}
              grown == {[c EXCEPT !.statuses = @ \cup {"queued"}], [c EXCEPT !.inbound = @ + 1],
                        [c EXCEPT !.outbound = @ + 1]}
                            \cup {[c EXCEPT !.contacts = Append(@, new)] : new \in NewContacts}
  <2>. SUFFICES ASSUME Asked("rating")
                PROVE  /\ \A later \in moved \cup grown : \A metric \in DOMAIN answer :
                            RatingOf(later)[metric] >= answer[metric]
                       /\ \A score \in AnalysedScores :
                            LET later == RatingOf(Heard(c, score))
                            IN  /\ \A metric \in DOMAIN answer \ {"communication", "overall"} :
                                        later[metric] >= answer[metric]
                                /\ later.overall + 15 >= answer.overall
                                /\ later.communication >= answer.communication =>
                                        later.overall >= answer.overall
                       /\ \A score \in HeuristicScores : c.inbound = 0 =>
                            RatingOf(Heard(c, score)).overall >= answer.overall
                       /\ c.contacts # <<>> =>
                            Rating!ContactQuality(c.contacts[Rating!BestContact(c.contacts, "maker.com")],
                                                  "maker.com") = answer.quality
    BY DEF NewsCostsByAnalysisOnly
  <2>1. c \in Conversations /\ answer = RatingOf(c)
    BY <1>1, RatingAnswered
  <2>. HIDE DEF c
  <2>2. /\ DOMAIN c = {"contacts", "statuses", "inbound", "outbound", "analysed", "facts",
                        "scheme"}
        /\ c.contacts \in Seq(ToSet(c.contacts))
        /\ \A i \in DOMAIN c.contacts :
                c.contacts[i].confidence \in Int /\ c.contacts[i].value \in Nat
        /\ c.inbound \in Nat /\ c.outbound \in Nat
    BY <2>1, ConversationsAssumption
  <2>3. ASSUME NEW d \in moved PROVE HasNewsOf(d, c)
    <3>1. PICK m \in AttemptMoves : /\ m[1] \in c.statuses /\ m[2] \notin {"failed", "cancelled"}
                                    /\ d = [c EXCEPT !.statuses = (@ \ {m[1]}) \cup {m[2]}]
      OBVIOUS
    <3>2. /\ d.statuses = (c.statuses \ {m[1]}) \cup {m[2]} /\ d.contacts = c.contacts
          /\ d.inbound = c.inbound /\ d.outbound = c.outbound /\ d.facts = c.facts
          /\ d.scheme = c.scheme /\ d.analysed = c.analysed
      BY <2>2, <3>1
    <3>3. /\ "responded" \in c.statuses => "responded" \in d.statuses
          /\ "sent" \in c.statuses => d.statuses \cap {"sent", "responded"} # {}
          /\ d.statuses \cap (Active \cup {"sent", "responded"}) # {}
      BY <3>1, <3>2, StatusesMove, Zenon
    <3>4. c.inbound <= d.inbound /\ c.outbound <= d.outbound
      BY <2>2, <3>2
    <3>. QED BY <2>2, <3>2, <3>3, <3>4, Zenon DEF HasNewsOf
  <2>4. ASSUME NEW d \in grown PROVE HasNewsOf(d, c)
    <3>1. CASE d = [c EXCEPT !.statuses = @ \cup {"queued"}]
      BY <2>2, <3>1 DEF HasNewsOf, Active
    <3>2. CASE d = [c EXCEPT !.inbound = @ + 1]
      BY <2>2, <3>2 DEF HasNewsOf, Active
    <3>3. CASE d = [c EXCEPT !.outbound = @ + 1]
      BY <2>2, <3>3 DEF HasNewsOf, Active
    <3>4. ASSUME NEW new \in NewContacts, d = [c EXCEPT !.contacts = Append(@, new)]
          PROVE  HasNewsOf(d, c)
      BY <2>2, <3>4 DEF HasNewsOf, Active
    <3>. QED BY <3>1, <3>2, <3>3, <3>4
  <2>5. ASSUME NEW later \in moved \cup grown, NEW metric \in DOMAIN answer
        PROVE  RatingOf(later)[metric] >= answer[metric]
    <3>1. HasNewsOf(later, c)
      BY <2>3, <2>4
    <3>. QED BY <2>1, <3>1, RatingRises, Zenon
  <2>6. ASSUME c.contacts # <<>>
        PROVE  Rating!ContactQuality(c.contacts[Rating!BestContact(c.contacts, "maker.com")],
                                     "maker.com") = answer.quality
    <3>1. answer.quality = Rating!BestQuality(c.contacts, "maker.com")
      BY <2>1, RatingIs, Zenon
    <3>. QED BY <2>2, <2>6, <3>1, BestContactIsBest, Zenon
  <2>7. ASSUME NEW score \in 0..100
        PROVE  LET later == RatingOf(Heard(c, score))
               IN  /\ \A metric \in DOMAIN answer \ {"communication", "overall"} :
                            later[metric] >= answer[metric]
                   /\ later.overall + 15 >= answer.overall
                   /\ later.communication >= answer.communication =>
                            later.overall >= answer.overall
                   /\ c.inbound = 0 /\ score >= 35 => later.overall >= answer.overall
    BY <2>1, HeardCosts, Zenon
  <2>. HIDE DEF moved, grown
  <2>. QED BY <2>5, <2>6, <2>7, ScoresAre, Zenon
<1>. QED BY <1>1, AlwaysAnswered, PTL

-----------------------------------------------------------------------------
(***************************************************************************)
(* The agent's texts.  A text is taken from the model only if it is good;  *)
(* the fallback has the topics, the script and the length that make it so, *)
(* and only what it quotes can make it bad.                                *)
(***************************************************************************)
LEMMA TopicsCounted ==
    ASSUME NEW text
    PROVE  /\ IsFiniteSet(text \cap Agent!Topics) /\ IsFiniteSet(text \cap Agent!OutreachTopics)
           /\ Cardinality(text \cap Agent!Topics) \in Nat
           /\ Cardinality(text \cap Agent!OutreachTopics) \in Nat
           /\ Cardinality(text \cap Agent!OutreachTopics) <= Cardinality(text \cap Agent!Topics)
<1>1. IsFiniteSet(Agent!Topics)
  <2>1. \A S, x : IsFiniteSet(S) => IsFiniteSet(S \cup {x})
    BY FS_AddElement, Zenon
  <2>2. IsFiniteSet({})
    BY FS_EmptySet, Zenon
  <2>. DEFINE A == (({} \cup {"product"}) \cup {"link"}) \cup {"price"}
              B == ((A \cup {"availability"}) \cup {"moq"}) \cup {"lead time"}
              C == (B \cup {"payment"}) \cup {"delivery"}
  <2>3. Agent!Topics = C
    BY DEF Agent!Topics
  <2>4. IsFiniteSet(A)
    BY <2>1, <2>2, Zenon
  <2>. HIDE DEF A
  <2>5. IsFiniteSet(B)
    BY <2>1, <2>4, Zenon
  <2>. HIDE DEF B
  <2>6. IsFiniteSet(C)
    BY <2>1, <2>5, Zenon
  <2>. QED BY <2>3, <2>6, Zenon
<1>2. /\ text \cap Agent!Topics \in SUBSET Agent!Topics
      /\ text \cap Agent!OutreachTopics \in SUBSET (text \cap Agent!Topics)
  BY DEF Agent!OutreachTopics
<1>3. IsFiniteSet(text \cap Agent!Topics)
  BY <1>1, <1>2, FS_Subset, Zenon
<1>4. /\ IsFiniteSet(text \cap Agent!OutreachTopics)
      /\ Cardinality(text \cap Agent!OutreachTopics) <= Cardinality(text \cap Agent!Topics)
  BY <1>2, <1>3, FS_Subset, Zenon
<1>. QED BY <1>3, <1>4, FS_CardinalityType, Zenon

\* The six topics of an outreach are six.
LEMMA OutreachIsLong ==
    ASSUME NEW text, Agent!OutreachTopics \subseteq text
    PROVE  Cardinality(text \cap Agent!OutreachTopics) = 6
<1>1. text \cap Agent!OutreachTopics =
        {"price", "availability", "moq", "lead time", "payment", "delivery"}
  BY DEF Agent!OutreachTopics, Agent!Topics
<1>2. \A S, x : IsFiniteSet(S) /\ x \notin S =>
            IsFiniteSet(S \cup {x}) /\ Cardinality(S \cup {x}) = Cardinality(S) + 1
  BY FS_AddElement, Zenon
<1>3. IsFiniteSet({}) /\ Cardinality({}) = 0
  BY FS_EmptySet, Zenon
<1>. DEFINE A1 == {} \cup {"price"}
            A2 == A1 \cup {"availability"}
            A3 == A2 \cup {"moq"}
            A4 == A3 \cup {"lead time"}
            A5 == A4 \cup {"payment"}
            A6 == A5 \cup {"delivery"}
<1>4. "price" \notin {} /\ "availability" \notin A1 /\ "moq" \notin A2 /\ "lead time" \notin A3
      /\ "payment" \notin A4 /\ "delivery" \notin A5
  OBVIOUS
<1>5. A6 = text \cap Agent!OutreachTopics
  BY <1>1
<1>. HIDE DEF A6
<1>6. IsFiniteSet(A1) /\ Cardinality(A1) = Cardinality({}) + 1
  BY <1>2, <1>3, <1>4, Zenon
<1>7. IsFiniteSet(A2) /\ Cardinality(A2) = Cardinality(A1) + 1
  BY <1>2, <1>4, <1>6, Zenon
<1>8. IsFiniteSet(A3) /\ Cardinality(A3) = Cardinality(A2) + 1
  BY <1>2, <1>4, <1>7, Zenon
<1>9. IsFiniteSet(A4) /\ Cardinality(A4) = Cardinality(A3) + 1
  BY <1>2, <1>4, <1>8, Zenon
<1>10. IsFiniteSet(A5) /\ Cardinality(A5) = Cardinality(A4) + 1
  BY <1>2, <1>4, <1>9, Zenon
<1>11. IsFiniteSet(A6) /\ Cardinality(A6) = Cardinality(A5) + 1
  BY <1>2, <1>4, <1>10, Zenon DEF A6
<1>. HIDE DEF A1, A2, A3, A4, A5
<1>12. Cardinality(A6) = 6
  BY <1>3, <1>6, <1>7, <1>8, <1>9, <1>10, <1>11
<1>. QED BY <1>5, <1>12, Zenon

LEMMA TextAnswered ==
    ASSUME Answered
    PROVE  /\ Asked("writing") => call.writing \in Writings /\ answer = Written(call.writing)
           /\ Asked("draft") =>
                /\ call.draft \in Drafts
                /\ answer = Agent!ContractDraft(call.draft.product, call.draft.messages,
                                                call.draft.answer)
           /\ Asked("question") =>
                answer = Agent!AssistantAnswer(call.question.text, call.question.answers)
           /\ Asked("reply") =>
                call.reply \in Replies /\ answer = Agent!Analysis(call.reply.text, call.reply.model)
BY DEF Answered, Asked, Calls, Value

Chosen(w) == IF w.language \in {"ru", "en", "zh"} THEN w.language ELSE "ru"

ScriptOf(language) == [ru |-> "cyrillic", en |-> "latin", zh |-> "cjk"][language]

LEMMA ChosenIs ==
    ASSUME NEW w
    PROVE  /\ Agent!NormalizeLanguage(w.language) = Chosen(w)
           /\ Chosen(w) \in {"ru", "en", "zh"}
           /\ ScriptOf("ru") = "cyrillic" /\ ScriptOf("zh") = "cjk"
BY DEF Agent!NormalizeLanguage, Agent!Languages, Chosen, ScriptOf

\* A text that is not empty and has no language error has the script, unless it is English.
LEMMA ScriptIsThere ==
    ASSUME NEW text, text # {}, NEW language \in {"ru", "zh"}, Agent!InLanguage(text, language)
    PROVE  ScriptOf(language) \in text
BY DEF Agent!InLanguage, ScriptOf

LEMMA MessagePermitted ==
    ASSUME NEW w \in Writings,
           NEW text, text = Agent!SupplierMessage(w.product, w.language, w.answers)
    PROVE  \/ text = Agent!Raised /\ "forbidden" \in w.product.marks
           \/ /\ text # Agent!Raised /\ "forbidden" \notin text
              /\ Chosen(w) # "en" => ScriptOf(Chosen(w)) \in text
              /\ w.product.url \in text /\ Agent!Topics \subseteq text
<1>. DEFINE fallback == Agent!FallbackMessage(w.product, Chosen(w))
            good == {t \in Agent!Range(w.answers) :
                        Agent!InitialValid(t, w.product) /\ Agent!InLanguage(t, Chosen(w))}
            permitted == Agent!InitialValid(fallback, w.product)
<1>1. text = Agent!FirstGood(w.answers, good, fallback, permitted)
  <2>1. Agent!NormalizeLanguage(w.language) = Chosen(w)
    BY ChosenIs
  <2>. HIDE DEF Chosen
  <2>. QED BY <2>1, Zenon DEF Agent!SupplierMessage
<1>2. Chosen(w) \in {"ru", "en", "zh"}
  BY ChosenIs
<1>3. \A t : Agent!InitialValid(t, w.product) =>
            "forbidden" \notin t /\ w.product.url \in t /\ Agent!Topics \subseteq t
  BY DEF Agent!InitialValid, Agent!Permitted
<1>4. \A t : Agent!Topics \subseteq t => t # {} /\ t # Agent!Raised
  <2>1. "price" \in Agent!Topics /\ "price" \notin Agent!Raised
    BY DEF Agent!Topics, Agent!Raised
  <2>. QED BY <2>1
<1>5. CASE text \in good
  <2>1. Agent!InitialValid(text, w.product) /\ Agent!InLanguage(text, Chosen(w))
    BY <1>5
  <2>2. Chosen(w) # "en" => ScriptOf(Chosen(w)) \in text
    BY <1>2, <1>3, <1>4, <2>1, ScriptIsThere
  <2>. QED BY <1>3, <1>4, <2>1, <2>2
<1>6. CASE text = fallback /\ permitted
  <2>1. Chosen(w) # "en" => ScriptOf(Chosen(w)) \in fallback
    BY <1>2, ChosenIs DEF Agent!FallbackMessage
  <2>. QED BY <1>3, <1>4, <1>6, <2>1
<1>7. CASE text = Agent!Raised /\ ~permitted
  <2>1. {w.product.url, w.product.id} \cup Agent!Topics \subseteq fallback
    BY DEF Agent!FallbackMessage, Agent!Quoted
  <2>2. "forbidden" \in fallback
    BY <1>7, <2>1 DEF Agent!InitialValid, Agent!Permitted
  <2>3. "forbidden" \notin {w.product.id, w.product.url}
    BY WritingsAssumption
  <2>4. "forbidden" \notin Agent!Topics
    BY DEF Agent!Topics
  <2>. QED BY <1>2, <1>7, <2>2, <2>3, <2>4 DEF Agent!FallbackMessage, Agent!Quoted
<1>. QED
  <2>. HIDE DEF good, fallback, permitted
  <2>1. text \in good \/ (text = fallback /\ permitted) \/ (text = Agent!Raised /\ ~permitted)
    BY <1>1 DEF Agent!FirstGood
  <2>. QED BY <1>5, <1>6, <1>7, <2>1

LEMMA OneMoreTopic ==
    ASSUME NEW A, IsFiniteSet(A), NEW x
    PROVE  /\ IsFiniteSet(A \cup {x})
           /\ Cardinality(A) \in Nat /\ Cardinality(A \cup {x}) \in Nat
           /\ Cardinality(A \cup {x}) <= Cardinality(A) + 1
<1>1. /\ IsFiniteSet(A \cup {x})
      /\ x \in A => Cardinality(A \cup {x}) = Cardinality(A)
      /\ x \notin A => Cardinality(A \cup {x}) = Cardinality(A) + 1
  BY FS_AddElement
<1>2. Cardinality(A) \in Nat
  BY FS_CardinalityType
<1>. DEFINE a == Cardinality(A)
            b == Cardinality(A \cup {x})
<1>3. a \in Nat /\ (b = a \/ b = a + 1)
  BY <1>1, <1>2, Zenon
<1>. HIDE DEF a, b
<1>4. b \in Nat /\ b <= a + 1
  BY <1>3
<1>. QED BY <1>1, <1>2, <1>4, Zenon DEF a, b

LEMMA TwoMoreTopics ==
    ASSUME NEW A, IsFiniteSet(A), NEW x, NEW y, NEW S, S \subseteq (A \cup {x}) \cup {y}
    PROVE  /\ Cardinality(A) \in Nat /\ Cardinality(S) \in Nat
           /\ Cardinality(S) <= Cardinality(A) + 2
<1>. DEFINE B == A \cup {x}
            C == B \cup {y}
<1>1. /\ IsFiniteSet(B) /\ Cardinality(A) \in Nat /\ Cardinality(B) \in Nat
      /\ Cardinality(B) <= Cardinality(A) + 1
  BY OneMoreTopic, Zenon
<1>. HIDE DEF B
<1>2. /\ IsFiniteSet(C) /\ Cardinality(C) \in Nat
      /\ Cardinality(C) <= Cardinality(B) + 1
  BY <1>1, OneMoreTopic, Zenon
<1>3. S \subseteq C
  BY DEF B
<1>. HIDE DEF C
<1>4. IsFiniteSet(S) /\ Cardinality(S) <= Cardinality(C)
  BY <1>2, <1>3, FS_Subset
<1>5. Cardinality(S) \in Nat
  BY <1>4, FS_CardinalityType
<1>. DEFINE a == Cardinality(A)
            b == Cardinality(B)
            c == Cardinality(C)
            s == Cardinality(S)
<1>6. /\ a \in Nat /\ b \in Nat /\ c \in Nat /\ s \in Nat
      /\ b <= a + 1 /\ c <= b + 1 /\ s <= c
  BY <1>1, <1>2, <1>4, <1>5, Zenon
<1>. HIDE DEF a, b, c, s
<1>7. s <= a + 2
  BY <1>6
<1>. QED BY <1>1, <1>5, <1>7, Zenon DEF a, s

LEMMA ReplyPermitted ==
    ASSUME NEW w \in Writings,
           NEW text, text = Agent!SupplierReply(w.product, w.messages, w.language, w.answers)
    PROVE  \/ /\ text = Agent!Raised
              /\ "forbidden" \in w.product.marks
                    \/ Cardinality(w.product.marks \cap Agent!Topics) >= 3
           \/ /\ text # Agent!Raised /\ "forbidden" \notin text
              /\ Chosen(w) # "en" => ScriptOf(Chosen(w)) \in text
              /\ ~(Agent!OutreachTopics \subseteq text)
<1>. DEFINE fallback == Agent!FallbackReply(w.product, w.messages, Chosen(w))
            good == {t \in Agent!Range(w.answers) :
                        Agent!FollowUpValid(t, w.messages) /\ Agent!InLanguage(t, Chosen(w))}
            permitted == Agent!FollowUpValid(fallback, w.messages)
<1>1. text = Agent!FirstGood(w.answers, good, fallback, permitted)
  <2>1. Agent!NormalizeLanguage(w.language) = Chosen(w)
    BY ChosenIs
  <2>. QED BY <2>1, Zenon DEF Agent!SupplierReply
<1>2. Chosen(w) \in {"ru", "en", "zh"}
  BY ChosenIs
<1>3. \A t : Agent!FollowUpValid(t, w.messages) =>
            "forbidden" \notin t /\ "long" \in t /\ ~Agent!RepeatsOutreach(t)
  BY DEF Agent!FollowUpValid, Agent!Permitted
<1>4. \A t : "long" \in t => t # {} /\ t # Agent!Raised
  BY DEF Agent!Raised
<1>5. \A t : Agent!RepeatsOutreach(t) <=> Cardinality(t \cap Agent!OutreachTopics) >= 5
  BY DEF Agent!RepeatsOutreach, Agent!Cardinality, Cardinality
<1>6. \A t : ~Agent!RepeatsOutreach(t) => ~(Agent!OutreachTopics \subseteq t)
  BY <1>5, OutreachIsLong
<1>7. CASE text \in good
  <2>1. Agent!FollowUpValid(text, w.messages) /\ Agent!InLanguage(text, Chosen(w))
    BY <1>7
  <2>2. Chosen(w) # "en" => ScriptOf(Chosen(w)) \in text
    BY <1>2, <1>3, <1>4, <2>1, ScriptIsThere
  <2>. QED BY <1>3, <1>4, <1>6, <2>1, <2>2
<1>8. CASE text = fallback /\ permitted
  <2>1. Chosen(w) # "en" => ScriptOf(Chosen(w)) \in fallback
    BY <1>2, ChosenIs DEF Agent!FallbackReply
  <2>. QED BY <1>3, <1>4, <1>6, <1>8, <2>1
<1>9. CASE text = Agent!Raised /\ ~permitted
  <2>1. /\ "long" \in fallback
        /\ "asks company" \in Agent!LatestSupplierText(w.messages) => "tells company" \in fallback
    BY DEF Agent!FallbackReply
  <2>2. "forbidden" \in fallback \/ Agent!RepeatsOutreach(fallback)
    BY <1>9, <2>1 DEF Agent!FollowUpValid, Agent!Permitted
  <2>3. {w.product.id, w.product.url} \cap (Agent!Topics \cup {"forbidden"}) = {}
    BY WritingsAssumption
  <2>4. CASE "forbidden" \in fallback
    <3>1. "forbidden" \in w.product.marks
      BY <1>2, <2>3, <2>4 DEF Agent!FallbackReply, Agent!Quoted
    <3>. QED BY <1>9, <3>1
  <2>5. CASE Agent!RepeatsOutreach(fallback)
    <3>. DEFINE told == "asks company" \in Agent!LatestSupplierText(w.messages)
                quoted == w.product.marks \cap Agent!OutreachTopics
                said == fallback \cap Agent!OutreachTopics
    <3>1. /\ told => said \subseteq (quoted \cup {"lead time"}) \cup {"lead time"}
          /\ ~told => said \subseteq (quoted \cup {"price"}) \cup {"delivery"}
      BY <1>2, <2>3 DEF Agent!FallbackReply, Agent!Quoted, Agent!OutreachTopics, Agent!Topics
    <3>2. Cardinality(said) <= Cardinality(quoted) + 2
      <4>1. IsFiniteSet(quoted)
        BY TopicsCounted, Zenon
      <4>. HIDE DEF told, quoted, said
      <4>. QED BY <3>1, <4>1, TwoMoreTopics, Zenon
    <3>3. Cardinality(fallback \cap Agent!OutreachTopics) >= 5
      BY <1>5, <2>5, Zenon
    <3>4. /\ Cardinality(fallback \cap Agent!OutreachTopics) \in Nat
          /\ Cardinality(w.product.marks \cap Agent!OutreachTopics) \in Nat
          /\ Cardinality(w.product.marks \cap Agent!Topics) \in Nat
          /\ Cardinality(w.product.marks \cap Agent!OutreachTopics)
                <= Cardinality(w.product.marks \cap Agent!Topics)
      BY TopicsCounted, Zenon
    <3>. HIDE DEF fallback
    <3>5. Cardinality(w.product.marks \cap Agent!Topics) >= 3
      BY <3>2, <3>3, <3>4
    <3>. QED BY <1>9, <3>5, Zenon
  <2>. QED BY <2>2, <2>4, <2>5
<1>10. text \in good \/ (text = fallback /\ permitted) \/ (text = Agent!Raised /\ ~permitted)
  <2>. HIDE DEF good, fallback, permitted
  <2>. QED BY <1>1 DEF Agent!FirstGood
<1>. QED BY <1>7, <1>8, <1>9, <1>10

LEMMA DraftPermitted ==
    ASSUME NEW d \in Drafts, NEW text,
           text = Agent!ContractDraft(d.product, d.messages, d.answer)
    PROVE  \/ /\ text = Agent!Raised /\ d.answer \notin {{}, {"unusable"}}
              /\ "unsafe" \in d.answer \/ "draft" \notin d.answer
           \/ /\ text = Agent!Raised /\ d.answer \in {{}, {"unusable"}}
              /\ \/ "unsafe" \in d.product.marks \cup d.product.supplier
                 \/ \E i \in DOMAIN d.messages :
                        i > Len(d.messages) - 8 /\ "unsafe" \in d.messages[i].body
           \/ text # Agent!Raised /\ "draft" \in text /\ "unsafe" \notin text
<1>. DEFINE fallback == Agent!FallbackDraft(d.product, d.messages)
            n == Len(d.messages)
            from == Agent!Max({1, n - Agent!QuotedMessages + 1})
            last == SubSeq(d.messages, from, n)
<1>1. \A t : Agent!DraftValid(t) => "draft" \in t /\ "unsafe" \notin t /\ t # Agent!Raised
  BY DEF Agent!DraftValid, Agent!Raised
<1>2. \A t : ~Agent!DraftValid(t) => "draft" \notin t \/ "unsafe" \in t
  BY DEF Agent!DraftValid
<1>3. CASE d.answer \in {{}, {"unusable"}} /\ ~Agent!DraftValid(fallback)
  <2>1. /\ fallback = {"draft"} \cup Agent!Quoted(d.product) \cup d.product.supplier
                            \cup Agent!Bodies(last)
        /\ text = Agent!Raised
    BY <1>3 DEF Agent!FallbackDraft, Agent!ContractDraft
  <2>2. d.messages \in Seq(ToSet(d.messages)) /\ "unsafe" \notin {d.product.id, d.product.url}
    BY DraftsAssumption
  <2>3. "unsafe" \in Agent!Quoted(d.product) \cup d.product.supplier \cup Agent!Bodies(last)
    BY <1>2, <1>3, <2>1
  <2>4. CASE "unsafe" \in Agent!Quoted(d.product) \cup d.product.supplier
    BY <1>3, <2>1, <2>2, <2>4 DEF Agent!Quoted
  <2>5. CASE "unsafe" \in Agent!Bodies(last)
    <3>1. n \in Nat /\ DOMAIN d.messages = 1..n
      BY <2>2
    <3>2. from \in Nat /\ from >= 1 /\ from >= n - 7
      <4>1. n - Agent!QuotedMessages + 1 = n - 7
        BY <3>1 DEF Agent!QuotedMessages
      <4>. DEFINE k == n - 7
      <4>2. k \in Int
        BY <3>1
      <4>3. from = Agent!Max({1, k})
        BY <4>1
      <4>. HIDE DEF k, n, from
      <4>4. Agent!Max({1, k}) = IF 1 >= k THEN 1 ELSE k
        BY <4>2 DEF Agent!Max
      <4>5. from \in Nat /\ from >= 1 /\ from >= k
        BY <4>2, <4>3, <4>4
      <4>. QED BY <4>5 DEF k
    <3>. HIDE DEF from
    <3>3. PICK i \in DOMAIN last : "unsafe" \in last[i].body
      BY <2>5 DEF Agent!Bodies
    <3>4. /\ i \in 1..(n - from + 1) /\ last[i] = d.messages[from + i - 1]
      BY <2>2, <3>1, <3>2, <3>3
    <3>. DEFINE j == from + i - 1
    <3>5. j \in 1..n /\ j > n - 8
      BY <3>1, <3>2, <3>4
    <3>6. "unsafe" \in d.messages[j].body
      BY <3>3, <3>4
    <3>. HIDE DEF j
    <3>. QED BY <1>3, <2>1, <3>1, <3>5, <3>6
  <2>. QED BY <2>3, <2>4, <2>5
<1>4. CASE d.answer \in {{}, {"unusable"}} /\ Agent!DraftValid(fallback)
  BY <1>1, <1>4 DEF Agent!ContractDraft
<1>5. CASE d.answer \notin {{}, {"unusable"}} /\ ~Agent!DraftValid(d.answer)
  BY <1>2, <1>5 DEF Agent!ContractDraft
<1>6. CASE d.answer \notin {{}, {"unusable"}} /\ Agent!DraftValid(d.answer)
  BY <1>1, <1>6 DEF Agent!ContractDraft
<1>. QED BY <1>3, <1>4, <1>5, <1>6

LEMMA QuestionAnswered ==
    ASSUME NEW text, NEW answers, NEW a, a = Agent!AssistantAnswer(text, answers)
    PROVE  /\ a.status = 200 =>
                /\ a.reply # {} /\ "echo" \notin a.reply
                /\ "cyrillic" \in text => "cyrillic" \in a.reply
                /\ text # {} => "clarify" \notin a.reply
           /\ a.status = 500 => answers[2] = Agent!Broken
<1>. DEFINE first == Agent!Humanized(answers[1])
            second == Agent!Humanized(answers[2])
<1>1. \A m : /\ "echo" \notin Agent!Humanized(m)
             /\ Agent!Humanized(m) \in {{}, m}
  BY DEF Agent!Humanized
<1>2. Agent!Broken # {}
  BY DEF Agent!Broken
<1>3. \A m : ~Agent!NeedsRetry(m, text) =>
            ("cyrillic" \in text => "cyrillic" \in m) /\ (text # {} => "clarify" \notin m)
  BY DEF Agent!NeedsRetry
<1>4. \/ a.status = 502
      \/ a.status = 500 /\ second = Agent!Broken
      \/ /\ a.status = 200 /\ a.reply = first
         /\ first # {} /\ ~Agent!NeedsRetry(first, text)
      \/ /\ a.status = 200 /\ a.reply = second
         /\ second # {} /\ ~Agent!NeedsRetry(second, text)
  <2>. HIDE DEF first, second
  <2>. QED BY DEF Agent!AssistantAnswer, first, second
<1>5. "echo" \notin first /\ "echo" \notin second /\ (second = Agent!Broken => answers[2] = Agent!Broken)
  BY <1>1, <1>2
<1>. HIDE DEF first, second
<1>. QED BY <1>3, <1>4, <1>5

(***************************************************************************)
(* What the agent writes is permitted, in its language and to the point,   *)
(* whatever the model answered, and it gives up only over what it quotes.  *)
(***************************************************************************)
THEOREM AgentTextPermitted == Spec => []AgentTextIsPermitted
<1>1. ASSUME Answered PROVE AgentTextIsPermitted
  <2>1. ASSUME Asked("writing")
        PROVE  LET w == call.writing
                   chosen == IF w.language \in {"ru", "en", "zh"} THEN w.language ELSE "ru"
                   script == [ru |-> "cyrillic", en |-> "latin", zh |-> "cjk"][chosen]
                   topics == Cardinality(w.product.marks \cap Agent!Topics)
               IN  IF answer = Agent!Raised
                   THEN \/ "forbidden" \in w.product.marks
                        \/ w.messages # <<>> /\ topics >= 3
                   ELSE /\ "forbidden" \notin answer
                        /\ chosen # "en" => script \in answer
                        /\ w.messages = <<>> => w.product.url \in answer /\ Agent!Topics \subseteq answer
                        /\ w.messages # <<>> => ~(Agent!OutreachTopics \subseteq answer)
    <3>. DEFINE w == call.writing
    <3>1. w \in Writings /\ answer = Written(w)
      BY <1>1, <2>1, TextAnswered
    <3>. HIDE DEF w
    <3>2. CASE w.messages = <<>>
      <4>1. answer = Agent!SupplierMessage(w.product, w.language, w.answers)
        BY <3>1, <3>2 DEF Written
      <4>2. \/ answer = Agent!Raised /\ "forbidden" \in w.product.marks
            \/ /\ answer # Agent!Raised /\ "forbidden" \notin answer
               /\ Chosen(w) # "en" => ScriptOf(Chosen(w)) \in answer
               /\ w.product.url \in answer /\ Agent!Topics \subseteq answer
        BY <3>1, <4>1, MessagePermitted
      <4>. QED BY <3>2, <4>2 DEF Chosen, ScriptOf, w
    <3>3. CASE w.messages # <<>>
      <4>1. answer = Agent!SupplierReply(w.product, w.messages, w.language, w.answers)
        BY <3>1, <3>3 DEF Written
      <4>2. \/ /\ answer = Agent!Raised
               /\ "forbidden" \in w.product.marks
                     \/ Cardinality(w.product.marks \cap Agent!Topics) >= 3
            \/ /\ answer # Agent!Raised /\ "forbidden" \notin answer
               /\ Chosen(w) # "en" => ScriptOf(Chosen(w)) \in answer
               /\ ~(Agent!OutreachTopics \subseteq answer)
        BY <3>1, <4>1, ReplyPermitted
      <4>. QED BY <3>3, <4>2 DEF Chosen, ScriptOf, w
    <3>. QED BY <3>2, <3>3
  <2>2. ASSUME Asked("draft")
        PROVE  LET d == call.draft
                   Recent(i) == i > Len(d.messages) - 8
                   usable == d.answer \notin {{}, {"unusable"}}
               IN  IF answer = Agent!Raised
                   THEN \/ usable /\ ("unsafe" \in d.answer \/ "draft" \notin d.answer)
                        \/ ~usable /\ "unsafe" \in d.product.marks \cup d.product.supplier
                        \/ ~usable /\ \E i \in DOMAIN d.messages :
                               Recent(i) /\ "unsafe" \in d.messages[i].body
                   ELSE "draft" \in answer /\ "unsafe" \notin answer
    <3>. DEFINE d == call.draft
    <3>1. d \in Drafts /\ answer = Agent!ContractDraft(d.product, d.messages, d.answer)
      BY <1>1, <2>2, TextAnswered
    <3>. HIDE DEF d
    <3>2. \/ /\ answer = Agent!Raised /\ d.answer \notin {{}, {"unusable"}}
             /\ "unsafe" \in d.answer \/ "draft" \notin d.answer
          \/ /\ answer = Agent!Raised /\ d.answer \in {{}, {"unusable"}}
             /\ \/ "unsafe" \in d.product.marks \cup d.product.supplier
                \/ \E i \in DOMAIN d.messages :
                       i > Len(d.messages) - 8 /\ "unsafe" \in d.messages[i].body
          \/ answer # Agent!Raised /\ "draft" \in answer /\ "unsafe" \notin answer
      BY <3>1, DraftPermitted
    <3>. QED BY <3>2 DEF d
  <2>3. ASSUME Asked("question")
        PROVE  LET q == call.question
               IN  /\ answer.status = 200 =>
                       /\ answer.reply # {} /\ "echo" \notin answer.reply
                       /\ "cyrillic" \in q.text => "cyrillic" \in answer.reply
                       /\ q.text # {} => "clarify" \notin answer.reply
                   /\ answer.status = 500 => q.answers[2] = Agent!Broken
    BY <1>1, <2>3, TextAnswered, QuestionAnswered
  <2>4. ASSUME Asked("reply")
        PROVE  /\ answer.score \in 0..100
               /\ answer.raises => call.reply.model.score.kind = "infinite"
    <3>1. call.reply \in Replies /\ answer = Agent!Analysis(call.reply.text, call.reply.model)
      BY <1>1, <2>4, TextAnswered
    <3>. QED BY <3>1, AnalysisBounded
  <2>. QED BY <2>1, <2>2, <2>3, <2>4, Zenon DEF AgentTextIsPermitted
<1>. QED BY <1>1, AlwaysAnswered, PTL

-----------------------------------------------------------------------------
(***************************************************************************)
(* Made-in-China.  The limit is at least one and at most 50; a look at the *)
(* page of a product changes nothing that the search found.                *)
(***************************************************************************)
LEMMA DiscoveryAnswered ==
    ASSUME Answered, Asked("discovery")
    PROVE  /\ call.discovery \in Discoveries
           /\ answer = MIC!Research(call.discovery.addresses, call.discovery.searchPage,
                                    call.discovery.site, call.discovery.configured,
                                    call.discovery.requested)
BY DEF Answered, Asked, Calls, Value

LEMMA LimitIs ==
    ASSUME NEW configured \in Int, NEW requested \in Int, NEW limit,
           limit = MIC!ResultLimit(configured, requested)
    PROVE  /\ limit \in 1..50
           /\ requested \in Nat \ {0} => limit <= requested
           /\ \/ limit = 50
              \/ limit \in {configured, requested} /\ MIC!IsNumber(limit)
              \/ limit = 5 /\ ~MIC!IsNumber(configured)
              \/ limit = 1 /\ \E n \in {configured, requested} : MIC!IsNumber(n) /\ n <= 0
<1>. DEFINE c == IF MIC!IsNumber(configured) THEN configured ELSE 5
            r == IF MIC!IsNumber(requested) THEN requested ELSE c
            least == MIC!Min({c, r, 50})
<1>1. c \in Int /\ r \in Int
  OBVIOUS
<1>2. limit = MIC!Max({1, least})
  BY DEF MIC!ResultLimit
<1>3. /\ (c = configured /\ MIC!IsNumber(configured)) \/ (c = 5 /\ ~MIC!IsNumber(configured))
      /\ (r = requested /\ MIC!IsNumber(requested)) \/ (r = c /\ ~MIC!IsNumber(requested))
  BY DEF MIC!IsNumber
<1>4. ~MIC!IsNumber(requested) => requested < 0
  BY DEF MIC!IsNumber, MIC!NotANumber
<1>. HIDE DEF c, r
<1>5. least \in {c, r, 50} /\ least <= c /\ least <= r /\ least <= 50
  <2>1. \E x \in {c, r, 50} : \A y \in {c, r, 50} : x <= y
    <3>1. CASE c <= r /\ c <= 50
      BY <1>1, <3>1
    <3>2. CASE r <= c /\ r <= 50
      BY <1>1, <3>2
    <3>3. CASE 50 <= c /\ 50 <= r
      BY <1>1, <3>3
    <3>. QED BY <1>1, <3>1, <3>2, <3>3
  <2>. QED BY <2>1 DEF MIC!Min
<1>6. least \in Int
  BY <1>1, <1>5
<1>. HIDE DEF least
<1>7. limit = IF least <= 1 THEN 1 ELSE least
  BY <1>2, <1>6 DEF MIC!Max
<1>8. limit \in 1..50 /\ limit <= 50
  BY <1>5, <1>6, <1>7
<1>9. ASSUME requested \in Nat \ {0} PROVE limit <= requested
  BY <1>1, <1>3, <1>4, <1>5, <1>6, <1>7, <1>9
<1>10. CASE least > 1
  <2>1. limit = least
    BY <1>6, <1>7, <1>10
  <2>. QED BY <1>3, <1>5, <1>8, <1>9, <2>1
<1>11. CASE least = 1
  <2>1. limit = least
    BY <1>6, <1>7, <1>11
  <2>. QED BY <1>3, <1>5, <1>8, <1>9, <2>1
<1>12. CASE least < 1
  <2>1. limit = 1 /\ least <= 0
    BY <1>6, <1>7, <1>12
  <2>2. least \in {c, r}
    BY <1>5, <2>1
  <2>3. (least = configured /\ MIC!IsNumber(configured))
            \/ (least = requested /\ MIC!IsNumber(requested))
    BY <1>3, <2>1, <2>2
  <2>. QED BY <1>8, <1>9, <2>1, <2>3
<1>. QED BY <1>6, <1>10, <1>11, <1>12

\* What a product keeps of the search result it was made of.
IsKept(item, product, site) ==
    /\ product.title = item.title /\ product.productUrl = item.productUrl
    /\ item.priceText \notin {MIC!NoText, "range"} => product = MIC!SearchProduct(item)
    /\ \A k \in DOMAIN item.attributes : product.attributes[k] = item.attributes[k]
    /\ item.images # <<>> => product.images = item.images
    /\ site[item.productUrl].kind # "page" => product = MIC!SearchProduct(item)

LEMMA FilledKeeps ==
    ASSUME NEW own, NEW other
    PROVE  /\ DOMAIN MIC!Filled(own, other) = DOMAIN own \cup DOMAIN other
           /\ \A k \in DOMAIN own : MIC!Filled(own, other)[k] = own[k]
           /\ \A k \in DOMAIN other \ DOMAIN own : MIC!Filled(own, other)[k] = other[k]
BY DEF MIC!Filled

LEMMA EnrichKeeps ==
    ASSUME NEW item, "priceSource" \notin DOMAIN item.attributes, NEW site
    PROVE  IsKept(item, MIC!Enrich(MIC!SearchProduct(item), site), site)
<1>. DEFINE s == MIC!SearchProduct(item)
<1>1. /\ DOMAIN s = {"title", "productUrl", "price", "images", "attributes"}
      /\ s.title = item.title /\ s.productUrl = item.productUrl /\ s.images = item.images
      /\ s.attributes = item.attributes /\ s.price = MIC!SinglePrice(item.priceText)
  BY DEF MIC!SearchProduct
<1>2. item.priceText \notin {MIC!NoText, "range"} => s.price # MIC!NoText
  BY <1>1 DEF MIC!SinglePrice
<1>3. IsKept(item, s, site)
  BY <1>1 DEF IsKept
<1>. HIDE DEF s
<1>4. ASSUME NEW detail, s.price = MIC!NoText, site[item.productUrl].kind = "page"
      PROVE  IsKept(item, MIC!Merge(s, detail), site)
  <2>. DEFINE p == MIC!Merge(s, detail)
              source == IF detail.price = MIC!NoText THEN <<>> ELSE [priceSource |-> "product_detail"]
              noted == MIC!Filled(source, item.attributes)
              filled == MIC!Filled(noted, detail.attributes)
  <2>1. /\ p.title = item.title /\ p.productUrl = item.productUrl
        /\ p.images = IF item.images = <<>> THEN detail.images ELSE item.images
        /\ p.attributes = filled
    BY <1>1 DEF MIC!Merge
  <2>2. "priceSource" \notin DOMAIN item.attributes /\ DOMAIN source \subseteq {"priceSource"}
    OBVIOUS
  <2>. HIDE DEF source
  <2>3. \A k \in DOMAIN item.attributes : k \in DOMAIN noted /\ noted[k] = item.attributes[k]
    <3>1. /\ DOMAIN noted = DOMAIN source \cup DOMAIN item.attributes
          /\ \A k \in DOMAIN item.attributes \ DOMAIN source : noted[k] = item.attributes[k]
      BY FilledKeeps, Zenon
    <3>. HIDE DEF noted
    <3>. QED BY <2>2, <3>1
  <2>. HIDE DEF noted
  <2>4. \A k \in DOMAIN item.attributes : filled[k] = item.attributes[k]
    <3>1. \A k \in DOMAIN noted : filled[k] = noted[k]
      BY FilledKeeps, ZenonT(30)
    <3>. HIDE DEF filled
    <3>. QED BY <2>3, <3>1
  <2>. HIDE DEF filled, p
  <2>. QED BY <1>2, <1>4, <2>1, <2>4 DEF IsKept, p
<1>5. \/ MIC!Enrich(s, site) = s
      \/ /\ s.price = MIC!NoText /\ site[item.productUrl].kind = "page"
         /\ \E detail : MIC!Enrich(s, site) = MIC!Merge(s, detail)
  BY <1>1 DEF MIC!Enrich, MIC!HasProduct, MIC!Answered
<1>. QED BY <1>3, <1>4, <1>5 DEF s

(***************************************************************************)
(* A discovery gives what was found, as far as the limit goes, with what   *)
(* the pages of the products add.                                          *)
(***************************************************************************)
THEOREM DiscoveryAddsOnly == Spec => []DiscoveryOnlyFills
<1>1. ASSUME Answered PROVE DiscoveryOnlyFills
  <2>. DEFINE d == call.discovery
              items == d.searchPage.items
              usable == MIC!UsableOf(items)
              limit == MIC!ResultLimit(d.configured, d.requested)
              taken == MIC!Min({Len(usable), limit})
              given == Len(answer.products)
              limits == {n \in {d.configured, d.requested} : MIC!IsNumber(n)}
  <2>. SUFFICES ASSUME Asked("discovery"), answer.success, answer.mode = "search"
                PROVE  /\ usable # <<>> => answer.products # <<>>
                       /\ given <= 50 /\ given <= Len(usable)
                       /\ d.requested \in Nat \ {0} => given <= d.requested
                       /\ \A i \in DOMAIN answer.products :
                                IsKept(usable[i], answer.products[i], d.site)
                       /\ given < Len(usable) =>
                                \/ given \in limits \cup {50}
                                \/ given = 5 /\ ~MIC!IsNumber(d.configured)
                                \/ given = 1 /\ \E n \in limits : n <= 0
    BY DEF DiscoveryOnlyFills, IsKept
  <2>1. /\ d \in Discoveries
        /\ answer = MIC!Research(d.addresses, d.searchPage, d.site, d.configured, d.requested)
    BY <1>1, DiscoveryAnswered
  <2>. HIDE DEF d
  <2>2. /\ d.configured \in Int /\ d.requested \in Int /\ items \in Seq(ToSet(items))
        /\ \A item \in ToSet(items) : "priceSource" \notin DOMAIN item.attributes
    BY <2>1, DiscoveriesAssumption
  <2>3. answer.products = [i \in 1..taken |-> MIC!Enrich(MIC!SearchProduct(usable[i]), d.site)]
    <3>. DEFINE found == MIC!ParseProducts(items, limit)
    <3>1. found = [i \in 1..taken |-> MIC!SearchProduct(usable[i])]
      BY DEF MIC!ParseProducts
    <3>2. answer = MIC!Success("search", [i \in DOMAIN found |-> MIC!Enrich(found[i], d.site)])
      <4>. DEFINE fills == [i \in DOMAIN found |-> MIC!Enrich(found[i], d.site)]
                  one == <<MIC!DetailProduct(d.site[MIC!DetailTarget(d.addresses)].page,
                                             MIC!DetailTarget(d.addresses))>>
      <4>1. answer \in {MIC!Success("product_detail", one), MIC!Success("search", fills), MIC!Failure}
        BY <2>1 DEF MIC!Research
      <4>. HIDE DEF fills, one
      <4>2. MIC!Success("product_detail", one).mode = "product_detail" /\ ~MIC!Failure.success
        BY DEF MIC!Success, MIC!Failure
      <4>. QED BY <4>1, <4>2 DEF fills
    <3>. HIDE DEF found
    <3>3. answer.products = [i \in DOMAIN found |-> MIC!Enrich(found[i], d.site)]
      BY <3>2 DEF MIC!Success
    <3>. HIDE DEF taken, usable
    <3>. QED BY <3>1, <3>3
  <2>4. usable \in Seq(ToSet(items)) /\ ToSet(usable) \subseteq ToSet(items)
    <3>. DEFINE wanted == {item \in ToSet(items) : MIC!Usable(item)}
    <3>1. usable = Among(items, wanted)
      BY DEF MIC!UsableOf, MIC!Among, Among, MIC!ToSet, ToSet
    <3>. HIDE DEF wanted, usable, items
    <3>. QED BY <2>2, <3>1, AmongProperties
  <2>. HIDE DEF usable
  <2>5. Len(usable) \in Nat /\ \A i \in 1..Len(usable) : usable[i] \in ToSet(items)
    BY <2>4
  <2>. DEFINE n == Len(usable)
  <2>. HIDE DEF items, n
  <2>6. /\ limit \in 1..50
        /\ d.requested \in Nat \ {0} => limit <= d.requested
        /\ \/ limit = 50
           \/ limit \in {d.configured, d.requested} /\ MIC!IsNumber(limit)
           \/ limit = 5 /\ ~MIC!IsNumber(d.configured)
           \/ limit = 1 /\ \E k \in {d.configured, d.requested} : MIC!IsNumber(k) /\ k <= 0
    BY <2>2, LimitIs, Zenon
  <2>. HIDE DEF limit
  <2>7. taken = IF n <= limit THEN n ELSE limit
    <3>1. n \in Nat /\ limit \in Nat /\ taken = MIC!Min({n, limit})
      BY <2>5, <2>6 DEF n
    <3>. HIDE DEF taken
    <3>. QED BY <3>1 DEF MIC!Min
  <2>. HIDE DEF taken
  <2>8. n \in Nat /\ taken \in 0..n /\ taken \in Nat /\ taken <= limit
        /\ (taken = n \/ taken = limit) /\ (n # 0 => taken # 0)
    BY <2>5, <2>6, <2>7 DEF n
  <2>9. DOMAIN answer.products = 1..taken /\ given = taken
    BY <2>3, <2>8
  <2>10. usable # <<>> => n # 0
    BY <2>4 DEF n
  <2>11. usable # <<>> => answer.products # <<>>
    BY <2>8, <2>9, <2>10
  <2>12. ASSUME NEW i \in DOMAIN answer.products
         PROVE  IsKept(usable[i], answer.products[i], d.site)
    <3>1. i \in 1..taken /\ i \in 1..n
      BY <2>8, <2>9
    <3>2. answer.products[i] = MIC!Enrich(MIC!SearchProduct(usable[i]), d.site)
      BY <2>3, <3>1
    <3>3. "priceSource" \notin DOMAIN usable[i].attributes
      BY <2>2, <2>5, <3>1 DEF n
    <3>. QED BY <3>2, <3>3, EnrichKeeps, Zenon
  <2>. HIDE DEF given
  <2>13. given <= 50 /\ given <= n /\ (d.requested \in Nat \ {0} => given <= d.requested)
    BY <2>6, <2>8, <2>9
  <2>14. ASSUME given < n
         PROVE  \/ given \in limits \cup {50}
                \/ given = 5 /\ ~MIC!IsNumber(d.configured)
                \/ given = 1 /\ \E k \in limits : k <= 0
    <3>1. given = limit
      BY <2>8, <2>9, <2>14
    <3>. QED BY <2>6, <3>1
  <2>. QED BY <2>11, <2>12, <2>13, <2>14 DEF n
<1>. QED BY <1>1, AlwaysAnswered, PTL

-----------------------------------------------------------------------------
(***************************************************************************)
(* The router.  Whatever a provider is asked and answers, its result gives *)
(* no errors of its own, and candidates only as a success.                 *)
(***************************************************************************)
ResultFields == {"raises", "success", "candidates", "errors", "context"}

IsResult(r) ==
    /\ DOMAIN r = ResultFields /\ r.errors = <<>>
    /\ r.raises \in BOOLEAN /\ r.success \in BOOLEAN
    /\ r.candidates # <<>> => r.success /\ ~r.raises

LEMMA ResultIsOne == ASSUME NEW provider, NEW n PROVE IsResult(Result(provider, n))
<1>1. /\ IsResult(Providers!Raises) /\ Providers!Raises.candidates = <<>>
  BY DEF IsResult, ResultFields, Providers!Raises
<1>2. IsResult(Providers!Refuses) /\ ~Providers!Refuses.raises
  BY <1>1 DEF Providers!Refuses, IsResult, ResultFields
<1>3. ASSUME NEW success \in BOOLEAN, NEW candidates, NEW context, candidates # <<>> => success
      PROVE  /\ IsResult([Providers!Refuses EXCEPT !.success = success, !.candidates = candidates])
             /\ IsResult([Providers!Refuses EXCEPT !.success = success, !.candidates = candidates,
                                                   !.context = context])
  BY <1>2, <1>3 DEF IsResult, ResultFields
<1>4. ASSUME NEW page PROVE IsResult(Providers!PublicSearch(page, n))
  <2>. DEFINE found == Providers!CandidatesOf(page, n)
              success == found # <<>> \/ page.filters # {}
  <2>1. success \in BOOLEAN /\ (found # <<>> => success)
    OBVIOUS
  <2>2. Providers!PublicSearch(page, n) \in
            {Providers!Refuses, Providers!Raises,
             [Providers!Refuses EXCEPT !.success = success, !.candidates = found,
                                       !.context = page.filters]}
    BY DEF Providers!PublicSearch
  <2>. HIDE DEF found, success
  <2>3. IsResult([Providers!Refuses EXCEPT !.success = success, !.candidates = found,
                                           !.context = page.filters])
    BY <1>3, <2>1
  <2>. QED BY <1>1, <1>2, <2>2, <2>3
<1>5. ASSUME NEW given PROVE IsResult(Providers!WebSearch(given, n))
  <2>. DEFINE found == SubSeq(given.found, 1, Providers!Min({Len(given.found), n}))
              success == found # <<>>
  <2>1. success \in BOOLEAN /\ (found # <<>> => success)
    OBVIOUS
  <2>2. Providers!WebSearch(given, n) \in
            {Providers!Refuses, Providers!Raises,
             [Providers!Refuses EXCEPT !.success = success, !.candidates = found]}
    BY DEF Providers!WebSearch
  <2>. HIDE DEF found, success
  <2>. QED BY <1>1, <1>2, <1>3, <2>1, <2>2
<1>. QED BY <1>4, <1>5 DEF Result

\* The answer of the first provider that decides, or of none.
LEMMA RouteTakesFirst ==
    ASSUME NEW n \in Nat, NEW R, DOMAIN R = 1..n, Len(R) = n, \A i \in 1..n : IsResult(R[i])
    PROVE  \/ /\ \A i \in 1..n : ~Providers!Decides(i, R)
              /\ ~Providers!Route(R).raises
           \/ \E i \in 1..n :
                /\ Providers!Decides(i, R) /\ \A j \in 1..(i - 1) : ~Providers!Decides(j, R)
                /\ Providers!Route(R).raises = R[i].raises
                /\ Providers!Route(R).success = R[i].success
                /\ Providers!Route(R).candidates = R[i].candidates
                /\ Len(Providers!Route(R).errors) = i - 1
<1>. DEFINE deciding == {i \in DOMAIN R : Providers!Decides(i, R)}
            Failed(k) == [i \in 1..k |-> i]
<1>1. CASE deciding = {}
  <2>1. Providers!Route(R) = Providers!NothingFound(Failed(n))
    BY <1>1 DEF Providers!Route
  <2>2. ~Providers!Route(R).raises
    BY <2>1 DEF Providers!NothingFound, Providers!Refuses, Providers!Raises
  <2>. QED BY <1>1, <2>2
<1>2. CASE deciding # {}
  <2>. DEFINE i == Providers!Min(deciding)
  <2>1. deciding \in SUBSET Nat
    OBVIOUS
  <2>2. \E k \in deciding : \A m \in deciding : k <= m
    BY <1>2, <2>1, LeastNatural
  <2>3. i \in deciding /\ \A m \in deciding : i <= m
    BY <2>2 DEF Providers!Min
  <2>4. Providers!Route(R) = [R[i] EXCEPT !.errors = Failed(i - 1) \o @]
    BY <1>2 DEF Providers!Route
  <2>. HIDE DEF i
  <2>5. i \in 1..n /\ i - 1 \in Nat /\ Providers!Decides(i, R)
    BY <2>3
  <2>6. \A j \in 1..(i - 1) : ~Providers!Decides(j, R)
    BY <2>3, <2>5
  <2>7. DOMAIN R[i] = ResultFields /\ R[i].errors = <<>>
    BY <2>5 DEF IsResult
  <2>8. Failed(i - 1) \in Seq(Nat) /\ Len(Failed(i - 1)) = i - 1
    BY <2>5
  <2>. HIDE DEF Failed
  <2>9. Failed(i - 1) \o <<>> = Failed(i - 1)
    BY <2>8
  <2>10. /\ Providers!Route(R).raises = R[i].raises
         /\ Providers!Route(R).success = R[i].success
         /\ Providers!Route(R).candidates = R[i].candidates
         /\ Providers!Route(R).errors = Failed(i - 1)
    BY <2>4, <2>7, <2>9 DEF ResultFields
  <2>. QED BY <2>5, <2>6, <2>8, <2>10
<1>. QED BY <1>1, <1>2

(***************************************************************************)
(* The first provider that finds something is the one the user sees, and   *)
(* the error of one is seen only when no earlier one found anything.       *)
(***************************************************************************)
THEOREM FirstProductsTaken == Spec => []RouterTakesFirstProducts
<1>1. ASSUME Answered PROVE RouterTakesFirstProducts
  <2>. DEFINE s == call.search
              R == [i \in DOMAIN s.providers |-> Result(s.providers[i], s.maxResults)]
              Finds(i) == R[i].candidates # <<>>
              n == Len(s.providers)
  <2>. SUFFICES ASSUME Asked("search")
                PROVE  /\ \A i \in DOMAIN R :
                            Finds(i) /\ (\A j \in 1..(i - 1) : ~Finds(j) /\ ~R[j].raises) =>
                                /\ answer.success /\ answer.candidates = R[i].candidates
                                /\ Len(answer.errors) = i - 1
                       /\ answer.raises => \E i \in DOMAIN R : R[i].raises /\ \A j \in 1..i : ~Finds(j)
    BY DEF RouterTakesFirstProducts
  <2>1. s.providers \in Seq(ToSet(s.providers)) /\ answer = Providers!Route(R)
    BY <1>1, SearchAnswered, SearchesAssumption
  <2>2. n \in Nat /\ DOMAIN R = 1..n /\ Len(R) = n
    BY <2>1
  <2>3. \A i \in 1..n : IsResult(R[i])
    BY <2>2, ResultIsOne
  <2>. HIDE DEF R, n, s
  <2>4. \A i \in 1..n : Finds(i) => Providers!Decides(i, R) /\ ~R[i].raises /\ R[i].success
    BY <2>3 DEF IsResult, Providers!Decides, Providers!IsUsable
  <2>5. \A i \in 1..n : Providers!Decides(i, R) => Finds(i) \/ R[i].raises
    BY DEF Providers!Decides, Providers!IsUsable
  <2>6. \/ /\ \A i \in 1..n : ~Providers!Decides(i, R)
           /\ ~answer.raises
        \/ \E i \in 1..n :
                /\ Providers!Decides(i, R) /\ \A j \in 1..(i - 1) : ~Providers!Decides(j, R)
                /\ answer.raises = R[i].raises
                /\ answer.success = R[i].success
                /\ answer.candidates = R[i].candidates
                /\ Len(answer.errors) = i - 1
    BY <2>1, <2>2, <2>3, RouteTakesFirst
  <2>7. ASSUME NEW i \in DOMAIN R, Finds(i), \A j \in 1..(i - 1) : ~Finds(j) /\ ~R[j].raises
        PROVE  /\ answer.success /\ answer.candidates = R[i].candidates
               /\ Len(answer.errors) = i - 1
    <3>1. i \in 1..n /\ Providers!Decides(i, R) /\ R[i].success
      BY <2>2, <2>4, <2>7
    <3>2. \A j \in 1..(i - 1) : j \in 1..n /\ ~Providers!Decides(j, R)
      BY <2>2, <2>5, <2>7, <3>1
    <3>3. PICK k \in 1..n :
                /\ Providers!Decides(k, R) /\ \A j \in 1..(k - 1) : ~Providers!Decides(j, R)
                /\ answer.success = R[k].success
                /\ answer.candidates = R[k].candidates
                /\ Len(answer.errors) = k - 1
      BY <2>6, <3>1
    <3>4. k = i
      <4>1. ~(k < i)
        BY <2>2, <3>2, <3>3
      <4>2. ~(i < k)
        BY <2>2, <3>1, <3>3
      <4>. QED BY <2>2, <3>1, <4>1, <4>2
    <3>. QED BY <3>1, <3>3, <3>4
  <2>8. ASSUME answer.raises PROVE \E i \in DOMAIN R : R[i].raises /\ \A j \in 1..i : ~Finds(j)
    <3>1. PICK k \in 1..n :
                /\ Providers!Decides(k, R) /\ \A j \in 1..(k - 1) : ~Providers!Decides(j, R)
                /\ answer.raises = R[k].raises
      BY <2>6, <2>8
    <3>2. R[k].raises
      BY <2>8, <3>1
    <3>3. \A j \in 1..k : j \in 1..n /\ (j = k \/ j \in 1..(k - 1))
      BY <2>2, <3>1
    <3>. QED BY <2>2, <2>4, <3>1, <3>2, <3>3
  <2>. QED BY <2>7, <2>8
<1>. QED BY <1>1, AlwaysAnswered, PTL

-----------------------------------------------------------------------------
(***************************************************************************)
(* The fit of a product.  The lists of what is matched and of what is      *)
(* missing are the two parts of the list of requirements, but for what the *)
(* evaluator adds; the score counts places, of which a longer text has no  *)
(* fewer.                                                                  *)
(***************************************************************************)
LEMMA SameLists ==
    ASSUME NEW list, NEW wanted
    PROVE  Providers!Among(list, wanted) = Among(list, wanted) /\ Providers!ToSet(list) = ToSet(list)
BY DEF Providers!Among, Among, Providers!ToSet, ToSet

LEMMA TimesIs == ASSUME NEW r, NEW list PROVE Times(r, list) = Cardinality(PlacesOf(list, r))
BY DEF Times, PlacesOf

LEMMA NamedType ==
    ASSUME NEW f \in Fits
    PROVE  LET named == Providers!Named(f.intent)
           IN  /\ named = f.intent.mustHave \o f.intent.certifications
               /\ named \in Seq(ToSet(named) \cup Added)
               /\ Providers!Wanted(f.intent) = ToSet(named) \ {Providers!Blank}
<1>. DEFINE m == f.intent.mustHave
            c == f.intent.certifications
            named == m \o c
            T == ToSet(m) \cup ToSet(c)
<1>1. m \in Seq(ToSet(m)) /\ c \in Seq(ToSet(c))
  BY FitsAssumption
<1>. HIDE DEF m, c
<1>2. m \in Seq(T) /\ c \in Seq(T)
  BY <1>1
<1>3. ToSet(named) = T
  BY <1>2, ToSetConcat
<1>4. named \in Seq(T)
  BY <1>2, ToSetConcat
<1>5. named \in Seq(T \cup Added)
  <2>. HIDE DEF T, named
  <2>. QED BY <1>4
<1>6. named \in Seq(ToSet(named) \cup Added)
  BY <1>3, <1>5, Zenon
<1>. QED BY <1>6, SameLists DEF Providers!Named, Providers!Wanted, m, c

\* One list of one thing the evaluator adds, or of none, has no other thing.
LEMMA AddedTimes ==
    ASSUME NEW T, NEW x \in T, NEW r, r # x, NEW list \in {<<>>, <<x>>}
    PROVE  list \in Seq(T) /\ Cardinality(PlacesOf(list, r)) = 0
<1>1. list \in Seq(T) /\ Len(list) \in {0, 1} /\ DOMAIN list = 1..Len(list)
      /\ (Len(list) = 1 => list[1] = x)
  <2>1. CASE list = <<>>
    <3>1. <<>> \in Seq(T) /\ Len(<<>>) = 0
      OBVIOUS
    <3>. QED BY <2>1, <3>1
  <2>2. CASE list = <<x>>
    <3>1. <<x>> \in Seq(T) /\ Len(<<x>>) = 1 /\ <<x>>[1] = x
      OBVIOUS
    <3>. QED BY <2>2, <3>1
  <2>. QED BY <2>1, <2>2
<1>2. PlacesOf(list, r) = {}
  BY <1>1 DEF PlacesOf
<1>. QED BY <1>1, <1>2, FS_EmptySet, Zenon

LEMMA RequirementOnce ==
    ASSUME NEW f \in Fits, NEW r \in ToSet(Providers!Named(f.intent)) \ ({Providers!Blank} \cup Added)
    PROVE  Times(r, Providers!Matched(f.intent, f.product))
             + Times(r, Providers!Missing(f.intent, f.product)) = Times(r, Providers!Named(f.intent))
<1>. DEFINE named == Providers!Named(f.intent)
            text == f.product.text
            wanted == Providers!Wanted(f.intent)
            T == ToSet(named) \cup Added
            made == IF Providers!WantsMaker(f.intent) /\ text \cap Providers!Makers # {}
                    THEN <<Providers!MakerFirst>> ELSE <<>>
            unmade == IF Providers!WantsMaker(f.intent) /\ text \cap Providers!Makers = {}
                      THEN <<Providers!NoMaker>> ELSE <<>>
            custom == IF Providers!IsCustomised(f.product) THEN <<Providers!Customization>> ELSE <<>>
            there == Among(named, wanted \cap text)
            gone == Among(named, wanted \ text)
<1>1. named \in Seq(T) /\ r \in wanted
  BY NamedType
<1>2. /\ Providers!MakerFirst \in T /\ Providers!NoMaker \in T /\ Providers!Customization \in T
      /\ r \notin Added
  BY DEF Added
<1>3. /\ Providers!Matched(f.intent, f.product) = made \o there \o custom
      /\ Providers!Missing(f.intent, f.product) = unmade \o gone
  BY SameLists DEF Providers!Matched, Providers!Missing
<1>4. made \in {<<>>, <<Providers!MakerFirst>>}
  OBVIOUS
<1>5. unmade \in {<<>>, <<Providers!NoMaker>>}
  OBVIOUS
<1>6. custom \in {<<>>, <<Providers!Customization>>}
  OBVIOUS
<1>7. there \in Seq(T) /\ gone \in Seq(T)
  <2>. HIDE DEF T
  <2>. QED BY <1>1, AmongProperties
<1>. HIDE DEF made, unmade, custom, there, gone, T, named, wanted, text
<1>8. /\ made \in Seq(T) /\ Cardinality(PlacesOf(made, r)) = 0
      /\ unmade \in Seq(T) /\ Cardinality(PlacesOf(unmade, r)) = 0
      /\ custom \in Seq(T) /\ Cardinality(PlacesOf(custom, r)) = 0
  <2>1. r # Providers!MakerFirst /\ r # Providers!NoMaker /\ r # Providers!Customization
    BY <1>2 DEF Added
  <2>2. made \in Seq(T) /\ Cardinality(PlacesOf(made, r)) = 0
    BY <1>2, <1>4, <2>1, AddedTimes, Zenon
  <2>3. unmade \in Seq(T) /\ Cardinality(PlacesOf(unmade, r)) = 0
    BY <1>2, <1>5, <2>1, AddedTimes, Zenon
  <2>4. custom \in Seq(T) /\ Cardinality(PlacesOf(custom, r)) = 0
    BY <1>2, <1>6, <2>1, AddedTimes, Zenon
  <2>. QED BY <2>2, <2>3, <2>4
<1>9. /\ Cardinality(PlacesOf(there, r)) =
            IF r \in wanted \cap text THEN Cardinality(PlacesOf(named, r)) ELSE 0
      /\ Cardinality(PlacesOf(gone, r)) =
            IF r \in wanted \ text THEN Cardinality(PlacesOf(named, r)) ELSE 0
  BY <1>1, PlacesAmong DEF there, gone
<1>10. Cardinality(PlacesOf(named, r)) \in Nat
  BY <1>1, PlacesFinite, Zenon
<1>11. Cardinality(PlacesOf(there, r)) + Cardinality(PlacesOf(gone, r)) =
            Cardinality(PlacesOf(named, r))
  BY <1>1, <1>9, <1>10
<1>12. /\ Cardinality(PlacesOf(there, r)) \in Nat /\ Cardinality(PlacesOf(gone, r)) \in Nat
  BY <1>7, PlacesFinite, Zenon
<1>. DEFINE front == made \o there
<1>13. front \in Seq(T)
  BY <1>7, <1>8, ToSetConcat, Zenon
<1>14. Cardinality(PlacesOf(front, r)) = Cardinality(PlacesOf(there, r))
  <2>1. Cardinality(PlacesOf(made \o there, r)) =
            Cardinality(PlacesOf(made, r)) + Cardinality(PlacesOf(there, r))
    BY <1>7, <1>8, PlacesConcat, ZenonT(60)
  <2>. QED BY <1>8, <1>12, <2>1
<1>. HIDE DEF front
<1>15. Cardinality(PlacesOf(front \o custom, r)) = Cardinality(PlacesOf(there, r))
  <2>1. Cardinality(PlacesOf(front \o custom, r)) =
            Cardinality(PlacesOf(front, r)) + Cardinality(PlacesOf(custom, r))
    <3>1. custom \in Seq(T)
      BY <1>8
    <3>. QED BY <1>13, <3>1, PlacesConcat, Zenon
  <2>. QED BY <1>8, <1>12, <1>14, <2>1
<1>16. Cardinality(PlacesOf(unmade \o gone, r)) = Cardinality(PlacesOf(gone, r))
  <2>1. Cardinality(PlacesOf(unmade \o gone, r)) =
            Cardinality(PlacesOf(unmade, r)) + Cardinality(PlacesOf(gone, r))
    BY <1>7, <1>8, PlacesConcat, ZenonT(60)
  <2>. QED BY <1>8, <1>12, <2>1
<1>. QED BY <1>3, <1>11, <1>15, <1>16, TimesIs DEF named, front

\* A text that says more has no fewer of the places of a list.
LEMMA CountGrows ==
    ASSUME NEW T, NEW list \in Seq(T), NEW p, NEW q, p.text \subseteq q.text
    PROVE  /\ Providers!CountIn(list, p) \in Nat /\ Providers!CountIn(list, q) \in Nat
           /\ Providers!CountIn(list, p) <= Providers!CountIn(list, q)
<1>. DEFINE less == {i \in DOMAIN list : list[i] # Providers!Blank /\ list[i] \in p.text}
            more == {i \in DOMAIN list : list[i] # Providers!Blank /\ list[i] \in q.text}
<1>1. DOMAIN list = 1..Len(list) /\ Len(list) \in Int
  OBVIOUS
<1>2. IsFiniteSet(DOMAIN list)
  <2>1. 1 \in Int
    OBVIOUS
  <2>2. IsFiniteSet(1..Len(list))
    BY <1>1, <2>1, FS_Interval, Zenon
  <2>. QED BY <1>1, <2>2, Zenon
<1>3. more \in SUBSET (DOMAIN list) /\ less \in SUBSET more
  OBVIOUS
<1>4. Providers!CountIn(list, p) = Cardinality(less) /\ Providers!CountIn(list, q) = Cardinality(more)
  BY DEF Providers!CountIn, Providers!Cardinality, Cardinality
<1>. HIDE DEF less, more
<1>. QED BY <1>2, <1>3, <1>4, FS_Subset, FS_CardinalityType

LEMMA ScoreGrows ==
    ASSUME NEW f \in Fits, NEW more, f.product.text \subseteq more.text,
           more.customised = f.product.customised, more.badges = f.product.badges
    PROVE  /\ Providers!FitScore(f.intent, f.product) \in Int
           /\ Providers!FitScore(f.intent, f.product) <= 10000
           /\ Providers!FitScore(f.intent, more) \in Int
           /\ Providers!FitScore(f.intent, f.product) <= Providers!FitScore(f.intent, more)
<1>. DEFINE p == f.product
            Maker(x) == IF Providers!WantsMaker(f.intent) /\ x.text \cap Providers!Makers # {}
                        THEN 2000 ELSE 0
            Must(x) == Providers!CountIn(f.intent.mustHave, x)
            Certified(x) == Providers!CountIn(f.intent.certifications, x)
            Custom(x) == IF Providers!IsCustomised(x) THEN 800 ELSE 0
            Points(x) == 3500 + Maker(x) + 1000 * Must(x) + 800 * Certified(x) + Custom(x)
<1>1. /\ f.intent.mustHave \in Seq(ToSet(f.intent.mustHave))
      /\ f.intent.certifications \in Seq(ToSet(f.intent.certifications))
  BY FitsAssumption
<1>2. more.customised = p.customised /\ more.badges = p.badges
  OBVIOUS
<1>3. p.text \subseteq more.text
  OBVIOUS
<1>4. Custom(more) = Custom(p) /\ Custom(p) \in {0, 800}
  BY <1>2 DEF Providers!IsCustomised
<1>5. Maker(more) >= Maker(p) /\ Maker(p) \in {0, 2000} /\ Maker(more) \in {0, 2000}
  BY <1>3
<1>6. \A x : Providers!FitScore(f.intent, x) = Providers!Min({10000, Points(x)})
  BY DEF Providers!FitScore
<1>. HIDE DEF p, Maker, Custom
<1>7. /\ Must(p) \in Nat /\ Must(more) \in Nat /\ Must(p) <= Must(more)
      /\ Certified(p) \in Nat /\ Certified(more) \in Nat /\ Certified(p) <= Certified(more)
  BY <1>1, <1>3, CountGrows
<1>. HIDE DEF Must, Certified
<1>8. Points(p) \in Int /\ Points(more) \in Int /\ Points(p) <= Points(more)
  BY <1>4, <1>5, <1>7
<1>. HIDE DEF Points
<1>9. /\ Providers!FitScore(f.intent, p) \in Int /\ Providers!FitScore(f.intent, p) <= 10000
      /\ Providers!FitScore(f.intent, more) \in Int
      /\ Providers!FitScore(f.intent, p) <= Providers!FitScore(f.intent, more)
  <2>1. Providers!FitScore(f.intent, p) = IF Points(p) <= 10000 THEN Points(p) ELSE 10000
    <3>1. Points(p) \in Int /\ Providers!FitScore(f.intent, p) = Providers!Min({10000, Points(p)})
      BY <1>6, <1>8
    <3>. QED BY <3>1 DEF Providers!Min
  <2>2. Providers!FitScore(f.intent, more) = IF Points(more) <= 10000 THEN Points(more) ELSE 10000
    <3>1. Points(more) \in Int /\ Providers!FitScore(f.intent, more) = Providers!Min({10000, Points(more)})
      BY <1>6, <1>8
    <3>. QED BY <3>1 DEF Providers!Min
  <2>. QED BY <1>8, <2>1, <2>2
<1>. QED BY <1>9 DEF p

LEMMA MatchedWhole ==
    ASSUME NEW f \in Fits, Providers!Summary(f.intent, f.product) = "matches",
           NEW r \in ToSet(Providers!Named(f.intent)) \ {Providers!Blank}
    PROVE  r \in f.product.text
<1>. DEFINE named == Providers!Named(f.intent)
            text == f.product.text
            unmade == IF Providers!WantsMaker(f.intent) /\ text \cap Providers!Makers = {}
                      THEN <<Providers!NoMaker>> ELSE <<>>
            gone == Among(named, Providers!Wanted(f.intent) \ text)
            T == ToSet(named) \cup Added
<1>1. Providers!Missing(f.intent, f.product) = <<>>
  BY DEF Providers!Summary
<1>2. Providers!Missing(f.intent, f.product) = unmade \o gone
  BY SameLists DEF Providers!Missing
<1>3. named \in Seq(T) /\ r \in Providers!Wanted(f.intent) /\ r \in ToSet(named)
  BY NamedType
<1>4. gone \in Seq(T) /\ ToSet(gone) = ToSet(named) \cap (Providers!Wanted(f.intent) \ text)
  <2>. HIDE DEF T
  <2>. QED BY <1>3, AmongProperties
<1>5. unmade \in Seq(T)
  <2>1. Providers!NoMaker \in T
    BY DEF Added
  <2>. HIDE DEF T
  <2>. QED BY <2>1
<1>. HIDE DEF T, unmade, gone, named, text
<1>6. ToSet(unmade) \cup ToSet(gone) = ToSet(<<>>)
  <2>1. ToSet(unmade \o gone) = ToSet(unmade) \cup ToSet(gone)
    <3>1. gone \in Seq(T)
      BY <1>4
    <3>. QED BY <1>5, <3>1, ToSetConcat, ZenonT(30)
  <2>2. unmade \o gone = <<>>
    BY <1>1, <1>2
  <2>. QED BY <2>1, <2>2, Zenon
<1>7. ToSet(gone) = {}
  <2>1. ToSet(<<>>) = {}
    BY DEF ToSet
  <2>. QED BY <1>6, <2>1, Zenon
<1>. QED BY <1>3, <1>4, <1>7 DEF text

(***************************************************************************)
(* Every requirement is shown once, matched or missing; who says more has  *)
(* no lower score; and what is said to match does so in everything.        *)
(***************************************************************************)
THEOREM RequirementsAccounted == Spec => []RequirementsAreAccounted
<1>1. ASSUME Answered PROVE RequirementsAreAccounted
  <2>. DEFINE f == call.fit
              named == Requirements(f)
  <2>. SUFFICES ASSUME Asked("fit")
                PROVE  /\ EachIsShownOnce(f) /\ MoreTextScoresNoLess(f)
                       /\ answer.score <= 10000 /\ MatchIsWhole(f)
    BY DEF RequirementsAreAccounted
  <2>1. /\ f \in Fits
        /\ answer.matched = Providers!Matched(f.intent, f.product)
        /\ answer.missing = Providers!Missing(f.intent, f.product)
        /\ answer.score = Providers!FitScore(f.intent, f.product)
        /\ answer.summary = Providers!Summary(f.intent, f.product)
    BY <1>1, FitAnswered
  <2>2. Providers!Named(f.intent) = named
    BY DEF Providers!Named, Requirements
  <2>. HIDE DEF f, named
  <2>3. ASSUME NEW r \in ToSet(named) \ ({Providers!Blank} \cup Added)
        PROVE  Times(r, answer.matched) + Times(r, answer.missing) = Times(r, named)
    BY <2>1, <2>2, RequirementOnce, Zenon
  <2>4. ASSUME NEW word
        PROVE  Providers!FitScore(f.intent, [f.product EXCEPT !.text = @ \cup {word}]) >= answer.score
    <3>. DEFINE fuller == [f.product EXCEPT !.text = @ \cup {word}]
    <3>1. /\ f.product.text \subseteq fuller.text /\ fuller.customised = f.product.customised
          /\ fuller.badges = f.product.badges
      BY <2>1, FitsAssumption
    <3>. HIDE DEF fuller
    <3>2. /\ answer.score <= Providers!FitScore(f.intent, fuller)
          /\ answer.score \in Int /\ Providers!FitScore(f.intent, fuller) \in Int
      BY <2>1, <3>1, ScoreGrows
    <3>3. Providers!FitScore(f.intent, fuller) >= answer.score
      BY <3>2
    <3>. QED BY <3>3 DEF fuller
  <2>6. answer.score <= 10000
    <3>1. f.product.text \subseteq f.product.text
      OBVIOUS
    <3>. QED BY <2>1, <3>1, ScoreGrows
  <2>5. ASSUME answer.summary = "matches", NEW r \in ToSet(named) \ {Providers!Blank}
        PROVE  r \in f.product.text
    BY <2>1, <2>2, <2>5, MatchedWhole, Zenon
  <2>7. EachIsShownOnce(f)
    BY <2>3, Zenon DEF EachIsShownOnce, named
  <2>8. MoreTextScoresNoLess(f)
    BY <2>4, Zenon DEF MoreTextScoresNoLess, named
  <2>9. MatchIsWhole(f)
    BY <2>5, Zenon DEF MatchIsWhole, named
  <2>. QED BY <2>6, <2>7, <2>8, <2>9
<1>. QED BY <1>1, AlwaysAnswered, PTL

-----------------------------------------------------------------------------
(***************************************************************************)
(* Pages.  A parser is a function of its state and of the next event; so   *)
(* what a page does to it is put together from what its parts do, however  *)
(* long the page is.                                                       *)
(***************************************************************************)
\* The states of a parser that is fed a page.
FedBy(parser, p, page, n, f) ==
    f = [k \in 0..n |-> IF k = 0 THEN p ELSE Pages!Handle(parser, f[k - 1], page[k])]

\* There is such a function: the recursion of Feed defines one.
LEMMA SomethingFeeds ==
    ASSUME NEW parser, NEW p, NEW page, NEW last \in Nat
    PROVE  \E f : FedBy(parser, p, page, last, f)
<1>. DEFINE Reached == {n \in Nat : \E f : FedBy(parser, p, page, n, f)}
<1>1. 0 \in Reached
  <2>. DEFINE f == [k \in 0..0 |-> p]
  <2>1. FedBy(parser, p, page, 0, f)
    BY DEF FedBy
  <2>. QED BY <2>1
<1>2. ASSUME NEW n \in Nat, n \in Reached PROVE n + 1 \in Reached
  <2>1. PICK f : FedBy(parser, p, page, n, f)
    BY <1>2
  <2>. DEFINE next == Pages!Handle(parser, f[n], page[n + 1])
              g == [k \in 0..(n + 1) |-> IF k <= n THEN f[k] ELSE next]
  <2>. HIDE DEF next
  <2>2. (\A k \in 0..n : g[k] = f[k]) /\ g[n + 1] = next /\ g = [k \in 0..(n + 1) |-> g[k]]
    OBVIOUS
  <2>. HIDE DEF g
  <2>3. ASSUME NEW k \in 0..(n + 1)
        PROVE  g[k] = IF k = 0 THEN p ELSE Pages!Handle(parser, g[k - 1], page[k])
    <3>1. CASE k \in 0..n
      <4>1. f[k] = IF k = 0 THEN p ELSE Pages!Handle(parser, f[k - 1], page[k])
        BY <2>1, <3>1 DEF FedBy
      <4>2. k # 0 => k - 1 \in 0..n
        BY <3>1
      <4>. QED BY <2>2, <3>1, <4>1, <4>2
    <3>2. CASE k = n + 1
      <4>1. k # 0 /\ k - 1 = n /\ n \in 0..n
        BY <3>2
      <4>. QED BY <2>2, <3>2, <4>1 DEF next
    <3>3. k \in 0..n \/ k = n + 1
      OBVIOUS
    <3>. QED BY <3>1, <3>2, <3>3
  <2>4. FedBy(parser, p, page, n + 1, g)
    BY <2>2, <2>3 DEF FedBy
  <2>. QED BY <2>4
<1>3. Nat \subseteq Reached
  <2>. HIDE DEF Reached
  <2>. QED BY <1>1, <1>2, Induction
<1>. QED BY <1>3

\* Two such functions agree as far as both go on the same events.
LEMMA FeedsAlike ==
    ASSUME NEW parser, NEW p, NEW page, NEW other, NEW m \in Nat, NEW n \in Nat, m <= n,
           \A k \in 1..m : page[k] = other[k],
           NEW f, NEW g, FedBy(parser, p, page, m, f), FedBy(parser, p, other, n, g)
    PROVE  f[m] = g[m]
<1>. DEFINE Places == {k \in Nat : k <= m => f[k] = g[k]}
<1>1. 0 \in Places
  <2>1. f[0] = p /\ g[0] = p
    BY DEF FedBy
  <2>. QED BY <2>1
<1>2. ASSUME NEW k \in Nat, k \in Places PROVE k + 1 \in Places
  <2>. SUFFICES ASSUME k + 1 <= m PROVE f[k + 1] = g[k + 1]
    OBVIOUS
  <2>1. k + 1 \in 0..m /\ k + 1 \in 0..n /\ k + 1 # 0 /\ (k + 1) - 1 = k /\ k + 1 \in 1..m
    OBVIOUS
  <2>2. f[k + 1] = Pages!Handle(parser, f[k], page[k + 1])
    BY <2>1 DEF FedBy
  <2>3. g[k + 1] = Pages!Handle(parser, g[k], other[k + 1])
    BY <2>1 DEF FedBy
  <2>4. f[k] = g[k] /\ page[k + 1] = other[k + 1]
    BY <1>2, <2>1
  <2>. QED BY <2>2, <2>3, <2>4
<1>3. Nat \subseteq Places
  <2>. HIDE DEF Places
  <2>. QED BY <1>1, <1>2, Induction
<1>. QED BY <1>3

\* Feed is the last of these states.
LEMMA FeedIs ==
    ASSUME NEW parser, NEW p, NEW page, Len(page) \in Nat
    PROVE  \E f : FedBy(parser, p, page, Len(page), f) /\ Pages!Feed(parser, p, page) = f[Len(page)]
<1>1. Pages!Feed(parser, p, page) = (CHOOSE f : FedBy(parser, p, page, Len(page), f))[Len(page)]
  BY DEF Pages!Feed, FedBy
<1>2. FedBy(parser, p, page, Len(page), CHOOSE f : FedBy(parser, p, page, Len(page), f))
  BY SomethingFeeds
<1>. QED BY <1>1, <1>2

LEMMA FeedNone == ASSUME NEW parser, NEW p PROVE Pages!Feed(parser, p, <<>>) = p
<1>1. Len(<<>>) = 0
  OBVIOUS
<1>2. PICK f : FedBy(parser, p, <<>>, 0, f) /\ Pages!Feed(parser, p, <<>>) = f[0]
  BY <1>1, FeedIs
<1>3. f[0] = p
  BY <1>2 DEF FedBy
<1>. QED BY <1>2, <1>3

\* One more event is one more step.
LEMMA FeedMore ==
    ASSUME NEW parser, NEW p, NEW T, NEW page \in Seq(T), NEW e \in T
    PROVE  Pages!Feed(parser, p, Append(page, e)) = Pages!Handle(parser, Pages!Feed(parser, p, page), e)
<1>. DEFINE n == Len(page)  more == Append(page, e)
<1>1. n \in Nat /\ Len(more) = n + 1 /\ more[n + 1] = e /\ \A k \in 1..n : page[k] = more[k]
  OBVIOUS
<1>. HIDE DEF n, more
<1>2. PICK f : FedBy(parser, p, page, n, f) /\ Pages!Feed(parser, p, page) = f[n]
  BY <1>1, FeedIs DEF n
<1>3. PICK g : FedBy(parser, p, more, n + 1, g) /\ Pages!Feed(parser, p, more) = g[n + 1]
  BY <1>1, FeedIs
<1>4. f[n] = g[n]
  BY <1>1, <1>2, <1>3, FeedsAlike
<1>5. g[n + 1] = Pages!Handle(parser, g[n], e)
  <2>1. n + 1 \in 0..(n + 1) /\ n + 1 # 0 /\ (n + 1) - 1 = n
    BY <1>1
  <2>. QED BY <1>1, <1>3, <2>1 DEF FedBy
<1>. QED BY <1>2, <1>3, <1>4, <1>5 DEF more

LEMMA AppendToConcat ==
    ASSUME NEW T, NEW a \in Seq(T), NEW b \in Seq(T), NEW e \in T
    PROVE  a \o Append(b, e) = Append(a \o b, e)
<1>. DEFINE l == a \o Append(b, e)  r == Append(a \o b, e)
<1>1. Len(l) = Len(a) + Len(b) + 1 /\ Len(r) = Len(a) + Len(b) + 1 /\ l \in Seq(T) /\ r \in Seq(T)
  OBVIOUS
<1>2. ASSUME NEW i \in 1..(Len(a) + Len(b) + 1) PROVE l[i] = r[i]
  <2>1. CASE i <= Len(a)
    BY <2>1
  <2>2. CASE i > Len(a) /\ i <= Len(a) + Len(b)
    BY <2>2
  <2>3. CASE i = Len(a) + Len(b) + 1
    BY <2>3
  <2>. QED BY <2>1, <2>2, <2>3
<1>. HIDE DEF l, r
<1>3. l = r
  BY <1>1, <1>2
<1>. QED BY <1>3 DEF l, r

\* What comes after a part of a page goes to the state that part has left.
LEMMA FeedConcat ==
    ASSUME NEW parser, NEW p, NEW T, NEW a \in Seq(T), NEW b \in Seq(T)
    PROVE  Pages!Feed(parser, p, a \o b) = Pages!Feed(parser, Pages!Feed(parser, p, a), b)
<1>. DEFINE q == Pages!Feed(parser, p, a)
            Same(s) == Pages!Feed(parser, p, a \o s) = Pages!Feed(parser, q, s)
            Places == {k \in Nat : \A s \in Seq(T) : Len(s) = k => Same(s)}
<1>1. 0 \in Places
  <2>. SUFFICES ASSUME NEW s \in Seq(T), Len(s) = 0 PROVE Same(s)
    OBVIOUS
  <2>1. s = <<>> /\ a \o s = a
    OBVIOUS
  <2>. QED BY <2>1, FeedNone
<1>2. ASSUME NEW k \in Nat, k \in Places PROVE k + 1 \in Places
  <2>. SUFFICES ASSUME NEW s \in Seq(T), Len(s) = k + 1 PROVE Same(s)
    OBVIOUS
  <2>. DEFINE t == [i \in 1..k |-> s[i]]  e == s[k + 1]
  <2>1. t \in Seq(T) /\ Len(t) = k /\ e \in T
    OBVIOUS
  <2>2. s = Append(t, e)
    <3>1. Append(t, e) \in Seq(T) /\ Len(Append(t, e)) = k + 1
      BY <2>1
    <3>2. ASSUME NEW i \in 1..(k + 1) PROVE s[i] = Append(t, e)[i]
      <4>1. CASE i <= k
        BY <2>1, <4>1
      <4>2. CASE i = k + 1
        <5>. HIDE DEF t
        <5>. QED BY <2>1, <4>2
      <4>. QED BY <4>1, <4>2
    <3>. DEFINE u == Append(t, e)
    <3>. HIDE DEF t, e, u
    <3>3. s \in Seq(T) /\ Len(s) = k + 1 /\ u \in Seq(T) /\ Len(u) = k + 1 /\ \A i \in 1..(k + 1) : s[i] = u[i]
      BY <3>1, <3>2 DEF u
    <3>4. s = u
      BY <3>3
    <3>. QED BY <3>4 DEF u
  <2>. HIDE DEF t, e
  <2>3. Same(t)
    BY <1>2, <2>1
  <2>4. a \o s = Append(a \o t, e) /\ a \o t \in Seq(T)
    BY <2>1, <2>2, AppendToConcat
  <2>5. Pages!Feed(parser, p, a \o s) = Pages!Handle(parser, Pages!Feed(parser, p, a \o t), e)
    <3>. DEFINE v == a \o t
    <3>1. v \in Seq(T)
      BY <2>4
    <3>. HIDE DEF v
    <3>2. Pages!Feed(parser, p, Append(v, e)) = Pages!Handle(parser, Pages!Feed(parser, p, v), e)
      BY <2>1, <3>1, FeedMore
    <3>. QED BY <2>4, <3>2, Zenon DEF v
  <2>6. Pages!Feed(parser, q, s) = Pages!Handle(parser, Pages!Feed(parser, q, t), e)
    BY <2>1, <2>2, FeedMore
  <2>. QED BY <2>3, <2>5, <2>6
<1>3. Nat \subseteq Places
  <2>. HIDE DEF Places
  <2>. QED BY <1>1, <1>2, Induction
<1>4. Same(b)
  BY <1>3
<1>. QED BY <1>4

LEMMA FeedOne == ASSUME NEW parser, NEW p, NEW e PROVE Pages!Feed(parser, p, <<e>>) = Pages!Handle(parser, p, e)
<1>. DEFINE page == <<>>  E == {e}
<1>1. page \in Seq(E) /\ e \in E /\ <<e>> = Append(page, e)
  OBVIOUS
<1>. HIDE DEF E, page
<1>2. Pages!Feed(parser, p, Append(page, e)) = Pages!Handle(parser, Pages!Feed(parser, p, page), e)
  BY <1>1, FeedMore
<1>. QED BY <1>1, <1>2, FeedNone, Zenon DEF page

LEMMA FeedTwo ==
    ASSUME NEW parser, NEW p, NEW d, NEW e
    PROVE  Pages!Feed(parser, p, <<d, e>>) = Pages!Handle(parser, Pages!Handle(parser, p, d), e)
<1>. DEFINE page == <<d>>  E == {d, e}
<1>1. page \in Seq(E) /\ e \in E /\ <<d, e>> = Append(page, e)
  OBVIOUS
<1>. HIDE DEF E, page
<1>2. Pages!Feed(parser, p, Append(page, e)) = Pages!Handle(parser, Pages!Feed(parser, p, page), e)
  BY <1>1, FeedMore
<1>. QED BY <1>1, <1>2, FeedOne, Zenon DEF page

LEMMA FeedThree ==
    ASSUME NEW parser, NEW p, NEW d, NEW e, NEW f
    PROVE  Pages!Feed(parser, p, <<d, e, f>>) =
               Pages!Handle(parser, Pages!Handle(parser, Pages!Handle(parser, p, d), e), f)
<1>. DEFINE page == <<d, e>>  E == {d, e, f}
<1>1. page \in Seq(E) /\ f \in E /\ <<d, e, f>> = Append(page, f)
  OBVIOUS
<1>. HIDE DEF E, page
<1>2. Pages!Feed(parser, p, Append(page, f)) = Pages!Handle(parser, Pages!Feed(parser, p, page), f)
  BY <1>1, FeedMore
<1>3. Pages!Feed(parser, p, page) = Pages!Handle(parser, Pages!Handle(parser, p, d), e)
  <2>1. Pages!Feed(parser, p, <<d, e>>) = Pages!Handle(parser, Pages!Handle(parser, p, d), e)
    BY FeedTwo
  <2>. QED BY <2>1 DEF page
<1>. QED BY <1>1, <1>2, <1>3, Zenon

\* An element: its start, what is inside, its end.
Inside(parser, p, tag, mark, inside) ==
    Pages!Handle(parser,
        Pages!Feed(parser, Pages!Handle(parser, p, Pages!Start(tag, mark, "none")), inside),
        Pages!End(tag))

LEMMA FeedElement ==
    ASSUME NEW parser, NEW p, NEW T, NEW inside \in Seq(T), NEW tag, NEW mark
    PROVE  /\ Element(tag, mark, inside) \in Seq(T \cup {Pages!Start(tag, mark, "none"), Pages!End(tag)})
           /\ Pages!Feed(parser, p, Element(tag, mark, inside)) = Inside(parser, p, tag, mark, inside)
<1>. DEFINE first == Pages!Start(tag, mark, "none")  last == Pages!End(tag)
            E == T \cup {first, last}  begun == <<first>>  ended == <<last>>
<1>. HIDE DEF first, last
<1>1. begun \in Seq(E) /\ inside \in Seq(E) /\ ended \in Seq(E)
  OBVIOUS
<1>2. Element(tag, mark, inside) = (begun \o inside) \o ended
  BY DEF Element, first, last
<1>3. /\ \A q : Pages!Feed(parser, q, begun) = Pages!Handle(parser, q, first)
      /\ \A q : Pages!Feed(parser, q, ended) = Pages!Handle(parser, q, last)
  BY FeedOne
<1>. HIDE DEF E, begun, ended
<1>4. begun \o inside \in Seq(E) /\ (begun \o inside) \o ended \in Seq(E)
  BY <1>1
<1>5. Pages!Feed(parser, p, begun \o inside) = Pages!Feed(parser, Pages!Handle(parser, p, first), inside)
  BY <1>1, <1>3, FeedConcat
<1>6. Pages!Feed(parser, p, (begun \o inside) \o ended) =
        Pages!Handle(parser, Pages!Feed(parser, p, begun \o inside), last)
  <2>. DEFINE x == begun \o inside
  <2>1. x \in Seq(E)
    BY <1>4
  <2>. HIDE DEF x
  <2>2. Pages!Feed(parser, p, x \o ended) = Pages!Feed(parser, Pages!Feed(parser, p, x), ended)
    BY <1>1, <2>1, FeedConcat
  <2>. QED BY <1>3, <2>2 DEF x
<1>. QED BY <1>2, <1>4, <1>5, <1>6 DEF Inside, first, last, E

\* A page made of parts: there is a state before each part and after the last.
LEMMA FeedJoined ==
    ASSUME NEW parser, NEW p, NEW T, NEW lists \in Seq(Seq(T))
    PROVE  \E s : /\ s[0] = p /\ Pages!Feed(parser, p, FlattenSeq(lists)) = s[Len(lists)]
                  /\ \A n \in 1..Len(lists) : s[n] = Pages!Feed(parser, s[n - 1], lists[n])
<1>1. PICK f : /\ f[0] = <<>> /\ FlattenSeq(lists) = f[Len(lists)]
               /\ \A n \in 0..Len(lists) : f[n] \in Seq(T)
               /\ \A n \in 1..Len(lists) : f[n] = f[n - 1] \o lists[n]
  BY FlattenIs
<1>2. Len(lists) \in Nat /\ \A n \in 1..Len(lists) : lists[n] \in Seq(T)
  OBVIOUS
<1>. DEFINE s == [n \in 0..Len(lists) |-> Pages!Feed(parser, p, f[n])]
<1>3. \A n \in 0..Len(lists) : s[n] = Pages!Feed(parser, p, f[n])
  OBVIOUS
<1>. HIDE DEF s
<1>4. 0 \in 0..Len(lists) /\ Len(lists) \in 0..Len(lists)
  BY <1>2
<1>5. s[0] = p /\ Pages!Feed(parser, p, FlattenSeq(lists)) = s[Len(lists)]
  BY <1>1, <1>3, <1>4, FeedNone
<1>6. ASSUME NEW n \in 1..Len(lists) PROVE s[n] = Pages!Feed(parser, s[n - 1], lists[n])
  <2>1. n - 1 \in 0..Len(lists) /\ n \in 0..Len(lists)
    BY <1>2
  <2>2. f[n - 1] \in Seq(T) /\ lists[n] \in Seq(T) /\ f[n] = f[n - 1] \o lists[n]
    BY <1>1, <1>2, <2>1
  <2>3. Pages!Feed(parser, p, f[n]) = Pages!Feed(parser, Pages!Feed(parser, p, f[n - 1]), lists[n])
    BY <2>2, FeedConcat
  <2>. QED BY <1>3, <2>1, <2>3
<1>. QED BY <1>5, <1>6

-----------------------------------------------------------------------------
(***************************************************************************)
(* The parser of search results, event by event: the products begun so     *)
(* far, the link of a title, and what is being read.                       *)
(***************************************************************************)
\* A field is being read, depth elements in.
Reading(field, depth, text) == [capture |-> field, depth |-> depth, text |-> text]

LEMMA ReadingNothing ==
    /\ Pages!Deeper(Pages!Idle) = Pages!Idle /\ Pages!Shallower(Pages!Idle) = Pages!Idle
    /\ ~Pages!Closes(Pages!Idle)
    /\ \A piece : Pages!Hear(Pages!Idle, piece) = Pages!Idle
    /\ \A field : Pages!StartCapture(Pages!Idle, field) = Reading(field, 1, <<>>)
BY DEF Pages!Deeper, Pages!Shallower, Pages!Closes, Pages!Hear, Pages!StartCapture, Pages!Idle, Reading

\* What the parser of search results holds.
OnPage(p, list, link, r) ==
    /\ DOMAIN p = {"products", "inTitle", "link", "reading"}
    /\ p.products = list /\ p.link = link /\ p.reading = r

LEMMA StartIs ==
    ASSUME NEW p, NEW tag, NEW mark, NEW value
    PROVE  LET e == Pages!Start(tag, mark, value)
           IN  /\ Pages!Handle("search", p, e) = Pages!ReadStart(p, e)
               /\ Pages!Handle("detail", p, e) = Pages!DetailStart(p, e)
               /\ e.tag = tag /\ e.mark = mark /\ e.value = value
BY DEF Pages!Handle, Pages!ReadEvent, Pages!DetailEvent, Pages!Start

LEMMA EndIs ==
    ASSUME NEW p, NEW tag
    PROVE  LET e == Pages!End(tag)
           IN  /\ Pages!Handle("search", p, e) = Pages!ReadEnd(p, e)
               /\ Pages!Handle("detail", p, e) = Pages!DetailEnd(p)
               /\ e.tag = tag
BY DEF Pages!Handle, Pages!ReadEvent, Pages!DetailEvent, Pages!End


\* The start of an element is handled one level further in.
LEMMA Deepened ==
    ASSUME NEW p, NEW list, NEW link, NEW r, OnPage(p, list, link, r), NEW e
    PROVE  \E q : /\ Pages!ReadStart(p, e) = Pages!Enter(q, e)
                  /\ OnPage(q, list, link, Pages!Deeper(r)) /\ (q.inTitle <=> p.inTitle)
<1>. DEFINE q == [p EXCEPT !.reading = Pages!Deeper(@)]
<1>1. OnPage(q, list, link, Pages!Deeper(r)) /\ (q.inTitle <=> p.inTitle)
  BY DEF OnPage
<1>. HIDE DEF q
<1>2. Pages!ReadStart(p, e) = Pages!Enter(q, e)
  BY DEF Pages!ReadStart, q
<1>. QED BY <1>1, <1>2

LEMMA TitleStarts ==
    ASSUME NEW p, NEW list, NEW link, NEW r, OnPage(p, list, link, r)
    PROVE  LET q == Pages!Handle("search", p, Pages!Start("h2", "product-name", "none"))
           IN  OnPage(q, list, link, Pages!Deeper(r)) /\ q.inTitle
<1>. DEFINE e == Pages!Start("h2", "product-name", "none")
<1>1. Pages!Handle("search", p, e) = Pages!ReadStart(p, e) /\ e.tag = "h2" /\ e.mark = "product-name"
  BY StartIs
<1>. HIDE DEF e
<1>2. PICK q : /\ Pages!ReadStart(p, e) = Pages!Enter(q, e)
               /\ OnPage(q, list, link, Pages!Deeper(r))
  BY Deepened
<1>3. Pages!Enter(q, e) = [q EXCEPT !.inTitle = TRUE]
  BY <1>1 DEF Pages!Enter
<1>4. OnPage([q EXCEPT !.inTitle = TRUE], list, link, Pages!Deeper(r))
  BY <1>2 DEF OnPage
<1>5. [q EXCEPT !.inTitle = TRUE].inTitle
  BY <1>2 DEF OnPage
<1>. QED BY <1>1, <1>2, <1>3, <1>4, <1>5, Zenon DEF e

LEMMA LinkStarts ==
    ASSUME NEW p, NEW list, NEW link, NEW r, NEW title, OnPage(p, list, link, r), p.inTitle
    PROVE  LET q == Pages!Handle("search", p, Pages!Start("a", "none", title))
           IN  OnPage(q, list, <<title>>, Pages!Deeper(r)) /\ q.inTitle
<1>. DEFINE e == Pages!Start("a", "none", title)
<1>1. Pages!Handle("search", p, e) = Pages!ReadStart(p, e) /\ e.tag = "a" /\ e.value = title
  BY StartIs
<1>. HIDE DEF e
<1>2. PICK q : /\ Pages!ReadStart(p, e) = Pages!Enter(q, e)
               /\ OnPage(q, list, link, Pages!Deeper(r)) /\ q.inTitle
  BY Deepened
<1>3. OnPage(Pages!Enter(q, e), list, <<title>>, Pages!Deeper(r))
  BY <1>1, <1>2 DEF OnPage, Pages!Enter
<1>4. Pages!Enter(q, e).inTitle
  BY <1>1, <1>2 DEF OnPage, Pages!Enter
<1>. QED BY <1>1, <1>2, <1>3, <1>4, Zenon DEF e

\* It is outside of a title.
Left(p, list, r) == OnPage(p, list, <<>>, r) /\ ~p.inTitle

\* The end of a tag that closes no field.
LEMMA Lifted ==
    ASSUME NEW p, NEW e, NEW list, NEW r, OnPage(p, list, <<>>, r), ~Pages!Closes(Pages!Shallower(r))
    PROVE  LET q == Pages!ReadEnd(p, e)
           IN  /\ OnPage(q, list, <<>>, Pages!Shallower(r))
               /\ q.inTitle <=> IF e.tag = "h2" THEN FALSE ELSE p.inTitle
<1>. DEFINE left == [p EXCEPT !.inTitle = IF e.tag = "h2" THEN FALSE ELSE @,
                              !.reading = Pages!Shallower(@)]
<1>1. OnPage(left, list, <<>>, Pages!Shallower(r))
  BY DEF OnPage
<1>2. left.inTitle <=> IF e.tag = "h2" THEN FALSE ELSE p.inTitle
  BY DEF OnPage
<1>3. p.link = <<>> /\ left.reading = Pages!Shallower(r)
  BY <1>1 DEF OnPage
<1>4. Pages!ReadEnd(p, e) = left
  BY <1>3, Zenon DEF Pages!ReadEnd
<1>. HIDE DEF left
<1>. QED BY <1>1, <1>2, <1>4

LEMMA TitleEnds ==
    ASSUME NEW p, NEW list, NEW r, OnPage(p, list, <<>>, r), ~Pages!Closes(Pages!Shallower(r))
    PROVE  LET q == Pages!Handle("search", p, Pages!End("h2"))
           IN  OnPage(q, list, <<>>, Pages!Shallower(r)) /\ ~q.inTitle
<1>. DEFINE e == Pages!End("h2")
<1>1. Pages!Handle("search", p, e) = Pages!ReadEnd(p, e) /\ e.tag = "h2"
  BY EndIs
<1>. HIDE DEF e
<1>2. OnPage(Pages!ReadEnd(p, e), list, <<>>, Pages!Shallower(r)) /\ ~Pages!ReadEnd(p, e).inTitle
  BY <1>1, Lifted
<1>. QED BY <1>1, <1>2, Zenon DEF e

LEMMA OtherEnds ==
    ASSUME NEW p, NEW list, NEW r, Left(p, list, r), ~Pages!Closes(Pages!Shallower(r)), NEW tag
    PROVE  Left(Pages!Handle("search", p, Pages!End(tag)), list, Pages!Shallower(r))
<1>. DEFINE e == Pages!End(tag)
<1>1. Pages!Handle("search", p, e) = Pages!ReadEnd(p, e)
  BY EndIs
<1>. HIDE DEF e
<1>2. OnPage(Pages!ReadEnd(p, e), list, <<>>, Pages!Shallower(r)) /\ ~Pages!ReadEnd(p, e).inTitle
  BY Lifted DEF Left
<1>. QED BY <1>1, <1>2, Zenon DEF e, Left

\* The product the end of a title's link begins.
NewRow(list, title) ==
    [Pages!Unfilled EXCEPT !["title"] = <<title>>, !["position"] = <<Len(list) + 1>>]

LEMMA LinkEnds ==
    ASSUME NEW p, NEW list, NEW r, NEW title, OnPage(p, list, <<title>>, r), p.inTitle,
           ~Pages!Closes(Pages!Shallower(r))
    PROVE  LET q == Pages!Handle("search", p, Pages!End("a"))
           IN  OnPage(q, Append(list, NewRow(list, title)), <<>>, Pages!Shallower(r)) /\ q.inTitle
<1>. DEFINE e == Pages!End("a")
            more == Append(list, NewRow(list, title))
            begun == [p EXCEPT !.link = <<>>, !.products = more]
            left == [begun EXCEPT !.inTitle = IF e.tag = "h2" THEN FALSE ELSE @,
                                  !.reading = Pages!Shallower(@)]
<1>1. Pages!Handle("search", p, e) = Pages!ReadEnd(p, e) /\ e.tag = "a"
  BY EndIs
<1>2. p.link = <<title>> /\ p.products = list /\ p.link # <<>>
  BY DEF OnPage
<1>3. Pages!Begin(p) = begun
  BY <1>2, Zenon DEF Pages!Begin, NewRow
<1>. HIDE DEF e, more
<1>4. OnPage(begun, more, <<>>, r) /\ begun.inTitle
  BY DEF OnPage
<1>. HIDE DEF begun
<1>5. OnPage(left, more, <<>>, Pages!Shallower(r))
  BY <1>4 DEF OnPage
<1>6. left.inTitle
  BY <1>1, <1>4 DEF OnPage
<1>7. left.reading = Pages!Shallower(r)
  BY <1>5 DEF OnPage
<1>8. Pages!ReadEnd(p, e) = left
  BY <1>1, <1>2, <1>3, <1>7, Zenon DEF Pages!ReadEnd
<1>. HIDE DEF left
<1>. QED BY <1>1, <1>5, <1>6, <1>8, Zenon DEF e, more

LEMMA TextRead ==
    ASSUME NEW p, NEW list, NEW r, NEW piece, Left(p, list, r)
    PROVE  Left(Pages!Handle("search", p, Pages!Text(piece)), list, Pages!Hear(r, piece))
<1>. DEFINE q == [p EXCEPT !.reading = Pages!Hear(@, piece)]
<1>1. Pages!Handle("search", p, Pages!Text(piece)) = q
  BY DEF Pages!Handle, Pages!ReadEvent, Pages!Text
<1>2. Left(q, list, Pages!Hear(r, piece))
  BY DEF Left, OnPage
<1>. HIDE DEF q
<1>. QED BY <1>1, <1>2

\* A list, whatever is in it.
IsList(list) == list \in Seq(ToSet(list))

LEMMA LastOf ==
    ASSUME NEW list, IsList(list), NEW row
    PROVE  LET more == Append(list, row)
           IN  /\ Len(more) = Len(list) + 1 /\ Last(more) = row /\ more # <<>> /\ IsList(more)
               /\ \A new : [more EXCEPT ![Len(more)] = new] = Append(list, new)
               /\ \A i \in 1..Len(list) : more[i] = list[i]
<1>. DEFINE n == Len(list)  more == Append(list, row)
<1>1. n \in Nat /\ list \in Seq(ToSet(list))
  BY DEF IsList
<1>2. /\ more \in Seq(ToSet(list) \cup {row}) /\ Len(more) = n + 1 /\ more[n + 1] = row
      /\ DOMAIN more = 1..(n + 1) /\ \A i \in 1..n : more[i] = list[i]
  BY <1>1
<1>3. ASSUME NEW new PROVE [more EXCEPT ![n + 1] = new] = Append(list, new)
  <2>. DEFINE U == ToSet(list) \cup {row, new}
              l == [more EXCEPT ![n + 1] = new]  r == Append(list, new)
  <2>1. list \in Seq(U)
    BY <1>1
  <2>2. r \in Seq(U) /\ Len(r) = n + 1 /\ r[n + 1] = new /\ \A i \in 1..n : r[i] = list[i]
    <3>. HIDE DEF U, more
    <3>1. new \in U
      BY DEF U
    <3>. QED BY <1>1, <2>1, <3>1
  <2>. HIDE DEF more, r
  <2>3. DOMAIN l = 1..(n + 1) /\ l[n + 1] = new /\ \A i \in 1..n : l[i] = list[i]
    BY <1>1, <1>2
  <2>4. l = [i \in 1..(n + 1) |-> l[i]]
    BY <1>2 DEF l
  <2>41. r = [i \in 1..(n + 1) |-> r[i]]
    BY <1>1, <1>2, <2>2
  <2>. HIDE DEF l
  <2>5. \A i \in 1..(n + 1) : l[i] = r[i]
    <3>1. \A i \in 1..(n + 1) : i = n + 1 \/ i \in 1..n
      BY <1>1
    <3>. QED BY <2>2, <2>3, <3>1
  <2>6. l = r
    BY <2>4, <2>41, <2>5
  <2>. QED BY <2>6 DEF l, r
<1>4. more[Len(more)] = row /\ Len(more) # 0
  BY <1>1, <1>2
<1>5. Last(more) = row /\ more # <<>>
  <2>. HIDE DEF more
  <2>. QED BY <1>1, <1>2, <1>4 DEF Last
<1>6. IsList(more)
  <2>1. more \in Seq(ToSet(more))
    <3>. HIDE DEF more
    <3>1. \A i \in 1..(n + 1) : more[i] \in ToSet(more)
      BY <1>2 DEF ToSet
    <3>. QED BY <1>1, <1>2, <3>1
  <2>. QED BY <2>1 DEF IsList
<1>. HIDE DEF more
<1>. QED BY <1>2, <1>3, <1>5, <1>6 DEF more

\* A field is put into the last product, and into no other.
LEMMA PutLast ==
    ASSUME NEW p, NEW list, IsList(list), NEW row, NEW link, NEW r,
           OnPage(p, Append(list, row), link, r), NEW field, NEW x
    PROVE  LET q == Pages!Put(p, field, x)
           IN  /\ OnPage(q, Append(list, [row EXCEPT ![field] = x]), link, r)
               /\ q.inTitle <=> p.inTitle
<1>. DEFINE more == Append(list, row)  new == [row EXCEPT ![field] = x]
            q == [p EXCEPT !.products = [@ EXCEPT ![Len(more)] = new]]
<1>1. /\ more[Len(more)] = row
      /\ [more EXCEPT ![Len(more)] = new] = Append(list, new)
  BY LastOf DEF Last
<1>2. p.products = more
  BY DEF OnPage
<1>. HIDE DEF more
<1>3. Pages!Put(p, field, x) = q
  BY <1>1, <1>2, Zenon DEF Pages!Put
<1>. HIDE DEF new
<1>4. OnPage(q, Append(list, new), link, r) /\ (q.inTitle <=> p.inTitle)
  BY <1>1, <1>2 DEF OnPage
<1>. HIDE DEF q
<1>. QED BY <1>3, <1>4 DEF new

\* The product at hand is row, behind those in list.
Held(p, list, row, r) == Left(p, Append(list, row), r)

LEMMA HeldStarts ==
    ASSUME NEW p, NEW list, IsList(list), NEW row, NEW r, Held(p, list, row, r), NEW e, e.tag # "h2"
    PROVE  \E q : Pages!ReadStart(p, e) = Pages!Fill(q, e) /\ Held(q, list, row, Pages!Deeper(r))
<1>. DEFINE more == Append(list, row)
<1>1. more # <<>>
  BY LastOf
<1>. HIDE DEF more
<1>2. OnPage(p, more, <<>>, r) /\ ~p.inTitle
  BY DEF Held, Left, more
<1>3. PICK q : /\ Pages!ReadStart(p, e) = Pages!Enter(q, e)
               /\ OnPage(q, more, <<>>, Pages!Deeper(r)) /\ (q.inTitle <=> p.inTitle)
  BY <1>2, Deepened
<1>4. q.products = more /\ ~q.inTitle
  BY <1>2, <1>3 DEF OnPage
<1>5. Pages!Enter(q, e) = Pages!Fill(q, e)
  BY <1>1, <1>4 DEF Pages!Enter
<1>. QED BY <1>3, <1>4, <1>5 DEF Held, Left, more

\* A capture that is begun, or not, changes only what is read.
LEMMA HeldReads ==
    ASSUME NEW p, NEW list, NEW row, NEW r, Held(p, list, row, r), NEW field
    PROVE  Held([p EXCEPT !.reading = Pages!StartCapture(@, field)], list, row, Pages!StartCapture(r, field))
BY DEF Held, Left, OnPage

LEMMA HeldPuts ==
    ASSUME NEW p, NEW list, IsList(list), NEW row, NEW r, Held(p, list, row, r), NEW field, NEW x
    PROVE  Held(Pages!Put(p, field, x), list, [row EXCEPT ![field] = x], r)
BY PutLast DEF Held, Left

LEMMA HeldHas ==
    ASSUME NEW p, NEW list, IsList(list), NEW row, NEW r, Held(p, list, row, r), NEW field
    PROVE  Pages!Has(p, field) <=> row[field] # <<>>
<1>1. Last(Append(list, row)) = row
  BY LastOf
<1>2. p.products = Append(list, row)
  BY DEF Held, Left, OnPage
<1>3. Pages!Last(p.products) = row
  BY <1>1, <1>2, Zenon DEF Last, Pages!Last
<1>. DEFINE x == Pages!Last(p.products)
<1>4. Pages!Has(p, field) <=> x[field] # <<>>
  BY DEF Pages!Has
<1>. HIDE DEF x
<1>. QED BY <1>3, <1>4 DEF x

LEMMA PlainStarts ==
    ASSUME NEW p, NEW list, IsList(list), NEW row, NEW r, Held(p, list, row, r),
           NEW tag, tag \notin {"h2", "img"}
    PROVE  Held(Pages!Handle("search", p, Pages!Start(tag, "none", "none")), list, row, Pages!Deeper(r))
<1>. DEFINE e == Pages!Start(tag, "none", "none")
<1>1. Pages!Handle("search", p, e) = Pages!ReadStart(p, e) /\ e.tag = tag /\ e.mark = "none"
  BY StartIs
<1>. HIDE DEF e
<1>2. PICK q : Pages!ReadStart(p, e) = Pages!Fill(q, e) /\ Held(q, list, row, Pages!Deeper(r))
  BY <1>1, HeldStarts
<1>3. Pages!Fill(q, e) = q
  BY <1>1 DEF Pages!Fill, Pages!CardFields, Pages!CompanyMarks
<1>. QED BY <1>1, <1>2, <1>3, Zenon DEF e

LEMMA PriceStarts ==
    ASSUME NEW p, NEW list, IsList(list), NEW row, NEW r, Held(p, list, row, r)
    PROVE  Held(Pages!Handle("search", p, Pages!Start("div", "priceText", "none")), list, row,
                Pages!StartCapture(Pages!Deeper(r), "priceText"))
<1>. DEFINE e == Pages!Start("div", "priceText", "none")
<1>1. Pages!Handle("search", p, e) = Pages!ReadStart(p, e) /\ e.tag = "div" /\ e.mark = "priceText"
  BY StartIs
<1>. HIDE DEF e
<1>2. PICK q : Pages!ReadStart(p, e) = Pages!Fill(q, e) /\ Held(q, list, row, Pages!Deeper(r))
  BY <1>1, HeldStarts
<1>3. Pages!Fill(q, e) = [q EXCEPT !.reading = Pages!StartCapture(@, "priceText")]
  BY <1>1 DEF Pages!Fill, Pages!CardFields
<1>4. Held([q EXCEPT !.reading = Pages!StartCapture(@, "priceText")], list, row,
           Pages!StartCapture(Pages!Deeper(r), "priceText"))
  BY <1>2, HeldReads
<1>. QED BY <1>1, <1>2, <1>3, <1>4, Zenon DEF e

\* An image is taken for a row that has none.
LEMMA ImageStarts ==
    ASSUME NEW p, NEW list, IsList(list), NEW row, NEW r, Held(p, list, row, r), NEW image
    PROVE  Held(Pages!Handle("search", p, Image(image)), list,
                IF row["imageUrl"] = <<>> THEN [row EXCEPT !["imageUrl"] = <<image>>] ELSE row,
                Pages!Deeper(r))
<1>. DEFINE e == Pages!Start("img", "none", image)
<1>1. Pages!Handle("search", p, e) = Pages!ReadStart(p, e) /\ e.tag = "img" /\ e.mark = "none" /\ e.value = image
  BY StartIs
<1>2. Image(image) = e
  BY DEF Image
<1>. HIDE DEF e
<1>3. PICK q : Pages!ReadStart(p, e) = Pages!Fill(q, e) /\ Held(q, list, row, Pages!Deeper(r))
  BY <1>1, HeldStarts
<1>4. Pages!Has(q, "imageUrl") <=> row["imageUrl"] # <<>>
  BY <1>3, HeldHas
<1>5. CASE row["imageUrl"] = <<>>
  <2>1. Pages!Fill(q, e) = Pages!Put(q, "imageUrl", <<image>>)
    BY <1>1, <1>4, <1>5 DEF Pages!Fill, Pages!CardFields
  <2>2. Held(Pages!Put(q, "imageUrl", <<image>>), list, [row EXCEPT !["imageUrl"] = <<image>>], Pages!Deeper(r))
    BY <1>3, HeldPuts
  <2>. QED BY <1>1, <1>2, <1>3, <1>5, <2>1, <2>2, Zenon
<1>6. CASE row["imageUrl"] # <<>>
  <2>1. Pages!Fill(q, e) = q
    BY <1>1, <1>4, <1>6 DEF Pages!Fill, Pages!CardFields
  <2>. QED BY <1>1, <1>2, <1>3, <1>6, <2>1, Zenon
<1>. QED BY <1>5, <1>6

LEMMA SupplierStarts ==
    ASSUME NEW p, NEW list, IsList(list), NEW row, NEW r, Held(p, list, row, r),
           NEW mark \in Pages!CompanyMarks, NEW value
    PROVE  Held(Pages!Handle("search", p, Pages!Start("a", mark, value)), list,
                LET linked == [row EXCEPT !["supplierUrl"] = <<value>>]
                IN  IF mark = "titled company-name" THEN [linked EXCEPT !["supplierName"] = <<value>>]
                    ELSE linked,
                Pages!StartCapture(Pages!Deeper(r), "supplierName"))
<1>. DEFINE e == Pages!Start("a", mark, value)
            linked == [row EXCEPT !["supplierUrl"] = <<value>>]
            named == [linked EXCEPT !["supplierName"] = <<value>>]
            new == IF mark = "titled company-name" THEN named ELSE linked
<1>1. /\ Pages!Handle("search", p, e) = Pages!ReadStart(p, e)
      /\ e.tag = "a" /\ e.mark = mark /\ e.value = value
  BY StartIs
<1>. HIDE DEF e
<1>2. PICK q : Pages!ReadStart(p, e) = Pages!Fill(q, e) /\ Held(q, list, row, Pages!Deeper(r))
  BY <1>1, HeldStarts
<1>. DEFINE l == Pages!Put(q, "supplierUrl", <<value>>)  u == Pages!PutCompany(q, e)
<1>3. Pages!Fill(q, e) = [u EXCEPT !.reading = Pages!StartCapture(@, "supplierName")]
  <2>1. ~(e.tag = "img" /\ ~Pages!Has(q, "imageUrl"))
    BY <1>1
  <2>2. e.mark \in Pages!CompanyMarks /\ e.mark \notin Pages!CardFields
    BY <1>1 DEF Pages!CompanyMarks, Pages!CardFields
  <2>. HIDE DEF u
  <2>3. Pages!Fill(q, e) = [Pages!PutCompany(q, e) EXCEPT !.reading = Pages!StartCapture(@, "supplierName")]
    BY <1>1, <2>1, <2>2 DEF Pages!Fill
  <2>. QED BY <2>3 DEF u
<1>4. Held(l, list, linked, Pages!Deeper(r))
  BY <1>2, HeldPuts
<1>. HIDE DEF linked
<1>5. Held(Pages!Put(l, "supplierName", <<value>>), list, named, Pages!Deeper(r))
  <2>. HIDE DEF l
  <2>. QED BY <1>4, HeldPuts
<1>6. u = IF mark = "titled company-name" THEN Pages!Put(l, "supplierName", <<value>>) ELSE l
  BY <1>1, Zenon DEF Pages!PutCompany
<1>. HIDE DEF l, u, named
<1>7. Held(u, list, new, Pages!Deeper(r))
  BY <1>4, <1>5, <1>6, Zenon
<1>. HIDE DEF new
<1>8. Held([u EXCEPT !.reading = Pages!StartCapture(@, "supplierName")], list, new,
           Pages!StartCapture(Pages!Deeper(r), "supplierName"))
  BY <1>7, HeldReads
<1>. QED BY <1>1, <1>2, <1>3, <1>8, Zenon DEF e, new, named, linked

\* The end of the element that a field was read from.
LEMMA FieldEnds ==
    ASSUME NEW p, NEW list, IsList(list), NEW row, NEW field, field # "none", NEW text, text # <<>>,
           Held(p, list, row, Reading(field, 1, text)), NEW tag, tag # "h2"
    PROVE  Held(Pages!Handle("search", p, Pages!End(tag)), list, [row EXCEPT ![field] = text], Pages!Idle)
<1>. DEFINE e == Pages!End(tag)  new == [row EXCEPT ![field] = text]
            r == Reading(field, 1, text)  less == Reading(field, 0, text)
            left == [p EXCEPT !.inTitle = IF e.tag = "h2" THEN FALSE ELSE @,
                              !.reading = Pages!Shallower(@)]
<1>1. Pages!Handle("search", p, e) = Pages!ReadEnd(p, e) /\ e.tag = tag
  BY EndIs
<1>2. Pages!Shallower(r) = less /\ Pages!Closes(less) /\ less.text = text /\ less.capture = field
  <2>1. Pages!Shallower(r) = Reading(field, 1 - 1, text)
    BY DEF Pages!Shallower, Reading
  <2>2. Pages!Closes(less) /\ less.text = text /\ less.capture = field
    BY DEF Pages!Closes, Reading
  <2>3. 1 - 1 = 0
    OBVIOUS
  <2>. HIDE DEF r
  <2>. QED BY <2>1, <2>2, <2>3
<1>3. p.link = <<>> /\ p.reading = r
  BY DEF Held, Left, OnPage
<1>. HIDE DEF r, less, e
<1>4. Held(left, list, row, less)
  BY <1>1, <1>2, <1>3 DEF Held, Left, OnPage, r
<1>5. left.reading = less /\ left.products # <<>>
  <2>1. Append(list, row) # <<>>
    BY LastOf
  <2>. QED BY <1>4, <2>1 DEF Held, Left, OnPage
<1>6. Pages!ReadEnd(p, e) = [Pages!Put(left, field, text) EXCEPT !.reading = Pages!Idle]
  <2>1. Pages!Closes(left.reading) /\ left.reading.text = text /\ left.reading.capture = field
    BY <1>2, <1>5
  <2>. QED BY <1>3, <1>5, <2>1, Zenon DEF Pages!ReadEnd
<1>. DEFINE u == Pages!Put(left, field, text)
<1>7. Held(u, list, new, less)
  BY <1>4, HeldPuts
<1>. HIDE DEF u, left, new
<1>8. Held([u EXCEPT !.reading = Pages!Idle], list, new, Pages!Idle)
  BY <1>7 DEF Held, Left, OnPage
<1>. QED BY <1>1, <1>6, <1>8, Zenon DEF u, e, new

-----------------------------------------------------------------------------
(***************************************************************************)
(* Elements, titles, prices and suppliers, as lists of events.             *)
(***************************************************************************)
LEMMA ListOf == ASSUME NEW T, NEW s \in Seq(T) PROVE IsList(s)
<1>1. \A i \in 1..Len(s) : s[i] \in ToSet(s)
  BY DEF ToSet
<1>. QED BY <1>1 DEF IsList

LEMMA ShortLists ==
    /\ IsList(<<>>) /\ \A d : IsList(<<d>>)
    /\ \A d, e : IsList(<<d, e>>)
    /\ \A d, e, f : IsList(<<d, e, f>>)
<1>1. IsList(<<>>)
  <2>1. <<>> \in Seq({})
    OBVIOUS
  <2>. QED BY <2>1, ListOf
<1>2. ASSUME NEW d PROVE IsList(<<d>>)
  <2>1. <<d>> \in Seq({d})
    OBVIOUS
  <2>. QED BY <2>1, ListOf
<1>3. ASSUME NEW d, NEW e PROVE IsList(<<d, e>>)
  <2>1. <<d, e>> \in Seq({d, e})
    OBVIOUS
  <2>. QED BY <2>1, ListOf
<1>4. ASSUME NEW d, NEW e, NEW f PROVE IsList(<<d, e, f>>)
  <2>1. <<d, e, f>> \in Seq({d, e, f})
    OBVIOUS
  <2>. QED BY <2>1, ListOf
<1>. QED BY <1>1, <1>2, <1>3, <1>4

LEMMA FeedAfter ==
    ASSUME NEW parser, NEW p, NEW a, NEW b, IsList(a), IsList(b)
    PROVE  /\ IsList(a \o b)
           /\ Pages!Feed(parser, p, a \o b) = Pages!Feed(parser, Pages!Feed(parser, p, a), b)
<1>. DEFINE E == ToSet(a) \cup ToSet(b)
<1>1. a \in Seq(E) /\ b \in Seq(E)
  BY DEF IsList
<1>. HIDE DEF E
<1>2. a \o b \in Seq(E)
  BY <1>1
<1>3. IsList(a \o b)
  <2>. DEFINE c == a \o b
  <2>. HIDE DEF c
  <2>1. c \in Seq(E)
    BY <1>2 DEF c
  <2>2. IsList(c)
    BY <2>1, ListOf
  <2>. QED BY <2>2 DEF c
<1>4. Pages!Feed(parser, p, a \o b) = Pages!Feed(parser, Pages!Feed(parser, p, a), b)
  BY <1>1, FeedConcat
<1>. QED BY <1>3, <1>4

LEMMA ElementFed ==
    ASSUME NEW parser, NEW p, NEW inside, IsList(inside), NEW tag, NEW mark
    PROVE  /\ IsList(Element(tag, mark, inside))
           /\ Pages!Feed(parser, p, Element(tag, mark, inside)) = Inside(parser, p, tag, mark, inside)
<1>. DEFINE T == ToSet(inside)  el == Element(tag, mark, inside)
            E == T \cup {Pages!Start(tag, mark, "none"), Pages!End(tag)}
<1>1. inside \in Seq(T)
  BY DEF IsList
<1>. HIDE DEF T
<1>2. el \in Seq(E) /\ Pages!Feed(parser, p, el) = Inside(parser, p, tag, mark, inside)
  BY <1>1, FeedElement, ZenonT(40)
<1>. HIDE DEF el, E
<1>3. IsList(el)
  BY <1>2, ListOf
<1>. QED BY <1>2, <1>3 DEF el

\* The same for lists of any kind of events.
LEMMA ListsFed ==
    ASSUME NEW parser, NEW p, NEW lists, IsList(lists), \A i \in 1..Len(lists) : IsList(lists[i])
    PROVE  \E s : /\ s[0] = p /\ Pages!Feed(parser, p, FlattenSeq(lists)) = s[Len(lists)]
                  /\ \A n \in 1..Len(lists) : s[n] = Pages!Feed(parser, s[n - 1], lists[n])
<1>. DEFINE T == UNION {ToSet(lists[i]) : i \in 1..Len(lists)}
<1>1. lists \in Seq(ToSet(lists)) /\ Len(lists) \in Nat
  BY DEF IsList
<1>2. ASSUME NEW i \in 1..Len(lists) PROVE lists[i] \in Seq(T)
  <2>1. lists[i] \in Seq(ToSet(lists[i])) /\ ToSet(lists[i]) \subseteq T
    BY DEF IsList
  <2>. HIDE DEF T
  <2>. QED BY <2>1
<1>. HIDE DEF T
<1>3. lists \in Seq(Seq(T))
  BY <1>1, <1>2
<1>. QED BY <1>3, FeedJoined

-----------------------------------------------------------------------------
\* Nothing is read, or what is read is at least one element in.
Steady(r) == r = Pages!Idle \/ \E d \in Nat \ {0} : \E text : r = Reading("priceText", d, text)

\* Within a title nothing of that is closed, and it ends as deep as it began.
LEMMA SteadyIs ==
    ASSUME NEW r, Steady(r)
    PROVE  /\ Steady(Pages!Deeper(r)) /\ Pages!Shallower(Pages!Deeper(r)) = r /\ ~Pages!Closes(r)
<1>1. CASE r = Pages!Idle
  BY <1>1, ReadingNothing, Zenon DEF Steady
<1>2. ASSUME NEW d \in Nat \ {0}, NEW text, r = Reading("priceText", d, text)
      PROVE  /\ Steady(Pages!Deeper(r)) /\ Pages!Shallower(Pages!Deeper(r)) = r /\ ~Pages!Closes(r)
  <2>. DEFINE more == Reading("priceText", d + 1, text)
  <2>1. Pages!Deeper(r) = more
    BY <1>2 DEF Pages!Deeper, Reading
  <2>2. (d + 1) - 1 = d /\ d + 1 \in Nat \ {0}
    BY <1>2
  <2>3. Pages!Shallower(more) = Reading("priceText", (d + 1) - 1, text)
    BY DEF Pages!Shallower, Reading
  <2>4. ~Pages!Closes(r)
    BY <1>2 DEF Pages!Closes, Reading
  <2>5. Steady(more)
    BY <2>2 DEF Steady
  <2>. HIDE DEF more
  <2>. QED BY <1>2, <2>1, <2>2, <2>3, <2>4, <2>5
<1>. QED BY <1>1, <1>2 DEF Steady

\* The four parts of a card.
Title(name) == Element("h2", "product-name", <<Pages!Start("a", "none", name), Pages!End("a")>>)

\* A title begins a product, also while an earlier price is still read.
LEMMA TitleRead ==
    ASSUME NEW p, NEW list, NEW r, Left(p, list, r), Steady(r), NEW name
    PROVE  IsList(Title(name)) /\ Held(Pages!Feed("search", p, Title(name)), list, NewRow(list, name), r)
<1>. DEFINE in == <<Pages!Start("a", "none", name), Pages!End("a")>>
            more == Append(list, NewRow(list, name))
            q1 == Pages!Handle("search", p, Pages!Start("h2", "product-name", "none"))
            q2 == Pages!Handle("search", q1, Pages!Start("a", "none", name))
            q3 == Pages!Handle("search", q2, Pages!End("a"))
            q4 == Pages!Handle("search", q3, Pages!End("h2"))
            r1 == Pages!Deeper(r)  r2 == Pages!Deeper(r1)
<1>1. IsList(in) /\ Pages!Feed("search", q1, in) = q3
  BY ShortLists, FeedTwo
<1>2. IsList(Title(name)) /\ Pages!Feed("search", p, Title(name)) = q4
  <2>. HIDE DEF in, q3
  <2>1. /\ IsList(Element("h2", "product-name", in))
        /\ Pages!Feed("search", p, Element("h2", "product-name", in)) = Inside("search", p, "h2", "product-name", in)
    BY <1>1, ElementFed
  <2>. QED BY <1>1, <2>1 DEF Inside, Title, in
<1>3. /\ Pages!Shallower(r1) = r /\ Pages!Shallower(r2) = r1 /\ ~Pages!Closes(r) /\ ~Pages!Closes(r1)
  BY SteadyIs
<1>4. OnPage(p, list, <<>>, r)
  BY DEF Left
<1>5. OnPage(q1, list, <<>>, r1) /\ q1.inTitle
  BY <1>4, TitleStarts
<1>. HIDE DEF q1, r1
<1>6. OnPage(q2, list, <<name>>, r2) /\ q2.inTitle
  BY <1>5, LinkStarts
<1>. HIDE DEF q2, r2
<1>7. OnPage(q3, more, <<>>, r1) /\ q3.inTitle
  <2>1. OnPage(q3, more, <<>>, Pages!Shallower(r2)) /\ q3.inTitle
    BY <1>3, <1>6, LinkEnds
  <2>. QED BY <1>3, <2>1
<1>. HIDE DEF q3, more
<1>8. OnPage(q4, more, <<>>, r) /\ ~q4.inTitle
  <2>1. OnPage(q4, more, <<>>, Pages!Shallower(r1)) /\ ~q4.inTitle
    BY <1>3, <1>7, TitleEnds
  <2>. QED BY <1>3, <2>1
<1>. QED BY <1>2, <1>8 DEF Held, Left, more

\* Predicates of a card, by which lemmas are instantiated.
HasPrice(card) == card.price \in {"plain", "nested", "broken line"}

IsCard(card) ==
    card.price \in {"none", "plain", "nested", "broken line"} /\ card.link \in Pages!CompanyMarks

Price(card) == Element("div", "priceText", PriceOf(card))

Supplier(card) ==
    <<Pages!Start("a", card.link, card.name), Pages!Text(card.supplier), Pages!End("a")>>

\* What a state of the parser becomes over the inside of a price.
PriceSteps(parser, p, card) ==
    CASE card.price = "plain" -> Pages!Handle(parser, p, Pages!Text(card.name))
      [] card.price = "nested" ->
           Pages!Handle(parser,
               Pages!Handle(parser,
                   Pages!Handle(parser,
                       Pages!Handle(parser, p, Pages!Start("span", "none", "none")),
                       Pages!Text(card.name)),
                   Pages!End("span")),
               Pages!Text("piece"))
      [] card.price = "broken line" ->
           Pages!Handle(parser,
               Pages!Handle(parser, Pages!Handle(parser, p, Pages!Text(card.name)),
                            Pages!Start("br", "none", "none")),
               Pages!Text("piece"))

LEMMA PriceFed ==
    ASSUME NEW parser, NEW p, NEW card, HasPrice(card)
    PROVE  IsList(PriceOf(card)) /\ Pages!Feed(parser, p, PriceOf(card)) = PriceSteps(parser, p, card)
<1>1. CASE card.price = "plain"
  <2>1. PriceOf(card) = <<Pages!Text(card.name)>>
    BY <1>1 DEF PriceOf
  <2>2. PriceSteps(parser, p, card) = Pages!Handle(parser, p, Pages!Text(card.name))
    BY <1>1 DEF PriceSteps
  <2>. QED BY <2>1, <2>2, ShortLists, FeedOne
<1>2. CASE card.price = "nested"
  <2>. DEFINE t == <<Pages!Text(card.name)>>  el == Element("span", "none", t)  end == <<Pages!Text("piece")>>
              q == Pages!Handle(parser, p, Pages!Start("span", "none", "none"))
  <2>1. PriceOf(card) = el \o end
    BY <1>2 DEF PriceOf
  <2>2. IsList(t) /\ IsList(end) /\ Pages!Feed(parser, q, t) = Pages!Handle(parser, q, Pages!Text(card.name))
    BY ShortLists, FeedOne
  <2>3. PriceSteps(parser, p, card) =
          Pages!Handle(parser, Pages!Handle(parser, Pages!Feed(parser, q, t), Pages!End("span")), Pages!Text("piece"))
    BY <1>2, <2>2 DEF PriceSteps
  <2>. HIDE DEF t
  <2>4. IsList(el) /\ Pages!Feed(parser, p, el) = Inside(parser, p, "span", "none", t)
    BY <2>2, ElementFed
  <2>. HIDE DEF el
  <2>5. \A x : Pages!Feed(parser, x, end) = Pages!Handle(parser, x, Pages!Text("piece"))
    BY FeedOne
  <2>. HIDE DEF end
  <2>6. IsList(el \o end) /\ Pages!Feed(parser, p, el \o end) = Pages!Feed(parser, Pages!Feed(parser, p, el), end)
    BY <2>2, <2>4, FeedAfter
  <2>. QED BY <2>1, <2>3, <2>4, <2>5, <2>6 DEF Inside
<1>3. CASE card.price = "broken line"
  <2>. DEFINE d == Pages!Text(card.name)  e == Pages!Start("br", "none", "none")  f == Pages!Text("piece")
  <2>1. PriceOf(card) = <<d, e, f>>
    BY <1>3 DEF PriceOf
  <2>2. PriceSteps(parser, p, card) =
          Pages!Handle(parser, Pages!Handle(parser, Pages!Handle(parser, p, d), e), f)
    BY <1>3 DEF PriceSteps
  <2>. HIDE DEF d, e, f
  <2>. QED BY <2>1, <2>2, ShortLists, FeedThree
<1>. QED BY <1>1, <1>2, <1>3 DEF HasPrice

LEMMA PriceIsList ==
    ASSUME NEW card, HasPrice(card)
    PROVE  IsList(Price(card))
<1>. DEFINE in == PriceOf(card)
<1>1. IsList(in)
  BY PriceFed
<1>. HIDE DEF in
<1>2. IsList(Element("div", "priceText", in))
  BY <1>1, ElementFed
<1>. QED BY <1>2 DEF Price, in

LEMMA PriceElementFed ==
    ASSUME NEW parser, NEW p, NEW card, HasPrice(card)
    PROVE  /\ IsList(Price(card))
           /\ Pages!Feed(parser, p, Price(card)) =
                  Pages!Handle(parser,
                      PriceSteps(parser, Pages!Handle(parser, p, Pages!Start("div", "priceText", "none")), card),
                      Pages!End("div"))
<1>. DEFINE in == PriceOf(card)  q == Pages!Handle(parser, p, Pages!Start("div", "priceText", "none"))
<1>1. IsList(in) /\ Pages!Feed(parser, q, in) = PriceSteps(parser, q, card)
  BY PriceFed
<1>. HIDE DEF in
<1>2. /\ IsList(Element("div", "priceText", in))
      /\ Pages!Feed(parser, p, Element("div", "priceText", in)) = Inside(parser, p, "div", "priceText", in)
  BY <1>1, ElementFed
<1>. QED BY <1>1, <1>2 DEF Price, Inside, in

LEMMA SupplierFed ==
    ASSUME NEW parser, NEW p, NEW card
    PROVE  /\ IsList(Supplier(card))
           /\ Pages!Feed(parser, p, Supplier(card)) =
                  Pages!Handle(parser,
                      Pages!Handle(parser,
                          Pages!Handle(parser, p, Pages!Start("a", card.link, card.name)),
                          Pages!Text(card.supplier)),
                      Pages!End("a"))
BY ShortLists, FeedThree DEF Supplier

\* A card is four parts, one after the other.
LEMMA CardInParts ==
    ASSUME NEW parser, NEW p, NEW card, IsCard(card)
    PROVE  LET q == Pages!Handle(parser, Pages!Feed(parser, p, Title(card.name)), Image(card.name))
           IN  /\ IsList(CardEvents(card))
               /\ Pages!Feed(parser, p, CardEvents(card)) =
                      Pages!Feed(parser,
                          IF card.price = "none" THEN q ELSE Pages!Feed(parser, q, Price(card)),
                          Supplier(card))
<1>. DEFINE one == Title(card.name)  image == <<Image(card.name)>>
            price == IF card.price = "none" THEN <<>> ELSE Price(card)  seller == Supplier(card)
            q == Pages!Handle(parser, Pages!Feed(parser, p, one), Image(card.name))
<1>1. CardEvents(card) = ((one \o image) \o price) \o seller
  BY DEF CardEvents, Title, Price, Supplier
<1>2. IsList(one)
  <2>. DEFINE in == <<Pages!Start("a", "none", card.name), Pages!End("a")>>
  <2>1. IsList(in)
    BY ShortLists
  <2>. HIDE DEF in
  <2>2. IsList(Element("h2", "product-name", in))
    BY <2>1, ElementFed
  <2>. QED BY <2>2 DEF Title, in
<1>3. IsList(image) /\ \A x : Pages!Feed(parser, x, image) = Pages!Handle(parser, x, Image(card.name))
  BY ShortLists, FeedOne
<1>4. /\ IsList(price)
      /\ Pages!Feed(parser, q, price) = IF card.price = "none" THEN q ELSE Pages!Feed(parser, q, Price(card))
  <2>1. CASE card.price = "none"
    <3>1. price = <<>>
      BY <2>1
    <3>. HIDE DEF price, q
    <3>2. Pages!Feed(parser, q, price) = q
      BY <3>1, FeedNone
    <3>. QED BY <2>1, <3>1, <3>2, ShortLists
  <2>2. CASE card.price # "none"
    <3>1. price = Price(card)
      BY <2>2
    <3>2. HasPrice(card)
      BY <2>2 DEF IsCard, HasPrice
    <3>3. IsList(Price(card))
      BY <3>2, PriceIsList
    <3>. HIDE DEF price, q
    <3>. QED BY <2>2, <3>1, <3>3
  <2>. QED BY <2>1, <2>2
<1>5. IsList(seller)
  BY SupplierFed
<1>. DEFINE two == one \o image  all3 == two \o price
<1>. HIDE DEF one, image, price, seller
<1>6. IsList(two) /\ Pages!Feed(parser, p, two) = q
  <2>1. IsList(one \o image) /\ Pages!Feed(parser, p, one \o image) = Pages!Feed(parser, Pages!Feed(parser, p, one), image)
    BY <1>2, <1>3, FeedAfter
  <2>. QED BY <1>3, <2>1
<1>. HIDE DEF two, q
<1>7. IsList(all3) /\ Pages!Feed(parser, p, all3) = Pages!Feed(parser, q, price)
  <2>1. /\ IsList(two \o price)
        /\ Pages!Feed(parser, p, two \o price) = Pages!Feed(parser, Pages!Feed(parser, p, two), price)
    BY <1>4, <1>6, FeedAfter
  <2>. QED BY <1>6, <2>1
<1>. HIDE DEF all3
<1>8. IsList(all3 \o seller) /\ Pages!Feed(parser, p, all3 \o seller) = Pages!Feed(parser, Pages!Feed(parser, p, all3), seller)
  BY <1>5, <1>7, FeedAfter
<1>. QED BY <1>1, <1>4, <1>7, <1>8 DEF one, image, seller, two, all3, q

-----------------------------------------------------------------------------
(***************************************************************************)
(* Cards.  Between two cards either nothing is read, or a price that a     *)
(* broken line has left open is, and goes on being read: titles do not     *)
(* depend on which of the two, all else does.                              *)
(***************************************************************************)
\* The fields of a product that a card gives.
RowIs(row, title, image, price, supplier) ==
    /\ DOMAIN row = Pages!ProductFields
    /\ row["title"] = title /\ row["imageUrl"] = image
    /\ row["priceText"] = price /\ row["supplierName"] = supplier

LEMMA NewRowIs ==
    ASSUME NEW list, NEW name PROVE RowIs(NewRow(list, name), <<name>>, <<>>, <<>>, <<>>)
BY DEF RowIs, NewRow, Pages!Unfilled, Pages!ProductFields, Pages!CardFields

LEMMA RowChanges ==
    ASSUME NEW row, NEW title, NEW image, NEW price, NEW supplier,
           RowIs(row, title, image, price, supplier), NEW x
    PROVE  /\ RowIs([row EXCEPT !["imageUrl"] = x], title, x, price, supplier)
           /\ RowIs([row EXCEPT !["priceText"] = x], title, image, x, supplier)
           /\ RowIs([row EXCEPT !["supplierName"] = x], title, image, price, x)
           /\ RowIs([row EXCEPT !["supplierUrl"] = x], title, image, price, supplier)
BY DEF RowIs, Pages!ProductFields, Pages!CardFields

\* The state in between: the last row is as said, and r is being read.
Stands(p, list, title, image, price, supplier, r) ==
    \E row : RowIs(row, title, image, price, supplier) /\ Held(p, list, row, r)

Seen(p, e) == Pages!Handle("search", p, e)

\* What each event does to it.
LEMMA StandsOn ==
    ASSUME NEW p, NEW list, IsList(list), NEW title, NEW image, NEW price, NEW supplier, NEW r,
           Stands(p, list, title, image, price, supplier, r)
    PROVE  /\ \A tag : tag \notin {"h2", "img"} =>
                Stands(Seen(p, Pages!Start(tag, "none", "none")), list, title, image, price, supplier,
                       Pages!Deeper(r))
           /\ Stands(Seen(p, Pages!Start("div", "priceText", "none")), list, title, image, price, supplier,
                     Pages!StartCapture(Pages!Deeper(r), "priceText"))
           /\ \A mark \in Pages!CompanyMarks : \A value :
                Stands(Seen(p, Pages!Start("a", mark, value)), list, title, image, price,
                       IF mark = "titled company-name" THEN <<value>> ELSE supplier,
                       Pages!StartCapture(Pages!Deeper(r), "supplierName"))
           /\ \A value : Stands(Seen(p, Image(value)), list, title,
                                IF image = <<>> THEN <<value>> ELSE image, price, supplier, Pages!Deeper(r))
           /\ \A piece : Stands(Seen(p, Pages!Text(piece)), list, title, image, price, supplier,
                                Pages!Hear(r, piece))
           /\ \A tag : ~Pages!Closes(Pages!Shallower(r)) =>
                Stands(Seen(p, Pages!End(tag)), list, title, image, price, supplier, Pages!Shallower(r))
<1>1. PICK row : RowIs(row, title, image, price, supplier) /\ Held(p, list, row, r)
  BY DEF Stands
<1>2. ASSUME NEW tag, tag \notin {"h2", "img"}
      PROVE  Stands(Seen(p, Pages!Start(tag, "none", "none")), list, title, image, price, supplier,
                    Pages!Deeper(r))
  <2>1. Held(Seen(p, Pages!Start(tag, "none", "none")), list, row, Pages!Deeper(r))
    BY <1>1, <1>2, PlainStarts, Zenon DEF Seen
  <2>. QED BY <1>1, <2>1, Zenon DEF Stands
<1>3. Stands(Seen(p, Pages!Start("div", "priceText", "none")), list, title, image, price, supplier,
             Pages!StartCapture(Pages!Deeper(r), "priceText"))
  <2>1. Held(Seen(p, Pages!Start("div", "priceText", "none")), list, row,
             Pages!StartCapture(Pages!Deeper(r), "priceText"))
    BY <1>1, PriceStarts, Zenon DEF Seen
  <2>. QED BY <1>1, <2>1, Zenon DEF Stands
<1>4. ASSUME NEW mark \in Pages!CompanyMarks, NEW value
      PROVE  Stands(Seen(p, Pages!Start("a", mark, value)), list, title, image, price,
                    IF mark = "titled company-name" THEN <<value>> ELSE supplier,
                    Pages!StartCapture(Pages!Deeper(r), "supplierName"))
  <2>. DEFINE linked == [row EXCEPT !["supplierUrl"] = <<value>>]
              named == [linked EXCEPT !["supplierName"] = <<value>>]
              new == IF mark = "titled company-name" THEN named ELSE linked
  <2>1. Held(Seen(p, Pages!Start("a", mark, value)), list, new,
             Pages!StartCapture(Pages!Deeper(r), "supplierName"))
    BY <1>1, SupplierStarts, Zenon DEF Seen
  <2>2. RowIs(linked, title, image, price, supplier)
    BY <1>1, RowChanges, Zenon
  <2>. HIDE DEF linked
  <2>3. RowIs(named, title, image, price, <<value>>)
    BY <2>2, RowChanges, Zenon
  <2>. HIDE DEF named
  <2>4. RowIs(new, title, image, price, IF mark = "titled company-name" THEN <<value>> ELSE supplier)
    BY <2>2, <2>3, Zenon
  <2>. HIDE DEF new
  <2>. QED BY <2>1, <2>4, Zenon DEF Stands
<1>5. ASSUME NEW value
      PROVE  Stands(Seen(p, Image(value)), list, title, IF image = <<>> THEN <<value>> ELSE image, price,
                    supplier, Pages!Deeper(r))
  <2>. DEFINE new == IF row["imageUrl"] = <<>> THEN [row EXCEPT !["imageUrl"] = <<value>>] ELSE row
  <2>1. Held(Seen(p, Image(value)), list, new, Pages!Deeper(r))
    BY <1>1, ImageStarts, Zenon DEF Seen
  <2>2. row["imageUrl"] = image
    BY <1>1 DEF RowIs
  <2>3. RowIs([row EXCEPT !["imageUrl"] = <<value>>], title, <<value>>, price, supplier)
    BY <1>1, RowChanges, Zenon
  <2>4. RowIs(new, title, IF image = <<>> THEN <<value>> ELSE image, price, supplier)
    BY <1>1, <2>2, <2>3, Zenon
  <2>. HIDE DEF new
  <2>. QED BY <2>1, <2>4, Zenon DEF Stands
<1>6. ASSUME NEW piece
      PROVE  Stands(Seen(p, Pages!Text(piece)), list, title, image, price, supplier, Pages!Hear(r, piece))
  <2>1. Held(Seen(p, Pages!Text(piece)), list, row, Pages!Hear(r, piece))
    BY <1>1, TextRead, Zenon DEF Seen, Held
  <2>. QED BY <1>1, <2>1, Zenon DEF Stands
<1>7. ASSUME NEW tag, ~Pages!Closes(Pages!Shallower(r))
      PROVE  Stands(Seen(p, Pages!End(tag)), list, title, image, price, supplier, Pages!Shallower(r))
  <2>1. Held(Seen(p, Pages!End(tag)), list, row, Pages!Shallower(r))
    BY <1>1, <1>7, OtherEnds, Zenon DEF Seen, Held
  <2>. QED BY <1>1, <2>1, Zenon DEF Stands
<1>. QED BY <1>2, <1>3, <1>4, <1>5, <1>6, <1>7, Zenon

\* The end of the element a field was read from puts the field in.
LEMMA StandsAfterField ==
    ASSUME NEW p, NEW list, IsList(list), NEW title, NEW image, NEW price, NEW supplier,
           NEW text, text # <<>>, NEW tag, tag # "h2"
    PROVE  /\ Stands(p, list, title, image, price, supplier, Reading("priceText", 1, text)) =>
                  Stands(Seen(p, Pages!End(tag)), list, title, image, text, supplier, Pages!Idle)
           /\ Stands(p, list, title, image, price, supplier, Reading("supplierName", 1, text)) =>
                  Stands(Seen(p, Pages!End(tag)), list, title, image, price, text, Pages!Idle)
<1>1. ASSUME Stands(p, list, title, image, price, supplier, Reading("priceText", 1, text))
      PROVE  Stands(Seen(p, Pages!End(tag)), list, title, image, text, supplier, Pages!Idle)
  <2>1. PICK row : /\ RowIs(row, title, image, price, supplier)
                   /\ Held(p, list, row, Reading("priceText", 1, text))
    BY <1>1 DEF Stands
  <2>2. Held(Seen(p, Pages!End(tag)), list, [row EXCEPT !["priceText"] = text], Pages!Idle)
    <3>1. "priceText" # "none"
      OBVIOUS
    <3>. QED BY <2>1, <3>1, FieldEnds, Zenon DEF Seen
  <2>3. RowIs([row EXCEPT !["priceText"] = text], title, image, text, supplier)
    BY <2>1, RowChanges, Zenon
  <2>. QED BY <2>2, <2>3, Zenon DEF Stands
<1>2. ASSUME Stands(p, list, title, image, price, supplier, Reading("supplierName", 1, text))
      PROVE  Stands(Seen(p, Pages!End(tag)), list, title, image, price, text, Pages!Idle)
  <2>1. PICK row : /\ RowIs(row, title, image, price, supplier)
                   /\ Held(p, list, row, Reading("supplierName", 1, text))
    BY <1>2 DEF Stands
  <2>2. Held(Seen(p, Pages!End(tag)), list, [row EXCEPT !["supplierName"] = text], Pages!Idle)
    <3>1. "supplierName" # "none"
      OBVIOUS
    <3>. QED BY <2>1, <3>1, FieldEnds, Zenon DEF Seen
  <2>3. RowIs([row EXCEPT !["supplierName"] = text], title, image, price, text)
    BY <2>1, RowChanges, Zenon
  <2>. QED BY <2>2, <2>3, Zenon DEF Stands
<1>. QED BY <1>1, <1>2

LEMMA Appended ==
    ASSUME NEW x, NEW y
    PROVE  Append(<<>>, x) = <<x>> /\ Append(<<x>>, y) = <<x, y>> /\ <<x>> # <<>> /\ <<x, y>> # <<>>
<1>1. Append(<<>>, x) = <<x>>
  OBVIOUS
<1>2. Append(<<x>>, y) = <<x, y>>
  <2>. DEFINE E == {x, y}  s == <<x>>  t == <<x, y>>  u == Append(s, y)
  <2>1. s \in Seq(E) /\ Len(s) = 1 /\ s[1] = x /\ t \in Seq(E) /\ Len(t) = 2 /\ t[1] = x /\ t[2] = y /\ y \in E
    OBVIOUS
  <2>. HIDE DEF E, s, t
  <2>2. u \in Seq(E) /\ Len(u) = 2 /\ u[1] = x /\ u[2] = y
    <3>1. s \in Seq(E) /\ y \in E
      BY <2>1
    <3>2. u \in Seq(E) /\ Len(u) = Len(s) + 1 /\ (\A i \in 1..Len(s) : u[i] = s[i]) /\ u[Len(s) + 1] = y
      BY <3>1
    <3>. HIDE DEF u
    <3>3. 1 \in 1..1 /\ 1 + 1 = 2
      OBVIOUS
    <3>. QED BY <2>1, <3>2, <3>3
  <2>. HIDE DEF u
  <2>3. \A i \in 1..2 : u[i] = t[i]
    BY <2>1, <2>2
  <2>4. u = t
    BY <2>1, <2>2, <2>3
  <2>. QED BY <2>4 DEF u, s, t
<1>3. <<x>> # <<>>
  OBVIOUS
<1>4. <<x, y>> # <<>>
  <2>1. Len(<<x, y>>) = 2 /\ Len(<<>>) = 0
    OBVIOUS
  <2>. QED BY <2>1
<1>. QED BY <1>1, <1>2, <1>3, <1>4

\* The text of a price, in pieces.
Told(card) == IF card.price = "plain" THEN <<card.name>> ELSE <<card.name, "piece">>

\* A price is read and closed, unless a line in it is broken.
LEMMA IdlePrice ==
    ASSUME NEW p, NEW list, IsList(list), NEW title, NEW image, NEW card, HasPrice(card),
           Stands(p, list, title, image, <<>>, <<>>, Pages!Idle)
    PROVE  LET q == Pages!Feed("search", p, Price(card))
           IN  IF card.price = "broken line"
               THEN Stands(q, list, title, image, <<>>, <<>>, Reading("priceText", 1, Told(card)))
               ELSE Stands(q, list, title, image, Told(card), <<>>, Pages!Idle)
<1>. DEFINE R(d, text) == Reading("priceText", d, text)
            At(q, r) == Stands(q, list, title, image, <<>>, <<>>, r)
            p1 == Seen(p, Pages!Start("div", "priceText", "none"))
            p9 == PriceSteps("search", p1, card)
            name == card.name  piece == "piece"
<1>0. Pages!Feed("search", p, Price(card)) = Seen(p9, Pages!End("div"))
  BY PriceElementFed DEF Seen
<1>1. At(p1, R(1, <<>>))
  <2>1. At(p1, Pages!StartCapture(Pages!Deeper(Pages!Idle), "priceText"))
    BY StandsOn, Zenon
  <2>. QED BY <2>1, ReadingNothing, Zenon
<1>. HIDE DEF p1
<1>2. /\ \A text : Pages!Deeper(R(1, text)) = R(2, text) /\ Pages!Shallower(R(2, text)) = R(1, text)
      /\ \A text : ~Pages!Closes(R(1, text)) /\ ~Pages!Closes(R(2, text))
      /\ \A d \in {1, 2} : \A text, x : Pages!Hear(R(d, text), x) = R(d, Append(text, x))
  BY DEF Pages!Deeper, Pages!Shallower, Pages!Closes, Pages!Hear, Reading
<1>3. ASSUME NEW q, NEW r, At(q, r)
      PROVE  /\ \A x : At(Seen(q, Pages!Text(x)), Pages!Hear(r, x))
             /\ \A tag : tag \notin {"h2", "img"} => At(Seen(q, Pages!Start(tag, "none", "none")), Pages!Deeper(r))
             /\ \A tag : ~Pages!Closes(Pages!Shallower(r)) => At(Seen(q, Pages!End(tag)), Pages!Shallower(r))
  BY <1>3, StandsOn, Zenon
<1>4. ASSUME NEW q, NEW text, text # <<>>, At(q, R(1, text))
      PROVE  Stands(Seen(q, Pages!End("div")), list, title, image, text, <<>>, Pages!Idle)
  <2>1. "div" # "h2"
    OBVIOUS
  <2>. QED BY <1>4, <2>1, StandsAfterField, Zenon
<1>8. \A d \in {1, 2} : Pages!Hear(R(d, <<>>), name) = R(d, <<name>>)
  <2>. DEFINE none == <<>>  said == <<name>>
  <2>1. Append(none, name) = said
    BY Appended, Zenon
  <2>. HIDE DEF none, said, R
  <2>2. \A d \in {1, 2} : Pages!Hear(R(d, none), name) = R(d, Append(none, name))
    BY <1>2, Zenon
  <2>3. \A d \in {1, 2} : Pages!Hear(R(d, none), name) = R(d, said)
    BY <2>1, <2>2, Zenon
  <2>. QED BY <2>3 DEF none, said
<1>. HIDE DEF At, R, piece
<1>5. CASE card.price = "plain"
  <2>1. p9 = Seen(p1, Pages!Text(name))
    BY <1>5 DEF PriceSteps, Seen
  <2>2. At(p9, R(1, <<name>>))
    <3>1. At(p9, Pages!Hear(R(1, <<>>), name))
      BY <1>1, <1>3, <2>1
    <3>2. Pages!Hear(R(1, <<>>), name) = R(1, <<name>>)
      BY <1>8
    <3>. QED BY <3>1, <3>2
  <2>3. Stands(Seen(p9, Pages!End("div")), list, title, image, <<name>>, <<>>, Pages!Idle)
    BY <1>4, <2>2, Appended
  <2>. QED BY <1>0, <1>5, <2>3 DEF Told
<1>6. CASE card.price = "nested"
  <2>. DEFINE p2 == Seen(p1, Pages!Start("span", "none", "none"))  p3 == Seen(p2, Pages!Text(name))
              p4 == Seen(p3, Pages!End("span"))
  <2>1. p9 = Seen(p4, Pages!Text(piece))
    BY <1>6 DEF PriceSteps, Seen, piece
  <2>2. At(p2, R(2, <<>>))
    <3>1. At(p2, Pages!Deeper(R(1, <<>>)))
      BY <1>1, <1>3
    <3>. QED BY <1>2, <3>1
  <2>. HIDE DEF p2
  <2>3. At(p3, R(2, <<name>>))
    <3>1. At(p3, Pages!Hear(R(2, <<>>), name))
      BY <1>3, <2>2
    <3>2. Pages!Hear(R(2, <<>>), name) = R(2, <<name>>)
      BY <1>8
    <3>. QED BY <3>1, <3>2
  <2>. HIDE DEF p3
  <2>4. At(p4, R(1, <<name>>))
    <3>1. At(p4, Pages!Shallower(R(2, <<name>>)))
      BY <1>2, <1>3, <2>3
    <3>. QED BY <1>2, <3>1
  <2>. HIDE DEF p4
  <2>5. At(p9, R(1, <<name, piece>>))
    <3>1. At(p9, Pages!Hear(R(1, <<name>>), piece))
      BY <1>3, <2>1, <2>4
    <3>2. Pages!Hear(R(1, <<name>>), piece) = R(1, <<name, piece>>)
      <4>. DEFINE said == <<name>>  both == <<name, piece>>
      <4>1. Append(said, piece) = both
        BY Appended, Zenon
      <4>. HIDE DEF said, both
      <4>2. Pages!Hear(R(1, said), piece) = R(1, Append(said, piece))
        BY <1>2
      <4>. QED BY <4>1, <4>2 DEF said, both
    <3>. QED BY <3>1, <3>2
  <2>6. Stands(Seen(p9, Pages!End("div")), list, title, image, <<name, piece>>, <<>>, Pages!Idle)
    BY <1>4, <2>5, Appended
  <2>. QED BY <1>0, <1>6, <2>6 DEF Told, piece
<1>7. CASE card.price = "broken line"
  <2>. DEFINE p2 == Seen(p1, Pages!Text(name))  p3 == Seen(p2, Pages!Start("br", "none", "none"))
              told == <<name, piece>>
  <2>1. p9 = Seen(p3, Pages!Text(piece))
    BY <1>7 DEF PriceSteps, Seen, piece
  <2>2. At(p2, R(1, <<name>>))
    <3>1. At(p2, Pages!Hear(R(1, <<>>), name))
      BY <1>1, <1>3
    <3>2. Pages!Hear(R(1, <<>>), name) = R(1, <<name>>)
      BY <1>8
    <3>. QED BY <3>1, <3>2
  <2>. HIDE DEF p2
  <2>3. At(p3, R(2, <<name>>))
    <3>1. At(p3, Pages!Deeper(R(1, <<name>>)))
      BY <1>3, <2>2
    <3>. QED BY <1>2, <3>1
  <2>. HIDE DEF p3
  <2>4. At(p9, R(2, told))
    <3>1. At(p9, Pages!Hear(R(2, <<name>>), piece))
      BY <1>3, <2>1, <2>3
    <3>2. Pages!Hear(R(2, <<name>>), piece) = R(2, told)
      <4>. DEFINE said == <<name>>  both == <<name, piece>>
      <4>1. Append(said, piece) = both
        BY Appended, Zenon
      <4>. HIDE DEF said, both
      <4>2. Pages!Hear(R(2, said), piece) = R(2, Append(said, piece))
        BY <1>2
      <4>. QED BY <4>1, <4>2 DEF said, both
    <3>. QED BY <3>1, <3>2
  <2>. HIDE DEF p9
  <2>5. At(Seen(p9, Pages!End("div")), R(1, told))
    <3>1. At(Seen(p9, Pages!End("div")), Pages!Shallower(R(2, told)))
      BY <1>2, <1>3, <2>4
    <3>. QED BY <1>2, <3>1
  <2>6. Told(card) = told
    BY <1>7 DEF Told, piece
  <2>. HIDE DEF told
  <2>. QED BY <1>0, <1>7, <2>5, <2>6 DEF At, R
<1>. QED BY <1>5, <1>6, <1>7 DEF HasPrice

LEMMA IdleSupplier ==
    ASSUME NEW p, NEW list, IsList(list), NEW title, NEW image, NEW price, NEW card, IsCard(card),
           Stands(p, list, title, image, price, <<>>, Pages!Idle)
    PROVE  Stands(Pages!Feed("search", p, Supplier(card)), list, title, image, price, <<card.supplier>>,
                  Pages!Idle)
<1>. DEFINE q1 == Seen(p, Pages!Start("a", card.link, card.name))
            q2 == Seen(q1, Pages!Text(card.supplier))
            q3 == Seen(q2, Pages!End("a"))
            r1 == Reading("supplierName", 1, <<>>)  r2 == Reading("supplierName", 1, <<card.supplier>>)
            seller == IF card.link = "titled company-name" THEN <<card.name>> ELSE <<>>
<1>0. Pages!Feed("search", p, Supplier(card)) = q3
  BY SupplierFed DEF Seen
<1>1. Stands(q1, list, title, image, price, seller, r1)
  <2>1. card.link \in Pages!CompanyMarks
    BY DEF IsCard
  <2>2. Stands(q1, list, title, image, price, seller, Pages!StartCapture(Pages!Deeper(Pages!Idle), "supplierName"))
    BY <2>1, StandsOn, Zenon
  <2>. HIDE DEF seller
  <2>. QED BY <2>2, ReadingNothing, Zenon
<1>. HIDE DEF q1, seller
<1>2. Stands(q2, list, title, image, price, seller, r2)
  <2>1. Stands(q2, list, title, image, price, seller, Pages!Hear(r1, card.supplier))
    BY <1>1, StandsOn, Zenon
  <2>2. Pages!Hear(r1, card.supplier) = r2
    BY Appended DEF Pages!Hear, Reading
  <2>. QED BY <2>1, <2>2
<1>. HIDE DEF q2
<1>3. Stands(q3, list, title, image, price, <<card.supplier>>, Pages!Idle)
  <2>1. "a" # "h2" /\ <<card.supplier>> # <<>>
    OBVIOUS
  <2>. QED BY <1>2, <2>1, StandsAfterField, Zenon
<1>. QED BY <1>0, <1>3

-----------------------------------------------------------------------------
\* A price that is never closed goes on being read, d elements in.
Open(p, list, title, d) ==
    \E image, price, supplier, text :
        Stands(p, list, title, image, price, supplier, Reading("priceText", d, text))

\* Nothing a card may hold closes it.
LEMMA OpenOn ==
    ASSUME NEW p, NEW list, IsList(list), NEW title, NEW d \in Nat \ {0}, Open(p, list, title, d)
    PROVE  /\ \A tag : tag \notin {"h2", "img"} => Open(Seen(p, Pages!Start(tag, "none", "none")), list, title, d + 1)
           /\ Open(Seen(p, Pages!Start("div", "priceText", "none")), list, title, d + 1)
           /\ \A mark \in Pages!CompanyMarks : \A value : Open(Seen(p, Pages!Start("a", mark, value)), list, title, d + 1)
           /\ \A value : Open(Seen(p, Image(value)), list, title, d + 1)
           /\ \A piece : Open(Seen(p, Pages!Text(piece)), list, title, d)
<1>1. PICK image, price, supplier, text :
        Stands(p, list, title, image, price, supplier, Reading("priceText", d, text))
  BY DEF Open
<1>. DEFINE r == Reading("priceText", d, text)  more == Reading("priceText", d + 1, text)
            At(q, im, x) == Stands(q, list, title, im, price, supplier, x)
            By(q, by, x) == Stands(q, list, title, image, price, by, x)
            seller(mark, value) == IF mark = "titled company-name" THEN <<value>> ELSE supplier
<1>2. /\ Pages!Deeper(r) = more /\ \A field : Pages!StartCapture(more, field) = more
      /\ \A piece : Pages!Hear(r, piece) = Reading("priceText", d, Append(text, piece))
  BY DEF Pages!Deeper, Pages!StartCapture, Pages!Hear, Reading
<1>3. /\ \A tag : tag \notin {"h2", "img"} =>
            At(Seen(p, Pages!Start(tag, "none", "none")), image, Pages!Deeper(r))
      /\ At(Seen(p, Pages!Start("div", "priceText", "none")), image, Pages!StartCapture(Pages!Deeper(r), "priceText"))
      /\ \A mark \in Pages!CompanyMarks : \A value :
            By(Seen(p, Pages!Start("a", mark, value)), seller(mark, value),
               Pages!StartCapture(Pages!Deeper(r), "supplierName"))
      /\ \A value : At(Seen(p, Image(value)), IF image = <<>> THEN <<value>> ELSE image, Pages!Deeper(r))
      /\ \A piece : At(Seen(p, Pages!Text(piece)), image, Pages!Hear(r, piece))
  BY <1>1, StandsOn, Zenon
<1>4. ASSUME NEW q, NEW im, NEW t, NEW n, At(q, im, Reading("priceText", n, t))
      PROVE  Open(q, list, title, n)
  BY <1>4, Zenon DEF Open
<1>6. ASSUME NEW q, NEW by, NEW t, NEW n, By(q, by, Reading("priceText", n, t))
      PROVE  Open(q, list, title, n)
  BY <1>6, Zenon DEF Open
<1>. HIDE DEF At, By, seller, r
<1>5. /\ \A tag : tag \notin {"h2", "img"} => At(Seen(p, Pages!Start(tag, "none", "none")), image, more)
      /\ At(Seen(p, Pages!Start("div", "priceText", "none")), image, more)
      /\ \A mark \in Pages!CompanyMarks : \A value :
            By(Seen(p, Pages!Start("a", mark, value)), seller(mark, value), more)
      /\ \A value : At(Seen(p, Image(value)), IF image = <<>> THEN <<value>> ELSE image, more)
      /\ \A piece : At(Seen(p, Pages!Text(piece)), image, Reading("priceText", d, Append(text, piece)))
  BY <1>2, <1>3, Zenon
<1>. QED BY <1>4, <1>5, <1>6, Zenon

LEMMA OpenEnds ==
    ASSUME NEW p, NEW list, IsList(list), NEW title, NEW d \in Nat \ {0}, Open(p, list, title, d + 1)
    PROVE  \A tag : Open(Seen(p, Pages!End(tag)), list, title, d)
<1>1. PICK image, price, supplier, text :
        Stands(p, list, title, image, price, supplier, Reading("priceText", d + 1, text))
  BY DEF Open
<1>. DEFINE r == Reading("priceText", d + 1, text)
<1>2. Pages!Shallower(r) = Reading("priceText", d, text)
  <2>1. (d + 1) - 1 = d
    OBVIOUS
  <2>2. Pages!Shallower(r) = Reading("priceText", (d + 1) - 1, text)
    BY DEF Pages!Shallower, Reading
  <2>. HIDE DEF r
  <2>. QED BY <2>1, <2>2
<1>3. ~Pages!Closes(Reading("priceText", d, text))
  BY DEF Pages!Closes, Reading
<1>4. ASSUME NEW tag
      PROVE  Stands(Seen(p, Pages!End(tag)), list, title, image, price, supplier, Reading("priceText", d, text))
  BY <1>1, <1>2, <1>3, StandsOn, Zenon
<1>. QED BY <1>4, Zenon DEF Open

LEMMA OpenSupplier ==
    ASSUME NEW p, NEW list, IsList(list), NEW title, NEW d \in Nat \ {0}, Open(p, list, title, d),
           NEW card, IsCard(card)
    PROVE  Open(Pages!Feed("search", p, Supplier(card)), list, title, d)
<1>. DEFINE q1 == Seen(p, Pages!Start("a", card.link, card.name))
            q2 == Seen(q1, Pages!Text(card.supplier))
            q3 == Seen(q2, Pages!End("a"))
<1>0. Pages!Feed("search", p, Supplier(card)) = q3
  BY SupplierFed DEF Seen
<1>1. d + 1 \in Nat \ {0}
  OBVIOUS
<1>2. Open(q1, list, title, d + 1)
  <2>1. card.link \in Pages!CompanyMarks
    BY Zenon DEF IsCard
  <2>. QED BY <2>1, OpenOn, Zenon
<1>. HIDE DEF q1
<1>3. Open(q2, list, title, d + 1)
  BY <1>1, <1>2, OpenOn, Zenon
<1>. HIDE DEF q2
<1>4. Open(q3, list, title, d)
  BY <1>3, OpenEnds, Zenon
<1>. QED BY <1>0, <1>4

LEMMA OpenPrice ==
    ASSUME NEW p, NEW list, IsList(list), NEW title, NEW d \in Nat \ {0}, Open(p, list, title, d),
           NEW card, HasPrice(card)
    PROVE  \E n \in Nat \ {0} : Open(Pages!Feed("search", p, Price(card)), list, title, n)
<1>. DEFINE p1 == Seen(p, Pages!Start("div", "priceText", "none"))
            p9 == PriceSteps("search", p1, card)
            name == card.name  piece == "piece"
<1>0. Pages!Feed("search", p, Price(card)) = Seen(p9, Pages!End("div"))
  BY PriceElementFed DEF Seen
<1>. DEFINE At(q, n) == Open(q, list, title, n)
<1>1. d + 1 \in Nat \ {0} /\ d + 2 \in Nat \ {0} /\ (d + 1) + 1 = d + 2
  OBVIOUS
<1>2. At(p1, d + 1)
  BY OpenOn, Zenon
<1>. HIDE DEF p1
<1>3. ASSUME NEW q, NEW n \in Nat \ {0}, At(q, n)
      PROVE  /\ \A x : At(Seen(q, Pages!Text(x)), n)
             /\ \A tag : tag \notin {"h2", "img"} => At(Seen(q, Pages!Start(tag, "none", "none")), n + 1)
  BY <1>3, OpenOn, Zenon
<1>4. ASSUME NEW q, NEW n \in Nat \ {0}, At(q, n + 1)
      PROVE  \A tag : At(Seen(q, Pages!End(tag)), n)
  BY <1>4, OpenEnds, Zenon
<1>. HIDE DEF At, piece
<1>5. CASE card.price = "plain"
  <2>1. p9 = Seen(p1, Pages!Text(name))
    BY <1>5 DEF PriceSteps, Seen
  <2>2. At(p9, d + 1)
    BY <1>1, <1>2, <1>3, <2>1
  <2>3. At(Seen(p9, Pages!End("div")), d)
    BY <1>4, <2>2
  <2>. QED BY <1>0, <2>3 DEF At
<1>6. CASE card.price = "nested"
  <2>. DEFINE p2 == Seen(p1, Pages!Start("span", "none", "none"))  p3 == Seen(p2, Pages!Text(name))
              p4 == Seen(p3, Pages!End("span"))
  <2>1. p9 = Seen(p4, Pages!Text(piece))
    BY <1>6 DEF PriceSteps, Seen, piece
  <2>2. At(p2, (d + 1) + 1)
    BY <1>1, <1>2, <1>3
  <2>. HIDE DEF p2
  <2>3. At(p3, (d + 1) + 1)
    BY <1>1, <1>3, <2>2
  <2>. HIDE DEF p3
  <2>4. At(p4, d + 1)
    BY <1>1, <1>4, <2>3
  <2>. HIDE DEF p4
  <2>5. At(p9, d + 1)
    BY <1>1, <1>3, <2>1, <2>4
  <2>6. At(Seen(p9, Pages!End("div")), d)
    BY <1>4, <2>5
  <2>. QED BY <1>0, <2>6 DEF At
<1>7. CASE card.price = "broken line"
  <2>. DEFINE p2 == Seen(p1, Pages!Text(name))  p3 == Seen(p2, Pages!Start("br", "none", "none"))
  <2>1. p9 = Seen(p3, Pages!Text(piece))
    BY <1>7 DEF PriceSteps, Seen, piece
  <2>2. At(p2, d + 1)
    BY <1>1, <1>2, <1>3
  <2>. HIDE DEF p2
  <2>3. At(p3, (d + 1) + 1)
    BY <1>1, <1>3, <2>2
  <2>. HIDE DEF p3
  <2>4. At(p9, (d + 1) + 1)
    BY <1>1, <1>3, <2>1, <2>3
  <2>. HIDE DEF p9
  <2>5. At(Seen(p9, Pages!End("div")), d + 1)
    BY <1>1, <1>4, <2>4
  <2>. QED BY <1>0, <1>1, <2>5 DEF At
<1>. QED BY <1>5, <1>6, <1>7 DEF HasPrice

IsBroken(card) == card.price = "broken line"

\* The title and the image of a card.
LEMMA HeadRead ==
    ASSUME NEW p, NEW list, IsList(list), NEW r, Left(p, list, r), Steady(r), NEW name
    PROVE  Stands(Pages!Handle("search", Pages!Feed("search", p, Title(name)), Image(name)), list,
                  <<name>>, <<name>>, <<>>, <<>>, Pages!Deeper(r))
<1>. DEFINE q == Pages!Feed("search", p, Title(name))
<1>1. Stands(q, list, <<name>>, <<>>, <<>>, <<>>, r)
  BY TitleRead, NewRowIs DEF Stands
<1>. HIDE DEF q
<1>2. Stands(Seen(q, Image(name)), list, <<name>>, IF <<>> = <<>> THEN <<name>> ELSE <<>>, <<>>, <<>>,
             Pages!Deeper(r))
  BY <1>1, StandsOn, Zenon
<1>. QED BY <1>2, Zenon DEF Seen, q

\* A card that comes while nothing is read is read as it is.
LEMMA CardRead ==
    ASSUME NEW p, NEW list, IsList(list), NEW card, IsCard(card), ~IsBroken(card), Left(p, list, Pages!Idle)
    PROVE  \E row : /\ row["title"] = <<card.name>> /\ CardIsRead(card, row)
                    /\ Left(Pages!Feed("search", p, CardEvents(card)), Append(list, row), Pages!Idle)
<1>. DEFINE name == card.name
            q == Pages!Handle("search", Pages!Feed("search", p, Title(name)), Image(name))
            price == IF card.price = "none" THEN <<>> ELSE Told(card)
            q1 == IF card.price = "none" THEN q ELSE Pages!Feed("search", q, Price(card))
            q2 == Pages!Feed("search", q1, Supplier(card))
<1>1. Pages!Feed("search", p, CardEvents(card)) = q2
  BY CardInParts
<1>2. Stands(q, list, <<name>>, <<name>>, <<>>, <<>>, Pages!Idle)
  <2>1. Steady(Pages!Idle)
    BY DEF Steady
  <2>2. Stands(q, list, <<name>>, <<name>>, <<>>, <<>>, Pages!Deeper(Pages!Idle))
    BY <2>1, HeadRead, Zenon
  <2>. QED BY <2>2, ReadingNothing, Zenon
<1>. HIDE DEF q
<1>3. Stands(q1, list, <<name>>, <<name>>, price, <<>>, Pages!Idle)
  <2>1. CASE card.price = "none"
    BY <1>2, <2>1, Zenon
  <2>2. CASE card.price # "none"
    <3>1. HasPrice(card) /\ card.price # "broken line"
      BY <2>2 DEF IsCard, HasPrice, IsBroken
    <3>2. Stands(Pages!Feed("search", q, Price(card)), list, <<name>>, <<name>>, Told(card), <<>>, Pages!Idle)
      BY <1>2, <3>1, IdlePrice, Zenon
    <3>. QED BY <2>2, <3>2, Zenon
  <2>. QED BY <2>1, <2>2, Zenon
<1>. HIDE DEF q1
<1>4. Stands(q2, list, <<name>>, <<name>>, price, <<card.supplier>>, Pages!Idle)
  BY <1>3, IdleSupplier, Zenon
<1>5. PICK row : /\ RowIs(row, <<name>>, <<name>>, price, <<card.supplier>>)
                 /\ Held(q2, list, row, Pages!Idle)
  BY <1>4 DEF Stands
<1>6. CardIsRead(card, row)
  <2>1. /\ row["supplierName"] = <<card.supplier>> /\ row["imageUrl"] = <<card.name>>
        /\ row["priceText"] = price
    BY <1>5, Zenon DEF RowIs
  <2>2. card.price \in {"none", "plain", "nested"}
    BY DEF IsCard, IsBroken
  <2>3. price = CASE card.price = "none" -> <<>>
                  [] card.price = "plain" -> <<card.name>>
                  [] OTHER -> <<card.name, "piece">>
    BY <2>2 DEF Told
  <2>. QED BY <2>1, <2>3, Zenon DEF CardIsRead
<1>7. row["title"] = <<name>>
  BY <1>5, Zenon DEF RowIs
<1>8. Left(q2, Append(list, row), Pages!Idle)
  BY <1>5, Zenon DEF Held
<1>. QED BY <1>1, <1>6, <1>7, <1>8, Zenon

\* After a broken line no card closes the price, and titles are still read.
LEMMA CardIsOpen ==
    ASSUME NEW p, NEW list, IsList(list), NEW card, IsCard(card), NEW r, Left(p, list, r), Steady(r),
           r # Pages!Idle \/ IsBroken(card)
    PROVE  \E n \in Nat \ {0} : Open(Pages!Feed("search", p, CardEvents(card)), list, <<card.name>>, n)
<1>. DEFINE name == card.name
            q == Pages!Handle("search", Pages!Feed("search", p, Title(name)), Image(name))
            q1 == IF card.price = "none" THEN q ELSE Pages!Feed("search", q, Price(card))
            q2 == Pages!Feed("search", q1, Supplier(card))
<1>1. Pages!Feed("search", p, CardEvents(card)) = q2
  BY CardInParts
<1>2. Stands(q, list, <<name>>, <<name>>, <<>>, <<>>, Pages!Deeper(r))
  BY HeadRead, Zenon
<1>. HIDE DEF q
<1>3. \E n \in Nat \ {0} : Open(q1, list, <<name>>, n)
  <2>1. CASE r = Pages!Idle
    <3>1. HasPrice(card) /\ card.price = "broken line" /\ card.price # "none"
      BY <2>1 DEF IsBroken, HasPrice
    <3>2. Stands(q, list, <<name>>, <<name>>, <<>>, <<>>, Pages!Idle)
      BY <1>2, <2>1, ReadingNothing, Zenon
    <3>3. Stands(Pages!Feed("search", q, Price(card)), list, <<name>>, <<name>>, <<>>, <<>>,
                 Reading("priceText", 1, Told(card)))
      BY <3>1, <3>2, IdlePrice, Zenon
    <3>4. Open(q1, list, <<name>>, 1)
      BY <3>1, <3>3, Zenon DEF Open
    <3>5. 1 \in Nat \ {0}
      OBVIOUS
    <3>. QED BY <3>4, <3>5
  <2>2. CASE r # Pages!Idle
    <3>0. PICK d \in Nat \ {0} : \E text : r = Reading("priceText", d, text)
      BY <2>2 DEF Steady
    <3>1. PICK text : r = Reading("priceText", d, text)
      BY <3>0
    <3>2. Pages!Deeper(r) = Reading("priceText", d + 1, text) /\ d + 1 \in Nat \ {0}
      BY <3>1 DEF Pages!Deeper, Reading
    <3>3. Open(q, list, <<name>>, d + 1)
      BY <1>2, <3>2, Zenon DEF Open
    <3>4. CASE card.price = "none"
      BY <3>2, <3>3, <3>4
    <3>5. CASE card.price # "none"
      <4>1. HasPrice(card)
        BY <3>5 DEF IsCard, HasPrice
      <4>2. \E n \in Nat \ {0} : Open(Pages!Feed("search", q, Price(card)), list, <<name>>, n)
        BY <3>2, <3>3, <4>1, OpenPrice, Zenon
      <4>. QED BY <3>5, <4>2
    <3>. QED BY <3>4, <3>5
  <2>. QED BY <2>1, <2>2
<1>4. PICK n \in Nat \ {0} : Open(q1, list, <<name>>, n)
  BY <1>3
<1>. HIDE DEF q1
<1>5. Open(q2, list, <<name>>, n)
  BY <1>4, OpenSupplier, Zenon
<1>. QED BY <1>1, <1>4, <1>5, Zenon

\* What the parser holds after n cards.
CardsRead(cards, n, list, r) ==
    /\ IsList(list) /\ Len(list) = n /\ Steady(r)
    /\ (\A j \in 1..n : ~IsBroken(cards[j])) => r = Pages!Idle
    /\ \A i \in 1..n :
        /\ list[i]["title"] = <<cards[i].name>>
        /\ (\A j \in 1..i : ~IsBroken(cards[j])) => CardIsRead(cards[i], list[i])

\* The step of the induction over the cards.
LEMMA OneMoreCard ==
    ASSUME NEW cards, NEW n \in Nat, NEW list, NEW r, NEW p, CardsRead(cards, n, list, r), Left(p, list, r),
           NEW card, IsCard(card), card = cards[n + 1]
    PROVE  \E more, s : /\ CardsRead(cards, n + 1, more, s)
                        /\ Left(Pages!Feed("search", p, CardEvents(card)), more, s)
<1>. DEFINE q == Pages!Feed("search", p, CardEvents(card))
            Whole(i) == \A j \in 1..i : ~IsBroken(cards[j])
<1>1. IsList(list) /\ Len(list) = n /\ Steady(r)
  BY DEF CardsRead
<1>2. ASSUME NEW row, NEW s, Steady(s), Whole(n + 1) => s = Pages!Idle /\ CardIsRead(card, row),
             row["title"] = <<card.name>>
      PROVE  CardsRead(cards, n + 1, Append(list, row), s)
  <2>. DEFINE more == Append(list, row)
  <2>1. /\ Len(more) = n + 1 /\ IsList(more) /\ more[n + 1] = row
        /\ \A i \in 1..n : more[i] = list[i]
    <3>1. /\ Len(more) = Len(list) + 1 /\ IsList(more) /\ Last(more) = row
          /\ \A i \in 1..Len(list) : more[i] = list[i]
      BY <1>1, LastOf
    <3>. HIDE DEF more
    <3>. QED BY <1>1, <3>1 DEF Last
  <2>. HIDE DEF more
  <2>2. ASSUME NEW i \in 1..(n + 1)
        PROVE  more[i]["title"] = <<cards[i].name>> /\ (Whole(i) => CardIsRead(cards[i], more[i]))
    <3>1. CASE i \in 1..n
      <4>1. list[i]["title"] = <<cards[i].name>> /\ (Whole(i) => CardIsRead(cards[i], list[i]))
        BY <3>1, Zenon DEF CardsRead
      <4>2. more[i] = list[i]
        BY <2>1, <3>1
      <4>. QED BY <4>1, <4>2, Zenon
    <3>2. CASE i = n + 1
      <4>1. more[i] = row /\ cards[i] = card
        BY <2>1, <3>2
      <4>. QED BY <1>2, <3>2, <4>1, Zenon
    <3>3. i \in 1..n \/ i = n + 1
      OBVIOUS
    <3>. QED BY <3>1, <3>2, <3>3
  <2>. QED BY <1>2, <2>1, <2>2, Zenon DEF CardsRead, more
<1>3. CASE r = Pages!Idle /\ ~IsBroken(card)
  <2>1. PICK row : /\ row["title"] = <<card.name>> /\ CardIsRead(card, row)
                   /\ Left(q, Append(list, row), Pages!Idle)
    BY <1>1, <1>3, CardRead, Zenon
  <2>2. Steady(Pages!Idle)
    BY DEF Steady
  <2>3. CardsRead(cards, n + 1, Append(list, row), Pages!Idle)
    BY <1>2, <2>1, <2>2, Zenon
  <2>. QED BY <2>1, <2>3, Zenon
<1>4. CASE r # Pages!Idle \/ IsBroken(card)
  <2>1. PICK d \in Nat \ {0} : Open(q, list, <<card.name>>, d)
    BY <1>1, <1>4, CardIsOpen, Zenon
  <2>2. PICK image, price, supplier, text :
          Stands(q, list, <<card.name>>, image, price, supplier, Reading("priceText", d, text))
    BY <2>1 DEF Open
  <2>. DEFINE s == Reading("priceText", d, text)
  <2>3. PICK row : RowIs(row, <<card.name>>, image, price, supplier) /\ Held(q, list, row, s)
    BY <2>2 DEF Stands
  <2>4. Steady(s)
    BY DEF Steady
  <2>5. row["title"] = <<card.name>>
    BY <2>3, Zenon DEF RowIs
  <2>6. ~Whole(n + 1)
    <3>1. CASE IsBroken(card)
      <4>1. n + 1 \in 1..(n + 1)
        OBVIOUS
      <4>. QED BY <3>1, <4>1
    <3>2. CASE r # Pages!Idle
      <4>1. ~Whole(n)
        BY <3>2, Zenon DEF CardsRead
      <4>2. \A j \in 1..n : j \in 1..(n + 1)
        OBVIOUS
      <4>. QED BY <4>1, <4>2, Zenon
    <3>. QED BY <1>4, <3>1, <3>2
  <2>. HIDE DEF s
  <2>7. CardsRead(cards, n + 1, Append(list, row), s)
    BY <1>2, <2>4, <2>5, <2>6, Zenon
  <2>. QED BY <2>3, <2>7, Zenon DEF Held
<1>. QED BY <1>3, <1>4

LEMMA CardIsList == ASSUME NEW card, IsCard(card) PROVE IsList(CardEvents(card))
<1>1. \A p, parser : IsList(CardEvents(card))
  BY CardInParts, Zenon
<1>. QED BY <1>1

\* What comes out of a page of search results.
LEMMA CardsAreRead ==
    ASSUME NEW cards \in Cards
    PROVE  LET rows == Pages!ParseSearch(CardsEvents(cards))
           IN  /\ Len(rows) = Len(cards)
               /\ \A i \in DOMAIN rows :
                    /\ rows[i]["title"] = <<cards[i].name>>
                    /\ (\A j \in 1..i : cards[j].price # "broken line") => CardIsRead(cards[i], rows[i])
<1>. DEFINE lists == [i \in DOMAIN cards |-> CardEvents(cards[i])]  m == Len(cards)
<1>1. cards \in Seq(ToSet(cards)) /\ m \in Nat /\ DOMAIN cards = 1..m
  <2>1. cards \in Seq(ToSet(cards))
    BY CardsAssumption, Zenon
  <2>. QED BY <2>1
<1>2. \A i \in 1..m : IsCard(cards[i])
  <2>1. \A i \in DOMAIN cards : /\ cards[i].price \in {"none", "plain", "nested", "broken line"}
                                  /\ cards[i].link \in Pages!CompanyMarks
    BY CardsAssumption, Zenon
  <2>. QED BY <1>1, <2>1, Zenon DEF IsCard
<1>3. IsList(lists) /\ Len(lists) = m /\ \A i \in 1..m : lists[i] = CardEvents(cards[i])
  <2>. DEFINE T == {CardEvents(cards[i]) : i \in 1..m}
  <2>1. DOMAIN lists = 1..m /\ \A i \in 1..m : lists[i] = CardEvents(cards[i]) /\ lists[i] \in T
    BY <1>1
  <2>2. lists = [i \in 1..m |-> lists[i]]
    BY <1>1
  <2>. HIDE DEF lists, T, m
  <2>3. lists \in Seq(T) /\ Len(lists) = m
    BY <1>1, <2>1, <2>2
  <2>. QED BY <2>1, <2>3, ListOf
<1>4. \A i \in 1..Len(lists) : IsList(lists[i])
  BY <1>2, <1>3, CardIsList
<1>. HIDE DEF lists, m
<1>5. PICK s : /\ s[0] = Pages!SearchPage /\ Pages!Feed("search", Pages!SearchPage, FlattenSeq(lists)) = s[m]
               /\ \A n \in 1..m : s[n] = Pages!Feed("search", s[n - 1], lists[n])
  <2>. DEFINE parser == "search"
  <2>. HIDE DEF parser
  <2>1. \E s : /\ s[0] = Pages!SearchPage
               /\ Pages!Feed(parser, Pages!SearchPage, FlattenSeq(lists)) = s[Len(lists)]
               /\ \A n \in 1..Len(lists) : s[n] = Pages!Feed(parser, s[n - 1], lists[n])
    BY <1>3, <1>4, ListsFed
  <2>. QED BY <1>3, <2>1 DEF parser
<1>. DEFINE Read(n) == \E list, r : CardsRead(cards, n, list, r) /\ Left(s[n], list, r)
            Places == {n \in Nat : n <= m => Read(n)}
<1>6. 0 \in Places
  <2>1. Left(Pages!SearchPage, <<>>, Pages!Idle)
    BY DEF Left, OnPage, Pages!SearchPage
  <2>2. CardsRead(cards, 0, <<>>, Pages!Idle)
    <3>1. IsList(<<>>) /\ Len(<<>>) = 0 /\ 1..0 = {}
      BY ShortLists
    <3>. QED BY <3>1 DEF CardsRead, Steady
  <2>3. Read(0)
    BY <1>5, <2>1, <2>2, Zenon
  <2>. HIDE DEF Read
  <2>. QED BY <2>3
<1>7. ASSUME NEW n \in Nat, n \in Places PROVE n + 1 \in Places
  <2>. SUFFICES ASSUME n + 1 <= m PROVE Read(n + 1)
    OBVIOUS
  <2>1. n + 1 \in 1..m /\ (n + 1) - 1 = n /\ n <= m
    BY <1>1
  <2>2. Read(n)
    <3>. HIDE DEF Read
    <3>. QED BY <1>7, <2>1
  <2>3. PICK list, r : CardsRead(cards, n, list, r) /\ Left(s[n], list, r)
    BY <2>2
  <2>4. s[n + 1] = Pages!Feed("search", s[n], CardEvents(cards[n + 1]))
    BY <1>3, <1>5, <2>1
  <2>5. IsCard(cards[n + 1])
    BY <1>2, <2>1
  <2>6. PICK more, t : /\ CardsRead(cards, n + 1, more, t)
                       /\ Left(Pages!Feed("search", s[n], CardEvents(cards[n + 1])), more, t)
    BY <2>3, <2>5, OneMoreCard, Zenon
  <2>. QED BY <2>4, <2>6, Zenon
<1>8. Nat \subseteq Places
  <2>. HIDE DEF Places
  <2>. QED BY <1>6, <1>7, Induction
<1>9. Read(m)
  <2>. HIDE DEF Read
  <2>. QED BY <1>1, <1>8
<1>10. PICK list, r : CardsRead(cards, m, list, r) /\ Left(s[m], list, r)
  BY <1>9
<1>11. Pages!ParseSearch(CardsEvents(cards)) = list
  <2>1. s[m].products = list
    BY <1>10 DEF Left, OnPage
  <2>. QED BY <1>5, <2>1 DEF Pages!ParseSearch, CardsEvents, lists
<1>12. DOMAIN list = 1..m
  BY <1>1, <1>10 DEF CardsRead, IsList
<1>13. Len(list) = m /\ \A i \in 1..m :
        /\ list[i]["title"] = <<cards[i].name>>
        /\ (\A j \in 1..i : cards[j].price # "broken line") => CardIsRead(cards[i], list[i])
  BY <1>10, Zenon DEF CardsRead, IsBroken
<1>. QED BY <1>11, <1>12, <1>13 DEF m

-----------------------------------------------------------------------------
(***************************************************************************)
(* The parser of a product's page, event by event.                         *)
(***************************************************************************)
\* The fields of the other parser.
DetailFields ==
    {"images", "basic", "supplierName", "supplierUrl", "inquiryUrl", "contactPerson", "meta", "jsonLd",
     "title", "reading", "basicDepth", "imageDepth", "key", "value"}

\* What the parser of a product's page holds.
Holds(p, images, basic, r, b, i, key, value) ==
    /\ DOMAIN p = DetailFields
    /\ p.images = images /\ p.basic = basic /\ p.reading = r
    /\ p.basicDepth = b /\ p.imageDepth = i /\ p.key = key /\ p.value = value

\* A depth after an end.
OneLess(depth) == IF depth = 0 THEN 0 ELSE depth - 1

Viewed(p, e) == Pages!Handle("detail", p, e)

\* Every start takes the three depths one further.
LEMMA DetailDeepened ==
    ASSUME NEW p, NEW images, NEW basic, NEW r, NEW b, NEW i, NEW key, NEW value,
           Holds(p, images, basic, r, b, i, key, value), NEW e
    PROVE  \E q : /\ Pages!DetailStart(p, e) = Pages!EnterDetail(q, e)
                  /\ Holds(q, images, basic, Pages!Deeper(r), Pages!OneDeeper(b), Pages!OneDeeper(i), key, value)
<1>. DEFINE q == [p EXCEPT !.reading = Pages!Deeper(@), !.basicDepth = Pages!OneDeeper(@),
                           !.imageDepth = Pages!OneDeeper(@)]
<1>1. Holds(q, images, basic, Pages!Deeper(r), Pages!OneDeeper(b), Pages!OneDeeper(i), key, value)
  BY DEF Holds, DetailFields
<1>2. Pages!DetailStart(p, e) = Pages!EnterDetail(q, e)
  BY Zenon DEF Pages!DetailStart
<1>. HIDE DEF q
<1>. QED BY <1>1, <1>2

\* What the start of an element does: a plain one, an item, one of its halves, a section, an image.
LEMMA PlainOpens ==
    ASSUME NEW p, NEW images, NEW basic, NEW r, NEW b, NEW i, NEW key, NEW value,
           Holds(p, images, basic, r, b, i, key, value), NEW tag, tag \in {"div", "span"}
    PROVE  Holds(Viewed(p, Pages!Start(tag, "none", "none")), images, basic, Pages!Deeper(r),
                 Pages!OneDeeper(b), Pages!OneDeeper(i), key, value)
<1>. DEFINE e == Pages!Start(tag, "none", "none")
<1>1. Pages!Handle("detail", p, e) = Pages!DetailStart(p, e) /\ e.tag = tag /\ e.mark = "none"
  BY StartIs
<1>. HIDE DEF e
<1>2. PICK q : /\ Pages!DetailStart(p, e) = Pages!EnterDetail(q, e)
               /\ Holds(q, images, basic, Pages!Deeper(r), Pages!OneDeeper(b), Pages!OneDeeper(i), key, value)
  BY DetailDeepened
<1>3. Pages!EnterDetail(q, e) = Pages!Open(q, e)
  BY <1>1 DEF Pages!EnterDetail
<1>4. Pages!Open(q, e) = q
  BY <1>1 DEF Pages!Open
<1>. QED BY <1>1, <1>2, <1>3, <1>4, Zenon DEF Viewed, e

LEMMA SectionOpens ==
    ASSUME NEW p, NEW images, NEW basic, NEW r, NEW b, NEW i, NEW key, NEW value,
           Holds(p, images, basic, r, b, i, key, value)
    PROVE  Holds(Viewed(p, Pages!Start("div", "product-img", "none")), images, basic, Pages!Deeper(r),
                 Pages!OneDeeper(b), 1, key, value)
<1>. DEFINE e == Pages!Start("div", "product-img", "none")
<1>1. Pages!Handle("detail", p, e) = Pages!DetailStart(p, e) /\ e.tag = "div" /\ e.mark = "product-img"
  BY StartIs
<1>. HIDE DEF e
<1>2. PICK q : /\ Pages!DetailStart(p, e) = Pages!EnterDetail(q, e)
               /\ Holds(q, images, basic, Pages!Deeper(r), Pages!OneDeeper(b), Pages!OneDeeper(i), key, value)
  BY DetailDeepened
<1>3. Pages!EnterDetail(q, e) = Pages!Open(q, e)
  BY <1>1 DEF Pages!EnterDetail
<1>4. Pages!Open(q, e) = [q EXCEPT !.imageDepth = 1]
  BY <1>1 DEF Pages!Open
<1>5. Holds([q EXCEPT !.imageDepth = 1], images, basic, Pages!Deeper(r), Pages!OneDeeper(b), 1, key, value)
  BY <1>2 DEF Holds, DetailFields
<1>. QED BY <1>1, <1>2, <1>3, <1>4, <1>5, Zenon DEF Viewed, e

LEMMA ItemOpens ==
    ASSUME NEW p, NEW images, NEW basic, NEW r, NEW b, NEW i, NEW key, NEW value,
           Holds(p, images, basic, r, b, i, key, value)
    PROVE  Holds(Viewed(p, Pages!Start("div", "bsc-item", "none")), images, basic, Pages!Deeper(r),
                 1, Pages!OneDeeper(i), <<>>, <<>>)
<1>. DEFINE e == Pages!Start("div", "bsc-item", "none")
<1>1. Pages!Handle("detail", p, e) = Pages!DetailStart(p, e) /\ e.tag = "div" /\ e.mark = "bsc-item"
  BY StartIs
<1>. HIDE DEF e
<1>2. PICK q : /\ Pages!DetailStart(p, e) = Pages!EnterDetail(q, e)
               /\ Holds(q, images, basic, Pages!Deeper(r), Pages!OneDeeper(b), Pages!OneDeeper(i), key, value)
  BY DetailDeepened
<1>3. Pages!EnterDetail(q, e) = Pages!Open(q, e)
  BY <1>1 DEF Pages!EnterDetail
<1>4. Pages!Open(q, e) = [q EXCEPT !.basicDepth = 1, !.key = <<>>, !.value = <<>>]
  BY <1>1 DEF Pages!Open
<1>5. Holds([q EXCEPT !.basicDepth = 1, !.key = <<>>, !.value = <<>>], images, basic, Pages!Deeper(r), 1,
            Pages!OneDeeper(i), <<>>, <<>>)
  BY <1>2 DEF Holds, DetailFields
<1>. QED BY <1>1, <1>2, <1>3, <1>4, <1>5, Zenon DEF Viewed, e

HalfOf(mark) == IF mark = "name" THEN "basic_key" ELSE "basic_value"

LEMMA HalfOpens ==
    ASSUME NEW p, NEW images, NEW basic, NEW r, NEW b \in Nat \ {0}, NEW i, NEW key, NEW value,
           Holds(p, images, basic, r, b, i, key, value), NEW mark, mark \in {"name", "value"}
    PROVE  Holds(Viewed(p, Pages!Start("div", mark, "none")), images, basic,
                 Pages!StartCapture(Pages!Deeper(r), HalfOf(mark)),
                 b + 1, Pages!OneDeeper(i), key, value)
<1>. DEFINE e == Pages!Start("div", mark, "none")  c == Pages!StartCapture(Pages!Deeper(r), HalfOf(mark))
<1>1. Pages!Handle("detail", p, e) = Pages!DetailStart(p, e) /\ e.tag = "div" /\ e.mark = mark
  BY StartIs
<1>. HIDE DEF e
<1>2. PICK q : /\ Pages!DetailStart(p, e) = Pages!EnterDetail(q, e)
               /\ Holds(q, images, basic, Pages!Deeper(r), Pages!OneDeeper(b), Pages!OneDeeper(i), key, value)
  BY DetailDeepened
<1>3. Pages!OneDeeper(b) = b + 1 /\ q.basicDepth = b + 1 /\ b + 1 > 0
  BY <1>2 DEF Holds, Pages!OneDeeper
<1>4. Pages!EnterDetail(q, e) = Pages!Open(q, e)
  BY <1>1 DEF Pages!EnterDetail
<1>5. Pages!Open(q, e) = Pages!Capture(q, HalfOf(mark))
  <2>1. q.basicDepth > 0
    BY <1>3
  <2>. QED BY <1>1, <2>1 DEF Pages!Open, HalfOf
<1>6. Holds(Pages!Capture(q, HalfOf(mark)), images, basic, c, b + 1, Pages!OneDeeper(i), key, value)
  BY <1>2, <1>3 DEF Holds, DetailFields, Pages!Capture
<1>. HIDE DEF c
<1>7. Holds(Viewed(p, e), images, basic, c, b + 1, Pages!OneDeeper(i), key, value)
  BY <1>1, <1>2, <1>4, <1>5, <1>6, Zenon DEF Viewed
<1>. QED BY <1>7 DEF e, c

\* An image is taken inside a section, once.
Taken(images, i, image) == IF i = 0 \/ image \in ToSet(images) THEN images ELSE Append(images, image)

LEMMA ImageOpens ==
    ASSUME NEW p, NEW images, NEW basic, NEW r, NEW b, NEW i, NEW key, NEW value,
           Holds(p, images, basic, r, b, i, key, value), NEW image, image \notin {"transparent", "foreign"}
    PROVE  Holds(Viewed(p, Image(image)), Taken(images, Pages!OneDeeper(i), image), basic, Pages!Deeper(r),
                 Pages!OneDeeper(b), Pages!OneDeeper(i), key, value)
<1>. DEFINE e == Pages!Start("img", "none", image)  d == Pages!OneDeeper(i)
<1>1. Pages!Handle("detail", p, e) = Pages!DetailStart(p, e) /\ e.tag = "img" /\ e.mark = "none" /\ e.value = image
  BY StartIs
<1>2. Image(image) = e
  BY DEF Image
<1>. HIDE DEF e
<1>3. PICK q : /\ Pages!DetailStart(p, e) = Pages!EnterDetail(q, e)
               /\ Holds(q, images, basic, Pages!Deeper(r), Pages!OneDeeper(b), d, key, value)
  BY DetailDeepened
<1>. HIDE DEF d
<1>4. Pages!EnterDetail(q, e) = Pages!Open(Pages!AddImage(q, image), e)
  BY <1>1 DEF Pages!EnterDetail
<1>5. Pages!Open(Pages!AddImage(q, image), e) = Pages!AddImage(q, image)
  BY <1>1 DEF Pages!Open
<1>6. q.images = images /\ q.imageDepth = d
  BY <1>3 DEF Holds
<1>7. Pages!ToSet(images) = ToSet(images)
  BY DEF Pages!ToSet, ToSet
<1>8. Holds(Pages!AddImage(q, image), Taken(images, d, image), basic, Pages!Deeper(r), Pages!OneDeeper(b), d,
            key, value)
  <2>1. CASE d = 0 \/ image \in ToSet(images)
    <3>1. Pages!AddImage(q, image) = q
      BY <1>6, <1>7, <2>1 DEF Pages!AddImage
    <3>2. Taken(images, d, image) = images
      BY <2>1 DEF Taken
    <3>. QED BY <1>3, <3>1, <3>2, Zenon
  <2>2. CASE ~(d = 0 \/ image \in ToSet(images))
    <3>. DEFINE more == Append(images, image)
    <3>1. Pages!AddImage(q, image) = [q EXCEPT !.images = more]
      BY <1>6, <1>7, <2>2 DEF Pages!AddImage
    <3>2. Taken(images, d, image) = more
      BY <2>2 DEF Taken
    <3>. HIDE DEF more
    <3>3. Holds([q EXCEPT !.images = more], more, basic, Pages!Deeper(r), Pages!OneDeeper(b), d, key, value)
      BY <1>3 DEF Holds, DetailFields
    <3>. QED BY <3>1, <3>2, <3>3, Zenon
  <2>. QED BY <2>1, <2>2
<1>. QED BY <1>1, <1>2, <1>3, <1>4, <1>5, <1>8, Zenon DEF Viewed, d

LEMMA TextViewed ==
    ASSUME NEW p, NEW images, NEW basic, NEW r, NEW b, NEW i, NEW key, NEW value,
           Holds(p, images, basic, r, b, i, key, value), NEW piece
    PROVE  Holds(Viewed(p, Pages!Text(piece)), images, basic, Pages!Hear(r, piece), b, i, key, value)
<1>. DEFINE q == [p EXCEPT !.reading = Pages!Hear(@, piece)]
<1>1. Viewed(p, Pages!Text(piece)) = q
  BY DEF Pages!Handle, Pages!DetailEvent, Pages!Text, Viewed
<1>2. Holds(q, images, basic, Pages!Hear(r, piece), b, i, key, value)
  BY DEF Holds, DetailFields
<1>. HIDE DEF q
<1>. QED BY <1>1, <1>2

-----------------------------------------------------------------------------
LEMMA EndViewed ==
    ASSUME NEW p, NEW tag, NEW read,
           LET left == [p EXCEPT !.reading = Pages!Shallower(@)]
           IN  read = IF Pages!Closes(left.reading) THEN Pages!FinishCapture(left) ELSE left
    PROVE  Viewed(p, Pages!End(tag)) = [Pages!CloseItem(read) EXCEPT !.imageDepth = IF @ = 0 THEN 0 ELSE @ - 1]
<1>1. Viewed(p, Pages!End(tag)) = Pages!DetailEnd(p)
  BY EndIs DEF Viewed
<1>. QED BY <1>1, Zenon DEF Pages!DetailEnd

\* The end of an element inside an item of basic information, or outside of any.
LEMMA ItemGoesOn ==
    ASSUME NEW p, NEW images, NEW basic, NEW r, NEW b, b # 1, NEW i, NEW key, NEW value,
           Holds(p, images, basic, r, b, i, key, value)
    PROVE  Holds([Pages!CloseItem(p) EXCEPT !.imageDepth = IF @ = 0 THEN 0 ELSE @ - 1],
                 images, basic, r, OneLess(b), OneLess(i), key, value)
<1>. DEFINE q == [p EXCEPT !.basicDepth = IF @ = 0 THEN 0 ELSE @ - 1]
<1>1. p.basicDepth # 1
  BY DEF Holds
<1>2. Pages!CloseItem(p) = q
  BY <1>1, Zenon DEF Pages!CloseItem
<1>3. Holds(q, images, basic, r, OneLess(b), i, key, value)
  BY DEF Holds, DetailFields, OneLess
<1>. HIDE DEF q
<1>4. Holds([q EXCEPT !.imageDepth = IF @ = 0 THEN 0 ELSE @ - 1], images, basic, r, OneLess(b), OneLess(i), key, value)
  BY <1>3 DEF Holds, DetailFields, OneLess
<1>. QED BY <1>2, <1>4, Zenon

LEMMA PlainCloses ==
    ASSUME NEW p, NEW images, NEW basic, NEW r, NEW b, b # 1, NEW i, NEW key, NEW value,
           Holds(p, images, basic, r, b, i, key, value), ~Pages!Closes(Pages!Shallower(r)), NEW tag
    PROVE  Holds(Viewed(p, Pages!End(tag)), images, basic, Pages!Shallower(r), OneLess(b), OneLess(i), key, value)
<1>. DEFINE left == [p EXCEPT !.reading = Pages!Shallower(@)]
            read == IF Pages!Closes(left.reading) THEN Pages!FinishCapture(left) ELSE left
<1>1. Holds(left, images, basic, Pages!Shallower(r), b, i, key, value) /\ left.reading = Pages!Shallower(r)
  BY DEF Holds, DetailFields
<1>2. read = left
  BY <1>1, Zenon
<1>3. Viewed(p, Pages!End(tag)) = [Pages!CloseItem(read) EXCEPT !.imageDepth = IF @ = 0 THEN 0 ELSE @ - 1]
  BY EndViewed, ZenonT(40)
<1>. HIDE DEF left, read
<1>4. Holds(read, images, basic, Pages!Shallower(r), b, i, key, value)
  BY <1>1, <1>2, Zenon
<1>5. Holds([Pages!CloseItem(read) EXCEPT !.imageDepth = IF @ = 0 THEN 0 ELSE @ - 1],
            images, basic, Pages!Shallower(r), OneLess(b), OneLess(i), key, value)
  BY <1>4, ItemGoesOn, Zenon
<1>. QED BY <1>3, <1>5, Zenon

\* The end of a half of an item, and of the item.
LEMMA HalfCloses ==
    ASSUME NEW p, NEW images, NEW basic, NEW b, b # 1, NEW i, NEW key, NEW value, NEW text, text # <<>>,
           NEW mark, mark \in {"name", "value"},
           Holds(p, images, basic, Reading(HalfOf(mark), 1, text), b, i, key, value), NEW tag
    PROVE  Holds(Viewed(p, Pages!End(tag)), images, basic, Pages!Idle, OneLess(b), OneLess(i),
                 IF mark = "name" THEN text ELSE key, IF mark = "name" THEN value ELSE text)
<1>. DEFINE left == [p EXCEPT !.reading = Pages!Shallower(@)]
            read == IF Pages!Closes(left.reading) THEN Pages!FinishCapture(left) ELSE left
            field == HalfOf(mark)  r == Reading(field, 1, text)  less == Reading(field, 0, text)
            newKey == IF mark = "name" THEN text ELSE key
            newValue == IF mark = "name" THEN value ELSE text
            idle == [left EXCEPT !.reading = Pages!Idle]
<1>0. field \in {"basic_key", "basic_value"} /\ field # "none" /\ (field = "basic_key" <=> mark = "name")
  BY DEF HalfOf
<1>. HIDE DEF field
<1>1. Pages!Shallower(r) = less /\ Pages!Closes(less) /\ less.text = text /\ less.capture = field
  <2>1. Pages!Shallower(r) = Reading(field, 1 - 1, text)
    BY <1>0 DEF Pages!Shallower, Reading
  <2>2. Pages!Closes(less) /\ less.text = text /\ less.capture = field
    BY <1>0 DEF Pages!Closes, Reading
  <2>3. 1 - 1 = 0
    OBVIOUS
  <2>. HIDE DEF r
  <2>. QED BY <2>1, <2>2, <2>3
<1>. HIDE DEF less
<1>2. Holds(left, images, basic, less, b, i, key, value) /\ left.reading = less
  BY <1>1 DEF Holds, DetailFields, field
<1>3. read = Pages!FinishCapture(left)
  BY <1>1, <1>2, Zenon
<1>4. Viewed(p, Pages!End(tag)) = [Pages!CloseItem(read) EXCEPT !.imageDepth = IF @ = 0 THEN 0 ELSE @ - 1]
  BY EndViewed, ZenonT(40)
<1>. HIDE DEF left, read
<1>5. Holds(idle, images, basic, Pages!Idle, b, i, key, value)
  BY <1>2 DEF Holds, DetailFields
<1>6. Pages!FinishCapture(left) =
        IF field = "basic_key" THEN [idle EXCEPT !.key = text] ELSE [idle EXCEPT !.value = text]
  <2>. DEFINE c == left.reading
  <2>1. c.text = text /\ c.capture = field
    BY <1>1, <1>2
  <2>2. Pages!FinishCapture(left) =
          IF c.text = <<>> THEN idle
          ELSE
          CASE c.capture = "document_title" -> [idle EXCEPT !.title = c.text]
            [] c.capture = "json_ld" -> [idle EXCEPT !.jsonLd = Append(@, c.text)]
            [] c.capture = "supplier_name" -> [idle EXCEPT !.supplierName = Pages!First(@, c.text)]
            [] c.capture = "contact_person" -> [idle EXCEPT !.contactPerson = Pages!First(@, c.text)]
            [] c.capture = "basic_key" -> [idle EXCEPT !.key = c.text]
            [] c.capture = "basic_value" -> [idle EXCEPT !.value = c.text]
            [] OTHER -> idle
    BY Zenon DEF Pages!FinishCapture
  <2>. HIDE DEF idle, c
  <2>. QED BY <1>0, <2>1, <2>2
<1>. HIDE DEF idle
<1>7. Holds(read, images, basic, Pages!Idle, b, i, newKey, newValue)
  <2>1. CASE mark = "name"
    <3>1. read = [idle EXCEPT !.key = text]
      BY <1>0, <1>3, <1>6, <2>1
    <3>2. Holds([idle EXCEPT !.key = text], images, basic, Pages!Idle, b, i, text, value)
      BY <1>5 DEF Holds, DetailFields
    <3>. QED BY <2>1, <3>1, <3>2, Zenon
  <2>2. CASE mark # "name"
    <3>1. read = [idle EXCEPT !.value = text]
      BY <1>0, <1>3, <1>6, <2>2
    <3>2. Holds([idle EXCEPT !.value = text], images, basic, Pages!Idle, b, i, key, text)
      BY <1>5 DEF Holds, DetailFields
    <3>. QED BY <2>2, <3>1, <3>2, Zenon
  <2>. QED BY <2>1, <2>2
<1>. HIDE DEF newKey, newValue
<1>8. Holds([Pages!CloseItem(read) EXCEPT !.imageDepth = IF @ = 0 THEN 0 ELSE @ - 1],
            images, basic, Pages!Idle, OneLess(b), OneLess(i), newKey, newValue)
  BY <1>7, ItemGoesOn, Zenon
<1>. QED BY <1>4, <1>8, Zenon DEF newKey, newValue

LEMMA ItemCloses ==
    ASSUME NEW p, NEW images, NEW basic, NEW i, NEW key, NEW value,
           Holds(p, images, basic, Pages!Idle, 1, i, key, value), NEW tag
    PROVE  Holds(Viewed(p, Pages!End(tag)), images,
                 IF key # <<>> /\ value # <<>> THEN Pages!Entered(basic, key, value) ELSE basic,
                 Pages!Idle, 0, OneLess(i), <<>>, <<>>)
<1>. DEFINE left == [p EXCEPT !.reading = Pages!Shallower(@)]
            read == IF Pages!Closes(left.reading) THEN Pages!FinishCapture(left) ELSE left
            more == IF key # <<>> /\ value # <<>> THEN Pages!Entered(basic, key, value) ELSE basic
<1>1. Holds(left, images, basic, Pages!Idle, 1, i, key, value) /\ left.reading = Pages!Idle
  <2>1. Pages!Shallower(Pages!Idle) = Pages!Idle
    BY ReadingNothing, Zenon
  <2>. QED BY <2>1 DEF Holds, DetailFields
<1>2. read = left
  BY <1>1, ReadingNothing, Zenon
<1>3. Viewed(p, Pages!End(tag)) = [Pages!CloseItem(read) EXCEPT !.imageDepth = IF @ = 0 THEN 0 ELSE @ - 1]
  BY EndViewed, ZenonT(40)
<1>. HIDE DEF left, read
<1>4. Holds(read, images, basic, Pages!Idle, 1, i, key, value)
  BY <1>1, <1>2, Zenon
<1>. DEFINE lifted == [read EXCEPT !.basicDepth = IF @ = 0 THEN 0 ELSE @ - 1]
            closed == [lifted EXCEPT !.key = <<>>, !.value = <<>>, !.basic = more]
<1>5. Holds(lifted, images, basic, Pages!Idle, 0, i, key, value)
  <2>1. 1 - 1 = 0
    OBVIOUS
  <2>. QED BY <1>4, <2>1 DEF Holds, DetailFields
<1>6. Pages!CloseItem(read) = closed
  <2>1. read.basicDepth = 1 /\ read.key = key /\ read.value = value /\ lifted.basic = basic
    BY <1>4, <1>5 DEF Holds
  <2>2. Pages!CloseItem(read) =
          [lifted EXCEPT !.key = <<>>, !.value = <<>>,
                         !.basic = IF read.key # <<>> /\ read.value # <<>>
                                   THEN Pages!Entered(@, read.key, read.value) ELSE @]
    BY <2>1, Zenon DEF Pages!CloseItem
  <2>. HIDE DEF lifted
  <2>. QED BY <2>1, <2>2, Zenon
<1>. HIDE DEF lifted, more
<1>7. Holds(closed, images, more, Pages!Idle, 0, i, <<>>, <<>>)
  BY <1>5 DEF Holds, DetailFields
<1>. HIDE DEF closed
<1>8. Holds([closed EXCEPT !.imageDepth = IF @ = 0 THEN 0 ELSE @ - 1], images, more, Pages!Idle, 0,
            OneLess(i), <<>>, <<>>)
  BY <1>7 DEF Holds, DetailFields, OneLess
<1>. QED BY <1>3, <1>6, <1>8, Zenon DEF more

-----------------------------------------------------------------------------
(***************************************************************************)
(* Blocks.  Between two blocks nothing is read; how many elements are      *)
(* believed open in a section of images is 0 as long as every section had  *)
(* its image closed.                                                       *)
(***************************************************************************)
\* A block, its parts and what a page of them is fed as.
IsBlock(block) ==
    /\ block.kind \in {"images", "open images", "item", "half item", "outside"}
    /\ block.name \notin {"transparent", "foreign"}

Section(name) ==
    Element("div", "product-img", Element("div", "none", <<Image(name), Pages!End("img")>>))

OpenSection(name) == Element("div", "product-img", <<Image(name)>>)

KeyOf(name) == Element("div", "name", <<Pages!Text(name)>>)

ValueOf(piece) == Element("div", "value", Element("span", "none", <<Pages!Text(piece)>>))

\* An element with one event inside, and one with an element inside.
LEMMA SimpleFed ==
    ASSUME NEW parser, NEW p, NEW tag, NEW mark, NEW e
    PROVE  Pages!Feed(parser, p, Element(tag, mark, <<e>>)) =
               Pages!Handle(parser,
                   Pages!Handle(parser, Pages!Handle(parser, p, Pages!Start(tag, mark, "none")), e),
                   Pages!End(tag))
<1>. DEFINE in == <<e>>  q == Pages!Handle(parser, p, Pages!Start(tag, mark, "none"))
<1>1. IsList(in) /\ Pages!Feed(parser, q, in) = Pages!Handle(parser, q, e)
  BY ShortLists, FeedOne
<1>. HIDE DEF in
<1>2. Pages!Feed(parser, p, Element(tag, mark, in)) = Inside(parser, p, tag, mark, in)
  BY <1>1, ElementFed
<1>. QED BY <1>1, <1>2 DEF Inside, in

LEMMA SimpleIsList == ASSUME NEW tag, NEW mark, NEW e PROVE IsList(Element(tag, mark, <<e>>))
<1>. DEFINE in == <<e>>
<1>1. IsList(in)
  BY ShortLists
<1>. HIDE DEF in
<1>2. IsList(Element(tag, mark, in))
  BY <1>1, ElementFed
<1>. QED BY <1>2 DEF in

LEMMA SectionFed ==
    ASSUME NEW parser, NEW p, NEW name
    PROVE  Pages!Feed(parser, p, Section(name)) =
               Pages!Handle(parser, Pages!Handle(parser, Pages!Handle(parser, Pages!Handle(parser,
                   Pages!Handle(parser, Pages!Handle(parser, p, Pages!Start("div", "product-img", "none")),
                                Pages!Start("div", "none", "none")),
                   Image(name)), Pages!End("img")), Pages!End("div")), Pages!End("div"))
<1>. DEFINE in == <<Image(name), Pages!End("img")>>  inner == Element("div", "none", in)
            q1 == Pages!Handle(parser, p, Pages!Start("div", "product-img", "none"))
            q2 == Pages!Handle(parser, q1, Pages!Start("div", "none", "none"))
<1>1. IsList(in) /\ Pages!Feed(parser, q2, in) = Pages!Handle(parser, Pages!Handle(parser, q2, Image(name)), Pages!End("img"))
  BY ShortLists, FeedTwo
<1>. HIDE DEF in
<1>2. IsList(inner) /\ Pages!Feed(parser, q1, inner) = Inside(parser, q1, "div", "none", in)
  BY <1>1, ElementFed
<1>3. Section(name) = Element("div", "product-img", inner)
  BY DEF Section, in
<1>. HIDE DEF inner
<1>4. Pages!Feed(parser, p, Element("div", "product-img", inner)) = Inside(parser, p, "div", "product-img", inner)
  BY <1>2, ElementFed
<1>. QED BY <1>1, <1>2, <1>3, <1>4 DEF Inside

LEMMA SectionIsList == ASSUME NEW name PROVE IsList(Section(name))
<1>. DEFINE in == <<Image(name), Pages!End("img")>>  inner == Element("div", "none", in)
<1>1. IsList(in)
  BY ShortLists
<1>2. Section(name) = Element("div", "product-img", inner)
  BY DEF Section
<1>. HIDE DEF in
<1>3. IsList(inner)
  BY <1>1, ElementFed
<1>. HIDE DEF inner
<1>4. IsList(Element("div", "product-img", inner))
  BY <1>3, ElementFed
<1>. QED BY <1>2, <1>4

LEMMA ValueFed ==
    ASSUME NEW parser, NEW p, NEW piece
    PROVE  Pages!Feed(parser, p, ValueOf(piece)) =
               Pages!Handle(parser, Pages!Handle(parser, Pages!Handle(parser,
                   Pages!Handle(parser, Pages!Handle(parser, p, Pages!Start("div", "value", "none")),
                                Pages!Start("span", "none", "none")),
                   Pages!Text(piece)), Pages!End("span")), Pages!End("div"))
<1>. DEFINE inner == Element("span", "none", <<Pages!Text(piece)>>)
            q1 == Pages!Handle(parser, p, Pages!Start("div", "value", "none"))
            q2 == Pages!Handle(parser, q1, Pages!Start("span", "none", "none"))
<1>1. /\ IsList(inner)
      /\ Pages!Feed(parser, q1, inner) = Pages!Handle(parser, Pages!Handle(parser, q2, Pages!Text(piece)), Pages!End("span"))
  BY SimpleIsList, SimpleFed
<1>2. ValueOf(piece) = Element("div", "value", inner)
  BY DEF ValueOf
<1>. HIDE DEF inner
<1>3. Pages!Feed(parser, p, Element("div", "value", inner)) = Inside(parser, p, "div", "value", inner)
  BY <1>1, ElementFed
<1>. QED BY <1>1, <1>2, <1>3 DEF Inside

LEMMA ValueIsList == ASSUME NEW piece PROVE IsList(ValueOf(piece))
<1>. DEFINE inner == Element("span", "none", <<Pages!Text(piece)>>)
<1>1. IsList(inner)
  BY SimpleIsList
<1>2. ValueOf(piece) = Element("div", "value", inner)
  BY DEF ValueOf
<1>. HIDE DEF inner
<1>3. IsList(Element("div", "value", inner))
  BY <1>1, ElementFed
<1>. QED BY <1>2, <1>3

LEMMA ItemFed ==
    ASSUME NEW parser, NEW p, NEW name, NEW piece
    PROVE  LET item == Element("div", "bsc-item", KeyOf(name) \o ValueOf(piece))
           IN  /\ IsList(item)
               /\ Pages!Feed(parser, p, item) =
                    Pages!Handle(parser,
                        Pages!Feed(parser,
                            Pages!Feed(parser, Pages!Handle(parser, p, Pages!Start("div", "bsc-item", "none")),
                                       KeyOf(name)),
                            ValueOf(piece)),
                        Pages!End("div"))
<1>. DEFINE k == KeyOf(name)  v == ValueOf(piece)  both == k \o v
            q == Pages!Handle(parser, p, Pages!Start("div", "bsc-item", "none"))
<1>1. IsList(k) /\ IsList(v)
  BY SimpleIsList, ValueIsList DEF KeyOf
<1>. HIDE DEF k, v
<1>2. IsList(both) /\ Pages!Feed(parser, q, both) = Pages!Feed(parser, Pages!Feed(parser, q, k), v)
  BY <1>1, FeedAfter
<1>. HIDE DEF both
<1>3. /\ IsList(Element("div", "bsc-item", both))
      /\ Pages!Feed(parser, p, Element("div", "bsc-item", both)) = Inside(parser, p, "div", "bsc-item", both)
  BY <1>2, ElementFed
<1>. QED BY <1>2, <1>3 DEF Inside, both, k, v

LEMMA HalfItemFed ==
    ASSUME NEW parser, NEW p, NEW name
    PROVE  LET item == Element("div", "bsc-item", KeyOf(name))
           IN  /\ IsList(item)
               /\ Pages!Feed(parser, p, item) =
                    Pages!Handle(parser,
                        Pages!Feed(parser, Pages!Handle(parser, p, Pages!Start("div", "bsc-item", "none")),
                                   KeyOf(name)),
                        Pages!End("div"))
<1>. DEFINE k == KeyOf(name)
<1>1. IsList(k)
  BY SimpleIsList DEF KeyOf
<1>. HIDE DEF k
<1>2. /\ IsList(Element("div", "bsc-item", k))
      /\ Pages!Feed(parser, p, Element("div", "bsc-item", k)) = Inside(parser, p, "div", "bsc-item", k)
  BY <1>1, ElementFed
<1>. QED BY <1>2 DEF Inside, k

\* Between two blocks nothing is read; k elements are believed open in a section of images.
Between(p, images, basic, k) ==
    \E key, value : Holds(p, images, basic, Pages!Idle, 0, k, key, value)

WithImage(images, image) == IF image \in ToSet(images) THEN images ELSE Append(images, image)

LEMMA DepthsMove ==
    /\ Pages!OneDeeper(0) = 0 /\ OneLess(0) = 0
    /\ \A d \in Nat \ {0} : Pages!OneDeeper(d) = d + 1 /\ OneLess(d) = d - 1
    /\ \A d \in Nat : OneLess(Pages!OneDeeper(d)) = d
BY DEF Pages!OneDeeper, OneLess

LEMMA FewDepths ==
    /\ Pages!OneDeeper(1) = 2 /\ Pages!OneDeeper(2) = 3 /\ OneLess(3) = 2 /\ OneLess(2) = 1 /\ OneLess(1) = 0
BY DEF Pages!OneDeeper, OneLess

LEMMA WithImageIs ==
    ASSUME NEW images, NEW image, NEW i, i # 0 PROVE Taken(images, i, image) = WithImage(images, image)
BY DEF Taken, WithImage

\* Outside of items, while nothing is read.
LEMMA OutsideItems ==
    ASSUME NEW p, NEW images, NEW basic, NEW i, NEW key, NEW value,
           Holds(p, images, basic, Pages!Idle, 0, i, key, value)
    PROVE  /\ Holds(Viewed(p, Pages!Start("div", "none", "none")), images, basic, Pages!Idle, 0,
                    Pages!OneDeeper(i), key, value)
           /\ Holds(Viewed(p, Pages!Start("div", "product-img", "none")), images, basic, Pages!Idle, 0, 1, key, value)
           /\ \A image : image \notin {"transparent", "foreign"} =>
                Holds(Viewed(p, Image(image)), Taken(images, Pages!OneDeeper(i), image), basic, Pages!Idle, 0,
                      Pages!OneDeeper(i), key, value)
           /\ \A tag : Holds(Viewed(p, Pages!End(tag)), images, basic, Pages!Idle, 0, OneLess(i), key, value)
<1>1. Pages!OneDeeper(0) = 0 /\ OneLess(0) = 0
  BY DepthsMove
<1>2. /\ Pages!Deeper(Pages!Idle) = Pages!Idle /\ Pages!Shallower(Pages!Idle) = Pages!Idle
      /\ ~Pages!Closes(Pages!Idle)
  BY ReadingNothing
<1>3. Holds(Viewed(p, Pages!Start("div", "none", "none")), images, basic, Pages!Deeper(Pages!Idle), Pages!OneDeeper(0),
            Pages!OneDeeper(i), key, value)
  <2>1. "div" \in {"div", "span"}
    OBVIOUS
  <2>. QED BY <2>1, PlainOpens, Zenon
<1>4. Holds(Viewed(p, Pages!Start("div", "product-img", "none")), images, basic, Pages!Deeper(Pages!Idle),
            Pages!OneDeeper(0), 1, key, value)
  BY SectionOpens, Zenon
<1>5. ASSUME NEW image, image \notin {"transparent", "foreign"}
      PROVE  Holds(Viewed(p, Image(image)), Taken(images, Pages!OneDeeper(i), image), basic,
                   Pages!Deeper(Pages!Idle), Pages!OneDeeper(0), Pages!OneDeeper(i), key, value)
  BY <1>5, ImageOpens, Zenon
<1>6. ASSUME NEW tag
      PROVE  Holds(Viewed(p, Pages!End(tag)), images, basic, Pages!Shallower(Pages!Idle), OneLess(0), OneLess(i), key, value)
  <2>1. 0 # 1
    OBVIOUS
  <2>. QED BY <1>2, <2>1, PlainCloses, Zenon
<1>. QED BY <1>1, <1>2, <1>3, <1>4, <1>5, <1>6, Zenon

\* A section with its image closed, one with it open, and an image outside of a section.
LEMMA SectionViewed ==
    ASSUME NEW p, NEW images, NEW basic, NEW k, Between(p, images, basic, k),
           NEW name, name \notin {"transparent", "foreign"}
    PROVE  Between(Pages!Feed("detail", p, Section(name)), WithImage(images, name), basic, 0)
<1>1. PICK key, value : Holds(p, images, basic, Pages!Idle, 0, k, key, value)
  BY DEF Between
<1>. DEFINE q1 == Viewed(p, Pages!Start("div", "product-img", "none"))
            q2 == Viewed(q1, Pages!Start("div", "none", "none"))
            q3 == Viewed(q2, Image(name))
            q4 == Viewed(q3, Pages!End("img"))
            q5 == Viewed(q4, Pages!End("div"))
            q6 == Viewed(q5, Pages!End("div"))
            more == WithImage(images, name)
<1>2. Pages!Feed("detail", p, Section(name)) = q6
  BY SectionFed DEF Viewed
<1>3. Holds(q1, images, basic, Pages!Idle, 0, 1, key, value)
  BY <1>1, OutsideItems, Zenon
<1>. HIDE DEF q1
<1>4. Holds(q2, images, basic, Pages!Idle, 0, 2, key, value)
  BY <1>3, OutsideItems, FewDepths, Zenon
<1>. HIDE DEF q2
<1>5. Holds(q3, more, basic, Pages!Idle, 0, 3, key, value)
  <2>1. Holds(q3, Taken(images, Pages!OneDeeper(2), name), basic, Pages!Idle, 0, Pages!OneDeeper(2), key, value)
    BY <1>4, OutsideItems, Zenon
  <2>2. Taken(images, 3, name) = more
    BY WithImageIs
  <2>. QED BY <2>1, <2>2, FewDepths, Zenon
<1>. HIDE DEF q3, more
<1>6. Holds(q4, more, basic, Pages!Idle, 0, 2, key, value)
  BY <1>5, OutsideItems, FewDepths, Zenon
<1>. HIDE DEF q4
<1>7. Holds(q5, more, basic, Pages!Idle, 0, 1, key, value)
  BY <1>6, OutsideItems, FewDepths, Zenon
<1>. HIDE DEF q5
<1>8. Holds(q6, more, basic, Pages!Idle, 0, 0, key, value)
  BY <1>7, OutsideItems, FewDepths, Zenon
<1>. QED BY <1>2, <1>8, Zenon DEF Between, more

LEMMA OpenSectionViewed ==
    ASSUME NEW p, NEW images, NEW basic, NEW k, Between(p, images, basic, k),
           NEW name, name \notin {"transparent", "foreign"}
    PROVE  Between(Pages!Feed("detail", p, OpenSection(name)), WithImage(images, name), basic, 1)
<1>1. PICK key, value : Holds(p, images, basic, Pages!Idle, 0, k, key, value)
  BY DEF Between
<1>. DEFINE q1 == Viewed(p, Pages!Start("div", "product-img", "none"))
            q2 == Viewed(q1, Image(name))
            q3 == Viewed(q2, Pages!End("div"))
            more == WithImage(images, name)
<1>2. Pages!Feed("detail", p, OpenSection(name)) = q3
  BY SimpleFed DEF Viewed, OpenSection
<1>3. Holds(q1, images, basic, Pages!Idle, 0, 1, key, value)
  BY <1>1, OutsideItems, Zenon
<1>. HIDE DEF q1
<1>4. Holds(q2, more, basic, Pages!Idle, 0, 2, key, value)
  <2>1. Holds(q2, Taken(images, Pages!OneDeeper(1), name), basic, Pages!Idle, 0, Pages!OneDeeper(1), key, value)
    BY <1>3, OutsideItems, Zenon
  <2>2. Taken(images, 2, name) = more
    BY WithImageIs
  <2>. QED BY <2>1, <2>2, FewDepths, Zenon
<1>. HIDE DEF q2, more
<1>5. Holds(q3, more, basic, Pages!Idle, 0, 1, key, value)
  BY <1>4, OutsideItems, FewDepths, Zenon
<1>. QED BY <1>2, <1>5, Zenon DEF Between, more

LEMMA OutsideViewed ==
    ASSUME NEW p, NEW images, NEW basic, NEW k \in Nat, Between(p, images, basic, k),
           NEW name, name \notin {"transparent", "foreign"}
    PROVE  IF k = 0 THEN Between(Viewed(p, Image(name)), images, basic, 0)
           ELSE Between(Viewed(p, Image(name)), WithImage(images, name), basic, k + 1)
<1>1. PICK key, value : Holds(p, images, basic, Pages!Idle, 0, k, key, value)
  BY DEF Between
<1>. DEFINE q == Viewed(p, Image(name))
<1>2. Holds(q, Taken(images, Pages!OneDeeper(k), name), basic, Pages!Idle, 0, Pages!OneDeeper(k), key, value)
  BY <1>1, OutsideItems, Zenon
<1>. HIDE DEF q
<1>3. CASE k = 0
  <2>1. Pages!OneDeeper(k) = 0 /\ Taken(images, 0, name) = images
    BY <1>3 DEF Pages!OneDeeper, Taken
  <2>2. Holds(q, images, basic, Pages!Idle, 0, 0, key, value)
    BY <1>2, <2>1, Zenon
  <2>. QED BY <1>3, <2>2, Zenon DEF Between, q
<1>4. CASE k # 0
  <2>1. Pages!OneDeeper(k) = k + 1 /\ k + 1 # 0
    BY <1>4 DEF Pages!OneDeeper
  <2>2. Taken(images, k + 1, name) = WithImage(images, name)
    BY <2>1, WithImageIs
  <2>3. Holds(q, WithImage(images, name), basic, Pages!Idle, 0, k + 1, key, value)
    BY <1>2, <2>1, <2>2, Zenon
  <2>. QED BY <1>4, <2>3, Zenon DEF Between, q
<1>. QED BY <1>3, <1>4

\* The two halves of an item.
LEMMA KeyViewed ==
    ASSUME NEW p, NEW images, NEW basic, NEW i \in Nat, Holds(p, images, basic, Pages!Idle, 1, i, <<>>, <<>>), NEW name
    PROVE  Holds(Pages!Feed("detail", p, KeyOf(name)), images, basic, Pages!Idle, 1, i, <<name>>, <<>>)
<1>. DEFINE q1 == Viewed(p, Pages!Start("div", "name", "none"))
            q2 == Viewed(q1, Pages!Text(name))
            q3 == Viewed(q2, Pages!End("div"))
            d == Pages!OneDeeper(i)
<1>1. Pages!Feed("detail", p, KeyOf(name)) = q3
  BY SimpleFed DEF KeyOf, Viewed
<1>2. HalfOf("name") = "basic_key"
  BY DEF HalfOf
<1>3. Holds(q1, images, basic, Reading("basic_key", 1, <<>>), 2, d, <<>>, <<>>)
  <2>1. 1 \in Nat \ {0} /\ 1 + 1 = 2 /\ "name" \in {"name", "value"}
    OBVIOUS
  <2>2. Holds(q1, images, basic, Pages!StartCapture(Pages!Deeper(Pages!Idle), HalfOf("name")), 1 + 1, d, <<>>, <<>>)
    BY <2>1, HalfOpens, Zenon
  <2>3. Pages!StartCapture(Pages!Deeper(Pages!Idle), HalfOf("name")) = Reading("basic_key", 1, <<>>)
    BY <1>2, ReadingNothing, Zenon
  <2>. HIDE DEF q1, d
  <2>. QED BY <2>1, <2>2, <2>3
<1>. HIDE DEF q1
<1>4. Holds(q2, images, basic, Reading("basic_key", 1, <<name>>), 2, d, <<>>, <<>>)
  <2>1. Holds(q2, images, basic, Pages!Hear(Reading("basic_key", 1, <<>>), name), 2, d, <<>>, <<>>)
    BY <1>3, TextViewed, Zenon
  <2>2. Pages!Hear(Reading("basic_key", 1, <<>>), name) = Reading("basic_key", 1, <<name>>)
    BY Appended DEF Pages!Hear, Reading
  <2>. QED BY <2>1, <2>2, Zenon
<1>. HIDE DEF q2
<1>5. Holds(q3, images, basic, Pages!Idle, 1, i, <<name>>, <<>>)
  <2>1. 2 # 1 /\ <<name>> # <<>> /\ "name" \in {"name", "value"} /\ OneLess(2) = 1 /\ OneLess(d) = i
    <3>1. <<name>> # <<>> /\ 2 # 1
      OBVIOUS
    <3>2. OneLess(2) = 1 /\ OneLess(d) = i
      BY FewDepths, DepthsMove
    <3>. QED BY <3>1, <3>2
  <2>2. Holds(q2, images, basic, Reading(HalfOf("name"), 1, <<name>>), 2, d, <<>>, <<>>)
    BY <1>2, <1>4, Zenon
  <2>3. Holds(q3, images, basic, Pages!Idle, OneLess(2), OneLess(d),
              IF "name" = "name" THEN <<name>> ELSE <<>>, IF "name" = "name" THEN <<>> ELSE <<name>>)
    BY <2>1, <2>2, HalfCloses, Zenon
  <2>. HIDE DEF q3, d
  <2>. QED BY <2>1, <2>3, Zenon
<1>. QED BY <1>1, <1>5, Zenon

LEMMA ValueViewed ==
    ASSUME NEW p, NEW images, NEW basic, NEW i \in Nat, NEW key,
           Holds(p, images, basic, Pages!Idle, 1, i, key, <<>>), NEW piece
    PROVE  Holds(Pages!Feed("detail", p, ValueOf(piece)), images, basic, Pages!Idle, 1, i, key, <<piece>>)
<1>. DEFINE q1 == Viewed(p, Pages!Start("div", "value", "none"))
            q2 == Viewed(q1, Pages!Start("span", "none", "none"))
            q3 == Viewed(q2, Pages!Text(piece))
            q4 == Viewed(q3, Pages!End("span"))
            q5 == Viewed(q4, Pages!End("div"))
            d == Pages!OneDeeper(i)  dd == Pages!OneDeeper(d)
            R(n, text) == Reading("basic_value", n, text)
<1>1. Pages!Feed("detail", p, ValueOf(piece)) = q5
  BY ValueFed DEF Viewed
<1>2. HalfOf("value") = "basic_value"
  BY DEF HalfOf
<1>3. Holds(q1, images, basic, R(1, <<>>), 2, d, key, <<>>)
  <2>1. 1 \in Nat \ {0} /\ 1 + 1 = 2 /\ "value" \in {"name", "value"}
    OBVIOUS
  <2>2. Holds(q1, images, basic, Pages!StartCapture(Pages!Deeper(Pages!Idle), HalfOf("value")), 1 + 1, d, key, <<>>)
    BY <2>1, HalfOpens, Zenon
  <2>3. Pages!StartCapture(Pages!Deeper(Pages!Idle), HalfOf("value")) = R(1, <<>>)
    BY <1>2, ReadingNothing, Zenon
  <2>. HIDE DEF q1, d
  <2>. QED BY <2>1, <2>2, <2>3
<1>. HIDE DEF q1
<1>4. /\ Pages!Deeper(R(1, <<>>)) = R(2, <<>>) /\ Pages!Shallower(R(2, <<piece>>)) = R(1, <<piece>>)
      /\ ~Pages!Closes(R(1, <<piece>>))
  BY DEF Pages!Deeper, Pages!Shallower, Pages!Closes, Reading
<1>5. Pages!Hear(R(2, <<>>), piece) = R(2, <<piece>>)
  BY Appended DEF Pages!Hear, Reading
<1>6. d \in Nat /\ OneLess(dd) = d /\ OneLess(d) = i
  <2>1. d \in Nat
    BY DEF Pages!OneDeeper
  <2>. HIDE DEF d
  <2>2. OneLess(dd) = d
    BY <2>1, DepthsMove
  <2>. QED BY <2>1, <2>2, DepthsMove DEF d
<1>. HIDE DEF R
<1>7. Holds(q2, images, basic, R(2, <<>>), 3, dd, key, <<>>)
  <2>1. "span" \in {"div", "span"}
    OBVIOUS
  <2>2. Holds(q2, images, basic, Pages!Deeper(R(1, <<>>)), Pages!OneDeeper(2), dd, key, <<>>)
    BY <1>3, <2>1, PlainOpens, Zenon
  <2>. QED BY <1>4, <2>2, FewDepths, Zenon
<1>. HIDE DEF q2, dd
<1>8. Holds(q3, images, basic, R(2, <<piece>>), 3, dd, key, <<>>)
  <2>1. Holds(q3, images, basic, Pages!Hear(R(2, <<>>), piece), 3, dd, key, <<>>)
    BY <1>7, TextViewed, Zenon
  <2>. QED BY <1>5, <2>1, Zenon
<1>. HIDE DEF q3
<1>9. Holds(q4, images, basic, R(1, <<piece>>), 2, d, key, <<>>)
  <2>1. 3 # 1
    OBVIOUS
  <2>2. Holds(q4, images, basic, Pages!Shallower(R(2, <<piece>>)), OneLess(3), OneLess(dd), key, <<>>)
    BY <1>4, <1>8, <2>1, PlainCloses, Zenon
  <2>. QED BY <1>4, <1>6, <2>2, FewDepths, Zenon
<1>. HIDE DEF q4
<1>10. Holds(q5, images, basic, Pages!Idle, 1, i, key, <<piece>>)
  <2>1. 2 # 1 /\ <<piece>> # <<>> /\ "value" \in {"name", "value"} /\ "value" # "name"
    OBVIOUS
  <2>2. Holds(q4, images, basic, Reading(HalfOf("value"), 1, <<piece>>), 2, d, key, <<>>)
    BY <1>2, <1>9, Zenon DEF R
  <2>3. Holds(q5, images, basic, Pages!Idle, OneLess(2), OneLess(d),
              IF "value" = "name" THEN <<piece>> ELSE key, IF "value" = "name" THEN <<>> ELSE <<piece>>)
    BY <2>1, <2>2, HalfCloses, Zenon
  <2>. HIDE DEF q5, d
  <2>. QED BY <1>6, <2>1, <2>3, FewDepths, Zenon
<1>. QED BY <1>1, <1>10, Zenon

\* An item with both halves is entered, one with half of them is not; neither moves the images.
LEMMA ItemViewed ==
    ASSUME NEW p, NEW images, NEW basic, NEW k \in Nat, Between(p, images, basic, k), NEW name, NEW piece
    PROVE  LET item == Element("div", "bsc-item", KeyOf(name) \o ValueOf(piece))
           IN  Between(Pages!Feed("detail", p, item), images, Pages!Entered(basic, <<name>>, <<piece>>), k)
<1>. DEFINE item == Element("div", "bsc-item", KeyOf(name) \o ValueOf(piece))
            q1 == Viewed(p, Pages!Start("div", "bsc-item", "none"))
            q2 == Pages!Feed("detail", q1, KeyOf(name))
            q3 == Pages!Feed("detail", q2, ValueOf(piece))
            q4 == Viewed(q3, Pages!End("div"))
            d == Pages!OneDeeper(k)
<1>1. PICK key, value : Holds(p, images, basic, Pages!Idle, 0, k, key, value)
  BY DEF Between
<1>2. Pages!Feed("detail", p, item) = q4
  BY ItemFed, Zenon DEF Viewed
<1>. HIDE DEF item
<1>3. d \in Nat /\ OneLess(d) = k
  <2>1. d \in Nat
    BY DEF Pages!OneDeeper
  <2>. QED BY <2>1, DepthsMove
<1>4. Holds(q1, images, basic, Pages!Idle, 1, d, <<>>, <<>>)
  <2>1. Holds(q1, images, basic, Pages!Deeper(Pages!Idle), 1, d, <<>>, <<>>)
    BY <1>1, ItemOpens, Zenon
  <2>. QED BY <2>1, ReadingNothing, Zenon
<1>. HIDE DEF q1, d
<1>5. Holds(q2, images, basic, Pages!Idle, 1, d, <<name>>, <<>>)
  BY <1>3, <1>4, KeyViewed, Zenon
<1>. HIDE DEF q2
<1>6. Holds(q3, images, basic, Pages!Idle, 1, d, <<name>>, <<piece>>)
  BY <1>3, <1>5, ValueViewed, Zenon
<1>. HIDE DEF q3
<1>7. Holds(q4, images, Pages!Entered(basic, <<name>>, <<piece>>), Pages!Idle, 0, k, <<>>, <<>>)
  <2>1. <<name>> # <<>> /\ <<piece>> # <<>>
    OBVIOUS
  <2>2. Holds(q4, images, IF <<name>> # <<>> /\ <<piece>> # <<>>
                          THEN Pages!Entered(basic, <<name>>, <<piece>>) ELSE basic,
              Pages!Idle, 0, OneLess(d), <<>>, <<>>)
    BY <1>6, ItemCloses, Zenon
  <2>3. (IF <<name>> # <<>> /\ <<piece>> # <<>>
          THEN Pages!Entered(basic, <<name>>, <<piece>>) ELSE basic) = Pages!Entered(basic, <<name>>, <<piece>>)
    BY <2>1, Zenon
  <2>. QED BY <1>3, <2>2, <2>3, Zenon
<1>. QED BY <1>2, <1>7, Zenon DEF Between, item

LEMMA HalfItemViewed ==
    ASSUME NEW p, NEW images, NEW basic, NEW k \in Nat, Between(p, images, basic, k), NEW name
    PROVE  LET item == Element("div", "bsc-item", KeyOf(name))
           IN  Between(Pages!Feed("detail", p, item), images, basic, k)
<1>. DEFINE item == Element("div", "bsc-item", KeyOf(name))
            q1 == Viewed(p, Pages!Start("div", "bsc-item", "none"))
            q2 == Pages!Feed("detail", q1, KeyOf(name))
            q3 == Viewed(q2, Pages!End("div"))
            d == Pages!OneDeeper(k)
<1>1. PICK key, value : Holds(p, images, basic, Pages!Idle, 0, k, key, value)
  BY DEF Between
<1>2. Pages!Feed("detail", p, item) = q3
  BY HalfItemFed, Zenon DEF Viewed
<1>. HIDE DEF item
<1>3. d \in Nat /\ OneLess(d) = k
  <2>1. d \in Nat
    BY DEF Pages!OneDeeper
  <2>. QED BY <2>1, DepthsMove
<1>4. Holds(q1, images, basic, Pages!Idle, 1, d, <<>>, <<>>)
  <2>1. Holds(q1, images, basic, Pages!Deeper(Pages!Idle), 1, d, <<>>, <<>>)
    BY <1>1, ItemOpens, Zenon
  <2>. QED BY <2>1, ReadingNothing, Zenon
<1>. HIDE DEF q1, d
<1>5. Holds(q2, images, basic, Pages!Idle, 1, d, <<name>>, <<>>)
  BY <1>3, <1>4, KeyViewed, Zenon
<1>. HIDE DEF q2
<1>6. Holds(q3, images, basic, Pages!Idle, 0, k, <<>>, <<>>)
  <2>1. Holds(q3, images, IF <<name>> # <<>> /\ <<>> # <<>> THEN Pages!Entered(basic, <<name>>, <<>>) ELSE basic,
              Pages!Idle, 0, OneLess(d), <<>>, <<>>)
    BY <1>5, ItemCloses, Zenon
  <2>2. ~(<<name>> # <<>> /\ <<>> # <<>>)
    OBVIOUS
  <2>3. (IF <<name>> # <<>> /\ <<>> # <<>> THEN Pages!Entered(basic, <<name>>, <<>>) ELSE basic) = basic
    BY <2>2, Zenon
  <2>. QED BY <1>3, <2>1, <2>3, Zenon
<1>. QED BY <1>2, <1>6, Zenon DEF Between, item

\* Each kind of block is one of those.
LEMMA BlockIs ==
    ASSUME NEW block, IsBlock(block)
    PROVE  /\ block.kind = "images" => BlockEvents(block) = Section(block.name)
           /\ block.kind = "open images" => BlockEvents(block) = OpenSection(block.name)
           /\ block.kind = "item" =>
                BlockEvents(block) = Element("div", "bsc-item", KeyOf(block.name) \o ValueOf("v"))
           /\ block.kind = "half item" => BlockEvents(block) = Element("div", "bsc-item", KeyOf(block.name))
           /\ block.kind = "outside" => BlockEvents(block) = <<Image(block.name)>>
<1>. DEFINE a == Section(block.name)  b == OpenSection(block.name)
            c == Element("div", "bsc-item", KeyOf(block.name) \o ValueOf("v"))
            d == Element("div", "bsc-item", KeyOf(block.name))  e == <<Image(block.name)>>
<1>1. BlockEvents(block) =
        CASE block.kind = "images" -> a
          [] block.kind = "open images" -> b
          [] block.kind = "item" -> c
          [] block.kind = "half item" -> d
          [] block.kind = "outside" -> e
  BY Zenon DEF BlockEvents, Section, OpenSection, KeyOf, ValueOf
<1>. HIDE DEF a, b, c, d, e
<1>2. /\ block.kind = "images" => BlockEvents(block) = a
      /\ block.kind = "open images" => BlockEvents(block) = b
      /\ block.kind = "item" => BlockEvents(block) = c
      /\ block.kind = "half item" => BlockEvents(block) = d
      /\ block.kind = "outside" => BlockEvents(block) = e
  BY <1>1
<1>. QED BY <1>2 DEF a, b, c, d, e

LEMMA BlockIsList == ASSUME NEW block, IsBlock(block) PROVE IsList(BlockEvents(block))
<1>1. /\ IsList(Section(block.name)) /\ IsList(OpenSection(block.name)) /\ IsList(<<Image(block.name)>>)
  BY SectionIsList, SimpleIsList, ShortLists DEF OpenSection
<1>2. IsList(Element("div", "bsc-item", KeyOf(block.name)))
  BY HalfItemFed, Zenon
<1>3. IsList(Element("div", "bsc-item", KeyOf(block.name) \o ValueOf("v")))
  BY ItemFed, Zenon
<1>. QED BY <1>1, <1>2, <1>3, BlockIs, Zenon DEF IsBlock

IsOpen(block) == block.kind = "open images"

\* What a block adds.
ImagesAfter(images, k, block) ==
    IF block.kind \in {"images", "open images"} \/ (block.kind = "outside" /\ k # 0)
    THEN WithImage(images, block.name) ELSE images

BasicAfter(basic, block) ==
    IF block.kind = "item" THEN Pages!Entered(basic, <<block.name>>, <<"v">>) ELSE basic

Followed(p, images, basic, k, block) ==
    \E l \in Nat : /\ Between(p, ImagesAfter(images, k, block), BasicAfter(basic, block), l)
                   /\ (k = 0 /\ ~IsOpen(block)) => l = 0

\* A block between two others.
LEMMA BlockViewed ==
    ASSUME NEW p, NEW images, NEW basic, NEW k \in Nat, Between(p, images, basic, k), NEW block, IsBlock(block)
    PROVE  Followed(Pages!Feed("detail", p, BlockEvents(block)), images, basic, k, block)
<1>. DEFINE name == block.name  piece == "v"
            q == Pages!Feed("detail", p, BlockEvents(block))
            more == ImagesAfter(images, k, block)  known == BasicAfter(basic, block)
<1>1. name \notin {"transparent", "foreign"}
  BY DEF IsBlock
<1>. HIDE DEF name
<1>2. CASE block.kind = "images"
  <2>1. BlockEvents(block) = Section(name) /\ more = WithImage(images, name) /\ known = basic
    BY <1>2, BlockIs DEF ImagesAfter, BasicAfter, name
  <2>2. Between(Pages!Feed("detail", p, Section(name)), WithImage(images, name), basic, 0)
    BY <1>1, SectionViewed, Zenon
  <2>. HIDE DEF more, known
  <2>3. Between(q, more, known, 0) /\ 0 \in Nat
    BY <2>1, <2>2, Zenon
  <2>. QED BY <2>3 DEF more, known, Followed
<1>3. CASE block.kind = "open images"
  <2>1. BlockEvents(block) = OpenSection(name) /\ more = WithImage(images, name) /\ known = basic
    BY <1>3, BlockIs DEF ImagesAfter, BasicAfter, name
  <2>2. Between(Pages!Feed("detail", p, OpenSection(name)), WithImage(images, name), basic, 1)
    BY <1>1, OpenSectionViewed, Zenon
  <2>. HIDE DEF more, known
  <2>3. Between(q, more, known, 1)
    BY <2>1, <2>2, Zenon
  <2>4. 1 \in Nat /\ IsOpen(block)
    BY <1>3 DEF IsOpen
  <2>. QED BY <2>3, <2>4 DEF more, known, Followed
<1>4. CASE block.kind = "item"
  <2>1. /\ BlockEvents(block) = Element("div", "bsc-item", KeyOf(name) \o ValueOf(piece))
        /\ more = images /\ known = Pages!Entered(basic, <<name>>, <<piece>>)
    BY <1>4, BlockIs DEF ImagesAfter, BasicAfter, name
  <2>. HIDE DEF piece, more, known
  <2>2. Between(Pages!Feed("detail", p, Element("div", "bsc-item", KeyOf(name) \o ValueOf(piece))), images,
                Pages!Entered(basic, <<name>>, <<piece>>), k)
    BY ItemViewed, Zenon
  <2>3. Between(q, more, known, k)
    BY <2>1, <2>2, Zenon
  <2>. QED BY <2>3 DEF more, known, Followed
<1>5. CASE block.kind = "half item"
  <2>1. BlockEvents(block) = Element("div", "bsc-item", KeyOf(name)) /\ more = images /\ known = basic
    BY <1>5, BlockIs DEF ImagesAfter, BasicAfter, name
  <2>. HIDE DEF more, known
  <2>2. Between(Pages!Feed("detail", p, Element("div", "bsc-item", KeyOf(name))), images, basic, k)
    BY HalfItemViewed, Zenon
  <2>3. Between(q, more, known, k)
    BY <2>1, <2>2, Zenon
  <2>. QED BY <2>3 DEF more, known, Followed
<1>6. CASE block.kind = "outside"
  <2>1. /\ BlockEvents(block) = <<Image(name)>> /\ known = basic
        /\ more = IF k = 0 THEN images ELSE WithImage(images, name)
    BY <1>6, BlockIs DEF ImagesAfter, BasicAfter, name
  <2>2. q = Viewed(p, Image(name))
    BY <2>1, FeedOne DEF Viewed
  <2>. HIDE DEF more, known, q
  <2>3. IF k = 0 THEN Between(Viewed(p, Image(name)), images, basic, 0)
        ELSE Between(Viewed(p, Image(name)), WithImage(images, name), basic, k + 1)
    BY <1>1, OutsideViewed, Zenon
  <2>4. IF k = 0 THEN Between(q, more, known, 0) ELSE Between(q, more, known, k + 1)
    BY <2>1, <2>2, <2>3, Zenon
  <2>5. 0 \in Nat /\ k + 1 \in Nat
    OBVIOUS
  <2>. QED BY <2>4, <2>5 DEF more, known, q, Followed
<1>. QED BY <1>2, <1>3, <1>4, <1>5, <1>6 DEF IsBlock

\* Where images are taken, and what is kept as basic information.
InSection(block) == block.kind \in {"images", "open images"}

IsItem(block) == block.kind = "item"

NamesOf(blocks, chosen) == [i \in DOMAIN chosen |-> blocks[chosen[i]].name]

\* After n blocks, of which those at the places chosen are shown for the first time.
BlocksRead(blocks, n, chosen, images, basic, k) ==
    /\ k \in Nat /\ IsList(images) /\ chosen \in Seq(Nat)
    /\ \A i \in 1..n : InSection(blocks[i]) => blocks[i].name \in ToSet(images)
    /\ (\A i \in 1..n : ~IsOpen(blocks[i])) =>
            /\ k = 0 /\ images = NamesOf(blocks, chosen)
            /\ ToSet(images) = {blocks[i].name : i \in {j \in 1..n : InSection(blocks[j])}}
    /\ DOMAIN basic = {<<blocks[i].name>> : i \in {j \in 1..n : IsItem(blocks[j])}}
    /\ \A key \in DOMAIN basic : basic[key] = <<"v">>

LEMMA WithImageHas ==
    ASSUME NEW images, IsList(images), NEW image
    PROVE  IsList(WithImage(images, image)) /\ ToSet(WithImage(images, image)) = ToSet(images) \cup {image}
<1>. DEFINE T == ToSet(images) \cup {image}  more == Append(images, image)
<1>1. images \in Seq(T) /\ image \in T
  BY DEF IsList
<1>. HIDE DEF T
<1>2. more \in Seq(T) /\ ToSet(more) = ToSet(images) \cup {image}
  BY <1>1, ToSetAppend
<1>. HIDE DEF more
<1>3. IsList(more)
  BY <1>2, ListOf
<1>. QED BY <1>2, <1>3 DEF WithImage, more

LEMMA OneMoreName ==
    ASSUME NEW blocks, NEW chosen \in Seq(Nat), NEW j \in Nat
    PROVE  NamesOf(blocks, Append(chosen, j)) = Append(NamesOf(blocks, chosen), blocks[j].name)
<1>. DEFINE m == Len(chosen)  names == NamesOf(blocks, chosen)  more == Append(chosen, j)
            U == {blocks[i].name : i \in Nat}
<1>1. m \in Nat /\ DOMAIN chosen = 1..m /\ \A i \in 1..m : chosen[i] \in Nat
  OBVIOUS
<1>2. /\ Len(more) = m + 1 /\ DOMAIN more = 1..(m + 1) /\ more[m + 1] = j
      /\ \A i \in 1..m : more[i] = chosen[i]
  BY <1>1
<1>3. names \in Seq(U) /\ Len(names) = m /\ \A i \in 1..m : names[i] = blocks[chosen[i]].name
  <2>1. names = [i \in 1..m |-> blocks[chosen[i]].name]
    BY <1>1 DEF NamesOf
  <2>. QED BY <1>1, <2>1
<1>. HIDE DEF more
<1>4. NamesOf(blocks, more) = [i \in 1..(m + 1) |-> blocks[more[i]].name]
  BY <1>2 DEF NamesOf
<1>. HIDE DEF names
<1>5. blocks[j].name \in U
  OBVIOUS
<1>. HIDE DEF U
<1>. DEFINE long == Append(names, blocks[j].name)
<1>6. /\ long \in Seq(U) /\ Len(long) = m + 1 /\ long[m + 1] = blocks[j].name
      /\ \A i \in 1..m : long[i] = names[i]
  BY <1>1, <1>3, <1>5
<1>. HIDE DEF long
<1>7. long = [i \in 1..(m + 1) |-> long[i]]
  BY <1>6
<1>8. ASSUME NEW i \in 1..(m + 1) PROVE blocks[more[i]].name = long[i]
  <2>1. i \in 1..m \/ i = m + 1
    BY <1>1
  <2>. QED BY <1>2, <1>3, <1>6, <2>1
<1>. QED BY <1>4, <1>7, <1>8 DEF long, more, names

\* The step of the induction over the blocks.
LEMMA OneMoreBlock ==
    ASSUME NEW blocks, NEW n \in Nat, NEW chosen, NEW images, NEW basic, NEW k,
           BlocksRead(blocks, n, chosen, images, basic, k),
           NEW block, IsBlock(block), block = blocks[n + 1],
           NEW l \in Nat, (k = 0 /\ ~IsOpen(block)) => l = 0
    PROVE  BlocksRead(blocks, n + 1,
                      IF InSection(block) /\ \A j \in 1..n : InSection(blocks[j]) => blocks[j].name # block.name
                      THEN Append(chosen, n + 1) ELSE chosen,
                      ImagesAfter(images, k, block), BasicAfter(basic, block), l)
<1>. DEFINE name == block.name  piece == <<"v">>
            new == InSection(block) /\ \A j \in 1..n : InSection(blocks[j]) => blocks[j].name # block.name
            more == IF new THEN Append(chosen, n + 1) ELSE chosen
            shown == ImagesAfter(images, k, block)  known == BasicAfter(basic, block)
<1>1. /\ k \in Nat /\ IsList(images) /\ chosen \in Seq(Nat)
      /\ \A i \in 1..n : InSection(blocks[i]) => blocks[i].name \in ToSet(images)
  BY Zenon DEF BlocksRead
<1>2. /\ DOMAIN basic = {<<blocks[i].name>> : i \in {j \in 1..n : IsItem(blocks[j])}}
      /\ \A key \in DOMAIN basic : basic[key] = piece
  BY Zenon DEF BlocksRead
<1>3. \A i \in 1..(n + 1) : i \in 1..n \/ i = n + 1
  OBVIOUS
<1>4. n + 1 \in 1..(n + 1) /\ \A i \in 1..n : i \in 1..(n + 1)
  OBVIOUS
<1>5. more \in Seq(Nat)
  BY <1>1
<1>6. /\ IsList(shown) /\ ToSet(images) \subseteq ToSet(shown)
      /\ InSection(block) => shown = WithImage(images, name) /\ ToSet(shown) = ToSet(images) \cup {name}
      /\ k = 0 /\ ~InSection(block) => shown = images
  <2>1. IsList(WithImage(images, name)) /\ ToSet(WithImage(images, name)) = ToSet(images) \cup {name}
    BY <1>1, WithImageHas, Zenon
  <2>2. shown = WithImage(images, name) \/ shown = images
    BY DEF ImagesAfter
  <2>3. InSection(block) => shown = WithImage(images, name)
    BY DEF ImagesAfter, InSection
  <2>4. k = 0 /\ ~InSection(block) => shown = images
    BY DEF ImagesAfter, InSection
  <2>. HIDE DEF shown
  <2>. QED BY <1>1, <2>1, <2>2, <2>3, <2>4
<1>. HIDE DEF shown
<1>7. \A i \in 1..(n + 1) : InSection(blocks[i]) => blocks[i].name \in ToSet(shown)
  BY <1>1, <1>3, <1>6
<1>8. ASSUME \A i \in 1..(n + 1) : ~IsOpen(blocks[i])
      PROVE  /\ l = 0 /\ shown = NamesOf(blocks, more)
             /\ ToSet(shown) = {blocks[i].name : i \in {j \in 1..(n + 1) : InSection(blocks[j])}}
  <2>1. /\ k = 0 /\ images = NamesOf(blocks, chosen)
        /\ ToSet(images) = {blocks[i].name : i \in {j \in 1..n : InSection(blocks[j])}}
    <3>1. \A i \in 1..n : ~IsOpen(blocks[i])
      BY <1>4, <1>8, Zenon
    <3>. QED BY <3>1, Zenon DEF BlocksRead
  <2>2. l = 0
    BY <1>4, <1>8, <2>1, Zenon
  <2>3. CASE ~InSection(block)
    <3>1. shown = images /\ more = chosen
      BY <1>6, <2>1, <2>3
    <3>2. {j \in 1..(n + 1) : InSection(blocks[j])} = {j \in 1..n : InSection(blocks[j])}
      <4>1. ~InSection(blocks[n + 1])
        BY <2>3
      <4>. QED BY <1>3, <1>4, <4>1
    <3>. QED BY <2>1, <2>2, <3>1, <3>2
  <2>4. CASE InSection(block)
    <3>1. ToSet(shown) = {blocks[i].name : i \in {j \in 1..(n + 1) : InSection(blocks[j])}}
      <4>1. {j \in 1..(n + 1) : InSection(blocks[j])} = {j \in 1..n : InSection(blocks[j])} \cup {n + 1}
        <5>1. InSection(blocks[n + 1])
          BY <2>4
        <5>. QED BY <1>3, <1>4, <5>1
      <4>2. ToSet(shown) = ToSet(images) \cup {blocks[n + 1].name}
        BY <1>6, <2>4
      <4>. QED BY <2>1, <4>1, <4>2
    <3>2. new <=> name \notin ToSet(images)
      BY <2>1, <2>4
    <3>. HIDE DEF new
    <3>3. CASE new
      <4>1. shown = Append(images, name)
        BY <1>6, <2>4, <3>2, <3>3 DEF WithImage
      <4>2. NamesOf(blocks, Append(chosen, n + 1)) = Append(NamesOf(blocks, chosen), blocks[n + 1].name)
        BY <1>1, OneMoreName
      <4>. QED BY <2>1, <2>2, <3>1, <3>3, <4>1, <4>2
    <3>4. CASE ~new
      <4>1. shown = images
        BY <1>6, <2>4, <3>2, <3>4 DEF WithImage
      <4>. QED BY <2>1, <2>2, <3>1, <3>4, <4>1
    <3>. QED BY <3>3, <3>4
  <2>. QED BY <2>3, <2>4
<1>9. /\ DOMAIN known = {<<blocks[i].name>> : i \in {j \in 1..(n + 1) : IsItem(blocks[j])}}
      /\ \A key \in DOMAIN known : known[key] = piece
  <2>1. CASE ~IsItem(block)
    <3>1. known = basic
      BY <2>1 DEF BasicAfter, IsItem
    <3>2. {j \in 1..(n + 1) : IsItem(blocks[j])} = {j \in 1..n : IsItem(blocks[j])}
      BY <1>3, <1>4, <2>1
    <3>. HIDE DEF known, piece
    <3>. QED BY <1>2, <3>1, <3>2
  <2>2. CASE IsItem(block)
    <3>1. known = Pages!Entered(basic, <<name>>, piece)
      BY <2>2 DEF BasicAfter, IsItem
    <3>2. {j \in 1..(n + 1) : IsItem(blocks[j])} = {j \in 1..n : IsItem(blocks[j])} \cup {n + 1}
      BY <1>3, <1>4, <2>2
    <3>. HIDE DEF known, piece
    <3>3. /\ DOMAIN known = DOMAIN basic \cup {<<name>>}
          /\ \A key \in DOMAIN basic \cup {<<name>>} : known[key] = IF key = <<name>> THEN piece ELSE basic[key]
      <4>. DEFINE called == <<name>>
      <4>. HIDE DEF called
      <4>1. /\ DOMAIN Pages!Entered(basic, called, piece) = DOMAIN basic \cup {called}
            /\ \A key \in DOMAIN basic \cup {called} :
                 Pages!Entered(basic, called, piece)[key] = IF key = called THEN piece ELSE basic[key]
        BY DEF Pages!Entered
      <4>2. known = Pages!Entered(basic, called, piece)
        BY <3>1 DEF called
      <4>3. /\ DOMAIN known = DOMAIN basic \cup {called}
            /\ \A key \in DOMAIN basic \cup {called} : known[key] = IF key = called THEN piece ELSE basic[key]
        BY <4>1, <4>2, Zenon
      <4>. QED BY <4>3 DEF called
    <3>4. \A key \in DOMAIN known : known[key] = piece
      BY <1>2, <3>3
    <3>5. DOMAIN known = {<<blocks[i].name>> : i \in {j \in 1..(n + 1) : IsItem(blocks[j])}}
      BY <1>2, <3>2, <3>3
    <3>. QED BY <3>4, <3>5
  <2>. QED BY <2>1, <2>2
<1>. HIDE DEF more, known
<1>10. BlocksRead(blocks, n + 1, more, shown, known, l)
  BY <1>5, <1>6, <1>7, <1>8, <1>9, Zenon DEF BlocksRead
<1>. QED BY <1>10 DEF more, shown, known

\* What comes out of the page of a product.
LEMMA BlocksAreRead ==
    ASSUME NEW blocks \in Blocks
    PROVE  LET page == Pages!ParseDetail(BlocksEvents(blocks))
               inSections == OfKind(blocks, {"images", "open images"})
           IN  \E k : BlocksRead(blocks, Len(blocks),
                                 Among([i \in DOMAIN blocks |-> i], FirstOf(blocks, inSections)),
                                 page.images, page.basic, k)
<1>. DEFINE lists == [i \in DOMAIN blocks |-> BlockEvents(blocks[i])]  m == Len(blocks)
            places == [i \in DOMAIN blocks |-> i]
            inSections == OfKind(blocks, {"images", "open images"})
            wanted == FirstOf(blocks, inSections)
<1>1. blocks \in Seq(ToSet(blocks)) /\ m \in Nat /\ DOMAIN blocks = 1..m
  <2>1. blocks \in Seq(ToSet(blocks))
    BY BlocksAssumption, Zenon
  <2>. QED BY <2>1
<1>2. \A i \in 1..m : IsBlock(blocks[i])
  <2>1. \A i \in DOMAIN blocks : /\ blocks[i].kind \in {"images", "open images", "item", "half item", "outside"}
                                 /\ blocks[i].name \notin {"transparent", "foreign"}
    BY BlocksAssumption, Zenon
  <2>. QED BY <1>1, <2>1, Zenon DEF IsBlock
<1>3. IsList(lists) /\ Len(lists) = m /\ \A i \in 1..m : lists[i] = BlockEvents(blocks[i])
  <2>. DEFINE T == {BlockEvents(blocks[i]) : i \in 1..m}
  <2>1. DOMAIN lists = 1..m /\ \A i \in 1..m : lists[i] = BlockEvents(blocks[i]) /\ lists[i] \in T
    BY <1>1
  <2>2. lists = [i \in 1..m |-> lists[i]]
    BY <1>1
  <2>. HIDE DEF lists, T, m
  <2>3. lists \in Seq(T) /\ Len(lists) = m
    BY <1>1, <2>1, <2>2
  <2>. QED BY <2>1, <2>3, ListOf
<1>4. \A i \in 1..Len(lists) : IsList(lists[i])
  BY <1>2, <1>3, BlockIsList
<1>5. places \in Seq(Nat) /\ Len(places) = m /\ \A i \in 1..m : places[i] = i
  BY <1>1
<1>6. \A i \in 1..m : i \in wanted <=>
        InSection(blocks[i]) /\ \A j \in 1..(i - 1) : InSection(blocks[j]) => blocks[j].name # blocks[i].name
  <2>1. \A i : i \in inSections <=> i \in 1..m /\ InSection(blocks[i])
    BY <1>1 DEF OfKind, InSection
  <2>. HIDE DEF inSections
  <2>2. \A i : i \in wanted <=> i \in inSections /\ \A j \in inSections : j < i => blocks[j].name # blocks[i].name
    BY DEF FirstOf
  <2>. HIDE DEF wanted
  <2>3. \A i \in 1..m, j \in Nat : j \in 1..(i - 1) <=> j \in 1..m /\ j < i
    BY <1>1
  <2>. QED BY <1>1, <2>1, <2>2, <2>3
<1>. HIDE DEF lists, m, places, wanted, inSections
<1>7. PICK s : /\ s[0] = Pages!DetailPage /\ Pages!Feed("detail", Pages!DetailPage, FlattenSeq(lists)) = s[m]
               /\ \A n \in 1..m : s[n] = Pages!Feed("detail", s[n - 1], lists[n])
  <2>. DEFINE parser == "detail"
  <2>. HIDE DEF parser
  <2>1. \E s : /\ s[0] = Pages!DetailPage
               /\ Pages!Feed(parser, Pages!DetailPage, FlattenSeq(lists)) = s[Len(lists)]
               /\ \A n \in 1..Len(lists) : s[n] = Pages!Feed(parser, s[n - 1], lists[n])
    BY <1>3, <1>4, ListsFed
  <2>. QED BY <1>3, <2>1 DEF parser
<1>8. PICK f : KeptBy(places, wanted, f) /\ Among(places, wanted) = f[m]
  BY <1>5, AmongIsKept
<1>9. f[0] = <<>> /\ \A n \in 1..m : f[n] = IF n \in wanted THEN Append(f[n - 1], n) ELSE f[n - 1]
  <2>1. f = [n \in 0..m |-> IF n = 0 THEN <<>>
                             ELSE IF places[n] \in wanted THEN Append(f[n - 1], places[n]) ELSE f[n - 1]]
    BY <1>5, <1>8, Zenon DEF KeptBy
  <2>2. /\ 0 \in 0..m
        /\ \A n \in 1..m : n \in 0..m /\ n # 0
    BY <1>1
  <2>3. \A n \in 0..m : f[n] = IF n = 0 THEN <<>>
                               ELSE IF places[n] \in wanted THEN Append(f[n - 1], places[n]) ELSE f[n - 1]
    BY <2>1, Zenon
  <2>. QED BY <1>5, <2>2, <2>3
<1>. DEFINE Read(n) == \E images, basic, k : /\ BlocksRead(blocks, n, f[n], images, basic, k)
                                             /\ Between(s[n], images, basic, k)
            Places == {n \in Nat : n <= m => Read(n)}
<1>10. 0 \in Places
  <2>1. Between(Pages!DetailPage, <<>>, <<>>, 0)
    <3>1. Holds(Pages!DetailPage, <<>>, <<>>, Pages!Idle, 0, 0, <<>>, <<>>)
      BY DEF Holds, DetailFields, Pages!DetailPage
    <3>. QED BY <3>1, Zenon DEF Between
  <2>2. BlocksRead(blocks, 0, <<>>, <<>>, <<>>, 0)
    <3>1. IsList(<<>>) /\ 1..0 = {} /\ DOMAIN <<>> = {} /\ <<>> \in Seq(Nat)
      BY ShortLists
    <3>2. NamesOf(blocks, <<>>) = <<>> /\ ToSet(<<>>) = {}
      BY DEF NamesOf, ToSet
    <3>. QED BY <3>1, <3>2 DEF BlocksRead
  <2>3. Read(0)
    BY <1>7, <1>9, <2>1, <2>2, Zenon
  <2>. HIDE DEF Read
  <2>. QED BY <2>3
<1>11. ASSUME NEW n \in Nat, n \in Places PROVE n + 1 \in Places
  <2>. SUFFICES ASSUME n + 1 <= m PROVE Read(n + 1)
    OBVIOUS
  <2>1. n + 1 \in 1..m /\ (n + 1) - 1 = n /\ n <= m
    BY <1>1
  <2>2. Read(n)
    <3>. HIDE DEF Read
    <3>. QED BY <1>11, <2>1
  <2>3. PICK images, basic, k : BlocksRead(blocks, n, f[n], images, basic, k) /\ Between(s[n], images, basic, k)
    BY <2>2
  <2>. DEFINE block == blocks[n + 1]
              more == IF InSection(block) /\ \A j \in 1..n : InSection(blocks[j]) => blocks[j].name # block.name
                      THEN Append(f[n], n + 1) ELSE f[n]
  <2>4. s[n + 1] = Pages!Feed("detail", s[n], BlockEvents(block))
    BY <1>3, <1>7, <2>1
  <2>5. IsBlock(block)
    BY <1>2, <2>1
  <2>6. f[n + 1] = more
    BY <1>6, <1>9, <2>1
  <2>7. k \in Nat
    BY <2>3, Zenon DEF BlocksRead
  <2>. HIDE DEF more, block
  <2>8. PICK l \in Nat : /\ Between(Pages!Feed("detail", s[n], BlockEvents(block)),
                                    ImagesAfter(images, k, block), BasicAfter(basic, block), l)
                         /\ (k = 0 /\ ~IsOpen(block)) => l = 0
    <3>1. Followed(Pages!Feed("detail", s[n], BlockEvents(block)), images, basic, k, block)
      BY <2>3, <2>5, <2>7, BlockViewed, Zenon
    <3>. QED BY <3>1 DEF Followed
  <2>9. BlocksRead(blocks, n + 1, more, ImagesAfter(images, k, block), BasicAfter(basic, block), l)
    BY <2>3, <2>5, <2>8, OneMoreBlock, Zenon DEF more, block
  <2>. QED BY <2>4, <2>6, <2>8, <2>9, Zenon
<1>12. Nat \subseteq Places
  <2>. HIDE DEF Places
  <2>. QED BY <1>10, <1>11, Induction
<1>13. Read(m)
  <2>. HIDE DEF Read
  <2>. QED BY <1>1, <1>12
<1>14. PICK images, basic, k : BlocksRead(blocks, m, f[m], images, basic, k) /\ Between(s[m], images, basic, k)
  BY <1>13
<1>15. s[m].images = images /\ s[m].basic = basic
  BY <1>14, Zenon DEF Between, Holds
<1>16. Pages!ParseDetail(BlocksEvents(blocks)) = s[m]
  BY <1>7, Zenon DEF Pages!ParseDetail, BlocksEvents, lists
<1>. QED BY <1>8, <1>14, <1>15, <1>16, Zenon DEF m, places, wanted, inSections

LEMMA CardsAnswered ==
    ASSUME Answered, Asked("cards")
    PROVE  call.cards \in Cards /\ answer = Pages!ParseSearch(CardsEvents(call.cards))
BY DEF Answered, Asked, Calls, Value

LEMMA ProductAnswered ==
    ASSUME Answered, Asked("product")
    PROVE  call.blocks \in Blocks /\ answer = Pages!ParseDetail(BlocksEvents(call.blocks))
BY DEF Answered, Asked, Calls, Value

(***************************************************************************)
(* However many cards or blocks a page has, the two parsers give every     *)
(* card, its own fields up to the first broken line, all images of the     *)
(* sections and the items with both halves, although they count elements   *)
(* and keep no stack (_MadeInChinaSearchResultParser,                      *)
(* _MadeInChinaProductDetailParser).                                       *)
(***************************************************************************)
THEOREM PagesKept == Spec => []PagesKeepTheirFields
<1>1. ASSUME Answered, Asked("cards")
      PROVE  /\ Len(answer) = Len(call.cards)
             /\ \A i \in DOMAIN answer :
                  /\ answer[i]["title"] = <<call.cards[i].name>>
                  /\ (\A j \in 1..i : call.cards[j].price # "broken line") => CardIsRead(call.cards[i], answer[i])
  BY <1>1, CardsAnswered, CardsAreRead, Zenon
<1>2. ASSUME Answered, Asked("product")
      PROVE  LET blocks == call.blocks
                 inSections == OfKind(blocks, {"images", "open images"})
                 items == OfKind(blocks, {"item"})
             IN  /\ {blocks[i].name : i \in inSections} \subseteq ToSet(answer.images)
                 /\ OfKind(blocks, {"open images"}) = {} =>
                         answer.images = NamesAt(blocks, FirstOf(blocks, inSections))
                 /\ DOMAIN answer.basic = {<<blocks[i].name>> : i \in items}
                 /\ \A k \in DOMAIN answer.basic : answer.basic[k] = <<"v">>
  <2>. DEFINE blocks == call.blocks  n == Len(blocks)
              inSections == OfKind(blocks, {"images", "open images"})
              items == OfKind(blocks, {"item"})  open == OfKind(blocks, {"open images"})
              chosen == Among([i \in DOMAIN blocks |-> i], FirstOf(blocks, inSections))
  <2>1. blocks \in Blocks /\ answer = Pages!ParseDetail(BlocksEvents(blocks))
    BY <1>2, ProductAnswered
  <2>2. DOMAIN blocks = 1..n
    <3>1. blocks \in Seq(ToSet(blocks))
      BY <2>1, BlocksAssumption, Zenon
    <3>. QED BY <3>1
  <2>3. PICK k : BlocksRead(blocks, n, chosen, answer.images, answer.basic, k)
    BY <2>1, BlocksAreRead, Zenon
  <2>. HIDE DEF n, blocks, chosen
  <2>4. /\ inSections = {i \in 1..n : InSection(blocks[i])} /\ items = {i \in 1..n : IsItem(blocks[i])}
        /\ open = {i \in 1..n : IsOpen(blocks[i])}
    BY <2>2 DEF OfKind, InSection, IsItem, IsOpen
  <2>. HIDE DEF inSections, items, open
  <2>5. {blocks[i].name : i \in inSections} \subseteq ToSet(answer.images)
    <3>1. \A i \in 1..n : InSection(blocks[i]) => blocks[i].name \in ToSet(answer.images)
      BY <2>3, Zenon DEF BlocksRead
    <3>. QED BY <2>4, <3>1
  <2>6. open = {} => answer.images = NamesOf(blocks, chosen)
    <3>1. (\A i \in 1..n : ~IsOpen(blocks[i])) => answer.images = NamesOf(blocks, chosen)
      BY <2>3, Zenon DEF BlocksRead
    <3>. QED BY <2>4, <3>1
  <2>7. NamesOf(blocks, chosen) = NamesAt(blocks, FirstOf(blocks, inSections))
    BY Zenon DEF NamesOf, NamesAt, chosen
  <2>8. DOMAIN answer.basic = {<<blocks[i].name>> : i \in items} /\ \A key \in DOMAIN answer.basic : answer.basic[key] = <<"v">>
    BY <2>3, <2>4, Zenon DEF BlocksRead
  <2>. QED BY <2>5, <2>6, <2>7, <2>8, Zenon DEF blocks, inSections, items, open
<1>3. ASSUME Answered PROVE PagesKeepTheirFields
  BY <1>1, <1>2, <1>3, Zenon DEF PagesKeepTheirFields
<1>. QED BY <1>3, AlwaysAnswered, PTL

=============================================================================
