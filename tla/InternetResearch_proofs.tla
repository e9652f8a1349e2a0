----------------------- MODULE InternetResearch_proofs -----------------------
(***************************************************************************)
(* The browser research, for any engines, answers, choices of the model,   *)
(* pages and limits: what is visited, what a visit leaves, when it stops.  *)
(***************************************************************************)
EXTENDS InternetResearch, Lists_proofs

-----------------------------------------------------------------------------
\* The limits are used as lengths; a search asks for at least one product.

LEMMA LimitRange ==
    ASSUME asked \in Asks, NEW default \in Nat 
    PROVE  Limit(default) \in Nat /\ Limit(default) <= 50
<1>1. asked \in 1..50
  BY ResearchAssumption
<1>. QED BY <1>1 DEF Limit

LEMMA CutProperties ==
    ASSUME NEW T, NEW urls \in Seq(T), NEW n \in Nat
    PROVE  /\ Cut(urls, n) \in Seq(T) /\ Len(Cut(urls, n)) <= n
           /\ ToSet(Cut(urls, n)) \subseteq ToSet(urls)
           /\ Len(Cut(urls, n)) >= n \/ Cut(urls, n) = urls
<1>1. Len(urls) \in Nat /\ DOMAIN urls = 1..Len(urls)
  OBVIOUS
<1>2. CASE Len(urls) <= n
  BY <1>1, <1>2 DEF Cut
<1>3. CASE Len(urls) > n
  <2>. DEFINE cut == SubSeq(urls, 1, n)
  <2>1. Cut(urls, n) = cut
    BY <1>1, <1>3 DEF Cut
  <2>2. /\ cut \in Seq(T) /\ Len(cut) = n /\ DOMAIN cut = 1..n
        /\ \A i \in 1..n : cut[i] = urls[i] /\ i \in 1..Len(urls)
    BY <1>1, <1>3
  <2>. HIDE DEF cut
  <2>. QED BY <1>1, <2>1, <2>2 DEF ToSet
<1>. QED BY <1>1, <1>2, <1>3

LEMMA ListOfItsElements ==
    ASSUME NEW T, NEW list \in Seq(T), NEW S, ToSet(list) \subseteq S PROVE list \in Seq(S)
<1>1. DOMAIN list = 1..Len(list) /\ Len(list) \in Nat /\ list = [i \in 1..Len(list) |-> list[i]]
  OBVIOUS
<1>2. \A i \in 1..Len(list) : list[i] \in S
  BY <1>1 DEF ToSet
<1>. QED BY <1>1, <1>2

\* What is selected, before it is cut, is what was found: all of it, and nothing else.
LEMMA SelectedIsCollected ==
    ASSUME IsFiniteSet(collected), NEW picks \in Picks, NEW ranked \in SetToSeqs(collected)
    PROVE  Selected(picks, ranked) \in Seq(collected)
           /\ ToSet(Selected(picks, ranked)) = collected
<1>. DEFINE kept == Among(picks, collected)
            rest == Among(ranked, collected \ ToSet(kept))
<1>1. picks \in Seq(ToSet(picks))
  BY ResearchAssumption
<1>2. kept \in Seq(ToSet(picks)) /\ ToSet(kept) = ToSet(picks) \cap collected
  BY <1>1, AmongProperties
<1>3. ranked \in Seq(collected) /\ ToSet(ranked) = collected
  BY OrdersOfSet
<1>4. rest \in Seq(collected) /\ ToSet(rest) = collected \ ToSet(kept)
  <2>1. rest \in Seq(collected) /\ ToSet(rest) = ToSet(ranked) \cap (collected \ ToSet(kept))
    <3>. HIDE DEF kept
    <3>. QED BY <1>3, AmongProperties
  <2>. HIDE DEF rest, kept
  <2>. QED BY <1>3, <2>1
<1>5. Selected(picks, ranked) = kept \o rest
  BY DEF Selected
<1>. HIDE DEF kept, rest
<1>6. kept \in Seq(collected)
  BY <1>2, ListOfItsElements
<1>7. kept \o rest \in Seq(collected) /\ ToSet(kept \o rest) = ToSet(kept) \cup ToSet(rest)
  BY <1>4, <1>6, ToSetConcat
<1>. QED BY <1>2, <1>4, <1>5, <1>7

\* The products of a page that was read: never none, and its failure is last.
LEMMA ReapedProperties ==
    ASSUME NEW page \in Pages, NEW more \in Contacts
    PROVE  /\ Reaped(page, more) \in Seq(Products) /\ Reaped(page, more) # <<>>
           /\ BeforeRaise(page) # page => Last(Reaped(page, more)) = Fallback
<1>. DEFINE kept == BeforeRaise(page)
            enriched == [i \in DOMAIN kept |-> Enriched(kept[i], more)]
<1>1. page \in Seq(Products)
  BY ResearchAssumption
<1>2. kept \in Seq(Products)
  <2>. DEFINE raising == {i \in 1..Len(page) : EnrichRaises(page[i])}
  <2>1. CASE raising = {}
    BY <1>1, <2>1 DEF BeforeRaise, SelectInSeq
  <2>2. CASE raising # {}
    <3>1. Min(raising) \in raising
      <4>1. raising \in SUBSET Nat
        BY <1>1
      <4>. HIDE DEF raising
      <4>2. \E n \in raising : \A m \in raising : n <= m
        BY <2>2, <4>1, LeastNatural
      <4>. QED BY <4>2 DEF Min
    <3>2. SelectInSeq(page, EnrichRaises) = Min(raising)
      BY <2>2 DEF SelectInSeq
    <3>3. Min(raising) \in 1..Len(page)
      BY <3>1
    <3>. HIDE DEF raising
    <3>4. kept = SubSeq(page, 1, Min(raising) - 1)
      BY <1>1, <3>2, <3>3 DEF BeforeRaise
    <3>. QED BY <1>1, <3>3, <3>4
  <2>. QED BY <2>1, <2>2
<1>. HIDE DEF kept
<1>3. \A i \in DOMAIN kept : Enriched(kept[i], more) \in Products
  <2>1. ASSUME NEW product \in Products PROVE Enriched(product, more) \in Products
    BY DEF Enriched, Products
  <2>2. \A i \in DOMAIN kept : kept[i] \in Products
    BY <1>2
  <2>. QED BY <2>1, <2>2
<1>4. enriched \in Seq(Products) /\ Len(enriched) = Len(kept)
  <2>1. DOMAIN kept = 1..Len(kept) /\ Len(kept) \in Nat
    BY <1>2
  <2>2. enriched \in [1..Len(kept) -> Products]
    BY <1>3, <2>1
  <2>. HIDE DEF enriched
  <2>. QED BY <2>1, <2>2
<1>5. Fallback \in Products
  BY DEF Fallback, Products, Contacts
<1>6. Reaped(page, more) =
        IF page = <<>> \/ kept # page THEN Append(enriched, Fallback) ELSE enriched
  BY DEF Reaped, kept
<1>. HIDE DEF enriched
<1>7. CASE page = <<>> \/ kept # page
  BY <1>4, <1>5, <1>6, <1>7 DEF Last
<1>8. CASE ~(page = <<>> \/ kept # page)
  BY <1>1, <1>4, <1>6, <1>8 DEF kept
<1>. QED BY <1>7, <1>8 DEF kept

-----------------------------------------------------------------------------
(***************************************************************************)
(* Types, with what is not there before the visits.                        *)
(***************************************************************************)
ResearchFrame ==
    /\ mode \in {"internet", "site"} /\ client \in {"http", "stdio"} /\ asked \in Asks
    /\ stage \in Stages
    /\ queriesLeft \in 0..QueryCount
    /\ IsFiniteSet(collected) /\ collected \subseteq Allowed
    /\ links \in Seq(collected) /\ Len(links) <= 50
    /\ harvest \in Seq(Seq(Products)) /\ Len(harvest) <= Len(links)
    /\ errors \subseteq 1..Len(harvest)
    /\ stage \in {"start", "search"} => links = <<>>

\* A step that visits link i, and leaves reaped of it.
Visits(i, reaped) ==
    /\ Visiting(i) /\ reaped \in Seq(Products)
    /\ harvest' = Append(harvest, reaped)
    /\ errors' \in {errors, errors \cup {i}}
    /\ mode = "internet" => reaped # <<>>
    /\ errors' # errors => reaped # <<>> /\ Last(reaped) = Fallback
    /\ UNCHANGED <<inputs, stage, queriesLeft, collected, links>>

\* One that selects the links.
Selects ==
    /\ stage \in {"start", "search"} /\ stage' = "visit"
    /\ IsFiniteSet(collected') /\ collected' \subseteq Allowed
    /\ links' \in Seq(collected') /\ Len(links') <= Limit(MaxPages)
    /\ \/ Len(links') >= Limit(CandidateLimit) \/ Len(links') >= Limit(MaxPages)
       \/ collected' \subseteq ToSet(links')
    /\ UNCHANGED <<inputs, queriesLeft, harvest, errors>>

\* One that only moves on, or ends.
Moves ==
    /\ stage' \in Stages /\ (stage' = "search" => stage = "start")
    /\ stage' \notin {"start", "visit"} /\ (stage' = "done" => stage = "visit")
    /\ stage' = "done" =>
        Len(harvest) >= Len(links) \/ Reachable(harvested) >= asked
    /\ queriesLeft' \in 0..QueryCount
    /\ UNCHANGED <<inputs, collected, links, harvest, errors>>

LEMMA SelectSelects == ASSUME ResearchFrame, Select PROVE Selects
<1>1. PICK picks \in Picks, ranked \in SetToSeqs(collected) :
        links' = IF collected = {} THEN <<>>
                 ELSE Cut(Cut(Selected(picks, ranked), Limit(CandidateLimit)), Limit(MaxPages))
  BY DEF Select
<1>2. Limit(CandidateLimit) \in Nat /\ Limit(MaxPages) \in Nat
  <2>1. CandidateLimit \in Nat /\ MaxPages \in Nat
    BY ResearchAssumption
  <2>. QED BY <2>1, LimitRange DEF ResearchFrame
<1>3. UNCHANGED <<inputs, queriesLeft, collected, harvest, errors>> /\ stage = "search"
      /\ stage' = "visit" /\ IsFiniteSet(collected) /\ collected \subseteq Allowed
  BY DEF Select, Selecting, ResearchFrame
<1>4. CASE collected = {}
  <2>1. links' = <<>> /\ <<>> \in Seq(collected) /\ Len(<<>>) = 0
    BY <1>1, <1>4
  <2>. QED BY <1>2, <1>3, <1>4, <2>1 DEF Selects
<1>5. CASE collected # {}
  <2>. DEFINE all == Selected(picks, ranked)
              cut == Cut(all, Limit(CandidateLimit))
              twice == Cut(cut, Limit(MaxPages))
  <2>1. all \in Seq(collected) /\ ToSet(all) = collected
    BY <1>3, SelectedIsCollected
  <2>. HIDE DEF all
  <2>2. cut \in Seq(collected) /\ (Len(cut) >= Limit(CandidateLimit) \/ cut = all)
    BY <1>2, <2>1, CutProperties
  <2>. HIDE DEF cut
  <2>3. /\ twice \in Seq(collected) /\ Len(twice) <= Limit(MaxPages)
        /\ Len(twice) >= Limit(MaxPages) \/ twice = cut
    BY <1>2, <2>2, CutProperties
  <2>4. links' = twice
    BY <1>1, <1>5 DEF cut, all
  <2>. HIDE DEF twice
  <2>. QED BY <1>3, <2>1, <2>2, <2>3, <2>4 DEF Selects
<1>. QED BY <1>4, <1>5

LEMMA ReadStartPageSelects == ASSUME ResearchFrame, ReadStartPage PROVE Selects
<1>1. PICK page \in StartPages : \E ranked \in SetToSeqs(page \cap Allowed) :
        collected' = page \cap Allowed /\ links' = Cut(ranked, Limit(MaxPages))
  BY DEF ReadStartPage
<1>. DEFINE linked == page \cap Allowed
<1>2. PICK ranked \in SetToSeqs(linked) : links' = Cut(ranked, Limit(MaxPages))
  BY <1>1
<1>3. Limit(MaxPages) \in Nat
  <2>1. MaxPages \in Nat
    BY ResearchAssumption
  <2>. QED BY <2>1, LimitRange DEF ResearchFrame
<1>4. IsFiniteSet(linked) /\ collected' = linked
  BY <1>1, FS_Intersection, ResearchAssumption
<1>. HIDE DEF linked
<1>5. ranked \in Seq(linked) /\ ToSet(ranked) = linked
  BY <1>4, OrdersOfSet
<1>6. /\ links' \in Seq(linked) /\ Len(links') <= Limit(MaxPages)
      /\ Len(links') >= Limit(MaxPages) \/ links' = ranked
  BY <1>2, <1>3, <1>5, CutProperties
<1>7. linked \subseteq Allowed
  BY DEF linked
<1>. QED BY <1>4, <1>5, <1>6, <1>7 DEF ReadStartPage, Selects

LEMMA VisitVisits ==
    ASSUME NEW i, VisitForInternet(i) \/ VisitForSite(i) \/ VisitFails(i)
    PROVE  \E reaped : Visits(i, reaped)
<1>1. CASE VisitForInternet(i)
  <2>1. PICK page \in Pages, more \in Contacts :
            /\ harvest' = Append(harvest, Reaped(page, more))
            /\ errors' = IF BeforeRaise(page) # page THEN errors \cup {i} ELSE errors
    BY <1>1 DEF VisitForInternet
  <2>2. Visits(i, Reaped(page, more))
    BY <1>1, <2>1, ReapedProperties DEF VisitForInternet, Visits
  <2>. QED BY <2>2
<1>2. CASE VisitForSite(i)
  <2>1. PICK page \in Pages : harvest' = Append(harvest, page)
    BY <1>2 DEF VisitForSite
  <2>2. page \in Seq(Products)
    BY ResearchAssumption
  <2>3. Visits(i, page)
    BY <1>2, <2>1, <2>2 DEF VisitForSite, Visits
  <2>. QED BY <2>3
<1>3. CASE VisitFails(i)
  <2>1. <<Fallback>> \in Seq(Products) /\ <<Fallback>> # <<>> /\ Last(<<Fallback>>) = Fallback
    BY DEF Fallback, Products, Contacts, Last
  <2>2. Visits(i, <<Fallback>>)
    BY <1>3, <2>1 DEF VisitFails, Visits
  <2>. QED BY <2>2
<1>. QED BY <1>1, <1>2, <1>3

\* Every step searches, selects, visits, moves on or changes nothing.
LEMMA StepIsKnown ==
    ASSUME ResearchFrame, [Next]_vars
    PROVE  \/ Search
           \/ Selects
           \/ \E i \in 1..Len(links) : \E reaped : Visits(i, reaped)
           \/ Moves
           \/ UNCHANGED vars
<1>1. ASSUME Fail PROVE Moves
  BY <1>1 DEF Fail, Moves, ResearchFrame, Stages, Ended
<1>2. ASSUME GenerateQueries PROVE Moves
  BY <1>2, ResearchAssumption DEF GenerateQueries, Moves, Stages
<1>3. ASSUME Finish PROVE Moves
  <2>1. Len(harvest) \in Nat /\ Len(links) \in Nat
    BY DEF ResearchFrame
  <2>. QED BY <1>3, <2>1 DEF Finish, Enough, Moves, ResearchFrame, Stages, Ended
<1>4. ASSUME Hang PROVE Moves
  BY <1>4 DEF Hang, Moves, ResearchFrame, Stages, Ended
<1>5. ASSUME NEW i \in 1..Len(links), Visit(i)
      PROVE  Moves \/ \E j \in 1..Len(links) : \E reaped : Visits(j, reaped)
  BY <1>1, <1>5, VisitVisits DEF Visit, TestFails
<1>. QED
  BY <1>1, <1>2, <1>3, <1>4, <1>5, SelectSelects, ReadStartPageSelects
     DEF Next, QueriesRaise, SearchFails, SelectRaises, StartPageFails

LEMMA FrameInit == Init => ResearchFrame
<1>. SUFFICES ASSUME Init PROVE ResearchFrame
  OBVIOUS
<1>1. QueryCount \in Nat
  BY ResearchAssumption
<1>2. <<>> \in Seq({}) /\ <<>> \in Seq(Seq(Products)) /\ Len(<<>>) = 0
  OBVIOUS
<1>. QED BY <1>1, <1>2, FS_EmptySet DEF Init, ResearchFrame, Stages

LEMMA SearchCollects ==
    ASSUME ResearchFrame, Search
    PROVE  /\ IsFiniteSet(collected') /\ collected \subseteq collected'
           /\ collected' \subseteq Allowed
<1>1. PICK answers \in EngineAnswers : collected' = Collects(answers)
  BY DEF Search
<1>. DEFINE heard == {e \in 1..EngineCount : answers[e] # Fails}
            lists == {ToSet(answers[e]) : e \in heard}
            listOf == [e \in heard |-> ToSet(answers[e])]
<1>2. EngineCount \in Nat
  BY ResearchAssumption
<1>3. IsFiniteSet(heard)
  <2>1. IsFiniteSet(1..EngineCount) /\ heard \subseteq 1..EngineCount
    BY <1>2, FS_Interval
  <2>. HIDE DEF heard
  <2>. QED BY <2>1, FS_Subset
<1>4. IsFiniteSet(lists)
  <2>1. listOf \in Surjection(heard, lists)
    BY DEF Surjection
  <2>. HIDE DEF listOf, heard, lists
  <2>. QED BY <1>3, <2>1, FS_Surjection
<1>5. ASSUME NEW e \in heard PROVE IsFiniteSet(ToSet(answers[e]))
  <2>1. answers[e] \in Answers
    BY DEF EngineAnswers
  <2>2. answers[e] \in Seq(ToSet(answers[e]))
    BY <2>1, ResearchAssumption
  <2>. QED BY <2>2, ToSetFinite
<1>6. IsFiniteSet(Found(answers))
  <2>1. \A urls \in lists : IsFiniteSet(urls)
    BY <1>5
  <2>2. Found(answers) = UNION lists
    BY DEF Found
  <2>. HIDE DEF lists
  <2>. QED BY <1>4, <2>1, <2>2, FS_UNION
<1>7. IsFiniteSet(Found(answers) \cap Allowed)
  BY <1>6, FS_Intersection
<1>. QED BY <1>1, <1>7, FS_Union DEF Collects, ResearchFrame

LEMMA FrameStep == ResearchFrame /\ [Next]_vars => ResearchFrame'
<1>. SUFFICES ASSUME ResearchFrame, [Next]_vars PROVE ResearchFrame'
  OBVIOUS
<1>1. CASE Search
  <2>1. queriesLeft' \in 0..QueryCount
    BY <1>1, ResearchAssumption DEF Search, Searching, ResearchFrame
  <2>. QED BY <1>1, <2>1, SearchCollects DEF Search, ResearchFrame, inputs
<1>2. CASE Selects
  <2>1. Limit(MaxPages) \in Nat /\ Limit(MaxPages) <= 50
    <3>1. MaxPages \in Nat
      BY ResearchAssumption
    <3>. QED BY <3>1, LimitRange DEF ResearchFrame
  <2>2. Len(links) = 0 /\ Len(harvest) \in Nat /\ Len(links') \in Nat
    BY <1>2 DEF ResearchFrame, Selects
  <2>3. Len(harvest) <= Len(links') /\ Len(links') <= 50
    BY <1>2, <2>1, <2>2 DEF ResearchFrame, Selects
  <2>. QED BY <1>2, <2>3 DEF ResearchFrame, Selects, inputs, Stages
<1>3. ASSUME NEW i \in 1..Len(links), NEW reaped, Visits(i, reaped) PROVE ResearchFrame'
  <2>1. /\ Len(harvest) \in Nat /\ Len(links) \in Nat /\ Len(harvest) = i - 1
        /\ stage = "visit"
    BY <1>3 DEF ResearchFrame, Visits, Visiting, At
  <2>2. harvest' \in Seq(Seq(Products)) /\ Len(harvest') = Len(harvest) + 1
    BY <1>3 DEF ResearchFrame, Visits
  <2>3. errors' \subseteq 1..Len(harvest')
    BY <1>3, <2>1, <2>2 DEF ResearchFrame, Visits
  <2>. QED BY <1>3, <2>1, <2>2, <2>3 DEF ResearchFrame, Visits, inputs
<1>4. CASE Moves
  BY <1>4 DEF Moves, ResearchFrame, inputs
<1>5. CASE UNCHANGED vars
  BY <1>5 DEF vars, ResearchFrame, inputs
<1>. QED BY <1>1, <1>2, <1>3, <1>4, <1>5, StepIsKnown

\* The types; neither the visits nor the errors are more than the links, nor these than 50.
THEOREM ResearchTypeCorrect == Spec => []ResearchTypeOK
<1>1. ASSUME ResearchFrame PROVE ResearchTypeOK
  <2>1. harvested \in Seq(Products)
    BY <1>1, FlattenType DEF ResearchFrame, harvested
  <2>2. ToSet(harvested) \subseteq Products
    BY <2>1, ToSetFinite
  <2>. QED BY <1>1, <2>2 DEF ResearchFrame, ResearchTypeOK
<1>. QED BY <1>1, FrameInit, FrameStep, PTL DEF Spec

-----------------------------------------------------------------------------
(***************************************************************************)
(* The links.  All orders of what was found are of what was found, and a   *)
(* list that is cut and still shorter than the limits was not cut.         *)
(***************************************************************************)
LEMMA SelectionInit == Init => SelectionIsFull
BY DEF Init, SelectionIsFull, ToSet

LEMMA SelectionStep ==
    ResearchFrame /\ SelectionIsFull /\ [Next]_vars => SelectionIsFull'
<1>. SUFFICES ASSUME ResearchFrame, SelectionIsFull, [Next]_vars PROVE SelectionIsFull'
  OBVIOUS
<1>0. ResearchFrame'
  BY FrameStep
<1>1. ToSet(links') \subseteq collected' /\ collected' \subseteq Allowed
  BY <1>0, ToSetFinite DEF ResearchFrame
<1>2. CASE Search
  BY <1>1, <1>2 DEF Search, Searching, SelectionIsFull
<1>3. CASE Selects
  <2>1. UNCHANGED <<Limit(CandidateLimit), Limit(MaxPages)>>
    BY <1>3 DEF Selects, inputs, Limit
  <2>. QED BY <1>1, <1>3, <2>1 DEF Selects, SelectionIsFull
<1>4. ASSUME UNCHANGED <<inputs, collected, links>>,
             stage' \in {"visit", "done"} => stage \in {"visit", "done"}
      PROVE  SelectionIsFull'
  <2>1. UNCHANGED <<Limit(CandidateLimit), Limit(MaxPages)>>
    BY <1>4 DEF inputs, Limit
  <2>. QED BY <1>4, <2>1 DEF SelectionIsFull
<1>5. ASSUME NEW i, NEW reaped, Visits(i, reaped) PROVE SelectionIsFull'
  BY <1>4, <1>5 DEF Visits
<1>6. CASE Moves
  BY <1>4, <1>6 DEF Moves
<1>7. CASE UNCHANGED vars
  BY <1>4, <1>7 DEF vars
<1>. QED BY <1>2, <1>3, <1>5, <1>6, <1>7, StepIsKnown

\* Only what was found and is allowed is visited, and short of the limits all of it.
THEOREM SelectionIsFullAlways == Spec => []SelectionIsFull
BY FrameInit, FrameStep, SelectionInit, SelectionStep, PTL DEF Spec

-----------------------------------------------------------------------------
(***************************************************************************)
(* The visits.                                                             *)
(***************************************************************************)
\* What the next visit appends comes after all that was harvested.
LEMMA VisitAppends ==
    ASSUME ResearchFrame, NEW i \in 1..Len(links), NEW reaped, Visits(i, reaped)
    PROVE  /\ DOMAIN harvest = 1..(i - 1) /\ DOMAIN harvest' = 1..i
           /\ harvest'[i] = reaped /\ \A j \in 1..(i - 1) : harvest'[j] = harvest[j]
           /\ Front(harvest') = harvest
<1>1. /\ harvest \in Seq(Seq(Products)) /\ Len(harvest) = i - 1
      /\ harvest' = Append(harvest, reaped) /\ reaped \in Seq(Products) /\ i \in Nat \ {0}
  BY DEF ResearchFrame, Visits, Visiting, At
<1>2. /\ DOMAIN harvest = 1..(i - 1) /\ DOMAIN harvest' = 1..i /\ Len(harvest') = i
      /\ harvest'[i] = reaped /\ \A j \in 1..(i - 1) : harvest'[j] = harvest[j]
  BY <1>1
<1>3. SubSeq(Append(harvest, reaped), 1, Len(harvest)) = harvest
  BY <1>1
<1>4. Front(harvest') = harvest
  BY <1>1, <1>2, <1>3 DEF Front
<1>. QED BY <1>2, <1>4

LEMMA CountsInit == Init => EveryVisitCounts
BY DEF Init, EveryVisitCounts

LEMMA CountsStep ==
    ResearchFrame /\ EveryVisitCounts /\ [Next]_vars => EveryVisitCounts'
<1>. SUFFICES ASSUME ResearchFrame, EveryVisitCounts, [Next]_vars PROVE EveryVisitCounts'
  OBVIOUS
<1>1. ASSUME UNCHANGED <<mode, harvest, errors>> PROVE EveryVisitCounts'
  BY <1>1 DEF EveryVisitCounts
<1>2. ASSUME NEW i \in 1..Len(links), NEW reaped, Visits(i, reaped) PROVE EveryVisitCounts'
  <2>1. /\ DOMAIN harvest = 1..(i - 1) /\ DOMAIN harvest' = 1..i
        /\ harvest'[i] = reaped /\ \A j \in 1..(i - 1) : harvest'[j] = harvest[j]
        /\ i \in Nat \ {0}
    BY <1>2, VisitAppends
  <2>2. /\ mode' = mode /\ (mode = "internet" => reaped # <<>>)
        /\ errors' \in {errors, errors \cup {i}}
        /\ errors' # errors => reaped # <<>> /\ Last(reaped) = Fallback
    BY <1>2 DEF Visits, inputs
  <2>3. errors \subseteq 1..(i - 1)
    BY <1>2 DEF ResearchFrame, Visits, Visiting, At
  <2>4. ASSUME NEW j \in 1..i, mode' = "internet" PROVE harvest'[j] # <<>>
    BY <2>1, <2>2, <2>4 DEF EveryVisitCounts
  <2>5. ASSUME NEW j \in errors' PROVE harvest'[j] # <<>> /\ Last(harvest'[j]) = Fallback
    <3>1. CASE j \in errors
      <4>1. harvest'[j] = harvest[j]
        BY <2>1, <2>3, <3>1
      <4>. QED BY <3>1, <4>1 DEF EveryVisitCounts
    <3>2. CASE j \notin errors
      <4>1. j = i /\ errors' # errors
        BY <2>2, <2>5, <3>2
      <4>. QED BY <2>1, <2>2, <4>1
    <3>. QED BY <3>1, <3>2
  <2>. QED BY <2>1, <2>4, <2>5 DEF EveryVisitCounts
<1>. QED
  BY <1>1, <1>2, StepIsKnown DEF Search, Selects, Moves, vars, inputs

\* Every visit leaves a product, and a link that raised is in the results itself.
THEOREM VisitsCount == Spec => []EveryVisitCounts
BY FrameInit, FrameStep, CountsInit, CountsStep, PTL DEF Spec

LEMMA ReachableType == ASSUME NEW list \in Seq(Seq(Products)) PROVE Reachable(FlattenSeq(list)) \in Nat
<1>. DEFINE products == FlattenSeq(list)
            reached == {i \in DOMAIN products : IsReachable(products[i])}
<1>1. products \in Seq(Products)
  BY FlattenType
<1>2. DOMAIN products = 1..Len(products) /\ Len(products) \in Nat
  <2>. HIDE DEF products
  <2>. QED BY <1>1
<1>3. IsFiniteSet(1..Len(products))
  <2>. HIDE DEF products
  <2>. QED BY <1>2, FS_Interval
<1>4. IsFiniteSet(reached)
  <2>1. reached \subseteq 1..Len(products)
    <3>. HIDE DEF products
    <3>. QED BY <1>2
  <2>. HIDE DEF reached, products
  <2>. QED BY <1>3, <2>1, FS_Subset
<1>5. Reachable(products) = Cardinality(reached)
  BY DEF Reachable
<1>. HIDE DEF reached
<1>. QED BY <1>4, <1>5, FS_CardinalityType

LEMMA NoVisitInit == Init => NoVisitAfterEnough
BY DEF Init, NoVisitAfterEnough

LEMMA NoVisitStep ==
    ResearchFrame /\ NoVisitAfterEnough /\ [Next]_vars => NoVisitAfterEnough'
<1>. SUFFICES ASSUME ResearchFrame, NoVisitAfterEnough, [Next]_vars PROVE NoVisitAfterEnough'
  OBVIOUS
<1>1. ASSUME UNCHANGED <<asked, harvest>> PROVE NoVisitAfterEnough'
  BY <1>1 DEF NoVisitAfterEnough
<1>2. ASSUME NEW i \in 1..Len(links), NEW reaped, Visits(i, reaped) PROVE NoVisitAfterEnough'
  <2>1. Front(harvest') = harvest /\ asked' = asked
    BY <1>2, VisitAppends DEF Visits, inputs
  <2>2. ~(Reachable(FlattenSeq(harvest)) >= asked)
    BY <1>2 DEF Visits, Visiting, Enough, harvested
  <2>3. Reachable(FlattenSeq(harvest)) \in Nat /\ asked \in Nat
    BY ReachableType, ResearchAssumption DEF ResearchFrame
  <2>4. Reachable(FlattenSeq(harvest)) < asked
    BY <2>2, <2>3
  <2>. QED BY <2>1, <2>4 DEF NoVisitAfterEnough
<1>. QED
  BY <1>1, <1>2, StepIsKnown DEF Search, Selects, Moves, vars, inputs

\* No page is opened once there are enough products with a supplier to be reached.
THEOREM NoVisitIsInVain == Spec => []NoVisitAfterEnough
BY FrameInit, FrameStep, NoVisitInit, NoVisitStep, PTL DEF Spec

LEMMA ShortInit == Init => ShortMeansAllTried
BY DEF Init, ShortMeansAllTried

LEMMA ShortStep ==
    ResearchFrame /\ ShortMeansAllTried /\ [Next]_vars => ShortMeansAllTried'
<1>. SUFFICES ASSUME ResearchFrame, ShortMeansAllTried, [Next]_vars PROVE ShortMeansAllTried'
  OBVIOUS
<1>1. CASE Search
  BY <1>1 DEF Search, Searching, ShortMeansAllTried
<1>2. CASE Selects
  BY <1>2 DEF Selects, ShortMeansAllTried
<1>3. ASSUME NEW i, NEW reaped, Visits(i, reaped) PROVE ShortMeansAllTried'
  BY <1>3 DEF Visits, Visiting, At, ShortMeansAllTried
<1>4. CASE Moves
  <2>1. Len(harvest) <= Len(links) /\ Len(harvest) \in Nat /\ Len(links) \in Nat
    BY DEF ResearchFrame
  <2>. QED BY <1>4, <2>1 DEF Moves, ShortMeansAllTried, harvested, inputs
<1>5. CASE UNCHANGED vars
  BY <1>5 DEF vars, inputs, ShortMeansAllTried, harvested
<1>. QED BY <1>1, <1>2, <1>3, <1>4, <1>5, StepIsKnown

\* Results short of what was asked mean that every link was tried.
THEOREM ShortResultsTriedAll == Spec => []ShortMeansAllTried
BY FrameInit, FrameStep, ShortInit, ShortStep, PTL DEF Spec

=============================================================================
