--------------------------- MODULE WebClient_proofs ---------------------------
(***************************************************************************)
(* The web client, for any number of loads under way together, attempts,   *)
(* messages, products, turns of the chat and failures: what a page shows   *)
(* of the parts that it reads at different times agrees, and what the row  *)
(* keeps of a chat that several pages write whole.                         *)
(***************************************************************************)
EXTENDS WebClient, TLAPS

-----------------------------------------------------------------------------
(***************************************************************************)
(* The product's page.  The message of an attempt is recorded before the   *)
(* attempt is sent and is never removed, and a load reads the attempts     *)
(* first: so at each place of a load an attempt it has seen as sent has    *)
(* its message, in the table while that is still to be read and in the     *)
(* load afterwards.                                                        *)
(***************************************************************************)
HaveMessages(statuses, recorded) ==
    \A i \in DOMAIN statuses : statuses[i] = "sent" => i \in recorded

AttemptStatuses == {"queued", "running", "sent", "failed"}

Histories == Seq(AttemptStatuses)

Phases == {"idle", "attempts", "messages", "answered", "drafts"}

LoadRecords == [phase : Phases, attempts : Histories, messages : SUBSET Nat]

ProductTypes ==
    /\ attempts \in Histories
    /\ messages \subseteq Nat
    /\ load \in [Loads -> LoadRecords]

ProductInv ==
    /\ ProductTypes
    /\ HaveMessages(attempts, messages)
    /\ HaveMessages(shown.attempts, shown.messages)
    /\ \A l \in Loads :
        /\ At(l, "messages") => HaveMessages(load[l].attempts, messages)
        /\ At(l, "answered") => HaveMessages(load[l].attempts, load[l].messages)

LEMMA NoHistory == <<>> \in Histories /\ HaveMessages(<<>>, {})
BY DEF Histories, HaveMessages

LEMMA HistoryPlaces == \A h \in Histories : DOMAIN h \subseteq Nat
BY DEF Histories

LEMMA LongerHistory ==
    ASSUME NEW h \in Histories, NEW recorded, HaveMessages(h, recorded)
    PROVE  Append(h, "queued") \in Histories /\ HaveMessages(Append(h, "queued"), recorded)
<1>1. /\ h \in Seq(AttemptStatuses) /\ "queued" \in AttemptStatuses /\ Len(h) \in Nat
      /\ DOMAIN h = 1 .. Len(h)
  BY DEF Histories, AttemptStatuses
<1>2. Append(h, "queued") \in Seq(AttemptStatuses)
  BY <1>1
<1>3. /\ DOMAIN Append(h, "queued") = 1 .. Len(h) + 1
      /\ Append(h, "queued")[Len(h) + 1] = "queued"
      /\ \A i \in 1 .. Len(h) : Append(h, "queued")[i] = h[i]
  BY <1>1
<1>4. HaveMessages(Append(h, "queued"), recorded)
  BY <1>1, <1>3 DEF HaveMessages
<1>. QED BY <1>2, <1>4 DEF Histories

LEMMA LaterHistory ==
    ASSUME NEW h \in Histories, NEW recorded, HaveMessages(h, recorded),
           NEW i \in DOMAIN h, NEW s \in AttemptStatuses, s = "sent" => i \in recorded
    PROVE  /\ i \in Nat
           /\ [h EXCEPT ![i] = s] \in Histories
           /\ HaveMessages([h EXCEPT ![i] = s], recorded)
<1>1. i \in Nat /\ h \in [1 .. Len(h) -> AttemptStatuses] /\ Len(h) \in Nat
  BY DEF Histories
<1>2. [h EXCEPT ![i] = s] \in [1 .. Len(h) -> AttemptStatuses]
  BY <1>1
<1>3. [h EXCEPT ![i] = s] \in Seq(AttemptStatuses)
  BY <1>1, <1>2
<1>4. HaveMessages([h EXCEPT ![i] = s], recorded)
  BY <1>1 DEF HaveMessages
<1>. QED BY <1>1, <1>3, <1>4 DEF Histories

\* The load at hand becomes another record, the other loads stay as they are.
LEMMA LoadBecomes ==
    ASSUME load \in [Loads -> LoadRecords], NEW k \in Loads, NEW r \in LoadRecords,
           load' = [load EXCEPT ![k] = r]
    PROVE  /\ load' \in [Loads -> LoadRecords]
           /\ load'[k] = r
           /\ \A l \in Loads \ {k} : load'[l] = load[l]
OBVIOUS

LEMMA ProductInvInit == ProductInit => ProductInv
<1>. SUFFICES ASSUME ProductInit PROVE ProductInv
  OBVIOUS
<1>1. Idle \in LoadRecords /\ [Idle EXCEPT !.phase = "attempts"] \in LoadRecords
  BY NoHistory DEF Idle, LoadRecords, Phases
<1>2. PICK k \in Loads :
        load = [l \in Loads |-> IF l = k THEN [Idle EXCEPT !.phase = "attempts"] ELSE Idle]
  BY DEF ProductInit
<1>3. \A l \in Loads : load[l] \in LoadRecords /\ load[l].phase \in {"idle", "attempts"}
  BY <1>1, <1>2 DEF Idle
<1>4. ProductTypes
  BY <1>2, <1>3, NoHistory DEF ProductInit, ProductTypes
<1>. QED BY <1>3, <1>4, NoHistory DEF ProductInit, ProductInv, At

\* A load that starts has read nothing yet, so it disturbs nothing.
LEMMA StartKeeps ==
    ASSUME ProductInv, NEW silent \in BOOLEAN, StartsLoad(silent),
           attempts' \in Histories, messages' \subseteq Nat, messages \subseteq messages',
           HaveMessages(attempts', messages'), UNCHANGED shown
    PROVE  ProductInv'
<1>1. PICK k \in Loads : At(k, "idle") /\ load' = [load EXCEPT ![k] = [load[k] EXCEPT !.phase = "attempts"]]
  BY DEF StartsLoad
<1>. DEFINE r == [load[k] EXCEPT !.phase = "attempts"]
<1>2. r \in LoadRecords /\ r.phase = "attempts" /\ load' = [load EXCEPT ![k] = r]
  BY <1>1 DEF ProductInv, ProductTypes, LoadRecords, Phases
<1>. HIDE DEF r
<1>3. /\ load' \in [Loads -> LoadRecords] /\ load'[k] = r
      /\ \A l \in Loads \ {k} : load'[l] = load[l]
  BY <1>2, LoadBecomes DEF ProductInv, ProductTypes
<1>. QED BY <1>2, <1>3 DEF ProductInv, ProductTypes, HaveMessages, At

LEMMA ProductInvStep == ProductInv /\ [ProductNext]_productVars => ProductInv'
<1>. SUFFICES ASSUME ProductInv, [ProductNext]_productVars PROVE ProductInv'
  OBVIOUS
<1>0. ProductTypes
  BY DEF ProductInv
<1>1. ASSUME Work PROVE ProductInv'
  <2>0. PICK i \in DOMAIN attempts : Starts(i) \/ Records(i) \/ Settles(i)
    BY <1>1 DEF Work
  <2>. UNCHANGED <<load, shown>>
    BY <1>1 DEF Work
  <2>1. CASE Starts(i)
    BY <2>1, <1>0, LaterHistory DEF AttemptStatuses, Starts, Move, ProductInv, ProductTypes, At
  <2>2. CASE Records(i)
    BY <2>2, <1>0, HistoryPlaces DEF Records, ProductInv, ProductTypes, HaveMessages, At
  <2>3. CASE Settles(i)
    BY <2>3, <1>0, LaterHistory DEF AttemptStatuses, Settles, Move, ProductInv, ProductTypes, At
  <2>. QED BY <2>0, <2>1, <2>2, <2>3
<1>2. ASSUME NEW l \in Loads, ReadsForLoad(l) PROVE ProductInv'
  <2>1. CASE At(l, "attempts")
    <3>. DEFINE r == [load[l] EXCEPT !.phase = "messages", !.attempts = attempts]
    <3>1. /\ r \in LoadRecords /\ r.phase = "messages" /\ r.attempts = attempts
          /\ load' = [load EXCEPT ![l] = r]
      BY <1>0, <1>2, <2>1 DEF ReadsForLoad, At, ProductTypes, LoadRecords, Phases
    <3>. HIDE DEF r
    <3>. QED BY <1>0, <1>2, <3>1, LoadBecomes
             DEF ReadsForLoad, serverVars, ProductInv, ProductTypes, At
  <2>2. CASE At(l, "messages")
    <3>. DEFINE r == [load[l] EXCEPT !.phase = "answered", !.messages = messages]
    <3>1. /\ r \in LoadRecords /\ r.phase = "answered" /\ r.messages = messages
          /\ r.attempts = load[l].attempts /\ load' = [load EXCEPT ![l] = r]
      BY <1>0, <1>2, <2>2 DEF ReadsForLoad, At, ProductTypes, LoadRecords, Phases
    <3>. HIDE DEF r
    <3>. QED BY <1>0, <1>2, <2>2, <3>1, LoadBecomes
             DEF ReadsForLoad, serverVars, ProductInv, ProductTypes, At
  <2>. QED BY <1>2, <2>1, <2>2 DEF ReadsForLoad
<1>3. ASSUME NEW l \in Loads, ShowsProduct(l) \/ ShowsDrafts(l) \/ LoadFails(l)
      PROVE  ProductInv'
  <2>1. PICK r \in LoadRecords :
          r.phase \in {"idle", "drafts"} /\ load' = [load EXCEPT ![l] = r]
    BY <1>3, NoHistory DEF ShowsProduct, ShowsDrafts, LoadFails, Idle, LoadRecords, Phases
  <2>2. UNCHANGED <<attempts, messages>> /\ HaveMessages(shown.attempts, shown.messages)'
    BY <1>3 DEF ShowsProduct, ShowsDrafts, LoadFails, serverVars, ProductInv
  <2>. QED BY <1>0, <2>1, <2>2, LoadBecomes DEF ProductInv, ProductTypes, At
<1>4. ASSUME Polls PROVE ProductInv'
  BY <1>4, <1>0, StartKeeps DEF Polls, ProductInv, ProductTypes, HaveMessages, serverVars
<1>5. ASSUME Submits PROVE ProductInv'
  <2>1. attempts' = Append(attempts, "queued") /\ UNCHANGED messages /\ UNCHANGED shown
    BY <1>5 DEF Submits
  <2>2. attempts' \in Histories /\ HaveMessages(attempts', messages')
    BY <2>1, <1>0, LongerHistory DEF ProductInv, ProductTypes
  <2>. QED BY <1>0, <1>5, <2>1, <2>2, StartKeeps DEF Submits, ProductTypes
<1>6. Inbound \subseteq Nat
  BY BoundsAssumption DEF Inbound
<1>7. ASSUME SubmitsInbound PROVE ProductInv'
  BY <1>0, <1>6, <1>7, StartKeeps
     DEF SubmitsInbound, Receives, ProductInv, ProductTypes, HaveMessages
<1>8. ASSUME GmailAnswers PROVE ProductInv'
  <2>1. CASE Receives /\ StartsLoad(TRUE)
    BY <1>0, <1>6, <1>8, <2>1, StartKeeps
       DEF GmailAnswers, Receives, ProductInv, ProductTypes, HaveMessages
  <2>2. CASE UNCHANGED <<messages, load>>
    BY <1>0, <1>8, <2>2 DEF GmailAnswers, ProductInv, ProductTypes, HaveMessages, At
  <2>. QED BY <1>8, <2>1, <2>2 DEF GmailAnswers
<1>9. CASE UNCHANGED productVars
  BY <1>0, <1>9 DEF productVars, serverVars, ProductInv, ProductTypes, HaveMessages, At
<1>. QED
  BY <1>1, <1>2, <1>3, <1>4, <1>5, <1>7, <1>8, <1>9 DEF ProductNext, LoadStep

-----------------------------------------------------------------------------
(***************************************************************************)
(* The catalogue.  A request that has left the queue never gets back to    *)
(* it, since no copy is put as queued: so once no processor is at work     *)
(* none will be, and a load sent after that brings the products there are, *)
(* whenever it is answered and whatever the status still becomes.          *)
(***************************************************************************)
SearchStatuses == {"queued", "running", "completed", "failed"}

Answers == {<<>>} \cup {<<stored>> : stored \in SUBSET Found}

Copies == SearchStatuses \ {"queued"}

SearcherRecords ==
    [place : {"ready", "over"}, copy : {Nothing}]
        \cup [place : {"begins", "works", "saves"}, copy : Copies]

CatalogLoadRecords ==
    [active : BOOLEAN, silent : BOOLEAN, late : BOOLEAN,
     request : SearchStatuses \cup {Nothing}, items : Answers]

CatalogRecords ==
    [status : SearchStatuses \cup {Nothing}, items : SUBSET Found,
     late : BOOLEAN, error : BOOLEAN, loading : BOOLEAN]

CatalogTypes ==
    /\ search \in [status : SearchStatuses, stored : SUBSET Found]
    /\ searcher \in [SearchProcs -> SearcherRecords]
    /\ catalogLoad \in [CatalogLoads -> CatalogLoadRecords]
    /\ catalog \in CatalogRecords

\* A load sent when the search was over has its products or none yet.
Whole(r) == r.late => SearchOver /\ r.items \in {<<>>, <<search.stored>>}

CatalogInv ==
    /\ CatalogTypes
    /\ \A l \in CatalogLoads : Whole(catalogLoad[l])
    /\ catalog.late => SearchOver /\ catalog.items = search.stored

LEMMA NoLoadWhole == NoLoad \in CatalogLoadRecords /\ Whole(NoLoad) /\ <<>> \in Answers
BY DEF NoLoad, CatalogLoadRecords, Nothing, Answers, Whole

LEMMA SentWhole ==
    ASSUME CatalogTypes, NEW silent \in BOOLEAN
    PROVE  Sent(silent) \in CatalogLoadRecords /\ Whole(Sent(silent))
<1>1. SearchOver \in BOOLEAN
  BY DEF SearchOver
<1>. QED BY <1>1, NoLoadWhole DEF CatalogTypes, Sent, NoLoad, CatalogLoadRecords, Whole

\* A search that is over stays so, and stores nothing more.
LEMMA OverStays ==
    ASSUME CatalogTypes, NEW p \in SearchProcs,
           TakesUp(p) \/ Saves(p) \/ Stores(p) \/ StopsWorking(p)
    PROVE  /\ search' \in [status : SearchStatuses, stored : SUBSET Found]
           /\ searcher' \in [SearchProcs -> SearcherRecords]
           /\ SearchOver => SearchOver' /\ search'.stored = search.stored
<1>0. /\ search \in [status : SearchStatuses, stored : SUBSET Found]
      /\ searcher[p] \in SearcherRecords /\ searcher \in [SearchProcs -> SearcherRecords]
  BY DEF CatalogTypes
<1>1. \A s : CanStart(s, SearchMoves) <=> s = "queued"
  BY DEF CanStart, SearchMoves, CommonMoves
<1>2. CASE TakesUp(p)
  <2>1. PICK r \in SearcherRecords :
            /\ r.place = "saves" \/ (r.place = "begins" /\ search.status = "queued")
            /\ searcher' = [searcher EXCEPT ![p] = r]
    <3>1. CASE CanStart(search.status, SearchMoves) /\ SearcherMoves(p, "begins", "running")
      <4>. DEFINE r == [place |-> "begins", copy |-> "running"]
      <4>1. r \in SearcherRecords
        BY DEF SearcherRecords, Copies, SearchStatuses
      <4>2. search.status = "queued" /\ searcher' = [searcher EXCEPT ![p] = r]
        BY <1>1, <3>1 DEF SearcherMoves
      <4>. QED BY <4>1, <4>2
    <3>2. CASE SearcherMoves(p, "saves", AfterExcept(search.status))
      <4>1. AfterExcept(search.status) \in Copies
        BY <1>0 DEF AfterExcept, Active, Copies, SearchStatuses
      <4>. QED BY <3>2, <4>1 DEF SearcherMoves, SearcherRecords
    <3>. QED BY <1>2, <3>1, <3>2 DEF TakesUp
  <2>2. UNCHANGED search
    BY <1>2 DEF TakesUp
  <2>. QED BY <1>0, <1>1, <2>1, <2>2 DEF SearchOver
<1>3. CASE Saves(p)
  <2>1. PICK r \in SearcherRecords :
            /\ searcher' = [searcher EXCEPT ![p] = r]
            /\ r.place \in {"works", "over"}
            /\ r.place = "works" => searcher[p].place = "begins"
    BY <1>0, <1>3 DEF Saves, SearcherMoves, SearcherRecords, Nothing
  <2>2. searcher[p].copy \in Copies
    BY <1>0, <1>3 DEF Saves, SearcherRecords
  <2>3. /\ search' \in [status : SearchStatuses, stored : SUBSET Found]
        /\ search'.stored = search.stored /\ search'.status # "queued"
    BY <1>0, <1>3, <2>2 DEF Saves, Copies
  <2>. QED BY <1>0, <1>1, <2>1, <2>3 DEF SearchOver
<1>4. CASE Stores(p)
  <2>1. ~SearchOver
    BY <1>4 DEF Stores, SearchOver
  <2>. QED BY <1>0, <1>4, <2>1 DEF Stores
<1>5. CASE StopsWorking(p)
  <2>1. ~SearchOver /\ UNCHANGED search
    BY <1>5 DEF StopsWorking, SearchOver
  <2>2. PICK r \in SearcherRecords : searcher' = [searcher EXCEPT ![p] = r]
    BY <1>5 DEF StopsWorking, SearcherMoves, SearcherRecords, Copies, SearchStatuses
  <2>. QED BY <1>0, <2>1, <2>2
<1>. QED BY <1>2, <1>3, <1>4, <1>5

\* A load goes on while the request stays as it is.
LEMMA CatalogLoadBecomes ==
    ASSUME CatalogInv, UNCHANGED searchVars, catalog' \in CatalogRecords,
           catalog'.late => SearchOver /\ catalog'.items = search.stored,
           NEW k \in CatalogLoads, NEW r \in CatalogLoadRecords, Whole(r),
           catalogLoad' = [catalogLoad EXCEPT ![k] = r]
    PROVE  CatalogInv'
<1>1. /\ catalogLoad' \in [CatalogLoads -> CatalogLoadRecords]
      /\ \A l \in CatalogLoads : catalogLoad'[l] \in {r, catalogLoad[l]}
  BY DEF CatalogInv, CatalogTypes
<1>2. UNCHANGED <<search, searcher>> /\ SearchOver' = SearchOver
  BY DEF searchVars, SearchOver
<1>. QED BY <1>1, <1>2 DEF CatalogInv, CatalogTypes, Whole

LEMMA CatalogInvInit == CatalogInit => CatalogInv
<1>. SUFFICES ASSUME CatalogInit PROVE CatalogInv
  OBVIOUS
<1>1. /\ search.status = "queued" /\ search \in [status : SearchStatuses, stored : SUBSET Found]
      /\ searcher \in [SearchProcs -> SearcherRecords]
  BY DEF CatalogInit, SearchStatuses, SearcherRecords
<1>2. ~SearchOver
  BY <1>1 DEF SearchOver, CanStart, SearchMoves, CommonMoves
<1>3. Sent(FALSE) \in CatalogLoadRecords /\ Whole(Sent(FALSE))
  <2>1. SearchOver = FALSE
    BY <1>2 DEF SearchOver
  <2>2. Sent(FALSE) = [NoLoad EXCEPT !.active = TRUE, !.silent = FALSE, !.late = FALSE]
    BY <2>1 DEF Sent
  <2>. QED BY <2>2, NoLoadWhole DEF NoLoad, CatalogLoadRecords, Whole
<1>4. /\ catalogLoad \in [CatalogLoads -> CatalogLoadRecords]
      /\ \A l \in CatalogLoads : catalogLoad[l] \in {Sent(FALSE), NoLoad}
  BY <1>3, NoLoadWhole DEF CatalogInit
<1>5. catalog \in CatalogRecords /\ catalog.late = FALSE
  BY DEF CatalogInit, CatalogRecords, Nothing
<1>. QED BY <1>1, <1>3, <1>4, <1>5, NoLoadWhole DEF CatalogInv, CatalogTypes

LEMMA CatalogInvStep == CatalogInv /\ [CatalogNext]_catalogVars => CatalogInv'
<1>. SUFFICES ASSUME CatalogInv, [CatalogNext]_catalogVars PROVE CatalogInv'
  OBVIOUS
<1>0. CatalogTypes
  BY DEF CatalogInv
<1>1. ASSUME NEW p \in SearchProcs, Searches(p) PROVE CatalogInv'
  <2>1. UNCHANGED <<catalogLoad, catalog>>
    BY <1>1 DEF Searches
  <2>2. /\ search' \in [status : SearchStatuses, stored : SUBSET Found]
        /\ searcher' \in [SearchProcs -> SearcherRecords]
        /\ SearchOver => SearchOver' /\ search'.stored = search.stored
    BY <1>0, <1>1, OverStays DEF Searches
  <2>. QED BY <2>1, <2>2 DEF CatalogInv, CatalogTypes, Whole
<1>2. ASSUME NEW l \in CatalogLoads, AnswersRequest(l) PROVE CatalogInv'
  <2>. DEFINE r == [catalogLoad[l] EXCEPT !.request = search.status]
  <2>1. r \in CatalogLoadRecords /\ Whole(r) /\ catalogLoad' = [catalogLoad EXCEPT ![l] = r]
    BY <1>0, <1>2 DEF AnswersRequest, CatalogInv, CatalogTypes, CatalogLoadRecords, Whole
  <2>. HIDE DEF r
  <2>. QED BY <1>0, <1>2, <2>1, CatalogLoadBecomes DEF AnswersRequest, CatalogInv, CatalogTypes
<1>3. ASSUME NEW l \in CatalogLoads, AnswersProducts(l) PROVE CatalogInv'
  <2>. DEFINE r == [catalogLoad[l] EXCEPT !.items = <<search.stored>>]
  <2>1. r \in CatalogLoadRecords /\ Whole(r) /\ catalogLoad' = [catalogLoad EXCEPT ![l] = r]
    BY <1>0, <1>3
       DEF AnswersProducts, CatalogInv, CatalogTypes, CatalogLoadRecords, Whole, Answers
  <2>. HIDE DEF r
  <2>. QED BY <1>0, <1>3, <2>1, CatalogLoadBecomes DEF AnswersProducts, CatalogInv, CatalogTypes
<1>4. ASSUME NEW l \in CatalogLoads, ShowsCatalog(l) PROVE CatalogInv'
  <2>1. catalogLoad[l] \in CatalogLoadRecords /\ catalogLoad[l].items # <<>>
    BY <1>0, <1>4 DEF ShowsCatalog, CatalogTypes
  <2>2. PICK stored \in SUBSET Found : catalogLoad[l].items = <<stored>>
    BY <2>1 DEF CatalogLoadRecords, Answers
  <2>3. /\ catalogLoad[l].request \in SearchStatuses \cup {Nothing}
        /\ catalogLoad[l].late \in BOOLEAN
        /\ <<stored>>[1] = stored
    BY <2>1 DEF CatalogLoadRecords
  <2>4. catalog' = [catalog EXCEPT !.status = catalogLoad[l].request, !.items = stored,
                                   !.late = catalogLoad[l].late, !.loading = FALSE]
    BY <1>4, <2>2, <2>3 DEF ShowsCatalog
  <2>5. /\ catalog' \in CatalogRecords
        /\ catalog'.late = catalogLoad[l].late /\ catalog'.items = stored
    BY <1>0, <2>3, <2>4 DEF CatalogTypes, CatalogRecords
  <2>6. catalog'.late => SearchOver /\ stored = search.stored
    <3>1. Whole(catalogLoad[l]) /\ catalogLoad[l].items = <<stored>> /\ <<stored>> # <<>>
      BY <2>1, <2>2 DEF CatalogInv
    <3>2. <<search.stored>> = <<stored>> => search.stored = stored
      OBVIOUS
    <3>. QED BY <2>5, <3>1, <3>2 DEF Whole
  <2>. QED BY <1>4, <2>5, <2>6, NoLoadWhole, CatalogLoadBecomes DEF ShowsCatalog
<1>5. ASSUME NEW l \in CatalogLoads, CatalogFails(l) PROVE CatalogInv'
  <2>1. /\ catalog' \in CatalogRecords
        /\ catalog'.late = catalog.late /\ catalog'.items = catalog.items
    BY <1>0, <1>5 DEF CatalogFails, CatalogTypes, CatalogRecords
  <2>. QED BY <1>5, <2>1, NoLoadWhole, CatalogLoadBecomes DEF CatalogFails, CatalogInv
<1>6. ASSUME PollsCatalog PROVE CatalogInv'
  <2>1. /\ catalog' \in CatalogRecords
        /\ catalog'.late = catalog.late /\ catalog'.items = catalog.items
    BY <1>0, <1>6 DEF PollsCatalog, CatalogTypes, CatalogRecords
  <2>. QED BY <1>0, <1>6, <2>1, SentWhole, CatalogLoadBecomes DEF PollsCatalog, CatalogInv
<1>7. CASE UNCHANGED catalogVars
  BY <1>7 DEF catalogVars, searchVars, SearchOver, CatalogInv, CatalogTypes, Whole
<1>. QED
  BY <1>1, <1>2, <1>3, <1>4, <1>5, <1>6, <1>7 DEF CatalogNext, CatalogStep

-----------------------------------------------------------------------------
(***************************************************************************)
(* The chat.  What is read of the row when n turns have been saved is      *)
(* sound at n: its turns are among those n and in their order, no closer   *)
(* together than there; and of a turn that is missing, either a later one  *)
(* was saved on an older reading, or as many as are kept were saved since. *)
(* A reading stays sound while turns are saved after it, and an answer     *)
(* makes a sound row of a sound reading.                                   *)
(***************************************************************************)
IsSpaced(saved, n, list) ==
    \A i, j \in DOMAIN list : \A k, m \in 1..n :
        i <= j /\ saved[k] = list[i] /\ saved[m] = list[j] => m - k >= j - i

Overlapped(saved, n, readAt, k) ==
    \E m \in 1..n : m > k /\ readAt[saved[m]] < k

MissesOnlyByOverlap(saved, n, readAt, list) ==
    \A k \in 1..n :
        \/ saved[k] \in ToSet(list)
        \/ Overlapped(saved, n, readAt, k)
        \/ n - k >= ChatLimit

IsSound(saved, n, readAt, list) ==
    /\ n \in 0..Len(saved) /\ list \in Seq(Turns)
    /\ \A i \in DOMAIN list : \E k \in 1..n : list[i] = saved[k]
    /\ IsSpaced(saved, n, list)
    /\ MissesOnlyByOverlap(saved, n, readAt, list)

ReadAt == [t \in Turns |-> turn[t].readAt]

Questions == {<<"question", t>> : t \in OwnTurns}

TurnStates == {"unasked", "asked", "thinking", "answered", "refused", "heard", "dropped"}

TurnRecords == [state : TurnStates, read : Seq(Turns), readAt : Nat]

ChatLoadRecords == [phase : {"idle", "sent", "answered"}, read : Seq(Turns)]

ChatTypes ==
    /\ chat \in Seq(Turns) /\ order \in Seq(Turns)
    /\ turn \in [Turns -> TurnRecords]
    /\ chatLoad \in [ChatLoads -> ChatLoadRecords]
    /\ shownChat \in Seq(Turns \cup Questions)

SavedOnce ==
    /\ \A i, j \in DOMAIN order : order[i] = order[j] => i = j
    /\ \A t \in Turns : t \in ToSet(order) <=> turn[t].state \in {"answered", "heard"}

ReadingsAreSound ==
    /\ IsSound(order, Len(order), ReadAt, chat)
    /\ \A t \in Turns :
        turn[t].state = "thinking" => IsSound(order, turn[t].readAt, ReadAt, turn[t].read)

ShownIsSaved ==
    /\ \A t \in Turns : turn[t].state = "answered" => ToSet(turn[t].read) \subseteq ToSet(order)
    /\ \A l \in ChatLoads : ToSet(chatLoad[l].read) \subseteq ToSet(order)
    /\ ToSet(shownChat) \cap Turns \subseteq ToSet(order)

ChatInv == ChatTypes /\ SavedOnce /\ ReadingsAreSound /\ ShownIsSaved

LEMMA KeptIsTail ==
    ASSUME NEW list \in Seq(Turns)
    PROVE  \E d \in 0..Len(list) :
            /\ Kept(list) \in Seq(Turns) /\ Len(Kept(list)) = Len(list) - d
            /\ \A i \in 1..Len(list) - d : Kept(list)[i] = list[i + d]
            /\ d > 0 => Len(list) - d = ChatLimit
<1>1. ChatLimit \in Nat \ {0} /\ Len(list) \in Nat
  BY ChatAssumption
<1>2. CASE Len(list) > ChatLimit
  <2>. DEFINE d == Len(list) - ChatLimit
  <2>1. Kept(list) = SubSeq(list, d + 1, Len(list)) /\ d \in 1..Len(list)
    BY <1>1, <1>2 DEF Kept
  <2>2. /\ Kept(list) \in Seq(Turns) /\ Len(Kept(list)) = Len(list) - d
        /\ \A i \in 1..Len(list) - d : Kept(list)[i] = list[i + d]
    BY <1>1, <2>1
  <2>3. d \in 0..Len(list) /\ Len(list) - d = ChatLimit
    BY <1>1, <1>2
  <2>. HIDE DEF d
  <2>. QED BY <2>2, <2>3
<1>3. CASE ~(Len(list) > ChatLimit)
  <2>1. Kept(list) = SubSeq(list, 1, Len(list))
    BY <1>3 DEF Kept
  <2>2. /\ Kept(list) \in Seq(Turns) /\ Len(Kept(list)) = Len(list) - 0
        /\ \A i \in 1..Len(list) - 0 : Kept(list)[i] = list[i + 0]
    BY <1>1, <2>1
  <2>. QED BY <1>1, <2>2
<1>. QED BY <1>2, <1>3

\* What was sound stays so while others are saved and begin to read.
LEMMA SoundStays ==
    ASSUME NEW saved \in Seq(Turns), NEW later \in Seq(Turns), Len(saved) <= Len(later),
           NEW readAt, NEW readLater, NEW n, NEW list, IsSound(saved, n, readAt, list),
           \A k \in 1..Len(saved) : later[k] = saved[k] /\ readLater[saved[k]] = readAt[saved[k]]
    PROVE  IsSound(later, n, readLater, list)
<1>1. n \in 0..Len(saved) /\ n \in 0..Len(later) /\ list \in Seq(Turns)
  BY DEF IsSound
<1>2. \A k \in 1..n : later[k] = saved[k] /\ readLater[saved[k]] = readAt[saved[k]]
  BY <1>1
<1>3. \A i \in DOMAIN list : \E k \in 1..n : list[i] = later[k]
  BY <1>2 DEF IsSound
<1>4. IsSpaced(later, n, list)
  BY <1>2 DEF IsSound, IsSpaced
<1>5. \A k \in 1..n : Overlapped(saved, n, readAt, k) => Overlapped(later, n, readLater, k)
  BY <1>2 DEF Overlapped
<1>6. MissesOnlyByOverlap(later, n, readLater, list)
  BY <1>2, <1>5 DEF IsSound, MissesOnlyByOverlap
<1>. QED BY <1>1, <1>3, <1>4, <1>6 DEF IsSound

\* The answer to a turn is its reading with the turn itself: who was saved meanwhile is overlapped.
LEMMA SoundAnswer ==
    ASSUME NEW saved \in Seq(Turns), NEW t \in Turns, t \notin ToSet(saved),
           \A k, m \in DOMAIN saved : saved[k] = saved[m] => k = m,
           NEW readAt, NEW list, IsSound(saved, readAt[t], readAt, list)
    PROVE  IsSound(Append(saved, t), Len(saved) + 1, readAt, Append(list, t))
<1>. DEFINE n == readAt[t]
            last == Len(saved) + 1
            later == Append(saved, t)
            full == Append(list, t)
<1>1. /\ n \in 0..Len(saved) /\ Len(saved) \in Nat /\ list \in Seq(Turns) /\ Len(list) \in Nat
      /\ DOMAIN list = 1..Len(list) /\ DOMAIN saved = 1..Len(saved)
  BY DEF IsSound
<1>2. /\ later \in Seq(Turns) /\ Len(later) = last /\ later[last] = t
      /\ \A k \in 1..Len(saved) : later[k] = saved[k] /\ saved[k] # t
  BY <1>1 DEF ToSet
<1>3. /\ full \in Seq(Turns) /\ Len(full) = Len(list) + 1 /\ DOMAIN full = 1..Len(list) + 1
      /\ full[Len(list) + 1] = t
      /\ \A i \in 1..Len(list) : full[i] = list[i]
  BY <1>1
<1>. HIDE DEF later, full
<1>4. \A k, m \in 1..last : later[k] = later[m] => k = m
  BY <1>1, <1>2, SMTT(30)
<1>5. \A i \in 1..Len(list) : \E k \in 1..n : full[i] = later[k]
  <2>1. \A i \in 1..Len(list) : \E k \in 1..n : list[i] = saved[k]
    BY <1>1 DEF IsSound
  <2>2. \A k \in 1..n : later[k] = saved[k]
    BY <1>1, <1>2
  <2>. QED BY <1>3, <2>1, <2>2
<1>6. \A i \in DOMAIN full : \E k \in 1..last : full[i] = later[k]
  <2>1. \A k \in 1..n : k \in 1..last
    BY <1>1
  <2>2. last \in 1..last /\ full[Len(list) + 1] = later[last]
    BY <1>1, <1>2, <1>3
  <2>3. \A i \in DOMAIN full : i \in 1..Len(list) \/ i = Len(list) + 1
    BY <1>1, <1>3
  <2>. QED BY <1>5, <2>1, <2>2, <2>3
<1>7. ASSUME NEW i \in 1..Len(list), NEW j \in 1..Len(list), NEW k \in 1..last, NEW m \in 1..last,
             i <= j, later[k] = full[i], later[m] = full[j]
      PROVE  k \in 1..n /\ m \in 1..n /\ m - k >= j - i
  <2>1. k \in 1..n /\ m \in 1..n
    <3>1. PICK a \in 1..n, b \in 1..n : full[i] = later[a] /\ full[j] = later[b]
      BY <1>5
    <3>2. a \in 1..last /\ b \in 1..last
      BY <1>1
    <3>. QED BY <1>4, <1>7, <3>1, <3>2
  <2>2. saved[k] = list[i] /\ saved[m] = list[j]
    BY <1>1, <1>2, <1>3, <1>7, <2>1
  <2>. QED BY <1>1, <1>7, <2>1, <2>2 DEF IsSound, IsSpaced
<1>8. IsSpaced(later, last, full)
  <2>. SUFFICES ASSUME NEW i \in DOMAIN full, NEW j \in DOMAIN full, NEW k \in 1..last, NEW m \in 1..last,
                       i <= j, later[k] = full[i], later[m] = full[j]
                PROVE  m - k >= j - i
    BY DEF IsSpaced
  <2>1. CASE j # Len(list) + 1
    BY <1>1, <1>3, <1>7, <2>1, SMTT(30)
  <2>2. CASE j = Len(list) + 1
    <3>1. m = last
      BY <1>1, <1>2, <1>3, <1>4, <2>2
    <3>2. CASE i = Len(list) + 1
      BY <1>1, <1>2, <1>3, <1>4, <2>2, <3>1, <3>2
    <3>3. CASE i # Len(list) + 1
      <4>1. i \in 1..Len(list) /\ Len(list) \in 1..Len(list)
        BY <1>1, <1>3, <3>3
      <4>2. PICK b \in 1..n : full[Len(list)] = later[b]
        BY <1>5, <4>1
      <4>3. b \in 1..last /\ i <= Len(list)
        BY <1>1, <4>1
      <4>4. b - k >= Len(list) - i
        BY <1>7, <4>1, <4>2, <4>3
      <4>. QED BY <1>1, <2>2, <3>1, <4>1, <4>4
    <3>. QED BY <3>2, <3>3
  <2>. QED BY <2>1, <2>2
<1>9. MissesOnlyByOverlap(later, last, readAt, full)
  <2>. SUFFICES ASSUME NEW k \in 1..last
                PROVE  \/ later[k] \in ToSet(full)
                       \/ Overlapped(later, last, readAt, k)
                       \/ last - k >= ChatLimit
    BY DEF MissesOnlyByOverlap
  <2>1. CASE k \in 1..n
    <3>1. k \in 1..Len(saved) /\ later[k] = saved[k]
      BY <1>1, <1>2, <2>1
    <3>2. CASE saved[k] \in ToSet(list)
      BY <1>1, <1>3, <3>1, <3>2 DEF ToSet
    <3>3. CASE Overlapped(saved, n, readAt, k)
      <4>1. PICK m \in 1..n : m > k /\ readAt[saved[m]] < k
        BY <3>3 DEF Overlapped
      <4>2. m \in 1..last /\ m \in 1..Len(saved)
        BY <1>1
      <4>. QED BY <1>2, <4>1, <4>2 DEF Overlapped
    <3>4. CASE n - k >= ChatLimit
      BY <1>1, <2>1, <3>4, ChatAssumption
    <3>. QED BY <2>1, <3>2, <3>3, <3>4 DEF IsSound, MissesOnlyByOverlap
  <2>2. CASE k = last
    BY <1>1, <1>2, <1>3, <2>2 DEF ToSet
  <2>3. CASE k \notin 1..n /\ k # last
    <3>1. last \in 1..last /\ last > k /\ readAt[later[last]] < k
      BY <1>1, <1>2, <2>3
    <3>. QED BY <3>1 DEF Overlapped
  <2>. QED BY <2>1, <2>2, <2>3
<1>10. last \in 0..Len(later)
  BY <1>1, <1>2
<1>11. IsSound(later, last, readAt, full)
  BY <1>3, <1>6, <1>8, <1>9, <1>10 DEF IsSound
<1>. QED BY <1>11 DEF later, full

\* What is cut off the front of a list that ends with the turn saved last was saved long ago.
LEMMA SoundKept ==
    ASSUME NEW saved \in Seq(Turns), NEW readAt, NEW n, NEW list, IsSound(saved, n, readAt, list),
           Len(list) > 0, n > 0, list[Len(list)] = saved[n]
    PROVE  IsSound(saved, n, readAt, Kept(list))
<1>1. /\ n \in 0..Len(saved) /\ Len(saved) \in Nat /\ list \in Seq(Turns) /\ Len(list) \in Nat
      /\ DOMAIN list = 1..Len(list)
  BY DEF IsSound
<1>2. PICK d \in 0..Len(list) :
            /\ Kept(list) \in Seq(Turns) /\ Len(Kept(list)) = Len(list) - d
            /\ \A i \in 1..Len(list) - d : Kept(list)[i] = list[i + d]
            /\ d > 0 => Len(list) - d = ChatLimit
  BY <1>1, KeptIsTail
<1>. DEFINE kept == Kept(list)
<1>3. DOMAIN kept = 1..Len(list) - d /\ kept \in Seq(Turns)
  BY <1>1, <1>2
<1>4. \A i \in 1..Len(list) - d : i + d \in DOMAIN list /\ kept[i] = list[i + d]
  BY <1>1, <1>2
<1>. HIDE DEF kept
<1>5. \A i \in DOMAIN kept : \E k \in 1..n : kept[i] = saved[k]
  BY <1>3, <1>4 DEF IsSound
<1>6. IsSpaced(saved, n, kept)
  <2>. SUFFICES ASSUME NEW i \in DOMAIN kept, NEW j \in DOMAIN kept, NEW k \in 1..n, NEW m \in 1..n,
                       i <= j, saved[k] = kept[i], saved[m] = kept[j]
                PROVE  m - k >= j - i
    BY DEF IsSpaced
  <2>1. /\ i + d \in DOMAIN list /\ j + d \in DOMAIN list /\ i + d <= j + d
        /\ saved[k] = list[i + d] /\ saved[m] = list[j + d]
    BY <1>1, <1>3, <1>4, SMTT(30)
  <2>2. m - k >= (j + d) - (i + d)
    BY <2>1 DEF IsSound, IsSpaced
  <2>. QED BY <1>1, <1>3, <2>2
<1>7. MissesOnlyByOverlap(saved, n, readAt, kept)
  <2>. SUFFICES ASSUME NEW k \in 1..n, saved[k] \in ToSet(list), saved[k] \notin ToSet(kept)
                PROVE  n - k >= ChatLimit
    BY DEF IsSound, MissesOnlyByOverlap
  <2>1. PICK i \in DOMAIN list : saved[k] = list[i]
    BY DEF ToSet
  <2>2. i <= d
    <3>1. ASSUME i > d PROVE i - d \in DOMAIN kept /\ kept[i - d] = list[i]
      BY <1>1, <1>3, <1>4, <3>1
    <3>. QED BY <1>1, <2>1, <3>1 DEF ToSet
  <2>3. n - k >= Len(list) - i
    <3>1. Len(list) \in DOMAIN list /\ i <= Len(list) /\ n \in 1..n
      BY <1>1
    <3>. QED BY <2>1, <3>1 DEF IsSound, IsSpaced
  <2>. QED BY <1>1, <1>2, <2>2, <2>3, ChatAssumption
<1>. QED BY <1>1, <1>3, <1>5, <1>6, <1>7 DEF IsSound, kept

LEMMA ChatInvInit == ChatInit => ChatInv
<1>. SUFFICES ASSUME ChatInit PROVE ChatInv
  OBVIOUS
<1>1. /\ <<>> \in Seq(Turns) /\ <<>> \in Seq(Turns \cup Questions)
      /\ ToSet(<<>>) = {} /\ Len(<<>>) = 0 /\ DOMAIN <<>> = {}
  BY DEF ToSet
<1>2. Unasked \in TurnRecords /\ NoChatLoad \in ChatLoadRecords
  BY <1>1 DEF Unasked, NoChatLoad, TurnRecords, TurnStates, ChatLoadRecords
<1>3. /\ \A t \in Turns : turn[t].state = "unasked"
      /\ \A l \in ChatLoads : chatLoad[l].read = <<>>
  BY DEF ChatInit, Unasked, NoChatLoad
<1>4. IsSound(<<>>, 0, ReadAt, <<>>)
  BY <1>1 DEF IsSound, IsSpaced, MissesOnlyByOverlap
<1>5. ChatTypes
  BY <1>1, <1>2 DEF ChatInit, ChatTypes
<1>6. SavedOnce
  BY <1>1, <1>3 DEF ChatInit, SavedOnce
<1>7. ReadingsAreSound
  BY <1>1, <1>3, <1>4 DEF ChatInit, ReadingsAreSound
<1>8. ShownIsSaved
  BY <1>1, <1>3 DEF ChatInit, ShownIsSaved
<1>. QED BY <1>5, <1>6, <1>7, <1>8 DEF ChatInv

\* A turn moves on, and neither joins the turns saved nor, if it is one, changes its reading.
LEMMA TurnMoves ==
    ASSUME ChatInv, NEW t \in Turns, NEW r \in TurnRecords,
           turn' = [turn EXCEPT ![t] = r], UNCHANGED <<chat, order>>,
           r.state \in {"answered", "heard"} <=> turn[t].state \in {"answered", "heard"},
           r.readAt = turn[t].readAt \/ t \notin ToSet(order),
           r.state = "thinking" => IsSound(order, r.readAt, ReadAt, r.read)
    PROVE  turn' \in [Turns -> TurnRecords] /\ SavedOnce' /\ ReadingsAreSound'
<1>1. /\ turn' \in [Turns -> TurnRecords] /\ turn'[t] = r
      /\ \A u \in Turns \ {t} : turn'[u] = turn[u]
  BY DEF ChatInv, ChatTypes
<1>2. SavedOnce'
  BY <1>1 DEF ChatInv, SavedOnce
<1>3. /\ order \in Seq(Turns) /\ Len(order) \in Nat /\ DOMAIN order = 1..Len(order)
      /\ order' = order /\ chat' = chat
  BY DEF ChatInv, ChatTypes
<1>4. \A k \in 1..Len(order) : ReadAt'[order[k]] = ReadAt[order[k]]
  <2>1. \A u \in Turns : u \in ToSet(order) => turn'[u].readAt = turn[u].readAt
    BY <1>1
  <2>2. \A k \in 1..Len(order) : order[k] \in Turns /\ order[k] \in ToSet(order)
    BY <1>3 DEF ToSet
  <2>. QED BY <2>1, <2>2 DEF ReadAt
<1>5. ASSUME NEW n, NEW list, IsSound(order, n, ReadAt, list) PROVE IsSound(order', n, ReadAt', list)
  <2>1. Len(order) <= Len(order)
    BY <1>3
  <2>. QED BY <1>3, <1>4, <1>5, <2>1, SoundStays
<1>6. IsSound(order', Len(order'), ReadAt', chat')
  BY <1>3, <1>5 DEF ChatInv, ReadingsAreSound
<1>7. ASSUME NEW u \in Turns, turn'[u].state = "thinking"
      PROVE  IsSound(order', turn'[u].readAt, ReadAt', turn'[u].read)
  BY <1>1, <1>5, <1>7 DEF ChatInv, ReadingsAreSound
<1>8. ReadingsAreSound'
  BY <1>6, <1>7 DEF ReadingsAreSound
<1>. QED BY <1>1, <1>2, <1>8

LEMMA ReadsForTurnKeeps == ASSUME ChatInv, NEW t \in Turns, ReadsForTurn(t) PROVE ChatInv'
<1>. DEFINE r == [state |-> "thinking", read |-> chat, readAt |-> Len(order)]
<1>1. ChatTypes /\ Len(order) \in Nat
  BY DEF ChatInv, ChatTypes
<1>2. r \in TurnRecords
  BY <1>1 DEF ChatTypes, TurnRecords, TurnStates
<1>3. turn[t].state \in {"asked", "unasked"} /\ t \notin ToSet(order)
  BY DEF ReadsForTurn, ChatInv, SavedOnce
<1>4. /\ turn' = [turn EXCEPT ![t] = r]
      /\ UNCHANGED <<chat, order, chatLoad, shownChat>>
  BY DEF ReadsForTurn
<1>5. IsSound(order, r.readAt, ReadAt, r.read) /\ r.state = "thinking"
  BY DEF ChatInv, ReadingsAreSound
<1>. HIDE DEF r
<1>6. turn' \in [Turns -> TurnRecords] /\ SavedOnce' /\ ReadingsAreSound'
  BY <1>2, <1>3, <1>4, <1>5, TurnMoves
<1>7. \A u \in Turns : turn'[u].state = "answered" => turn'[u] = turn[u]
  BY <1>1, <1>4, <1>5 DEF ChatTypes
<1>8. ShownIsSaved'
  BY <1>4, <1>7 DEF ChatInv, ShownIsSaved
<1>. QED BY <1>1, <1>4, <1>6, <1>8 DEF ChatInv, ChatTypes

\* A refusal, a question put and an answer heard change the state of a turn alone.
LEMMA StateMoves ==
    ASSUME ChatInv, NEW t \in Turns, NEW s \in TurnStates,
           turn' = [turn EXCEPT ![t].state = s], UNCHANGED <<chat, order, chatLoad>>,
           s \in {"answered", "heard"} <=> turn[t].state \in {"answered", "heard"},
           s \notin {"thinking", "answered"},
           shownChat' \in Seq(Turns \cup Questions),
           ToSet(shownChat') \cap Turns \subseteq ToSet(order)
    PROVE  ChatInv'
<1>. DEFINE r == [turn[t] EXCEPT !.state = s]
<1>1. ChatTypes
  BY DEF ChatInv
<1>2. /\ r \in TurnRecords /\ r.state = s /\ r.readAt = turn[t].readAt
      /\ turn' = [turn EXCEPT ![t] = r]
  BY <1>1 DEF ChatTypes, TurnRecords
<1>. HIDE DEF r
<1>3. turn' \in [Turns -> TurnRecords] /\ SavedOnce' /\ ReadingsAreSound'
  BY <1>2, TurnMoves
<1>4. \A u \in Turns : turn'[u].state = "answered" => turn'[u] = turn[u]
  BY <1>1, <1>2 DEF ChatTypes
<1>5. ShownIsSaved'
  BY <1>4 DEF ChatInv, ShownIsSaved
<1>. QED BY <1>1, <1>3, <1>5 DEF ChatInv, ChatTypes

LEMMA AnswersTurnKeeps == ASSUME ChatInv, NEW t \in Turns, AnswersTurn(t) PROVE ChatInv'
<1>. DEFINE full == Append(turn[t].read, t)
            r == [turn[t] EXCEPT !.state = "answered", !.read = full]
            n == Len(order) + 1
<1>1. /\ ChatTypes /\ turn[t] \in TurnRecords /\ turn[t].state = "thinking"
      /\ t \notin ToSet(order)
  BY DEF AnswersTurn, ChatInv, ChatTypes, SavedOnce
<1>2. /\ order \in Seq(Turns) /\ Len(order) \in Nat /\ DOMAIN order = 1..Len(order)
      /\ turn[t].read \in Seq(Turns)
  BY <1>1 DEF ChatTypes, TurnRecords
<1>3. /\ full \in Seq(Turns) /\ Len(full) = Len(turn[t].read) + 1 /\ full[Len(full)] = t
      /\ Len(full) > 0
  BY <1>2
<1>4. /\ turn' = [turn EXCEPT ![t] = r] /\ r.state = "answered" /\ r.read = full
      /\ r.readAt = turn[t].readAt /\ r \in TurnRecords
  BY <1>1, <1>3 DEF AnswersTurn, TurnRecords, TurnStates
<1>5. /\ turn' \in [Turns -> TurnRecords] /\ turn'[t] = r
      /\ \A u \in Turns \ {t} : turn'[u] = turn[u]
  BY <1>1, <1>4 DEF ChatTypes
<1>6. order' = Append(order, t) /\ chat' = Kept(full) /\ UNCHANGED <<chatLoad, shownChat>>
  BY <1>4, <1>5 DEF AnswersTurn
<1>. HIDE DEF r
<1>7. /\ order' \in Seq(Turns) /\ Len(order') = n /\ DOMAIN order' = 1..n /\ order'[n] = t
      /\ n > 0 /\ Len(order) <= Len(order')
      /\ \A k \in 1..Len(order) : order'[k] = order[k]
  BY <1>2, <1>6
<1>8. /\ \A i, j \in DOMAIN order' : order'[i] = order'[j] => i = j
      /\ ToSet(order') = ToSet(order) \cup {t}
  <2>1. \A k \in 1..Len(order) : order[k] # t
    BY <1>1, <1>2 DEF ToSet
  <2>2. \A k \in 1..n : k \in 1..Len(order) \/ k = n
    BY <1>2
  <2>3. \A k \in 1..Len(order) : k \in 1..n
    BY <1>2
  <2>4. n \in 1..n
    BY <1>2
  <2>5. \A i, j \in DOMAIN order' : order'[i] = order'[j] => i = j
    BY <1>2, <1>7, <2>1, <2>2 DEF ChatInv, SavedOnce
  <2>. HIDE DEF n
  <2>6. ToSet(order') = ToSet(order) \cup {t}
    BY <1>2, <1>7, <2>2, <2>3, <2>4 DEF ToSet
  <2>. QED BY <2>5, <2>6
<1>9. SavedOnce'
  BY <1>4, <1>5, <1>8 DEF ChatInv, SavedOnce
<1>10. \A k \in 1..Len(order) : ReadAt'[order[k]] = ReadAt[order[k]]
  <2>1. \A u \in Turns : turn'[u].readAt = turn[u].readAt
    BY <1>4, <1>5
  <2>2. \A k \in 1..Len(order) : order[k] \in Turns
    BY <1>2
  <2>. QED BY <2>1, <2>2 DEF ReadAt
<1>11. ReadAt' = ReadAt /\ ReadAt[t] = turn[t].readAt
  BY <1>4, <1>5 DEF ReadAt
<1>12. IsSound(order', n, ReadAt', full)
  <2>1. IsSound(order, ReadAt[t], ReadAt, turn[t].read)
    BY <1>1, <1>11 DEF ChatInv, ReadingsAreSound
  <2>2. \A k, m \in DOMAIN order : order[k] = order[m] => k = m
    BY DEF ChatInv, SavedOnce
  <2>3. IsSound(Append(order, t), Len(order) + 1, ReadAt, Append(turn[t].read, t))
    BY <1>1, <1>2, <2>1, <2>2, SoundAnswer
  <2>. QED BY <1>6, <1>11, <2>3
<1>. HIDE DEF full
<1>13. IsSound(order', Len(order'), ReadAt', chat')
  BY <1>3, <1>6, <1>7, <1>12, SoundKept
<1>14. ASSUME NEW u \in Turns, turn'[u].state = "thinking"
       PROVE  IsSound(order', turn'[u].readAt, ReadAt', turn'[u].read)
  <2>1. turn'[u] = turn[u] /\ IsSound(order, turn[u].readAt, ReadAt, turn[u].read)
    BY <1>4, <1>5, <1>14 DEF ChatInv, ReadingsAreSound
  <2>. QED BY <1>2, <1>7, <1>10, <2>1, SoundStays
<1>15. ReadingsAreSound'
  BY <1>13, <1>14 DEF ReadingsAreSound
<1>16. ToSet(full) \subseteq ToSet(order')
  BY <1>7, <1>12 DEF IsSound, ToSet
<1>17. ShownIsSaved'
  BY <1>4, <1>5, <1>6, <1>8, <1>16 DEF ChatInv, ShownIsSaved
<1>18. chat' \in Seq(Turns)
  BY <1>13 DEF IsSound
<1>. QED BY <1>1, <1>5, <1>6, <1>7, <1>9, <1>15, <1>17, <1>18 DEF ChatInv, ChatTypes

LEMMA AsksKeeps == ASSUME ChatInv, NEW t \in Turns, Asks(t) PROVE ChatInv'
<1>1. /\ t \in OwnTurns /\ turn[t].state = "unasked"
      /\ turn' = [turn EXCEPT ![t].state = "asked"]
      /\ shownChat' = Append(shownChat, <<"question", t>>)
      /\ UNCHANGED <<chat, order, chatLoad>>
  BY DEF Asks
<1>2. /\ shownChat \in Seq(Turns \cup Questions)
      /\ <<"question", t>> \in Turns \cup Questions /\ <<"question", t>> \notin Turns
  BY <1>1, ChatAssumption DEF ChatInv, ChatTypes, Questions
<1>. DEFINE q == <<"question", t>>
<1>. HIDE DEF q
<1>3. /\ Append(shownChat, q) \in Seq(Turns \cup Questions)
      /\ ToSet(Append(shownChat, q)) = ToSet(shownChat) \cup {q}
  <2>1. shownChat \in Seq(Turns \cup Questions) /\ q \in Turns \cup Questions
    BY <1>2 DEF q
  <2>2. /\ Append(shownChat, q) \in Seq(Turns \cup Questions)
        /\ DOMAIN shownChat = 1..Len(shownChat) /\ Len(shownChat) \in Nat
        /\ DOMAIN Append(shownChat, q) = 1..Len(shownChat) + 1
        /\ Append(shownChat, q)[Len(shownChat) + 1] = q
        /\ \A i \in 1..Len(shownChat) : Append(shownChat, q)[i] = shownChat[i]
    BY <2>1
  <2>3. 1..Len(shownChat) + 1 = 1..Len(shownChat) \cup {Len(shownChat) + 1}
    BY <2>2
  <2>. QED BY <2>2, <2>3 DEF ToSet
<1>4. ToSet(shownChat') \cap Turns \subseteq ToSet(order)
  BY <1>1, <1>2, <1>3 DEF ChatInv, ShownIsSaved, q
<1>5. shownChat' \in Seq(Turns \cup Questions)
  BY <1>1, <1>3 DEF q
<1>. QED BY <1>1, <1>4, <1>5, StateMoves DEF TurnStates

LEMMA HearsKeeps == ASSUME ChatInv, NEW t \in Turns, Hears(t) PROVE ChatInv'
<1>. DEFINE s == IF turn[t].state = "answered" THEN "heard" ELSE "dropped"
<1>1. /\ turn' = [turn EXCEPT ![t].state = s] /\ turn[t].state \in {"answered", "refused"}
      /\ shownChat' = IF turn[t].state = "answered" THEN turn[t].read ELSE shownChat
      /\ UNCHANGED <<chat, order, chatLoad>>
  BY DEF Hears, ChatInv, ChatTypes
<1>2. /\ s \in TurnStates /\ s \notin {"thinking", "answered"}
      /\ s \in {"answered", "heard"} <=> turn[t].state \in {"answered", "heard"}
  BY <1>1 DEF TurnStates
<1>. HIDE DEF s
<1>3. shownChat \in Seq(Turns \cup Questions) /\ turn[t].read \in Seq(Turns)
  BY DEF ChatInv, ChatTypes, TurnRecords
<1>4. shownChat' \in Seq(Turns \cup Questions)
  BY <1>1, <1>3
<1>5. ToSet(shownChat') \cap Turns \subseteq ToSet(order)
  BY <1>1 DEF ChatInv, ShownIsSaved
<1>. QED BY <1>1, <1>2, <1>4, <1>5, StateMoves

LEMMA LoadsChatKeeps == ASSUME ChatInv, NEW k \in ChatLoads, LoadsChat(k) PROVE ChatInv'
<1>1. ChatTypes /\ UNCHANGED <<chat, turn, order>>
  BY DEF ChatInv, LoadsChat, rowVars
<1>2. chatLoad[k] \in ChatLoadRecords /\ ToSet(<<>>) = {} /\ <<>> \in Seq(Turns)
  BY <1>1 DEF ChatTypes, ToSet
<1>3. ToSet(chat) \subseteq ToSet(order)
  <2>1. /\ \A i \in DOMAIN chat : \E j \in 1..Len(order) : chat[i] = order[j]
        /\ DOMAIN order = 1..Len(order)
    BY <1>1 DEF ChatInv, ReadingsAreSound, IsSound, ChatTypes
  <2>. QED BY <2>1 DEF ToSet
<1>4. \E r \in ChatLoadRecords :
        chatLoad' = [chatLoad EXCEPT ![k] = r] /\ ToSet(r.read) \subseteq ToSet(order)
  <2>1. CASE chatLoad' = [chatLoad EXCEPT ![k].phase = "sent"]
    <3>. DEFINE r == [chatLoad[k] EXCEPT !.phase = "sent"]
    <3>1. /\ r \in ChatLoadRecords /\ r.read = chatLoad[k].read
          /\ chatLoad' = [chatLoad EXCEPT ![k] = r]
      BY <1>1, <1>2, <2>1 DEF ChatTypes, ChatLoadRecords
    <3>. HIDE DEF r
    <3>. QED BY <3>1 DEF ChatInv, ShownIsSaved
  <2>2. CASE chatLoad' = [chatLoad EXCEPT ![k] = [phase |-> "answered", read |-> chat]]
    <3>1. [phase |-> "answered", read |-> chat] \in ChatLoadRecords
      BY <1>1 DEF ChatTypes, ChatLoadRecords
    <3>. QED BY <1>3, <2>2, <3>1
  <2>3. CASE chatLoad' = [chatLoad EXCEPT ![k] = NoChatLoad]
    <3>1. NoChatLoad \in ChatLoadRecords /\ NoChatLoad.read = <<>>
      BY <1>2 DEF NoChatLoad, ChatLoadRecords
    <3>. QED BY <1>2, <2>3, <3>1
  <2>. QED BY <2>1, <2>2, <2>3 DEF LoadsChat
<1>5. /\ chatLoad' \in [ChatLoads -> ChatLoadRecords]
      /\ \A l \in ChatLoads : ToSet(chatLoad'[l].read) \subseteq ToSet(order)
  BY <1>1, <1>4 DEF ChatInv, ChatTypes, ShownIsSaved
<1>6. /\ shownChat' \in Seq(Turns \cup Questions)
      /\ ToSet(shownChat') \cap Turns \subseteq ToSet(order)
  <2>1. shownChat' = shownChat \/ shownChat' = chatLoad[k].read
    BY DEF LoadsChat
  <2>2. chatLoad[k].read \in Seq(Turns) /\ ToSet(chatLoad[k].read) \subseteq ToSet(order)
    BY <1>2 DEF ChatLoadRecords, ChatInv, ShownIsSaved
  <2>3. chatLoad[k].read \in Seq(Turns \cup Questions)
    BY <2>2
  <2>. QED BY <1>1, <2>1, <2>2, <2>3 DEF ChatTypes, ChatInv, ShownIsSaved
<1>7. SavedOnce' /\ ReadingsAreSound'
  BY <1>1 DEF ChatInv, SavedOnce, ReadingsAreSound, ReadAt
<1>. QED BY <1>1, <1>5, <1>6, <1>7 DEF ChatInv, ChatTypes, ShownIsSaved

LEMMA ChatInvStep == ChatInv /\ [ChatNext]_chatVars => ChatInv'
<1>. SUFFICES ASSUME ChatInv, [ChatNext]_chatVars PROVE ChatInv'
  OBVIOUS
<1>1. ASSUME NEW t \in Turns, RefusesTurn(t) PROVE ChatInv'
  <2>1. /\ turn' = [turn EXCEPT ![t].state = "refused"] /\ turn[t].state = "thinking"
        /\ UNCHANGED <<chat, order, chatLoad, shownChat>>
    BY <1>1 DEF RefusesTurn
  <2>2. /\ shownChat' \in Seq(Turns \cup Questions)
        /\ ToSet(shownChat') \cap Turns \subseteq ToSet(order)
    BY <2>1 DEF ChatInv, ChatTypes, ShownIsSaved
  <2>. QED BY <2>1, <2>2, StateMoves DEF TurnStates
<1>2. CASE UNCHANGED chatVars
  BY <1>2 DEF chatVars, rowVars, ChatInv, ChatTypes, SavedOnce, ReadingsAreSound, ReadAt, ShownIsSaved
<1>. QED
  BY <1>1, <1>2, ReadsForTurnKeeps, AnswersTurnKeeps, AsksKeeps, HearsKeeps, LoadsChatKeeps
     DEF ChatNext

\* A turn's place in the history is where it stands there.
LEMMA PlaceIs == ASSUME ChatInv, NEW k \in DOMAIN order PROVE Place(order[k]) = k
BY DEF ChatInv, SavedOnce, Place

LEMMA ChatLosesOnlyByOverlap == ChatInv => ChatLostOnlyByOverlap
<1>. SUFFICES ASSUME ChatInv PROVE ChatLostOnlyByOverlap
  OBVIOUS
<1>1. /\ order \in Seq(Turns) /\ DOMAIN order = 1..Len(order) /\ Len(order) \in Nat
      /\ chat \in Seq(Turns) /\ DOMAIN chat = 1..Len(chat) /\ Len(chat) \in Nat
      /\ IsSound(order, Len(order), ReadAt, chat)
  BY DEF ChatInv, ChatTypes, ReadingsAreSound
<1>2. ASSUME NEW t \in ToSet(order) \ ToSet(chat)
      PROVE  \/ \E u \in ToSet(order) : Place(u) > Place(t) /\ turn[u].readAt < Place(t)
             \/ Len(order) - Place(t) >= ChatLimit
  <2>1. PICK k \in DOMAIN order : t = order[k]
    BY DEF ToSet
  <2>2. Place(t) = k
    BY <2>1, PlaceIs
  <2>3. CASE Overlapped(order, Len(order), ReadAt, k)
    <3>1. PICK m \in 1..Len(order) : m > k /\ ReadAt[order[m]] < k
      BY <2>3 DEF Overlapped
    <3>2. /\ order[m] \in ToSet(order) /\ order[m] \in Turns /\ Place(order[m]) = m
          /\ turn[order[m]].readAt < k
      BY <1>1, <3>1, PlaceIs DEF ToSet, ReadAt
    <3>. QED BY <2>2, <3>1, <3>2
  <2>. QED BY <1>1, <2>1, <2>2, <2>3 DEF IsSound, MissesOnlyByOverlap
<1>3. ASSUME NEW i \in DOMAIN chat, NEW j \in DOMAIN chat, i < j
      PROVE  Place(chat[i]) < Place(chat[j])
  <2>1. PICK k \in 1..Len(order), m \in 1..Len(order) : chat[i] = order[k] /\ chat[j] = order[m]
    BY <1>1 DEF IsSound
  <2>2. i <= j /\ j - i > 0
    BY <1>1, <1>3
  <2>3. m - k >= j - i
    BY <1>1, <2>1, <2>2 DEF IsSound, IsSpaced
  <2>4. Place(chat[i]) = k /\ Place(chat[j]) = m
    BY <1>1, <2>1, PlaceIs
  <2>. QED BY <1>1, <2>2, <2>3, <2>4
<1>. QED BY <1>2, <1>3 DEF ChatLostOnlyByOverlap, ChatInv, ShownIsSaved

-----------------------------------------------------------------------------
(***************************************************************************)
(* The client mounts one page and leaves the others as they are.           *)
(***************************************************************************)
LEMMA PagesStep ==
    [Next]_vars => [ProductNext]_productVars /\ [ChatNext]_chatVars /\ [CatalogNext]_catalogVars
BY DEF Next, OnProduct, OnChat, OnCatalog, vars

(***************************************************************************)
(* An attempt that the product's page shows as sent has its message beside *)
(* it, however the page's loads overlap and whatever fails.                *)
(***************************************************************************)
THEOREM SentShownWithMessage == Spec => []SettledShowsMessage
<1>1. Init => ProductInv
  BY ProductInvInit DEF Init
<1>2. ProductInv /\ [Next]_vars => ProductInv'
  BY ProductInvStep, PagesStep
<1>3. ProductInv => SettledShowsMessage
  BY DEF ProductInv, HaveMessages, SettledShowsMessage
<1>. QED BY <1>1, <1>2, <1>3, PTL DEF Spec

(***************************************************************************)
(* The catalogue misses products only if the load that brought it was sent *)
(* before the search was over, for any number of processors at it.         *)
(***************************************************************************)
THEOREM CatalogueShortIsEarly == Spec => []CatalogueShortOnlyIfEarly
<1>1. Init => CatalogInv
  BY CatalogInvInit DEF Init
<1>2. CatalogInv /\ [Next]_vars => CatalogInv'
  BY CatalogInvStep, PagesStep
<1>3. CatalogInv => CatalogueShortOnlyIfEarly
  BY DEF CatalogInv, CatalogueShortOnlyIfEarly
<1>. QED BY <1>1, <1>2, <1>3, PTL DEF Spec

(***************************************************************************)
(* Of the product's chat only overlapping questions and the limit lose     *)
(* turns, however many are asked together and in whatever order they are   *)
(* read, answered, refused and shown.                                      *)
(***************************************************************************)
THEOREM TurnsLostOnlyByOverlap == Spec => []ChatLostOnlyByOverlap
<1>1. Init => ChatInv
  BY ChatInvInit DEF Init
<1>2. ChatInv /\ [Next]_vars => ChatInv'
  BY ChatInvStep, PagesStep
<1>. QED BY <1>1, <1>2, ChatLosesOnlyByOverlap, PTL DEF Spec

=============================================================================
