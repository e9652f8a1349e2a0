--------------------------- MODULE AgentPolicies ---------------------------
(***************************************************************************)
(* What the agent makes of a model's answers (agent.py): the first message *)
(* to a supplier, the reply in a conversation, the draft of a contract,    *)
(* the operator's assistant, the analysis of a supplier's reply.           *)
(*                                                                         *)
(* A text is the set of marks the policies look for in it; {} is the empty *)
(* text.  A model's answer is what _completion_text makes of it, and {}    *)
(* also stands for a provider that raised where the code takes that for no *)
(* answer.  Text that is quoted brings its marks along.                    *)
(***************************************************************************)
EXTENDS Integers, Sequences, SequencesExt, FiniteSets, FiniteSetsExt

Raised == {"raised"}

Topics == {"product", "link", "price", "availability", "moq", "lead time", "payment", "delivery"}

\* Six of the topics make an outreach; _looks_like_initial_request has its own words for them.
OutreachTopics == Topics \ {"product", "link"}

Languages == {"ru", "en", "zh"}

Scripts == {"cyrillic", "latin", "cjk"}

NormalizeLanguage(language) == IF language \in Languages THEN language ELSE "ru"

\* An empty text has no language error; English is refused only if nothing of it is Latin.
InLanguage(text, language) ==
    \/ text = {}
    \/ language = "ru" /\ "cyrillic" \in text
    \/ language = "zh" /\ "cjk" \in text
    \/ language = "en" /\ ("cyrillic" \in text => "latin" \in text)

\* The answer, the corrected answer, the fallback, whichever first is good; else RuntimeError.
FirstGood(answers, good, fallback, permitted) ==
    CASE answers[1] \in good -> answers[1]
      [] answers[1] \notin good /\ answers[2] \in good -> answers[2]
      [] OTHER -> IF permitted THEN fallback ELSE Raised

-----------------------------------------------------------------------------
\* The first message.

Permitted(text) == "forbidden" \notin text

InitialValid(text, product) ==
    Permitted(text) /\ Topics \cup {product.id, product.url} \subseteq text

\* What a text has that names a product by its title and address.
Quoted(product) == product.marks \cup {product.id, product.url}

FallbackMessage(product, language) ==
    Quoted(product) \cup Topics \cup {"long", "latin"}
        \cup (CASE language = "ru" -> {"cyrillic"}
                [] language = "zh" -> {"cjk"}
                [] OTHER -> {})

\* The fallback is checked for its content and not for its language.
SupplierMessage(product, language, answers) ==
    LET chosen == NormalizeLanguage(language)
        fallback == FallbackMessage(product, chosen)
        good == {text \in Range(answers) :
                    InitialValid(text, product) /\ InLanguage(text, chosen)}
    IN  FirstGood(answers, good, fallback, InitialValid(fallback, product))

-----------------------------------------------------------------------------
\* The reply in a conversation; messages are in their order, each with a direction and a body.

LatestSupplierText(messages) ==
    LET inbound == SelectSeq(messages, LAMBDA m : m.direction = "inbound")
    IN  CASE inbound # <<>> -> Last(inbound).body
          [] inbound = <<>> /\ messages # <<>> -> Last(messages).body
          [] OTHER -> {}

RepeatsOutreach(text) == Cardinality(text \cap OutreachTopics) >= 5

FollowUpValid(text, messages) ==
    /\ Permitted(text)
    /\ "long" \in text
    /\ ~RepeatsOutreach(text)
    /\ "asks company" \in LatestSupplierText(messages) => "tells company" \in text

(***************************************************************************)
(* Only a question about the company is looked for in the latest message.  *)
(* The Russian text names the search of a supplier ("postavshchik"), whose *)
(* first letters count as the topic of lead time; the Chinese one has the  *)
(* topics in words the policy does not know.                               *)
(***************************************************************************)
FallbackReply(product, messages, language) ==
    LET script == CASE language = "ru" -> {"cyrillic"}
                    [] language = "zh" -> {"cjk"}
                    [] OTHER -> {}
        asked == "asks company" \in LatestSupplierText(messages)
    IN  Quoted(product) \cup script \cup {"long", "latin", "product", "link"}
            \cup (CASE asked -> {"tells company"} \cup
                                (IF language = "ru" THEN {"lead time"} ELSE {})
                    [] ~asked /\ language # "zh" -> {"price", "delivery"}
                    [] OTHER -> {})

SupplierReply(product, messages, language, answers) ==
    LET chosen == NormalizeLanguage(language)
        fallback == FallbackReply(product, messages, chosen)
        good == {text \in Range(answers) :
                    FollowUpValid(text, messages) /\ InLanguage(text, chosen)}
    IN  FirstGood(answers, good, fallback, FollowUpValid(fallback, messages))

-----------------------------------------------------------------------------
\* The draft of a contract.

\* validate_contract_draft_text.
DraftValid(text) == "draft" \in text /\ "unsafe" \notin text

QuotedMessages == 8

Bodies(messages) == UNION {messages[i].body : i \in DOMAIN messages}

\* Mutant: the fallback quotes the conversation from its beginning.
FallbackDraftOfAll(product, messages) ==
    {"draft"} \cup Quoted(product) \cup product.supplier \cup Bodies(messages)

\* What the last messages say is quoted as known terms.
FallbackDraft(product, messages) ==
    LET last == SubSeq(messages, Max({1, Len(messages) - QuotedMessages + 1}), Len(messages))
    IN  {"draft"} \cup Quoted(product) \cup product.supplier \cup Bodies(last)

(***************************************************************************)
(* An answer that is no JSON, lacks its text, or a provider that raises    *)
(* ("unusable") is replaced by the fallback; the text is validated after   *)
(* that, whoever wrote it, and a text refused then fails the draft.        *)
(***************************************************************************)
ContractDraft(product, messages, answer) ==
    LET text == IF answer = {"unusable"} \/ answer = {} THEN FallbackDraft(product, messages)
                ELSE answer
    IN  IF DraftValid(text) THEN text ELSE Raised

-----------------------------------------------------------------------------
\* The operator's assistant.

\* An echo of the prompt, or nothing that can be shown, is no answer.
Humanized(answer) == IF "echo" \in answer THEN {} ELSE answer

\* A Russian question needs an answer in Russian; nobody asks the operator to clarify.
NeedsRetry(answer, question) ==
    \/ "cyrillic" \in question /\ "cyrillic" \notin answer
    \/ "clarify" \in answer /\ question # {}

(***************************************************************************)
(* A provider that raises at the first question is reported as a           *)
(* RuntimeError, status 502; at the second nothing catches what it raises, *)
(* and Broken, an exception that is no RuntimeError, becomes status 500.   *)
(***************************************************************************)
Broken == {"broken"}

AssistantAnswer(question, answers) ==
    LET first == Humanized(answers[1])
        second == Humanized(answers[2])
        Failed(code) == [status |-> code, reply |-> {}]
    IN  CASE first \in {{}, Raised, Broken} -> Failed(502)
          [] first \notin {{}, Raised, Broken} /\ ~NeedsRetry(first, question) ->
               [status |-> 200, reply |-> first]
          [] OTHER ->
               IF second = Broken THEN Failed(500)
               ELSE IF second \in {{}, Raised} \/ NeedsRetry(second, question) THEN Failed(502)
               ELSE [status |-> 200, reply |-> second]

-----------------------------------------------------------------------------
(***************************************************************************)
(* The analysis of a supplier's reply: what the model says goes before     *)
(* what the heuristic found, field by field, if it is not empty.  A score  *)
(* that is no number falls back on the heuristic's; an infinite one is a   *)
(* float that int() refuses with an exception nobody handles.              *)
(***************************************************************************)
Bounded(score) == Max({0, Min({100, score})})

Terms == {"price", "currency", "moq", "lead time", "availability"}

\* A term that the text says nothing of.
NoTerm == ""

\* "Available" is looked for first, and is part of "not available"; "stock" of "out of stock".
HeuristicAvailability(text) ==
    CASE text \cap {"available", "stock"} # {} -> "available"
      [] text \cap {"available", "stock"} = {} /\ "none in stock" \in text -> "not available"
      [] OTHER -> NoTerm

\* 35 points, 12 for each of five commercial terms found, 10 for courtesy.
HeuristicAnalysis(text) ==
    LET found == [term \in Terms |->
                    CASE term = "availability" -> HeuristicAvailability(text)
                      [] term # "availability" /\ term \in text -> "found"
                      [] OTHER -> NoTerm]
        filled == Cardinality({t \in Terms : found[t] # NoTerm})
    IN  [raises |-> FALSE, terms |-> found,
         next |-> IF filled > 0 THEN "review" ELSE "request",
         score |-> Bounded(35 + 12 * filled + IF "courteous" \in text THEN 10 ELSE 0)]

Analysis(text, model) ==
    LET own == HeuristicAnalysis(text)
    IN  [own EXCEPT
            !.raises = model.score.kind = "infinite",
            !.terms = [t \in Terms |-> IF model.terms[t] # NoTerm THEN model.terms[t] ELSE @[t]],
            !.score = IF model.score.kind = "number" THEN Bounded(model.score.value) ELSE @]

=============================================================================
