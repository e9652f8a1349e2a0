-------------------------- MODULE SearchProviders --------------------------
(***************************************************************************)
(* The search providers (search_providers.py) and what becomes of their    *)
(* candidates (sourcing.py).  A provider is its answer: "raises", or       *)
(* success, candidates, errors and context.  A text is the set of the      *)
(* words found in it; scores are in ten-thousandths.                       *)
(***************************************************************************)
EXTENDS Integers, Sequences, SequencesExt, FiniteSets, FiniteSetsExt, Lists

Raises == [raises |-> TRUE, success |-> FALSE, candidates |-> <<>>, errors |-> <<>>,
           context |-> {}]

Refuses == [Raises EXCEPT !.raises = FALSE]

NothingFound(errors) == [Refuses EXCEPT !.errors = errors]

-----------------------------------------------------------------------------
\* The public provider: the links of one page, until there are enough.

\* A link counts if it has a label of four letters and leads to a public page.
IsCandidate(link) == link.labelled /\ link.public

\* The number is tested after a link is taken: one is taken even of none asked for.
CandidatesOf(page, maxResults) ==
    LET usable == SelectSeq(page.links, IsCandidate)
    IN  SubSeq(usable, 1, Min({Len(usable), Max({1, maxResults})}))

(***************************************************************************)
(* Only the fetch is guarded.  A labelled link that cannot be parsed as a  *)
(* URL raises while the page is read, unless enough were taken before it.  *)
(* A page with filters and no products is a success without candidates.    *)
(***************************************************************************)
PublicSearch(page, maxResults) ==
    LET found == CandidatesOf(page, maxResults)
        IsReached(i) ==
            Len(SelectSeq(SubSeq(page.links, 1, i - 1), IsCandidate)) < Max({1, maxResults})
    IN  CASE ~page.allowed \/ ~page.fetched -> Refuses
          [] page.allowed /\ page.fetched
             /\ \E i \in DOMAIN page.links :
                    IsReached(i) /\ page.links[i].labelled /\ page.links[i].malformed -> Raises
          [] OTHER ->
               [Refuses EXCEPT !.success = found # <<>> \/ page.filters # {},
                               !.candidates = found, !.context = page.filters]

\* The general provider: the first results of a web search.  Only the search is guarded.
WebSearch(answer, maxResults) ==
    LET found == SubSeq(answer.found, 1, Min({Len(answer.found), maxResults}))
    IN  CASE answer.raises -> Refuses
          [] ~answer.raises /\ Contains(found, "malformed") -> Raises
          [] OTHER -> [Refuses EXCEPT !.success = found # <<>>, !.candidates = found]

-----------------------------------------------------------------------------
\* The router.

\* Mutant: a success without candidates ends the search.
IsSuccess(result) == result.success

IsUsable(result) == result.success /\ result.candidates # <<>>

Decides(i, results) == results[i].raises \/ IsUsable(results[i])

(***************************************************************************)
(* The first usable answer, with an error for each provider asked before,  *)
(* and nothing of what those gave; an exception of a provider is the       *)
(* router's own.                                                           *)
(***************************************************************************)
Route(results) ==
    LET deciding == {i \in DOMAIN results : Decides(i, results)}
        Failed(n) == [i \in 1..n |-> i]
    IN  IF deciding = {} THEN NothingFound(Failed(Len(results)))
        ELSE LET i == Min(deciding)
             IN  [results[i] EXCEPT !.errors = Failed(i - 1) \o @]

-----------------------------------------------------------------------------
(***************************************************************************)
(* ProductFitEvaluator: which requirements of the intent the product's     *)
(* text bears out.  A requirement of mustHave is looked for as a piece of  *)
(* the text, a certification as a word of it.                              *)
(***************************************************************************)
Makers == {"manufacturer", "factory", "oem", "odm"}

WantsMaker(intent) == intent.preference = "manufacturer_first"

Named(intent) == intent.mustHave \o intent.certifications

\* An entry that says nothing is no requirement.
Blank == ""

Wanted(intent) == ToSet(Named(intent)) \ {Blank}

\* What the evaluator itself adds to the requirements of a request.
NoMaker == "no manufacturer/factory evidence"
MakerFirst == "manufacturer-first supplier"
Customization == "customization support"

\* Mutant: a certification that is missing is not reported.
MissingOfMustHave(intent, product) ==
    Among(intent.mustHave, Wanted(intent) \ product.text)

Missing(intent, product) ==
    (IF WantsMaker(intent) /\ product.text \cap Makers = {} THEN <<NoMaker>> ELSE <<>>)
        \o Among(Named(intent), Wanted(intent) \ product.text)

IsCustomised(product) == product.customised \/ "custom" \in product.badges

Matched(intent, product) ==
    (IF WantsMaker(intent) /\ product.text \cap Makers # {} THEN <<MakerFirst>> ELSE <<>>)
        \o Among(Named(intent), Wanted(intent) \cap product.text)
        \o (IF IsCustomised(product) THEN <<Customization>> ELSE <<>>)

CountIn(wanted, product) ==
    Cardinality({i \in DOMAIN wanted : wanted[i] # Blank /\ wanted[i] \in product.text})

FitScore(intent, product) ==
    Min({10000,
         3500 + (IF WantsMaker(intent) /\ product.text \cap Makers # {} THEN 2000 ELSE 0)
              + 1000 * CountIn(intent.mustHave, product)
              + 800 * CountIn(intent.certifications, product)
              + (IF IsCustomised(product) THEN 800 ELSE 0)})

Summary(intent, product) ==
    CASE Matched(intent, product) = <<>> -> "limited"
      [] Matched(intent, product) # <<>> /\ Missing(intent, product) = <<>> -> "matches"
      [] OTHER -> "matches with missing"

=============================================================================
