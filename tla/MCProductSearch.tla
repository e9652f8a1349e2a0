--------------------------- MODULE MCProductSearch ---------------------------
(***************************************************************************)
(* Instances of ProductSearch.  Its tests are told apart by two products   *)
(* of one site, a product of another, a second finding of the first, one   *)
(* that does not pass validation, and two products of one company that is  *)
(* known at Made-in-China only.                                            *)
(***************************************************************************)
EXTENDS ProductSearch

CONSTANTS t1, w1

MCTasks == {t1}
MCWorkers == {w1}

Offer(url, supplier, platform, valid) ==
    [url |-> url, supplier |-> supplier, platform |-> platform, valid |-> valid]

A1 == Offer("u1", "a", "site", TRUE)
A2 == Offer("u2", "a", "site", TRUE)
B3 == Offer("u3", "b", "site", TRUE)
C4 == Offer("u4", "c", "made-in-china", TRUE)
C5 == Offer("u5", "c", "made-in-china", TRUE)
Bad == Offer("u6", "b", "site", FALSE)

\* The answers of a source; those of two processors overlap.
MCFindings == {<<>>, <<Bad>>, <<A1, A2, B3>>, <<A1, A1, C4>>, <<C5, C4>>}

=============================================================================
