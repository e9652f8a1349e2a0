-------------------------------- MODULE Lists --------------------------------
(***************************************************************************)
(* What a list comprehension with a test keeps of a list, and a loop that  *)
(* passes over the elements that fail one.  It is SelectSeq with the test  *)
(* as a set, and by recursion over a function, so that facts about it can  *)
(* be proved (Lists_proofs).                                               *)
(***************************************************************************)
EXTENDS Integers, SequencesExt

\* The elements of list that are in wanted, in the order of the list.
Among(list, wanted) ==
    LET kept[n \in 0..Len(list)] ==
            IF n = 0 THEN <<>>
            ELSE IF list[n] \in wanted THEN Append(kept[n - 1], list[n])
            ELSE kept[n - 1]
    IN  kept[Len(list)]

=============================================================================
