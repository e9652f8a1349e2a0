---------------------------- MODULE MCWebClient ----------------------------
(***************************************************************************)
(* Two loads under way together are enough for their answers to come in    *)
(* the wrong order.                                                        *)
(***************************************************************************)
EXTENDS WebClient

CONSTANTS own1, own2, other1

MCOwnTurns == {own1, own2}
MCOtherTurns == {other1}

=============================================================================
