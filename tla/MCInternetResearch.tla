------------------------- MODULE MCInternetResearch -------------------------
(***************************************************************************)
(* An instance of InternetResearch: two queries to two engines, three URLs *)
(* that may be visited, one that may not and one that cannot be parsed;    *)
(* pages of every kind of product the visits tell apart.                   *)
(***************************************************************************)
EXTENDS InternetResearch

CONSTANTS u1, u2, u3, out

MCAllowed == {u1, u2, u3}

MCAnswers == {<<>>, <<u1, u2>>, <<u2, out, u3>>, <<u3, Malformed>>}

\* A choice, a URL chosen twice, and one that no engine gave.
MCPicks == {<<>>, <<u2, u2>>, <<u3, out>>, <<Malformed>>}

MCStartPages == {{}, {u1, u2, u3, out}, {u2, Malformed}}

Holds(contact, malformed) ==
    [contact |-> contact, malformed |-> malformed, fallback |-> FALSE]

MCPages ==
    {<<>>,
     <<Holds("none", FALSE)>>,
     <<Holds("reachable", FALSE), Holds("other", FALSE)>>,
     <<Holds("reachable", FALSE), Holds("none", TRUE)>>,
     <<Holds("other", TRUE)>>}

=============================================================================
