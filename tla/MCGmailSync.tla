----------------------------- MODULE MCGmailSync -----------------------------
(***************************************************************************)
(* Instances of GmailSync: a mail whose sender is a contact of two         *)
(* products, a mail of one contact, a mail of that contact without any     *)
(* text, and a mail of a stranger; the loop and one endpoint call.         *)
(***************************************************************************)
EXTENDS GmailSync

CONSTANTS m1, m2, m3, m4, c1, c2, loop, endpoint

AllMails == {m1, m2, m3, m4}
MCContacts == {c1, c2}
MCSyncers == {loop, endpoint}
MCLoops == {loop}

Matches ==
    [m \in Mails |-> IF m = m1 THEN {c1, c2} ELSE IF m = m4 THEN {} ELSE {c1}]

WithMessageId == {m2, m3}

WithText == Mails \ {m3}

=============================================================================
