----------------------------- MODULE ProductChat -----------------------------
(***************************************************************************)
(* The operator's chat about a product.  It is part of the product's row:  *)
(* a question is answered from the row as it was read before the model was *)
(* asked, and the whole row is written back.  A turn is a question with    *)
(* its answer; the page asks OwnTurns, another tab the other ones.  Loads  *)
(* of the page, for whatever reason it has for them, bring the chat too.   *)
(***************************************************************************)
EXTENDS Naturals, Sequences, SequencesExt

CONSTANTS
    OwnTurns,    \* turns of this page
    OtherTurns,  \* turns of another tab
    ChatLimit,   \* turns the row keeps: 40, of 80 messages
    ChatLoads    \* loads of the page that may be under way together

Turns == OwnTurns \cup OtherTurns

\* Some turns are kept; a question on the page is not a turn of the row.
ASSUME ChatAssumption ==
    /\ ChatLimit \in Nat \ {0}
    /\ \A t \in Turns : <<"question", t>> \notin Turns

VARIABLES
    chat,       \* the turns in the product's row
    turn,       \* turn[t]: how far a question is, what was read for it, then the answer
    order,      \* turns in the order of their saving (history)
    chatLoad,   \* chatLoad[l]: a load of the page, with the chat it read
    shownChat,  \* the chat the page shows: turns, and questions without an answer
    busy        \* the page waits for an answer

rowVars == <<chat, turn, order>>
chatVars == <<rowVars, chatLoad, shownChat, busy>>

Unasked == [state |-> "unasked", read |-> <<>>, readAt |-> 0]
NoChatLoad == [phase |-> "idle", read |-> <<>>]

ChatInit ==
    /\ chat = <<>> /\ order = <<>> /\ shownChat = <<>>
    /\ turn = [t \in Turns |-> Unasked]
    /\ chatLoad = [l \in ChatLoads |-> NoChatLoad]
    /\ busy = FALSE

-----------------------------------------------------------------------------
\* assistant-chat reads the row, waits for the model, saves the row.

ReadsForTurn(t) ==
    /\ \/ turn[t].state = "asked"
       \/ t \in OtherTurns /\ turn[t].state = "unasked"
    /\ turn' = [turn EXCEPT ![t] = [state |-> "thinking", read |-> chat, readAt |-> Len(order)]]
    /\ UNCHANGED <<chat, order, chatLoad, shownChat, busy>>

\* Mutant: the oldest messages are kept instead of the newest.
KeptOldest(turns) == SubSeq(turns, 1, IF Len(turns) < ChatLimit THEN Len(turns) ELSE ChatLimit)

Kept(turns) ==
    SubSeq(turns, IF Len(turns) > ChatLimit THEN Len(turns) - ChatLimit + 1 ELSE 1, Len(turns))

\* The answer carries the whole list, the row the part of it that is kept.
AnswersTurn(t) ==
    /\ turn[t].state = "thinking"
    /\ turn' = [turn EXCEPT ![t].state = "answered", ![t].read = Append(@, t)]
    /\ chat' = Kept(turn'[t].read)
    /\ order' = Append(order, t)
    /\ UNCHANGED <<chatLoad, shownChat, busy>>

\* The model raises or says nothing usable: a 502, and the question is not saved.
RefusesTurn(t) ==
    /\ turn[t].state = "thinking"
    /\ turn' = [turn EXCEPT ![t].state = "refused"]
    /\ UNCHANGED <<chat, order, chatLoad, shownChat, busy>>

-----------------------------------------------------------------------------
\* The page: a question is shown at once and stays if it is refused.

Asks(t) ==
    /\ ~busy
    /\ t \in OwnTurns /\ turn[t].state = "unasked"
    /\ turn' = [turn EXCEPT ![t].state = "asked"]
    /\ shownChat' = Append(shownChat, <<"question", t>>)
    /\ busy' = TRUE
    /\ UNCHANGED <<chat, order, chatLoad>>

Hears(t) ==
    /\ t \in OwnTurns /\ turn[t].state \in {"answered", "refused"}
    /\ turn' = [turn EXCEPT ![t].state = IF @ = "answered" THEN "heard" ELSE "dropped"]
    /\ shownChat' = IF turn[t].state = "answered" THEN turn[t].read ELSE shownChat
    /\ busy' = FALSE
    /\ UNCHANGED <<chat, order, chatLoad>>

\* A load shows the row as it was read for it, over whatever the page shows by then.
LoadsChat(l) ==
    /\ \/ /\ chatLoad[l].phase = "idle"
          /\ chatLoad' = [chatLoad EXCEPT ![l].phase = "sent"]
          /\ UNCHANGED shownChat
       \/ /\ chatLoad[l].phase = "sent"
          /\ chatLoad' = [chatLoad EXCEPT ![l] = [phase |-> "answered", read |-> chat]]
          /\ UNCHANGED shownChat
       \/ /\ chatLoad[l].phase = "answered"
          /\ shownChat' = chatLoad[l].read
          /\ chatLoad' = [chatLoad EXCEPT ![l] = NoChatLoad]
    /\ UNCHANGED <<rowVars, busy>>

ChatNext ==
    \/ \E t \in Turns :
        ReadsForTurn(t) \/ AnswersTurn(t) \/ RefusesTurn(t) \/ Asks(t) \/ Hears(t)
    \/ \E l \in ChatLoads : LoadsChat(l)

-----------------------------------------------------------------------------
\* Properties.

Place(t) == CHOOSE i \in DOMAIN order : order[i] = t

(***************************************************************************)
(* A turn that was answered is in the product's row, unless a turn saved   *)
(* later had read the row before it, or as many later ones as the row      *)
(* keeps pushed it out; the row has turns in the order of their saving;    *)
(* and the page shows no answer that was not saved                         *)
(* (product_assistant_chat, save_internal_assistant_messages,              *)
(* submitAssistantQuestion).                                               *)
(***************************************************************************)
ChatLostOnlyByOverlap ==
    /\ \A t \in ToSet(order) \ ToSet(chat) :
        \/ \E u \in ToSet(order) : Place(u) > Place(t) /\ turn[u].readAt < Place(t)
        \/ Len(order) - Place(t) >= ChatLimit
    /\ \A i, j \in DOMAIN chat : i < j => Place(chat[i]) < Place(chat[j])
    /\ ToSet(shownChat) \cap Turns \subseteq ToSet(order)

=============================================================================
