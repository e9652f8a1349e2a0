----------------------------- MODULE ProductPage -----------------------------
(***************************************************************************)
(* The page of a product (ProductDetailsPage.tsx) and the handlers it      *)
(* talks to, as far as attempts and messages go; ProductChat has its chat. *)
(* A GET of the product reads the product's row, then its attempts, then   *)
(* its messages, each in a transaction of its own, while the worker writes *)
(* them; answers come back in any order.  A POST is answered at once.      *)
(***************************************************************************)
EXTENDS Naturals, Sequences, FiniteSets, Domain

CONSTANTS
    Loads,        \* loads of the page that may be under way together
    MaxAttempts,  \* bound: attempts made
    MaxInbound,   \* bound: messages of the supplier
    MaxFailures   \* bound: requests of the page that fail

ASSUME BoundsAssumption == MaxAttempts \in Nat /\ MaxInbound \in Nat

VARIABLES
    attempts,  \* the statuses of the product's attempts, oldest first
    messages,  \* the conversation: attempts whose message is recorded, and inbound ones
    load,      \* load[l]: a load of the page, with what was read for it
    shown,     \* what the page shows of the product
    loading,   \* the page shows a spinner
    error,     \* the page shows an error instead of the product
    gmail,     \* the sync of Gmail the page asks for when it opens
    failures   \* loads that failed

serverVars == <<attempts, messages>>
pageVars == <<loading, error>>
productVars == <<serverVars, load, shown, pageVars, gmail, failures>>

Idle == [phase |-> "idle", attempts |-> <<>>, messages |-> {}]

ProductInit ==
    /\ attempts = <<>> /\ messages = {}
    /\ \E l \in Loads :
         load = [k \in Loads |-> IF k = l THEN [Idle EXCEPT !.phase = "attempts"] ELSE Idle]
    /\ shown = [present |-> FALSE, attempts |-> <<>>, messages |-> {}]
    /\ loading = TRUE
    /\ error = FALSE
    /\ gmail = "asked"
    /\ failures = 0

-----------------------------------------------------------------------------
\* The server: the worker at an attempt, as SupplierContact has it with one processor.

HasActive(statuses) == \E i \in DOMAIN statuses : statuses[i] \in Active

Move(i, from, to) ==
    /\ attempts[i] = from
    /\ attempts' = [attempts EXCEPT ![i] = to]

Starts(i) == Move(i, "queued", "running") /\ UNCHANGED messages

\* The message that was sent is recorded before the attempt's row says so.
Records(i) ==
    /\ attempts[i] = "running" /\ i \notin messages
    /\ messages' = messages \cup {i}
    /\ UNCHANGED attempts

Settles(i) ==
    /\ \/ i \in messages /\ Move(i, "running", "sent")
       \/ i \notin messages /\ Move(i, "running", "failed")
    /\ UNCHANGED messages

Work ==
    /\ \E i \in DOMAIN attempts : Starts(i) \/ Records(i) \/ Settles(i)
    /\ UNCHANGED <<load, shown, pageVars, gmail, failures>>

-----------------------------------------------------------------------------
\* The page loads the product, then the contract drafts.

At(l, phase) == load[l].phase = phase

\* A load that is not silent shows a spinner; every one clears the error.
StartsLoad(silent) ==
    /\ \E l \in Loads :
         At(l, "idle") /\ load' = [load EXCEPT ![l] = [@ EXCEPT !.phase = "attempts"]]
    /\ error' = FALSE
    /\ loading' = (loading \/ ~silent)

\* Mutant: the messages are read before the attempts.
ReadsForLoadInTurn(l) ==
    /\ \/ /\ At(l, "attempts")
          /\ load' = [load EXCEPT ![l] = [@ EXCEPT !.phase = "messages", !.messages = messages]]
       \/ /\ At(l, "messages")
          /\ load' = [load EXCEPT ![l] = [@ EXCEPT !.phase = "answered", !.attempts = attempts]]
    /\ UNCHANGED <<serverVars, shown, pageVars, gmail, failures>>

ReadsForLoad(l) ==
    /\ \/ /\ At(l, "attempts")
          /\ load' = [load EXCEPT ![l] = [@ EXCEPT !.phase = "messages", !.attempts = attempts]]
       \/ /\ At(l, "messages")
          /\ load' = [load EXCEPT ![l] = [@ EXCEPT !.phase = "answered", !.messages = messages]]
    /\ UNCHANGED <<serverVars, shown, pageVars, gmail, failures>>

ShowsProduct(l) ==
    /\ At(l, "answered")
    /\ shown' = [present |-> TRUE, attempts |-> load[l].attempts, messages |-> load[l].messages]
    /\ load' = [load EXCEPT ![l] = [Idle EXCEPT !.phase = "drafts"]]
    /\ UNCHANGED <<serverVars, pageVars, gmail, failures>>

ShowsDrafts(l) ==
    /\ At(l, "drafts")
    /\ load' = [load EXCEPT ![l] = Idle]
    /\ loading' = FALSE
    /\ UNCHANGED <<serverVars, shown, error, gmail, failures>>

\* Either request fails: the page shows the error and nothing else.
LoadFails(l) ==
    /\ ~At(l, "idle")
    /\ failures < MaxFailures
    /\ failures' = failures + 1
    /\ load' = [load EXCEPT ![l] = Idle]
    /\ error' = TRUE
    /\ loading' = FALSE
    /\ UNCHANGED <<serverVars, shown, gmail>>

LoadStep(l) == ReadsForLoad(l) \/ ShowsProduct(l) \/ ShowsDrafts(l)

\* Mutant: an error ends the polling.
PollsUnlessFailed ==
    /\ shown.present /\ HasActive(shown.attempts) /\ ~error
    /\ StartsLoad(TRUE)
    /\ UNCHANGED <<serverVars, shown, gmail, failures>>

\* The timer runs while the page shows an attempt under way, error or not.
Polls ==
    /\ shown.present /\ HasActive(shown.attempts)
    /\ StartsLoad(TRUE)
    /\ UNCHANGED <<serverVars, shown, gmail, failures>>

-----------------------------------------------------------------------------
\* The page's user, who sees the product unless it loads or failed to.

Usable == shown.present /\ ~loading /\ ~error

\* Messages of the supplier are numbered after those of the attempts.
Inbound == MaxAttempts + 1 .. MaxAttempts + MaxInbound

Receives == \E m \in Inbound \ messages : messages' = messages \cup {m}

\* "Contact" and, once there is an inbound message, "reply"; the server refuses
\* both while an attempt is under way.
Submits ==
    /\ Usable /\ ~HasActive(shown.attempts)
    /\ Len(attempts) < MaxAttempts /\ ~HasActive(attempts)
    /\ attempts' = Append(attempts, "queued")
    /\ StartsLoad(FALSE)
    /\ UNCHANGED <<messages, shown, gmail, failures>>

\* The reply of the supplier, typed in by the user: the message is all that is saved of it.
SubmitsInbound ==
    /\ Usable /\ shown.attempts # <<>>
    /\ Receives
    /\ StartsLoad(FALSE)
    /\ UNCHANGED <<attempts, shown, gmail, failures>>

\* The sync asked for at the opening: the page loads again if it brought messages.
GmailAnswers ==
    /\ gmail = "asked"
    /\ gmail' = "done"
    /\ \/ attempts # <<>> /\ Receives /\ StartsLoad(TRUE)
       \/ UNCHANGED <<messages, load, pageVars>>
    /\ UNCHANGED <<attempts, shown, failures>>

ProductNext ==
    \/ Work
    \/ \E l \in Loads : LoadStep(l) \/ LoadFails(l)
    \/ Polls \/ Submits \/ SubmitsInbound \/ GmailAnswers

-----------------------------------------------------------------------------
\* Properties.

(***************************************************************************)
(* An attempt the page shows as sent has its message beside it, although   *)
(* the two are read at different times while the worker is at them         *)
(* (serialize_product_detail, process_supplier_contact).                   *)
(***************************************************************************)
SettledShowsMessage ==
    \A i \in DOMAIN shown.attempts : shown.attempts[i] = "sent" => i \in shown.messages

(***************************************************************************)
(* A page that shows an attempt under way comes to show it settled,        *)
(* whatever fails or arrives late in between: the polling goes on as long  *)
(* as anything under way is shown (ProductDetailsPage.tsx:81-97).          *)
(***************************************************************************)
ProductPageSettles == HasActive(shown.attempts) ~> ~HasActive(shown.attempts)

=============================================================================
