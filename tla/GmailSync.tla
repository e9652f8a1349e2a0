------------------------------ MODULE GmailSync ------------------------------
(***************************************************************************)
(* Inbound mail: sync_gmail_inbound_messages and the automatic reply.      *)
(*                                                                         *)
(* A background loop and the sync endpoint call it in one API process; a   *)
(* process-wide lock lets one of them in and sends the other away.  It     *)
(* reads the newest mails, whether they were read before or not, leaves    *)
(* out those whose external id is in the conversation table, stores the    *)
(* others for every supplier contact they match, and answers each stored   *)
(* one under a new contact attempt.  Every write is its own transaction.   *)
(* The reply connector is configured and every matching contact has been   *)
(* written to before, so neither "continue" on a missing attempt applies.  *)
(***************************************************************************)
EXTENDS Naturals, Sequences, FiniteSets

CONSTANTS
    Mails,
    Contacts,
    ContactsOf,   \* ContactsOf[m]: the supplier contacts that mail m is matched to
    HasMessageId, \* the mails that carry a Message-ID header
    Readable,     \* the mails with any text: one that is an attachment alone has none
    Syncers,      \* the loop and the endpoint's callers
    Loops,        \* those of them that call again and again
    Limit,        \* email_inbound_sync_limit
    MaxFaults     \* bound on failures and restarts

ASSUME GmailAssumption ==
    /\ ContactsOf \in [Mails -> SUBSET Contacts]
    /\ HasMessageId \subseteq Mails
    /\ Readable \subseteq Mails
    /\ Loops \subseteq Syncers
    /\ Limit \in Nat \ {0}
    /\ MaxFaults \in Nat

VARIABLES
    mailbox,  \* the mails in the order they came
    ids,      \* external ids in the conversation table
    stored,   \* stored[m][c]: inbound rows of mail m for contact c
    attempt,  \* attempt[m][c]: status of the reply's contact attempt
    replies,  \* replies[m][c]: replies to m that reached c (history)
    epoch,    \* starts of the API process, each with its own hash seed
    lock,     \* _gmail_sync_lock is held
    at,       \* at[s]: where s is
    batch,    \* batch[s]: fetched mails still to be handled
    seen,     \* seen[s]: existing_external_ids
    rest,     \* rest[s]: contacts of the first mail of the batch still to do
    to,       \* to[s]: the contact being answered, as a set of at most one
    faults    \* failures and restarts so far

tableVars == <<ids, stored, attempt>>
localVars == <<at, batch, seen, rest, to>>
vars == <<mailbox, tableVars, replies, epoch, lock, localVars, faults>>

PerPair(value) == [m \in Mails |-> [c \in Contacts |-> value]]

Init ==
    /\ mailbox = <<>>
    /\ ids = {} /\ stored = PerPair(0) /\ attempt = PerPair("absent")
    /\ replies = PerPair(0)
    /\ epoch = 0 /\ lock = FALSE /\ faults = 0
    /\ at = [s \in Syncers |-> "idle"]
    /\ batch = [s \in Syncers |-> <<>>]
    /\ seen = [s \in Syncers |-> {}]
    /\ rest = [s \in Syncers |-> {}]
    /\ to = [s \in Syncers |-> {}]

Mail(s) == Head(batch[s])

(***************************************************************************)
(* external_id: the Message-ID or, without one, Python's hash of the raw   *)
(* bytes, which is seeded anew in every process.                           *)
(***************************************************************************)
IdOf(m) == IF m \in HasMessageId THEN <<m, 0>> ELSE <<m, epoch + 1>>

GoTo(s, place) == at' = [at EXCEPT ![s] = place]

-----------------------------------------------------------------------------
\* External: suppliers write when they like.
Arrive(m) ==
    /\ \A i \in DOMAIN mailbox : mailbox[i] # m
    /\ mailbox' = Append(mailbox, m)
    /\ UNCHANGED <<tableVars, replies, epoch, lock, localVars, faults>>

\* Mutant: the lock is not tried.
EnterAnyway(s) ==
    /\ at[s] = "idle"
    /\ lock' = TRUE
    /\ GoTo(s, "fetch")
    /\ UNCHANGED <<mailbox, tableVars, replies, epoch, batch, seen, rest, to, faults>>

\* A caller that finds the lock taken returns zeros and changes nothing.
Enter(s) ==
    /\ at[s] = "idle" /\ ~lock
    /\ lock' = TRUE
    /\ GoTo(s, "fetch")
    /\ UNCHANGED <<mailbox, tableVars, replies, epoch, batch, seen, rest, to, faults>>

Newest(n) ==
    LET len == Len(mailbox)
    IN  [i \in 1..(IF len < n THEN len ELSE n) |-> mailbox[len + 1 - i]]

\* fetch_unseen: the newest mails first, at most Limit.
Fetch(s) ==
    /\ at[s] = "fetch"
    /\ batch' = [batch EXCEPT ![s] = Newest(Limit)]
    /\ GoTo(s, "snapshot")
    /\ UNCHANGED <<mailbox, tableVars, replies, epoch, lock, seen, rest, to, faults>>

Snapshot(s) ==
    /\ at[s] = "snapshot"
    /\ seen' = [seen EXCEPT ![s] = ids]
    /\ GoTo(s, "mails")
    /\ UNCHANGED <<mailbox, tableVars, replies, epoch, lock, batch, rest, to, faults>>

\* A mail already stored has nobody to go to; one that matches nobody neither.
Match(s) ==
    /\ at[s] = "mails" /\ batch[s] # <<>>
    /\ rest' = [rest EXCEPT ![s] =
                    IF IdOf(Mail(s)) \in seen[s] THEN {} ELSE ContactsOf[Mail(s)]]
    /\ GoTo(s, "contacts")
    /\ UNCHANGED <<mailbox, tableVars, replies, epoch, lock, batch, seen, to, faults>>

NextMail(s) ==
    /\ at[s] = "contacts" /\ rest[s] = {}
    /\ batch' = [batch EXCEPT ![s] = Tail(@)]
    /\ GoTo(s, "mails")
    /\ UNCHANGED <<mailbox, tableVars, replies, epoch, lock, seen, rest, to, faults>>

\* The function is left, by its end or by an exception; the lock is released.
Leave(s) ==
    /\ lock' = FALSE
    /\ GoTo(s, "idle")
    /\ batch' = [batch EXCEPT ![s] = <<>>]
    /\ seen' = [seen EXCEPT ![s] = {}]
    /\ rest' = [rest EXCEPT ![s] = {}]
    /\ to' = [to EXCEPT ![s] = {}]
    /\ UNCHANGED <<mailbox, tableVars, replies, epoch>>

Finish(s) ==
    /\ at[s] = "mails" /\ batch[s] = <<>>
    /\ Leave(s)
    /\ UNCHANGED faults

-----------------------------------------------------------------------------
\* One mail for one contact: the inbound row, then the automatic reply.

\* create_inbound raises on an empty body: the rest of the batch is dropped.
RaiseOnEmpty(s) ==
    /\ at[s] = "contacts" /\ rest[s] # {}
    /\ Mail(s) \notin Readable
    /\ Leave(s)
    /\ UNCHANGED faults

\* Mutant: a mail is stored for the first contact that matches.
StoreForOne(s) ==
    /\ at[s] = "contacts" /\ Mail(s) \in Readable
    /\ \E c \in rest[s] :
        /\ stored' = [stored EXCEPT ![Mail(s)][c] = @ + 1]
        /\ rest' = [rest EXCEPT ![s] = {}]
        /\ to' = [to EXCEPT ![s] = {c}]
    /\ ids' = ids \cup {IdOf(Mail(s))}
    /\ seen' = [seen EXCEPT ![s] = @ \cup {IdOf(Mail(s))}]
    /\ GoTo(s, "open")
    /\ UNCHANGED <<mailbox, attempt, replies, epoch, lock, batch, faults>>

Store(s) ==
    /\ at[s] = "contacts" /\ Mail(s) \in Readable
    /\ \E c \in rest[s] :
        /\ stored' = [stored EXCEPT ![Mail(s)][c] = @ + 1]
        /\ rest' = [rest EXCEPT ![s] = @ \ {c}]
        /\ to' = [to EXCEPT ![s] = {c}]
    /\ ids' = ids \cup {IdOf(Mail(s))}
    /\ seen' = [seen EXCEPT ![s] = @ \cup {IdOf(Mail(s))}]
    /\ GoTo(s, "open")
    /\ UNCHANGED <<mailbox, attempt, replies, epoch, lock, batch, faults>>

\* _persist_contact_attempt, after which s goes to place.
SaveAttempt(s, from, status, place) ==
    /\ at[s] = from
    /\ \E c \in to[s] : attempt' = [attempt EXCEPT ![Mail(s)][c] = status]
    /\ GoTo(s, place)
    /\ UNCHANGED <<mailbox, ids, stored, replies, epoch, lock, batch, seen, rest, to, faults>>

OpenAttempt(s) == SaveAttempt(s, "open", "queued", "start")

StartAttempt(s) == SaveAttempt(s, "start", "running", "reply")

Deliver(s) == \E c \in to[s] : replies' = [replies EXCEPT ![Mail(s)][c] = @ + 1]

\* Generated, accepted by the policy, sent.
Reply(s) ==
    /\ at[s] = "reply"
    /\ Deliver(s)
    /\ GoTo(s, "record")
    /\ UNCHANGED <<mailbox, tableVars, epoch, lock, batch, seen, rest, to, faults>>

\* Not sent, or reported as not sent although the supplier has it.
ReplyFails(s) ==
    /\ at[s] = "reply"
    /\ Deliver(s) \/ UNCHANGED replies
    /\ GoTo(s, "giveUp")
    /\ UNCHANGED <<mailbox, tableVars, epoch, lock, batch, seen, rest, to, faults>>

\* The outbound row; its own external id is that of no mail in the mailbox.
RecordReply(s) ==
    /\ at[s] = "record"
    /\ GoTo(s, "close")
    /\ UNCHANGED <<mailbox, tableVars, replies, epoch, lock, batch, seen, rest, to, faults>>

\* Mutant: the attempt of a reply that failed is not saved.
CloseFailedUnsaved(s) ==
    /\ at[s] = "giveUp"
    /\ GoTo(s, "contacts")
    /\ UNCHANGED <<mailbox, tableVars, replies, epoch, lock, batch, seen, rest, to, faults>>

CloseFailed(s) == SaveAttempt(s, "giveUp", "failed", "contacts")

\* A copy that was moved to sent is saved as sent, by the handler too.
CloseSent(s) ==
    \/ SaveAttempt(s, "close", "sent", "contacts")
    \/ SaveAttempt(s, "closeAgain", "sent", "contacts")

-----------------------------------------------------------------------------
\* Failures.

Fails == faults < MaxFaults /\ faults' = faults + 1

\* Mutant: a reply that could not be recorded is sent again.
FaultRetries(s) ==
    /\ Fails
    /\ \/ at[s] = "record" /\ GoTo(s, "reply")
       \/ at[s] = "close" /\ GoTo(s, "closeAgain")
    /\ UNCHANGED <<mailbox, tableVars, replies, epoch, lock, batch, seen, rest, to>>

\* Inside _send_auto_agent_reply's try a failed write is handled ...
HandledFault(s) ==
    /\ Fails
    /\ \/ at[s] = "record" /\ GoTo(s, "giveUp")
       \/ at[s] = "close" /\ GoTo(s, "closeAgain")
    /\ UNCHANGED <<mailbox, tableVars, replies, epoch, lock, batch, seen, rest, to>>

\* ... and anywhere else an exception ends the call; the loop swallows it.
Abort(s) ==
    /\ Fails
    /\ at[s] \in {"fetch", "snapshot", "mails", "contacts", "open", "start", "giveUp", "closeAgain"}
    /\ Leave(s)

\* The API process is stopped and started: the lock is a new one.
Restart ==
    /\ Fails
    /\ epoch' = epoch + 1 /\ lock' = FALSE
    /\ at' = [s \in Syncers |-> "idle"]
    /\ batch' = [s \in Syncers |-> <<>>]
    /\ seen' = [s \in Syncers |-> {}]
    /\ rest' = [s \in Syncers |-> {}]
    /\ to' = [s \in Syncers |-> {}]
    /\ UNCHANGED <<mailbox, tableVars, replies>>

-----------------------------------------------------------------------------
Inside(s) ==
    \/ Fetch(s) \/ Snapshot(s) \/ Match(s) \/ NextMail(s) \/ Finish(s)
    \/ RaiseOnEmpty(s) \/ Store(s)
    \/ OpenAttempt(s) \/ StartAttempt(s) \/ Reply(s) \/ ReplyFails(s) \/ RecordReply(s)
    \/ CloseFailed(s) \/ CloseSent(s)

Next ==
    \/ \E m \in Mails : Arrive(m)
    \/ \E s \in Syncers : Enter(s) \/ Inside(s)
    \/ \E s \in Syncers : HandledFault(s) \/ Abort(s)
    \/ Restart

Spec == Init /\ [][Next]_vars

\* The loop ticks for ever, whoever is inside goes on; IMAP, SMTP and models time out.
Fairness ==
    /\ \A s \in Loops : WF_vars(Enter(s))
    /\ \A s \in Syncers : WF_vars(Inside(s))

FairSpec == Spec /\ Fairness

-----------------------------------------------------------------------------
\* Properties.

Places ==
    {"idle", "fetch", "snapshot", "mails", "contacts", "open", "start", "reply",
     "record", "close", "closeAgain", "giveUp"}

Replying == {"open", "start", "reply", "record", "close", "closeAgain", "giveUp"}

\* Types; who answers has one contact, and the lock is held while somebody is inside.
GmailTypeOK ==
    /\ \A i \in DOMAIN mailbox : mailbox[i] \in Mails
    /\ \A m \in Mails, c \in Contacts :
        /\ stored[m][c] \in Nat /\ replies[m][c] \in Nat
        /\ attempt[m][c] \in {"absent", "queued", "running", "sent", "failed"}
    /\ \A s \in Syncers :
        /\ at[s] \in Places
        /\ at[s] # "idle" => lock
        /\ at[s] \in Replying => Cardinality(to[s]) = 1 /\ batch[s] # <<>>
        /\ at[s] = "contacts" => batch[s] # <<>>
    /\ faults \in 0..MaxFaults

(***************************************************************************)
(* A mail with a Message-ID is stored once for a contact and answered at   *)
(* most once, with the loop and the endpoint at it at the same time, after *)
(* failures and restarts, and although every tick reads it again.          *)
(***************************************************************************)
IdentifiedStoredOnce ==
    \A m \in HasMessageId, c \in Contacts : stored[m][c] <= 1 /\ replies[m][c] <= 1

\* The same of every mail: never stored twice (gmail-inbound-sync/spec.md:20).
StoredOnce == \A m \in Mails, c \in Contacts : stored[m][c] <= 1

(***************************************************************************)
(* A supplier gets no more replies to a mail than rows were stored for it, *)
(* be the mail identified or not and whatever fails; and the attempt that  *)
(* blocks the product while it is active exists only for a stored mail.    *)
(***************************************************************************)
RepliesFollowMail ==
    \A m \in Mails, c \in Contacts :
        /\ replies[m][c] <= stored[m][c]
        /\ attempt[m][c] # "absent" => stored[m][c] > 0

(***************************************************************************)
(* Unless a write fails or the process stops, no reply's attempt is left   *)
(* active when the sync is over: has_active would refuse every later       *)
(* request for the product.                                                *)
(***************************************************************************)
NoAttemptLeftActive ==
    ~lock /\ faults = 0 =>
        \A m \in Mails, c \in Contacts : attempt[m][c] \notin {"queued", "running"}

Came(m) == \E i \in DOMAIN mailbox : mailbox[i] = m

\* The mails that came after m; only they are fetched and handled before it.
Newer(m) ==
    {mailbox[j] : j \in {k \in DOMAIN mailbox : \E i \in 1..(k - 1) : mailbox[i] = m}}

\* A matching mail with nothing to store raises in every tick that comes to it.
Blocking == {m \in Mails \ Readable : ContactsOf[m] # {}}

InReach(m) == Cardinality(Newer(m)) < Limit /\ Newer(m) \cap Blocking = {}

(***************************************************************************)
(* A matching mail that stays in reach of the ticks, with fewer mails after*)
(* it than the window holds and none of them a blocking one, comes into    *)
(* the conversation of all its contacts; of one of them at least if a      *)
(* failure cut the sync between two, for then its id is taken.  Of a mail  *)
(* that gets out of reach first nothing is said: it is lost if it stays    *)
(* there (connectors.py:1678, workers.py:710).                             *)
(***************************************************************************)
MailsInReachAreStored ==
    \A m \in Readable :
        Came(m) /\ ContactsOf[m] # {} ~>
            \/ \A c \in ContactsOf[m] : stored[m][c] > 0
            \/ faults > 0 /\ \E c \in ContactsOf[m] : stored[m][c] > 0
            \/ ~InReach(m)

=============================================================================
