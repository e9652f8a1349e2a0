--------------------------- MODULE GmailSync_proofs ---------------------------
(***************************************************************************)
(* The mail sync, for any mails, contacts, callers, failures and restarts: *)
(* an identified mail is stored and answered once, replies follow mails,   *)
(* and without failures no reply's attempt stays active.                   *)
(***************************************************************************)
EXTENDS GmailSync, FiniteSetTheorems, TLAPS

-----------------------------------------------------------------------------
(***************************************************************************)
(* Types.  Who has a mail at hand has a batch that begins with it, and who *)
(* answers has one contact to answer.                                      *)
(***************************************************************************)
AttemptStatuses == {"absent", "queued", "running", "sent", "failed"}

Handling == {"contacts"} \cup Replying

Types ==
    /\ mailbox \in Seq(Mails)
    /\ stored \in [Mails -> [Contacts -> Nat]]
    /\ replies \in [Mails -> [Contacts -> Nat]]
    /\ attempt \in [Mails -> [Contacts -> AttemptStatuses]]
    /\ epoch \in Nat
    /\ at \in [Syncers -> Places]
    /\ batch \in [Syncers -> Seq(Mails)]
    /\ DOMAIN seen = Syncers
    /\ rest \in [Syncers -> SUBSET Contacts]
    /\ to \in [Syncers -> SUBSET Contacts]
    /\ faults \in 0..MaxFaults
    /\ \A s \in Syncers : at[s] \in Handling => batch[s] # <<>>
    /\ \A s \in Syncers : at[s] \in Replying => \E c \in Contacts : to[s] = {c}

LEMMA MailType == ASSUME Types, NEW s \in Syncers, batch[s] # <<>> PROVE Mail(s) \in Mails
BY DEF Types, Mail

LEMMA TypesInit == Init => Types
BY GmailAssumption DEF Init, Types, PerPair, AttemptStatuses, Places, Handling, Replying

LEMMA NewestType == ASSUME mailbox \in Seq(Mails), NEW n \in Nat PROVE Newest(n) \in Seq(Mails)
<1>. DEFINE k == IF Len(mailbox) < n THEN Len(mailbox) ELSE n
<1>1. k \in Nat /\ k <= Len(mailbox)
  OBVIOUS
<1>2. \A i \in 1..k : mailbox[Len(mailbox) + 1 - i] \in Mails
  BY <1>1
<1>. QED BY <1>1, <1>2 DEF Newest

\* One entry of a table changes.
LEMMA OneEntry ==
    ASSUME NEW S, NEW f \in [Mails -> [Contacts -> S]], NEW m \in Mails, NEW c \in Contacts,
           NEW v \in S
    PROVE  /\ [f EXCEPT ![m][c] = v] \in [Mails -> [Contacts -> S]]
           /\ [f EXCEPT ![m][c] = v][m][c] = v
           /\ \A n \in Mails, d \in Contacts :
                n # m \/ d # c => [f EXCEPT ![m][c] = v][n][d] = f[n][d]
OBVIOUS

\* Going from one place of an answer to another, with the mail and the contact at hand.
LEMMA GoOn ==
    ASSUME Types, NEW s \in Syncers, NEW place \in Handling, GoTo(s, place),
           at[s] \in Replying, UNCHANGED <<batch, to>>
    PROVE  /\ at' \in [Syncers -> Places]
           /\ \A r \in Syncers : at'[r] \in Handling => batch'[r] # <<>>
           /\ \A r \in Syncers : at'[r] \in Replying => \E c \in Contacts : to'[r] = {c}
<1>1. at' = [at EXCEPT ![s] = place] /\ at \in [Syncers -> Places] /\ place \in Places
  BY DEF GoTo, Types, Handling, Replying, Places
<1>2. at' \in [Syncers -> Places]
  BY <1>1
<1>3. \A r \in Syncers : at'[r] = IF r = s THEN place ELSE at[r]
  BY <1>1
<1>4. ASSUME NEW r \in Syncers, at'[r] \in Handling PROVE batch'[r] # <<>>
  <2>1. at[r] \in Handling
    BY <1>3, <1>4 DEF Handling
  <2>. QED BY <2>1 DEF Types
<1>5. ASSUME NEW r \in Syncers, at'[r] \in Replying PROVE \E c \in Contacts : to'[r] = {c}
  <2>1. at[r] \in Replying
    BY <1>3, <1>5
  <2>. QED BY <2>1 DEF Types
<1>. QED BY <1>2, <1>4, <1>5

\* A step of s that leaves the tables alone, or puts a value in one of them.
LEMMA TypesStep == Types /\ [Next]_vars => Types'
<1>. SUFFICES ASSUME Types, [Next]_vars PROVE Types'
  OBVIOUS
<1>. USE DEF Types, Places, Handling, Replying, GoTo, localVars, tableVars
<1>1. ASSUME NEW m \in Mails, Arrive(m) PROVE Types'
  BY <1>1 DEF Arrive
<1>2. ASSUME NEW s \in Syncers, Enter(s) PROVE Types'
  BY <1>2 DEF Enter
<1>3. ASSUME NEW s \in Syncers, Fetch(s) PROVE Types'
  BY <1>3, NewestType, GmailAssumption DEF Fetch
<1>4. ASSUME NEW s \in Syncers, Snapshot(s) \/ Match(s) PROVE Types'
  <2>1. CASE Snapshot(s)
    BY <2>1 DEF Snapshot
  <2>2. CASE Match(s)
    BY <2>2, MailType, GmailAssumption DEF Match
  <2>. QED BY <1>4, <2>1, <2>2
<1>5. ASSUME NEW s \in Syncers, NextMail(s) PROVE Types'
  BY <1>5 DEF NextMail
<1>6. ASSUME NEW s \in Syncers, Leave(s), faults' \in 0..MaxFaults PROVE Types'
  BY <1>6 DEF Leave
<1>7. ASSUME NEW s \in Syncers, Store(s) PROVE Types'
  <2>1. PICK c \in rest[s] :
          /\ stored' = [stored EXCEPT ![Mail(s)][c] = @ + 1]
          /\ rest' = [rest EXCEPT ![s] = @ \ {c}]
          /\ to' = [to EXCEPT ![s] = {c}]
    BY <1>7 DEF Store
  <2>2. Mail(s) \in Mails /\ c \in Contacts /\ stored[Mail(s)][c] + 1 \in Nat
    BY <1>7, MailType DEF Store
  <2>3. stored' \in [Mails -> [Contacts -> Nat]]
    BY <2>1, <2>2
  <2>4. at' = [at EXCEPT ![s] = "open"] /\ batch[s] # <<>> /\ UNCHANGED batch
    BY <1>7 DEF Store
  <2>5. rest' \in [Syncers -> SUBSET Contacts] /\ to' \in [Syncers -> SUBSET Contacts]
    BY <2>1, <2>2
  <2>6. at' \in [Syncers -> Places]
    BY <2>4
  <2>7. \A r \in Syncers : at'[r] \in Handling => batch'[r] # <<>>
    BY <2>4
  <2>8. \A r \in Syncers : at'[r] \in Replying => \E d \in Contacts : to'[r] = {d}
    BY <2>1, <2>2, <2>4
  <2>9. UNCHANGED <<mailbox, replies, attempt, epoch, faults>> /\ DOMAIN seen' = Syncers
    BY <1>7 DEF Store
  <2>. QED BY <2>3, <2>4, <2>5, <2>6, <2>7, <2>8, <2>9
<1>8. ASSUME NEW s \in Syncers, NEW from \in Replying, NEW status \in AttemptStatuses,
             NEW place \in Handling, SaveAttempt(s, from, status, place)
      PROVE  Types'
  <2>1. PICK c \in to[s] : attempt' = [attempt EXCEPT ![Mail(s)][c] = status]
    BY <1>8 DEF SaveAttempt
  <2>2. Mail(s) \in Mails /\ c \in Contacts
    BY <1>8, MailType DEF SaveAttempt
  <2>3. attempt' \in [Mails -> [Contacts -> AttemptStatuses]]
    BY <2>1, <2>2
  <2>4. at[s] \in Replying /\ GoTo(s, place) /\ UNCHANGED <<batch, to>>
    BY <1>8 DEF SaveAttempt
  <2>5. UNCHANGED <<mailbox, stored, replies, epoch, seen, rest, to, batch, faults>>
    BY <1>8 DEF SaveAttempt
  <2>. QED BY <2>3, <2>4, <2>5, GoOn
<1>9. ASSUME NEW s \in Syncers, Reply(s) \/ ReplyFails(s) \/ RecordReply(s) PROVE Types'
  <2>1. replies' \in [Mails -> [Contacts -> Nat]]
    <3>1. CASE UNCHANGED replies
      BY <3>1
    <3>2. ASSUME at[s] = "reply", Deliver(s) PROVE replies' \in [Mails -> [Contacts -> Nat]]
      <4>1. PICK c \in to[s] : replies' = [replies EXCEPT ![Mail(s)][c] = @ + 1]
        BY <3>2 DEF Deliver
      <4>2. Mail(s) \in Mails /\ c \in Contacts /\ replies[Mail(s)][c] + 1 \in Nat
        BY <3>2, MailType
      <4>. QED BY <4>1, <4>2
    <3>. QED BY <1>9, <3>1, <3>2 DEF Reply, ReplyFails, RecordReply
  <2>2. PICK place \in Handling : GoTo(s, place)
    BY <1>9 DEF Reply, ReplyFails, RecordReply
  <2>3. at[s] \in Replying
    BY <1>9 DEF Reply, ReplyFails, RecordReply
  <2>4. UNCHANGED <<mailbox, stored, attempt, epoch, batch, seen, rest, to, faults>>
    BY <1>9 DEF Reply, ReplyFails, RecordReply
  <2>. QED BY <2>1, <2>2, <2>3, <2>4, GoOn
<1>10. ASSUME NEW s \in Syncers, HandledFault(s) PROVE Types'
  <2>1. PICK place \in Handling : GoTo(s, place)
    BY <1>10 DEF HandledFault
  <2>2. at[s] \in Replying /\ faults' \in 0..MaxFaults
    BY <1>10, GmailAssumption DEF HandledFault, Fails
  <2>3. UNCHANGED <<mailbox, stored, attempt, replies, epoch, batch, seen, rest, to>>
    BY <1>10 DEF HandledFault
  <2>. QED BY <2>1, <2>2, <2>3, GoOn
<1>11. CASE Restart
  BY <1>11, GmailAssumption DEF Restart, Fails
<1>12. CASE UNCHANGED vars
  BY <1>12 DEF vars
<1>13. ASSUME NEW s \in Syncers, Abort(s) \/ RaiseOnEmpty(s) \/ Finish(s) PROVE Types'
  <2>1. Leave(s) /\ faults' \in 0..MaxFaults
    BY <1>13, GmailAssumption DEF Abort, RaiseOnEmpty, Finish, Fails
  <2>. QED BY <1>6, <2>1
<1>14. ASSUME NEW s \in Syncers,
              OpenAttempt(s) \/ StartAttempt(s) \/ CloseFailed(s) \/ CloseSent(s)
       PROVE  Types'
  BY <1>8, <1>14 DEF OpenAttempt, StartAttempt, CloseFailed, CloseSent, AttemptStatuses
<1>. QED
  BY <1>1, <1>2, <1>3, <1>4, <1>5, <1>7, <1>9, <1>10, <1>11, <1>12, <1>13, <1>14
     DEF Next, Inside

-----------------------------------------------------------------------------
(***************************************************************************)
(* The lock: whoever is inside holds it, and is there alone.               *)
(***************************************************************************)
Exclusion ==
    /\ \A s \in Syncers : at[s] # "idle" => lock
    /\ \A r, s \in Syncers : at[r] # "idle" /\ at[s] # "idle" => r = s

\* A step of the answer to a mail: from one of its places to another or back to the batch.
Answers(s) ==
    /\ at[s] \in Replying
    /\ \E place \in Handling : GoTo(s, place)
    /\ UNCHANGED <<mailbox, ids, stored, epoch, lock, batch, seen, rest, to>>

LEMMA AnswerSteps ==
    ASSUME NEW s \in Syncers,
           \/ OpenAttempt(s) \/ StartAttempt(s) \/ Reply(s) \/ ReplyFails(s) \/ RecordReply(s)
           \/ CloseFailed(s) \/ CloseSent(s) \/ HandledFault(s)
    PROVE  Answers(s)
<1>. USE DEF Answers, Replying, Handling
<1>1. CASE OpenAttempt(s) \/ StartAttempt(s) \/ CloseFailed(s) \/ CloseSent(s)
  BY <1>1 DEF OpenAttempt, StartAttempt, CloseFailed, CloseSent, SaveAttempt
<1>2. CASE Reply(s) \/ ReplyFails(s) \/ RecordReply(s)
  BY <1>2 DEF Reply, ReplyFails, RecordReply, tableVars
<1>3. CASE HandledFault(s)
  BY <1>3 DEF HandledFault, tableVars
<1>. QED BY <1>1, <1>2, <1>3

\* The ways to leave.
LEMMA LeaveSteps ==
    ASSUME NEW s \in Syncers, Abort(s) \/ RaiseOnEmpty(s) \/ Finish(s)
    PROVE  Leave(s)
BY DEF Abort, RaiseOnEmpty, Finish

LEMMA ExclusionStep == Types /\ Exclusion /\ [Next]_vars => Exclusion'
<1>. SUFFICES ASSUME Types, Exclusion, [Next]_vars PROVE Exclusion'
  OBVIOUS
<1>. at \in [Syncers -> Places]
  BY DEF Types
<1>. USE DEF Exclusion, GoTo
<1>1. ASSUME NEW m \in Mails, Arrive(m) PROVE Exclusion'
  BY <1>1 DEF Arrive, localVars
<1>2. ASSUME NEW s \in Syncers, Enter(s) PROVE Exclusion'
  BY <1>2 DEF Enter
<1>3. ASSUME NEW s \in Syncers, NEW place, at[s] # "idle", GoTo(s, place), UNCHANGED lock
      PROVE  Exclusion'
  BY <1>3
<1>4. ASSUME NEW s \in Syncers,
             Fetch(s) \/ Snapshot(s) \/ Match(s) \/ NextMail(s) \/ Store(s)
      PROVE  Exclusion'
  BY <1>3, <1>4 DEF Fetch, Snapshot, Match, NextMail, Store
<1>5. ASSUME NEW s \in Syncers, Answers(s) PROVE Exclusion'
  BY <1>3, <1>5 DEF Answers, Replying
<1>6. ASSUME NEW s \in Syncers, Leave(s), at[s] # "idle" PROVE Exclusion'
  BY <1>6 DEF Leave
<1>7. ASSUME NEW s \in Syncers, Abort(s) \/ RaiseOnEmpty(s) \/ Finish(s) PROVE Exclusion'
  BY <1>6, <1>7, LeaveSteps DEF Abort, RaiseOnEmpty, Finish
<1>8. CASE Restart
  BY <1>8 DEF Restart
<1>9. CASE UNCHANGED vars
  BY <1>9 DEF vars, localVars
<1>. QED
  BY <1>1, <1>2, <1>4, <1>5, <1>7, <1>8, <1>9, AnswerSteps DEF Next, Inside

-----------------------------------------------------------------------------
(***************************************************************************)
(* Identified mails.  What is stored has its id in the table; whoever is   *)
(* at a mail knows all ids of the table, its own included; and no contact  *)
(* still to do has the mail.                                               *)
(***************************************************************************)
Ids ==
    /\ \A m \in HasMessageId, c \in Contacts :
        stored[m][c] <= 1 /\ (stored[m][c] > 0 => <<m, 0>> \in ids)
    /\ \A s \in Syncers : at[s] \in {"mails"} \cup Handling => seen[s] = ids
    /\ \A s \in Syncers : at[s] \in Handling /\ Mail(s) \in HasMessageId =>
        \A c \in rest[s] : stored[Mail(s)][c] = 0

LEMMA IdsStep == Types /\ Exclusion /\ Ids /\ [Next]_vars => Ids'
<1>. SUFFICES ASSUME Types, Exclusion, Ids, [Next]_vars PROVE Ids'
  OBVIOUS
<1>. /\ at \in [Syncers -> Places] /\ batch \in [Syncers -> Seq(Mails)]
     /\ rest \in [Syncers -> SUBSET Contacts] /\ DOMAIN seen = Syncers
  BY DEF Types
<1>. HasMessageId \subseteq Mails
  BY GmailAssumption
<1>1. ASSUME UNCHANGED <<ids, stored>>,
             \A r \in Syncers :
                \/ at'[r] \notin {"mails"} \cup Handling
                \/ /\ at[r] \in Handling /\ at'[r] \in Handling
                   /\ seen'[r] = seen[r] /\ batch'[r] = batch[r] /\ rest'[r] = rest[r]
                \/ at'[r] = "mails" /\ seen'[r] = ids
      PROVE  Ids'
  <2>1. \A r \in Syncers : at'[r] \in {"mails"} \cup Handling => seen'[r] = ids'
    BY <1>1 DEF Ids
  <2>2. ASSUME NEW r \in Syncers, at'[r] \in Handling, Mail(r)' \in HasMessageId
        PROVE  \A c \in rest'[r] : stored'[Mail(r)'][c] = 0
    <3>1. at[r] \in Handling /\ Mail(r)' = Mail(r) /\ rest'[r] = rest[r]
      BY <1>1, <2>2 DEF Handling, Replying, Mail
    <3>. QED BY <1>1, <2>2, <3>1 DEF Ids
  <2>. QED BY <1>1, <2>1, <2>2 DEF Ids
<1>2. ASSUME NEW m \in Mails, Arrive(m) PROVE Ids'
  BY <1>2 DEF Arrive, localVars, tableVars, Ids, Mail
<1>3. ASSUME NEW s \in Syncers, Enter(s) \/ Fetch(s) PROVE Ids'
  <2>1. UNCHANGED <<ids, stored, seen, rest>> /\ at'[s] \in {"fetch", "snapshot"}
    BY <1>3 DEF Enter, Fetch, GoTo, tableVars
  <2>2. \A r \in Syncers : r # s => at'[r] = at[r] /\ batch'[r] = batch[r]
    BY <1>3 DEF Enter, Fetch, GoTo
  <2>. QED BY <1>1, <2>1, <2>2 DEF Handling, Replying, Ids
<1>4. ASSUME NEW s \in Syncers, Snapshot(s) PROVE Ids'
  <2>1. /\ UNCHANGED <<ids, stored, batch, rest>>
        /\ at' = [at EXCEPT ![s] = "mails"] /\ seen' = [seen EXCEPT ![s] = ids]
    BY <1>4 DEF Snapshot, GoTo, tableVars
  <2>. QED BY <1>1, <2>1 DEF Ids
<1>5. ASSUME NEW s \in Syncers, Match(s) PROVE Ids'
  <2>1. /\ UNCHANGED <<ids, stored, batch, seen>> /\ at' = [at EXCEPT ![s] = "contacts"]
        /\ rest' = [rest EXCEPT ![s] =
                        IF IdOf(Mail(s)) \in seen[s] THEN {} ELSE ContactsOf[Mail(s)]]
        /\ at[s] = "mails" /\ Mail(s) \in Mails
    BY <1>5, MailType DEF Match, GoTo, tableVars
  <2>2. seen[s] = ids /\ Mail(s)' = Mail(s)
    BY <2>1 DEF Ids, Mail
  <2>3. ASSUME Mail(s) \in HasMessageId, NEW c \in rest'[s] PROVE stored'[Mail(s)][c] = 0
    <3>1. <<Mail(s), 0>> \notin ids /\ c \in Contacts
      BY <2>1, <2>2, <2>3, GmailAssumption DEF IdOf
    <3>2. stored[Mail(s)][c] \in Nat
      BY <2>1, <3>1 DEF Types
    <3>. QED BY <2>1, <2>3, <3>1, <3>2 DEF Ids
  <2>4. \A r \in Syncers : r # s => at'[r] = at[r] /\ rest'[r] = rest[r] /\ Mail(r)' = Mail(r)
    BY <2>1 DEF Mail
  <2>. QED BY <2>1, <2>2, <2>3, <2>4 DEF Ids
<1>6. ASSUME NEW s \in Syncers, NextMail(s) PROVE Ids'
  <2>1. /\ UNCHANGED <<ids, stored, seen, rest>> /\ at' = [at EXCEPT ![s] = "mails"]
        /\ at[s] \in Handling
    BY <1>6 DEF NextMail, GoTo, tableVars, Handling
  <2>2. \A r \in Syncers : r # s => at'[r] = at[r] /\ batch'[r] = batch[r]
    BY <1>6, <2>1 DEF NextMail
  <2>. QED BY <1>1, <2>1, <2>2 DEF Ids
<1>7. ASSUME NEW s \in Syncers, Store(s) PROVE Ids'
  <2>. DEFINE m == Mail(s)
  <2>1. PICK c \in rest[s] :
          /\ stored' = [stored EXCEPT ![m][c] = @ + 1]
          /\ rest' = [rest EXCEPT ![s] = @ \ {c}]
    BY <1>7 DEF Store
  <2>2. /\ ids' = ids \cup {IdOf(m)} /\ seen' = [seen EXCEPT ![s] = @ \cup {IdOf(m)}]
        /\ at' = [at EXCEPT ![s] = "open"] /\ UNCHANGED batch /\ at[s] = "contacts"
    BY <1>7 DEF Store, GoTo
  <2>3. m \in Mails /\ c \in Contacts /\ m' = m
    BY <2>1, <2>2, MailType DEF Types, Handling, Mail
  <2>4. /\ \A n \in Mails, d \in Contacts : n # m \/ d # c => stored'[n][d] = stored[n][d]
        /\ stored'[m][c] = stored[m][c] + 1 /\ stored[m][c] \in Nat
    BY <2>1, <2>3 DEF Types
  <2>5. m \in HasMessageId => IdOf(m) = <<m, 0>> /\ stored[m][c] = 0
    BY <2>1, <2>2 DEF IdOf, Ids, Handling
  <2>6. ASSUME NEW n \in HasMessageId, NEW d \in Contacts
        PROVE  stored'[n][d] <= 1 /\ (stored'[n][d] > 0 => <<n, 0>> \in ids')
    <3>1. CASE n = m /\ d = c
      BY <2>2, <2>4, <2>5, <3>1
    <3>2. CASE n # m \/ d # c
      BY <2>2, <2>4, <3>2 DEF Ids
    <3>. QED BY <3>1, <3>2
  <2>7. \A r \in Syncers : r # s => at'[r] = "idle"
    BY <2>2 DEF Exclusion
  <2>8. seen'[s] = ids'
    BY <2>2 DEF Ids, Handling
  <2>9. m \in HasMessageId => \A d \in rest'[s] : stored'[m][d] = 0
    BY <2>1, <2>2, <2>3, <2>4 DEF Ids, Handling
  <2>. HIDE DEF m
  <2>. QED BY <2>3, <2>6, <2>7, <2>8, <2>9 DEF Ids, m, Handling, Replying
<1>8. ASSUME NEW s \in Syncers, Answers(s) PROVE Ids'
  <2>1. PICK place \in Handling : GoTo(s, place)
    BY <1>8 DEF Answers
  <2>2. at[s] \in Handling /\ UNCHANGED <<ids, stored, batch, seen, rest>>
    BY <1>8 DEF Answers, Handling
  <2>. QED BY <2>1, <2>2 DEF Ids, GoTo, Mail
<1>9. ASSUME NEW s \in Syncers, Leave(s) PROVE Ids'
  <2>1. UNCHANGED <<ids, stored>> /\ at' = [at EXCEPT ![s] = "idle"]
    BY <1>9 DEF Leave, GoTo, tableVars
  <2>2. \A r \in Syncers : r # s =>
          at'[r] = at[r] /\ batch'[r] = batch[r] /\ seen'[r] = seen[r] /\ rest'[r] = rest[r]
    BY <1>9, <2>1 DEF Leave
  <2>. QED BY <1>1, <2>1, <2>2 DEF Ids, Handling, Replying
<1>10. CASE Restart
  BY <1>1, <1>10 DEF Restart, tableVars, Handling, Replying
<1>11. CASE UNCHANGED vars
  BY <1>11 DEF vars, localVars, tableVars, Ids, Mail
<1>. QED
  BY <1>2, <1>3, <1>4, <1>5, <1>6, <1>7, <1>8, <1>9, <1>10, <1>11, AnswerSteps, LeaveSteps
     DEF Next, Inside

-----------------------------------------------------------------------------
(***************************************************************************)
(* Replies.  The mail in hand is stored for the contact being answered,    *)
(* and until the reply is out that row has no reply yet.                   *)
(***************************************************************************)
Unanswered == {"open", "start", "reply"}

Replies ==
    /\ RepliesFollowMail
    /\ \A s \in Syncers : at[s] \in Replying => \A c \in to[s] : stored[Mail(s)][c] > 0
    /\ \A s \in Syncers : at[s] \in Unanswered =>
        \A c \in to[s] : replies[Mail(s)][c] < stored[Mail(s)][c]

\* A step that changes no row and no place of an answer but by leaving it.
LEMMA RepliesStay ==
    ASSUME Replies, UNCHANGED <<stored, replies, attempt>>,
           NEW s \in Syncers, at'[s] \notin Replying,
           \A r \in Syncers : r # s =>
                at'[r] = at[r] /\ batch'[r] = batch[r] /\ to'[r] = to[r]
    PROVE  Replies'
BY DEF Replies, RepliesFollowMail, Replying, Unanswered, Mail

\* Saving the attempt of the mail in hand.
LEMMA RepliesSaved ==
    ASSUME Types, Replies, NEW s \in Syncers, NEW from \in Replying,
           NEW status \in AttemptStatuses, NEW place \in Handling,
           SaveAttempt(s, from, status, place),
           place \in Unanswered => from \in Unanswered
    PROVE  Replies'
<1>1. PICK c \in to[s] : attempt' = [attempt EXCEPT ![Mail(s)][c] = status]
  BY DEF SaveAttempt
<1>2. /\ UNCHANGED <<stored, replies, batch, to>> /\ at[s] = from
      /\ at' = [at EXCEPT ![s] = place]
  BY DEF SaveAttempt, GoTo
<1>3. stored[Mail(s)][c] > 0 /\ c \in Contacts /\ Mail(s) \in Mails
  BY <1>1, <1>2, MailType DEF Types, Replies, Handling
<1>4. \A n \in Mails, d \in Contacts : n # Mail(s) \/ d # c => attempt'[n][d] = attempt[n][d]
  BY <1>1, <1>3 DEF Types
<1>5. RepliesFollowMail'
  BY <1>2, <1>3, <1>4 DEF Replies, RepliesFollowMail
<1>. QED
  BY <1>2, <1>5 DEF Replies, Types, Mail, Replying, Unanswered

\* The reply goes out, once.
LEMMA RepliesDelivered ==
    ASSUME Types, Exclusion, Replies, NEW s \in Syncers, at[s] = "reply",
           Deliver(s), UNCHANGED <<stored, attempt, batch, to>>,
           NEW place \in Replying \ Unanswered, GoTo(s, place)
    PROVE  Replies'
<1>. DEFINE m == Mail(s)
<1>1. PICK c \in to[s] : replies' = [replies EXCEPT ![m][c] = @ + 1]
  BY DEF Deliver
<1>2. c \in Contacts /\ m \in Mails /\ at' = [at EXCEPT ![s] = place] /\ at \in [Syncers -> Places]
  BY <1>1, MailType DEF Types, Handling, Replying, GoTo
<1>3. /\ replies'[m][c] = replies[m][c] + 1
      /\ \A n \in Mails, d \in Contacts : n # m \/ d # c => replies'[n][d] = replies[n][d]
  BY <1>1, <1>2 DEF Types
<1>4. replies[m][c] < stored[m][c] /\ replies[m][c] \in Nat /\ stored[m][c] \in Nat
  BY <1>1, <1>2 DEF Replies, Types, Unanswered
<1>5. ASSUME NEW n \in Mails, NEW d \in Contacts
      PROVE  /\ replies'[n][d] <= stored'[n][d]
             /\ attempt'[n][d] # "absent" => stored'[n][d] > 0
  <2>1. CASE n = m /\ d = c
    BY <1>3, <1>4, <2>1 DEF Replies, RepliesFollowMail
  <2>2. CASE n # m \/ d # c
    BY <1>3, <2>2 DEF Replies, RepliesFollowMail
  <2>. QED BY <2>1, <2>2
<1>6. \A r \in Syncers : r # s => at'[r] \notin Replying
  BY <1>2 DEF Exclusion, Replying
<1>7. \A d \in to'[s] : stored'[Mail(s)'][d] > 0
  BY DEF Replies, Replying, Mail
<1>8. at'[s] \notin Unanswered /\ Unanswered \subseteq Replying
  BY <1>2 DEF Unanswered, Replying
<1>. QED BY <1>5, <1>6, <1>7, <1>8 DEF Replies, RepliesFollowMail

LEMMA RepliesStep == Types /\ Exclusion /\ Replies /\ [Next]_vars => Replies'
<1>. SUFFICES ASSUME Types, Exclusion, Replies, [Next]_vars PROVE Replies'
  OBVIOUS
<1>. /\ at \in [Syncers -> Places] /\ batch \in [Syncers -> Seq(Mails)]
     /\ to \in [Syncers -> SUBSET Contacts]
  BY DEF Types
<1>1. ASSUME NEW m \in Mails, Arrive(m) PROVE Replies'
  BY <1>1 DEF Arrive, localVars, tableVars, Replies, RepliesFollowMail, Mail
<1>2. ASSUME NEW s \in Syncers,
             Enter(s) \/ Fetch(s) \/ Snapshot(s) \/ Match(s) \/ NextMail(s)
      PROVE  Replies'
  <2>1. UNCHANGED <<stored, replies, attempt>>
    BY <1>2 DEF Enter, Fetch, Snapshot, Match, NextMail, tableVars
  <2>2. PICK place \in {"fetch", "snapshot", "mails", "contacts"} : GoTo(s, place)
    BY <1>2 DEF Enter, Fetch, Snapshot, Match, NextMail
  <2>3. \A r \in Syncers : r # s =>
          at'[r] = at[r] /\ batch'[r] = batch[r] /\ to'[r] = to[r]
    BY <1>2, <2>2 DEF Enter, Fetch, Snapshot, Match, NextMail, GoTo
  <2>4. at'[s] \notin Replying
    BY <2>2 DEF GoTo, Replying
  <2>. QED BY <2>1, <2>3, <2>4, RepliesStay
<1>3. ASSUME NEW s \in Syncers, Store(s) PROVE Replies'
  <2>. DEFINE m == Mail(s)
  <2>1. PICK c \in rest[s] :
          stored' = [stored EXCEPT ![m][c] = @ + 1] /\ to' = [to EXCEPT ![s] = {c}]
    BY <1>3 DEF Store
  <2>2. /\ at[s] = "contacts" /\ at' = [at EXCEPT ![s] = "open"]
        /\ UNCHANGED <<batch, replies, attempt>>
    BY <1>3 DEF Store, GoTo
  <2>3. m \in Mails /\ c \in Contacts /\ Mail(s)' = m /\ to'[s] = {c}
    BY <2>1, <2>2, MailType DEF Types, Handling, Mail
  <2>4. /\ \A n \in Mails, d \in Contacts : n # m \/ d # c => stored'[n][d] = stored[n][d]
        /\ stored'[m][c] = stored[m][c] + 1
        /\ stored[m][c] \in Nat /\ replies[m][c] \in Nat
    BY <2>1, <2>3 DEF Types
  <2>5. replies'[m][c] < stored'[m][c]
    BY <2>2, <2>3, <2>4 DEF Replies, RepliesFollowMail
  <2>6. ASSUME NEW n \in Mails, NEW d \in Contacts
        PROVE  /\ replies'[n][d] <= stored'[n][d]
               /\ attempt'[n][d] # "absent" => stored'[n][d] > 0
    <3>1. CASE n = m /\ d = c
      BY <2>2, <2>4, <2>5, <3>1
    <3>2. CASE n # m \/ d # c
      BY <2>2, <2>4, <3>2 DEF Replies, RepliesFollowMail
    <3>. QED BY <3>1, <3>2
  <2>7. \A r \in Syncers : r # s => at'[r] \notin Replying
    BY <2>2 DEF Exclusion, Replying
  <2>8. stored'[m][c] > 0
    BY <2>4
  <2>. HIDE DEF m
  <2>9. Unanswered \subseteq Replying
    BY DEF Unanswered, Replying
  <2>. QED BY <2>3, <2>5, <2>6, <2>7, <2>8, <2>9 DEF Replies, RepliesFollowMail
<1>4. ASSUME NEW s \in Syncers,
             OpenAttempt(s) \/ StartAttempt(s) \/ CloseFailed(s) \/ CloseSent(s)
      PROVE  Replies'
  BY <1>4, RepliesSaved
     DEF OpenAttempt, StartAttempt, CloseFailed, CloseSent, AttemptStatuses, Replying,
         Handling, Unanswered
<1>5. ASSUME NEW s \in Syncers, NEW place \in Replying \ Unanswered, at[s] \in Replying,
             GoTo(s, place), UNCHANGED <<stored, replies, attempt, batch, to>>
      PROVE  Replies'
  BY <1>5 DEF Replies, RepliesFollowMail, Replying, Unanswered, Mail, GoTo
<1>6. ASSUME NEW s \in Syncers, Reply(s) \/ ReplyFails(s) PROVE Replies'
  <2>1. /\ at[s] = "reply" /\ (Deliver(s) \/ UNCHANGED replies)
        /\ UNCHANGED <<stored, attempt, batch, to>>
    BY <1>6 DEF Reply, ReplyFails, tableVars
  <2>2. PICK place \in Replying \ Unanswered : GoTo(s, place)
    BY <1>6 DEF Reply, ReplyFails, Replying, Unanswered
  <2>3. CASE Deliver(s)
    BY <2>1, <2>2, <2>3, RepliesDelivered
  <2>4. CASE UNCHANGED replies
    BY <2>1, <2>2, <2>4, <1>5 DEF Replying
  <2>. QED BY <2>1, <2>3, <2>4
<1>7. ASSUME NEW s \in Syncers, RecordReply(s) \/ HandledFault(s) PROVE Replies'
  <2>1. at[s] \in Replying /\ UNCHANGED <<stored, replies, attempt, batch, to>>
    BY <1>7 DEF RecordReply, HandledFault, tableVars, Replying
  <2>2. PICK place \in Replying \ Unanswered : GoTo(s, place)
    BY <1>7 DEF RecordReply, HandledFault, Replying, Unanswered
  <2>. QED BY <2>1, <2>2, <1>5
<1>8. ASSUME NEW s \in Syncers, Leave(s) PROVE Replies'
  <2>1. UNCHANGED <<stored, replies, attempt>> /\ at' = [at EXCEPT ![s] = "idle"]
    BY <1>8 DEF Leave, GoTo, tableVars
  <2>2. \A r \in Syncers : r # s =>
          at'[r] = at[r] /\ batch'[r] = batch[r] /\ to'[r] = to[r]
    BY <1>8, <2>1 DEF Leave
  <2>. QED BY <2>1, <2>2, RepliesStay DEF Replying
<1>9. CASE Restart
  BY <1>9 DEF Restart, tableVars, Replies, RepliesFollowMail, Replying, Unanswered
<1>10. CASE UNCHANGED vars
  BY <1>10 DEF vars, localVars, tableVars, Replies, RepliesFollowMail, Mail
<1>. QED
  BY <1>1, <1>2, <1>3, <1>4, <1>6, <1>7, <1>8, <1>9, <1>10, LeaveSteps DEF Next, Inside

-----------------------------------------------------------------------------
(***************************************************************************)
(* Active attempts.  While nothing has failed, an attempt that is queued   *)
(* or running is that of the mail and the contact somebody is answering.   *)
(***************************************************************************)
InHand(s, m, c) == at[s] \in Replying \ {"open"} /\ Mail(s) = m /\ c \in to[s]

Active ==
    faults = 0 => \A m \in Mails, c \in Contacts :
        attempt[m][c] \in {"queued", "running"} => \E s \in Syncers : InHand(s, m, c)

LEMMA ActiveStep == Types /\ Exclusion /\ Active /\ [Next]_vars => Active'
<1>. SUFFICES ASSUME Types, Exclusion, Active, [Next]_vars, faults' = 0 PROVE Active'
  BY DEF Active
<1>. /\ at \in [Syncers -> Places] /\ batch \in [Syncers -> Seq(Mails)]
     /\ to \in [Syncers -> SUBSET Contacts] /\ faults \in Nat
  BY GmailAssumption DEF Types
<1>1. ASSUME UNCHANGED <<attempt, faults>>,
             \A s \in Syncers : at[s] \in Replying \ {"open"} =>
                /\ at'[s] \in Replying \ {"open"}
                /\ batch'[s] = batch[s] /\ to'[s] = to[s]
      PROVE  Active'
  BY <1>1 DEF Active, InHand, Mail
<1>2. ASSUME NEW m \in Mails, Arrive(m) PROVE Active'
  BY <1>1, <1>2 DEF Arrive, localVars, tableVars
<1>3. ASSUME NEW s \in Syncers, at[s] \notin Replying \ {"open"}, UNCHANGED <<attempt, faults>>,
             \A r \in Syncers : r # s =>
                at'[r] = at[r] /\ batch'[r] = batch[r] /\ to'[r] = to[r]
      PROVE  Active'
  BY <1>1, <1>3
<1>4. ASSUME NEW s \in Syncers,
             \/ Enter(s) \/ Fetch(s) \/ Snapshot(s) \/ Match(s) \/ NextMail(s)
             \/ Store(s) \/ Finish(s) \/ RaiseOnEmpty(s)
      PROVE  Active'
  <2>1. at[s] \in {"idle", "fetch", "snapshot", "mails", "contacts"}
    BY <1>4 DEF Enter, Fetch, Snapshot, Match, NextMail, Store, Finish, RaiseOnEmpty
  <2>2. UNCHANGED <<attempt, faults>>
    BY <1>4 DEF Enter, Fetch, Snapshot, Match, NextMail, Store, Finish, RaiseOnEmpty, Leave,
                tableVars
  <2>3. \A r \in Syncers : r # s =>
          at'[r] = at[r] /\ batch'[r] = batch[r] /\ to'[r] = to[r]
    <3>1. CASE Enter(s) \/ Fetch(s) \/ Snapshot(s) \/ Match(s) \/ NextMail(s)
      BY <3>1 DEF Enter, Fetch, Snapshot, Match, NextMail, GoTo
    <3>2. CASE Store(s)
      BY <3>2 DEF Store, GoTo
    <3>3. CASE Leave(s)
      BY <3>3 DEF Leave, GoTo
    <3>. QED BY <1>4, <3>1, <3>2, <3>3, LeaveSteps
  <2>. QED BY <2>1, <2>2, <2>3, <1>3 DEF Replying
<1>5. ASSUME NEW s \in Syncers, Reply(s) \/ ReplyFails(s) \/ RecordReply(s) PROVE Active'
  <2>1. /\ UNCHANGED <<attempt, faults, batch, to>>
        /\ \E place \in Replying \ {"open"} : GoTo(s, place)
    BY <1>5 DEF Reply, ReplyFails, RecordReply, tableVars, Replying
  <2>. QED BY <1>1, <2>1 DEF GoTo
<1>6. ASSUME NEW s \in Syncers, NEW from \in Replying, NEW status, NEW place \in Handling,
             SaveAttempt(s, from, status, place), faults' = faults,
             \/ status \in {"queued", "running"} /\ place \in Replying \ {"open"}
             \/ status \notin {"queued", "running"}
      PROVE  Active'
  <2>. DEFINE m == Mail(s)
  <2>1. PICK c \in to[s] : attempt' = [attempt EXCEPT ![m][c] = status]
    BY <1>6 DEF SaveAttempt
  <2>2. /\ at[s] \in Replying /\ at' = [at EXCEPT ![s] = place] /\ UNCHANGED <<batch, to>>
        /\ Mail(s)' = m
    BY <1>6 DEF SaveAttempt, GoTo, Mail
  <2>3. m \in Mails /\ c \in Contacts /\ to[s] = {c} /\ faults = 0
    BY <1>6, <2>1, <2>2, MailType DEF Types, Handling
  <2>4. /\ attempt'[m][c] = status
        /\ \A n \in Mails, d \in Contacts : n # m \/ d # c => attempt'[n][d] = attempt[n][d]
    BY <2>1, <2>3 DEF Types
  <2>5. ASSUME NEW n \in Mails, NEW d \in Contacts, attempt[n][d] \in {"queued", "running"}
        PROVE  n = m /\ d = c
    <3>1. PICK r \in Syncers : InHand(r, n, d)
      BY <2>3, <2>5 DEF Active
    <3>2. r = s
      BY <2>2, <3>1 DEF InHand, Exclusion, Replying
    <3>. QED BY <2>3, <3>1, <3>2 DEF InHand
  <2>6. ASSUME NEW n \in Mails, NEW d \in Contacts, attempt'[n][d] \in {"queued", "running"}
        PROVE  InHand(s, n, d)'
    <3>1. n = m /\ d = c
      BY <2>4, <2>5, <2>6
    <3>2. place \in Replying \ {"open"}
      BY <1>6, <2>4, <2>6, <3>1
    <3>. QED BY <2>2, <2>3, <3>1, <3>2 DEF InHand
  <2>. QED BY <2>6 DEF Active
<1>7. ASSUME NEW s \in Syncers,
             OpenAttempt(s) \/ StartAttempt(s) \/ CloseFailed(s) \/ CloseSent(s)
      PROVE  Active'
  <2>1. UNCHANGED faults
    BY <1>7 DEF OpenAttempt, StartAttempt, CloseFailed, CloseSent, SaveAttempt
  <2>. QED
    BY <1>6, <1>7, <2>1 DEF OpenAttempt, StartAttempt, CloseFailed, CloseSent, Replying, Handling
<1>8. ASSUME Fails PROVE FALSE
  BY <1>8 DEF Fails
<1>9. CASE UNCHANGED vars
  BY <1>1, <1>9 DEF vars, localVars, tableVars
<1>. QED
  BY <1>2, <1>4, <1>5, <1>7, <1>8, <1>9 DEF Next, Inside, HandledFault, Abort, Restart

-----------------------------------------------------------------------------
\* The whole invariant.
GmailInv == Types /\ Exclusion /\ Ids /\ Replies /\ Active

LEMMA GmailInvariant == Spec => []GmailInv
<1>1. Init => GmailInv
  <2>. SUFFICES ASSUME Init PROVE Exclusion /\ Ids /\ Replies /\ Active
    BY TypesInit DEF GmailInv
  <2>. /\ at = [s \in Syncers |-> "idle"] /\ stored = PerPair(0) /\ replies = PerPair(0)
       /\ attempt = PerPair("absent")
    BY DEF Init
  <2>1. Exclusion
    BY DEF Exclusion
  <2>2. Ids
    BY GmailAssumption DEF Ids, PerPair, Handling, Replying
  <2>3. Replies
    BY DEF Replies, RepliesFollowMail, PerPair, Replying, Unanswered
  <2>4. Active
    BY DEF Active, PerPair
  <2>. QED BY <2>1, <2>2, <2>3, <2>4
<1>2. GmailInv /\ [Next]_vars => GmailInv'
  BY TypesStep, ExclusionStep, IdsStep, RepliesStep, ActiveStep DEF GmailInv
<1>. QED BY <1>1, <1>2, PTL DEF Spec

(***************************************************************************)
(* Every variable of the sync keeps its type, an answer always has its one *)
(* contact and its mail, and whoever is inside holds the lock.             *)
(***************************************************************************)
THEOREM GmailTypeCorrect == Spec => []GmailTypeOK
<1>1. GmailInv => GmailTypeOK
  <2>. SUFFICES ASSUME GmailInv PROVE GmailTypeOK
    OBVIOUS
  <2>. USE DEF GmailInv
  <2>1. \A i \in DOMAIN mailbox : mailbox[i] \in Mails
    BY DEF Types
  <2>2. \A m \in Mails, c \in Contacts :
          /\ stored[m][c] \in Nat /\ replies[m][c] \in Nat
          /\ attempt[m][c] \in {"absent", "queued", "running", "sent", "failed"}
    BY DEF Types, AttemptStatuses
  <2>3. ASSUME NEW s \in Syncers, at[s] \in Replying
        PROVE  Cardinality(to[s]) = 1 /\ batch[s] # <<>>
    <3>1. PICK c \in Contacts : to[s] = {c}
      BY <2>3 DEF Types
    <3>. QED BY <2>3, <3>1, FS_Singleton DEF Types, Handling
  <2>. QED BY <2>1, <2>2, <2>3 DEF GmailTypeOK, Types, Exclusion, Handling
<1>. QED BY <1>1, GmailInvariant, PTL

(***************************************************************************)
(* A mail with a Message-ID is stored at most once for a contact, and      *)
(* answered at most once, however many callers, failures and restarts.     *)
(***************************************************************************)
THEOREM IdentifiedOnce == Spec => []IdentifiedStoredOnce
<1>1. ASSUME GmailInv, NEW m \in HasMessageId, NEW c \in Contacts
      PROVE  stored[m][c] <= 1 /\ replies[m][c] <= 1
  <2>1. m \in Mails
    BY GmailAssumption
  <2>2. stored[m][c] \in Nat /\ replies[m][c] \in Nat
    BY <1>1, <2>1 DEF GmailInv, Types
  <2>3. stored[m][c] <= 1
    BY <1>1 DEF GmailInv, Ids
  <2>4. replies[m][c] <= stored[m][c]
    BY <1>1, <2>1 DEF GmailInv, Replies, RepliesFollowMail
  <2>. QED BY <2>2, <2>3, <2>4
<1>2. GmailInv => IdentifiedStoredOnce
  BY <1>1 DEF IdentifiedStoredOnce
<1>. QED BY <1>2, GmailInvariant, PTL

(***************************************************************************)
(* Of any mail, a supplier gets no more replies than rows were stored, and *)
(* an attempt is opened only for a stored mail.                            *)
(***************************************************************************)
THEOREM RepliesBacked == Spec => []RepliesFollowMail
<1>1. GmailInv => RepliesFollowMail
  BY DEF GmailInv, Replies
<1>. QED BY <1>1, GmailInvariant, PTL

(***************************************************************************)
(* Without a failure no sync leaves a reply's attempt active behind: every *)
(* way out of the answer saves it as sent or failed.                       *)
(***************************************************************************)
THEOREM NoneLeftActive == Spec => []NoAttemptLeftActive
<1>1. GmailInv => NoAttemptLeftActive
  BY DEF GmailInv, Exclusion, Active, InHand, Replying, NoAttemptLeftActive
<1>. QED BY <1>1, GmailInvariant, PTL

=============================================================================
