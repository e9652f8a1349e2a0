SPECIFICATION FairSpec
CONSTANTS
    m1 = m1
    m2 = m2
    m3 = m3
    m4 = m4
    c1 = c1
    c2 = c2
    loop = loop
    endpoint = endpoint
    Mails <- AllMails
    Contacts <- MCContacts
    ContactsOf <- Matches
    HasMessageId <- AllMails
    Readable <- WithText
    Syncers <- MCSyncers
    Loops <- MCLoops
    Limit = 2
    MaxFaults = 1
INVARIANTS
    GmailTypeOK
    IdentifiedStoredOnce
    RepliesFollowMail
    NoAttemptLeftActive
PROPERTIES
    MailsInReachAreStored
