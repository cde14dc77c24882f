\* One synchronisation at the opening and one event, next to two writes or notifications
\* that are late or fail, and a closed page.
SPECIFICATION Spec
CONSTANTS
    m1 = m1
    m2 = m2
    s1 = s1
    s2 = s2
    Message <- Messages
    Sender <- Senders
    SenderOf <- Origins
    Call = {c1, c2}
    FirstSender = s1
    NoContent = NoContent
    Nobody = Nobody
    FallbackWorks = TRUE
    MaxEvents = 1
    MaxCloses = 1
    MaxFaults = 2
INVARIANTS
    AppTypeOK
    TakenBeforeReported
    ShownIsOnServer
    QuietPageIsStored
    LoneSyncKeepsMessages
    SendersCoverInbox
CHECK_DEADLOCK FALSE
