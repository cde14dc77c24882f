\* Two synchronisations overlap; nothing fails.
SPECIFICATION Spec
CONSTANTS
    m1 = m1
    m2 = m2
    s1 = s1
    s2 = s2
    Message <- Messages
    Sender <- OneSender
    SenderOf <- OneOrigin
    Call = {c1, c2}
    FirstSender = s1
    NoContent = NoContent
    Nobody = Nobody
    FallbackWorks = TRUE
    MaxEvents = 1
    MaxCloses = 0
    MaxFaults = 0
INVARIANTS
    DeliveredIsKept
CHECK_DEADLOCK FALSE
