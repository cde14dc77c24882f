\* With enforced references, as on D1, the queue is never deleted.
SPECIFICATION FairSpec
CONSTANTS
    s1 = s1
    phone = phone
    tablet = tablet
    alice = alice
    bob = bob
    ask = ask
    late = late
    news = news
    retry = retry
    NoKey = NoKey
    NoMessage = NoMessage
    NoDevice = NoDevice
    NoRecipient = NoRecipient
    Sender = {s1}
    Message = {ask}
    Device = {phone}
    Recipient = {alice}
    Request = {r1}
    MaxClock = 3
    MaxCrashes = 0
    FKEnforced = TRUE
    QueueRetention = 1
    EventRetention = 2
    SenderHome <- MCSenderHome
    Submission <- MCSubmission
PROPERTY QueueIsDeleted
CHECK_DEADLOCK FALSE
