\* Two messages sent under one key; the job fails on the referenced envelopes.
SPECIFICATION FairSpec
CONSTANTS
    s1 = s1
    phone = phone
    tablet = tablet
    alice = alice
    bob = bob
    ask = ask
    late = late
    news = news
    retry = retry
    NoKey = NoKey
    NoMessage = NoMessage
    NoDevice = NoDevice
    NoRecipient = NoRecipient
    Sender = {s1}
    Message = {ask, retry}
    Device = {phone}
    Recipient = {alice}
    Request = {r1}
    MaxClock = 2
    MaxCrashes = 1
    FKEnforced = TRUE
    QueueRetention = 1
    EventRetention = 1
    SenderHome <- MCSenderHome
    Submission <- MCSubmission
PROPERTY OpenMessagesSettle
CHECK_DEADLOCK FALSE
