\* A device that moves between recipients, and the whole retention job on a database that does not enforce references.
SPECIFICATION Spec
CONSTANTS
    s1 = s1
    phone = phone
    tablet = tablet
    alice = alice
    bob = bob
    ask = ask
    late = late
    news = news
    retry = retry
    NoKey = NoKey
    NoMessage = NoMessage
    NoDevice = NoDevice
    NoRecipient = NoRecipient
    Sender = {s1}
    Message = {late}
    Device = {phone}
    Recipient = {alice, bob}
    Request = {r1}
    MaxClock = 4
    MaxCrashes = 1
    FKEnforced = FALSE
    QueueRetention = 1
    EventRetention = 2
    SenderHome <- MCSenderHome
    Submission <- MCSubmission
INVARIANTS ServerTypeOK RespondedHasResponse DeliveredWasConfirmed AcceptedIsDeliverable
PROPERTY OnlyRetiredAreDeleted
CHECK_DEADLOCK FALSE
