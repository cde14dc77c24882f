\* Two devices of one recipient and two requests in flight, statement by statement.
SPECIFICATION Spec
CONSTANTS
    s1 = s1
    phone = phone
    tablet = tablet
    alice = alice
    bob = bob
    ask = ask
    late = late
    news = news
    retry = retry
    NoKey = NoKey
    NoMessage = NoMessage
    NoDevice = NoDevice
    NoRecipient = NoRecipient
    Sender = {s1}
    Message = {ask}
    Device = {phone, tablet}
    Recipient = {alice}
    Request = {r1, r2}
    MaxClock = 1
    MaxCrashes = 0
    FKEnforced = TRUE
    QueueRetention = 1
    EventRetention = 1
    SenderHome <- MCSenderHome
    Submission <- MCSubmission
SYMMETRY Symmetry
INVARIANTS ResponsesFitTheirMessage ConfirmedAdvances
PROPERTY SenderSeesView
CHECK_DEADLOCK FALSE
