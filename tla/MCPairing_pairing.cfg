\* Setup emails and codes, approved by devices with and without a recipient of their
\* own, with a request cut off at any statement and up to the end of the sessions.
SPECIFICATION Spec
CONSTANTS
    NoSession = NoSession
    NoAgent = NoAgent
    NoDevice = NoDevice
    NoRecipient = NoRecipient
    NoEmail = NoEmail
    NoSender = NoSender
    Session = {p1, p2}
    Agent = {a1}
    Device = {d1, d2}
    Recipient = {alice, bob, carol}
    Email = {mail}
    SenderId = {x1, x2}
    Request = {r1, r2}
    Lifetime = 1
    MaxClock = 2
    MaxCrashes = 1
SYMMETRY Symmetry
INVARIANTS PairingTypeOK RecipientsExist EmailPairsItsOwner PairedNamesItsSender
PROPERTY StatusMovesForward
CHECK_DEADLOCK FALSE
