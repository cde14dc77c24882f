SPECIFICATION FairSpec
CONSTANTS
    Link = {mail}
    Code = {code}
    NoSession = NoSession
    Approval = {a, b}
    MaxDevices = 2
    MaxChecks = 1
    MaxEvents = 2
INVARIANTS OnboardTypeOK ReadyIsPaired ApprovedAsShown GrantedIsSubscribed PairedKeysAreHeld
PROPERTIES IdentityIsKept SetupGoesOn
CHECK_DEADLOCK FALSE
