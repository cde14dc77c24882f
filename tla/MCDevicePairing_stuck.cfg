SPECIFICATION FairSpec
CONSTANTS
    Link = {mail}
    Code = {code}
    NoSession = NoSession
    Approval = {a, b}
    MaxDevices = 2
    MaxChecks = 1
    MaxEvents = 2

PROPERTY AsksToApprove
CHECK_DEADLOCK FALSE
