\* Copies of a signed request, and unsigned ones that count in two buckets, with
\* the clock past the retention of nonces and buckets.
SPECIFICATION Spec
CONSTANTS
    phone = phone
    fetch = fetch
    start = start
    perEmail = perEmail
    perIp = perIp
    Unsigned = Unsigned
    NoCall = NoCall
    Subject = {phone}
    Call = {fetch, start}
    Bucket = {perEmail, perIp}
    Request = {r1, r2}
    Second = 2
    Skew = 2
    BucketRetention = 5
    MaxDelay = 1
    MaxClock = 6
    Signature <- MCSignature
    Checks <- MCChecks
    Limit <- MCLimit
    Window <- MCWindow
SYMMETRY Symmetry
INVARIANTS GateTypeOK LetThroughOnce QuotaHolds RetryReachesNextWindow
CHECK_DEADLOCK FALSE
