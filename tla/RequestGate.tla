----------------------------- MODULE RequestGate ----------------------------
(***************************************************************************)
(* What a request passes before its handler: verifySenderRequest or        *)
(* verifyDeviceRequest (auth.ts), which records a nonce, and               *)
(* enforceRateLimits (rate-limit-service.ts), which counts in fixed        *)
(* windows.  One action per statement; the two sweeps that end the         *)
(* retention job delete old buckets and nonces meanwhile.                  *)
(***************************************************************************)
EXTENDS Integers, Sequences

CONSTANTS
    Subject,     \* senders and devices
    Call,        \* requests as their clients send them; each may arrive repeatedly
    Signature,   \* per call: the signed subject, nonce and time, or Unsigned
    Unsigned,
    Checks,      \* per call: the buckets its route checks, in order
    Bucket,      \* policy and scopeId
    Limit, Window,   \* per bucket: maxAttempts and the length of a window
    Second,          \* clock units per second
    Skew,            \* MAX_SKEW_MS
    BucketRetention, \* RATE_LIMIT_BUCKET_RETENTION_DAYS
    MaxDelay,    \* a request spends at most this long between two statements of its limits
    Request,     \* slots for requests in flight at the same time
    NoCall,
    MaxClock     \* bound of the model: the last clock value

Time == 0 .. MaxClock

ASSUME GateAssumption ==
    /\ Signature \in [Call -> [subject : Subject, nonce : STRING, time : Nat] \cup {Unsigned}]
    /\ Checks \in [Call -> Seq(Bucket)]
    /\ Limit \in [Bucket -> Nat \ {0}] /\ Window \in [Bucket -> Nat \ {0}]
    /\ Second \in Nat \ {0} /\ Skew \in Nat /\ MaxDelay \in Nat /\ MaxClock \in Nat
    /\ BucketRetention \in Nat
    /\ \A b \in Bucket : Window[b] % Second = 0
    /\ \A b \in Bucket : Window[b] + MaxDelay <= BucketRetention
    /\ NoCall \notin Call

VARIABLES
    clock,
    revoked,     \* subjects with revokedAt
    nonces,      \* auth_nonces
    count,       \* rate_limit_buckets: count per bucket and window start, 0 without a row
    updated,     \* ... and updatedAt
    req,         \* the requests in flight
    sweep,       \* the last two statements of the retention job
    accepted,    \* history: how often each signed call was let through
    passed       \* history: how many requests each bucket let through per window

tables == <<revoked, nonces, count, updated>>
gateVars == <<clock, tables, req, sweep, accepted, passed>>

CallAt(label, c) == [pc |-> label, call |-> c, at |-> 0, next |-> 1]
Idle == CallAt("idle", NoCall)
SweepIdle == [pc |-> "idle", at |-> 0]

Init ==
    /\ clock = 0
    /\ revoked = {}
    /\ nonces = {}
    /\ count = [b \in Bucket |-> [w \in Time |-> 0]]
    /\ updated = [b \in Bucket |-> [w \in Time |-> 0]]
    /\ req = [r \in Request |-> Idle]
    /\ sweep = SweepIdle
    /\ accepted = [c \in Call |-> 0]
    /\ passed = [b \in Bucket |-> [w \in Time |-> 0]]

Finish(r) == req' = [req EXCEPT ![r] = Idle]
Goto(r, label) == req' = [req EXCEPT ![r].pc = label]

-----------------------------------------------------------------------------
(* verifySenderRequest, verifyDeviceRequest *)

ReadSubject(r, c) ==
    /\ req[r].pc = "idle"
    /\ Signature[c] # Unsigned
    /\ Signature[c].subject \notin revoked
    /\ req' = [req EXCEPT ![r] = CallAt("check_fresh", c)]
    /\ UNCHANGED <<clock, tables, sweep, accepted, passed>>

\* The signature itself is that of the client that sent the call.
CheckFresh(r) ==
    /\ req[r].pc = "check_fresh"
    /\ IF /\ clock - Signature[req[r].call].time <= Skew
          /\ Signature[req[r].call].time - clock <= Skew
       THEN Goto(r, "record_nonce")
       ELSE Finish(r)
    /\ UNCHANGED <<clock, tables, sweep, accepted, passed>>

\* A nonce is remembered for as long as its timestamp can be fresh.
Expiry(c) == Signature[c].time + Skew

NonceRow(c) == [subject |-> Signature[c].subject, nonce |-> Signature[c].nonce]
IsRecorded(c) == \E n \in nonces : n.row = NonceRow(c)

\* Mutant: the lifetime of a nonce starts when it arrives.
RecordNonceFromArrival(r) ==
    /\ req[r].pc = "record_nonce"
    /\ LET c == req[r].call
       IN  IF IsRecorded(c)
           THEN Finish(r) /\ UNCHANGED <<nonces, accepted>>
           ELSE /\ nonces' = nonces \cup {[row |-> NonceRow(c), expiresAt |-> clock + Skew]}
                /\ accepted' = [accepted EXCEPT ![c] = @ + 1]
                /\ Goto(r, "limits")
    /\ UNCHANGED <<clock, revoked, count, updated, sweep, passed>>

\* The unique index refuses the nonce a second time.
RecordNonce(r) ==
    /\ req[r].pc = "record_nonce"
    /\ LET c == req[r].call
       IN  IF IsRecorded(c)
           THEN Finish(r) /\ UNCHANGED <<nonces, accepted>>
           ELSE /\ nonces' = nonces \cup {[row |-> NonceRow(c), expiresAt |-> Expiry(c)]}
                /\ accepted' = [accepted EXCEPT ![c] = @ + 1]
                /\ Goto(r, "limits")
    /\ UNCHANGED <<clock, revoked, count, updated, sweep, passed>>

-----------------------------------------------------------------------------
(* enforceRateLimits *)

\* A route without authentication.
Arrive(r, c) ==
    /\ req[r].pc = "idle"
    /\ Signature[c] = Unsigned
    /\ req' = [req EXCEPT ![r] = CallAt("limits", c)]
    /\ UNCHANGED <<clock, tables, sweep, accepted, passed>>

\* Mutant: every route is taken to have a limit.
StartAnyLimits(r) ==
    /\ req[r].pc = "limits"
    /\ req' = [req EXCEPT ![r] = [@ EXCEPT !.pc = "consume", !.at = clock]]
    /\ UNCHANGED <<clock, tables, sweep, accepted, passed>>

\* The time is read once, for all the buckets of the route.
StartLimits(r) ==
    /\ req[r].pc = "limits"
    /\ IF Checks[req[r].call] = <<>>
       THEN Finish(r)
       ELSE req' = [req EXCEPT ![r] = [@ EXCEPT !.pc = "consume", !.at = clock]]
    /\ UNCHANGED <<clock, tables, sweep, accepted, passed>>

WindowStart(b, t) == (t \div Window[b]) * Window[b]

\* Mutant: rounded down.
RetryAfterFloor(b, t) ==
    LET left == WindowStart(b, t) + Window[b] - t
    IN  IF left < Second THEN 1 ELSE left \div Second

\* Whole seconds until the window of time t is over, at least one.
RetryAfter(b, t) ==
    LET left == WindowStart(b, t) + Window[b] - t
    IN  IF left < Second THEN 1 ELSE (left + Second - 1) \div Second

\* Without a row the insert succeeds; otherwise the update needs count < maxAttempts.
HasRoom(b, w) == count[b][w] = 0 \/ count[b][w] < Limit[b]

\* One upsert per bucket; what earlier buckets of the route counted stays counted.
Consume(r) ==
    /\ req[r].pc = "consume"
    /\ LET b == Checks[req[r].call][req[r].next]
           w == WindowStart(b, req[r].at)
       IN  IF HasRoom(b, w)
           THEN /\ count' = [count EXCEPT ![b][w] = @ + 1]
                /\ updated' = [updated EXCEPT ![b][w] = req[r].at]
                /\ passed' = [passed EXCEPT ![b][w] = @ + 1]
                /\ IF req[r].next = Len(Checks[req[r].call])
                   THEN Finish(r)
                   ELSE req' = [req EXCEPT ![r].next = @ + 1]
           ELSE Finish(r) /\ UNCHANGED <<count, updated, passed>>
    /\ UNCHANGED <<clock, revoked, nonces, sweep, accepted>>

-----------------------------------------------------------------------------
(* runRetention, its last two statements: the time was read when the job started. *)

StartSweep ==
    /\ sweep.pc = "idle"
    /\ sweep' = [pc |-> "buckets", at |-> clock]
    /\ UNCHANGED <<clock, tables, req, accepted, passed>>

\* Mutant: the cutoff is the time of the job.
IsStale(b, w) == updated[b][w] < sweep.at

IsOld(b, w) == updated[b][w] < sweep.at - BucketRetention

SweepBuckets ==
    /\ sweep.pc = "buckets"
    /\ count' = [b \in Bucket |-> [w \in Time |-> IF IsOld(b, w) THEN 0 ELSE count[b][w]]]
    /\ updated' = [b \in Bucket |-> [w \in Time |-> IF IsOld(b, w) THEN 0 ELSE updated[b][w]]]
    /\ sweep' = [sweep EXCEPT !.pc = "nonces"]
    /\ UNCHANGED <<clock, revoked, nonces, req, accepted, passed>>

SweepNonces ==
    /\ sweep.pc = "nonces"
    /\ nonces' = {n \in nonces : n.expiresAt >= sweep.at}
    /\ sweep' = SweepIdle
    /\ UNCHANGED <<clock, revoked, count, updated, req, accepted, passed>>

-----------------------------------------------------------------------------

Revoke(s) ==
    /\ revoked' = revoked \cup {s}
    /\ UNCHANGED <<clock, nonces, count, updated, req, sweep, accepted, passed>>

\* A request or a run of the job is cut off between two statements.
Cut ==
    /\ \/ UNCHANGED sweep /\ \E r \in Request : req[r].pc # "idle" /\ Finish(r)
       \/ UNCHANGED req /\ sweep.pc # "idle" /\ sweep' = SweepIdle
    /\ UNCHANGED <<clock, tables, accepted, passed>>

\* No request stays longer than MaxDelay between its limits' time and their statements.
Tick ==
    /\ clock < MaxClock
    /\ \A r \in Request : req[r].pc = "consume" => clock < req[r].at + MaxDelay
    /\ clock' = clock + 1
    /\ UNCHANGED <<tables, req, sweep, accepted, passed>>

RequestStep(r) ==
    \/ \E c \in Call : ReadSubject(r, c) \/ Arrive(r, c)
    \/ CheckFresh(r)
    \/ RecordNonce(r)
    \/ StartLimits(r)
    \/ Consume(r)

Next ==
    \/ \E r \in Request : RequestStep(r)
    \/ StartSweep \/ SweepBuckets \/ SweepNonces
    \/ \E s \in Subject : Revoke(s)
    \/ Cut
    \/ Tick

Spec == Init /\ [][Next]_gateVars

-----------------------------------------------------------------------------
CallsInFlight ==
    [pc : {"idle", "check_fresh", "record_nonce", "limits", "consume"},
     call : Call \cup {NoCall}, at : Time, next : Nat]

\* What x.pc says about the rest of a request.
CallFits(x) ==
    /\ x.pc # "idle" => x.call \in Call
    /\ x.pc \in {"check_fresh", "record_nonce"} => Signature[x.call] # Unsigned
    /\ IF x.pc = "consume" THEN x.next \in DOMAIN Checks[x.call] ELSE x.next = 1

\* The tables and requests hold values of their types, only signed calls are
\* authenticated, and a request that counts has a bucket left to count in.
GateTypeOK ==
    /\ clock \in Time
    /\ revoked \subseteq Subject
    /\ nonces \subseteq [row : [subject : Subject, nonce : STRING], expiresAt : Nat]
    /\ count \in [Bucket -> [Time -> Nat]]
    /\ updated \in [Bucket -> [Time -> Time]]
    /\ req \in [Request -> CallsInFlight]
    /\ \A r \in Request : CallFits(req[r])
    /\ sweep \in [pc : {"idle", "buckets", "nonces"}, at : Time]
    /\ accepted \in [Call -> Nat]
    /\ passed \in [Bucket -> [Time -> Nat]]

\* Within one window a bucket lets at most maxAttempts requests through, although
\* requests count with a time read earlier and the retention job deletes counters
\* (rate-limit-service.ts:98-119, retention-service.ts:61).
QuotaHolds == \A b \in Bucket, w \in Time : passed[b][w] <= Limit[b]

\* As long as its timestamp is fresh a signed call is let through at most once,
\* however often and however slowly its copies arrive and whenever nonces are
\* pruned (auth.ts:85-108, retention-service.ts:62).
LetThroughOnce ==
    \A c \in Call : Signature[c] # Unsigned /\ clock <= Expiry(c) => accepted[c] <= 1

\* Were it refused, a request that waits the whole seconds of retryAfterSeconds is
\* in a later window, and one second less would not do (rate-limit-service.ts:130-137).
RetryReachesNextWindow ==
    \A r \in Request : req[r].pc = "consume" =>
        LET b == Checks[req[r].call][req[r].next]
            t == req[r].at
            wait == RetryAfter(b, t)
        IN  /\ WindowStart(b, t + wait * Second) > WindowStart(b, t)
            /\ wait = 1 \/ WindowStart(b, t + (wait - 1) * Second) = WindowStart(b, t)
=============================================================================
