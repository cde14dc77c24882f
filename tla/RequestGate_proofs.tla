------------------------- MODULE RequestGate_proofs -------------------------
(***************************************************************************)
(* Theorems about RequestGate, for any sets of calls, buckets and requests *)
(* in flight and any periods that satisfy GateAssumption.                  *)
(***************************************************************************)
EXTENDS RequestGate, TLAPS

\* Rounding a time down to a multiple of the window stays within one window of it.
LEMMA Rounding ==
    ASSUME NEW n \in Nat \ {0}, NEW t \in Nat
    PROVE  /\ (t \div n) * n \in Nat
           /\ (t \div n) * n <= t
           /\ t < (t \div n) * n + n
<1> DEFINE q == t \div n
           k == t % n
<1>1. q \in Nat /\ k \in Nat /\ k < n /\ t = n * q + k
  BY SMT
<1>2. q * n = n * q /\ n * q \in Nat
  BY <1>1, SMT
<1>3. q * n \in Nat /\ q * n <= t /\ t < q * n + n
  <2> HIDE DEF q, k
  <2>1. \A p \in Nat : t = p + k => p <= t /\ t < p + n
    BY <1>1, SMT
  <2>2. QED
    BY <1>1, <1>2, <2>1
<1>4. QED
  BY <1>3

\* The window a request counts in contains the time it counts with.
LEMMA WindowBounds ==
    ASSUME NEW b \in Bucket, NEW t \in Time
    PROVE  /\ WindowStart(b, t) \in Time
           /\ WindowStart(b, t) <= t
           /\ t < WindowStart(b, t) + Window[b]
<1>1. Window[b] \in Nat \ {0} /\ MaxClock \in Nat
  BY GateAssumption
<1>2. t \in Nat /\ t <= MaxClock
  BY <1>1 DEF Time
<1>3. /\ WindowStart(b, t) \in Nat
      /\ WindowStart(b, t) <= t
      /\ t < WindowStart(b, t) + Window[b]
  BY <1>1, <1>2, Rounding DEF WindowStart
<1>4. WindowStart(b, t) \in Time
  BY <1>1, <1>2, <1>3 DEF Time
<1>5. QED
  BY <1>3, <1>4

-----------------------------------------------------------------------------
(* The inductive invariant *)

\* A request counts with a time that is at most MaxDelay old.
CountsInTime == \A r \in Request :
    req[r].pc = "consume" => req[r].at <= clock /\ clock <= req[r].at + MaxDelay

\* No request can count in window w of bucket b any more.
Dead(b, w) == w + Window[b] + MaxDelay < clock

\* The counter of a window that is not dead is what the bucket let through in it.
CountersCount == \A b \in Bucket, w \in Time :
    /\ count[b][w] <= Limit[b]
    /\ count[b][w] > 0 => w <= updated[b][w]
    /\ count[b][w] = passed[b][w] \/ Dead(b, w)

\* The nonce of a call that was let through is stored while its timestamp is fresh.
NoncesLast == \A c \in Call :
    Signature[c] # Unsigned /\ accepted[c] # 0 =>
        clock > Expiry(c) \/ [row |-> NonceRow(c), expiresAt |-> Expiry(c)] \in nonces

SweepInTime == sweep.at <= clock

IInv ==
    /\ GateTypeOK
    /\ CountsInTime
    /\ SweepInTime
    /\ CountersCount
    /\ QuotaHolds
    /\ NoncesLast
    /\ LetThroughOnce

\* The constants, typed as the leaves below use them.
LEMMA Constants ==
    /\ MaxClock \in Nat /\ MaxDelay \in Nat /\ Skew \in Nat /\ BucketRetention \in Nat
    /\ Second \in Nat \ {0}
    /\ \A b \in Bucket : /\ Limit[b] \in Nat \ {0} /\ Window[b] \in Nat \ {0}
                         /\ Window[b] + MaxDelay <= BucketRetention
    /\ \A c \in Call : Signature[c] # Unsigned =>
          /\ Signature[c] \in [subject : Subject, nonce : STRING, time : Nat]
          /\ Expiry(c) \in Nat
          /\ NonceRow(c) \in [subject : Subject, nonce : STRING]
    /\ \A c \in Call : Checks[c] \in Seq(Bucket)
<1>1. \A c \in Call : Signature[c] # Unsigned =>
          Signature[c] \in [subject : Subject, nonce : STRING, time : Nat]
  BY GateAssumption
<1>2. Skew \in Nat
  BY GateAssumption
<1>3. \A c \in Call : Signature[c] # Unsigned =>
          Expiry(c) \in Nat /\ NonceRow(c) \in [subject : Subject, nonce : STRING]
  BY <1>1, <1>2 DEF Expiry, NonceRow
<1>4. QED
  BY <1>1, <1>3, GateAssumption

\* The model's time starts at zero.
LEMMA ZeroIsTime == 0 \in Time
BY Constants DEF Time

\* Clock values are numbers.
LEMMA TimeIsNat == \A t \in Time : t \in Nat
BY Constants DEF Time

\* The clock and the two times in flight are numbers.
LEMMA TimesAreNat ==
    ASSUME GateTypeOK
    PROVE  /\ clock \in Nat /\ sweep.at \in Nat
           /\ \A r \in Request : req[r] \in CallsInFlight /\ req[r].at \in Nat
           /\ req \in [Request -> CallsInFlight]
<1>1. clock \in Time /\ sweep.at \in Time
  BY DEF GateTypeOK
<1>2. \A r \in Request : req[r] \in CallsInFlight /\ req[r].at \in Time
  BY DEF GateTypeOK, CallsInFlight
<1>3. req \in [Request -> CallsInFlight]
  BY DEF GateTypeOK
<1>4. QED
  BY <1>1, <1>2, <1>3, TimeIsNat

\* The counters are numbers.
LEMMA CountersAreNat ==
    ASSUME GateTypeOK
    PROVE  /\ count \in [Bucket -> [Time -> Nat]]
           /\ passed \in [Bucket -> [Time -> Nat]]
           /\ updated \in [Bucket -> [Time -> Time]]
           /\ \A b \in Bucket, w \in Time : updated[b][w] \in Nat /\ count[b][w] \in Nat
<1>1. /\ count \in [Bucket -> [Time -> Nat]]
      /\ passed \in [Bucket -> [Time -> Nat]]
      /\ updated \in [Bucket -> [Time -> Time]]
  BY DEF GateTypeOK
<1>2. QED
  BY <1>1, TimeIsNat

\* The invariant holds at the start.
LEMMA InitInv == Init => IInv
<1> SUFFICES ASSUME Init PROVE IInv
  OBVIOUS
<1> USE DEF Init, Idle, CallAt, SweepIdle
<1>1. 0 \in Time
  BY ZeroIsTime
<1>2. GateTypeOK
  BY <1>1 DEF GateTypeOK, CallsInFlight, CallFits
<1>3. CountsInTime /\ SweepInTime /\ NoncesLast
  BY DEF CountsInTime, SweepInTime, NoncesLast
<1>4. CountersCount /\ QuotaHolds
  BY Constants DEF CountersCount, QuotaHolds
<1>5. LetThroughOnce
  BY DEF LetThroughOnce
<1>6. QED
  BY <1>2, <1>3, <1>4, <1>5 DEF IInv

-----------------------------------------------------------------------------
(* Types *)

\* A request that moves stays well typed.
LEMMA MoveTypes ==
    ASSUME GateTypeOK, NEW r \in Request, NEW x \in CallsInFlight, CallFits(x),
           req' = [req EXCEPT ![r] = x]
    PROVE  req' \in [Request -> CallsInFlight] /\ \A q \in Request : CallFits(req'[q])
<1>1. req \in [Request -> CallsInFlight] /\ \A q \in Request : CallFits(req[q])
  BY DEF GateTypeOK
<1> HIDE DEF CallFits
<1>2. QED
  BY <1>1

\* Ending a request keeps the requests well typed.
LEMMA FinishTypes ==
    ASSUME GateTypeOK, NEW r \in Request, Finish(r)
    PROVE  req' \in [Request -> CallsInFlight] /\ \A q \in Request : CallFits(req'[q])
<1>1. Idle \in CallsInFlight /\ CallFits(Idle)
  BY Constants DEF Idle, CallAt, CallsInFlight, Time, CallFits
<1>2. QED
  BY <1>1, MoveTypes DEF Finish

\* The steps of the authentication keep everything well typed.
LEMMA AuthTypes ==
    ASSUME GateTypeOK, NEW r \in Request,
           \/ \E c \in Call : ReadSubject(r, c) \/ Arrive(r, c)
           \/ CheckFresh(r) \/ RecordNonce(r)
    PROVE  GateTypeOK'
<1> USE DEF tables
<1>0. req[r] \in CallsInFlight /\ CallFits(req[r]) /\ req \in [Request -> CallsInFlight]
  BY DEF GateTypeOK
<1>1. ASSUME NEW c \in Call, ReadSubject(r, c) PROVE GateTypeOK'
  <2> DEFINE x == [pc |-> "check_fresh", call |-> c, at |-> 0, next |-> 1]
  <2>1. x \in CallsInFlight /\ CallFits(x)
    BY <1>1, ZeroIsTime DEF ReadSubject, CallsInFlight, CallFits
  <2>2. req' = [req EXCEPT ![r] = x]
    BY <1>1 DEF ReadSubject, CallAt
  <2>3. req' \in [Request -> CallsInFlight] /\ \A q \in Request : CallFits(req'[q])
    BY <2>1, <2>2, MoveTypes
  <2>4. QED
    BY <1>1, <2>3 DEF ReadSubject, GateTypeOK
<1>2. ASSUME NEW c \in Call, Arrive(r, c) PROVE GateTypeOK'
  <2> DEFINE x == [pc |-> "limits", call |-> c, at |-> 0, next |-> 1]
  <2>1. x \in CallsInFlight /\ CallFits(x)
    BY <1>2, ZeroIsTime DEF Arrive, CallsInFlight, CallFits
  <2>2. req' = [req EXCEPT ![r] = x]
    BY <1>2 DEF Arrive, CallAt
  <2>3. req' \in [Request -> CallsInFlight] /\ \A q \in Request : CallFits(req'[q])
    BY <2>1, <2>2, MoveTypes
  <2>4. QED
    BY <1>2, <2>3 DEF Arrive, GateTypeOK
<1>3. CASE CheckFresh(r)
  <2> DEFINE x == [req[r] EXCEPT !.pc = "record_nonce"]
  <2>1. x \in CallsInFlight /\ CallFits(x)
    BY <1>0, <1>3 DEF CheckFresh, CallsInFlight, CallFits
  <2>2. Goto(r, "record_nonce") => req' = [req EXCEPT ![r] = x]
    BY <1>0 DEF Goto
  <2>3. req' \in [Request -> CallsInFlight] /\ \A q \in Request : CallFits(req'[q])
    BY <1>3, <2>1, <2>2, MoveTypes, FinishTypes DEF CheckFresh
  <2>4. QED
    BY <1>3, <2>3 DEF CheckFresh, GateTypeOK
<1>4. CASE RecordNonce(r)
  <2> DEFINE c == req[r].call
             x == [req[r] EXCEPT !.pc = "limits"]
  <2>1. x \in CallsInFlight /\ CallFits(x) /\ c \in Call /\ Signature[c] # Unsigned
    BY <1>0, <1>4 DEF RecordNonce, CallsInFlight, CallFits
  <2>2. Goto(r, "limits") => req' = [req EXCEPT ![r] = x]
    BY <1>0 DEF Goto
  <2>3. req' \in [Request -> CallsInFlight] /\ \A q \in Request : CallFits(req'[q])
    BY <1>4, <2>1, <2>2, MoveTypes, FinishTypes DEF RecordNonce
  <2>4. NonceRow(c) \in [subject : Subject, nonce : STRING] /\ Expiry(c) \in Nat
    BY <2>1, Constants
  <2>5. /\ nonces' \subseteq [row : [subject : Subject, nonce : STRING], expiresAt : Nat]
        /\ accepted' \in [Call -> Nat]
    BY <1>4, <2>1, <2>4 DEF RecordNonce, GateTypeOK
  <2>6. QED
    BY <1>4, <2>3, <2>5 DEF RecordNonce, GateTypeOK
<1>5. QED
  BY <1>1, <1>2, <1>3, <1>4

\* The limits keep everything well typed.
LEMMA LimitTypes ==
    ASSUME GateTypeOK, NEW r \in Request, StartLimits(r) \/ Consume(r)
    PROVE  GateTypeOK'
<1> USE DEF tables
<1>0. req[r] \in CallsInFlight /\ CallFits(req[r]) /\ req \in [Request -> CallsInFlight]
  BY DEF GateTypeOK
<1>1. CASE StartLimits(r)
  <2> DEFINE x == [req[r] EXCEPT !.pc = "consume", !.at = clock]
  <2>1. x \in CallsInFlight
    BY <1>0 DEF CallsInFlight, GateTypeOK
  <2>2. CASE Finish(r)
    BY <1>1, <2>2, FinishTypes DEF StartLimits, GateTypeOK
  <2>3. CASE ~Finish(r)
    <3>1. CallFits(x)
      <4>1. x.pc = "consume" /\ x.call = req[r].call /\ x.next = req[r].next
        BY <1>0 DEF CallsInFlight
      <4>2. req[r].call \in Call /\ Checks[req[r].call] # <<>> /\ req[r].next = 1
        BY <1>0, <1>1, <2>3 DEF StartLimits, CallFits
      <4>3. Checks[req[r].call] \in Seq(Bucket)
        BY <4>2, Constants
      <4>4. 1 \in DOMAIN Checks[req[r].call]
        BY <4>2, <4>3
      <4>5. QED
        BY <4>1, <4>2, <4>4 DEF CallFits
    <3>2. QED
      BY <1>1, <2>1, <2>3, <3>1, MoveTypes DEF StartLimits, GateTypeOK
  <2>4. QED
    BY <2>2, <2>3
<1>2. CASE Consume(r)
  <2> DEFINE c == req[r].call
             b == Checks[c][req[r].next]
             w == WindowStart(b, req[r].at)
             x == [req[r] EXCEPT !.next = @ + 1]
  <2>1. c \in Call /\ req[r].next \in DOMAIN Checks[c] /\ req[r].at \in Time
    BY <1>0, <1>2 DEF Consume, CallFits, CallsInFlight
  <2>2. b \in Bucket /\ DOMAIN Checks[c] = 1 .. Len(Checks[c]) /\ Len(Checks[c]) \in Nat
    BY <2>1, Constants
  <2>3. w \in Time
    BY <2>1, <2>2, WindowBounds
  <2>4. CASE HasRoom(b, w)
    <3>1. /\ count' \in [Bucket -> [Time -> Nat]]
          /\ passed' \in [Bucket -> [Time -> Nat]]
          /\ updated' \in [Bucket -> [Time -> Time]]
      <4>1. /\ count' = [count EXCEPT ![b][w] = @ + 1]
            /\ passed' = [passed EXCEPT ![b][w] = @ + 1]
            /\ updated' = [updated EXCEPT ![b][w] = req[r].at]
        BY <1>2, <2>4 DEF Consume
      <4>2. /\ count \in [Bucket -> [Time -> Nat]]
            /\ passed \in [Bucket -> [Time -> Nat]]
            /\ updated \in [Bucket -> [Time -> Time]]
        BY DEF GateTypeOK
      <4> HIDE DEF b, w
      <4>3. count' \in [Bucket -> [Time -> Nat]]
        BY <2>2, <2>3, <4>1, <4>2
      <4>4. passed' \in [Bucket -> [Time -> Nat]]
        BY <2>2, <2>3, <4>1, <4>2
      <4>5. updated' \in [Bucket -> [Time -> Time]]
        BY <2>1, <2>2, <2>3, <4>1, <4>2
      <4>6. QED
        BY <4>3, <4>4, <4>5
    <3>2. req' \in [Request -> CallsInFlight] /\ \A q \in Request : CallFits(req'[q])
      <4>1. CASE req[r].next = Len(Checks[c])
        BY <1>2, <2>4, <4>1, FinishTypes DEF Consume
      <4>2. CASE req[r].next # Len(Checks[c])
        <5>1. x \in CallsInFlight /\ CallFits(x)
          <6>1. x \in CallsInFlight /\ x.pc = "consume" /\ x.call = c /\ x.next = req[r].next + 1
            <7>1. req[r].pc = "consume" /\ req[r].next \in Nat
              BY <1>0, <1>2 DEF Consume, CallsInFlight
            <7>2. QED
              BY <1>0, <7>1 DEF CallsInFlight
          <6>2. req[r].next + 1 \in DOMAIN Checks[c]
            BY <2>1, <2>2, <4>2
          <6>3. QED
            BY <2>1, <6>1, <6>2 DEF CallFits
        <5>2. req' = [req EXCEPT ![r] = x]
          BY <1>0, <1>2, <2>4, <4>2 DEF Consume
        <5>3. QED
          BY <5>1, <5>2, MoveTypes
      <4>3. QED
        BY <4>1, <4>2
    <3>3. QED
      BY <1>2, <2>4, <3>1, <3>2 DEF Consume, GateTypeOK
  <2>5. CASE ~HasRoom(b, w)
    BY <1>2, <2>5, FinishTypes DEF Consume, GateTypeOK
  <2>6. QED
    BY <2>4, <2>5
<1>3. QED
  BY <1>1, <1>2

\* The sweeps, revocations, cuts and time keep everything well typed.
LEMMA OtherTypes ==
    ASSUME GateTypeOK,
           \/ StartSweep \/ SweepBuckets \/ SweepNonces
           \/ \E s \in Subject : Revoke(s)
           \/ Cut \/ Tick
    PROVE  GateTypeOK'
<1> USE DEF tables
<1>1. CASE StartSweep
  BY <1>1 DEF StartSweep, GateTypeOK
<1>2. CASE SweepBuckets
  <2>1. 0 \in Time
    BY Constants DEF Time
  <2>2. /\ count' \in [Bucket -> [Time -> Nat]]
        /\ updated' \in [Bucket -> [Time -> Time]]
    BY <1>2, <2>1 DEF SweepBuckets, GateTypeOK
  <2>3. sweep' \in [pc : {"idle", "buckets", "nonces"}, at : Time]
    BY <1>2 DEF SweepBuckets, GateTypeOK
  <2>4. QED
    BY <1>2, <2>2, <2>3 DEF SweepBuckets, GateTypeOK
<1>3. CASE SweepNonces
  <2>1. SweepIdle \in [pc : {"idle", "buckets", "nonces"}, at : Time]
    BY Constants DEF SweepIdle, Time
  <2>2. QED
    BY <1>3, <2>1 DEF SweepNonces, GateTypeOK
<1>4. ASSUME NEW s \in Subject, Revoke(s) PROVE GateTypeOK'
  BY <1>4 DEF Revoke, GateTypeOK
<1>5. CASE Cut
  <2>1. SweepIdle \in [pc : {"idle", "buckets", "nonces"}, at : Time]
    BY Constants DEF SweepIdle, Time
  <2>2. CASE UNCHANGED sweep /\ \E r \in Request : Finish(r)
    BY <1>5, <2>2, FinishTypes DEF Cut, GateTypeOK
  <2>3. CASE UNCHANGED req /\ sweep' = SweepIdle
    BY <1>5, <2>1, <2>3 DEF Cut, GateTypeOK
  <2>4. QED
    BY <1>5, <2>2, <2>3 DEF Cut
<1>6. CASE Tick
  <2>1. clock' \in Time
    BY <1>6, Constants DEF Tick, GateTypeOK, Time
  <2>2. QED
    BY <1>6, <2>1 DEF Tick, GateTypeOK
<1>7. QED
  BY <1>1, <1>2, <1>3, <1>4, <1>5, <1>6

\* Every step keeps everything well typed.
LEMMA NextTypes == ASSUME GateTypeOK, [Next]_gateVars PROVE GateTypeOK'
<1>1. CASE UNCHANGED gateVars
  BY <1>1 DEF gateVars, tables, GateTypeOK
<1>2. CASE Next
  BY <1>2, AuthTypes, LimitTypes, OtherTypes DEF Next, RequestStep
<1>3. QED
  BY <1>1, <1>2

-----------------------------------------------------------------------------
(* The parts of the invariant, one per lemma *)

\* Time stops for a request that counts, at most MaxDelay after it read the time.
LEMMA TimeNext ==
    ASSUME GateTypeOK, CountsInTime, SweepInTime, [Next]_gateVars
    PROVE  CountsInTime' /\ SweepInTime' /\ clock <= clock'
<1> USE DEF tables
<1>0. /\ clock \in Nat /\ MaxDelay \in Nat /\ sweep.at \in Nat
      /\ \A r \in Request : req[r] \in CallsInFlight /\ req[r].at \in Nat
      /\ req \in [Request -> CallsInFlight]
  BY Constants, TimesAreNat
<1>1. ASSUME NEW r \in Request, RequestStep(r) PROVE CountsInTime' /\ SweepInTime' /\ clock' = clock
  <2>1. clock' = clock /\ sweep' = sweep
    BY <1>1 DEF RequestStep, ReadSubject, Arrive, CheckFresh, RecordNonce, StartLimits, Consume
  <2>2. \A q \in Request : q # r => req'[q] = req[q]
    BY <1>0, <1>1 DEF RequestStep, ReadSubject, Arrive, CheckFresh, RecordNonce, StartLimits,
                      Consume, Finish, Goto
  <2>3. req'[r].pc = "consume" =>
            \/ req'[r].at = clock
            \/ req[r].pc = "consume" /\ req'[r].at = req[r].at
    <3>1. Idle.pc # "consume" /\ \A c \in Call : CallAt("check_fresh", c).pc # "consume"
      BY DEF Idle, CallAt
    <3>2. \A c \in Call : CallAt("limits", c).pc # "consume"
      BY DEF CallAt
    <3>3. CASE Finish(r)
      BY <1>0, <3>1, <3>3 DEF Finish
    <3>4. CASE ~Finish(r)
      BY <1>0, <1>1, <3>1, <3>2, <3>4 DEF RequestStep, ReadSubject, Arrive, CheckFresh,
            RecordNonce, StartLimits, Consume, Goto, CallsInFlight
    <3>5. QED
      BY <3>3, <3>4
  <2>4. CountsInTime'
    BY <1>0, <2>1, <2>2, <2>3 DEF CountsInTime
  <2>5. QED
    BY <2>1, <2>4 DEF SweepInTime
<1>2. CASE StartSweep
  BY <1>0, <1>2 DEF StartSweep, CountsInTime, SweepInTime
<1>3. CASE SweepBuckets \/ SweepNonces
  BY <1>0, <1>3 DEF SweepBuckets, SweepNonces, SweepIdle, CountsInTime, SweepInTime, GateTypeOK
<1>4. CASE \E s \in Subject : Revoke(s)
  BY <1>0, <1>4 DEF Revoke, CountsInTime, SweepInTime
<1>5. CASE Cut
  <2>1. SweepInTime' /\ clock' = clock
    BY <1>0, <1>5 DEF Cut, SweepInTime, SweepIdle
  <2>2. \A q \in Request : req'[q] = req[q] \/ req'[q] = Idle
    BY <1>0, <1>5 DEF Cut, Finish
  <2>3. Idle.pc # "consume"
    BY DEF Idle, CallAt
  <2>4. QED
    BY <1>0, <2>1, <2>2, <2>3 DEF CountsInTime
<1>6. CASE Tick
  BY <1>0, <1>6 DEF Tick, CountsInTime, SweepInTime
<1>7. CASE UNCHANGED gateVars
  BY <1>0, <1>7 DEF gateVars, CountsInTime, SweepInTime
<1>8. QED
  BY <1>0, <1>1, <1>2, <1>3, <1>4, <1>5, <1>6, <1>7 DEF Next

\* A window that is dead stays dead.
LEMMA DeadStays ==
    ASSUME GateTypeOK, GateTypeOK', clock <= clock', NEW b \in Bucket, NEW w \in Time, Dead(b, w)
    PROVE  Dead(b, w)'
<1>1. clock \in Time /\ clock' \in Time
  BY DEF GateTypeOK
<1>2. clock \in Nat /\ clock' \in Nat /\ w \in Nat /\ Window[b] \in Nat /\ MaxDelay \in Nat
  BY <1>1, Constants, TimeIsNat
<1>3. QED
  BY <1>2 DEF Dead

\* Counting and sweeping keep the counters of every live window exact.
LEMMA CountersNext ==
    ASSUME IInv, GateTypeOK', clock <= clock', [Next]_gateVars
    PROVE  CountersCount' /\ QuotaHolds'
<1> USE DEF tables
<1>a. clock \in Nat /\ sweep.at \in Nat /\ sweep.at <= clock
  BY TimesAreNat DEF IInv, SweepInTime
<1>0. /\ clock \in Nat /\ MaxDelay \in Nat /\ sweep.at \in Nat /\ sweep.at <= clock
      /\ BucketRetention \in Nat
      /\ \A b \in Bucket : Window[b] \in Nat /\ Limit[b] \in Nat /\ Limit[b] > 0
                           /\ Window[b] + MaxDelay <= BucketRetention
      /\ \A w \in Time : w \in Nat
      /\ \A b \in Bucket, w \in Time : updated[b][w] \in Nat /\ count[b][w] \in Nat
      /\ count \in [Bucket -> [Time -> Nat]]
      /\ passed \in [Bucket -> [Time -> Nat]]
      /\ updated \in [Bucket -> [Time -> Time]]
  BY <1>a, Constants, TimeIsNat, CountersAreNat DEF IInv
<1>1. \A b \in Bucket, w \in Time : Dead(b, w) => Dead(b, w)'
  BY DeadStays DEF IInv
<1>2. CASE UNCHANGED <<count, updated, passed>>
  BY <1>1, <1>2 DEF IInv, CountersCount, QuotaHolds
<1>3. CASE SweepBuckets
  <2>1. \A b \in Bucket, w \in Time : IsOld(b, w) /\ count[b][w] > 0 => Dead(b, w)
    <3>1. SUFFICES ASSUME NEW b \in Bucket, NEW w \in Time, IsOld(b, w), count[b][w] > 0
                   PROVE  Dead(b, w)
      OBVIOUS
    <3>2. w <= updated[b][w]
      BY <3>1 DEF IInv, CountersCount
    <3>3. QED
      BY <1>0, <3>1, <3>2 DEF IsOld, Dead
  <2>2. ASSUME NEW b \in Bucket, NEW w \in Time
        PROVE  /\ count'[b][w] = IF IsOld(b, w) THEN 0 ELSE count[b][w]
               /\ updated'[b][w] = IF IsOld(b, w) THEN 0 ELSE updated[b][w]
               /\ passed' = passed
    BY <1>3 DEF SweepBuckets
  <2>3. CountersCount'
    BY <1>0, <1>1, <2>1, <2>2 DEF IInv, CountersCount
  <2>4. QED
    BY <1>3, <2>3 DEF SweepBuckets, IInv, QuotaHolds
<1>4. ASSUME NEW r \in Request, Consume(r), ~UNCHANGED <<count, updated, passed>>
      PROVE  CountersCount' /\ QuotaHolds'
  <2> DEFINE c == req[r].call
             b == Checks[c][req[r].next]
             t == req[r].at
             w == WindowStart(b, t)
  <2>1. /\ HasRoom(b, w)
        /\ count' = [count EXCEPT ![b][w] = @ + 1]
        /\ updated' = [updated EXCEPT ![b][w] = t]
        /\ passed' = [passed EXCEPT ![b][w] = @ + 1]
    BY <1>4 DEF Consume
  <2>2. c \in Call /\ req[r].next \in DOMAIN Checks[c] /\ t \in Time
        /\ t <= clock /\ clock <= t + MaxDelay
    BY <1>4 DEF Consume, IInv, GateTypeOK, CallFits, CallsInFlight, CountsInTime
  <2>3. b \in Bucket
    BY <2>2, Constants
  <2>4. w \in Time /\ w <= t /\ t < w + Window[b]
    BY <2>2, <2>3, WindowBounds
  <2>5. ~Dead(b, w)
    BY <1>0, <2>2, <2>3, <2>4 DEF Dead
  <2>6. count[b][w] = passed[b][w] /\ count[b][w] + 1 <= Limit[b]
    <3>1. /\ count[b][w] <= Limit[b]
          /\ count[b][w] = passed[b][w] \/ Dead(b, w)
      BY <2>3, <2>4 DEF IInv, CountersCount
    <3>2. count[b][w] = 0 \/ count[b][w] < Limit[b]
      BY <2>1 DEF HasRoom
    <3>3. count[b][w] \in Nat /\ Limit[b] \in Nat /\ Limit[b] > 0
      BY <1>0, <2>3, <2>4
    <3> HIDE DEF b, w
    <3>4. QED
      BY <2>5, <3>1, <3>2, <3>3
  <2> HIDE DEF b, w, t, c
  <2>7. /\ count'[b][w] = count[b][w] + 1
        /\ passed'[b][w] = passed[b][w] + 1
        /\ updated'[b][w] = t
    BY <1>0, <2>1, <2>3, <2>4
  <2>8. \A x \in Bucket, y \in Time : x # b \/ y # w =>
            /\ count'[x][y] = count[x][y]
            /\ passed'[x][y] = passed[x][y]
            /\ updated'[x][y] = updated[x][y]
    BY <1>0, <2>1, <2>3, <2>4
  <2>9. CountersCount'
    BY <1>0, <1>1, <2>3, <2>4, <2>6, <2>7, <2>8 DEF IInv, CountersCount
  <2>10. QuotaHolds'
    BY <1>0, <2>3, <2>4, <2>6, <2>7, <2>8 DEF IInv, QuotaHolds
  <2>11. QED
    BY <2>9, <2>10
<1>5. SUFFICES \/ UNCHANGED <<count, updated, passed>>
               \/ SweepBuckets
               \/ \E r \in Request : Consume(r)
  BY <1>2, <1>3, <1>4
<1>6. QED
  BY DEF gateVars, Next, RequestStep, ReadSubject, Arrive, CheckFresh, RecordNonce, StartLimits,
         StartSweep, SweepNonces, Revoke, Cut, Tick

\* A nonce is stored before its call is let through, and pruned after its timestamp
\* has ceased to be fresh.
LEMMA NoncesNext ==
    ASSUME IInv, GateTypeOK', clock <= clock', [Next]_gateVars
    PROVE  NoncesLast' /\ LetThroughOnce'
<1> USE DEF tables
<1>a. clock \in Nat /\ sweep.at \in Nat /\ sweep.at <= clock
  BY TimesAreNat DEF IInv, SweepInTime
<1>b. clock' \in Nat /\ accepted \in [Call -> Nat]
  BY TimeIsNat DEF IInv, GateTypeOK
<1>0. /\ clock \in Nat /\ clock' \in Nat /\ sweep.at \in Nat /\ sweep.at <= clock
      /\ \A c \in Call : Signature[c] # Unsigned => Expiry(c) \in Nat
      /\ accepted \in [Call -> Nat]
  BY <1>a, <1>b, Constants
<1>1. CASE UNCHANGED <<nonces, accepted>>
  BY <1>0, <1>1 DEF IInv, NoncesLast, LetThroughOnce
<1>2. CASE SweepNonces
  <2>1. /\ nonces' = {n \in nonces : n.expiresAt >= sweep.at}
        /\ accepted' = accepted /\ clock' = clock
    BY <1>2 DEF SweepNonces
  <2>2. ASSUME NEW c \in Call, Signature[c] # Unsigned, clock <= Expiry(c),
               [row |-> NonceRow(c), expiresAt |-> Expiry(c)] \in nonces
        PROVE  [row |-> NonceRow(c), expiresAt |-> Expiry(c)] \in nonces'
    BY <1>0, <2>1, <2>2
  <2>3. NoncesLast'
    BY <1>0, <2>1, <2>2 DEF IInv, NoncesLast
  <2>4. QED
    BY <2>1, <2>3 DEF IInv, LetThroughOnce
<1>3. ASSUME NEW r \in Request, RecordNonce(r), ~UNCHANGED <<nonces, accepted>>
      PROVE  NoncesLast' /\ LetThroughOnce'
  <2> DEFINE c == req[r].call
             n == [row |-> NonceRow(c), expiresAt |-> Expiry(c)]
  <2>1. /\ ~IsRecorded(c)
        /\ nonces' = nonces \cup {n}
        /\ accepted' = [accepted EXCEPT ![c] = @ + 1]
        /\ clock' = clock
    BY <1>3 DEF RecordNonce
  <2>2. c \in Call /\ Signature[c] # Unsigned
    BY <1>3 DEF RecordNonce, IInv, GateTypeOK, CallFits
  <2>3. clock > Expiry(c) \/ accepted[c] = 0
    <3>1. n \notin nonces
      BY <2>1 DEF IsRecorded
    <3>2. QED
      BY <2>2, <3>1 DEF IInv, NoncesLast
  <2> HIDE DEF c, n
  <2>4. accepted'[c] = accepted[c] + 1 /\ \A d \in Call : d # c => accepted'[d] = accepted[d]
    BY <1>0, <2>1, <2>2
  <2>5. NoncesLast'
    BY <1>0, <2>1, <2>4 DEF IInv, NoncesLast, n
  <2>6. LetThroughOnce'
    BY <1>0, <2>1, <2>2, <2>3, <2>4 DEF IInv, LetThroughOnce
  <2>7. QED
    BY <2>5, <2>6
<1>4. SUFFICES \/ UNCHANGED <<nonces, accepted>>
               \/ SweepNonces
               \/ \E r \in Request : RecordNonce(r)
  BY <1>1, <1>2, <1>3
<1>5. QED
  BY DEF gateVars, Next, RequestStep, ReadSubject, Arrive, CheckFresh, Consume, StartLimits,
         StartSweep, SweepBuckets, Revoke, Cut, Tick

\* Every step keeps the invariant.
LEMMA NextInv == IInv /\ [Next]_gateVars => IInv'
<1> SUFFICES ASSUME IInv, [Next]_gateVars PROVE IInv'
  OBVIOUS
<1>1. GateTypeOK'
  BY NextTypes DEF IInv
<1>2. CountsInTime' /\ SweepInTime' /\ clock <= clock'
  BY TimeNext DEF IInv
<1>3. CountersCount' /\ QuotaHolds'
  BY <1>1, <1>2, CountersNext
<1>4. NoncesLast' /\ LetThroughOnce'
  BY <1>1, <1>2, NoncesNext
<1>5. QED
  BY <1>1, <1>2, <1>3, <1>4 DEF IInv

-----------------------------------------------------------------------------
(* Theorems *)

\* IInv holds in every reachable state.
THEOREM GateInvariance == Spec => []IInv
<1>1. QED
  BY InitInv, NextInv, PTL DEF Spec

\* Nonces, counters and requests are well typed, and only signed calls are authenticated.
THEOREM GateTypes == Spec => []GateTypeOK
<1>1. IInv => GateTypeOK
  BY DEF IInv
<1>2. QED
  BY <1>1, GateInvariance, PTL

\* A bucket lets at most maxAttempts requests through in a window.
THEOREM QuotaSafe == Spec => []QuotaHolds
<1>1. IInv => QuotaHolds
  BY DEF IInv
<1>2. QED
  BY <1>1, GateInvariance, PTL

\* A signed call is let through at most once while its timestamp is fresh.
THEOREM OnceSafe == Spec => []LetThroughOnce
<1>1. IInv => LetThroughOnce
  BY DEF IInv
<1>2. QED
  BY <1>1, GateInvariance, PTL

-----------------------------------------------------------------------------
(* The seconds a refused client is told to wait *)

\* Multiples are ordered like their factors.
LEMMA FactorOrder ==
    ASSUME NEW p \in Int, NEW q \in Int, NEW n \in Nat \ {0}, p * n < q * n
    PROVE  p < q
BY SMTT(20)

\* One multiple further.
LEMMA NextMultiple ==
    ASSUME NEW p \in Int, NEW n \in Nat
    PROVE  (p + 1) * n = p * n + n /\ (p - 1) * n = p * n - n
BY SMTT(20)

\* The wait covers what is left of the window, and one second less does not.
LEMMA WaitCovers ==
    ASSUME NEW b \in Bucket, NEW t \in Nat
    PROVE  LET left == WindowStart(b, t) + Window[b] - t
               wait == RetryAfter(b, t)
           IN  /\ wait \in Nat \ {0} /\ left <= wait * Second
               /\ wait = 1 \/ (wait - 1) * Second < left
<1> DEFINE left == WindowStart(b, t) + Window[b] - t
           wait == RetryAfter(b, t)
           n == left + Second - 1
<1>1. Second \in Nat \ {0} /\ Window[b] \in Nat \ {0}
  BY GateAssumption
<1>2. left \in Nat \ {0}
  BY <1>1, Rounding DEF WindowStart
<1>3. wait = IF left < Second THEN 1 ELSE n \div Second
  BY DEF RetryAfter
<1> SUFFICES /\ wait \in Nat \ {0} /\ left <= wait * Second
             /\ wait = 1 \/ (wait - 1) * Second < left
  OBVIOUS
<1> HIDE DEF left, wait
<1>4. CASE left < Second
  <2>1. wait = 1 /\ 1 * Second = Second
    BY <1>1, <1>3, <1>4
  <2>2. left <= 1 * Second
    BY <1>1, <1>2, <1>4, <2>1
  <2>3. QED
    BY <2>1, <2>2
<1>5. CASE ~(left < Second)
  <2>1. n \in Nat /\ n - left = Second - 1
    BY <1>1, <1>2
  <2> HIDE DEF n
  <2>2. wait \in Nat /\ wait * Second <= n /\ n < wait * Second + Second
    BY <1>1, <1>3, <1>5, <2>1, Rounding
  <2>3. wait # 0
    BY <1>1, <1>2, <1>5, <2>1, <2>2
  <2>4. (wait - 1) * Second = wait * Second - Second
    BY <1>1, <2>2, NextMultiple
  <2>5. wait * Second \in Nat
    BY <1>1, <2>2
  <2>6. left <= wait * Second /\ wait * Second - Second < left
    BY <1>1, <1>2, <2>1, <2>2, <2>5
  <2>7. QED
    BY <2>2, <2>3, <2>4, <2>6
<1>6. QED
  BY <1>4, <1>5

\* Times that lie in the window of time t have its start, later ones a later one.
LEMMA SameWindow ==
    ASSUME NEW b \in Bucket, NEW t \in Nat, NEW u \in Nat, t <= u
    PROVE  /\ u < WindowStart(b, t) + Window[b] => WindowStart(b, u) = WindowStart(b, t)
           /\ WindowStart(b, t) + Window[b] <= u => WindowStart(b, u) > WindowStart(b, t)
<1> DEFINE n == Window[b]
           p == t \div n
           q == u \div n
<1>1. n \in Nat \ {0}
  BY GateAssumption
<1>2. /\ p \in Nat /\ p * n \in Nat /\ p * n <= t /\ t < p * n + n
      /\ q \in Nat /\ q * n \in Nat /\ q * n <= u /\ u < q * n + n
  <2>1. p \in Nat /\ q \in Nat
    <3> HIDE DEF n
    <3>1. QED
      BY <1>1, SMT
  <2>2. QED
    BY <1>1, <2>1, Rounding
<1>3. WindowStart(b, t) = p * n /\ WindowStart(b, u) = q * n
  BY DEF WindowStart
<1> HIDE DEF n, p, q
<1>4. ASSUME u < p * n + n PROVE q = p
  <2>1. q * n < (p + 1) * n /\ p * n < (q + 1) * n
    BY <1>1, <1>2, <1>4, NextMultiple
  <2>2. q < p + 1 /\ p < q + 1
    BY <1>1, <1>2, <2>1, FactorOrder
  <2>3. QED
    BY <1>2, <2>2
<1>5. ASSUME p * n + n <= u PROVE q * n > p * n
  BY <1>1, <1>2, <1>5
<1>6. QED
  BY <1>3, <1>4, <1>5 DEF n

\* Whatever the windows, a refused client that waits as told is in a later window,
\* and a second less would not do (rate-limit-service.ts:130-137).
THEOREM RetrySafe == Spec => []RetryReachesNextWindow
<1>1. GateTypeOK => RetryReachesNextWindow
  <2> SUFFICES ASSUME GateTypeOK, NEW r \in Request, req[r].pc = "consume",
                      NEW b, b = Checks[req[r].call][req[r].next],
                      NEW t, t = req[r].at,
                      NEW wait, wait = RetryAfter(b, t)
               PROVE  /\ WindowStart(b, t + wait * Second) > WindowStart(b, t)
                      /\ wait = 1 \/ WindowStart(b, t + (wait - 1) * Second) = WindowStart(b, t)
    BY DEF RetryReachesNextWindow
  <2>1. b \in Bucket /\ t \in Nat
    <3>1. /\ req[r].call \in Call /\ req[r].next \in DOMAIN Checks[req[r].call]
          /\ req[r].at \in Time
      BY DEF GateTypeOK, CallFits, CallsInFlight
    <3>2. Checks[req[r].call] \in Seq(Bucket)
      BY <3>1, GateAssumption
    <3>3. QED
      BY <3>1, <3>2, TimeIsNat
  <2> DEFINE left == WindowStart(b, t) + Window[b] - t
             u == t + wait * Second
             v == t + (wait - 1) * Second
  <2>2. /\ wait \in Nat \ {0} /\ left <= wait * Second
        /\ wait = 1 \/ (wait - 1) * Second < left
    BY <2>1, WaitCovers
  <2>3. Second \in Nat \ {0} /\ Window[b] \in Nat /\ WindowStart(b, t) \in Nat
    BY <2>1, GateAssumption, Rounding DEF WindowStart
  <2>4. wait * Second \in Nat /\ (wait - 1) * Second \in Nat
    BY <2>2, <2>3
  <2>5. u \in Nat /\ t <= u /\ WindowStart(b, t) + Window[b] <= u
    BY <2>1, <2>2, <2>3, <2>4
  <2>6. v \in Nat /\ t <= v /\ (wait = 1 \/ v < WindowStart(b, t) + Window[b])
    BY <2>1, <2>2, <2>3, <2>4
  <2>7. WindowStart(b, u) > WindowStart(b, t)
    BY <2>1, <2>5, SameWindow
  <2>8. wait = 1 \/ WindowStart(b, v) = WindowStart(b, t)
    BY <2>1, <2>6, SameWindow
  <2>9. QED
    BY <2>7, <2>8
<1>2. QED
  BY <1>1, GateTypes, PTL
=============================================================================
