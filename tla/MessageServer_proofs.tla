------------------------ MODULE MessageServer_proofs ------------------------
(***************************************************************************)
(* Proofs about MessageServer, for all messages, devices, requests in      *)
(* flight, retention periods and whether or not the database enforces      *)
(* references.                                                             *)
(*                                                                         *)
(* The safety properties speak of the tables only; what makes them hold is *)
(* what a request knows between two of its statements.  RequestInv says    *)
(* it, label by label; CronInv says the same of the retention job.         *)
(***************************************************************************)
EXTENDS MessageServer, TLAPS

\* What request r relies on when it is about to run its next statement.
RequestInv(r) ==
    LET q == req[r]
        m == req[r].msg
    IN  /\ q.pc \notin {"idle", "authenticated"} => m \in Message
        /\ q.pc \in {"authenticated", "confirm_wrap", "read_wrap", "check_response",
                     "insert_response"} => q.device \in Device
        /\ q.pc \in {"insert_envelope", "insert_wraps"} => q.targets # {}
        /\ q.pc = "insert_wraps" => Outdated(m) \/ Stored(m)
        /\ q.pc = "accepted_event" => Outdated(m) \/ (Stored(m) /\ wraps[m] # {})
        /\ q.pc = "confirm_wrap" => Retired(m) \/ q.device \in wraps[m]
        /\ q.pc = "advance" => Retired(m) \/ confirmed[m] # {}
        /\ q.pc = "check_response" /\ q.isTarget => Retired(m) \/ q.device \in wraps[m]
        /\ q.pc = "insert_response" => /\ KindFits(Submission[m].mode, q.kind)
                                       /\ Retired(m) \/ q.device \in wraps[m]
        /\ q.pc = "set_responded" => /\ Submission[m].mode # "notify"
                                     /\ Retired(m) \/ ResponsesTo(m) # {}

\* The job only takes retired messages apart.
CronInv ==
    /\ cron.pc \in {"purge_responses", "purge_event"} => cron.cur \in Message
    /\ cron.cur \in Message => Retired(cron.cur)
    /\ \A m \in cron.expired : Retired(m)

IInv ==
    /\ ServerTypeOK
    /\ CronInv
    /\ \A r \in Request : RequestInv(r)
    /\ RespondedHasResponse
    /\ ResponsesFitTheirMessage
    /\ DeliveredWasConfirmed
    /\ AcceptedIsDeliverable

-----------------------------------------------------------------------------
(* Types *)

\* Everything is well typed at the start.
LEMMA InitTypes == Init => ServerTypeOK
<1> SUFFICES ASSUME Init PROVE ServerTypeOK
  OBVIOUS
<1> USE DEF Init, DeliveryInit, RetentionInit
<1>1. Idle \in RequestType
  BY DEF Idle, RequestType, Pc, Kind, Status
<1>2. TypeOK
  BY <1>1 DEF TypeOK, Status
<1>3. CronTypeOK
  BY DEF CronTypeOK, CronIdle, CronType, CronPc
<1>4. QED
  BY <1>2, <1>3 DEF ServerTypeOK

\* Ending a request keeps the requests well typed.
LEMMA FinishTypes ==
    ASSUME NEW r \in Request, req \in [Request -> RequestType], Finish(r)
    PROVE  req' \in [Request -> RequestType]
<1>1. Idle \in RequestType
  BY DEF Idle, RequestType, Pc, Kind, Status
<1>2. QED
  BY <1>1 DEF Finish

\* Moving a request to its next statement keeps the requests well typed.
LEMMA GotoTypes ==
    ASSUME NEW r \in Request, req \in [Request -> RequestType],
           NEW label \in Pc, Goto(r, label)
    PROVE  req' \in [Request -> RequestType]
BY DEF Goto, RequestType

\* Every statement of createMessage keeps the tables and requests well typed.
LEMMA CreateTypes ==
    ASSUME TypeOK, NEW r \in Request, RequestInv(r), CreateStep(r)
    PROVE  TypeOK'
<1> USE DEF TypeOK, tables
<1>1. ASSUME NEW m \in Message, NEW W \in SUBSET Device, ReadSender(r, m, W)
      PROVE  TypeOK'
  BY <1>1 DEF ReadSender, Idle, RequestType, Pc, Kind, Status
<1>2. CASE ReadTargets(r)
  <2>1. req' \in [Request -> RequestType]
    BY <1>2, FinishTypes, GotoTypes DEF ReadTargets, Pc
  <2>2. QED
    BY <1>2, <2>1 DEF ReadTargets
<1>3. CASE InsertEnvelope(r)
  <2>1. req' \in [Request -> RequestType]
    BY <1>3, FinishTypes, GotoTypes DEF InsertEnvelope, Pc
  <2>2. QED
    BY <1>3, <2>1 DEF InsertEnvelope, Status
<1>4. CASE InsertWraps(r)
  <2>1. req' \in [Request -> RequestType]
    BY <1>4, FinishTypes, GotoTypes DEF InsertWraps, Pc
  <2>2. req[r].targets \subseteq Device
    BY DEF RequestType
  <2>3. QED
    BY <1>4, <2>1, <2>2 DEF InsertWraps
<1>5. CASE AddAcceptedEvent(r)
  <2>1. req' \in [Request -> RequestType]
    BY <1>5, FinishTypes, GotoTypes DEF AddAcceptedEvent, Pc
  <2>2. req[r].msg \in Message
    BY <1>5 DEF AddAcceptedEvent, RequestInv
  <2>3. QED
    BY <1>5, <2>1, <2>2 DEF AddAcceptedEvent, WithEvent, EventType, EventName
<1>6. ASSUME NEW d \in Device, RecordPushAttempt(r, d)
      PROVE  TypeOK'
  <2>1. req' \in [Request -> RequestType]
    BY <1>6, FinishTypes DEF RecordPushAttempt, RequestType
  <2>2. req[r].msg \in Message
    BY <1>6 DEF RecordPushAttempt, RequestInv
  <2>3. QED
    BY <1>6, <2>1, <2>2 DEF RecordPushAttempt, WithEvent, EventType, EventName
<1>7. QED
  BY <1>1, <1>2, <1>3, <1>4, <1>5, <1>6 DEF CreateStep

\* Every statement of a device request keeps the tables and requests well typed.
LEMMA DeviceTypes ==
    ASSUME TypeOK, NEW r \in Request, RequestInv(r), DeviceStep(r)
    PROVE  TypeOK'
<1> USE DEF TypeOK, tables
<1>1. ASSUME NEW d \in Device, Authenticate(r, d)
      PROVE  TypeOK'
  BY <1>1 DEF Authenticate, Idle, RequestType, Pc, Kind, Status
<1>2. CASE EndRequest(r)
  BY <1>2, FinishTypes DEF EndRequest
<1>3. ASSUME NEW m \in Message, ReadDelivery(r, m)
      PROVE  TypeOK'
  <2>1. [req[r] EXCEPT !.pc = "confirm_wrap", !.msg = m] \in RequestType
    BY DEF RequestType, Pc
  <2>2. QED
    BY <1>3, <2>1 DEF ReadDelivery
<1>4. CASE ConfirmWrap(r)
  <2>1. req' \in [Request -> RequestType]
    BY <1>4, GotoTypes DEF ConfirmWrap, Pc
  <2>2. QED
    BY <1>4, <2>1 DEF ConfirmWrap
<1>5. CASE AdvanceState(r)
  <2>1. req' \in [Request -> RequestType]
    BY <1>5, FinishTypes DEF AdvanceState
  <2>2. QED
    BY <1>5, <2>1 DEF AdvanceState, Status
<1>6. ASSUME NEW m \in Message, NEW k \in Kind, ReadMessage(r, m, k)
      PROVE  TypeOK'
  <2>1. [req[r] EXCEPT !.pc = "read_wrap", !.msg = m, !.kind = k, !.seen = envelope[m]]
            \in RequestType
    BY DEF RequestType, Pc
  <2>2. QED
    BY <1>6, <2>1 DEF ReadMessage
<1>7. CASE ReadWrap(r)
  <2>1. [req[r] EXCEPT !.pc = "check_response",
                       !.isTarget = req[r].device \in wraps[req[r].msg]] \in RequestType
    <3> DEFINE target == req[r].device \in wraps[req[r].msg]
    <3>1. target \in BOOLEAN
      OBVIOUS
    <3>2. req[r] \in RequestType
      OBVIOUS
    <3> HIDE DEF target
    <3>3. [req[r] EXCEPT !.pc = "check_response", !.isTarget = target] \in RequestType
      BY <3>1, <3>2 DEF RequestType, Pc
    <3> QED
      BY <3>3 DEF target
  <2>2. QED
    BY <1>7, <2>1 DEF ReadWrap
<1>8. CASE CheckResponse(r)
  <2>1. req' \in [Request -> RequestType]
    BY <1>8, FinishTypes, GotoTypes DEF CheckResponse, Pc
  <2>2. QED
    BY <1>8, <2>1 DEF CheckResponse
<1>9. CASE InsertResponse(r)
  <2>1. req' \in [Request -> RequestType]
    BY <1>9, FinishTypes, GotoTypes DEF InsertResponse, Pc
  <2>2. /\ req[r].msg \in Message
        /\ req[r].device \in Device
        /\ req[r].kind \in Kind
    BY <1>9 DEF InsertResponse, RequestInv, RequestType
  <2>3. QED
    BY <1>9, <2>1, <2>2 DEF InsertResponse, ResponseType
<1>10. CASE SetResponded(r)
  <2>1. req' \in [Request -> RequestType]
    BY <1>10, GotoTypes DEF SetResponded, Pc
  <2>2. QED
    BY <1>10, <2>1 DEF SetResponded, Status
<1>11. CASE AddRespondedEvent(r)
  <2>1. req' \in [Request -> RequestType]
    BY <1>11, FinishTypes DEF AddRespondedEvent
  <2>2. req[r].msg \in Message
    BY <1>11 DEF AddRespondedEvent, RequestInv
  <2>3. QED
    BY <1>11, <2>1, <2>2 DEF AddRespondedEvent, WithEvent, EventType, EventName
<1>12. ASSUME NEW s \in Sender, RevokeSender(r, s)
       PROVE  TypeOK'
  <2>1. req' \in [Request -> RequestType]
    BY <1>12, FinishTypes DEF RevokeSender
  <2>2. QED
    BY <1>12, <2>1 DEF RevokeSender
<1>13. QED
  BY <1>1, <1>2, <1>3, <1>4, <1>5, <1>6, <1>7, <1>8, <1>9, <1>10, <1>11, <1>12 DEF DeviceStep

\* Registrations, moves, crashes and time keep the tables and requests well typed.
LEMMA EnvironmentTypes == ASSUME TypeOK, EnvironmentStep PROVE TypeOK'
<1> USE DEF TypeOK, tables
<1>1. ASSUME NEW d \in Device, NEW rcp \in Recipient,
             RegisterDevice(d, rcp) \/ RehomeDevice(d, rcp)
      PROVE  TypeOK'
  BY <1>1 DEF RegisterDevice, RehomeDevice
<1>2. ASSUME NEW r \in Request, Crash(r)
      PROVE  TypeOK'
  <2>1. req' \in [Request -> RequestType]
    BY <1>2, FinishTypes DEF Crash
  <2>2. QED
    BY <1>2, <2>1 DEF Crash
<1>3. CASE Tick
  BY <1>3 DEF Tick
<1>4. QED
  BY <1>1, <1>2, <1>3 DEF EnvironmentStep

\* Every statement of the retention job, and its loss, keeps everything well typed.
LEMMA CronTypes == ASSUME ServerTypeOK, CronInv, CronStep \/ CronCrash PROVE ServerTypeOK'
<1> USE DEF ServerTypeOK, TypeOK, CronTypeOK, CronType, CronPc, deliveryVars, tables
<1>1. CASE SelectExpired
  <2> DEFINE found == {m \in Message : Stored(m) /\ PastDeadline(m) /\ BeyondQueue(m, clock)}
  <2>1. found \in SUBSET Message
    OBVIOUS
  <2>2. cron' \in CronType /\ cron'.at = clock
    <3>1. cron' = [CronIdle EXCEPT !.pc = "mark", !.at = clock, !.expired = found]
      BY <1>1 DEF SelectExpired
    <3> HIDE DEF found
    <3>2. QED
      BY <2>1, <3>1 DEF CronIdle
  <2>3. TypeOK' /\ clock' = clock
    BY <1>1 DEF SelectExpired
  <2>4. QED
    BY <2>2, <2>3
<1>2. CASE MarkExpired
  BY <1>2 DEF MarkExpired, Status
<1>3. ASSUME NEW m \in Message, DeleteWraps(m)
      PROVE  ServerTypeOK'
  BY <1>3 DEF DeleteWraps
<1>4. CASE DeleteResponses
  BY <1>4 DEF DeleteResponses
<1>5. CASE AddExpiredEvent
  <2>1. cron.cur \in Message
    BY <1>5 DEF AddExpiredEvent, CronInv
  <2>2. events' \subseteq EventType
    BY <1>5, <2>1 DEF AddExpiredEvent, WithEvent, EventType, EventName
  <2>3. cron' \in CronType /\ cron'.at = cron.at
    BY <1>5 DEF AddExpiredEvent
  <2>4. QED
    BY <1>5, <2>2, <2>3 DEF AddExpiredEvent
<1>6. CASE LoopEnds
  BY <1>6 DEF LoopEnds
<1>7. CASE DropEnvelopes
  BY <1>7 DEF DropEnvelopes, CronIdle, Status
<1>8. CASE TrimEvents
  BY <1>8 DEF TrimEvents, CronIdle
<1>9. CASE CronCrash
  BY <1>9 DEF CronCrash, CronIdle
<1>10. QED
  BY <1>1, <1>2, <1>3, <1>4, <1>5, <1>6, <1>7, <1>8, <1>9 DEF CronStep

\* Handlers and their environment only ever add to the tables.
Grows ==
    /\ clock <= clock'
    /\ \A m \in Message : /\ Stored(m) => Stored(m)'
                          /\ wraps[m] \subseteq wraps'[m]
                          /\ confirmed[m] \subseteq confirmed'[m]
    /\ responses \subseteq responses'

\* createMessage takes no row away.
LEMMA CreateGrows ==
    ASSUME TypeOK, NEW r \in Request, CreateStep(r)
    PROVE  Grows
<1> USE DEF Grows, TypeOK, tables, Stored
<1>1. ASSUME NEW m \in Message, NEW W \in SUBSET Device, ReadSender(r, m, W)
      PROVE  Grows
  BY <1>1 DEF ReadSender
<1>2. CASE ReadTargets(r)
  BY <1>2 DEF ReadTargets
<1>3. CASE InsertEnvelope(r)
  BY <1>3 DEF InsertEnvelope
<1>4. CASE InsertWraps(r)
  BY <1>4 DEF InsertWraps
<1>5. CASE AddAcceptedEvent(r)
  BY <1>5 DEF AddAcceptedEvent
<1>6. ASSUME NEW d \in Device, RecordPushAttempt(r, d)
      PROVE  Grows
  BY <1>6 DEF RecordPushAttempt
<1>7. QED
  BY <1>1, <1>2, <1>3, <1>4, <1>5, <1>6 DEF CreateStep

\* The handlers of device requests take no row away.
LEMMA DeviceGrows ==
    ASSUME TypeOK, NEW r \in Request, DeviceStep(r)
    PROVE  Grows
<1> USE DEF Grows, TypeOK, tables, Stored
<1>1. ASSUME NEW d \in Device, Authenticate(r, d)
      PROVE  Grows
  BY <1>1 DEF Authenticate
<1>2. CASE EndRequest(r)
  BY <1>2 DEF EndRequest
<1>3. ASSUME NEW m \in Message, ReadDelivery(r, m)
      PROVE  Grows
  BY <1>3 DEF ReadDelivery
<1>4. CASE ConfirmWrap(r)
  BY <1>4 DEF ConfirmWrap
<1>5. CASE AdvanceState(r)
  BY <1>5 DEF AdvanceState
<1>6. ASSUME NEW m \in Message, NEW k \in Kind, ReadMessage(r, m, k)
      PROVE  Grows
  BY <1>6 DEF ReadMessage
<1>7. CASE ReadWrap(r)
  BY <1>7 DEF ReadWrap
<1>8. CASE CheckResponse(r)
  BY <1>8 DEF CheckResponse
<1>9. CASE InsertResponse(r)
  BY <1>9 DEF InsertResponse
<1>10. CASE SetResponded(r)
  BY <1>10 DEF SetResponded
<1>11. CASE AddRespondedEvent(r)
  BY <1>11 DEF AddRespondedEvent
<1>12. ASSUME NEW s \in Sender, RevokeSender(r, s)
       PROVE  Grows
  BY <1>12 DEF RevokeSender
<1>13. QED
  BY <1>1, <1>2, <1>3, <1>4, <1>5, <1>6, <1>7, <1>8, <1>9, <1>10, <1>11, <1>12 DEF DeviceStep

\* No step outside the retention job takes a row away.
LEMMA DeliveryGrows == ASSUME TypeOK, DeliveryNext PROVE Grows
<1>1. CASE EnvironmentStep
  BY <1>1 DEF EnvironmentStep, RegisterDevice, RehomeDevice, Crash, Tick, Grows, TypeOK,
              tables, Stored
<1>2. QED
  BY <1>1, CreateGrows, DeviceGrows DEF DeliveryNext

\* Every step of the server keeps everything well typed.
LEMMA NextTypes ==
    ASSUME ServerTypeOK, CronInv, \A r \in Request : RequestInv(r), [Next]_vars
    PROVE  ServerTypeOK'
<1>1. CASE DeliveryNext /\ UNCHANGED cron
  <2>1. TypeOK'
    BY <1>1, CreateTypes, DeviceTypes, EnvironmentTypes DEF DeliveryNext, ServerTypeOK
  <2>2. clock <= clock'
    BY <1>1, DeliveryGrows DEF ServerTypeOK, Grows
  <2>3. QED
    BY <1>1, <2>1, <2>2 DEF ServerTypeOK, CronTypeOK, CronType, TypeOK
<1>2. CASE CronStep \/ CronCrash
  BY <1>2, CronTypes
<1>3. CASE UNCHANGED vars
  BY <1>3 DEF vars, deliveryVars, tables, ServerTypeOK, TypeOK, CronTypeOK
<1>4. QED
  BY <1>1, <1>2, <1>3 DEF Next

-----------------------------------------------------------------------------
(***************************************************************************)
(* No step takes anything from a message that is not retired.  This is the *)
(* frame of every invariant below.                                         *)
(***************************************************************************)
Keeps(m) ==
    /\ Outdated(m) => Outdated(m)'
    /\ Retired(m) => Retired(m)'
    /\ Retired(m)' => Outdated(m)'
    /\ Outdated(m)' \/ (Stored(m) => Stored(m)')
    /\ \/ Retired(m)'
       \/ /\ wraps[m] \subseteq wraps'[m]
          /\ confirmed[m] \subseteq confirmed'[m]
          /\ ResponsesTo(m) \subseteq ResponsesTo(m)'

\* A message that is outdated or retired stays so: time does not go back.
LEMMA AgeIsStable ==
    ASSUME TypeOK, TypeOK', clock <= clock', NEW m \in Message
    PROVE  /\ Outdated(m) => Outdated(m)'
           /\ Retired(m) => Retired(m)'
           /\ Retired(m)' => Outdated(m)'
<1>1. Submission[m].expiresAt \in Nat /\ Submission[m].createdAt \in Nat
  BY DeliveryAssumption DEF SubmissionType
<1>2. QED
  BY <1>1, DeliveryAssumption DEF Outdated, Retired, PastDeadline, BeyondQueue, TypeOK

\* A step that takes no row of m away keeps what holds until m is retired.
LEMMA KeepsTables ==
    ASSUME TypeOK, TypeOK', clock <= clock', NEW m \in Message,
           Stored(m) => Stored(m)',
           wraps[m] \subseteq wraps'[m],
           confirmed[m] \subseteq confirmed'[m],
           responses \subseteq responses'
    PROVE  Keeps(m)
BY AgeIsStable DEF Keeps, ResponsesTo

\* The handlers keep the rows of every message.
LEMMA DeliveryKeeps ==
    ASSUME TypeOK, TypeOK', DeliveryNext, NEW m \in Message
    PROVE  Keeps(m)
BY DeliveryGrows, KeepsTables DEF Grows

\* The retention job keeps the rows of every message that is not retired.
LEMMA CronKeeps ==
    ASSUME ServerTypeOK, ServerTypeOK', CronInv, CronStep \/ CronCrash, NEW m \in Message
    PROVE  Keeps(m)
<1> USE DEF ServerTypeOK, deliveryVars, tables
<1>1. clock' = clock
  BY DEF CronStep, SelectExpired, MarkExpired, DeleteWraps, DeleteResponses,
         AddExpiredEvent, LoopEnds, DropEnvelopes, TrimEvents, CronCrash
<1>2. CASE SelectExpired \/ LoopEnds \/ AddExpiredEvent \/ TrimEvents \/ CronCrash
  BY <1>1, <1>2, KeepsTables DEF SelectExpired, LoopEnds, AddExpiredEvent, TrimEvents,
         CronCrash, Stored, TypeOK
<1>3. CASE MarkExpired
  BY <1>1, <1>3, KeepsTables DEF MarkExpired, Stored, TypeOK
<1>4. ASSUME NEW n \in Message, DeleteWraps(n)
      PROVE  Keeps(m)
  <2>1. CASE m = n
    BY <1>1, <1>4, <2>1, AgeIsStable DEF DeleteWraps, CronInv, Keeps, TypeOK
  <2>2. CASE m # n
    BY <1>1, <1>4, <2>2, KeepsTables DEF DeleteWraps, Stored, TypeOK
  <2>3. QED
    BY <2>1, <2>2
<1>5. CASE DeleteResponses
  <2>1. cron.cur \in Message /\ Retired(cron.cur)
    BY <1>5 DEF DeleteResponses, CronInv
  <2>2. CASE m = cron.cur
    BY <1>1, <2>1, <2>2, AgeIsStable DEF Keeps, TypeOK
  <2>3. CASE m # cron.cur
    <3>1. ResponsesTo(m) \subseteq ResponsesTo(m)'
      BY <1>5, <2>3 DEF DeleteResponses, ResponsesTo
    <3>2. QED
      BY <1>1, <1>5, <3>1, AgeIsStable DEF DeleteResponses, Keeps, Stored, TypeOK
  <2>4. QED
    BY <2>2, <2>3
<1>6. CASE DropEnvelopes
  <2>1. Outdated(m)' \/ (Stored(m) => Stored(m)')
    <3>1. CASE BeyondQueue(m, cron.at)
      <4>1. Submission[m].createdAt \in Nat
        BY DeliveryAssumption DEF SubmissionType
      <4>2. QED
        BY <1>1, <3>1, <4>1, DeliveryAssumption
           DEF Outdated, BeyondQueue, TypeOK, CronTypeOK, CronType
    <3>2. CASE ~BeyondQueue(m, cron.at)
      BY <1>6, <3>2 DEF DropEnvelopes, Stored, TypeOK
    <3>3. QED
      BY <3>1, <3>2
  <2>2. UNCHANGED <<wraps, confirmed, responses>>
    BY <1>6 DEF DropEnvelopes
  <2>3. QED
    BY <1>1, <2>1, <2>2, AgeIsStable DEF Keeps, ResponsesTo, TypeOK
<1>7. QED
  BY <1>2, <1>3, <1>4, <1>5, <1>6 DEF CronStep

\* Every step of the server keeps the rows of a message that is not retired.
LEMMA NextKeeps ==
    ASSUME ServerTypeOK, ServerTypeOK', CronInv, [Next]_vars, NEW m \in Message
    PROVE  Keeps(m)
<1>1. CASE UNCHANGED vars
  BY <1>1, KeepsTables DEF vars, deliveryVars, tables, Stored, ServerTypeOK, TypeOK
<1>2. QED
  BY <1>1, DeliveryKeeps, CronKeeps DEF Next, ServerTypeOK

-----------------------------------------------------------------------------
(* The requests' own knowledge *)

\* A request that waits keeps what it relies on.
LEMMA RequestKept ==
    ASSUME NEW r \in Request, RequestInv(r), req'[r] = req[r], \A m \in Message : Keeps(m)
    PROVE  RequestInv(r)'
<1>1. CASE req[r].pc \in {"idle", "authenticated"}
  BY <1>1 DEF RequestInv
<1>2. CASE req[r].pc \notin {"idle", "authenticated"}
  <2>1. req[r].msg \in Message
    BY <1>2 DEF RequestInv
  <2>2. Keeps(req[r].msg)
    BY <2>1
  <2>3. QED
    BY <1>2, <2>1, <2>2 DEF RequestInv, Keeps
<1>3. QED
  BY <1>1, <1>2

\* A request that has ended relies on nothing.
LEMMA IdleRequest ==
    ASSUME TypeOK, NEW r \in Request, Finish(r)
    PROVE  RequestInv(r)'
BY DEF Finish, Idle, RequestInv, TypeOK

\* Only the request that acts changes its record.
LEMMA OthersWait ==
    ASSUME TypeOK, NEW r \in Request, CreateStep(r) \/ DeviceStep(r) \/ Crash(r),
           NEW s \in Request, s # r
    PROVE  req'[s] = req[s]
<1>1. CASE CreateStep(r)
  BY <1>1 DEF CreateStep, ReadSender, ReadTargets, InsertEnvelope, InsertWraps,
              AddAcceptedEvent, RecordPushAttempt, Finish, Goto, TypeOK
<1>2. CASE DeviceStep(r)
  BY <1>2 DEF DeviceStep, Authenticate, EndRequest, ReadDelivery, ConfirmWrap, AdvanceState,
              ReadMessage, ReadWrap, CheckResponse, InsertResponse, SetResponded,
              AddRespondedEvent, RevokeSender, Finish, Goto, TypeOK
<1>3. CASE Crash(r)
  BY <1>3 DEF Crash, Finish, TypeOK
<1>4. QED
  BY <1>1, <1>2, <1>3

\* A request in createMessage establishes what its next statement relies on.
LEMMA CreateRequest ==
    ASSUME TypeOK, NEW r \in Request, RequestInv(r), CreateStep(r),
           \A m \in Message : Keeps(m)
    PROVE  RequestInv(r)'
<1>1. CASE Finish(r)
  BY <1>1, IdleRequest
<1>2. ASSUME NEW m \in Message, NEW W \in SUBSET Device, ReadSender(r, m, W)
      PROVE  RequestInv(r)'
  BY <1>2 DEF ReadSender, Idle, RequestInv, TypeOK
<1>3. CASE ReadTargets(r) /\ ~Finish(r)
  <2>1. req'[r] = [req[r] EXCEPT !.pc = "insert_envelope"]
    BY <1>3 DEF ReadTargets, Goto, TypeOK
  <2>2. req[r].targets # {} /\ req[r].msg \in Message
    BY <1>3 DEF ReadTargets, RequestInv
  <2>3. QED
    BY <2>1, <2>2 DEF RequestInv, TypeOK, RequestType
<1>4. CASE InsertEnvelope(r) /\ ~Finish(r)
  <2>1. /\ Goto(r, "insert_wraps")
        /\ envelope' = [envelope EXCEPT ![req[r].msg] = "accepted"]
    BY <1>4 DEF InsertEnvelope
  <2>2. PICK m \in Message : m = req[r].msg
    BY <1>4 DEF InsertEnvelope, RequestInv
  <2>3. Stored(m)'
    BY <2>1, <2>2 DEF Stored, TypeOK
  <2>4. req'[r] = [req[r] EXCEPT !.pc = "insert_wraps"]
    BY <2>1 DEF Goto, TypeOK
  <2>5. req[r].targets # {}
    BY <1>4 DEF InsertEnvelope, RequestInv
  <2>6. QED
    BY <2>2, <2>3, <2>4, <2>5 DEF RequestInv, TypeOK, RequestType
<1>5. CASE InsertWraps(r) /\ ~Finish(r)
  <2>1. /\ Goto(r, "accepted_event")
        /\ wraps' = [wraps EXCEPT ![req[r].msg] = @ \cup req[r].targets]
        /\ envelope' = envelope
    BY <1>5 DEF InsertWraps
  <2>2. PICK m \in Message : m = req[r].msg
    BY <1>5 DEF InsertWraps, RequestInv
  <2>3. Outdated(m)' \/ (Stored(m)' /\ wraps'[m] # {})
    BY <1>5, <2>1, <2>2 DEF InsertWraps, RequestInv, Keeps, Stored, TypeOK
  <2>4. req'[r] = [req[r] EXCEPT !.pc = "accepted_event"]
    BY <2>1 DEF Goto, TypeOK
  <2>5. QED
    BY <2>2, <2>3, <2>4 DEF RequestInv, TypeOK, RequestType
<1>6. CASE AddAcceptedEvent(r) /\ ~Finish(r)
  <2>1. req'[r] = [req[r] EXCEPT !.pc = "push"]
    BY <1>6 DEF AddAcceptedEvent, Goto, TypeOK
  <2>2. req[r].msg \in Message
    BY <1>6 DEF AddAcceptedEvent, RequestInv
  <2>3. QED
    BY <2>1, <2>2 DEF RequestInv, TypeOK, RequestType
<1>7. ASSUME NEW d \in Device, RecordPushAttempt(r, d), ~Finish(r)
      PROVE  RequestInv(r)'
  <2>1. req'[r] = [req[r] EXCEPT !.targets = @ \ {d}]
    BY <1>7 DEF RecordPushAttempt, TypeOK
  <2>2. req[r].msg \in Message /\ req[r].pc = "push"
    BY <1>7 DEF RecordPushAttempt, RequestInv
  <2>3. QED
    BY <2>1, <2>2 DEF RequestInv, TypeOK, RequestType
<1>8. QED
  BY <1>1, <1>2, <1>3, <1>4, <1>5, <1>6, <1>7 DEF CreateStep

\* A device request establishes what its next statement relies on.
LEMMA DeviceRequest ==
    ASSUME TypeOK, NEW r \in Request, RequestInv(r), DeviceStep(r),
           \A m \in Message : Keeps(m)
    PROVE  RequestInv(r)'
<1>1. CASE Finish(r)
  BY <1>1, IdleRequest
<1>2. ASSUME NEW d \in Device, Authenticate(r, d)
      PROVE  RequestInv(r)'
  BY <1>2 DEF Authenticate, Idle, RequestInv, TypeOK
<1>3. ASSUME NEW m \in Message, ReadDelivery(r, m)
      PROVE  RequestInv(r)'
  <2>1. req'[r] = [req[r] EXCEPT !.pc = "confirm_wrap", !.msg = m]
    BY <1>3 DEF ReadDelivery, TypeOK
  <2>2. req[r].device \in wraps[m] /\ wraps' = wraps
    BY <1>3 DEF ReadDelivery, tables
  <2>3. req[r].device \in Device
    BY <2>2 DEF TypeOK
  <2>4. QED
    BY <2>1, <2>2, <2>3 DEF RequestInv, TypeOK, RequestType
<1>4. CASE ConfirmWrap(r)
  <2>1. PICK m \in Message : m = req[r].msg
    BY <1>4 DEF ConfirmWrap, RequestInv
  <2>2. req'[r] = [req[r] EXCEPT !.pc = "advance"]
    BY <1>4 DEF ConfirmWrap, Goto, TypeOK
  <2>3. Retired(m)' \/ confirmed'[m] # {}
    BY <1>4, <2>1 DEF ConfirmWrap, RequestInv, Keeps, TypeOK
  <2>4. QED
    BY <2>1, <2>2, <2>3 DEF RequestInv, TypeOK, RequestType
<1>5. ASSUME NEW m \in Message, NEW k \in Kind, ReadMessage(r, m, k)
      PROVE  RequestInv(r)'
  <2>1. req'[r] = [req[r] EXCEPT !.pc = "read_wrap", !.msg = m, !.kind = k, !.seen = envelope[m]]
    BY <1>5 DEF ReadMessage, TypeOK
  <2>2. req[r].device \in Device
    BY <1>5 DEF ReadMessage, RequestInv
  <2>3. QED
    BY <2>1, <2>2 DEF RequestInv, TypeOK, RequestType
<1>6. CASE ReadWrap(r)
  <2> DEFINE target == req[r].device \in wraps[req[r].msg]
  <2>1. req'[r] = [req[r] EXCEPT !.pc = "check_response", !.isTarget = target]
    BY <1>6 DEF ReadWrap, TypeOK
  <2>2. req[r].device \in Device /\ req[r].msg \in Message /\ wraps' = wraps
    BY <1>6 DEF ReadWrap, RequestInv, tables
  <2>3. req[r] \in RequestType /\ target \in BOOLEAN
    BY DEF TypeOK
  <2>4. target => req[r].device \in wraps'[req[r].msg]
    BY <2>2
  <2> HIDE DEF target
  <2>5. /\ req'[r].pc = "check_response"
        /\ req'[r].isTarget = target
        /\ req'[r].msg = req[r].msg
        /\ req'[r].device = req[r].device
    BY <2>1, <2>3 DEF RequestType
  <2>6. QED
    BY <2>2, <2>4, <2>5 DEF RequestInv
<1>7. CASE CheckResponse(r) /\ ~Finish(r)
  <2>1. PICK m \in Message : m = req[r].msg
    BY <1>7 DEF CheckResponse, RequestInv
  <2>2. req'[r] = [req[r] EXCEPT !.pc = "insert_response"]
    BY <1>7 DEF CheckResponse, Goto, TypeOK
  <2>3. /\ KindFits(Submission[m].mode, req[r].kind)
        /\ Retired(m)' \/ req[r].device \in wraps'[m]
        /\ req[r].device \in Device
    BY <1>7, <2>1 DEF CheckResponse, RequestInv, Keeps
  <2>4. QED
    BY <2>1, <2>2, <2>3 DEF RequestInv, TypeOK, RequestType
<1>8. CASE InsertResponse(r) /\ ~Finish(r)
  <2>1. PICK m \in Message : m = req[r].msg
    BY <1>8 DEF InsertResponse, RequestInv
  <2>2. req'[r] = [req[r] EXCEPT !.pc = "set_responded"]
    BY <1>8 DEF InsertResponse, Goto, TypeOK
  <2>3. Submission[m].mode # "notify"
    BY <1>8, <2>1 DEF InsertResponse, RequestInv, KindFits
  <2>4. ResponsesTo(m)' # {}
    <3>1. [msg |-> m, device |-> req[r].device, kind |-> req[r].kind] \in responses'
      BY <1>8, <2>1 DEF InsertResponse
    <3>2. QED
      BY <3>1 DEF ResponsesTo
  <2>5. QED
    BY <2>1, <2>2, <2>3, <2>4 DEF RequestInv, TypeOK, RequestType
<1>9. CASE SetResponded(r)
  BY <1>9 DEF SetResponded, Goto, RequestInv, TypeOK
<1>10. QED
  BY <1>1, <1>2, <1>3, <1>4, <1>5, <1>6, <1>7, <1>8, <1>9
     DEF DeviceStep, EndRequest, AdvanceState, AddRespondedEvent, RevokeSender

\* Every request keeps what it relies on, whoever takes a step.
LEMMA NextRequests ==
    ASSUME ServerTypeOK, [Next]_vars, \A r \in Request : RequestInv(r),
           \A m \in Message : Keeps(m)
    PROVE  \A r \in Request : RequestInv(r)'
<1> USE DEF ServerTypeOK
<1>1. ASSUME NEW r \in Request, CreateStep(r) \/ DeviceStep(r) \/ Crash(r)
      PROVE  \A s \in Request : RequestInv(s)'
  <2>1. RequestInv(r)'
    BY <1>1, CreateRequest, DeviceRequest, IdleRequest DEF Crash
  <2>2. \A s \in Request : s # r => RequestInv(s)'
    BY <1>1, OthersWait, RequestKept
  <2>3. QED
    BY <2>1, <2>2
<1>2. CASE req' = req
  BY <1>2, RequestKept
<1>3. QED
  BY <1>1, <1>2 DEF Next, DeliveryNext, EnvironmentStep, RegisterDevice, RehomeDevice, Tick,
     CronStep, SelectExpired, MarkExpired, DeleteWraps, DeleteResponses, AddExpiredEvent,
     LoopEnds, DropEnvelopes, TrimEvents, CronCrash, vars, deliveryVars

-----------------------------------------------------------------------------
(***************************************************************************)
(* The safety properties.  Each is disturbed by one action only; every     *)
(* other step leaves what it speaks of, as NextKeeps says.                 *)
(***************************************************************************)

\* Where no response is added, the stored ones still fit.
LEMMA ResponsesKept ==
    ASSUME TypeOK', ResponsesFitTheirMessage, \A m \in Message : Keeps(m),
           responses' \subseteq responses
    PROVE  ResponsesFitTheirMessage'
<1> SUFFICES ASSUME NEW x \in responses'
             PROVE  /\ KindFits(Submission[x.msg].mode, x.kind)
                    /\ Retired(x.msg)' \/ x.device \in wraps'[x.msg]
  BY DEF ResponsesFitTheirMessage
<1>1. PICK m \in Message : m = x.msg
  BY DEF TypeOK, ResponseType
<1>2. /\ KindFits(Submission[m].mode, x.kind)
      /\ Retired(m) \/ x.device \in wraps[m]
  BY <1>1 DEF ResponsesFitTheirMessage
<1>3. QED
  BY <1>1, <1>2 DEF Keeps

\* Where no acceptance is recorded, the recorded ones still hold.
LEMMA AcceptedKept ==
    ASSUME AcceptedIsDeliverable, \A m \in Message : Keeps(m),
           \A e \in events' : e \in events \/ e.event # "accepted"
    PROVE  AcceptedIsDeliverable'
<1> SUFFICES ASSUME NEW m \in Message, HasEvent(m, "accepted")'
             PROVE  Outdated(m)' \/ (Stored(m)' /\ wraps'[m] # {})
  BY DEF AcceptedIsDeliverable
<1>1. HasEvent(m, "accepted")
  BY DEF HasEvent
<1>2. Outdated(m) \/ (Stored(m) /\ wraps[m] # {})
  BY <1>1 DEF AcceptedIsDeliverable
<1>3. QED
  BY <1>2 DEF Keeps

\* Who may change the state column of a message, and to what.
LEMMA StateSteps ==
    ASSUME ServerTypeOK, [Next]_vars, NEW m \in Message
    PROVE  \/ envelope'[m] = envelope[m]
           \/ envelope'[m] \in {"none", "accepted", "expired"}
           \/ envelope'[m] = "delivered" /\ \E r \in Request : AdvanceState(r) /\ req[r].msg = m
           \/ envelope'[m] = "responded" /\ \E r \in Request : SetResponded(r) /\ req[r].msg = m
<1> USE DEF ServerTypeOK, TypeOK, tables
<1>1. ASSUME NEW r \in Request, CreateStep(r)
      PROVE  envelope'[m] = envelope[m] \/ envelope'[m] = "accepted"
  BY <1>1 DEF CreateStep, ReadSender, ReadTargets, InsertEnvelope, InsertWraps,
              AddAcceptedEvent, RecordPushAttempt
<1>2. ASSUME NEW r \in Request, AdvanceState(r)
      PROVE  \/ envelope'[m] = envelope[m]
             \/ envelope'[m] = "delivered" /\ req[r].msg = m
  BY <1>2 DEF AdvanceState
<1>3. ASSUME NEW r \in Request, SetResponded(r)
      PROVE  \/ envelope'[m] = envelope[m]
             \/ envelope'[m] = "responded" /\ req[r].msg = m
  BY <1>3 DEF SetResponded
<1>4. ASSUME NEW r \in Request, DeviceStep(r), ~AdvanceState(r), ~SetResponded(r)
      PROVE  envelope' = envelope
  BY <1>4 DEF DeviceStep, Authenticate, EndRequest, ReadDelivery, ConfirmWrap, ReadMessage,
              ReadWrap, CheckResponse, InsertResponse, AddRespondedEvent, RevokeSender
<1>5. CASE EnvironmentStep
  BY <1>5 DEF EnvironmentStep, RegisterDevice, RehomeDevice, Crash, Tick
<1>6. CASE CronStep \/ CronCrash
  BY <1>6 DEF CronStep, SelectExpired, MarkExpired, DeleteWraps, DeleteResponses,
              AddExpiredEvent, LoopEnds, DropEnvelopes, TrimEvents, CronCrash, deliveryVars
<1>7. CASE UNCHANGED vars
  BY <1>7 DEF vars, deliveryVars
<1>8. QED
  BY <1>1, <1>2, <1>3, <1>4, <1>5, <1>6, <1>7 DEF Next, DeliveryNext

\* Only InsertResponse adds responses.
LEMMA ResponseSteps ==
    ASSUME [Next]_vars
    PROVE  responses' \subseteq responses \/ \E r \in Request : InsertResponse(r)
<1> USE DEF tables
<1>1. ASSUME NEW r \in Request, CreateStep(r)
      PROVE  responses' = responses
  BY <1>1 DEF CreateStep, ReadSender, ReadTargets, InsertEnvelope, InsertWraps,
              AddAcceptedEvent, RecordPushAttempt
<1>2. ASSUME NEW r \in Request, DeviceStep(r), ~InsertResponse(r)
      PROVE  responses' = responses
  BY <1>2 DEF DeviceStep, Authenticate, EndRequest, ReadDelivery, ConfirmWrap, AdvanceState,
              ReadMessage, ReadWrap, CheckResponse, SetResponded, AddRespondedEvent, RevokeSender
<1>3. CASE EnvironmentStep
  BY <1>3 DEF EnvironmentStep, RegisterDevice, RehomeDevice, Crash, Tick
<1>4. CASE CronStep \/ CronCrash
  BY <1>4 DEF CronStep, SelectExpired, MarkExpired, DeleteWraps, DeleteResponses,
              AddExpiredEvent, LoopEnds, DropEnvelopes, TrimEvents, CronCrash, deliveryVars
<1>5. CASE UNCHANGED vars
  BY <1>5 DEF vars, deliveryVars
<1>6. QED
  BY <1>1, <1>2, <1>3, <1>4, <1>5 DEF Next, DeliveryNext

\* Only AddAcceptedEvent records an acceptance.
LEMMA EventSteps ==
    ASSUME [Next]_vars
    PROVE  \/ \A e \in events' : e \in events \/ e.event # "accepted"
           \/ \E r \in Request : AddAcceptedEvent(r)
<1> DEFINE Quiet == \A e \in events' : e \in events \/ e.event # "accepted"
<1> USE DEF tables
<1>1. ASSUME NEW r \in Request, CreateStep(r), ~AddAcceptedEvent(r)
      PROVE  Quiet
  <2>1. CASE events' = events
    BY <2>1
  <2>2. ASSUME NEW d \in Device, RecordPushAttempt(r, d)
        PROVE  Quiet
    BY <2>2 DEF RecordPushAttempt, WithEvent
  <2>3. QED
    BY <1>1, <2>1, <2>2 DEF CreateStep, ReadSender, ReadTargets, InsertEnvelope, InsertWraps
<1>2. ASSUME NEW r \in Request, DeviceStep(r)
      PROVE  Quiet
  <2>1. CASE events' = events
    BY <2>1
  <2>2. CASE AddRespondedEvent(r)
    BY <2>2 DEF AddRespondedEvent, WithEvent
  <2>3. QED
    BY <1>2, <2>1, <2>2 DEF DeviceStep, Authenticate, EndRequest, ReadDelivery, ConfirmWrap,
       AdvanceState, ReadMessage, ReadWrap, CheckResponse, InsertResponse, SetResponded,
       RevokeSender
<1>3. CASE EnvironmentStep
  BY <1>3 DEF EnvironmentStep, RegisterDevice, RehomeDevice, Crash, Tick
<1>4. CASE CronStep \/ CronCrash
  <2>1. CASE events' = events
    BY <2>1
  <2>2. CASE AddExpiredEvent
    BY <2>2 DEF AddExpiredEvent, WithEvent
  <2>3. CASE TrimEvents
    BY <2>3 DEF TrimEvents
  <2>4. QED
    BY <1>4, <2>1, <2>2, <2>3 DEF CronStep, SelectExpired, MarkExpired, DeleteWraps,
       DeleteResponses, LoopEnds, DropEnvelopes, CronCrash, deliveryVars
<1>5. CASE UNCHANGED vars
  BY <1>5 DEF vars, deliveryVars
<1>6. QED
  BY <1>1, <1>2, <1>3, <1>4, <1>5 DEF Next, DeliveryNext

\* Every step keeps the safety properties.
LEMMA SafetyNext ==
    ASSUME IInv, ServerTypeOK', [Next]_vars, \A m \in Message : Keeps(m)
    PROVE  /\ RespondedHasResponse'
           /\ DeliveredWasConfirmed'
           /\ ResponsesFitTheirMessage'
           /\ AcceptedIsDeliverable'
<1>1. RespondedHasResponse'
  <2> SUFFICES ASSUME NEW m \in Message, envelope'[m] = "responded"
               PROVE  Retired(m)' \/ ResponsesTo(m)' # {}
    BY DEF RespondedHasResponse
  <2>1. Retired(m) \/ ResponsesTo(m) # {}
    <3>1. CASE envelope[m] = "responded"
      BY <3>1 DEF IInv, RespondedHasResponse
    <3>2. CASE envelope[m] # "responded"
      <4>1. PICK r \in Request : SetResponded(r) /\ req[r].msg = m
        BY <3>2, StateSteps DEF IInv
      <4>2. QED
        BY <4>1 DEF SetResponded, IInv, RequestInv
    <3>3. QED
      BY <3>1, <3>2
  <2>2. QED
    BY <2>1 DEF Keeps
<1>2. DeliveredWasConfirmed'
  <2> SUFFICES ASSUME NEW m \in Message, envelope'[m] = "delivered"
               PROVE  Retired(m)' \/ confirmed'[m] # {}
    BY DEF DeliveredWasConfirmed
  <2>1. Retired(m) \/ confirmed[m] # {}
    <3>1. CASE envelope[m] = "delivered"
      BY <3>1 DEF IInv, DeliveredWasConfirmed
    <3>2. CASE envelope[m] # "delivered"
      <4>1. PICK r \in Request : AdvanceState(r) /\ req[r].msg = m
        BY <3>2, StateSteps DEF IInv
      <4>2. QED
        BY <4>1 DEF AdvanceState, IInv, RequestInv
    <3>3. QED
      BY <3>1, <3>2
  <2>2. QED
    BY <2>1 DEF Keeps
<1>3. ResponsesFitTheirMessage'
  <2>1. CASE responses' \subseteq responses
    BY <2>1, ResponsesKept DEF IInv, ServerTypeOK
  <2>2. ASSUME NEW r \in Request, InsertResponse(r), ~(responses' \subseteq responses)
        PROVE  ResponsesFitTheirMessage'
    <3>1. PICK m \in Message : m = req[r].msg
      BY <2>2 DEF InsertResponse, IInv, RequestInv
    <3> DEFINE new == [msg |-> m, device |-> req[r].device, kind |-> req[r].kind]
    <3>2. responses' = responses \cup {new}
      BY <2>2, <3>1 DEF InsertResponse
    <3>3. KindFits(Submission[m].mode, new.kind) /\ (Retired(m) \/ new.device \in wraps[m])
      BY <2>2, <3>1 DEF InsertResponse, IInv, RequestInv
    <3> SUFFICES ASSUME NEW x \in responses'
                 PROVE  /\ KindFits(Submission[x.msg].mode, x.kind)
                        /\ Retired(x.msg)' \/ x.device \in wraps'[x.msg]
      BY DEF ResponsesFitTheirMessage
    <3>4. x.msg \in Message
      BY <3>1, <3>2 DEF IInv, ServerTypeOK, TypeOK, ResponseType
    <3>5. /\ KindFits(Submission[x.msg].mode, x.kind)
          /\ Retired(x.msg) \/ x.device \in wraps[x.msg]
      <4>1. CASE x = new
        BY <3>3, <4>1
      <4>2. CASE x \in responses
        BY <4>2 DEF IInv, ResponsesFitTheirMessage
      <4>3. QED
        BY <3>2, <4>1, <4>2
    <3>6. PICK n \in Message : n = x.msg
      BY <3>4
    <3>7. Keeps(n)
      OBVIOUS
    <3>8. QED
      BY <3>5, <3>6, <3>7 DEF Keeps
  <2>3. QED
    BY <2>1, <2>2, ResponseSteps
<1>4. AcceptedIsDeliverable'
  <2>1. CASE \A e \in events' : e \in events \/ e.event # "accepted"
    BY <2>1, AcceptedKept DEF IInv
  <2>2. ASSUME NEW r \in Request, AddAcceptedEvent(r)
        PROVE  AcceptedIsDeliverable'
    <3> SUFFICES ASSUME NEW m \in Message, HasEvent(m, "accepted")'
                 PROVE  Outdated(m)' \/ (Stored(m)' /\ wraps'[m] # {})
      BY DEF AcceptedIsDeliverable
    <3>1. Outdated(m) \/ (Stored(m) /\ wraps[m] # {})
      <4>1. CASE HasEvent(m, "accepted")
        BY <4>1 DEF IInv, AcceptedIsDeliverable
      <4>2. CASE ~HasEvent(m, "accepted")
        <5>1. m = req[r].msg
          BY <2>2, <4>2 DEF AddAcceptedEvent, HasEvent, WithEvent
        <5>2. QED
          BY <2>2, <5>1 DEF AddAcceptedEvent, IInv, RequestInv
      <4>3. QED
        BY <4>1, <4>2
    <3>2. QED
      BY <3>1 DEF Keeps
  <2>3. QED
    BY <2>1, <2>2, EventSteps
<1>5. QED
  BY <1>1, <1>2, <1>3, <1>4

\* The job takes only retired messages, read at its start.
LEMMA CronNext ==
    ASSUME ServerTypeOK, ServerTypeOK', CronInv, [Next]_vars, \A m \in Message : Keeps(m)
    PROVE  CronInv'
<1> USE DEF ServerTypeOK, TypeOK, CronTypeOK, CronType, CronPc
<1>1. \A m \in Message : Retired(m) => Retired(m)'
  BY DEF Keeps
<1>2. CASE cron' = cron
  BY <1>1, <1>2 DEF CronInv
<1>3. CASE cron' = CronIdle
  BY <1>3, DeliveryAssumption DEF CronInv, CronIdle
<1>4. CASE SelectExpired
  <2>1. /\ cron'.pc = "mark" /\ cron'.cur = NoMessage
        /\ cron'.expired = {m \in Message : Stored(m) /\ PastDeadline(m) /\ BeyondQueue(m, clock)}
    BY <1>4 DEF SelectExpired, CronIdle
  <2>2. \A m \in cron'.expired : m \in Message /\ Retired(m)
    BY <2>1 DEF Retired, Outdated
  <2>3. QED
    BY <1>1, <2>1, <2>2, DeliveryAssumption DEF CronInv
<1>5. CASE \E label \in CronPc \ {"purge_responses", "purge_event"} :
              cron' = [cron EXCEPT !.pc = label]
  BY <1>1, <1>5 DEF CronInv
<1>6. ASSUME NEW m \in Message, DeleteWraps(m)
      PROVE  CronInv'
  <2>1. /\ cron'.pc = "purge_responses" /\ cron'.cur = m
        /\ cron'.expired = cron.expired /\ m \in cron.expired
    BY <1>6 DEF DeleteWraps
  <2>2. QED
    BY <1>1, <2>1 DEF CronInv
<1>7. CASE DeleteResponses
  <2>1. /\ cron'.cur = cron.cur /\ cron'.expired = cron.expired
        /\ cron.cur \in Message
    BY <1>7 DEF DeleteResponses, CronInv
  <2>2. QED
    BY <1>1, <2>1 DEF CronInv
<1>8. CASE AddExpiredEvent
  <2>1. /\ cron'.pc = "purge" /\ cron'.cur = NoMessage
        /\ cron'.expired = cron.expired \ {cron.cur}
    BY <1>8 DEF AddExpiredEvent
  <2>2. QED
    BY <1>1, <2>1, DeliveryAssumption DEF CronInv
<1>9. QED
  BY <1>2, <1>3, <1>4, <1>5, <1>6, <1>7, <1>8
     DEF Next, CronStep, MarkExpired, LoopEnds, DropEnvelopes, TrimEvents, CronCrash, vars

\* The invariant holds at the start.
LEMMA InitInv == Init => IInv
<1> SUFFICES ASSUME Init PROVE IInv
  OBVIOUS
<1>1. ServerTypeOK
  BY InitTypes
<1>2. CronInv
  BY DeliveryAssumption DEF Init, RetentionInit, CronIdle, CronInv
<1>3. \A r \in Request : RequestInv(r)
  BY DEF Init, DeliveryInit, Idle, RequestInv
<1>4. /\ RespondedHasResponse /\ DeliveredWasConfirmed
      /\ ResponsesFitTheirMessage /\ AcceptedIsDeliverable
  BY DEF Init, DeliveryInit, RespondedHasResponse, DeliveredWasConfirmed,
         ResponsesFitTheirMessage, AcceptedIsDeliverable, HasEvent
<1>5. QED
  BY <1>1, <1>2, <1>3, <1>4 DEF IInv

\* Every step keeps the invariant.
LEMMA NextInv == IInv /\ [Next]_vars => IInv'
<1> SUFFICES ASSUME IInv, [Next]_vars PROVE IInv'
  OBVIOUS
<1>1. ServerTypeOK'
  BY NextTypes DEF IInv
<1>2. \A m \in Message : Keeps(m)
  BY <1>1, NextKeeps DEF IInv
<1>3. CronInv'
  BY <1>1, <1>2, CronNext DEF IInv
<1>4. \A r \in Request : RequestInv(r)'
  BY <1>2, NextRequests DEF IInv
<1>5. /\ RespondedHasResponse' /\ DeliveredWasConfirmed'
      /\ ResponsesFitTheirMessage' /\ AcceptedIsDeliverable'
  BY <1>1, <1>2, SafetyNext
<1>6. QED
  BY <1>1, <1>3, <1>4, <1>5 DEF IInv

\* IInv holds in every reachable state.
THEOREM Invariance == Spec => []IInv
<1>1. QED
  BY InitInv, NextInv, PTL DEF Spec

\* The tables, the requests and the job always hold values of their types, and
\* only existing wrap rows are confirmed.
THEOREM TypeCorrect == Spec => []ServerTypeOK
<1>1. IInv => ServerTypeOK
  BY DEF IInv
<1>2. QED
  BY <1>1, Invariance, PTL

\* A message the sender sees as `responded` has a response to fetch.
THEOREM RespondedSafe == Spec => []RespondedHasResponse
<1>1. IInv => RespondedHasResponse
  BY DEF IInv
<1>2. QED
  BY <1>1, Invariance, PTL

\* Every stored response fits its request and comes from a target device.
THEOREM ResponsesSafe == Spec => []ResponsesFitTheirMessage
<1>1. IInv => ResponsesFitTheirMessage
  BY DEF IInv
<1>2. QED
  BY <1>1, Invariance, PTL

\* A message the sender sees as `delivered` was confirmed by a target device.
THEOREM DeliveredSafe == Spec => []DeliveredWasConfirmed
<1>1. IInv => DeliveredWasConfirmed
  BY DEF IInv
<1>2. QED
  BY <1>1, Invariance, PTL

\* A message whose acceptance is on record can be fetched by some device.
THEOREM AcceptedSafe == Spec => []AcceptedIsDeliverable
<1>1. IInv => AcceptedIsDeliverable
  BY DEF IInv
<1>2. QED
  BY <1>1, Invariance, PTL

-----------------------------------------------------------------------------
(* Deletion, confirmations and the sender's view *)

\* No step deletes a message that is not old enough.
LEMMA DeleteStep ==
    ASSUME IInv, [Next]_vars, NEW m \in Message
    PROVE  /\ Stored(m) /\ envelope'[m] = "none" => Outdated(m)
           /\ \/ Retired(m)
              \/ wraps[m] \subseteq wraps'[m] /\ ResponsesTo(m) \subseteq ResponsesTo(m)'
<1>1. CASE DeliveryNext
  BY <1>1, DeliveryGrows DEF Grows, IInv, ServerTypeOK, Stored, ResponsesTo
<1>2. CASE CronStep \/ CronCrash
  <2>1. Keeps(m)
    BY NextKeeps, NextTypes DEF IInv
  <2>2. clock' = clock
    BY <1>2 DEF CronStep, SelectExpired, MarkExpired, DeleteWraps, DeleteResponses,
       AddExpiredEvent, LoopEnds, DropEnvelopes, TrimEvents, CronCrash, deliveryVars
  <2>3. (Outdated(m)' => Outdated(m)) /\ (Retired(m)' => Retired(m))
    BY <2>2 DEF Outdated, Retired, PastDeadline, BeyondQueue
  <2>4. QED
    BY <2>1, <2>3 DEF Keeps, Stored
<1>3. CASE UNCHANGED vars
  BY <1>3 DEF vars, deliveryVars, tables, Stored, ResponsesTo
<1>4. QED
  BY <1>1, <1>2, <1>3 DEF Next

\* The retention job deletes no envelope within the queue retention, and no wrap
\* or response of a message whose deadline is still ahead.
THEOREM DeletionSafe == Spec => OnlyRetiredAreDeleted
<1>1. IInv /\ [Next]_vars =>
        [\A m \in Message :
          /\ Stored(m) /\ envelope'[m] = "none" => Outdated(m)
          /\ \/ Retired(m)
             \/ wraps[m] \subseteq wraps'[m] /\ ResponsesTo(m) \subseteq ResponsesTo(m)']_vars
  BY DeleteStep
<1>2. QED
  BY <1>1, Invariance, PTL DEF Spec, OnlyRetiredAreDeleted

\* A message that is not stored has no wraps, until it is outdated.
UnstoredHasNoWraps == \A m \in Message : Stored(m) \/ Outdated(m) \/ wraps[m] = {}

\* Who may add a wrap, a confirmation or an accepted message.
LEMMA RowSteps ==
    ASSUME IInv, [Next]_vars, NEW m \in Message
    PROVE  /\ \/ wraps'[m] \subseteq wraps[m]
              \/ \E r \in Request : req[r].pc = "insert_wraps" /\ req[r].msg = m
           /\ \/ confirmed'[m] \subseteq confirmed[m]
              \/ \E r \in Request : ConfirmWrap(r) /\ req[r].msg = m
           /\ \/ envelope'[m] = "accepted" => envelope[m] = "accepted"
              \/ ~Stored(m) /\ confirmed' = confirmed
<1> USE DEF IInv, ServerTypeOK, TypeOK, Stored, tables
<1> DEFINE Goal == /\ \/ wraps'[m] \subseteq wraps[m]
                      \/ \E r \in Request : req[r].pc = "insert_wraps" /\ req[r].msg = m
                   /\ \/ confirmed'[m] \subseteq confirmed[m]
                      \/ \E r \in Request : ConfirmWrap(r) /\ req[r].msg = m
                   /\ \/ envelope'[m] = "accepted" => envelope[m] = "accepted"
                      \/ ~Stored(m) /\ confirmed' = confirmed
<1>1. ASSUME NEW r \in Request, InsertEnvelope(r)
      PROVE  Goal
  BY <1>1 DEF InsertEnvelope
<1>2. ASSUME NEW r \in Request, InsertWraps(r)
      PROVE  Goal
  <2>1. req[r].pc = "insert_wraps" /\ req[r].msg \in Message
    BY <1>2 DEF InsertWraps, RequestInv
  <2>2. req[r].msg # m => wraps'[m] = wraps[m]
    BY <1>2, <2>1 DEF InsertWraps
  <2>3. envelope' = envelope /\ confirmed' = confirmed
    BY <1>2 DEF InsertWraps
  <2>4. QED
    BY <2>1, <2>2, <2>3
<1>3. ASSUME NEW r \in Request, CreateStep(r), ~InsertEnvelope(r), ~InsertWraps(r)
      PROVE  UNCHANGED <<envelope, wraps, confirmed>>
  BY <1>3 DEF CreateStep, ReadSender, ReadTargets, AddAcceptedEvent, RecordPushAttempt
<1>4. ASSUME NEW r \in Request, ConfirmWrap(r)
      PROVE  Goal
  <2>1. UNCHANGED <<envelope, wraps>>
    BY <1>4 DEF ConfirmWrap
  <2>2. req[r].msg # m => confirmed'[m] = confirmed[m]
    BY <1>4 DEF ConfirmWrap
  <2>3. QED
    BY <1>4, <2>1, <2>2
<1>5. ASSUME NEW r \in Request, DeviceStep(r), ~ConfirmWrap(r)
      PROVE  /\ UNCHANGED <<wraps, confirmed>>
             /\ envelope'[m] = "accepted" => envelope[m] = "accepted"
  BY <1>5 DEF DeviceStep, Authenticate, EndRequest, ReadDelivery, AdvanceState, ReadMessage,
              ReadWrap, CheckResponse, InsertResponse, SetResponded, AddRespondedEvent, RevokeSender
<1>6. CASE EnvironmentStep
  BY <1>6 DEF EnvironmentStep, RegisterDevice, RehomeDevice, Crash, Tick
<1>7. CASE CronStep \/ CronCrash
  BY <1>7 DEF CronStep, SelectExpired, MarkExpired, DeleteWraps, DeleteResponses,
              AddExpiredEvent, LoopEnds, DropEnvelopes, TrimEvents, CronCrash, deliveryVars
<1>8. CASE UNCHANGED vars
  BY <1>8 DEF vars, deliveryVars
<1>9. QED
  BY <1>1, <1>2, <1>3, <1>4, <1>5, <1>6, <1>7, <1>8 DEF Next, DeliveryNext

\* Wraps are inserted behind the envelope, and an envelope goes when it is old.
LEMMA UnstoredStep ==
    ASSUME IInv, UnstoredHasNoWraps, [Next]_vars
    PROVE  UnstoredHasNoWraps'
<1> SUFFICES ASSUME NEW m \in Message
             PROVE  Stored(m)' \/ Outdated(m)' \/ wraps'[m] = {}
  BY DEF UnstoredHasNoWraps
<1>1. Keeps(m)
  BY NextTypes, NextKeeps DEF IInv
<1>2. CASE wraps'[m] \subseteq wraps[m]
  BY <1>1, <1>2 DEF UnstoredHasNoWraps, Keeps
<1>3. ASSUME NEW r \in Request, req[r].pc = "insert_wraps", req[r].msg = m
      PROVE  Stored(m)' \/ Outdated(m)'
  <2>1. Outdated(m) \/ Stored(m)
    BY <1>3 DEF IInv, RequestInv
  <2>2. QED
    BY <1>1, <2>1 DEF Keeps
<1>4. QED
  BY <1>2, <1>3, RowSteps

\* A request about to advance waits, advances, or is cut off.
LEMMA AdvanceStays ==
    ASSUME ServerTypeOK, [Next]_vars, NEW r \in Request, req[r].pc = "advance", crashes' = 0
    PROVE  req'[r] = req[r] \/ AdvanceState(r)
<1> USE DEF ServerTypeOK, TypeOK, Goto, Finish
<1>1. ASSUME NEW q \in Request, CreateStep(q)
      PROVE  req'[r] = req[r]
  BY <1>1 DEF CreateStep, ReadSender, ReadTargets, InsertEnvelope, InsertWraps,
              AddAcceptedEvent, RecordPushAttempt
<1>2. ASSUME NEW q \in Request, DeviceStep(q), ~AdvanceState(q)
      PROVE  req'[r] = req[r]
  BY <1>2 DEF DeviceStep, Authenticate, EndRequest, ReadDelivery, ConfirmWrap, ReadMessage,
              ReadWrap, CheckResponse, InsertResponse, SetResponded, AddRespondedEvent, RevokeSender
<1>3. ASSUME NEW q \in Request, AdvanceState(q)
      PROVE  req'[r] = req[r] \/ AdvanceState(r)
  BY <1>3 DEF AdvanceState
<1>4. CASE EnvironmentStep
  BY <1>4 DEF EnvironmentStep, RegisterDevice, RehomeDevice, Crash, Tick
<1>5. CASE CronStep \/ CronCrash
  BY <1>5 DEF CronStep, SelectExpired, MarkExpired, DeleteWraps, DeleteResponses,
              AddExpiredEvent, LoopEnds, DropEnvelopes, TrimEvents, CronCrash, deliveryVars
<1>6. CASE UNCHANGED vars
  BY <1>6 DEF vars, deliveryVars
<1>7. QED
  BY <1>1, <1>2, <1>3, <1>4, <1>5, <1>6 DEF Next, DeliveryNext

\* Requests cut off are only ever counted up.
LEMMA CrashesGrow ==
    ASSUME ServerTypeOK, [Next]_vars
    PROVE  crashes' >= crashes
<1> USE DEF ServerTypeOK, TypeOK
<1>1. ASSUME NEW q \in Request, CreateStep(q) \/ DeviceStep(q)
      PROVE  crashes' = crashes
  BY <1>1 DEF CreateStep, ReadSender, ReadTargets, InsertEnvelope, InsertWraps,
       AddAcceptedEvent, RecordPushAttempt, DeviceStep, Authenticate, EndRequest, ReadDelivery,
       ConfirmWrap, AdvanceState, ReadMessage, ReadWrap, CheckResponse, InsertResponse,
       SetResponded, AddRespondedEvent, RevokeSender
<1>2. CASE EnvironmentStep
  BY <1>2 DEF EnvironmentStep, RegisterDevice, RehomeDevice, Crash, Tick
<1>3. CASE CronStep \/ CronCrash
  <2>1. crashes' = crashes \/ crashes' = crashes + 1
    BY <1>3 DEF CronStep, SelectExpired, MarkExpired, DeleteWraps, DeleteResponses,
                AddExpiredEvent, LoopEnds, DropEnvelopes, TrimEvents, CronCrash, deliveryVars
  <2>2. QED
    BY <2>1
<1>4. CASE UNCHANGED vars
  BY <1>4 DEF vars, deliveryVars
<1>5. QED
  BY <1>1, <1>2, <1>3, <1>4 DEF Next, DeliveryNext

\* A confirmation is stored by a request that goes on to advance the state.
LEMMA ConfirmationStep ==
    ASSUME IInv, UnstoredHasNoWraps, ConfirmedAdvances, [Next]_vars
    PROVE  ConfirmedAdvances'
<1> SUFFICES ASSUME NEW m \in Message, envelope'[m] = "accepted", confirmed'[m] # {},
                    ~Outdated(m)', crashes' = 0
             PROVE  \E r \in Request : req'[r].pc = "advance" /\ req'[r].msg = m
  <2>1. crashes' \in Nat
    BY NextTypes DEF IInv, ServerTypeOK, TypeOK
  <2>2. QED
    BY <2>1 DEF ConfirmedAdvances
<1> USE DEF IInv, ServerTypeOK, TypeOK
<1>1. ~Outdated(m) /\ crashes = 0
  <2>1. Keeps(m)
    BY NextTypes, NextKeeps
  <2>2. crashes' >= crashes
    BY CrashesGrow
  <2>3. QED
    BY <2>1, <2>2 DEF Keeps
<1>2. envelope[m] = "accepted"
  <2>1. CASE ~Stored(m) /\ confirmed' = confirmed
    <3>1. wraps[m] = {}
      BY <1>1, <2>1 DEF UnstoredHasNoWraps
    <3>2. QED
      BY <2>1, <3>1
  <2>2. QED
    BY <2>1, RowSteps
<1>3. ASSUME NEW r \in Request, ConfirmWrap(r), req[r].msg = m
      PROVE  req'[r].pc = "advance" /\ req'[r].msg = m
  <2>1. req[r] \in RequestType
    OBVIOUS
  <2>2. QED
    BY <1>3, <2>1 DEF ConfirmWrap, Goto, RequestType
<1>4. CASE confirmed'[m] \subseteq confirmed[m]
  <2>1. PICK r \in Request : req[r].pc = "advance" /\ req[r].msg = m
    BY <1>1, <1>2, <1>4 DEF ConfirmedAdvances
  <2>2. ~AdvanceState(r)
    BY <2>1 DEF AdvanceState
  <2>3. req'[r] = req[r]
    BY <2>1, <2>2, AdvanceStays
  <2>4. QED
    BY <2>1, <2>3
<1>5. QED
  BY <1>3, <1>4, RowSteps

\* As long as no request is cut off, a confirmed message that still reads as
\* accepted is about to advance.
THEOREM ConfirmedSafe == Spec => []ConfirmedAdvances
<1>1. Init => UnstoredHasNoWraps /\ ConfirmedAdvances
  BY DEF Init, DeliveryInit, UnstoredHasNoWraps, ConfirmedAdvances
<1>2. IInv /\ (UnstoredHasNoWraps /\ ConfirmedAdvances) /\ [Next]_vars
      => (UnstoredHasNoWraps /\ ConfirmedAdvances)'
  BY UnstoredStep, ConfirmationStep
<1>3. QED
  BY <1>1, <1>2, Invariance, PTL DEF Spec

\* Every step of the server is a step of the sender's view, or none.
LEMMA ViewStep ==
    ASSUME IInv, [Next]_vars
    PROVE  [View!ViewNext]_View!viewVars
<1> USE DEF View!ViewNext, View!viewVars, IInv, ServerTypeOK, TypeOK
<1>1. CASE UNCHANGED <<clock, envelope>>
  BY <1>1
<1>2. ASSUME NEW r \in Request, InsertEnvelope(r)
      PROVE  [View!ViewNext]_View!viewVars
  <2>1. CASE UNCHANGED envelope
    BY <1>1, <1>2, <2>1 DEF InsertEnvelope
  <2>2. CASE envelope' # envelope
    <3>1. req[r].msg \in Message
      BY <1>2 DEF InsertEnvelope, RequestInv
    <3>2. View!Accept(req[r].msg)
      BY <1>2, <2>2 DEF InsertEnvelope, Stored, View!Accept
    <3>3. QED
      BY <3>1, <3>2
  <2>3. QED
    BY <2>1, <2>2
<1>3. ASSUME NEW r \in Request, AdvanceState(r)
      PROVE  [View!ViewNext]_View!viewVars
  <2>1. req[r].msg \in Message
    BY <1>3 DEF AdvanceState, RequestInv
  <2>2. CASE envelope[req[r].msg] = "accepted"
    <3>1. View!Deliver(req[r].msg)
      BY <1>3, <2>1, <2>2 DEF AdvanceState, View!Deliver
    <3>2. QED
      BY <2>1, <3>1
  <2>3. CASE envelope[req[r].msg] # "accepted"
    BY <1>1, <1>3, <2>1, <2>3 DEF AdvanceState
  <2>4. QED
    BY <2>2, <2>3
<1>4. ASSUME NEW r \in Request, SetResponded(r)
      PROVE  [View!ViewNext]_View!viewVars
  <2>1. req[r].msg \in Message /\ Submission[req[r].msg].mode # "notify"
    BY <1>4 DEF SetResponded, RequestInv
  <2>2. CASE envelope[req[r].msg] \in {"accepted", "delivered", "expired"}
    <3>1. View!Respond(req[r].msg)
      BY <1>4, <2>1, <2>2 DEF SetResponded, View!Respond
    <3>2. QED
      BY <2>1, <3>1
  <2>3. CASE envelope[req[r].msg] \in {"none", "responded"}
    BY <1>1, <1>4, <2>1, <2>3 DEF SetResponded
  <2>4. QED
    BY <2>1, <2>2, <2>3 DEF Status
<1>5. CASE MarkExpired
  <2> DEFINE S == {m \in Message :
                     /\ Submission[m].expiresAt < cron.at
                     /\ \/ envelope[m] = "accepted"
                        \/ envelope[m] = "delivered" /\ Submission[m].mode # "notify"}
  <2>1. \A m \in S : Submission[m].expiresAt < clock
    BY DeliveryAssumption DEF CronTypeOK, CronType, SubmissionType
  <2>2. View!Expire(S)
    BY <1>5, <2>1 DEF MarkExpired, View!Expire
  <2>3. QED
    BY <2>2
<1>6. CASE DropEnvelopes
  <2>1. CASE UNCHANGED envelope
    BY <1>1, <1>6, <2>1 DEF DropEnvelopes
  <2>2. CASE envelope' # envelope
    <3> DEFINE S == {m \in Message : Stored(m) /\ BeyondQueue(m, cron.at)}
    <3>1. \A m \in S : Submission[m].createdAt + QueueRetention < clock
      <4> SUFFICES ASSUME NEW m \in Message, BeyondQueue(m, cron.at)
                   PROVE  Submission[m].createdAt + QueueRetention < clock
        OBVIOUS
      <4>1. Submission[m].createdAt \in Nat
        BY DeliveryAssumption DEF SubmissionType
      <4>2. QED
        BY <4>1, DeliveryAssumption DEF BeyondQueue, CronTypeOK, CronType
    <3>2. envelope' = [m \in Message |-> IF m \in S THEN "none" ELSE envelope[m]]
          /\ clock' = clock
      BY <1>6, <2>2 DEF DropEnvelopes
    <3> HIDE DEF S
    <3>3. S \in SUBSET Message
      BY DEF S
    <3>4. View!Forget(S)
      BY <3>1, <3>2, <3>3 DEF View!Forget
    <3>5. QED
      BY <3>3, <3>4
  <2>3. QED
    BY <2>1, <2>2
<1>7. CASE Tick
  BY <1>7 DEF Tick, tables, View!Pass
<1>8. ASSUME NEW r \in Request, CreateStep(r), ~InsertEnvelope(r)
      PROVE  UNCHANGED <<clock, envelope>>
  BY <1>8 DEF CreateStep, ReadSender, ReadTargets, InsertWraps, AddAcceptedEvent,
              RecordPushAttempt, tables
<1>9. ASSUME NEW r \in Request, DeviceStep(r), ~AdvanceState(r), ~SetResponded(r)
      PROVE  UNCHANGED <<clock, envelope>>
  BY <1>9 DEF DeviceStep, Authenticate, EndRequest, ReadDelivery, ConfirmWrap, ReadMessage,
              ReadWrap, CheckResponse, InsertResponse, AddRespondedEvent, RevokeSender, tables
<1>10. CASE EnvironmentStep /\ ~Tick
  BY <1>1, <1>10 DEF EnvironmentStep, RegisterDevice, RehomeDevice, Crash, tables
<1>11. CASE (CronStep \/ CronCrash) /\ ~MarkExpired /\ ~DropEnvelopes
  BY <1>1, <1>11 DEF CronStep, SelectExpired, DeleteWraps, DeleteResponses, AddExpiredEvent,
              LoopEnds, TrimEvents, CronCrash, deliveryVars, tables
<1>12. CASE UNCHANGED vars
  BY <1>1, <1>12 DEF vars, deliveryVars, tables
<1>13. QED
  BY <1>1, <1>2, <1>3, <1>4, <1>5, <1>6, <1>7, <1>8, <1>9, <1>10, <1>11, <1>12
     DEF Next, DeliveryNext

\* What a sender sees by polling is a behaviour of SenderView.
THEOREM ViewRefined == Spec => SenderSeesView
<1>1. Init => View!ViewInit
  BY DEF Init, DeliveryInit, View!ViewInit
<1>2. IInv /\ [Next]_vars => [View!ViewNext]_View!viewVars
  BY ViewStep
<1>3. QED
  BY <1>1, <1>2, Invariance, PTL DEF Spec, SenderSeesView, View!ViewSpec
=============================================================================
