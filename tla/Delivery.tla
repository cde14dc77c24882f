------------------------------ MODULE Delivery ------------------------------
(***************************************************************************)
(* The message tables of the server and the request handlers that write    *)
(* them: createMessage and submitResponse (message-service.ts),            *)
(* markDelivered and revokeSender (device-service.ts).                     *)
(*                                                                         *)
(* The code has no transactions.  Every database statement is atomic by    *)
(* itself and every await between two statements lets other requests run,  *)
(* so a handler is one action per statement, and what it has read so far   *)
(* lives in req[r].  Module MessageServer composes these handlers with the *)
(* retention job and states the properties.                                *)
(***************************************************************************)
EXTENDS Naturals

CONSTANTS
    Message,      \* message ids, drawn at random by the sender
    Sender,       \* paired senders
    Device,       \* device ids
    Recipient,
    Request,      \* slots for requests in flight at the same time
    Submission,   \* what the sender signed for each message id
    SenderHome,   \* the recipient each sender was paired with
    NoKey, NoMessage, NoDevice, NoRecipient,   \* absent values
    QueueRetention,   \* QUEUE_RETENTION_DAYS, in clock units
    FKEnforced,   \* whether the database enforces the REFERENCES clauses
    MaxClock,     \* bound of the model: the last clock value
    MaxCrashes    \* bound of the model: requests cut off between statements

Mode == {"notify", "request_reply", "request_approval"}
Kind == {"reply", "approval"}
Status == {"none", "accepted", "delivered", "responded", "expired"}
\* "push" stands for push_attempted and push_failed: nothing here reads the outcome.
EventName == {"accepted", "push", "responded", "expired"}
Pc == {"idle", "authenticated",
       "read_targets", "insert_envelope", "insert_wraps", "accepted_event", "push",
       "confirm_wrap", "advance",
       "read_wrap", "check_response", "insert_response", "set_responded", "responded_event"}

SubmissionType ==
    [sender : Sender, recipient : Recipient, mode : Mode, key : STRING \cup {NoKey},
     createdAt : Nat, expiresAt : Nat]

ASSUME DeliveryAssumption ==
    /\ Submission \in [Message -> SubmissionType]
    /\ SenderHome \in [Sender -> Recipient]
    /\ QueueRetention \in Nat /\ MaxClock \in Nat /\ MaxCrashes \in Nat
    /\ FKEnforced \in BOOLEAN
    /\ NoMessage \notin Message /\ NoDevice \notin Device /\ NoRecipient \notin Recipient

VARIABLES
    clock,
    envelope,   \* message_envelopes: the state column, "none" without a row
    wraps,      \* message_key_wraps: the devices with a row, per message
    confirmed,  \* ... those whose row has deliveredAt set
    responses,  \* response_envelopes
    events,     \* delivery_events
    revoked,    \* senders with revokedAt set
    home,       \* devices.recipientId, NoRecipient before registration
    req,        \* the requests in flight
    crashes     \* requests cut off so far

tables == <<envelope, wraps, confirmed, responses, events>>
deliveryVars == <<clock, tables, revoked, home, req, crashes>>

RequestType ==
    [pc : Pc, msg : Message \cup {NoMessage}, device : Device \cup {NoDevice},
     recipient : Recipient \cup {NoRecipient}, targets : SUBSET Device,
     kind : Kind, seen : Status, isTarget : BOOLEAN]

ResponseType == [msg : Message, device : Device, kind : Kind]
EventType == [msg : Message, event : EventName, at : Nat]

Idle == [pc |-> "idle", msg |-> NoMessage, device |-> NoDevice, recipient |-> NoRecipient,
         targets |-> {}, kind |-> "reply", seen |-> "none", isTarget |-> FALSE]

\* No message is stored, no device registered, every sender paired and active.
DeliveryInit ==
    /\ clock = 0
    /\ envelope = [m \in Message |-> "none"]
    /\ wraps = [m \in Message |-> {}]
    /\ confirmed = [m \in Message |-> {}]
    /\ responses = {}
    /\ events = {}
    /\ revoked = {}
    /\ home = [d \in Device |-> NoRecipient]
    /\ req = [r \in Request |-> Idle]
    /\ crashes = 0

Finish(r) == req' = [req EXCEPT ![r] = Idle]
Goto(r, label) == req' = [req EXCEPT ![r].pc = label]

Stored(m) == envelope[m] # "none"
\* A row that references message m can be inserted.
CanReference(m) == FKEnforced => Stored(m)
PastDeadline(m) == Submission[m].expiresAt < clock
ActiveDevices(rcp) == {d \in Device : home[d] = rcp}
WithEvent(m, name) == events \cup {[msg |-> m, event |-> name, at |-> clock]}

\* The unique index on (sender_id, idempotency_key) holds no row equal to m's.
KeyIsFree(m) ==
    Submission[m].key # NoKey =>
        \A n \in Message : Stored(n) => \/ Submission[n].sender # Submission[m].sender
                                        \/ Submission[n].key # Submission[m].key

-----------------------------------------------------------------------------
(* createMessage *)

\* The sender submits m with key wraps for the devices W.  W comes from an
\* earlier senderTargets call, so any set may arrive; createdAt is the sender's
\* own time of sending.
ReadSender(r, m, W) ==
    /\ req[r].pc = "idle"
    /\ Submission[m].createdAt = clock
    /\ Submission[m].sender \notin revoked
    /\ SenderHome[Submission[m].sender] = Submission[m].recipient
    /\ req' = [req EXCEPT ![r] = [Idle EXCEPT !.pc = "read_targets", !.msg = m, !.targets = W]]
    /\ UNCHANGED <<clock, tables, revoked, home, crashes>>

\* The wraps must be for exactly the devices active now, and there must be one.
ReadTargets(r) ==
    /\ req[r].pc = "read_targets"
    /\ LET active == ActiveDevices(Submission[req[r].msg].recipient)
       IN  IF active # {} /\ req[r].targets = active
           THEN Goto(r, "insert_envelope")
           ELSE Finish(r)
    /\ UNCHANGED <<clock, tables, revoked, home, crashes>>

\* Mutant: the acceptance is recorded before the wraps are stored.
InsertEnvelopeThenEvent(r) ==
    /\ req[r].pc = "insert_envelope"
    /\ IF ~Stored(req[r].msg) /\ KeyIsFree(req[r].msg)
       THEN envelope' = [envelope EXCEPT ![req[r].msg] = "accepted"] /\ Goto(r, "accepted_event")
       ELSE Finish(r) /\ UNCHANGED envelope
    /\ UNCHANGED <<clock, wraps, confirmed, responses, events, revoked, home, crashes>>

\* A duplicate id or idempotency key fails the statement and the request.
InsertEnvelope(r) ==
    /\ req[r].pc = "insert_envelope"
    /\ IF ~Stored(req[r].msg) /\ KeyIsFree(req[r].msg)
       THEN envelope' = [envelope EXCEPT ![req[r].msg] = "accepted"] /\ Goto(r, "insert_wraps")
       ELSE Finish(r) /\ UNCHANGED envelope
    /\ UNCHANGED <<clock, wraps, confirmed, responses, events, revoked, home, crashes>>

\* One statement inserts all the wraps.
InsertWraps(r) ==
    /\ req[r].pc = "insert_wraps"
    /\ IF CanReference(req[r].msg)
       THEN /\ wraps' = [wraps EXCEPT ![req[r].msg] = @ \cup req[r].targets]
            /\ Goto(r, "accepted_event")
       ELSE Finish(r) /\ UNCHANGED wraps
    /\ UNCHANGED <<clock, envelope, confirmed, responses, events, revoked, home, crashes>>

\* The event, then the answer to the sender; the pushes go on behind it.
AddAcceptedEvent(r) ==
    /\ req[r].pc = "accepted_event"
    /\ IF CanReference(req[r].msg)
       THEN events' = WithEvent(req[r].msg, "accepted") /\ Goto(r, "push")
       ELSE Finish(r) /\ UNCHANGED events
    /\ UNCHANGED <<clock, envelope, wraps, confirmed, responses, revoked, home, crashes>>

\* Background task: the attempt for one target has ended and is recorded,
\* whatever happened to the others.
RecordPushAttempt(r, d) ==
    /\ req[r].pc = "push"
    /\ d \in req[r].targets
    /\ events' = IF CanReference(req[r].msg) THEN WithEvent(req[r].msg, "push") ELSE events
    /\ IF req[r].targets = {d}
       THEN Finish(r)
       ELSE req' = [req EXCEPT ![r].targets = @ \ {d}]
    /\ UNCHANGED <<clock, envelope, wraps, confirmed, responses, revoked, home, crashes>>

-----------------------------------------------------------------------------
(* Device requests: verifyDeviceRequest reads the recipient, a handler follows. *)

Authenticate(r, d) ==
    /\ req[r].pc = "idle"
    /\ home[d] # NoRecipient
    /\ req' = [req EXCEPT ![r] =
                  [Idle EXCEPT !.pc = "authenticated", !.device = d, !.recipient = home[d]]]
    /\ UNCHANGED <<clock, tables, revoked, home, crashes>>

\* The handler refuses the request or only reads.
EndRequest(r) ==
    /\ req[r].pc = "authenticated"
    /\ Finish(r)
    /\ UNCHANGED <<clock, tables, revoked, home, crashes>>

(* markDelivered *)

\* Mutant: the state advances without a stamp on the wrap.
ReadDeliveryThenAdvance(r, m) ==
    /\ req[r].pc = "authenticated"
    /\ Stored(m) /\ req[r].device \in wraps[m]
    /\ req' = [req EXCEPT ![r] = [@ EXCEPT !.pc = "advance", !.msg = m]]
    /\ UNCHANGED <<clock, tables, revoked, home, crashes>>

ReadDelivery(r, m) ==
    /\ req[r].pc = "authenticated"
    /\ Stored(m) /\ req[r].device \in wraps[m]
    /\ home[req[r].device] = Submission[m].recipient
    /\ envelope[m] # "expired" /\ ~PastDeadline(m)
    /\ req' = [req EXCEPT ![r] = [@ EXCEPT !.pc = "confirm_wrap", !.msg = m]]
    /\ UNCHANGED <<clock, tables, revoked, home, crashes>>

\* Mutant: the stamp recreates a wrap the retention job has deleted.
ConfirmMissingWrap(r) ==
    /\ req[r].pc = "confirm_wrap"
    /\ confirmed' = [confirmed EXCEPT ![req[r].msg] = @ \cup {req[r].device}]
    /\ Goto(r, "advance")
    /\ UNCHANGED <<clock, envelope, wraps, responses, events, revoked, home, crashes>>

ConfirmWrap(r) ==
    /\ req[r].pc = "confirm_wrap"
    /\ confirmed' = [confirmed EXCEPT ![req[r].msg] =
                        @ \cup ({req[r].device} \cap wraps[req[r].msg])]
    /\ Goto(r, "advance")
    /\ UNCHANGED <<clock, envelope, wraps, responses, events, revoked, home, crashes>>

\* Mutant: the update has no WHERE state = 'accepted'.
AdvanceAnyState(r) ==
    /\ req[r].pc = "advance"
    /\ envelope' = [envelope EXCEPT ![req[r].msg] = "delivered"]
    /\ Finish(r)
    /\ UNCHANGED <<clock, wraps, confirmed, responses, events, revoked, home, crashes>>

\* Mutant: the state waits for the last target.
AdvanceWithLastTarget(r) ==
    /\ req[r].pc = "advance"
    /\ envelope' = [envelope EXCEPT ![req[r].msg] =
          IF @ = "accepted" /\ confirmed[req[r].msg] = wraps[req[r].msg] THEN "delivered" ELSE @]
    /\ Finish(r)
    /\ UNCHANGED <<clock, wraps, confirmed, responses, events, revoked, home, crashes>>

\* UPDATE ... WHERE state = 'accepted'.
AdvanceState(r) ==
    /\ req[r].pc = "advance"
    /\ envelope' = [envelope EXCEPT ![req[r].msg] = IF @ = "accepted" THEN "delivered" ELSE @]
    /\ Finish(r)
    /\ UNCHANGED <<clock, wraps, confirmed, responses, events, revoked, home, crashes>>

(* submitResponse *)

\* The state the later checks use is the one read here.
ReadMessage(r, m, k) ==
    /\ req[r].pc = "authenticated"
    /\ Stored(m)
    /\ Submission[m].recipient = req[r].recipient
    /\ req' = [req EXCEPT ![r] = [@ EXCEPT !.pc = "read_wrap", !.msg = m, !.kind = k,
                                            !.seen = envelope[m]]]
    /\ UNCHANGED <<clock, tables, revoked, home, crashes>>

ReadWrap(r) ==
    /\ req[r].pc = "read_wrap"
    /\ req' = [req EXCEPT ![r] = [@ EXCEPT !.pc = "check_response",
                                            !.isTarget = req[r].device \in wraps[req[r].msg]]]
    /\ UNCHANGED <<clock, tables, revoked, home, crashes>>

KindFits(mode, k) ==
    \/ mode = "request_reply" /\ k = "reply"
    \/ mode = "request_approval" /\ k = "approval"

\* Mutant: any device of the recipient may answer.
CheckResponseOfAnyDevice(r) ==
    /\ req[r].pc = "check_response"
    /\ IF /\ home[req[r].device] = req[r].recipient
          /\ req[r].seen \notin {"responded", "expired"}
          /\ ~PastDeadline(req[r].msg)
          /\ KindFits(Submission[req[r].msg].mode, req[r].kind)
       THEN Goto(r, "insert_response")
       ELSE Finish(r)
    /\ UNCHANGED <<clock, tables, revoked, home, crashes>>

\* Mutant: the state is set before the response is stored.
CheckResponseThenSet(r) ==
    /\ req[r].pc = "check_response"
    /\ IF req[r].isTarget /\ KindFits(Submission[req[r].msg].mode, req[r].kind)
       THEN Goto(r, "set_responded")
       ELSE Finish(r)
    /\ UNCHANGED <<clock, tables, revoked, home, crashes>>

\* Reads the device, then applies every check.
CheckResponse(r) ==
    /\ req[r].pc = "check_response"
    /\ IF /\ req[r].isTarget
          /\ home[req[r].device] = req[r].recipient
          /\ req[r].seen \notin {"responded", "expired"}
          /\ ~PastDeadline(req[r].msg)
          /\ KindFits(Submission[req[r].msg].mode, req[r].kind)
       THEN Goto(r, "insert_response")
       ELSE Finish(r)
    /\ UNCHANGED <<clock, tables, revoked, home, crashes>>

InsertResponse(r) ==
    /\ req[r].pc = "insert_response"
    /\ IF CanReference(req[r].msg)
       THEN /\ responses' = responses \cup
                  {[msg |-> req[r].msg, device |-> req[r].device, kind |-> req[r].kind]}
            /\ Goto(r, "set_responded")
       ELSE Finish(r) /\ UNCHANGED responses
    /\ UNCHANGED <<clock, envelope, wraps, confirmed, events, revoked, home, crashes>>

\* UPDATE ... WHERE id = ?: whatever the state is by now.
SetResponded(r) ==
    /\ req[r].pc = "set_responded"
    /\ envelope' = [envelope EXCEPT ![req[r].msg] = IF @ = "none" THEN @ ELSE "responded"]
    /\ Goto(r, "responded_event")
    /\ UNCHANGED <<clock, wraps, confirmed, responses, events, revoked, home, crashes>>

AddRespondedEvent(r) ==
    /\ req[r].pc = "responded_event"
    /\ events' = IF CanReference(req[r].msg) THEN WithEvent(req[r].msg, "responded") ELSE events
    /\ Finish(r)
    /\ UNCHANGED <<clock, envelope, wraps, confirmed, responses, revoked, home, crashes>>

(* revokeSender: the row it reads first never changes its recipient. *)
RevokeSender(r, s) ==
    /\ req[r].pc = "authenticated"
    /\ SenderHome[s] = req[r].recipient
    /\ revoked' = revoked \cup {s}
    /\ Finish(r)
    /\ UNCHANGED <<clock, tables, home, crashes>>

-----------------------------------------------------------------------------
(* What happens around the handlers. *)

\* registerDevice inserts the device row.
RegisterDevice(d, rcp) ==
    /\ home[d] = NoRecipient
    /\ home' = [home EXCEPT ![d] = rcp]
    /\ UNCHANGED <<clock, tables, revoked, req, crashes>>

\* approvePairing of an email setup moves the approving device to the
\* recipient of the email.
RehomeDevice(d, rcp) ==
    /\ home[d] \notin {NoRecipient, rcp}
    /\ home' = [home EXCEPT ![d] = rcp]
    /\ UNCHANGED <<clock, tables, revoked, req, crashes>>

\* The worker is stopped, or the next statement fails, between two statements.
Crash(r) ==
    /\ req[r].pc # "idle"
    /\ crashes < MaxCrashes
    /\ crashes' = crashes + 1
    /\ Finish(r)
    /\ UNCHANGED <<clock, tables, revoked, home>>

Tick ==
    /\ clock < MaxClock
    /\ clock' = clock + 1
    /\ UNCHANGED <<tables, revoked, home, req, crashes>>

CreateStep(r) ==
    \/ \E m \in Message, W \in SUBSET Device : ReadSender(r, m, W)
    \/ ReadTargets(r)
    \/ InsertEnvelope(r)
    \/ InsertWraps(r)
    \/ AddAcceptedEvent(r)
    \/ \E d \in Device : RecordPushAttempt(r, d)

DeviceStep(r) ==
    \/ \E d \in Device : Authenticate(r, d)
    \/ EndRequest(r)
    \/ \E m \in Message : ReadDelivery(r, m)
    \/ ConfirmWrap(r)
    \/ AdvanceState(r)
    \/ \E m \in Message, k \in Kind : ReadMessage(r, m, k)
    \/ ReadWrap(r)
    \/ CheckResponse(r)
    \/ InsertResponse(r)
    \/ SetResponded(r)
    \/ AddRespondedEvent(r)
    \/ \E s \in Sender : RevokeSender(r, s)

EnvironmentStep ==
    \/ \E d \in Device, rcp \in Recipient : RegisterDevice(d, rcp) \/ RehomeDevice(d, rcp)
    \/ \E r \in Request : Crash(r)
    \/ Tick

DeliveryNext ==
    \/ \E r \in Request : CreateStep(r) \/ DeviceStep(r)
    \/ EnvironmentStep

\* The tables and the requests hold values of their types, and only existing
\* wrap rows are confirmed.
TypeOK ==
    /\ clock \in Nat
    /\ envelope \in [Message -> Status]
    /\ wraps \in [Message -> SUBSET Device]
    /\ confirmed \in [Message -> SUBSET Device]
    /\ \A m \in Message : confirmed[m] \subseteq wraps[m]
    /\ responses \subseteq ResponseType
    /\ events \subseteq EventType
    /\ revoked \subseteq Sender
    /\ home \in [Device -> Recipient \cup {NoRecipient}]
    /\ req \in [Request -> RequestType]
    /\ crashes \in Nat
=============================================================================
