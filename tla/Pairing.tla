------------------------------- MODULE Pairing -------------------------------
(***************************************************************************)
(* Pairing an agent with a recipient (pairing-service.ts) and registering  *)
(* devices (device-service.ts): by a link sent to an email address, or by  *)
(* a code shown on the phone.  One action per database statement; req[r]   *)
(* is what a request in flight has read.                                   *)
(***************************************************************************)
EXTENDS Naturals

CONSTANTS
    Session, Agent, Device, Recipient, Email, SenderId,
    Request,     \* slots for requests in flight at the same time
    NoSession, NoAgent, NoDevice, NoRecipient, NoEmail, NoSender,   \* absent values
    Lifetime,    \* of a session, in clock units
    MaxClock,    \* bound of the model: the last clock value
    MaxCrashes   \* bound of the model: requests cut off between statements

Kind == {"none", "email", "code"}
Pc == {"idle", "new_recipient", "new_email", "new_session", "write_claim",
       "read_session", "move_device", "insert_sender", "finish_session",
       "first_recipient", "insert_device"}

ASSUME PairingAssumption ==
    /\ Lifetime \in Nat /\ MaxClock \in Nat /\ MaxCrashes \in Nat
    /\ NoSession \notin Session /\ NoAgent \notin Agent /\ NoDevice \notin Device
    /\ NoRecipient \notin Recipient /\ NoEmail \notin Email /\ NoSender \notin SenderId

VARIABLES
    clock,
    recipients,  \* recipients
    emailOwner,  \* recipient_emails: the recipient per normalized address
    home,        \* devices.recipientId, NoRecipient before registration
    session,     \* pairing_sessions
    senders,     \* senders; session and shown are history, not columns
    shown,       \* app state: the sender the approving screen displays, per session
    req,         \* the requests in flight
    crashes      \* requests cut off so far

tables == <<recipients, emailOwner, home, session, senders>>
vars == <<clock, tables, shown, req, crashes>>

SessionType ==
    [kind : Kind, email : Email \cup {NoEmail}, recipient : Recipient \cup {NoRecipient},
     agent : Agent \cup {NoAgent}, claimed : BOOLEAN, approved : BOOLEAN,
     sender : SenderId \cup {NoSender}, expiresAt : Nat]

SenderType ==
    [id : SenderId, recipient : Recipient, agent : Agent, session : Session, shown : Agent]

RequestType ==
    [pc : Pc, session : Session \cup {NoSession}, agent : Agent \cup {NoAgent},
     shown : Agent \cup {NoAgent}, email : Email \cup {NoEmail},
     device : Device \cup {NoDevice}, from : Recipient \cup {NoRecipient},
     recipient : Recipient \cup {NoRecipient}, sender : SenderId \cup {NoSender},
     expiresAt : Nat]

NoRow == [kind |-> "none", email |-> NoEmail, recipient |-> NoRecipient, agent |-> NoAgent,
          claimed |-> FALSE, approved |-> FALSE, sender |-> NoSender, expiresAt |-> 0]

Idle == [pc |-> "idle", session |-> NoSession, agent |-> NoAgent, shown |-> NoAgent,
         email |-> NoEmail, device |-> NoDevice, from |-> NoRecipient,
         recipient |-> NoRecipient, sender |-> NoSender, expiresAt |-> 0]

Init ==
    /\ clock = 0
    /\ recipients = {}
    /\ emailOwner = [e \in Email |-> NoRecipient]
    /\ home = [d \in Device |-> NoRecipient]
    /\ session = [s \in Session |-> NoRow]
    /\ senders = {}
    /\ shown = [s \in Session |-> NoAgent]
    /\ req = [r \in Request |-> Idle]
    /\ crashes = 0

Finish(r) == req' = [req EXCEPT ![r] = Idle]
Goto(r, label) == req' = [req EXCEPT ![r].pc = label]

Exists(s) == session[s].kind # "none"
Expired(s) == session[s].expiresAt < clock

\* The answer of pairingStatus.
Status(s) ==
    IF ~Exists(s) THEN "not_found"
    ELSE IF Expired(s) THEN "expired"
    ELSE IF session[s].approved THEN "paired"
    ELSE IF session[s].claimed THEN "claimed" ELSE "pending"

-----------------------------------------------------------------------------
(* startEmailPairing, with getOrCreateRecipientEmail *)

ReadEmail(r, a, e) ==
    /\ req[r].pc = "idle"
    /\ req' = [req EXCEPT ![r] =
          [Idle EXCEPT !.pc = IF emailOwner[e] = NoRecipient THEN "new_recipient" ELSE "new_session",
                       !.agent = a, !.email = e, !.recipient = emailOwner[e],
                       !.expiresAt = clock + Lifetime]]
    /\ UNCHANGED <<clock, tables, shown, crashes>>

\* Mutant: the id is drawn and the row left to a later statement.
DrawRecipient(r, rcp) ==
    /\ req[r].pc \in {"new_recipient", "first_recipient"}
    /\ rcp \notin recipients
    /\ req' = [req EXCEPT ![r] =
          [@ EXCEPT !.pc = IF req[r].pc = "new_recipient" THEN "new_email" ELSE "insert_device",
                    !.recipient = rcp]]
    /\ UNCHANGED <<clock, tables, shown, crashes>>

\* newId draws an id no row has; also the first statement of registerDevice.
InsertRecipient(r, rcp) ==
    /\ req[r].pc \in {"new_recipient", "first_recipient"}
    /\ rcp \notin recipients
    /\ recipients' = recipients \cup {rcp}
    /\ req' = [req EXCEPT ![r] =
          [@ EXCEPT !.pc = IF req[r].pc = "new_recipient" THEN "new_email" ELSE "insert_device",
                    !.recipient = rcp]]
    /\ UNCHANGED <<clock, emailOwner, home, session, senders, shown, crashes>>

\* Mutant: the address is taken over from a request that was faster.
UpsertEmail(r) ==
    /\ req[r].pc = "new_email"
    /\ emailOwner' = [emailOwner EXCEPT ![req[r].email] = req[r].recipient]
    /\ Goto(r, "new_session")
    /\ UNCHANGED <<clock, recipients, home, session, senders, shown, crashes>>

\* The unique index on the normalized address refuses a second row.
InsertEmail(r) ==
    /\ req[r].pc = "new_email"
    /\ IF emailOwner[req[r].email] = NoRecipient
       THEN /\ emailOwner' = [emailOwner EXCEPT ![req[r].email] = req[r].recipient]
            /\ Goto(r, "new_session")
       ELSE Finish(r) /\ UNCHANGED emailOwner
    /\ UNCHANGED <<clock, recipients, home, session, senders, shown, crashes>>

\* The email goes out behind this; if that fails the session stays.
InsertEmailSession(r, s) ==
    /\ req[r].pc = "new_session"
    /\ ~Exists(s)
    /\ session' = [session EXCEPT ![s] =
          [NoRow EXCEPT !.kind = "email", !.email = req[r].email, !.recipient = req[r].recipient,
                        !.agent = req[r].agent, !.expiresAt = req[r].expiresAt]]
    /\ Finish(r)
    /\ UNCHANGED <<clock, recipients, emailOwner, home, senders, shown, crashes>>

(* startCodePairing: one statement *)
InsertCodeSession(s) ==
    /\ ~Exists(s)
    /\ session' = [session EXCEPT ![s] =
          [NoRow EXCEPT !.kind = "code", !.expiresAt = clock + Lifetime]]
    /\ UNCHANGED <<clock, recipients, emailOwner, home, senders, shown, req, crashes>>

(* claimCodePairing *)

ReadForClaim(r, s, a) ==
    /\ req[r].pc = "idle"
    /\ session[s].kind = "code" /\ ~Expired(s)
    /\ ~session[s].claimed /\ ~session[s].approved
    /\ req' = [req EXCEPT ![r] =
          [Idle EXCEPT !.pc = "write_claim", !.session = s, !.agent = a]]
    /\ UNCHANGED <<clock, tables, shown, crashes>>

\* Mutant: a claim starts the session over.
WriteFreshClaim(r) ==
    /\ req[r].pc = "write_claim"
    /\ session' = [session EXCEPT ![req[r].session] =
          [@ EXCEPT !.agent = req[r].agent, !.claimed = TRUE, !.approved = FALSE]]
    /\ Finish(r)
    /\ UNCHANGED <<clock, recipients, emailOwner, home, senders, shown, crashes>>

\* UPDATE ... WHERE id = ?: whatever was claimed or approved meanwhile.
WriteClaim(r) ==
    /\ req[r].pc = "write_claim"
    /\ session' = [session EXCEPT ![req[r].session] =
          [@ EXCEPT !.agent = req[r].agent, !.claimed = TRUE]]
    /\ Finish(r)
    /\ UNCHANGED <<clock, recipients, emailOwner, home, senders, shown, crashes>>

-----------------------------------------------------------------------------
(* The phone: it polls the status until it can show a sender, then approves. *)

ShowSender(s) ==
    /\ Status(s) \in {"pending", "claimed"}
    /\ session[s].agent # NoAgent
    /\ shown[s] = NoAgent
    /\ shown' = [shown EXCEPT ![s] = session[s].agent]
    /\ UNCHANGED <<clock, tables, req, crashes>>

(* approvePairing *)

\* verifyDeviceRequest reads the recipient of the device.
RequestApproval(r, d, s) ==
    /\ req[r].pc = "idle"
    /\ home[d] # NoRecipient
    /\ shown[s] # NoAgent
    /\ req' = [req EXCEPT ![r] =
          [Idle EXCEPT !.pc = "read_session", !.session = s, !.shown = shown[s],
                       !.device = d, !.from = home[d]]]
    /\ UNCHANGED <<clock, tables, shown, crashes>>

\* Mutant: a session without a recipient does not take the device's.
ReadForApprovalByLink(r) ==
    /\ req[r].pc = "read_session"
    /\ LET s == req[r].session
       IN  IF Exists(s) /\ session[s].agent # NoAgent /\ ~Expired(s) /\ ~session[s].approved
           THEN req' = [req EXCEPT ![r] =
                  [@ EXCEPT !.pc = IF session[s].recipient = req[r].from
                                   THEN "insert_sender" ELSE "move_device",
                            !.agent = session[s].agent, !.recipient = session[s].recipient]]
           ELSE Finish(r)
    /\ UNCHANGED <<clock, tables, shown, crashes>>

\* A session with a recipient pairs with that one, moving the device there: the
\* link's secret has shown that the device holds the recipient's email.
ReadForApproval(r) ==
    /\ req[r].pc = "read_session"
    /\ LET s == req[r].session
           owner == session[s].recipient
       IN  IF /\ Exists(s) /\ session[s].agent # NoAgent
              /\ ~Expired(s) /\ ~session[s].approved
              /\ owner \in {NoRecipient, req[r].from} \/ session[s].kind = "email"
           THEN req' = [req EXCEPT ![r] =
                  [@ EXCEPT !.pc = IF owner \in {NoRecipient, req[r].from}
                                   THEN "insert_sender" ELSE "move_device",
                            !.agent = session[s].agent,
                            !.recipient = IF owner = NoRecipient THEN req[r].from ELSE owner]]
           ELSE Finish(r)
    /\ UNCHANGED <<clock, tables, shown, crashes>>

\* UPDATE ... WHERE recipient_id is still the one read; its effect is not checked.
MoveDevice(r) ==
    /\ req[r].pc = "move_device"
    /\ home' = [home EXCEPT ![req[r].device] = IF @ = req[r].from THEN req[r].recipient ELSE @]
    /\ Goto(r, "insert_sender")
    /\ UNCHANGED <<clock, recipients, emailOwner, session, senders, shown, crashes>>

InsertSender(r, i) ==
    /\ req[r].pc = "insert_sender"
    /\ \A x \in senders : x.id # i
    /\ senders' = senders \cup
          {[id |-> i, recipient |-> req[r].recipient, agent |-> req[r].agent,
            session |-> req[r].session, shown |-> req[r].shown]}
    /\ req' = [req EXCEPT ![r] = [@ EXCEPT !.pc = "finish_session", !.sender = i]]
    /\ UNCHANGED <<clock, recipients, emailOwner, home, session, shown, crashes>>

\* Mutant: the session keeps the recipient it had.
FinishKeepingRecipient(r) ==
    /\ req[r].pc = "finish_session"
    /\ session' = [session EXCEPT ![req[r].session] =
          [@ EXCEPT !.sender = req[r].sender, !.approved = TRUE]]
    /\ Finish(r)
    /\ UNCHANGED <<clock, recipients, emailOwner, home, senders, shown, crashes>>

\* UPDATE ... WHERE id = ?: whatever was approved meanwhile.
FinishSession(r) ==
    /\ req[r].pc = "finish_session"
    /\ session' = [session EXCEPT ![req[r].session] =
          [@ EXCEPT !.recipient = req[r].recipient, !.sender = req[r].sender, !.approved = TRUE]]
    /\ Finish(r)
    /\ UNCHANGED <<clock, recipients, emailOwner, home, senders, shown, crashes>>

-----------------------------------------------------------------------------
(* registerDevice *)

\* Without a recipient the device gets one of its own.
RegisterAlone(r) ==
    /\ req[r].pc = "idle"
    /\ req' = [req EXCEPT ![r] = [Idle EXCEPT !.pc = "first_recipient"]]
    /\ UNCHANGED <<clock, tables, shown, crashes>>

\* assertRegistrationPairingProof: the device holds the session's link.
RegisterWithLink(r, s) ==
    /\ req[r].pc = "idle"
    /\ session[s].kind = "email" /\ ~Expired(s) /\ ~session[s].approved
    /\ req' = [req EXCEPT ![r] =
          [Idle EXCEPT !.pc = "insert_device", !.recipient = session[s].recipient]]
    /\ UNCHANGED <<clock, tables, shown, crashes>>

InsertDevice(r, d) ==
    /\ req[r].pc = "insert_device"
    /\ home[d] = NoRecipient
    /\ home' = [home EXCEPT ![d] = req[r].recipient]
    /\ Finish(r)
    /\ UNCHANGED <<clock, recipients, emailOwner, session, senders, shown, crashes>>

-----------------------------------------------------------------------------

\* The worker is stopped, or the next statement fails, between two statements.
Crash(r) ==
    /\ req[r].pc # "idle"
    /\ crashes < MaxCrashes
    /\ crashes' = crashes + 1
    /\ Finish(r)
    /\ UNCHANGED <<clock, tables, shown>>

Tick ==
    /\ clock < MaxClock
    /\ clock' = clock + 1
    /\ UNCHANGED <<tables, shown, req, crashes>>

StartStep(r) ==
    \/ \E a \in Agent, e \in Email : ReadEmail(r, a, e)
    \/ \E rcp \in Recipient : InsertRecipient(r, rcp)
    \/ InsertEmail(r)
    \/ \E s \in Session : InsertEmailSession(r, s)
    \/ \E s \in Session, a \in Agent : ReadForClaim(r, s, a)
    \/ WriteClaim(r)

ApproveStep(r) ==
    \/ \E d \in Device, s \in Session : RequestApproval(r, d, s)
    \/ ReadForApproval(r)
    \/ MoveDevice(r)
    \/ \E i \in SenderId : InsertSender(r, i)
    \/ FinishSession(r)

RegisterStep(r) ==
    \/ RegisterAlone(r)
    \/ \E s \in Session : RegisterWithLink(r, s)
    \/ \E d \in Device : InsertDevice(r, d)

Next ==
    \/ \E r \in Request : StartStep(r) \/ ApproveStep(r) \/ RegisterStep(r) \/ Crash(r)
    \/ \E s \in Session : InsertCodeSession(s) \/ ShowSender(s)
    \/ Tick

Spec == Init /\ [][Next]_vars

-----------------------------------------------------------------------------
\* The tables and requests hold values of their types.
PairingTypeOK ==
    /\ clock \in Nat
    /\ recipients \subseteq Recipient
    /\ emailOwner \in [Email -> Recipient \cup {NoRecipient}]
    /\ home \in [Device -> Recipient \cup {NoRecipient}]
    /\ session \in [Session -> SessionType]
    /\ senders \subseteq SenderType
    /\ shown \in [Session -> Agent \cup {NoAgent}]
    /\ req \in [Request -> RequestType]
    /\ crashes \in Nat

\* Whatever refers to a recipient refers to one that is stored, wherever a request
\* is cut off: the row comes before its first use (pairing-service.ts:71-81,
\* device-service.ts:17-37).
RecipientsExist ==
    /\ \A e \in Email : emailOwner[e] \in recipients \cup {NoRecipient}
    /\ \A d \in Device : home[d] \in recipients \cup {NoRecipient}
    /\ \A s \in Session : session[s].recipient \in recipients \cup {NoRecipient}
    /\ \A x \in senders : x.recipient \in recipients

\* A session started by email pairs its sender with the owner of the address, also
\* when devices of other recipients approve it at the same time
\* (pairing-service.ts:161-175, 187-192).
EmailPairsItsOwner ==
    /\ \A s \in Session :
          session[s].kind = "email" => session[s].recipient = emailOwner[session[s].email]
    /\ \A x \in senders :
          session[x.session].kind = "email" => x.recipient = session[x.session].recipient

\* What a paired session names is a stored sender, paired through this session
\* with the recipient it names (pairing-service.ts:173-192).
PairedNamesItsSender ==
    \A s \in Session : session[s].approved =>
        \E x \in senders : /\ x.id = session[s].sender
                           /\ x.session = s
                           /\ x.recipient = session[s].recipient

\* What an agent polls only moves forward, although claims and approvals write over
\* each other (pairing-service.ts:118-123, 187-192, 198-214).
Rank(status) ==
    CASE status = "not_found" -> 0
      [] status = "pending"   -> 1
      [] status = "claimed"   -> 2
      [] status = "paired"    -> 3
      [] status = "expired"   -> 4
StatusMovesForward == [][\A s \in Session : Rank(Status(s)) <= Rank(Status(s)')]_vars

=============================================================================
